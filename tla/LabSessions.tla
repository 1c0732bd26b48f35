---------------------------- MODULE LabSessions ----------------------------
(***************************************************************************)
(* lab-service/src/labs: the lab sessions of one user, the namespace or    *)
(* container of each, the terminals on them, and the two reapers.          *)
(*                                                                         *)
(* Everything awaits the database and the driver between its steps: a      *)
(* start, a stop (several of one session may overlap), the upgrade of a    *)
(* socket, the orphan sweep.  A stop reads the row once and destroys what  *)
(* that row named.  Shutdown hooks are not enabled, so onModuleDestroy     *)
(* does not run on a signal: a replica that goes down just stops.          *)
(*                                                                         *)
(* Time passes by expire and goIdle.  External, modelled from how the      *)
(* drivers use them: the cluster or Docker daemon, of which "exists" keeps *)
(* whether the namespace or container of a session is there.               *)
(*                                                                         *)
(* Left out: the entitlement query and template look-up before a start,    *)
(* the rate limit, byte counts, lab_events, terminal bytes.                *)
(***************************************************************************)
EXTENDS Naturals, FiniteSets

CONSTANTS Sessions,     \* lab_sessions rows a user may come to have
          Drivers,      \* which LAB_DRIVER may be configured
          PsPrintsNames,\* does "docker ps -q --format {{.Names}}" print names, as
                        \* the sweep expects, or ids (then -q wins over --format)
          MaxPerUser,   \* LAB_MAX_SESSIONS_PER_USER
          MaxStarts,    \* starts in flight at once (a bound)
          Slots,        \* upgrades and terminals of one session at once (a bound)
          Timed,        \* sessions whose times run out (a bound: all, if the
                        \* behaviours are to be long enough for that)
          MaxCalls,     \* starts and stops the client asks for (a bound)
          MaxFailures,  \* calls of a driver or of the database that fail (a bound)
          MaxCrashes    \* stops of a replica (a bound)

ASSUME SessionsAssumption == IsFiniteSet(Sessions) /\ Timed \subseteq Sessions
ASSUME DriversAssumption == Drivers \subseteq {"KUBERNETES", "LOCAL_DOCKER"}
ASSUME PsAssumption == PsPrintsNames \in BOOLEAN
ASSUME LimitsAssumption == MaxPerUser \in Nat \ {0} /\ MaxStarts \in Nat \ {0}
ASSUME LabBoundsAssumption ==
  MaxCalls \in Nat /\ MaxFailures \in Nat /\ MaxCrashes \in Nat

VARIABLES driver,    \* the configured driver
          status,    \* status of the row, "none" before it exists
          handle,    \* does the row name its namespace or container
          ticket,    \* "secret", "issued" to the client, "used" (ticketUsedAt)
          exists,    \* is the namespace or container there
          due,       \* for which reason a reaper would find it overdue
          starts,    \* what the start of a session does next
          stops,     \* the stops in flight
          upgrades,  \* upgrades in flight and open terminals
          sweep,     \* the orphan sweep
          calls, failures, crashes

labVars == <<driver, status, handle, ticket, exists, due, starts, stops,
             upgrades, sweep, calls, failures, crashes>>

LabSessionStatus == {"PROVISIONING", "RUNNING", "STOPPING", "ENDED", "FAILED", "EXPIRED"}
Live == {"PROVISIONING", "RUNNING"}

\* endReason, of which only "expired" makes a difference; "other" is an idle
\* time-out, a request of the user or a closed socket.
Reason == {"expired", "other"}
Stop == [session : Sessions, reason : Reason, handle : BOOLEAN,
         at : {"queued", "mark", "destroy", "finish"}]
Upgrade == [session : Sessions, slot : Slots, at : {"use", "attach", "open"}]
NoSweep == [at |-> "none", ids |-> {}]

LabInit ==
  /\ driver \in Drivers
  /\ status = [s \in Sessions |-> "none"]
  /\ handle = [s \in Sessions |-> FALSE]
  /\ ticket = [s \in Sessions |-> "secret"]
  /\ exists = [s \in Sessions |-> FALSE]
  /\ due = [s \in Sessions |-> "no"]
  /\ starts = [s \in Sessions |-> "none"]
  /\ stops = {}
  /\ upgrades = {}
  /\ sweep = NoSweep
  /\ calls = 0 /\ failures = 0 /\ crashes = 0

live == {s \in Sessions : status[s] \in Live}

\* lastActivityAt is written: the session is not idle; the TTL runs on.
active(s) == due' = [due EXCEPT ![s] = IF @ = "expired" THEN @ ELSE "no"]

starting == {s \in Sessions : starts[s] # "none"}

request == calls < MaxCalls /\ calls' = calls + 1

-----------------------------------------------------------------------------
(* start                                                                   *)

\* Mutation: sessions still being provisioned are not counted.
atLimitOfRunning == Cardinality({s \in live : status[s] = "RUNNING"}) >= MaxPerUser

atLimit == Cardinality(live) >= MaxPerUser

\* The count is taken here, the row made later; s is the id it will get.
start(s) ==
  /\ request
  /\ status[s] = "none" /\ s \notin starting
  /\ Cardinality(starting) < MaxStarts
  /\ ~atLimit
  /\ starts' = [starts EXCEPT ![s] = "create"]
  /\ UNCHANGED <<driver, status, handle, ticket, exists, due, stops, upgrades,
                 sweep, failures, crashes>>

createSession(s) ==
  /\ starts[s] = "create"
  /\ status' = [status EXCEPT ![s] = "PROVISIONING"]
  /\ starts' = [starts EXCEPT ![s] = "provision"]
  /\ UNCHANGED <<driver, handle, ticket, exists, due, stops, upgrades, sweep,
                 calls, failures, crashes>>

\* The namespace or container is there from now on; quotas, policies and the
\* pod follow, and the driver waits for the pod to run.
provision(s) ==
  /\ starts[s] = "provision"
  /\ exists' = [exists EXCEPT ![s] = TRUE]
  /\ starts' = [starts EXCEPT ![s] = "wait"]
  /\ UNCHANGED <<driver, status, handle, ticket, due, stops, upgrades, sweep,
                 calls, failures, crashes>>

\* Written whatever the row says by now, a stop or the reaper included.
provisioned(s) ==
  /\ starts[s] = "wait"
  /\ status' = [status EXCEPT ![s] = "RUNNING"]
  /\ handle' = [handle EXCEPT ![s] = TRUE]
  /\ active(s)
  /\ starts' = [starts EXCEPT ![s] = "answer"]
  /\ UNCHANGED <<driver, ticket, exists, stops, upgrades, sweep, calls,
                 failures, crashes>>

\* A call of the driver throws, before or after it made something, or the
\* update of provisioned does.  What was made is not named by the row.
failProvision(s) ==
  /\ starts[s] \in {"provision", "wait"}
  /\ failures < MaxFailures
  /\ failures' = failures + 1
  /\ status' = [status EXCEPT ![s] = "FAILED"]
  /\ starts' = [starts EXCEPT ![s] = "none"]
  /\ UNCHANGED <<driver, handle, ticket, exists, due, stops, upgrades, sweep,
                 calls, crashes>>

\* The client gets the ticket; nothing else ever tells it.
answerStart(s) ==
  /\ starts[s] = "answer"
  /\ ticket' = [ticket EXCEPT ![s] = "issued"]
  /\ starts' = [starts EXCEPT ![s] = "none"]
  /\ UNCHANGED <<driver, status, handle, exists, due, stops, upgrades, sweep,
                 calls, failures, crashes>>

-----------------------------------------------------------------------------
(* stop                                                                    *)

\* The read at the head of stop(): only ENDED returns at once.
stopOf(s, reason) ==
  IF status[s] = "ENDED" THEN {}
  ELSE {[session |-> s, reason |-> reason, handle |-> handle[s], at |-> "mark"]}

stopGoes(t, at) == stops' = (stops \ {t}) \cup {[t EXCEPT !.at = at]}

\* POST sessions/:id/stop and DELETE sessions/:id.
userStop(s) ==
  /\ request
  /\ status[s] # "none"
  /\ stops' = stops \cup stopOf(s, "other")
  /\ UNCHANGED <<driver, status, handle, ticket, exists, due, starts, upgrades,
                 sweep, failures, crashes>>

\* Mutation: the row is left as it is until the driver is done.
markStoppingLate(t) ==
  /\ t.at = "mark"
  /\ stopGoes(t, "destroy")
  /\ UNCHANGED <<driver, status, handle, ticket, exists, due, starts, upgrades,
                 sweep, calls, failures, crashes>>

markStopping(t) ==
  /\ t.at = "mark"
  /\ status' = [status EXCEPT ![t.session] = "STOPPING"]
  /\ stopGoes(t, "destroy")
  /\ UNCHANGED <<driver, handle, ticket, exists, due, starts, upgrades, sweep,
                 calls, failures, crashes>>

\* Destroys what the row named when the stop read it; a failure is swallowed.
destroyLab(t) ==
  /\ t.at = "destroy"
  /\ \/ /\ exists' = [exists EXCEPT ![t.session] = @ /\ ~t.handle]
        /\ UNCHANGED failures
     \/ /\ t.handle /\ failures < MaxFailures
        /\ failures' = failures + 1
        /\ UNCHANGED exists
  /\ stopGoes(t, "finish")
  /\ UNCHANGED <<driver, status, handle, ticket, due, starts, upgrades, sweep,
                 calls, crashes>>

\* Mutation: endReason ends up in status.
finishStopAsReason(t) ==
  /\ t.at = "finish"
  /\ status' = [status EXCEPT ![t.session] = t.reason]
  /\ stops' = stops \ {t}
  /\ UNCHANGED <<driver, handle, ticket, exists, due, starts, upgrades, sweep,
                 calls, failures, crashes>>

finishStop(t) ==
  /\ t.at = "finish"
  /\ status' = [status EXCEPT ![t.session] =
                  IF t.reason = "expired" THEN "EXPIRED" ELSE "ENDED"]
  /\ stops' = stops \ {t}
  /\ UNCHANGED <<driver, handle, ticket, exists, due, starts, upgrades, sweep,
                 calls, failures, crashes>>

\* A look-up or update of the row throws; callers swallow it or answer 500.
failStop(t) ==
  /\ t.at # "destroy"
  /\ failures < MaxFailures
  /\ failures' = failures + 1
  /\ stops' = stops \ {t}
  /\ UNCHANGED <<driver, status, handle, ticket, exists, due, starts, upgrades,
                 sweep, calls, crashes>>

-----------------------------------------------------------------------------
(* The terminal gateway                                                    *)

\* redeemTicket up to its update: the checks.
redeemTicket(s, slot) ==
  /\ ticket[s] = "issued"
  /\ status[s] = "RUNNING"
  /\ due[s] # "expired"
  /\ \A u \in upgrades : <<u.session, u.slot>> # <<s, slot>>
  /\ upgrades' = upgrades \cup {[session |-> s, slot |-> slot, at |-> "use"]}
  /\ UNCHANGED <<driver, status, handle, ticket, exists, due, starts, stops,
                 sweep, calls, failures, crashes>>

\* Mutation: the ticket is not marked as used.
useTicketAgain(u) ==
  /\ u.at = "use"
  /\ active(u.session)
  /\ upgrades' = (upgrades \ {u}) \cup {[u EXCEPT !.at = "attach"]}
  /\ UNCHANGED <<driver, status, handle, ticket, exists, starts, stops, sweep, calls,
                 failures, crashes>>

useTicket(u) ==
  /\ u.at = "use"
  /\ ticket' = [ticket EXCEPT ![u.session] = "used"]
  /\ active(u.session)
  /\ upgrades' = (upgrades \ {u}) \cup {[u EXCEPT !.at = "attach"]}
  /\ UNCHANGED <<driver, status, handle, exists, starts, stops, sweep, calls,
                 failures, crashes>>

\* exec into a namespace that is gone throws; docker exec starts and exits.
attach(u) ==
  /\ u.at = "attach"
  /\ exists[u.session] \/ driver = "LOCAL_DOCKER"
  /\ upgrades' = (upgrades \ {u}) \cup {[u EXCEPT !.at = "open"]}
  /\ UNCHANGED <<driver, status, handle, ticket, exists, due, starts, stops,
                 sweep, calls, failures, crashes>>

\* The update or the attach throws, or the client left before the attach
\* returned and its close event found no handler: nothing stops the session.
loseUpgrade(u) ==
  /\ u.at \in {"use", "attach"}
  /\ upgrades' = upgrades \ {u}
  /\ UNCHANGED <<driver, status, handle, ticket, exists, due, starts, stops,
                 sweep, calls, failures, crashes>>

\* The heartbeat: terminal traffic since the last one.
touch(u) ==
  /\ u.at = "open" /\ due[u.session] = "idle"
  /\ active(u.session)
  /\ UNCHANGED <<driver, status, handle, ticket, exists, starts, stops,
                 upgrades, sweep, calls, failures, crashes>>

\* The socket closes, or the shell exits and closes it.
teardown(u) ==
  /\ u.at = "open"
  /\ upgrades' = upgrades \ {u}
  /\ stops' = stops \cup stopOf(u.session, "other")
  /\ UNCHANGED <<driver, status, handle, ticket, exists, due, starts, sweep,
                 calls, failures, crashes>>

-----------------------------------------------------------------------------
(* The reapers                                                             *)

\* Mutations: only RUNNING sessions are looked at; only the idle clock is.
overdueRunning == {s \in live : due[s] # "no" /\ status[s] = "RUNNING"}
overdueIdle == {s \in live : due[s] = "idle"}

\* What the cron job finds overdue, and for which reason it will stop it.
overdue == {s \in live : due[s] # "no"}
dueReason(s) == IF due[s] = "expired" THEN "expired" ELSE "other"

\* The candidates are judged now and stopped one after the other.
reapExpired ==
  /\ LET queue == {[session |-> s, reason |-> dueReason(s), handle |-> FALSE,
                    at |-> "queued"] : s \in overdue}
     IN ~(queue \subseteq stops) /\ stops' = stops \cup queue
  /\ UNCHANGED <<driver, status, handle, ticket, exists, due, starts, upgrades,
                 sweep, calls, failures, crashes>>

reapNext(t) ==
  /\ t.at = "queued"
  /\ stops' = (stops \ {t}) \cup stopOf(t.session, t.reason)
  /\ UNCHANGED <<driver, status, handle, ticket, exists, due, starts, upgrades,
                 sweep, calls, failures, crashes>>

\* What listOrphans answers must begin with "lab-" or "lp-lab-" for
\* reapOrphans to destroy it.  Container names do; container ids do not, nor
\* do the session ids the Kubernetes driver answers: such a sweep changes
\* nothing and is left out.
sweepFinds == driver = "LOCAL_DOCKER" /\ PsPrintsNames

\* Mutation: sessions being stopped are spared as well.
sparedAlsoStopping == {s \in Sessions : handle[s] /\ status[s] \in Live \cup {"STOPPING"}}

\* A session whose row names no container yet adds only its id to the active
\* ones, which no container is called by.
spared == {s \in live : handle[s]}

\* On boot and every ten minutes.
reapOrphans ==
  /\ sweepFinds
  /\ sweep = NoSweep
  /\ sweep' = [at |-> "list", ids |-> spared]
  /\ UNCHANGED <<driver, status, handle, ticket, exists, due, starts, stops,
                 upgrades, calls, failures, crashes>>

orphans(ids) == {s \in Sessions : exists[s]} \ ids

listOrphans ==
  /\ sweep.at = "list"
  /\ sweep' = IF orphans(sweep.ids) = {} THEN NoSweep
              ELSE [at |-> "destroy", ids |-> orphans(sweep.ids)]
  /\ UNCHANGED <<driver, status, handle, ticket, exists, due, starts, stops,
                 upgrades, calls, failures, crashes>>

destroyOrphan(s) ==
  /\ sweep.at = "destroy" /\ s \in sweep.ids
  /\ \/ exists' = [exists EXCEPT ![s] = FALSE] /\ UNCHANGED failures
     \/ failures < MaxFailures /\ failures' = failures + 1 /\ UNCHANGED exists
  /\ sweep' = IF sweep.ids = {s} THEN NoSweep ELSE [sweep EXCEPT !.ids = @ \ {s}]
  /\ UNCHANGED <<driver, status, handle, ticket, due, starts, stops, upgrades,
                 calls, crashes>>

-----------------------------------------------------------------------------
(* Time and stops                                                          *)

expire(s) ==
  /\ s \in Timed
  /\ status[s] # "none"
  /\ due[s] # "expired"
  /\ due' = [due EXCEPT ![s] = "expired"]
  /\ UNCHANGED <<driver, status, handle, ticket, exists, starts, stops,
                 upgrades, sweep, calls, failures, crashes>>

\* Only a session that has run has a lastActivityAt.
goIdle(s) ==
  /\ s \in Timed
  /\ status[s] = "RUNNING"
  /\ due[s] = "no"
  /\ due' = [due EXCEPT ![s] = "idle"]
  /\ UNCHANGED <<driver, status, handle, ticket, exists, starts, stops,
                 upgrades, sweep, calls, failures, crashes>>

\* A replica goes down: its handlers, among them everything it was doing for
\* the sessions "down", and the terminals it held end where they are.
crash ==
  /\ crashes < MaxCrashes
  /\ crashes' = crashes + 1
  /\ \E down \in SUBSET Sessions :
       /\ starts' = [s \in Sessions |-> IF s \in down THEN "none" ELSE starts[s]]
       /\ stops' = {t \in stops : t.session \notin down}
       /\ upgrades' = {u \in upgrades : u.session \notin down}
  /\ sweep' \in {sweep, NoSweep}
  /\ UNCHANGED <<driver, status, handle, ticket, exists, due, calls, failures>>

-----------------------------------------------------------------------------
startSteps(s) == \/ createSession(s) \/ provision(s) \/ provisioned(s)
                 \/ failProvision(s) \/ answerStart(s)
stopSteps(t) == \/ markStopping(t) \/ destroyLab(t) \/ finishStop(t)
                \/ reapNext(t) \/ failStop(t)
upgradeSteps(u) == useTicket(u) \/ attach(u) \/ loseUpgrade(u)
sweepSteps == listOrphans \/ \E s \in Sessions : destroyOrphan(s)

LabNext ==
  \/ \E s \in Sessions : \/ start(s) \/ startSteps(s) \/ userStop(s)
                         \/ expire(s) \/ goIdle(s)
                         \/ \E slot \in Slots : redeemTicket(s, slot)
  \/ \E t \in stops : stopSteps(t)
  \/ \E u \in upgrades : upgradeSteps(u) \/ touch(u) \/ teardown(u)
  \/ reapExpired \/ reapOrphans \/ sweepSteps \/ crash

LabSpec == LabInit /\ [][LabNext]_labVars

\* Pending steps are taken, deadlines pass, the cron jobs run, and a terminal
\* closes when its shell is gone.  Clients and activity owe nothing.
LabFairness ==
  /\ \A s \in Sessions : WF_labVars(startSteps(s)) /\ WF_labVars(expire(s))
  /\ \A t \in Stop : WF_labVars(t \in stops /\ stopSteps(t))
  /\ WF_labVars(\E u \in upgrades : upgradeSteps(u) \/ (~exists[u.session] /\ teardown(u)))
  /\ WF_labVars(reapExpired)
  /\ WF_labVars(reapOrphans)
  /\ WF_labVars(sweepSteps)

FairLabSpec == LabSpec /\ LabFairness

-----------------------------------------------------------------------------
(* Properties                                                              *)

LabTypeOK ==
  /\ driver \in Drivers
  /\ status \in [Sessions -> LabSessionStatus \cup {"none"}]
  /\ handle \in [Sessions -> BOOLEAN]
  /\ ticket \in [Sessions -> {"secret", "issued", "used"}]
  /\ exists \in [Sessions -> BOOLEAN]
  /\ due \in [Sessions -> {"no", "idle", "expired"}]
  /\ starts \in [Sessions -> {"none", "create", "provision", "wait", "answer"}]
  /\ stops \subseteq Stop
  /\ upgrades \subseteq Upgrade
  /\ sweep \in [at : {"none", "list", "destroy"}, ids : SUBSET Sessions]
  /\ calls \in 0..MaxCalls /\ failures \in 0..MaxFailures /\ crashes \in 0..MaxCrashes

\* "You already have a lab running. End it before starting another." (labs
\* .service.ts:73): the count and the row are two steps (63-95), so starts that
\* overlap all pass the limit.  It is exceeded by those, less the one it allows
\* for, and by nothing else: not by stops, failures and crashes, nor by
\* sessions that come back from a stop too early.
LiveSessionsAreBounded ==
  Cardinality(live) < MaxPerUser + MaxStarts

\* A session that says RUNNING has its namespace or container: no stop or
\* reaper takes it away under a student.  (A sweep that finds containers and
\* overlaps a start may; in the cluster none finds any.)
RunningLabsExist ==
  ~sweepFinds =>
    \A s \in Sessions : status[s] = "RUNNING" => exists[s]

\* Upgrades of the session between the checks of redeemTicket and its update.
entering(s) == {u \in upgrades : u.session = s /\ u.at = "use"}

spent(s) == ticket[s] = "used" \/ \E u \in upgrades : u.session = s /\ u.at # "use"

\* "Exchange the one-time ticket for a session" (labs.service.ts:134): once it
\* got a terminal its ticket opens no other, now or later, but for upgrades that
\* had passed the checks by then.
SpentTicketsOpenNothing ==
  [][\A s \in Sessions :
       spent(s) /\ entering(s) = {} => ticket'[s] = "used" /\ entering(s)' = {}]_labVars

\* A session that is past its time goes down for good, also when it stopped
\* half-way, was never attached to, or came back from a stop too early.
ExpiredSessionsGoDown ==
  \A s \in Sessions : due[s] = "expired" ~> [](status[s] \notin Live)

\* Under Docker no container stays, whatever failed or stopped: what no stop
\* removes, the sweep does.
ContainersAreReclaimed ==
  driver = "LOCAL_DOCKER" =>
    \A s \in Sessions : exists[s] ~> []~exists[s]

\* In the cluster only three things can leave a namespace behind: a replica
\* that went down, a driver call that failed, and a stop that read the row
\* before it named the namespace.
undisturbed == crashes = 0 /\ failures = 0 /\ \A t \in stops : t.at = "queued" \/ t.handle

LabsAreReclaimedUnlessDisturbed ==
  []undisturbed => \A s \in Sessions : exists[s] ~> []~exists[s]

\* A namespace without an owner: no row names it and nobody is making it.
orphaned(s) == exists[s] /\ ~handle[s] /\ starts[s] = "none"

\* Where the sweep finds nothing, what lost its owner stays for good: no stop,
\* reaper, sweep or later start ever takes it away or adopts it.
OrphansStay ==
  [][\A s \in Sessions : orphaned(s) /\ ~sweepFinds => orphaned(s)']_labVars

\* "A restart leaves live containers with no owner. Clean them on boot rather
\* than paying for them until someone notices." (labs.service.ts:43-44)
OrphansAreReclaimed ==
  driver = "KUBERNETES" => \A s \in Sessions : orphaned(s) ~> ~exists[s]
=============================================================================
