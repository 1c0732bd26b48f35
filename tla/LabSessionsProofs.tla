------------------------- MODULE LabSessionsProofs -------------------------
(***************************************************************************)
(* For every set of sessions, limit, number of overlapping starts and      *)
(* bound: types, the limit of live sessions, that a session that says      *)
(* RUNNING has its namespace, what may be left behind and stays, and that  *)
(* a ticket opens one terminal.                                            *)
(***************************************************************************)
EXTENDS LabSessions, FiniteSetTheorems, TLAPS

-----------------------------------------------------------------------------
(* Types                                                                   *)

\* Every stop in flight of a session, before and after a step, is a Stop.
LEMMA StopsTyped ==
  ASSUME LabTypeOK, NEW s \in Sessions, NEW reason \in Reason
  PROVE  stopOf(s, reason) \subseteq Stop
  BY DEF LabTypeOK, stopOf, Stop

LEMMA TypesStep ==
  ASSUME LabTypeOK, [LabNext]_labVars
  PROVE  LabTypeOK'
<1> USE LabBoundsAssumption DEF LabTypeOK, LabSessionStatus
<1>1. ASSUME NEW s \in Sessions, start(s) PROVE LabTypeOK'
  BY <1>1 DEF start, request
<1>2. ASSUME NEW s \in Sessions, startSteps(s) PROVE LabTypeOK'
  <2>1. CASE createSession(s) BY <2>1 DEF createSession
  <2>2. CASE provision(s) BY <2>2 DEF provision
  <2>3. CASE provisioned(s) BY <2>3 DEF provisioned, active
  <2>4. CASE failProvision(s) BY <2>4 DEF failProvision
  <2>5. CASE answerStart(s) BY <2>5 DEF answerStart
  <2>6. QED BY <1>2, <2>1, <2>2, <2>3, <2>4, <2>5 DEF startSteps
<1>3. ASSUME NEW s \in Sessions, userStop(s) PROVE LabTypeOK'
  <2>1. stopOf(s, "other") \subseteq Stop BY StopsTyped DEF Reason
  <2>2. QED BY <1>3, <2>1 DEF userStop, request
<1>4. ASSUME NEW s \in Sessions, expire(s) \/ goIdle(s) PROVE LabTypeOK'
  BY <1>4 DEF expire, goIdle
<1>5. ASSUME NEW s \in Sessions, NEW slot \in Slots, redeemTicket(s, slot)
      PROVE  LabTypeOK'
  BY <1>5 DEF redeemTicket, Upgrade
<1>6. ASSUME NEW t \in stops, stopSteps(t) PROVE LabTypeOK'
  <2>0. t \in Stop /\ t.session \in Sessions /\ t.reason \in Reason BY DEF Stop
  <2>1. CASE markStopping(t) BY <2>0, <2>1 DEF markStopping, stopGoes, Stop
  <2>2. CASE destroyLab(t)
    <3>1. stops' \subseteq Stop BY <2>0, <2>2 DEF destroyLab, stopGoes, Stop
    <3>2. failures' \in 0..MaxFailures BY <2>2 DEF destroyLab
    <3>3. exists' \in [Sessions -> BOOLEAN] BY <2>0, <2>2 DEF destroyLab
    <3>4. QED BY <2>2, <3>1, <3>2, <3>3 DEF destroyLab
  <2>3. CASE finishStop(t) BY <2>0, <2>3 DEF finishStop
  <2>4. CASE reapNext(t)
    <3>1. stopOf(t.session, t.reason) \subseteq Stop BY <2>0, StopsTyped
    <3>2. QED BY <2>4, <3>1 DEF reapNext
  <2>5. CASE failStop(t) BY <2>5 DEF failStop
  <2>6. QED BY <1>6, <2>1, <2>2, <2>3, <2>4, <2>5 DEF stopSteps
<1>7. ASSUME NEW u \in upgrades, upgradeSteps(u) \/ touch(u) \/ teardown(u)
      PROVE  LabTypeOK'
  <2>0. u \in Upgrade /\ u.session \in Sessions BY DEF Upgrade
  <2>1. CASE useTicket(u) BY <2>0, <2>1 DEF useTicket, active, Upgrade
  <2>2. CASE attach(u) BY <2>0, <2>2 DEF attach, Upgrade
  <2>3. CASE loseUpgrade(u) BY <2>3 DEF loseUpgrade
  <2>4. CASE touch(u) BY <2>0, <2>4 DEF touch, active
  <2>5. CASE teardown(u)
    <3>1. stopOf(u.session, "other") \subseteq Stop BY <2>0, StopsTyped DEF Reason
    <3>2. QED BY <2>5, <3>1 DEF teardown
  <2>6. QED BY <1>7, <2>1, <2>2, <2>3, <2>4, <2>5 DEF upgradeSteps
<1>8. CASE reapExpired
  <2>1. {[session |-> s, reason |-> dueReason(s), handle |-> FALSE, at |-> "queued"]
           : s \in overdue} \subseteq Stop
    <3>1. \A s \in overdue : s \in Sessions /\ dueReason(s) \in Reason
      BY DEF overdue, live, dueReason, Reason
    <3>2. ASSUME NEW s \in overdue
          PROVE  [session |-> s, reason |-> dueReason(s), handle |-> FALSE,
                  at |-> "queued"] \in Stop
      <4>1. s \in Sessions /\ dueReason(s) \in Reason BY <3>1
      <4>2. QED BY <4>1 DEF Stop
    <3>3. QED BY <3>2
  <2>2. QED BY <1>8, <2>1 DEF reapExpired
<1>9. CASE reapOrphans
  <2>1. spared \subseteq Sessions BY DEF spared, live
  <2>2. QED BY <1>9, <2>1 DEF reapOrphans
<1>10. CASE listOrphans
  <2>1. orphans(sweep.ids) \subseteq Sessions BY DEF orphans
  <2>2. QED BY <1>10, <2>1 DEF listOrphans, NoSweep
<1>11. ASSUME NEW s \in Sessions, destroyOrphan(s) PROVE LabTypeOK'
  <2>1. failures' \in 0..MaxFailures BY <1>11 DEF destroyOrphan
  <2>2. exists' \in [Sessions -> BOOLEAN] BY <1>11 DEF destroyOrphan
  <2>3. sweep' \in [at : {"none", "list", "destroy"}, ids : SUBSET Sessions]
    BY <1>11 DEF destroyOrphan, NoSweep
  <2>4. QED BY <1>11, <2>1, <2>2, <2>3 DEF destroyOrphan
<1>12. CASE crash
  <2>1. starts' \in [Sessions -> {"none", "create", "provision", "wait", "answer"}]
    BY <1>12 DEF crash
  <2>2. stops' \subseteq Stop /\ upgrades' \subseteq Upgrade BY <1>12 DEF crash
  <2>3. sweep' \in [at : {"none", "list", "destroy"}, ids : SUBSET Sessions]
    BY <1>12 DEF crash, NoSweep
  <2>4. QED BY <1>12, <2>1, <2>2, <2>3 DEF crash
<1>13. CASE UNCHANGED labVars BY <1>13 DEF labVars
<1>14. QED
  BY <1>1, <1>2, <1>3, <1>4, <1>5, <1>6, <1>7, <1>8, <1>9, <1>10, <1>11, <1>12,
     <1>13 DEF LabNext, sweepSteps

\* Every variable of the lab service keeps its type.
THEOREM LabTypes == LabSpec => []LabTypeOK
<1>1. LabInit => LabTypeOK
  BY LabBoundsAssumption DEF LabInit, LabTypeOK, NoSweep
<1>2. LabTypeOK /\ [LabNext]_labVars => LabTypeOK' BY TypesStep
<1>3. QED BY <1>1, <1>2, PTL DEF LabSpec

-----------------------------------------------------------------------------
(* The limit                                                               *)

\* LiveSessionsAreBounded is not inductive: a start that has counted will
\* make a row, and a session that was stopped while it was provisioned comes
\* back.  Both are starts in flight, so those are counted with the live ones.
engaged == live \cup starting

EngagedSessionsAreBounded == Cardinality(engaged) < MaxPerUser + MaxStarts

LEMMA SessionSetsAreFinite ==
  /\ IsFiniteSet(live) /\ IsFiniteSet(starting) /\ IsFiniteSet(engaged)
  /\ Cardinality(live) \in Nat /\ Cardinality(starting) \in Nat
  /\ Cardinality(engaged) \in Nat
<1>1. live \in SUBSET Sessions /\ starting \in SUBSET Sessions /\ engaged \in SUBSET Sessions
  BY DEF live, starting, engaged
<1>2. IsFiniteSet(live) /\ IsFiniteSet(starting) /\ IsFiniteSet(engaged)
  BY <1>1, SessionsAssumption, FS_Subset
<1>3. QED BY <1>2, FS_CardinalityType

\* A step after which no other session is live or starting keeps the bound.
LEMMA FewerEngaged ==
  ASSUME EngagedSessionsAreBounded, engaged' \subseteq engaged
  PROVE  EngagedSessionsAreBounded'
<1>1. Cardinality(engaged') <= Cardinality(engaged)
  BY SessionSetsAreFinite, FS_Subset
<1>2. IsFiniteSet(engaged') BY SessionSetsAreFinite, FS_Subset
<1>3. Cardinality(engaged') \in Nat BY <1>2, FS_CardinalityType
<1>4. QED BY <1>1, <1>3, SessionSetsAreFinite, LimitsAssumption DEF EngagedSessionsAreBounded

\* A start is let in only below the limit, and only so many overlap.
LEMMA StartKeepsBound ==
  ASSUME LabTypeOK, NEW s \in Sessions, start(s)
  PROVE  EngagedSessionsAreBounded'
<1>1. Cardinality(live) < MaxPerUser
  BY SessionSetsAreFinite, LimitsAssumption DEF start, atLimit
<1>2. Cardinality(starting) < MaxStarts BY DEF start
<1>3. Cardinality(engaged) <= Cardinality(live) + Cardinality(starting)
  <2>1. live \cap starting \in SUBSET live OBVIOUS
  <2>2. IsFiniteSet(live \cap starting) BY <2>1, SessionSetsAreFinite, FS_Subset
  <2>3. Cardinality(live \cap starting) \in Nat BY <2>2, FS_CardinalityType
  <2>4. Cardinality(engaged) = Cardinality(live) + Cardinality(starting)
                               - Cardinality(live \cap starting)
    BY SessionSetsAreFinite, FS_Union DEF engaged
  <2>5. QED BY <2>3, <2>4, SessionSetsAreFinite
<1>4. engaged' = engaged \cup {s}
  BY DEF engaged, live, starting, start, LabTypeOK
<1>5. Cardinality(engaged \cup {s}) <= Cardinality(engaged) + 1
  <2>1. Cardinality(engaged \cup {s}) =
          IF s \in engaged THEN Cardinality(engaged) ELSE Cardinality(engaged) + 1
    BY SessionSetsAreFinite, FS_AddElement
  <2>2. Cardinality(engaged) \in Nat BY SessionSetsAreFinite
  <2>3. QED BY <2>1, <2>2
<1>6. IsFiniteSet(engaged \cup {s}) BY SessionSetsAreFinite, FS_AddElement
<1>7. Cardinality(engaged \cup {s}) \in Nat BY <1>6, FS_CardinalityType
<1>8. QED
  BY <1>1, <1>2, <1>3, <1>4, <1>5, <1>7, SessionSetsAreFinite, LimitsAssumption
  DEF EngagedSessionsAreBounded

LEMMA BoundStep ==
  ASSUME LabTypeOK, EngagedSessionsAreBounded, [LabNext]_labVars
  PROVE  EngagedSessionsAreBounded'
<1> USE DEF engaged, live, starting, LabTypeOK, Live
<1>1. ASSUME NEW s \in Sessions, start(s) PROVE EngagedSessionsAreBounded'
  BY <1>1, StartKeepsBound
<1>2. ASSUME NEW s \in Sessions, startSteps(s) PROVE engaged' \subseteq engaged
  <2>1. CASE createSession(s) BY <2>1 DEF createSession
  <2>2. CASE provision(s) BY <2>2 DEF provision
  <2>3. CASE provisioned(s) BY <2>3 DEF provisioned
  <2>4. CASE failProvision(s) BY <2>4 DEF failProvision
  <2>5. CASE answerStart(s) BY <2>5 DEF answerStart
  <2>6. QED BY <1>2, <2>1, <2>2, <2>3, <2>4, <2>5 DEF startSteps
<1>3. ASSUME NEW t \in stops, stopSteps(t) PROVE engaged' \subseteq engaged
  <2>1. CASE markStopping(t) BY <2>1 DEF markStopping
  <2>2. CASE destroyLab(t) BY <2>2 DEF destroyLab
  <2>3. CASE finishStop(t) BY <2>3 DEF finishStop
  <2>4. CASE reapNext(t) \/ failStop(t) BY <2>4 DEF reapNext, failStop
  <2>5. QED BY <1>3, <2>1, <2>2, <2>3, <2>4 DEF stopSteps
<1>4. ASSUME crash PROVE engaged' \subseteq engaged
  <2>1. live' = live BY <1>4 DEF crash
  <2>2. starting' \subseteq starting BY <1>4 DEF crash
  <2>3. QED BY <2>1, <2>2
<1>5. ASSUME UNCHANGED <<status, starts>> PROVE engaged' \subseteq engaged
  BY <1>5
<1>6. \/ \E s \in Sessions : start(s) \/ startSteps(s)
      \/ \E t \in stops : stopSteps(t)
      \/ crash
      \/ UNCHANGED <<status, starts>>
  BY DEF LabNext, labVars, userStop, expire, goIdle, redeemTicket, upgradeSteps,
         useTicket, attach, loseUpgrade, touch, teardown, reapExpired, reapOrphans,
         sweepSteps, listOrphans, destroyOrphan
<1>7. QED BY <1>1, <1>2, <1>3, <1>4, <1>5, <1>6, FewerEngaged

\* At most MaxPerUser sessions of a user are live, plus the starts that may
\* overlap less one.
THEOREM LiveSessionsAreAlwaysBounded == LabSpec => []LiveSessionsAreBounded
<1>1. LabInit => EngagedSessionsAreBounded
  <2>1. ASSUME LabInit PROVE engaged = {}
    BY <2>1 DEF LabInit, engaged, live, starting, Live
  <2>2. QED BY <2>1, FS_EmptySet, LimitsAssumption DEF EngagedSessionsAreBounded
<1>2. LabTypeOK /\ EngagedSessionsAreBounded /\ [LabNext]_labVars
      => EngagedSessionsAreBounded'
  BY BoundStep
<1>3. EngagedSessionsAreBounded => LiveSessionsAreBounded
  <2>1. live \in SUBSET engaged BY DEF engaged
  <2>2. Cardinality(live) <= Cardinality(engaged)
    BY <2>1, SessionSetsAreFinite, FS_Subset
  <2>3. QED BY <2>2, SessionSetsAreFinite, LimitsAssumption
            DEF EngagedSessionsAreBounded, LiveSessionsAreBounded
<1>4. QED BY <1>1, <1>2, <1>3, LabTypes, PTL DEF LabSpec

-----------------------------------------------------------------------------
(* Namespaces of running sessions                                          *)

\* Why no stop takes the namespace of a running session: a row names its
\* namespace only when its start is over, a stop that destroys it read the
\* name after that and has taken the row out of RUNNING, and nothing brings
\* it back, since only the start writes RUNNING.
NamesComeWithRunning ==
  \A s \in Sessions :
    /\ handle[s] => starts[s] \in {"none", "answer"} /\ status[s] # "none"
    /\ status[s] = "RUNNING" => handle[s]

StopsKnowTheName ==
  \A t \in stops :
    t.handle => /\ handle[t.session]
                /\ t.at \in {"destroy", "finish"} => status[t.session] # "RUNNING"

NamespacesInUseExist ==
  ~sweepFinds =>
    /\ sweep = NoSweep
    /\ \A s \in Sessions : starts[s] = "wait" \/ status[s] = "RUNNING" => exists[s]

RunningInv ==
  LabTypeOK /\ NamesComeWithRunning /\ StopsKnowTheName /\ NamespacesInUseExist

\* A stop that begins names what the row names.
LEMMA StopBegins ==
  ASSUME RunningInv, NEW s \in Sessions, NEW reason,
         NEW old \in SUBSET stops, stops' = old \cup stopOf(s, reason),
         UNCHANGED <<handle, status>>
  PROVE  StopsKnowTheName'
  BY DEF RunningInv, StopsKnowTheName, stopOf

LEMMA RunningStep ==
  ASSUME RunningInv, [LabNext]_labVars
  PROVE  NamesComeWithRunning' /\ StopsKnowTheName' /\ NamespacesInUseExist'
<1> USE DEF RunningInv, LabTypeOK, NamesComeWithRunning, NamespacesInUseExist, sweepFinds
<1>1. ASSUME NEW s \in Sessions, start(s)
      PROVE  NamesComeWithRunning' /\ StopsKnowTheName' /\ NamespacesInUseExist'
  BY <1>1 DEF start, StopsKnowTheName, starting
<1>2. ASSUME NEW s \in Sessions, startSteps(s)
      PROVE  NamesComeWithRunning' /\ StopsKnowTheName' /\ NamespacesInUseExist'
  <2>1. CASE createSession(s) BY <2>1 DEF createSession, StopsKnowTheName
  <2>2. CASE provision(s) BY <2>2 DEF provision, StopsKnowTheName
  <2>3. CASE provisioned(s)
    <3>1. NamesComeWithRunning' BY <2>3 DEF provisioned
    <3>2. StopsKnowTheName'
      <4>1. ~handle[s] BY <2>3 DEF provisioned
      <4>2. QED BY <2>3, <4>1 DEF provisioned, StopsKnowTheName, Stop
    <3>3. NamespacesInUseExist' BY <2>3 DEF provisioned
    <3>4. QED BY <3>1, <3>2, <3>3
  <2>4. CASE failProvision(s) BY <2>4 DEF failProvision, StopsKnowTheName
  <2>5. CASE answerStart(s) BY <2>5 DEF answerStart, StopsKnowTheName
  <2>6. QED BY <1>2, <2>1, <2>2, <2>3, <2>4, <2>5 DEF startSteps
<1>3. ASSUME NEW s \in Sessions, userStop(s)
      PROVE  NamesComeWithRunning' /\ StopsKnowTheName' /\ NamespacesInUseExist'
  <2>1. StopsKnowTheName' BY <1>3, StopBegins DEF userStop
  <2>2. QED BY <1>3, <2>1 DEF userStop
<1>4. ASSUME NEW t \in stops, stopSteps(t)
      PROVE  NamesComeWithRunning' /\ StopsKnowTheName' /\ NamespacesInUseExist'
  <2>0. t \in Stop /\ t.session \in Sessions BY DEF Stop
  <2>1. CASE markStopping(t)
    <3>1. NamesComeWithRunning' /\ NamespacesInUseExist'
      BY <2>0, <2>1 DEF markStopping
    <3>2. StopsKnowTheName'
      BY <2>0, <2>1 DEF markStopping, stopGoes, StopsKnowTheName, Stop
    <3>3. QED BY <3>1, <3>2
  <2>2. CASE destroyLab(t)
    <3>1. StopsKnowTheName'
      BY <2>0, <2>2 DEF destroyLab, stopGoes, StopsKnowTheName, Stop
    <3>2. NamespacesInUseExist'
      <4>1. t.handle => handle[t.session] /\ status[t.session] # "RUNNING"
        BY <2>2 DEF destroyLab, StopsKnowTheName
      <4>2. QED BY <2>0, <2>2, <4>1 DEF destroyLab
    <3>3. NamesComeWithRunning' BY <2>2 DEF destroyLab
    <3>4. QED BY <3>1, <3>2, <3>3
  <2>3. CASE finishStop(t)
    <3>1. NamesComeWithRunning' /\ NamespacesInUseExist'
      BY <2>0, <2>3 DEF finishStop
    <3>2. StopsKnowTheName' BY <2>0, <2>3 DEF finishStop, StopsKnowTheName, Stop
    <3>3. QED BY <3>1, <3>2
  <2>4. CASE reapNext(t)
    <3>1. StopsKnowTheName'
      <4>1. stops \ {t} \in SUBSET stops OBVIOUS
      <4>2. QED BY <2>0, <2>4, <4>1, StopBegins DEF reapNext
    <3>2. QED BY <2>4, <3>1 DEF reapNext
  <2>5. CASE failStop(t) BY <2>5 DEF failStop, StopsKnowTheName
  <2>6. QED BY <1>4, <2>1, <2>2, <2>3, <2>4, <2>5 DEF stopSteps
<1>5. ASSUME NEW u \in upgrades, teardown(u)
      PROVE  NamesComeWithRunning' /\ StopsKnowTheName' /\ NamespacesInUseExist'
  <2>1. u.session \in Sessions BY DEF Upgrade
  <2>2. StopsKnowTheName' BY <1>5, <2>1, StopBegins DEF teardown
  <2>3. QED BY <1>5, <2>2 DEF teardown
<1>6. CASE reapExpired BY <1>6 DEF reapExpired, StopsKnowTheName
<1>7. CASE reapOrphans \/ sweepSteps
  BY <1>7 DEF reapOrphans, sweepSteps, listOrphans, destroyOrphan,
              NoSweep, StopsKnowTheName
<1>8. CASE crash
  <2>1. \A s \in Sessions : starts'[s] \in {"none", starts[s]} BY <1>8 DEF crash
  <2>2. NamesComeWithRunning' BY <1>8, <2>1 DEF crash
  <2>3. StopsKnowTheName' BY <1>8 DEF crash, StopsKnowTheName
  <2>4. NamespacesInUseExist' BY <1>8, <2>1 DEF crash
  <2>5. QED BY <2>2, <2>3, <2>4
<1>9. CASE UNCHANGED <<driver, status, handle, starts, exists, stops, sweep>>
  BY <1>9 DEF StopsKnowTheName
<1>10. \/ \E s \in Sessions : start(s) \/ startSteps(s) \/ userStop(s)
       \/ \E t \in stops : stopSteps(t)
       \/ \E u \in upgrades : teardown(u)
       \/ reapExpired \/ reapOrphans \/ sweepSteps \/ crash
       \/ UNCHANGED <<driver, status, handle, starts, exists, stops, sweep>>
  BY DEF LabNext, labVars, expire, goIdle, redeemTicket, upgradeSteps, useTicket,
         attach, loseUpgrade, touch
<1>11. QED BY <1>1, <1>2, <1>3, <1>4, <1>5, <1>6, <1>7, <1>8, <1>9, <1>10

LEMMA RunningInvHolds == LabSpec => []RunningInv
<1>1. LabInit => NamesComeWithRunning /\ StopsKnowTheName /\ NamespacesInUseExist
  BY DEF LabInit, NamesComeWithRunning, StopsKnowTheName, NamespacesInUseExist
<1>2. RunningInv /\ [LabNext]_labVars
      => NamesComeWithRunning' /\ StopsKnowTheName' /\ NamespacesInUseExist'
  BY RunningStep
<1>3. RunningInv <=> LabTypeOK /\ NamesComeWithRunning /\ StopsKnowTheName
                     /\ NamespacesInUseExist
  BY DEF RunningInv
<1>4. QED BY <1>1, <1>2, <1>3, LabTypes, PTL DEF LabSpec

\* A session that says RUNNING has its namespace or container, whatever stops,
\* reapers, failures and crashes overlap, if only the sweep finds nothing, as in
\* the cluster.
THEOREM RunningLabsAlwaysExist == LabSpec => []RunningLabsExist
<1>1. RunningInv => RunningLabsExist
  BY DEF RunningInv, NamespacesInUseExist, RunningLabsExist
<1>2. QED BY <1>1, RunningInvHolds, PTL

-----------------------------------------------------------------------------
(* What is left behind                                                     *)

\* A namespace or container is named by its row, or its start still waits for
\* it, as long as no replica went down and no call failed.
NamespacesHaveOwners ==
  crashes = 0 /\ failures = 0 =>
    \A s \in Sessions : exists[s] => handle[s] \/ starts[s] = "wait"

LEMMA OwnersStep ==
  ASSUME LabTypeOK, NamespacesHaveOwners, [LabNext]_labVars
  PROVE  NamespacesHaveOwners'
<1> USE DEF LabTypeOK, NamespacesHaveOwners
<1>1. ASSUME NEW s \in Sessions, start(s) \/ startSteps(s) PROVE NamespacesHaveOwners'
  <2>1. CASE start(s) BY <2>1 DEF start, starting
  <2>2. CASE createSession(s) BY <2>2 DEF createSession
  <2>3. CASE provision(s) BY <2>3 DEF provision
  <2>4. CASE provisioned(s) BY <2>4 DEF provisioned
  <2>5. CASE failProvision(s)
    <3>1. failures' # 0 BY <2>5 DEF failProvision
    <3>2. QED BY <3>1
  <2>6. CASE answerStart(s) BY <2>6 DEF answerStart
  <2>7. QED BY <1>1, <2>1, <2>2, <2>3, <2>4, <2>5, <2>6 DEF startSteps
<1>2. ASSUME NEW t \in stops, destroyLab(t) PROVE NamespacesHaveOwners'
  <2>1. t.session \in Sessions BY DEF Stop
  <2>2. failures' = 0 => failures = 0 BY <1>2 DEF destroyLab
  <2>3. \A s \in Sessions : exists'[s] => exists[s] BY <1>2, <2>1 DEF destroyLab
  <2>4. QED BY <1>2, <2>2, <2>3 DEF destroyLab
<1>3. ASSUME NEW t \in stops, failStop(t) PROVE NamespacesHaveOwners'
  <2>1. failures' # 0 BY <1>3 DEF failStop
  <2>2. QED BY <2>1
<1>4. ASSUME NEW s \in Sessions, destroyOrphan(s) PROVE NamespacesHaveOwners'
  <2>1. failures' = 0 => failures = 0 BY <1>4 DEF destroyOrphan
  <2>2. \A r \in Sessions : exists'[r] => exists[r] BY <1>4 DEF destroyOrphan
  <2>3. QED BY <1>4, <2>1, <2>2 DEF destroyOrphan
<1>5. CASE crash
  <2>1. crashes' # 0 BY <1>5 DEF crash
  <2>2. QED BY <2>1
<1>6. CASE UNCHANGED <<handle, starts, exists, failures, crashes>>
  BY <1>6
<1>7. \/ \E s \in Sessions : start(s) \/ startSteps(s) \/ destroyOrphan(s)
      \/ \E t \in stops : destroyLab(t) \/ failStop(t)
      \/ crash
      \/ UNCHANGED <<handle, starts, exists, failures, crashes>>
  BY DEF LabNext, labVars, userStop, expire, goIdle, redeemTicket, stopSteps,
         markStopping, finishStop, reapNext, upgradeSteps, useTicket, attach,
         loseUpgrade, touch, teardown, reapExpired, reapOrphans, sweepSteps, listOrphans
<1>8. QED BY <1>1, <1>2, <1>3, <1>4, <1>5, <1>6, <1>7

\* A namespace or container loses its owner only through a replica that went
\* down or a call that failed; stops that overlap a start never do it.
OrphansTakeAnAccident ==
  \A s \in Sessions : orphaned(s) => crashes > 0 \/ failures > 0

\* So it is for any number of sessions, overlapping stops and reapers.
THEOREM OrphansAlwaysTakeAnAccident == LabSpec => []OrphansTakeAnAccident
<1>1. LabInit => NamespacesHaveOwners
  BY DEF LabInit, NamespacesHaveOwners
<1>2. LabTypeOK /\ NamespacesHaveOwners /\ [LabNext]_labVars => NamespacesHaveOwners'
  BY OwnersStep
<1>3. LabTypeOK /\ NamespacesHaveOwners => OrphansTakeAnAccident
  <2> SUFFICES ASSUME LabTypeOK, NamespacesHaveOwners, NEW s \in Sessions, orphaned(s)
               PROVE  crashes > 0 \/ failures > 0
    BY DEF OrphansTakeAnAccident
  <2>1. crashes # 0 \/ failures # 0 BY DEF NamespacesHaveOwners, orphaned
  <2>2. crashes \in Nat /\ failures \in Nat BY LabBoundsAssumption DEF LabTypeOK
  <2>3. QED BY <2>1, <2>2
<1>4. QED BY <1>1, <1>2, <1>3, LabTypes, PTL DEF LabSpec

\* Of sessions that are over, by the row, nothing is left.
Over == {"ENDED", "EXPIRED", "FAILED"}

EndedLabsAreGone == \A s \in Sessions : status[s] \in Over => ~exists[s]

\* Why: a stop that knew the name destroyed what it named before it finishes,
\* and only a row that names its namespace was stopped, whose start is over.
StopsClean ==
  /\ \A t \in stops : t.at = "finish" => ~exists[t.session]
  /\ \A s \in Sessions : status[s] \in Over \cup {"STOPPING"} => handle[s]

CleanInv == RunningInv /\ StopsClean /\ EndedLabsAreGone

LEMMA CleanStep ==
  ASSUME CleanInv, undisturbed, undisturbed', [LabNext]_labVars
  PROVE  StopsClean' /\ EndedLabsAreGone'
<1> USE DEF CleanInv, RunningInv, LabTypeOK, StopsClean, EndedLabsAreGone, Over,
            undisturbed
<1>0. ASSUME NEW t \in stops
      PROVE  t \in Stop /\ t.session \in Sessions /\ (t.at # "queued" => handle[t.session])
  BY DEF Stop, StopsKnowTheName
<1>1. ASSUME NEW s \in Sessions, start(s) \/ startSteps(s)
      PROVE  StopsClean' /\ EndedLabsAreGone'
  <2>1. CASE start(s) BY <2>1 DEF start
  <2>2. CASE createSession(s) BY <2>2 DEF createSession
  <2>3. CASE provision(s)
    <3>1. ~handle[s] BY <2>3 DEF provision, NamesComeWithRunning
    <3>2. QED BY <1>0, <2>3, <3>1 DEF provision
  <2>4. CASE provisioned(s) BY <2>4 DEF provisioned
  <2>5. CASE failProvision(s)
    <3>1. failures' # 0 BY <2>5 DEF failProvision
    <3>2. QED BY <3>1
  <2>6. CASE answerStart(s) BY <2>6 DEF answerStart
  <2>7. QED BY <1>1, <2>1, <2>2, <2>3, <2>4, <2>5, <2>6 DEF startSteps
<1>2. ASSUME NEW s \in Sessions, NEW reason, NEW old \in SUBSET stops,
             stops' = old \cup stopOf(s, reason),
             status' = status, handle' = handle, exists' = exists
      PROVE  StopsClean' /\ EndedLabsAreGone'
  <2>1. \A t \in stopOf(s, reason) : t.at = "mark" BY DEF stopOf
  <2>2. QED BY <1>2, <2>1
<1>3. ASSUME NEW s \in Sessions, userStop(s) PROVE StopsClean' /\ EndedLabsAreGone'
  BY <1>2, <1>3 DEF userStop
<1>4. ASSUME NEW t \in stops, stopSteps(t) PROVE StopsClean' /\ EndedLabsAreGone'
  <2>1. CASE markStopping(t)
    BY <1>0, <2>1 DEF markStopping, stopGoes, Stop
  <2>2. CASE destroyLab(t)
    <3>1. t.handle BY <2>2 DEF destroyLab
    <3>2. exists' = [exists EXCEPT ![t.session] = FALSE]
      <4>1. failures = 0 /\ failures' = 0 OBVIOUS
      <4>2. exists' = [exists EXCEPT ![t.session] = @ /\ ~t.handle]
        BY <2>2, <4>1 DEF destroyLab
      <4>3. QED BY <1>0, <3>1, <4>2, Zenon
    <3>3. \A r \in stops' \ stops : r.session = t.session
      BY <1>0, <2>2 DEF destroyLab, stopGoes, Stop
    <3>4. ASSUME NEW r \in stops', r.at = "finish" PROVE ~exists'[r.session]
      BY <1>0, <3>2, <3>3, <3>4
    <3>5. EndedLabsAreGone' BY <1>0, <2>2, <3>2 DEF destroyLab
    <3>6. QED BY <2>2, <3>4, <3>5 DEF destroyLab
  <2>3. CASE finishStop(t)
    <3>1. handle[t.session] /\ ~exists[t.session] BY <1>0, <2>3 DEF finishStop
    <3>2. QED BY <1>0, <2>3, <3>1 DEF finishStop
  <2>4. CASE reapNext(t)
    <3>1. stops \ {t} \in SUBSET stops OBVIOUS
    <3>2. QED BY <1>0, <1>2, <2>4, <3>1 DEF reapNext
  <2>5. CASE failStop(t) BY <2>5 DEF failStop
  <2>6. QED BY <1>4, <2>1, <2>2, <2>3, <2>4, <2>5 DEF stopSteps
<1>5. ASSUME NEW u \in upgrades, teardown(u) PROVE StopsClean' /\ EndedLabsAreGone'
  <2>1. u.session \in Sessions BY DEF Upgrade
  <2>2. QED BY <1>2, <1>5, <2>1 DEF teardown
<1>6. CASE reapExpired BY <1>6 DEF reapExpired
<1>7. ASSUME NEW s \in Sessions, destroyOrphan(s) PROVE StopsClean' /\ EndedLabsAreGone'
  <2>1. \A r \in Sessions : exists'[r] => exists[r] BY <1>7 DEF destroyOrphan
  <2>2. QED BY <1>0, <1>7, <2>1 DEF destroyOrphan
<1>8. CASE crash
  <2>1. crashes' # 0 BY <1>8 DEF crash
  <2>2. QED BY <2>1
<1>9. CASE UNCHANGED <<status, handle, exists, stops>>
  BY <1>9
<1>10. \/ \E s \in Sessions : start(s) \/ startSteps(s) \/ userStop(s) \/ destroyOrphan(s)
       \/ \E t \in stops : stopSteps(t)
       \/ \E u \in upgrades : teardown(u)
       \/ reapExpired \/ crash
       \/ UNCHANGED <<status, handle, exists, stops>>
  BY DEF LabNext, labVars, expire, goIdle, redeemTicket, upgradeSteps, useTicket,
         attach, loseUpgrade, touch, reapOrphans, sweepSteps, listOrphans
<1>11. QED BY <1>1, <1>3, <1>4, <1>5, <1>6, <1>7, <1>8, <1>9, <1>10

\* Where no replica goes down, no call fails and every stop read the row after
\* it named the namespace, a session that is over has left nothing behind, for
\* any number of sessions and overlapping stops: what LabsAreReclaimedUnlessDisturbed
\* says of every moment, not only of the end.
THEOREM UndisturbedLabsLeaveNothing == LabSpec /\ []undisturbed => []EndedLabsAreGone
<1>1. LabInit => StopsClean /\ EndedLabsAreGone
  BY DEF LabInit, StopsClean, EndedLabsAreGone, Over
<1>2. /\ RunningInv /\ StopsClean /\ EndedLabsAreGone /\ undisturbed /\ undisturbed'
      /\ [LabNext]_labVars
      => StopsClean' /\ EndedLabsAreGone'
  BY CleanStep DEF CleanInv
<1>3. QED BY <1>1, <1>2, RunningInvHolds, PTL DEF LabSpec

\* What is made has a row, so no later start makes it anew.
MadeLabsHaveRows ==
  \A s \in Sessions :
    exists[s] \/ starts[s] \in {"provision", "wait", "answer"} => status[s] # "none"

LEMMA RowsStep ==
  ASSUME LabTypeOK, MadeLabsHaveRows, [LabNext]_labVars
  PROVE  MadeLabsHaveRows'
<1> USE DEF LabTypeOK, MadeLabsHaveRows
<1>1. ASSUME NEW s \in Sessions, start(s) \/ startSteps(s) PROVE MadeLabsHaveRows'
  <2>1. CASE start(s) BY <2>1 DEF start
  <2>2. CASE createSession(s) BY <2>2 DEF createSession
  <2>3. CASE provision(s) BY <2>3 DEF provision
  <2>4. CASE provisioned(s) BY <2>4 DEF provisioned
  <2>5. CASE failProvision(s) BY <2>5 DEF failProvision
  <2>6. CASE answerStart(s) BY <2>6 DEF answerStart
  <2>7. QED BY <1>1, <2>1, <2>2, <2>3, <2>4, <2>5, <2>6 DEF startSteps
<1>2. ASSUME NEW t \in stops, stopSteps(t) PROVE MadeLabsHaveRows'
  <2>1. CASE markStopping(t) BY <2>1 DEF markStopping
  <2>2. CASE destroyLab(t)
    <3>1. t.session \in Sessions BY DEF Stop
    <3>2. \A s \in Sessions : exists'[s] => exists[s] BY <2>2, <3>1 DEF destroyLab
    <3>3. QED BY <2>2, <3>2 DEF destroyLab
  <2>3. CASE finishStop(t) BY <2>3 DEF finishStop
  <2>4. CASE reapNext(t) \/ failStop(t) BY <2>4 DEF reapNext, failStop
  <2>5. QED BY <1>2, <2>1, <2>2, <2>3, <2>4 DEF stopSteps
<1>3. ASSUME NEW s \in Sessions, destroyOrphan(s) PROVE MadeLabsHaveRows'
  <2>1. \A r \in Sessions : exists'[r] => exists[r] BY <1>3 DEF destroyOrphan
  <2>2. QED BY <1>3, <2>1 DEF destroyOrphan
<1>4. CASE crash BY <1>4 DEF crash
<1>5. CASE UNCHANGED <<status, starts, exists>> BY <1>5
<1>6. \/ \E s \in Sessions : start(s) \/ startSteps(s) \/ destroyOrphan(s)
      \/ \E t \in stops : stopSteps(t)
      \/ crash
      \/ UNCHANGED <<status, starts, exists>>
  BY DEF LabNext, labVars, userStop, expire, goIdle, redeemTicket, upgradeSteps,
         useTicket, attach, loseUpgrade, touch, teardown, reapExpired, reapOrphans,
         sweepSteps, listOrphans
<1>7. QED BY <1>1, <1>2, <1>3, <1>4, <1>5, <1>6

LEMMA RowsHold == LabSpec => []MadeLabsHaveRows
<1>1. LabInit => MadeLabsHaveRows BY DEF LabInit, MadeLabsHaveRows
<1>2. LabTypeOK /\ MadeLabsHaveRows /\ [LabNext]_labVars => MadeLabsHaveRows'
  BY RowsStep
<1>3. QED BY <1>1, <1>2, LabTypes, PTL DEF LabSpec

LEMMA OrphanStep ==
  ASSUME RunningInv, MadeLabsHaveRows, [LabNext]_labVars,
         NEW s \in Sessions, orphaned(s), ~sweepFinds
  PROVE  orphaned(s)'
<1> USE DEF orphaned, LabTypeOK, RunningInv
<1>0. sweep = NoSweep /\ status[s] # "none"
  BY DEF NamespacesInUseExist, MadeLabsHaveRows
<1>1. ASSUME NEW r \in Sessions, start(r) \/ startSteps(r) PROVE orphaned(s)'
  <2>1. CASE start(r) BY <1>0, <2>1 DEF start
  <2>2. CASE createSession(r) BY <2>2 DEF createSession
  <2>3. CASE provision(r) BY <2>3 DEF provision
  <2>4. CASE provisioned(r) BY <2>4 DEF provisioned
  <2>5. CASE failProvision(r) BY <2>5 DEF failProvision
  <2>6. CASE answerStart(r) BY <2>6 DEF answerStart
  <2>7. QED BY <1>1, <2>1, <2>2, <2>3, <2>4, <2>5, <2>6 DEF startSteps
<1>2. ASSUME NEW t \in stops, destroyLab(t) PROVE orphaned(s)'
  <2>1. t.session \in Sessions BY DEF Stop
  <2>2. t.session = s => ~t.handle BY DEF StopsKnowTheName
  <2>3. exists'[s]
    <3>1. CASE t.session = s BY <1>2, <2>1, <2>2, <3>1 DEF destroyLab
    <3>2. CASE t.session # s BY <1>2, <2>1, <3>2 DEF destroyLab
    <3>3. QED BY <3>1, <3>2
  <2>4. QED BY <1>2, <2>3 DEF destroyLab
<1>3. ASSUME NEW r \in Sessions, destroyOrphan(r) PROVE orphaned(s)'
  BY <1>0, <1>3 DEF destroyOrphan, NoSweep
<1>4. CASE crash BY <1>4 DEF crash
<1>5. CASE UNCHANGED <<handle, starts, exists>> BY <1>5
<1>6. \/ \E r \in Sessions : start(r) \/ startSteps(r) \/ destroyOrphan(r)
      \/ \E t \in stops : destroyLab(t)
      \/ crash
      \/ UNCHANGED <<handle, starts, exists>>
  BY DEF LabNext, labVars, userStop, expire, goIdle, redeemTicket, stopSteps,
         markStopping, finishStop, failStop, reapNext, upgradeSteps, useTicket, attach,
         loseUpgrade, touch, teardown, reapExpired, reapOrphans, sweepSteps, listOrphans
<1>7. QED BY <1>1, <1>2, <1>3, <1>4, <1>5, <1>6

\* The leak is for good: in the cluster, and under Docker where "docker ps"
\* prints ids, a namespace or container without an owner is never taken away
\* and never gets an owner again, for any number of sessions, stops and reapers.
THEOREM OrphansAlwaysStay == LabSpec => OrphansStay
<1> DEFINE Stay == \A s \in Sessions : orphaned(s) /\ ~sweepFinds => orphaned(s)'
<1>1. RunningInv /\ MadeLabsHaveRows /\ [LabNext]_labVars => Stay
  BY OrphanStep
<1>2. OrphansStay <=> [][Stay]_labVars BY DEF OrphansStay
<1> HIDE DEF Stay
<1>3. QED BY <1>1, <1>2, RunningInvHolds, RowsHold, PTL DEF LabSpec

-----------------------------------------------------------------------------
(* Tickets                                                                 *)

\* A ticket is told once, by the one start of its session, so nothing takes a
\* used one back; only a told one is redeemed, and an upgrade is past the update
\* of redeemTicket only by using it.
TicketsAreToldOnce ==
  \A s \in Sessions : starts[s] # "none" \/ status[s] = "none" => ticket[s] = "secret"

UpgradesHaveTickets ==
  \A u \in upgrades :
    /\ ticket[u.session] # "secret"
    /\ u.at # "use" => ticket[u.session] = "used"

TicketInv == LabTypeOK /\ MadeLabsHaveRows /\ TicketsAreToldOnce /\ UpgradesHaveTickets

LEMMA TicketStep ==
  ASSUME TicketInv, [LabNext]_labVars
  PROVE  TicketsAreToldOnce' /\ UpgradesHaveTickets'
<1> USE DEF TicketInv, LabTypeOK, TicketsAreToldOnce
<1>0. \A u \in upgrades : u \in Upgrade /\ u.session \in Sessions BY DEF Upgrade
<1>1. ASSUME NEW s \in Sessions, start(s) \/ startSteps(s)
      PROVE  TicketsAreToldOnce' /\ UpgradesHaveTickets'
  <2>1. CASE start(s) BY <2>1 DEF start, UpgradesHaveTickets
  <2>2. CASE createSession(s) BY <2>2 DEF createSession, UpgradesHaveTickets
  <2>3. CASE provision(s) BY <2>3 DEF provision, UpgradesHaveTickets
  <2>4. CASE provisioned(s) BY <2>4 DEF provisioned, UpgradesHaveTickets
  <2>5. CASE failProvision(s) BY <2>5 DEF failProvision, UpgradesHaveTickets
  <2>6. CASE answerStart(s)
    <3>1. ticket[s] = "secret" /\ status[s] # "none"
      BY <2>6 DEF answerStart, MadeLabsHaveRows
    <3>2. \A u \in upgrades : u.session # s BY <3>1 DEF UpgradesHaveTickets
    <3>3. UpgradesHaveTickets' BY <1>0, <2>6, <3>2 DEF answerStart, UpgradesHaveTickets
    <3>4. TicketsAreToldOnce' BY <2>6, <3>1 DEF answerStart
    <3>5. QED BY <3>3, <3>4
  <2>7. QED BY <1>1, <2>1, <2>2, <2>3, <2>4, <2>5, <2>6 DEF startSteps
<1>2. ASSUME NEW t \in stops, markStopping(t) \/ finishStop(t)
      PROVE  TicketsAreToldOnce' /\ UpgradesHaveTickets'
  BY <1>2 DEF markStopping, finishStop, UpgradesHaveTickets
<1>3. ASSUME NEW s \in Sessions, NEW slot \in Slots, redeemTicket(s, slot)
      PROVE  TicketsAreToldOnce' /\ UpgradesHaveTickets'
  <2>1. UpgradesHaveTickets'
    <3>1. upgrades' = upgrades \cup {[session |-> s, slot |-> slot, at |-> "use"]}
      BY <1>3 DEF redeemTicket
    <3>2. ticket[s] = "issued" /\ ticket' = ticket BY <1>3 DEF redeemTicket
    <3>3. QED BY <3>1, <3>2 DEF UpgradesHaveTickets
  <2>2. QED BY <1>3, <2>1 DEF redeemTicket
<1>4. ASSUME NEW u \in upgrades, useTicket(u)
      PROVE  TicketsAreToldOnce' /\ UpgradesHaveTickets'
  <2>1. ticket[u.session] # "secret" BY DEF UpgradesHaveTickets
  <2>2. TicketsAreToldOnce' BY <1>0, <1>4, <2>1 DEF useTicket
  <2>3. \A v \in upgrades' : v \in upgrades \/ v.session = u.session
    BY <1>0, <1>4 DEF useTicket, Upgrade
  <2>4. /\ ticket'[u.session] = "used"
        /\ \A s \in Sessions : s # u.session => ticket'[s] = ticket[s]
    BY <1>0, <1>4 DEF useTicket
  <2>5. \A v \in upgrades' : ticket'[v.session] # "secret"
                             /\ (v.at # "use" => ticket'[v.session] = "used")
    BY <1>0, <2>3, <2>4 DEF UpgradesHaveTickets
  <2>6. QED BY <2>2, <2>5 DEF UpgradesHaveTickets
<1>5. ASSUME NEW u \in upgrades, attach(u)
      PROVE  TicketsAreToldOnce' /\ UpgradesHaveTickets'
  <2>1. ticket[u.session] = "used" BY <1>5 DEF attach, UpgradesHaveTickets
  <2>2. \A v \in upgrades' : v \in upgrades \/ v.session = u.session
    BY <1>0, <1>5 DEF attach, Upgrade
  <2>3. UpgradesHaveTickets' BY <1>5, <2>1, <2>2 DEF attach, UpgradesHaveTickets
  <2>4. QED BY <1>5, <2>3 DEF attach
<1>6. ASSUME NEW u \in upgrades, loseUpgrade(u) \/ teardown(u)
      PROVE  TicketsAreToldOnce' /\ UpgradesHaveTickets'
  BY <1>6 DEF loseUpgrade, teardown, UpgradesHaveTickets
<1>7. CASE crash
  <2>1. upgrades' \subseteq upgrades /\ ticket' = ticket /\ status' = status
    BY <1>7 DEF crash
  <2>2. \A s \in Sessions : starts'[s] # "none" => starts[s] # "none" BY <1>7 DEF crash
  <2>3. QED BY <2>1, <2>2 DEF UpgradesHaveTickets
<1>8. CASE UNCHANGED <<status, ticket, starts, upgrades>>
  BY <1>8 DEF UpgradesHaveTickets
<1>9. \/ \E s \in Sessions : \/ start(s) \/ startSteps(s)
                            \/ \E slot \in Slots : redeemTicket(s, slot)
      \/ \E t \in stops : markStopping(t) \/ finishStop(t)
      \/ \E u \in upgrades : useTicket(u) \/ attach(u) \/ loseUpgrade(u) \/ teardown(u)
      \/ crash
      \/ UNCHANGED <<status, ticket, starts, upgrades>>
  BY DEF LabNext, labVars, userStop, expire, goIdle, stopSteps, destroyLab, failStop,
         reapNext, upgradeSteps, touch, reapExpired, reapOrphans, sweepSteps,
         listOrphans, destroyOrphan
<1>10. QED BY <1>1, <1>2, <1>3, <1>4, <1>5, <1>6, <1>7, <1>8, <1>9

LEMMA TicketInvHolds == LabSpec => []TicketInv
<1>1. LabInit => TicketsAreToldOnce /\ UpgradesHaveTickets
  BY DEF LabInit, TicketsAreToldOnce, UpgradesHaveTickets
<1>2. TicketInv /\ [LabNext]_labVars => TicketsAreToldOnce' /\ UpgradesHaveTickets'
  BY TicketStep
<1>3. TicketInv <=> LabTypeOK /\ MadeLabsHaveRows /\ TicketsAreToldOnce
                    /\ UpgradesHaveTickets
  BY DEF TicketInv
<1>4. QED BY <1>1, <1>2, <1>3, LabTypes, RowsHold, PTL DEF LabSpec

LEMMA SpentStep ==
  ASSUME TicketInv, [LabNext]_labVars, NEW s \in Sessions, spent(s), entering(s) = {}
  PROVE  ticket'[s] = "used" /\ entering(s)' = {}
<1> USE DEF LabTypeOK, TicketInv
<1>0. \A u \in upgrades : u \in Upgrade /\ u.session \in Sessions BY DEF Upgrade
<1>1. ticket[s] = "used" BY DEF spent, UpgradesHaveTickets
<1>2. starts[s] = "none" BY <1>1 DEF TicketsAreToldOnce
<1>3. ticket'[s] = "used"
  <2>1. ASSUME NEW r \in Sessions, answerStart(r) PROVE ticket'[s] = "used"
    BY <1>1, <1>2, <2>1 DEF answerStart
  <2>2. ASSUME NEW u \in upgrades, useTicket(u) PROVE ticket'[s] = "used"
    BY <1>0, <1>1, <2>2 DEF useTicket
  <2>3. CASE UNCHANGED ticket BY <1>1, <2>3
  <2>4. \/ \E r \in Sessions : answerStart(r)
        \/ \E u \in upgrades : useTicket(u)
        \/ UNCHANGED ticket
    BY DEF LabNext, labVars, start, startSteps, createSession, provision, provisioned,
           failProvision, userStop, expire, goIdle, redeemTicket, stopSteps,
           markStopping, destroyLab, finishStop, failStop, reapNext, upgradeSteps,
           attach, loseUpgrade, touch, teardown, reapExpired, reapOrphans, sweepSteps,
           listOrphans, destroyOrphan, crash
  <2>5. QED BY <2>1, <2>2, <2>3, <2>4
<1>4. ASSUME NEW u \in upgrades', u.session = s, u.at = "use" PROVE u \in upgrades
  <2>1. ASSUME NEW r \in Sessions, NEW slot \in Slots, redeemTicket(r, slot)
        PROVE  u \in upgrades
    <3>1. r # s BY <1>1, <2>1 DEF redeemTicket
    <3>2. QED BY <1>4, <2>1, <3>1 DEF redeemTicket
  <2>2. ASSUME NEW v \in upgrades, useTicket(v) \/ attach(v) PROVE u \in upgrades
    BY <1>0, <1>4, <2>2 DEF useTicket, attach, Upgrade
  <2>3. CASE upgrades' \subseteq upgrades BY <2>3
  <2>4. \/ \E r \in Sessions : \E slot \in Slots : redeemTicket(r, slot)
        \/ \E v \in upgrades : useTicket(v) \/ attach(v)
        \/ upgrades' \subseteq upgrades
    BY DEF LabNext, labVars, start, startSteps, createSession, provision, provisioned,
           failProvision, answerStart, userStop, expire, goIdle, stopSteps,
           markStopping, destroyLab, finishStop, failStop, reapNext, upgradeSteps,
           loseUpgrade, touch, teardown, reapExpired, reapOrphans, sweepSteps,
           listOrphans, destroyOrphan, crash
  <2>5. QED BY <2>1, <2>2, <2>3, <2>4
<1>5. entering(s)' = {} BY <1>4 DEF entering
<1>6. QED BY <1>3, <1>5

\* One ticket opens one terminal, for any number of upgrades, but for upgrades
\* that had passed the checks of redeemTicket before one of them used it.
THEOREM SpentTicketsAlwaysOpenNothing == LabSpec => SpentTicketsOpenNothing
<1> DEFINE Nothing == \A s \in Sessions : spent(s) /\ entering(s) = {}
                                          => ticket'[s] = "used" /\ entering(s)' = {}
<1>1. TicketInv /\ [LabNext]_labVars => Nothing BY SpentStep
<1>2. SpentTicketsOpenNothing <=> [][Nothing]_labVars BY DEF SpentTicketsOpenNothing
<1> HIDE DEF Nothing
<1>3. QED BY <1>1, <1>2, TicketInvHolds, PTL DEF LabSpec
=============================================================================
