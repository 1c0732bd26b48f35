------------------------------ MODULE Learning ------------------------------
(***************************************************************************)
(* From the first lesson to the certificate: course-service (Catalog),     *)
(* enrollment-service (Progress), certificate-service (Certificates) and   *)
(* the gateway (LessonGateway) together, for one learner and one course.   *)
(* They call each other over HTTP; the completion travels over the bus.    *)
(***************************************************************************)
EXTENDS LessonGateway

CONSTANTS MaxCalls,     \* requests of the learner and the staff (a bound)
          MaxMishaps    \* failing calls and stops of a process (a bound)

ASSUME LearnBoundsAssumption == MaxCalls \in Nat /\ MaxMishaps \in Nat

VARIABLES calls, mishaps,
          overlapped    \* history: the handlers of which kind ever overlapped

vars == <<catalogVars, progressVars, certVars, gatewayVars, calls, mishaps, overlapped>>

Init ==
  /\ CatalogInit /\ ProgressInit /\ CertInit /\ GatewayInit
  /\ calls = 0 /\ mishaps = 0 /\ overlapped = {}

InCatalog(A) == A /\ UNCHANGED <<progressVars, certVars, gatewayVars>>
InProgress(A) == A /\ UNCHANGED <<catalogVars, certVars, gatewayVars>>
InCertificates(A) == A /\ UNCHANGED <<catalogVars, progressVars, gatewayVars>>
InGateway(A) == A /\ UNCHANGED <<catalogVars, progressVars, certVars>>

remember == overlapped' = overlapped \cup {k \in {"edits", "requests"} :
              Cardinality(IF k = "edits" THEN edits' ELSE requests') > 1}

Call ==
  /\ calls < MaxCalls /\ calls' = calls + 1
  /\ \/ InCatalog(CatalogRequest)
     \/ InProgress(ProgressRequest)
     \/ InCertificates(CertRequest)
     \/ InGateway(GatewayRequest)
  /\ UNCHANGED mishaps
  /\ remember

GoOn ==
  /\ \/ InCatalog(CatalogStep)
     \/ InProgress(ProgressStep)
     \/ InCertificates(CertStep)
     \/ InGateway(GatewayStep)
  /\ UNCHANGED <<calls, mishaps>>
  /\ remember

Mishap ==
  /\ mishaps < MaxMishaps /\ mishaps' = mishaps + 1
  /\ \/ InCatalog(loseEdits)
     \/ InProgress(loseRequests)
     \/ InCertificates(loseIssues)
     \/ InGateway(loseReads)
  /\ UNCHANGED calls
  /\ remember

Next == Call \/ GoOn \/ Mishap

Spec == Init /\ [][Next]_vars

continuing(A) == A /\ UNCHANGED <<calls, mishaps>> /\ remember

\* The services run their handlers to the end.  The bus hands a completion to
\* those who are connected and never again (event-bus.ts:34, 50-51), so once
\* something stopped nothing is owed.  Learners and staff owe nothing.
Fairness ==
  /\ \A l \in Ids :
       WF_vars(continuing(InProgress(\E q \in requests : q.lesson = l /\ requestSteps(q))))
  /\ \A via \in Via :
       WF_vars(continuing(InCertificates(\E i \in issues : i.via = via /\ issueSteps(i))))
  /\ WF_vars(mishaps = 0 /\ continuing(InCertificates(deliverCompleted)))

FairSpec == Spec /\ Fairness

-----------------------------------------------------------------------------
(* Properties                                                              *)

LearnTypeOK ==
  /\ CatalogTypeOK /\ ProgressTypeOK /\ CertTypeOK /\ GatewayTypeOK
  /\ calls \in 0..MaxCalls /\ mishaps \in 0..MaxMishaps
  /\ overlapped \subseteq {"edits", "requests"}

\* A lesson that was removed is never restored: once edited, always edited.
edited == rows \cap Lessons # InitialRows \cap Lessons \/ removed \cap Lessons # {}

\* "A certificate is a consequence of finishing the last lesson"
\* (certificates.service.ts:33): whatever overlaps, fails or is delivered
\* twice, its holder has completed the course, and unless lessons were added
\* or removed, with as many records as it has lessons: with every lesson, if
\* the records are of lessons of the course, which nobody asks.
CertificatesAreEarned ==
  /\ hasCert => completedAt
  /\ completedAt => \/ edited
                    \/ Cardinality(completed) >= Cardinality(liveLessons)
  /\ completedAt /\ completed \subseteq Lessons => edited \/ liveLessons \subseteq completed

\* A completion is announced, or its handler is about to, unless a process
\* stopped or the bus failed in between; nothing else is announced.
CompletionsAreAnnounced ==
  /\ completedAt => \/ announced > 0 \/ mishaps > 0
                    \/ \E q \in requests : q.at = "announce"
  /\ announced > 0 => completedAt

\* "Cached percent from the enrollment row; progress-service keeps it fresh"
\* (enrollments.service.ts:66): so it is once the requests are through, if no
\* two overlapped, none failed, the course was not edited and no lesson of it
\* was completed under another course.  Overlapping completions may leave an
\* older percentage.
PercentIsFresh ==
  requests = {} /\ "requests" \notin overlapped /\ mishaps = 0 /\ ~edited /\ strayed = {} =>
    percent = percentOf(Cardinality(completed), Cardinality(liveLessons))

\* "Denormalised counters kept in sync by the service" (schema.prisma of
\* course-service): so it is once the edits are through, if no two overlapped
\* and none failed.
CountersFollowTheLessons ==
  edits = {} /\ "edits" \notin overlapped /\ mishaps = 0 =>
    lessonCount = Cardinality(liveLessons)

\* The learner has no access, and nothing that began before is in flight.
shut == /\ status \in {"none", "REVOKED"}
        /\ requests = {}
        /\ \A r \in reads : r.matched => ~r.entitled

\* From then on only a new enrolment opens the course: finishing lessons does
\* not, failing calls do not, and no lesson but a preview is given out to a read
\* whose path the gateway matched.  (To the others the query says what they are
\* entitled to, against main.ts:57-58: "The browser cannot set this itself
\* because we overwrite the query parameter.")
ShutStaysShut ==
  [][shut => /\ shut' \/ status' = "ACTIVE"
             /\ \A o \in opened' \ opened : o.matched => o.lesson \in Previews]_vars

\* "A replayed event must not mint a second serial for the same achievement"
\* (certificates.service.ts:49-50): the serial on somebody's wall stays the
\* one the row has, and one that was revoked is never good again.
SerialsAreStable ==
  [][hasCert => /\ cert'.serial = cert.serial
                /\ cert.status = "REVOKED" => cert'.status = "REVOKED"]_vars

\* The four services together keep what Diploma promises: every step does one
\* thing of it, or nothing a learner could see.  Behind it are stale reads of the
\* curriculum, overlapping completions, repeated events and a claim that
\* overtakes them.
Promise ==
  INSTANCE Diploma WITH
    Ids      <- Ids,
    Lessons  <- Lessons,
    Syllabus <- InitialRows \cap Lessons,
    done     <- completed,
    course   <- liveLessons,
    finished <- completedAt,
    told     <- announced > 0,
    diploma  <- cert

DiplomasAreHonest == Promise!Spec

\* Who finishes gets the certificate without asking for it, as long as nothing
\* fails or overlaps, the course is not edited and access is not withdrawn.
quiet == /\ mishaps = 0 /\ "requests" \notin overlapped
         /\ ~edited /\ status # "REVOKED"

FinishersAreCertified == []quiet => (completedAt ~> hasCert)
=============================================================================
