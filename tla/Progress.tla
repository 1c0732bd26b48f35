------------------------------ MODULE Progress ------------------------------
(***************************************************************************)
(* enrollment-service/src/progress: how far one learner has come in one    *)
(* course.                                                                 *)
(*                                                                         *)
(* completeLesson writes the lesson's record, then recomputes the cached   *)
(* percentage: the records from its own database and the curriculum from   *)
(* course-service are read side by side, then the enrollment row, then     *)
(* that row is written and the event published.  Other requests, edits of  *)
(* the course and refunds may come between any two of these.               *)
(*                                                                         *)
(* A request names a course and a lesson, and nobody asks course-service   *)
(* whether the one belongs to the other: any id is recorded, and counts    *)
(* for the course it was recorded under.  There is one record for a        *)
(* learner and an id, filed under the course that was named first; other   *)
(* courses of the learner meet this one in it, by fileElsewhere and        *)
(* completeElsewhere.                                                      *)
(*                                                                         *)
(* Of the enrollment row the model keeps status, progressPercent and       *)
(* whether completedAt is set; the writes of the payment events and of     *)
(* support (EnrollmentService) appear as openAccess and closeAccess.       *)
(* progress.lesson_completed has no subscriber and is left out, and so are *)
(* positions in a video.                                                   *)
(***************************************************************************)
EXTENDS Catalog

CONSTANT Others   \* ids that are no lesson of this course: of another, or of nothing

ASSUME OthersAssumption ==
  IsFiniteSet(Others) /\ Others \cap (Lessons \cup Modules) = {}

Ids == Lessons \cup Others

VARIABLES status,        \* enrollments.status, "none" without a row
          percent,       \* enrollments.progress_percent
          completedAt,   \* enrollments.completed_at is set
          record,        \* lesson_progress.status of each id, "away" where the
                         \* record is filed under another course
          requests,      \* completeLesson handlers in flight
          heartbeats,    \* ids whose savePosition is past its check
          announced,     \* envelopes of progress.course_completed published
          strayed        \* history: ids recorded here, completed under another course

progressVars == <<status, percent, completedAt, record, requests, heartbeats,
                  announced, strayed>>

Request == [lesson : Ids,
            at : {"record", "read", "readRecords", "readCurriculum", "readRow",
                  "write", "announce"},
            done : SUBSET Ids, size : Nat, was : BOOLEAN]

ProgressInit ==
  /\ status \in {"none", "ACTIVE"}
  /\ percent = 0
  /\ completedAt = FALSE
  /\ record = [l \in Ids |-> "none"]
  /\ requests = {}
  /\ heartbeats = {}
  /\ announced = 0
  /\ strayed = {}

\* No code ever sets expiresAt.
isEntitled == status \notin {"none", "REVOKED"}

\* The records of the course, whatever their lessons are.
completed == {l \in Ids : record[l] = "COMPLETED"}

\* What a request may name; the id of a lesson that is yet to be made nobody knows.
nameable == (rows \cap Lessons) \cup Others

\* Math.round((k / n) * 100)
percentOf(k, n) == IF n = 0 THEN 0 ELSE (200 * k + n) \div (2 * n)

becomes(q, r) == requests' = (requests \ {q}) \cup {r}

-----------------------------------------------------------------------------
(* completeLesson                                                          *)

\* The request is let in.  One of an id at a time (a bound).
completeLesson(l) ==
  /\ isEntitled
  /\ l \in nameable
  /\ \A q \in requests : q.lesson # l
  /\ requests' = requests \cup {[lesson |-> l, at |-> "record", done |-> {},
                                 size |-> 0, was |-> FALSE]}
  /\ UNCHANGED <<status, percent, completedAt, record, heartbeats, announced, strayed>>

\* The upsert.  Its update branch leaves the course of the record alone.
recordLesson(q) ==
  /\ q.at = "record"
  /\ record' = [record EXCEPT ![q.lesson] = IF @ = "away" THEN @ ELSE "COMPLETED"]
  /\ becomes(q, [q EXCEPT !.at = "read"])
  /\ UNCHANGED <<status, percent, completedAt, heartbeats, announced, strayed>>

\* getCourseProgress: the two reads of its Promise.all, in either order.
readRecords(q) ==
  /\ q.at \in {"read", "readRecords"}
  /\ becomes(q, [q EXCEPT !.done = completed,
                          !.at = IF @ = "read" THEN "readCurriculum" ELSE "readRow"])
  /\ UNCHANGED <<status, percent, completedAt, record, heartbeats, announced, strayed>>

readCurriculum(q) ==
  /\ q.at \in {"read", "readCurriculum"}
  /\ becomes(q, [q EXCEPT !.size = Cardinality(liveLessons),
                          !.at = IF @ = "read" THEN "readRecords" ELSE "readRow"])
  /\ UNCHANGED <<status, percent, completedAt, record, heartbeats, announced, strayed>>

\* recalculate: the enrollment row, of which only completedAt is used.
readRow(q) ==
  /\ q.at = "readRow"
  /\ becomes(q, [q EXCEPT !.was = completedAt, !.at = "write"])
  /\ UNCHANGED <<status, percent, completedAt, record, heartbeats, announced, strayed>>

percentFor(q) == percentOf(Cardinality(q.done), q.size)

\* Mutation: the fraction is not compared with the whole.
finishingHalfway(q) == percentFor(q) >= 50 /\ q.size > 0 /\ ~q.was

finishing(q) == percentFor(q) >= 100 /\ q.size > 0 /\ ~q.was

\* Mutation: the event goes out before the row is written, and is not waited for.
writeRowSilently(q) ==
  /\ q.at = "write"
  /\ percent' = percentFor(q)
  /\ completedAt' = (completedAt \/ finishing(q))
  /\ status' = IF finishing(q) THEN "COMPLETED" ELSE status
  /\ requests' = requests \ {q}
  /\ UNCHANGED <<record, heartbeats, announced, strayed>>

\* The update; COMPLETED goes over whatever the row says by now.
writeRow(q) ==
  /\ q.at = "write"
  /\ percent' = percentFor(q)
  /\ completedAt' = (completedAt \/ finishing(q))
  /\ status' = IF finishing(q) THEN "COMPLETED" ELSE status
  /\ IF finishing(q) THEN becomes(q, [q EXCEPT !.at = "announce"])
     ELSE requests' = requests \ {q}
  /\ UNCHANGED <<record, heartbeats, announced, strayed>>

publishCompleted(q) ==
  /\ q.at = "announce"
  /\ announced' = announced + 1
  /\ requests' = requests \ {q}
  /\ UNCHANGED <<status, percent, completedAt, record, heartbeats, strayed>>

-----------------------------------------------------------------------------
(* savePosition, and access that opens and closes                          *)

savePosition(l) ==
  /\ isEntitled
  /\ l \in nameable
  /\ heartbeats' = heartbeats \cup {l}
  /\ UNCHANGED <<status, percent, completedAt, record, requests, announced, strayed>>

\* Mutation: the update branch of the upsert sets the status as well.
upsertPositionStarting(l) ==
  /\ l \in heartbeats
  /\ record' = [record EXCEPT ![l] = IF @ = "away" THEN @ ELSE "STARTED"]
  /\ heartbeats' = heartbeats \ {l}
  /\ UNCHANGED <<status, percent, completedAt, requests, announced, strayed>>

\* The upsert: STARTED only where there was no record.
upsertPosition(l) ==
  /\ l \in heartbeats
  /\ record' = [record EXCEPT ![l] = IF @ = "none" THEN "STARTED" ELSE @]
  /\ heartbeats' = heartbeats \ {l}
  /\ UNCHANGED <<status, percent, completedAt, requests, announced, strayed>>

\* The same two handlers under another course of the learner.  The first makes
\* the record, and it never counts here.
fileElsewhere(l) ==
  /\ l \in nameable
  /\ record[l] = "none"
  /\ record' = [record EXCEPT ![l] = "away"]
  /\ UNCHANGED <<status, percent, completedAt, requests, heartbeats, announced, strayed>>

\* One that is there is completed where it is filed; the percentage is
\* recomputed for the course that was named.
completeElsewhere(l) ==
  /\ record[l] = "STARTED"
  /\ record' = [record EXCEPT ![l] = "COMPLETED"]
  /\ strayed' = strayed \cup {l}
  /\ UNCHANGED <<status, percent, completedAt, requests, heartbeats, announced>>

\* A payment, an enrolment in a free course or a grant.
openAccess ==
  /\ status' = "ACTIVE"
  /\ UNCHANGED <<percent, completedAt, record, requests, heartbeats, announced, strayed>>

\* A refund or a decision of support.
closeAccess ==
  /\ status # "none"
  /\ status' = "REVOKED"
  /\ UNCHANGED <<percent, completedAt, record, requests, heartbeats, announced, strayed>>

-----------------------------------------------------------------------------

ProgressRequest ==
  \/ \E l \in Ids : \/ completeLesson(l) \/ savePosition(l)
                   \/ fileElsewhere(l) \/ completeElsewhere(l)
  \/ openAccess \/ closeAccess

requestSteps(q) ==
  \/ recordLesson(q) \/ readRecords(q) \/ readCurriculum(q) \/ readRow(q)
  \/ writeRow(q) \/ publishCompleted(q)

ProgressStep ==
  \/ \E q \in requests : requestSteps(q)
  \/ \E l \in heartbeats : upsertPosition(l)

\* A call fails (the database, course-service after 4 s, the bus), or the
\* process stops: handlers end where they are.
loseRequests ==
  /\ requests # {}
  /\ requests' \in SUBSET requests \ {requests}
  /\ UNCHANGED <<status, percent, completedAt, record, heartbeats, announced, strayed>>

-----------------------------------------------------------------------------
(* Properties                                                              *)

ProgressTypeOK ==
  /\ status \in {"none", "ACTIVE", "REVOKED", "COMPLETED"}
  /\ percent \in Nat
  /\ completedAt \in BOOLEAN
  /\ record \in [Ids -> {"none", "STARTED", "COMPLETED", "away"}]
  /\ requests \subseteq Request
  /\ heartbeats \subseteq Ids
  /\ announced \in Nat
  /\ strayed \subseteq Ids
=============================================================================
