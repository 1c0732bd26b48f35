------------------------------- MODULE Diploma -------------------------------
(***************************************************************************)
(* What a learner is promised, whatever services keep it: a certificate    *)
(* "is a consequence of finishing the last lesson"                         *)
(* (certificates.service.ts:33).  What was done stays done.  A course is   *)
(* finished when as much is done in it as it has lessons, and for good;    *)
(* who has finished it may be told so and get one certificate, whose       *)
(* serial never changes and which, once revoked, stays revoked.            *)
(*                                                                         *)
(* That it was the lessons of the course that were done is not promised:   *)
(* what is done is a set of ids, and only their number is looked at.       *)
(*                                                                         *)
(* The lessons of a course may be edited at any time, and what finishing   *)
(* an edited course takes is not promised.                                 *)
(***************************************************************************)
EXTENDS Naturals, FiniteSets

CONSTANTS Ids,          \* what a learner may say to have done
          Lessons,      \* lessons the course may have
          Syllabus      \* those it begins with

VARIABLES done,         \* ids the learner has done
          course,       \* lessons of the course
          edited,       \* were lessons added or removed
          finished, told,
          diploma       \* status and serial of the certificate

vars == <<done, course, edited, finished, told, diploma>>

Init ==
  /\ done = {}
  /\ course = Syllabus
  /\ edited = FALSE
  /\ finished = FALSE
  /\ told = FALSE
  /\ diploma = [status |-> "none", serial |-> 0]

Do(l) ==
  /\ done' = done \cup {l}
  /\ UNCHANGED <<course, edited, finished, told, diploma>>

Edit ==
  /\ edited' = TRUE
  /\ course' \in SUBSET Lessons
  /\ UNCHANGED <<done, finished, told, diploma>>

Finish ==
  /\ edited \/ Cardinality(done) >= Cardinality(course)
  /\ finished' = TRUE
  /\ UNCHANGED <<done, course, edited, told, diploma>>

Tell ==
  /\ finished
  /\ told' = TRUE
  /\ UNCHANGED <<done, course, edited, finished, diploma>>

Issue ==
  /\ finished
  /\ diploma.status = "none"
  /\ diploma' \in [status : {"ISSUED"}, serial : Nat]
  /\ UNCHANGED <<done, course, edited, finished, told>>

Revoke ==
  /\ diploma.status = "ISSUED"
  /\ diploma' = [diploma EXCEPT !.status = "REVOKED"]
  /\ UNCHANGED <<done, course, edited, finished, told>>

Next == (\E l \in Ids : Do(l)) \/ Edit \/ Finish \/ Tell \/ Issue \/ Revoke

Spec == Init /\ [][Next]_vars
=============================================================================
