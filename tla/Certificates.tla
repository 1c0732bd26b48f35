---------------------------- MODULE Certificates ----------------------------
(***************************************************************************)
(* certificate-service/src/certificates: the certificate of one learner    *)
(* for one course.                                                         *)
(*                                                                         *)
(* It is issued when the event progress.course_completed arrives, or when  *)
(* the learner claims it.  Either way the handler looks for a certificate, *)
(* asks enrollment-service for the percentage and auth- and course-service *)
(* for the names, and then creates the row under the unique index on       *)
(* (userId, courseId).  The subscriber swallows every error of this, so    *)
(* the event is neither retried nor dead-lettered.                         *)
(*                                                                         *)
(* Left out: what is printed on the certificate, the log of verifications, *)
(* certificate.issued (no subscriber), and rows that somebody edited       *)
(* outside the application, which is what the signature is for.            *)
(***************************************************************************)
EXTENDS Progress

CONSTANT MaxDeliveries   \* deliveries of course_completed (a bound)

VARIABLES cert,          \* the row: status and serial
          minted,        \* serials created so far
          issues,        \* issue handlers in flight: [via, at]
          delivered      \* deliveries so far

certVars == <<cert, minted, issues, delivered>>

NoCert == [status |-> "none", serial |-> 0]
Cert == [status : {"none", "ISSUED", "REVOKED"}, serial : Nat]
Via == {"event", "claim"}    \* one handler of each kind at a time (a bound)
Issue == [via : Via, at : {"progress", "profile", "create"}]

ASSUME DeliveriesAssumption == MaxDeliveries \in Nat

CertInit ==
  /\ cert = NoCert
  /\ minted = 0
  /\ issues = {}
  /\ delivered = 0

hasCert == cert.status # "none"

moves(i, at) == issues' = (issues \ {i}) \cup {[i EXCEPT !.at = at]}

-----------------------------------------------------------------------------

\* The look-up at the head of issue(): an existing one, revoked or not, is
\* the answer.
issue(via) ==
  /\ \A i \in issues : i.via # via
  /\ issues' = IF hasCert THEN issues ELSE issues \cup {[via |-> via, at |-> "progress"]}
  /\ UNCHANGED <<cert, minted>>

claim == ~hasCert /\ issue("claim") /\ UNCHANGED delivered

\* The envelope of a completion reaches the subscriber, perhaps again.
deliverCompleted ==
  /\ announced > 0
  /\ delivered < MaxDeliveries
  /\ delivered' = delivered + 1
  /\ issue("event")

\* Not entitled or not at 100 % is refused.
fetchProgress(i) ==
  /\ i.at = "progress"
  /\ IF isEntitled /\ percent >= 100 THEN moves(i, "profile") ELSE issues' = issues \ {i}
  /\ UNCHANGED <<cert, minted, delivered>>

\* getSummary answers for unpublished and deleted courses as well.
fetchUserAndCourse(i) ==
  /\ i.at = "profile"
  /\ moves(i, "create")
  /\ UNCHANGED <<cert, minted, delivered>>

\* Mutation: upsert, which replaces the serial of a certificate that is there.
upsertCertificate(i) ==
  /\ i.at = "create"
  /\ minted' = minted + 1
  /\ cert' = [status |-> "ISSUED", serial |-> minted + 1]
  /\ issues' = issues \ {i}
  /\ UNCHANGED delivered

\* The unique index makes the second create fail.
createCertificate(i) ==
  /\ i.at = "create"
  /\ IF hasCert THEN UNCHANGED <<cert, minted>>
     ELSE /\ minted' = minted + 1
          /\ cert' = [status |-> "ISSUED", serial |-> minted + 1]
  /\ issues' = issues \ {i}
  /\ UNCHANGED delivered

revoke ==
  /\ hasCert
  /\ cert' = [cert EXCEPT !.status = "REVOKED"]
  /\ UNCHANGED <<minted, issues, delivered>>

\* What a stranger with the serial is told.
verify(serial) == hasCert /\ cert.serial = serial /\ cert.status # "REVOKED"

-----------------------------------------------------------------------------

CertRequest == claim \/ revoke

issueSteps(i) == fetchProgress(i) \/ fetchUserAndCourse(i) \/ createCertificate(i)

CertStep == deliverCompleted \/ \E i \in issues : issueSteps(i)

\* A call fails, or the process stops.  A completion published while it is not
\* there, or not yet handed over when it goes, need never come (Learning!Fairness).
loseIssues ==
  /\ issues' \in SUBSET issues
  /\ UNCHANGED <<cert, minted, delivered>>

-----------------------------------------------------------------------------
(* Properties                                                              *)

CertTypeOK ==
  /\ cert \in Cert
  /\ minted \in Nat
  /\ issues \subseteq Issue
  /\ delivered \in 0..MaxDeliveries
=============================================================================
