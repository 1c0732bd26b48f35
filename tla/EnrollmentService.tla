-------------------------- MODULE EnrollmentService --------------------------
(***************************************************************************)
(* enrollment-service/src/enrollments: the rows that decide who may read   *)
(* which course, and the two payment-event handlers that write them.       *)
(*                                                                         *)
(* A handler awaits twice: it looks its event up in processed_events       *)
(* (Deliver), and only then runs the transaction that inserts the ledger   *)
(* row and writes the enrollment (Commit).  Between the two, other copies  *)
(* of the same envelope, other events and support staff may act, and the   *)
(* process may stop.  Handlers are not queued behind each other, so any    *)
(* number of events, and |Copies| copies of one event, run at once.        *)
(*                                                                         *)
(* Left out: the best-effort counter bump in course-service (lines 168 and *)
(* 205), lastAccessedAt, and expiresAt, which no code in src/ ever sets.   *)
(***************************************************************************)
EXTENDS EventBus, Sequences

CONSTANTS Copies,       \* concurrent deliveries of one envelope (a bound)
          ManualOps,    \* which writes other than events a run allows
          DbErrors,     \* may the database reject a transaction
          MaxRestarts   \* how often the process may stop (a bound)

ManualOp == {"enrollFree", "grant", "revoke"}
Absent == "absent"      \* no row, no paymentId, no revokedReason

ASSUME ManualOpsType == ManualOps \subseteq ManualOp
ASSUME DbErrorsType == DbErrors \in BOOLEAN
ASSUME MaxRestartsType == MaxRestarts \in Nat

VARIABLES enrollment,   \* the enrollments table, by (userId, courseId)
          processed,    \* the processed_events table: event ids
          running,      \* handlers past their look-up: [evt, copy]
          upSince,      \* history: the first event id the present process is up for
          effects,      \* history: ids in the order their effect was applied
          restarts      \* how often the process has stopped so far

enrollVars == <<enrollment, processed, running, upSince, effects, restarts>>

Row == [status : {"ACTIVE", "REVOKED"},
        source : {"PAYMENT", "ADMIN", "FREE"},
        payment : Orders \cup {Absent},
        revokedReason : {Absent, "refund", "support"}]

NoRow == [status |-> Absent, source |-> Absent,
          payment |-> Absent, revokedReason |-> Absent]

hasRow(p) == enrollment[p].status # Absent

isEntitled(p) == hasRow(p) /\ enrollment[p].status # "REVOKED"

EnrollmentInit ==
  /\ enrollment = [p \in Pairs |-> NoRow]
  /\ processed = {}
  /\ running = {}
  /\ upSince = 1
  /\ effects = <<>>
  /\ restarts = 0

-----------------------------------------------------------------------------
(* Writes of one row                                                       *)

\* Mutation: the update branch of the upsert leaves status alone.
upsertedKeepingStatus(p, source, order) ==
  [status |-> IF hasRow(p) THEN enrollment[p].status ELSE "ACTIVE",
   source |-> IF hasRow(p) THEN enrollment[p].source ELSE source,
   payment |-> IF order = Absent THEN enrollment[p].payment ELSE order,
   revokedReason |-> Absent]

\* The row after an upsert that (re)activates it; order is Absent when the
\* caller passes no paymentId, which leaves a stored one alone.
upserted(p, source, order) ==
  [status |-> "ACTIVE",
   source |-> IF hasRow(p) THEN enrollment[p].source ELSE source,
   payment |-> IF order = Absent THEN enrollment[p].payment ELSE order,
   revokedReason |-> Absent]

\* Mutation: the update does not care whether there is a row.
revokedOrMade(p, reason) ==
  [enrollment[p] EXCEPT !.status = "REVOKED", !.revokedReason = reason]

\* updateMany: nothing to revoke where there is no row.
revoked(p, reason) ==
  IF hasRow(p)
  THEN [enrollment[p] EXCEPT !.status = "REVOKED", !.revokedReason = reason]
  ELSE NoRow

-----------------------------------------------------------------------------
(* Event handlers                                                          *)

\* Mutation: an event about somebody enrolled already is taken for a duplicate.
unseenAndNotEnrolled(evt) == evt.id \notin processed /\ ~hasRow(PairOf[evt.order])

\* The look-up before the transaction.
unseen(evt) == evt.id \notin processed

\* Mutation: the ledger has no primary key.
keyAlwaysFree(evt) == TRUE

\* The primary key of processed_events, inside the transaction.
keyIsFree(evt) == evt.id \notin processed

\* Why the transaction may abort.
mayFail(evt) == ~keyIsFree(evt) \/ DbErrors

\* A delivery reaches a handler and its look-up finds no ledger row.  (When
\* it finds one the handler returns and nothing changes.)
Deliver(evt, copy) ==
  /\ evt \in published
  /\ unseen(evt)
  /\ [evt |-> evt, copy |-> copy] \notin running
  /\ running' = running \cup {[evt |-> evt, copy |-> copy]}
  /\ UNCHANGED <<enrollment, processed, upSince, effects, restarts, busVars>>

\* The transaction commits: ledger row and enrollment in one step.
Commit(h) ==
  LET evt == h.evt
      pair == PairOf[evt.order]
  IN
  /\ keyIsFree(evt)
  /\ processed' = processed \cup {evt.id}
  /\ enrollment' = [enrollment EXCEPT ![pair] =
                      IF evt.name = "payment.completed"
                      THEN upserted(pair, "PAYMENT", evt.order)
                      ELSE revoked(pair, "refund")]
  /\ effects' = Append(effects, evt.id)
  /\ running' = running \ {h}
  /\ UNCHANGED <<upSince, restarts, busVars>>

\* The transaction aborts: the handler throws and the bus dead-letters the envelope.
Reject(h) ==
  /\ mayFail(h.evt)
  /\ deadLetter(h.evt)
  /\ running' = running \ {h}
  /\ UNCHANGED <<enrollment, processed, upSince, effects, restarts>>

\* The process stops and subscribes anew: handlers in flight are gone,
\* committed rows stay.  Redis hands an event published before to the new
\* subscription no more (upSince); the bus of production does.
Restart ==
  /\ restarts < MaxRestarts
  /\ restarts' = restarts + 1
  /\ running' = {}
  /\ upSince' = nextId
  /\ UNCHANGED <<enrollment, processed, effects, busVars>>

-----------------------------------------------------------------------------
(* Requests                                                                *)

\* createEnrollment, called by enrollFree (for a course that is free when
\* its price is read) and by grant.
createEnrollment(p, source) ==
  /\ enrollment' = [enrollment EXCEPT ![p] = upserted(p, source, Absent)]
  /\ UNCHANGED <<processed, running, upSince, effects, restarts, busVars>>

enrollFree(p) == "enrollFree" \in ManualOps /\ createEnrollment(p, "FREE")

grant(p) == "grant" \in ManualOps /\ createEnrollment(p, "ADMIN")

\* Mutation: a revocation by support is booked as a refund.
revokeAsRefund(p) ==
  /\ "revoke" \in ManualOps
  /\ hasRow(p)
  /\ enrollment' = [enrollment EXCEPT ![p] = revoked(p, "refund")]
  /\ UNCHANGED <<processed, running, upSince, effects, restarts, busVars>>

revoke(p) ==
  /\ "revoke" \in ManualOps
  /\ hasRow(p)
  /\ enrollment' = [enrollment EXCEPT ![p] = revoked(p, "support")]
  /\ UNCHANGED <<processed, running, upSince, effects, restarts, busVars>>

-----------------------------------------------------------------------------

Handle(h) == Commit(h) \/ Reject(h)

EnrollmentStep ==
  \/ \E evt \in published, copy \in Copies : Deliver(evt, copy)
  \/ \E h \in running : Handle(h)
  \/ Restart
  \/ \E p \in Pairs : enrollFree(p) \/ grant(p) \/ revoke(p)

-----------------------------------------------------------------------------
(* Properties                                                              *)

\* Types of the component's variables.
EnrollmentTypeOK ==
  /\ BusTypeOK
  /\ enrollment \in [Pairs -> Row \cup {NoRow}]
  /\ processed \subseteq Nat
  /\ running \subseteq [evt : Envelope, copy : Copies]
  /\ upSince \in Nat
  /\ effects \in Seq(Nat)
  /\ restarts \in 0..MaxRestarts

\* The ledger and the side effects agree: an event id is in processed_events
\* exactly when its effect was applied, and no effect was applied twice,
\* however many copies of the envelope ran at once and wherever a restart
\* fell (schema.prisma:85-87, enrollments.service.ts:175-179).
LedgerMatchesEffects ==
  /\ processed = {effects[i] : i \in DOMAIN effects}
  /\ \A i, j \in DOMAIN effects : effects[i] = effects[j] => i = j

\* The events whose ledger row is committed.
applied == {e \in published : e.id \in processed}

\* A row that names a payment got it from a committed payment.completed of
\* the same user and course; a row revoked for a refund got that from a
\* committed payment.refunded.  No interleaving of handlers, upserts and
\* support decisions moves a payment or a refund to somebody else's row.
RowsComeFromEvents ==
  \A p \in Pairs :
    /\ enrollment[p].payment # Absent =>
         \E e \in applied : /\ e.name = "payment.completed"
                            /\ e.order = enrollment[p].payment
                            /\ PairOf[e.order] = p
    /\ enrollment[p].revokedReason = "refund" =>
         \E e \in applied : e.name = "payment.refunded" /\ PairOf[e.order] = p
=============================================================================
