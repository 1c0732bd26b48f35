----------------------- MODULE EnrollmentServiceProofs -----------------------
(***************************************************************************)
(* What every step of the enrollment service, and every step of whoever    *)
(* publishes, preserves.  LedgerMatchesEffects and RowsComeFromEvents are  *)
(* not inductive alone: a handler must run for an event that was published *)
(* and the ledger must hold published ids only (KnownEvents), and ids must *)
(* be unique (FreshIds), or a second event could pass for the first.       *)
(***************************************************************************)
EXTENDS EnrollmentService, EventBusProofs, SequenceTheorems

\* Handlers and ledger rows are about events that were published.
KnownEvents ==
  /\ \A h \in running : h.evt \in published
  /\ \A id \in processed : \E e \in published : e.id = id

\* The inductive invariant.
EnrollmentInv ==
  /\ EnrollmentTypeOK
  /\ FreshIds
  /\ KnownEvents
  /\ LedgerMatchesEffects
  /\ RowsComeFromEvents

-----------------------------------------------------------------------------
(* Rows                                                                    *)

\* Neither write of a row leaves the set of rows.
LEMMA UpsertTyped ==
  ASSUME EnrollmentTypeOK, NEW p \in Pairs, NEW source \in {"PAYMENT", "ADMIN", "FREE"},
         NEW order \in Orders \cup {Absent}
  PROVE  upserted(p, source, order) \in Row
<1>1. enrollment[p] \in Row \cup {NoRow} BY DEF EnrollmentTypeOK
<1>2. enrollment[p].payment \in Orders \cup {Absent} BY <1>1 DEF Row, NoRow
<1>3. hasRow(p) => enrollment[p].source \in {"PAYMENT", "ADMIN", "FREE"}
  BY <1>1 DEF Row, NoRow, hasRow
<1>4. QED BY <1>2, <1>3 DEF upserted, Row

LEMMA RevokeTyped ==
  ASSUME EnrollmentTypeOK, NEW p \in Pairs, NEW reason \in {"refund", "support"}
  PROVE  revoked(p, reason) \in Row \cup {NoRow}
<1>1. enrollment[p] \in Row \cup {NoRow} BY DEF EnrollmentTypeOK
<1>2. hasRow(p) => enrollment[p] \in Row BY <1>1 DEF hasRow, NoRow
<1>3. QED BY <1>2 DEF revoked, Row

\* What an upsert and a revocation do to the two fields RowsComeFromEvents
\* speaks about.
LEMMA UpsertFields ==
  ASSUME NEW p, NEW source, NEW order
  PROVE  /\ upserted(p, source, order).payment =
              IF order = Absent THEN enrollment[p].payment ELSE order
         /\ upserted(p, source, order).revokedReason = Absent
  BY DEF upserted

LEMMA RevokeFields ==
  ASSUME EnrollmentTypeOK, NEW p \in Pairs, NEW reason
  PROVE  /\ revoked(p, reason).payment \in {enrollment[p].payment, Absent}
         /\ revoked(p, reason).revokedReason \in {reason, Absent}
<1>1. enrollment[p] \in Row \cup {NoRow} BY DEF EnrollmentTypeOK
<1>2. CASE hasRow(p)
  <2>1. enrollment[p] \in Row BY <1>1, <1>2 DEF hasRow, NoRow
  <2>2. QED BY <1>2, <2>1 DEF revoked, Row
<1>3. CASE ~hasRow(p) BY <1>3 DEF revoked, NoRow
<1>4. QED BY <1>2, <1>3

-----------------------------------------------------------------------------
(* The producer                                                            *)

\* Publishing one more event preserves everything about the consumer.
LEMMA PublishStep ==
  ASSUME EnrollmentInv, NEW name \in EventName, NEW o \in Orders,
         publish(name, o), UNCHANGED enrollVars
  PROVE  EnrollmentInv'
<1> USE DEF EnrollmentInv
<1> DEFINE new == [id |-> nextId, name |-> name, order |-> o]
<1>1. published' = published \cup {new} /\ nextId' = nextId + 1 /\ dlq' = dlq
  BY DEF publish
<1>2. /\ enrollment' = enrollment /\ processed' = processed /\ running' = running
      /\ effects' = effects /\ restarts' = restarts /\ upSince' = upSince
  BY DEF enrollVars
<1>3. new \in Envelope /\ nextId \in Nat
  BY DEF Envelope, EnrollmentTypeOK, BusTypeOK
<1>4. EnrollmentTypeOK' BY <1>1, <1>2, <1>3 DEF EnrollmentTypeOK, BusTypeOK
<1>5. FreshIds' BY PublishFresh DEF EnrollmentTypeOK
<1>6. KnownEvents' BY <1>1, <1>2 DEF KnownEvents
<1>7. LedgerMatchesEffects' BY <1>2 DEF LedgerMatchesEffects
<1>8. RowsComeFromEvents'
  <2>1. applied \subseteq applied' BY <1>1, <1>2 DEF applied
  <2>2. QED BY <1>2, <2>1 DEF RowsComeFromEvents
<1>9. QED BY <1>4, <1>5, <1>6, <1>7, <1>8

-----------------------------------------------------------------------------
(* The consumer                                                            *)

\* The transaction of a handler: the heart of the argument.
LEMMA CommitStep ==
  ASSUME EnrollmentInv, NEW h \in running, Commit(h)
  PROVE  EnrollmentInv'
<1> USE DEF EnrollmentInv
<1> DEFINE evt == h.evt
           pair == PairOf[evt.order]
           row == IF evt.name = "payment.completed"
                  THEN upserted(pair, "PAYMENT", evt.order)
                  ELSE revoked(pair, "refund")
<1>1. /\ evt.id \notin processed
      /\ processed' = processed \cup {evt.id}
      /\ enrollment' = [enrollment EXCEPT ![pair] = row]
      /\ effects' = Append(effects, evt.id)
      /\ running' = running \ {h}
      /\ restarts' = restarts /\ upSince' = upSince
      /\ published' = published /\ nextId' = nextId /\ dlq' = dlq
  BY DEF Commit, keyIsFree, busVars
<1>2. evt \in published /\ evt \in Envelope
  BY DEF KnownEvents, EnrollmentTypeOK, BusTypeOK
<1>3. evt.id \in Nat /\ evt.name \in EventName /\ evt.order \in Orders /\ pair \in Pairs
  BY <1>2, PairOfType DEF Envelope
<1>4. row \in Row \cup {NoRow}
  BY <1>3, UpsertTyped, RevokeTyped
<1>5. EnrollmentTypeOK'
  <2>1. enrollment' \in [Pairs -> Row \cup {NoRow}]
    BY <1>1, <1>3, <1>4 DEF EnrollmentTypeOK
  <2>2. effects' \in Seq(Nat) BY <1>1, <1>3, AppendProperties DEF EnrollmentTypeOK
  <2>3. QED BY <1>1, <1>3, <2>1, <2>2 DEF EnrollmentTypeOK, BusTypeOK
<1>6. FreshIds' BY <1>1 DEF FreshIds
<1>7. KnownEvents' BY <1>1, <1>2 DEF KnownEvents
<1>8. LedgerMatchesEffects'
  <2>1. effects \in Seq(Nat) BY DEF EnrollmentTypeOK
  <2>2. /\ DOMAIN effects = 1..Len(effects)
        /\ Len(effects) \in Nat
        /\ DOMAIN effects' = 1..(Len(effects) + 1)
        /\ \A i \in 1..Len(effects) : effects'[i] = effects[i]
        /\ effects'[Len(effects) + 1] = evt.id
    BY <1>1, <1>3, <2>1
  <2>3. \A i \in 1..Len(effects) : effects[i] # evt.id
    BY <1>1, <2>2 DEF LedgerMatchesEffects
  <2>4. processed' = {effects'[i] : i \in DOMAIN effects'}
    BY <1>1, <2>2 DEF LedgerMatchesEffects
  <2>5. \A i, j \in DOMAIN effects' : effects'[i] = effects'[j] => i = j
    BY <2>2, <2>3 DEF LedgerMatchesEffects
  <2>6. QED BY <2>4, <2>5 DEF LedgerMatchesEffects
<1>9. RowsComeFromEvents'
  <2>1. applied \subseteq applied' /\ evt \in applied'
    BY <1>1, <1>2 DEF applied
  <2>2. ASSUME NEW p \in Pairs, p # pair PROVE enrollment'[p] = enrollment[p]
    BY <1>1, <2>2 DEF EnrollmentTypeOK
  <2>3. enrollment'[pair] = row BY <1>1, <1>3 DEF EnrollmentTypeOK
  <2>4. CASE evt.name = "payment.completed"
    <3>1. /\ row.payment \in {evt.order, enrollment[pair].payment}
          /\ row.payment = enrollment[pair].payment \/ row.payment = evt.order
          /\ row.revokedReason = Absent
      BY <2>4, UpsertFields
    <3>2. QED BY <2>1, <2>2, <2>3, <2>4, <3>1 DEF RowsComeFromEvents, Absent
  <2>5. CASE evt.name = "payment.refunded"
    <3>1. /\ row.payment \in {enrollment[pair].payment, Absent}
          /\ row.revokedReason \in {"refund", Absent}
      BY <1>3, <2>5, RevokeFields
    <3>2. QED BY <2>1, <2>2, <2>3, <2>5, <3>1 DEF RowsComeFromEvents, Absent
  <2>6. QED BY <1>3, <2>4, <2>5 DEF EventName
<1>10. QED BY <1>5, <1>6, <1>7, <1>8, <1>9

\* A step that leaves ledger, effects and bus alone and writes at most one
\* row, as createEnrollment and revoke do.
LEMMA RowStep ==
  ASSUME EnrollmentInv, NEW p \in Pairs, NEW row \in Row \cup {NoRow},
         enrollment' = [enrollment EXCEPT ![p] = row],
         row.payment \in {enrollment[p].payment, Absent},
         row.revokedReason # "refund",
         UNCHANGED <<processed, running, upSince, effects, restarts, busVars>>
  PROVE  EnrollmentInv'
<1> USE DEF EnrollmentInv
<1>1. /\ processed' = processed /\ running' = running /\ effects' = effects
      /\ restarts' = restarts /\ upSince' = upSince
      /\ published' = published /\ nextId' = nextId /\ dlq' = dlq
  BY DEF busVars
<1>2. EnrollmentTypeOK' BY <1>1 DEF EnrollmentTypeOK, BusTypeOK
<1>3. FreshIds' /\ KnownEvents' /\ LedgerMatchesEffects'
  BY <1>1 DEF FreshIds, KnownEvents, LedgerMatchesEffects
<1>4. RowsComeFromEvents'
  <2>1. applied' = applied BY <1>1 DEF applied
  <2>2. \A q \in Pairs : enrollment'[q] = IF q = p THEN row ELSE enrollment[q]
    BY DEF EnrollmentTypeOK
  <2>3. QED BY <2>1, <2>2 DEF RowsComeFromEvents
<1>5. QED BY <1>2, <1>3, <1>4

\* Every step of the service preserves the invariant.
LEMMA EnrollmentStepInv ==
  ASSUME EnrollmentInv, EnrollmentStep
  PROVE  EnrollmentInv'
<1>1. ASSUME NEW evt \in published, NEW copy \in Copies, Deliver(evt, copy)
      PROVE  EnrollmentInv'
  BY <1>1 DEF Deliver, EnrollmentInv, EnrollmentTypeOK, BusTypeOK, FreshIds, KnownEvents,
              LedgerMatchesEffects, RowsComeFromEvents, applied, busVars
<1>2. ASSUME NEW h \in running, Commit(h) PROVE EnrollmentInv'
  BY <1>2, CommitStep
<1>3. ASSUME NEW h \in running, Reject(h) PROVE EnrollmentInv'
  BY <1>3 DEF Reject, deadLetter, EnrollmentInv, EnrollmentTypeOK, BusTypeOK, FreshIds,
              KnownEvents, LedgerMatchesEffects, RowsComeFromEvents, applied
<1>4. ASSUME Restart PROVE EnrollmentInv'
  BY <1>4, MaxRestartsType
     DEF Restart, EnrollmentInv, EnrollmentTypeOK, BusTypeOK, FreshIds, KnownEvents,
         LedgerMatchesEffects, RowsComeFromEvents, applied, busVars
<1>5. ASSUME NEW p \in Pairs, enrollFree(p) \/ grant(p) PROVE EnrollmentInv'
  <2>1. PICK source \in {"FREE", "ADMIN"} : createEnrollment(p, source)
    BY <1>5 DEF enrollFree, grant
  <2>2. upserted(p, source, Absent) \in Row
    BY UpsertTyped DEF EnrollmentInv
  <2>3. /\ upserted(p, source, Absent).payment = enrollment[p].payment
        /\ upserted(p, source, Absent).revokedReason # "refund"
    BY UpsertFields DEF Absent
  <2>4. QED BY <2>1, <2>2, <2>3, RowStep DEF createEnrollment
<1>6. ASSUME NEW p \in Pairs, revoke(p) PROVE EnrollmentInv'
  <2>1. revoked(p, "support") \in Row \cup {NoRow}
    BY RevokeTyped DEF EnrollmentInv
  <2>2. /\ revoked(p, "support").payment \in {enrollment[p].payment, Absent}
        /\ revoked(p, "support").revokedReason # "refund"
    BY RevokeFields DEF EnrollmentInv, Absent
  <2>3. QED BY <1>6, <2>1, <2>2, RowStep DEF revoke
<1>7. QED BY <1>1, <1>2, <1>3, <1>4, <1>5, <1>6 DEF EnrollmentStep, Handle

LEMMA EnrollmentStutter ==
  ASSUME EnrollmentInv, UNCHANGED <<enrollVars, busVars>>
  PROVE  EnrollmentInv'
  BY DEF EnrollmentInv, EnrollmentTypeOK, BusTypeOK, FreshIds, KnownEvents,
         LedgerMatchesEffects, RowsComeFromEvents, applied, enrollVars, busVars

LEMMA EnrollmentInitInv == BusInit /\ EnrollmentInit => EnrollmentInv
  BY MaxRestartsType
     DEF BusInit, EnrollmentInit, EnrollmentInv, EnrollmentTypeOK, BusTypeOK, FreshIds,
         KnownEvents, LedgerMatchesEffects, RowsComeFromEvents, applied, NoRow, Absent
-----------------------------------------------------------------------------
(* The ledger only grows                                                   *)

\* A step appends to the effects what it adds to the ledger, or neither.
LEMMA LedgerStep ==
  ASSUME EnrollmentInv, EnrollmentStep \/ UNCHANGED enrollVars
  PROVE  processed \subseteq processed' /\ effects = SubSeq(effects', 1, Len(effects))
<1>1. effects \in Seq(Nat)
  BY DEF EnrollmentInv, EnrollmentTypeOK
<1>2. CASE UNCHANGED <<processed, effects>>
  BY <1>1, <1>2
<1>3. ASSUME NEW h \in running, Commit(h)
      PROVE  processed \subseteq processed' /\ effects = SubSeq(effects', 1, Len(effects))
  <2>1. h.evt.id \in Nat
    BY DEF EnrollmentInv, EnrollmentTypeOK, Envelope
  <2>2. effects' = Append(effects, h.evt.id) /\ processed' = processed \cup {h.evt.id}
    BY <1>3 DEF Commit
  <2>3. QED BY <1>1, <2>1, <2>2
<1>4. QED
  BY <1>2, <1>3 DEF EnrollmentStep, Handle, Deliver, Reject, deadLetter, Restart, enrollFree,
                    grant, revoke, createEnrollment, enrollVars
-----------------------------------------------------------------------------
(* Sales stay open                                                         *)

appliedTo(name, p) == \E e \in applied : e.name = name /\ PairOf[e.order] = p

open(p) == isEntitled(p) \/ enrollment[p].revokedReason = "support"

\* Once a payment was applied, only a refund or support closes the course.
AppliedSalesAreOpen ==
  \A p \in Pairs :
    appliedTo("payment.completed", p) /\ ~appliedTo("payment.refunded", p) => open(p)

\* Applying an event applies no other: ids are unique.
LEMMA CommitAppliesOne ==
  ASSUME EnrollmentInv, NEW h \in running, Commit(h)
  PROVE  applied' = applied \cup {h.evt}
<1>1. published' = published /\ processed' = processed \cup {h.evt.id} /\ h.evt \in published
  BY DEF Commit, busVars, EnrollmentInv, KnownEvents
<1>2. \A e \in published : e.id = h.evt.id => e = h.evt
  BY <1>1 DEF EnrollmentInv, FreshIds
<1>3. QED BY <1>1, <1>2 DEF applied

\* A write of one row that leaves it open, or closes it for a refund applied.
LEMMA OpenAfterWrite ==
  ASSUME EnrollmentInv, AppliedSalesAreOpen, NEW p \in Pairs, NEW row,
         enrollment' = [enrollment EXCEPT ![p] = row],
         \A q \in Pairs \ {p}, n \in EventName : appliedTo(n, q)' = appliedTo(n, q),
         \/ row.status \notin {Absent, "REVOKED"}
         \/ row.revokedReason = "support"
         \/ appliedTo("payment.refunded", p)'
  PROVE  AppliedSalesAreOpen'
<1>1. \A q \in Pairs : enrollment'[q] = IF q = p THEN row ELSE enrollment[q]
  BY DEF EnrollmentInv, EnrollmentTypeOK
<1>2. \A q \in Pairs \ {p} : open(q) => open(q)'
  BY <1>1 DEF open, isEntitled, hasRow
<1>3. appliedTo("payment.refunded", p)' \/ open(p)'
  BY <1>1 DEF open, isEntitled, hasRow
<1>4. QED BY <1>2, <1>3 DEF AppliedSalesAreOpen, EventName

LEMMA OpenCommitted ==
  ASSUME EnrollmentInv, AppliedSalesAreOpen, NEW h \in running, Commit(h)
  PROVE  AppliedSalesAreOpen'
<1> DEFINE evt == h.evt
           pair == PairOf[evt.order]
           row == IF evt.name = "payment.completed"
                  THEN upserted(pair, "PAYMENT", evt.order)
                  ELSE revoked(pair, "refund")
<1>1. evt.name \in EventName /\ pair \in Pairs
  BY PairOfType DEF EnrollmentInv, EnrollmentTypeOK, Envelope
<1>2. enrollment' = [enrollment EXCEPT ![pair] = row]
  BY DEF Commit
<1>3. applied' = applied \cup {evt}
  BY CommitAppliesOne
<1>4. \A q \in Pairs \ {pair}, n \in EventName : appliedTo(n, q)' = appliedTo(n, q)
  BY <1>3 DEF appliedTo
<1>5. row.status \notin {Absent, "REVOKED"} \/ appliedTo("payment.refunded", pair)'
  <2>1. CASE evt.name = "payment.completed"
    BY <2>1 DEF upserted, Absent
  <2>2. CASE evt.name = "payment.refunded"
    BY <1>3, <2>2 DEF appliedTo
  <2>3. QED BY <1>1, <2>1, <2>2 DEF EventName
<1> HIDE DEF row
<1>6. QED BY <1>1, <1>2, <1>4, <1>5, OpenAfterWrite

LEMMA OpenStep ==
  ASSUME EnrollmentInv, AppliedSalesAreOpen, EnrollmentStep
  PROVE  AppliedSalesAreOpen'
<1>1. ASSUME UNCHANGED <<enrollment, published, processed>> PROVE AppliedSalesAreOpen'
  BY <1>1 DEF AppliedSalesAreOpen, appliedTo, applied, open, isEntitled, hasRow
<1>2. ASSUME NEW p \in Pairs, enrollFree(p) \/ grant(p) PROVE AppliedSalesAreOpen'
  <2>1. PICK source : createEnrollment(p, source)
    BY <1>2 DEF enrollFree, grant
  <2>2. applied' = applied
    BY <2>1 DEF createEnrollment, busVars, applied
  <2>3. upserted(p, source, Absent).status \notin {Absent, "REVOKED"}
    BY DEF upserted, Absent
  <2>4. QED BY <2>1, <2>2, <2>3, OpenAfterWrite DEF createEnrollment, appliedTo
<1>3. ASSUME NEW p \in Pairs, revoke(p) PROVE AppliedSalesAreOpen'
  <2>1. enrollment' = [enrollment EXCEPT ![p] = revoked(p, "support")] /\ hasRow(p)
    BY <1>3 DEF revoke
  <2>2. applied' = applied
    BY <1>3 DEF revoke, busVars, applied
  <2>3. revoked(p, "support").revokedReason = "support"
    <3>1. enrollment[p] \in Row
      BY <2>1 DEF EnrollmentInv, EnrollmentTypeOK, hasRow, NoRow
    <3>2. QED BY <2>1, <3>1 DEF revoked, Row
  <2>4. QED BY <2>1, <2>2, <2>3, OpenAfterWrite DEF appliedTo
<1>4. ASSUME NEW h \in running, Commit(h) PROVE AppliedSalesAreOpen'
  BY <1>4, OpenCommitted
<1>5. QED
  BY <1>1, <1>2, <1>3, <1>4
     DEF EnrollmentStep, Handle, Deliver, Reject, deadLetter, Restart, busVars

\* An event that is published is not applied yet.
LEMMA OpenPublished ==
  ASSUME EnrollmentInv, AppliedSalesAreOpen, UNCHANGED enrollVars,
         busVars' = busVars \/ \E name, o : publish(name, o)
  PROVE  AppliedSalesAreOpen'
<1>1. enrollment' = enrollment /\ processed' = processed
  BY DEF enrollVars
<1>2. nextId \notin processed
  <2>1. \A e \in published : e.id \in Nat /\ e.id < nextId
    BY DEF EnrollmentInv, FreshIds, EnrollmentTypeOK, BusTypeOK, Envelope
  <2>2. QED BY <2>1 DEF EnrollmentInv, KnownEvents, EnrollmentTypeOK, BusTypeOK
<1>3. applied' = applied
  <2>1. ASSUME NEW name, NEW o, publish(name, o)
        PROVE  applied' = applied
    <3> DEFINE new == [id |-> nextId, name |-> name, order |-> o]
    <3>1. published' = published \cup {new} BY <2>1 DEF publish
    <3>2. new.id \notin processed' BY <1>1, <1>2
    <3>3. QED BY <1>1, <3>1, <3>2 DEF applied
  <2>2. QED BY <1>1, <2>1 DEF busVars, applied
<1>4. QED BY <1>1, <1>3 DEF AppliedSalesAreOpen, appliedTo, open, isEntitled, hasRow
-----------------------------------------------------------------------------
(* What a step does to access                                              *)

accesses == [p \in Pairs |-> isEntitled(p)]

\* An event nobody published yet has no ledger row.
LEMMA NewIdsAreUnrecorded ==
  ASSUME EnrollmentInv
  PROVE  nextId \notin processed
<1>1. \A e \in published : e.id \in Nat /\ e.id < nextId
  BY DEF EnrollmentInv, FreshIds, EnrollmentTypeOK, BusTypeOK, Envelope
<1>2. QED BY <1>1 DEF EnrollmentInv, KnownEvents, EnrollmentTypeOK, BusTypeOK

\* Only a write of the row of p changes who may read the course of p.
LEMMA AccessAfterWrite ==
  ASSUME EnrollmentInv, NEW p \in Pairs, NEW row,
         enrollment' = [enrollment EXCEPT ![p] = row],
         NEW opens \in BOOLEAN,
         opens = (row.status # Absent /\ row.status # "REVOKED")
  PROVE  accesses' = [accesses EXCEPT ![p] = opens]
<1>1. \A q \in Pairs : enrollment'[q] = IF q = p THEN row ELSE enrollment[q]
  BY DEF EnrollmentInv, EnrollmentTypeOK
<1>2. \A q \in Pairs : isEntitled(q)' = IF q = p THEN opens ELSE isEntitled(q)
  BY <1>1 DEF isEntitled, hasRow
<1>3. QED BY <1>2 DEF accesses

LEMMA UpsertOpens ==
  ASSUME NEW p, NEW source, NEW order
  PROVE  upserted(p, source, order).status = "ACTIVE"
  BY DEF upserted

LEMMA RevokeCloses ==
  ASSUME EnrollmentInv, NEW p \in Pairs, NEW reason
  PROVE  revoked(p, reason).status \in {"REVOKED", Absent}
<1>1. enrollment[p] \in Row \cup {NoRow} BY DEF EnrollmentInv, EnrollmentTypeOK
<1>2. CASE hasRow(p)
  <2>1. enrollment[p] \in Row BY <1>1, <1>2 DEF hasRow, NoRow
  <2>2. QED BY <1>2, <2>1 DEF revoked, Row
<1>3. CASE ~hasRow(p) BY <1>3 DEF revoked, NoRow
<1>4. QED BY <1>2, <1>3

\* A transaction of a handler settles its event and opens or closes, for the
\* user and the course the event is about, in one step.
LEMMA CommitEffect ==
  ASSUME EnrollmentInv, NEW h \in running, Commit(h)
  PROVE  LET evt == h.evt IN
         /\ evt \in published /\ evt.id \notin processed
         /\ processed' = processed \cup {evt.id}
         /\ effects' = Append(effects, evt.id)
         /\ published' = published
         /\ accesses' = [accesses EXCEPT ![PairOf[evt.order]] = (evt.name = "payment.completed")]
<1> DEFINE evt == h.evt
           pair == PairOf[evt.order]
           opens == evt.name = "payment.completed"
           row == IF opens THEN upserted(pair, "PAYMENT", evt.order)
                           ELSE revoked(pair, "refund")
<1>1. evt \in published /\ evt \in Envelope
  BY DEF EnrollmentInv, KnownEvents, EnrollmentTypeOK, BusTypeOK
<1>2. pair \in Pairs BY <1>1, PairOfType DEF Envelope
<1>3. /\ evt.id \notin processed
      /\ processed' = processed \cup {evt.id}
      /\ enrollment' = [enrollment EXCEPT ![pair] = row]
      /\ effects' = Append(effects, evt.id)
      /\ published' = published
  BY DEF Commit, keyIsFree, busVars
<1>4. opens = (row.status # Absent /\ row.status # "REVOKED")
  BY <1>2, UpsertOpens, RevokeCloses DEF Absent
<1>5. accesses' = [accesses EXCEPT ![pair] = opens]
  BY <1>2, <1>3, <1>4, AccessAfterWrite
<1>6. QED BY <1>1, <1>3, <1>5

\* A request opens or closes according to its kind, and settles no event.
LEMMA RequestEffect ==
  ASSUME EnrollmentInv, NEW p \in Pairs, enrollFree(p) \/ grant(p) \/ revoke(p)
  PROVE  \E opens \in BOOLEAN :
           /\ IF opens THEN {"enrollFree", "grant"} \cap ManualOps # {}
                       ELSE "revoke" \in ManualOps
           /\ accesses' = [accesses EXCEPT ![p] = opens]
           /\ UNCHANGED <<processed, effects, published>>
<1>1. CASE enrollFree(p) \/ grant(p)
  <2>1. PICK row : enrollment' = [enrollment EXCEPT ![p] = row] /\ row.status = "ACTIVE"
    BY <1>1, UpsertOpens DEF enrollFree, grant, createEnrollment
  <2>2. accesses' = [accesses EXCEPT ![p] = TRUE]
    BY <2>1, AccessAfterWrite DEF Absent
  <2>3. {"enrollFree", "grant"} \cap ManualOps # {}
    BY <1>1 DEF enrollFree, grant
  <2>4. UNCHANGED <<processed, effects, published>>
    BY <1>1 DEF enrollFree, grant, createEnrollment, busVars
  <2>5. QED BY <2>2, <2>3, <2>4
<1>2. CASE revoke(p)
  <2>1. PICK row : /\ enrollment' = [enrollment EXCEPT ![p] = row]
                   /\ row.status \in {"REVOKED", Absent}
    BY <1>2, RevokeCloses DEF revoke
  <2>2. accesses' = [accesses EXCEPT ![p] = FALSE]
    BY <2>1, AccessAfterWrite
  <2>3. "revoke" \in ManualOps /\ UNCHANGED <<processed, effects, published>>
    BY <1>2 DEF revoke, busVars
  <2>4. QED BY <2>2, <2>3
<1>3. QED BY <1>1, <1>2
-----------------------------------------------------------------------------
(* Why a course is open                                                    *)

\* The i-th effect was that of an event "name" about p.
isAbout(i, name, p) ==
  \E e \in published : e.id = effects[i] /\ e.name = name /\ PairOf[e.order] = p

noGifts == {"enrollFree", "grant"} \cap ManualOps = {}

\* A course is open only since a payment for it was applied, and no refund of
\* it was applied after that one.
OpenSinceAPayment ==
  \A p \in Pairs : isEntitled(p) =>
    \E i \in DOMAIN effects :
      /\ isAbout(i, "payment.completed", p)
      /\ \A j \in DOMAIN effects : isAbout(j, "payment.refunded", p) => j < i

\* A step that applies nothing and opens nothing leaves it so.
LEMMA OpenSinceStays ==
  ASSUME OpenSinceAPayment, effects' = effects,
         \A p \in Pairs : isEntitled(p)' => isEntitled(p),
         \A i \in DOMAIN effects, name \in EventName, p \in Pairs :
            isAbout(i, name, p)' = isAbout(i, name, p)
  PROVE  OpenSinceAPayment'
  BY DEF OpenSinceAPayment, EventName

LEMMA OpenSinceCommitted ==
  ASSUME EnrollmentInv, OpenSinceAPayment, NEW h \in running, Commit(h)
  PROVE  OpenSinceAPayment'
<1> DEFINE evt == h.evt
           pair == PairOf[evt.order]
<1>0. PICK last : last = Len(effects) + 1 OBVIOUS
<1>1. /\ evt \in published /\ effects' = Append(effects, evt.id)
      /\ published' = published
      /\ accesses' = [accesses EXCEPT ![pair] = (evt.name = "payment.completed")]
  BY CommitEffect
<1>2. /\ evt.id \in Nat /\ evt.name \in EventName /\ pair \in Pairs
      /\ effects \in Seq(Nat)
  BY <1>1, PairOfType DEF EnrollmentInv, EnrollmentTypeOK, BusTypeOK, Envelope
<1>3. /\ DOMAIN effects = 1..Len(effects) /\ DOMAIN effects' = 1..last
      /\ Len(effects) \in Nat /\ effects'[last] = evt.id
      /\ \A i \in DOMAIN effects : effects'[i] = effects[i]
  BY <1>0, <1>1, <1>2
<1>4. \A i \in DOMAIN effects : \A name, p : isAbout(i, name, p)' = isAbout(i, name, p)
  BY <1>1, <1>3 DEF isAbout
<1>5. \A name, p : isAbout(last, name, p)' = (name = evt.name /\ p = pair)
  <2>1. \A e \in published : e.id = evt.id => e = evt
    BY <1>1 DEF EnrollmentInv, FreshIds
  <2>2. QED BY <1>1, <1>3, <2>1 DEF isAbout
<1>6. \A q \in Pairs : isEntitled(q)' = IF q = pair THEN evt.name = "payment.completed"
                                                   ELSE isEntitled(q)
  BY <1>1, <1>2 DEF accesses
<1> HIDE DEF evt, pair
<1> SUFFICES ASSUME NEW p \in Pairs, isEntitled(p)'
             PROVE  \E i \in DOMAIN effects' :
                      /\ isAbout(i, "payment.completed", p)'
                      /\ \A j \in DOMAIN effects' : isAbout(j, "payment.refunded", p)' => j < i
  BY DEF OpenSinceAPayment
<1>7. last \in DOMAIN effects' /\ \A j \in DOMAIN effects' : j \in DOMAIN effects \/ j = last
  BY <1>0, <1>3
<1>8. CASE p = pair
  <2>1. evt.name = "payment.completed" BY <1>6, <1>8
  <2>2. isAbout(last, "payment.completed", p)' BY <1>5, <1>8, <2>1
  <2>3. ASSUME NEW j \in DOMAIN effects', isAbout(j, "payment.refunded", p)'
        PROVE  j < last
    <3>1. j # last BY <1>5, <2>1, <2>3
    <3>2. QED BY <1>0, <1>3, <1>7, <3>1
  <2>4. QED BY <1>7, <2>2, <2>3
<1>9. CASE p # pair
  <2>1. isEntitled(p) BY <1>6, <1>9
  <2>2. PICK i \in DOMAIN effects :
          /\ isAbout(i, "payment.completed", p)
          /\ \A j \in DOMAIN effects : isAbout(j, "payment.refunded", p) => j < i
    BY <2>1 DEF OpenSinceAPayment
  <2>3. i \in DOMAIN effects' BY <1>0, <1>3
  <2>4. isAbout(i, "payment.completed", p)' BY <1>4, <2>2
  <2>5. ASSUME NEW j \in DOMAIN effects', isAbout(j, "payment.refunded", p)'
        PROVE  j < i
    <3>1. j \in DOMAIN effects BY <1>5, <1>7, <1>9, <2>5
    <3>2. QED BY <1>4, <2>2, <2>5, <3>1
  <2>6. QED BY <2>3, <2>4, <2>5
<1>10. QED BY <1>8, <1>9

LEMMA OpenSinceStep ==
  ASSUME EnrollmentInv, OpenSinceAPayment, noGifts, EnrollmentStep
  PROVE  OpenSinceAPayment'
<1>1. ASSUME NEW h \in running, Commit(h) PROVE OpenSinceAPayment'
  BY <1>1, OpenSinceCommitted
<1>2. ASSUME NEW p \in Pairs, enrollFree(p) \/ grant(p) \/ revoke(p)
      PROVE  OpenSinceAPayment'
  <2>1. /\ accesses' = [accesses EXCEPT ![p] = FALSE]
        /\ effects' = effects /\ published' = published
    BY <1>2, RequestEffect DEF noGifts
  <2>2. \A q \in Pairs : isEntitled(q)' => isEntitled(q)
    BY <2>1 DEF accesses
  <2>3. \A i \in DOMAIN effects : \A name, q : isAbout(i, name, q)' = isAbout(i, name, q)
    BY <2>1 DEF isAbout
  <2>4. QED BY <2>1, <2>2, <2>3, OpenSinceStays
<1>3. CASE UNCHANGED <<enrollment, effects, published>>
  <2>1. \A q \in Pairs : isEntitled(q)' = isEntitled(q)
    BY <1>3 DEF isEntitled, hasRow
  <2>2. \A i \in DOMAIN effects : \A name, q : isAbout(i, name, q)' = isAbout(i, name, q)
    BY <1>3 DEF isAbout
  <2>3. QED BY <1>3, <2>1, <2>2, OpenSinceStays
<1>4. QED
  BY <1>1, <1>2, <1>3
     DEF EnrollmentStep, Handle, Deliver, Reject, deadLetter, Restart, busVars

\* An event that is published only now is no effect yet.
LEMMA OpenSincePublished ==
  ASSUME EnrollmentInv, OpenSinceAPayment, UNCHANGED enrollVars,
         busVars' = busVars \/ \E name, o : publish(name, o)
  PROVE  OpenSinceAPayment'
<1>1. enrollment' = enrollment /\ effects' = effects
  BY DEF enrollVars
<1>2. \A q \in Pairs : isEntitled(q)' = isEntitled(q)
  BY <1>1 DEF isEntitled, hasRow
<1>3. \A i \in DOMAIN effects : effects[i] # nextId
  BY NewIdsAreUnrecorded DEF EnrollmentInv, LedgerMatchesEffects
<1>4. \A i \in DOMAIN effects : \A name, q : isAbout(i, name, q)' = isAbout(i, name, q)
  <2>1. ASSUME NEW n, NEW o, publish(n, o),
               NEW i \in DOMAIN effects, NEW name, NEW q
        PROVE  isAbout(i, name, q)' = isAbout(i, name, q)
    <3>1. published' = published \cup {[id |-> nextId, name |-> n, order |-> o]}
      BY <2>1 DEF publish
    <3>2. QED BY <1>1, <1>3, <3>1 DEF isAbout
  <2>2. CASE busVars' = busVars BY <1>1, <2>2 DEF busVars, isAbout
  <2>3. QED BY <2>1, <2>2
<1>5. QED BY <1>1, <1>2, <1>4, OpenSinceStays
=============================================================================
