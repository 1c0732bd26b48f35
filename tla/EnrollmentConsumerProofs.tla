---------------------- MODULE EnrollmentConsumerProofs ----------------------
(***************************************************************************)
(* The enrollment service against any producer: its invariants, and that   *)
(* it implements ExactlyOnce, for every set of users, courses and orders,  *)
(* any number of concurrent copies of an event, restarts, rejected         *)
(* transactions and decisions by support staff.                            *)
(***************************************************************************)
EXTENDS EnrollmentConsumer, EnrollmentServiceProofs

LEMMA ConsumerInit == Init => EnrollmentInv
  BY EnrollmentInitInv DEF Init

LEMMA ConsumerStep == EnrollmentInv /\ [Next]_vars => EnrollmentInv'
<1> SUFFICES ASSUME EnrollmentInv, [Next]_vars PROVE EnrollmentInv'
  OBVIOUS
<1>1. CASE EnrollmentStep BY <1>1, EnrollmentStepInv
<1>2. CASE AnyProducer BY <1>2, PublishStep DEF AnyProducer
<1>3. CASE UNCHANGED vars BY <1>3, EnrollmentStutter DEF vars
<1>4. QED BY <1>1, <1>2, <1>3 DEF Next

LEMMA ConsumerAlways == Spec => []EnrollmentInv
  BY ConsumerInit, ConsumerStep, PTL DEF Spec

\* Type correctness of the enrollment service.
THEOREM EnrollmentTypes == Spec => []EnrollmentTypeOK
<1>1. EnrollmentInv => EnrollmentTypeOK BY DEF EnrollmentInv
<1>2. QED BY <1>1, ConsumerAlways, PTL

\* The ledger of processed events and the effects applied to enrollments
\* always agree, and no event is applied twice.
THEOREM LedgerAlwaysMatchesEffects == Spec => []LedgerMatchesEffects
<1>1. EnrollmentInv => LedgerMatchesEffects BY DEF EnrollmentInv
<1>2. QED BY <1>1, ConsumerAlways, PTL

\* Whatever a row says about a payment or a refund, it has from a committed
\* event about its own user and course.
THEOREM RowsAlwaysComeFromEvents == Spec => []RowsComeFromEvents
<1>1. EnrollmentInv => RowsComeFromEvents BY DEF EnrollmentInv
<1>2. QED BY <1>1, ConsumerAlways, PTL

\* Whatever is published, by whomever: no two envelopes share an id, so the
\* ledger never takes one event for another.
THEOREM IdsAreAlwaysFresh == Spec => []FreshIds
<1>1. EnrollmentInv => FreshIds BY DEF EnrollmentInv
<1>2. QED BY <1>1, ConsumerAlways, PTL

\* A committed ledger row is final, and so is the order of the effects.
THEOREM LedgerAlwaysOnlyGrows == Spec => LedgerOnlyGrows
<1>1. EnrollmentInv /\ [Next]_vars =>
        [processed \subseteq processed' /\ effects = SubSeq(effects', 1, Len(effects))]_vars
  <2> SUFFICES ASSUME EnrollmentInv, [Next]_vars
               PROVE  processed \subseteq processed' /\ effects = SubSeq(effects', 1, Len(effects))
    OBVIOUS
  <2>1. QED BY LedgerStep DEF Next, AnyProducer, vars, enrollVars
<1>2. QED BY <1>1, ConsumerAlways, PTL DEF Spec, LedgerOnlyGrows

\* Where nobody is enrolled for free or by support, a course is open only since
\* a payment for it was applied with no refund after it, whoever publishes and in
\* whatever order events arrive.
THEOREM CoursesAreOpenSinceAPayment == noGifts => (Spec => []OpenSinceAPayment)
<1> SUFFICES ASSUME noGifts PROVE Spec => []OpenSinceAPayment
  OBVIOUS
<1>1. Init => OpenSinceAPayment
  BY DEF Init, EnrollmentInit, OpenSinceAPayment, isEntitled, hasRow, NoRow, Absent
<1>2. EnrollmentInv /\ OpenSinceAPayment /\ [Next]_vars => OpenSinceAPayment'
  BY OpenSinceStep, OpenSincePublished DEF Next, AnyProducer, vars
<1>3. QED BY <1>1, <1>2, ConsumerAlways, PTL DEF Spec

-----------------------------------------------------------------------------
(* Refinement                                                              *)

\* What the promise sees of a published event, and of the rows.
message(e) == [id |-> e.id, pair |-> PairOf[e.order],
               opens |-> e.name = "payment.completed"]

posts == {message(e) : e \in published}

\* A transaction of a handler is the application of its message.
LEMMA CommitApplies ==
  ASSUME EnrollmentInv, NEW h \in running, Commit(h)
  PROVE  Promise!Apply(message(h.evt)) /\ message(h.evt) \in posts
<1> DEFINE evt == h.evt
<1>1. /\ evt \in published /\ evt.id \notin processed
      /\ processed' = processed \cup {evt.id}
      /\ effects' = Append(effects, evt.id)
      /\ published' = published
      /\ accesses' = [accesses EXCEPT ![PairOf[evt.order]] = (evt.name = "payment.completed")]
  BY CommitEffect
<1>2. message(evt) \in posts BY <1>1 DEF posts
<1>3. posts' = posts BY <1>1 DEF posts, message
<1>4. /\ message(evt).id = evt.id
      /\ message(evt).pair = PairOf[evt.order]
      /\ message(evt).opens = (evt.name = "payment.completed")
  BY DEF message
<1>5. QED BY <1>1, <1>2, <1>3, <1>4
          DEF Promise!Apply, posts, message, accesses

LEMMA PromiseStep ==
  ASSUME EnrollmentInv, [Next]_vars
  PROVE  [Promise!Next]_(Promise!vars)
<1>1. ASSUME UNCHANGED <<enrollment, processed, effects, published>>
      PROVE  UNCHANGED Promise!vars
  BY <1>1 DEF Promise!vars, isEntitled, hasRow
<1>2. ASSUME NEW h \in running, Commit(h) PROVE Promise!Next
  BY <1>2, CommitApplies DEF Promise!Next, posts, message
<1>3. ASSUME NEW p \in Pairs, enrollFree(p) \/ grant(p) \/ revoke(p)
      PROVE  Promise!Next
  <2>1. PICK opens \in BOOLEAN :
          /\ accesses' = [accesses EXCEPT ![p] = opens]
          /\ UNCHANGED <<processed, effects, published>>
    BY <1>3, RequestEffect
  <2>2. posts' = posts BY <2>1 DEF posts, message
  <2>3. Promise!Decide(p)
    BY <2>1, <2>2 DEF Promise!Decide, posts, message, accesses
  <2>4. QED BY <2>3 DEF Promise!Next
<1>4. ASSUME AnyProducer PROVE Promise!Next
  <2>1. PICK name \in EventName, o \in Orders : publish(name, o)
    BY <1>4 DEF AnyProducer
  <2>2. published' = published \cup {[id |-> nextId, name |-> name, order |-> o]}
    BY <2>1 DEF publish
  <2>3. posts \subseteq posts' /\ \A m \in posts' \ posts : m.id \notin processed
    BY <2>2, NewIdsAreUnrecorded DEF posts, message
  <2>4. UNCHANGED <<processed, effects, enrollment>> BY <1>4 DEF AnyProducer, enrollVars
  <2>5. accesses' = accesses BY <2>4 DEF accesses, isEntitled, hasRow
  <2>6. QED BY <2>3, <2>4, <2>5
            DEF Promise!Next, Promise!Post, posts, message, accesses
<1>5. CASE \/ \E evt \in published, copy \in Copies : Deliver(evt, copy)
           \/ \E h \in running : Reject(h)
           \/ Restart
           \/ UNCHANGED vars
  BY <1>5, <1>1 DEF Deliver, Reject, deadLetter, Restart, vars, enrollVars, busVars
<1>6. QED BY <1>2, <1>3, <1>4, <1>5 DEF Next, EnrollmentStep, Handle

\* The service keeps the abstract promise: messages are applied one at a time,
\* each at most once, recorded in the same step that opens or closes access.
THEOREM ConsumerKeepsPromise == Spec => AppliesExactlyOnce
<1>1. Init => Promise!Init
  <2> SUFFICES ASSUME Init PROVE Promise!Init
    OBVIOUS
  <2>1. published = {} /\ processed = {} /\ effects = <<>>
    BY DEF Init, BusInit, EnrollmentInit
  <2>2. \A p \in Pairs : isEntitled(p) = FALSE
    BY DEF Init, EnrollmentInit, isEntitled, hasRow, NoRow
  <2>3. accesses = [p \in Pairs |-> FALSE] BY <2>2 DEF accesses
  <2>4. posts = {} BY <2>1 DEF posts
  <2>5. QED BY <2>1, <2>3, <2>4 DEF Promise!Init, accesses, posts, message
<1>2. EnrollmentInv /\ [Next]_vars => [Promise!Next]_(Promise!vars)
  BY PromiseStep
<1>3. QED BY <1>1, <1>2, ConsumerAlways, PTL DEF Spec, AppliesExactlyOnce, Promise!Spec
=============================================================================
