------------------------- MODULE EnrollmentConsumer -------------------------
(***************************************************************************)
(* The enrollment service alone, against a producer that may publish any   *)
(* event about any order at any time, and the abstract promise it keeps.   *)
(***************************************************************************)
EXTENDS EnrollmentService

CONSTANT MaxEvents      \* how many envelopes the producer publishes (a bound)

ASSUME MaxEventsType == MaxEvents \in Nat

vars == <<enrollVars, busVars>>

Init == BusInit /\ EnrollmentInit

AnyProducer ==
  /\ nextId <= MaxEvents
  /\ \E name \in EventName, order \in Orders : publish(name, order)
  /\ UNCHANGED enrollVars

Next == EnrollmentStep \/ AnyProducer

Spec == Init /\ [][Next]_vars

\* The bus delivers an envelope to the process that was subscribed when it was
\* published (event-bus.ts:50-51), and a handler that runs ends.  What a stop
\* of the process lost is owed by nobody: Redis keeps nothing to deliver again.
Pending(id) == {e \in published : e.id = id /\ id >= upSince} \ dlq

Fairness ==
  \A id \in 1..MaxEvents :
    /\ WF_vars(\E e \in Pending(id), c \in Copies : Deliver(e, c))
    /\ WF_vars(\E h \in running : h.evt.id = id /\ Handle(h))

FairSpec == Spec /\ Fairness

-----------------------------------------------------------------------------

\* The service implements the abstract promise: each step of the code is one
\* step of ExactlyOnce, or changes nothing it can see.
Promise ==
  INSTANCE ExactlyOnce WITH
    posted   <- {[id    |-> e.id,
                  pair  |-> PairOf[e.order],
                  opens |-> e.name = "payment.completed"] : e \in published},
    recorded <- processed,
    access   <- [p \in Pairs |-> isEntitled(p)]

AppliesExactlyOnce == Promise!Spec

\* A committed ledger row is final: no later step forgets an applied event or
\* rewrites the order in which effects were applied.
LedgerOnlyGrows ==
  [][processed \subseteq processed' /\ effects = SubSeq(effects', 1, Len(effects))]_vars

\* No delivery is stuck: through races of copies, rejected transactions and
\* decisions of support, every published event is eventually applied or
\* dead-lettered.  The one way to lose an event is that the process stops
\* after it was published and before its transaction.
EveryEventSettles ==
  \A id \in 1..MaxEvents :
    (id < nextId) ~> (id \in processed \/ id < upSince \/ \E e \in dlq : e.id = id)
=============================================================================
