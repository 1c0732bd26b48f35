---------------------------- MODULE PurchaseFlow ----------------------------
(***************************************************************************)
(* From the checkout to the open course: payment-service, the event bus    *)
(* and enrollment-service together.  payment-service is the only producer  *)
(* of payment events; the services share nothing but the bus.              *)
(***************************************************************************)
EXTENDS PaymentService, EnrollmentService

vars == <<paymentVars, enrollVars, busVars>>

Init == BusInit /\ PaymentInit /\ EnrollmentInit

Next ==
  \/ PaymentStep /\ UNCHANGED enrollVars
  \/ EnrollmentStep /\ UNCHANGED paymentVars

Spec == Init /\ [][Next]_vars

\* Both services run their pending continuations, Razorpay retries its
\* webhooks, and the bus delivers an envelope to the process that was
\* subscribed when it was published (event-bus.ts:50-51), and to no later one.
Undelivered(name, o) ==
  {e \in published : e.name = name /\ e.order = o /\ e.id >= upSince} \ dlq

Fairness ==
  /\ \A op \in Op, o \in Orders, slot \in Slots :
       WF_vars(GoOn(op, o, slot) /\ UNCHANGED enrollVars)
  /\ \A w \in Webhook : WF_vars(CallAgain(w) /\ UNCHANGED enrollVars)
  /\ \A name \in EventName, o \in Orders :
       /\ WF_vars(/\ \E e \in Undelivered(name, o), c \in Copies : Deliver(e, c)
                  /\ UNCHANGED paymentVars)
       /\ WF_vars(/\ \E h \in running : h.evt.name = name /\ h.evt.order = o /\ Handle(h)
                  /\ UNCHANGED paymentVars)

FairSpec == Spec /\ Fairness

-----------------------------------------------------------------------------
(* Properties                                                              *)

\* A course opened by a payment was paid for by that user: a row that names
\* an order belongs to the user and course of the order and Razorpay holds,
\* or held, the money.  No retry, race or reordering opens the wrong course.
AccessIsPaidFor ==
  \A p \in Pairs :
    LET o == enrollment[p].payment IN o # Absent => PairOf[o] = p /\ paid(o)

\* Access is pulled back "for a refund" only where money went back for an
\* order of that user and course.
RefundRevocationsAreReal ==
  \A p \in Pairs :
    enrollment[p].revokedReason = "refund" =>
      \E o \in Orders : PairOf[o] = p /\ gateway[o] = "refunded"

\* What support and learners themselves may do to access in a run.
decisions == {opens \in BOOLEAN :
                IF opens THEN {"enrollFree", "grant"} \cap ManualOps # {}
                         ELSE "revoke" \in ManualOps}

Honest ==
  INSTANCE Sale WITH
    Decisions <- decisions,
    money     <- gateway,
    claims    <- {[id    |-> e.id,
                   order |-> e.order,
                   opens |-> e.name = "payment.completed"] : e \in published},
    settled   <- processed,
    access    <- [p \in Pairs |-> isEntitled(p)]

\* The two services and the bus between them implement the sale: each step
\* moves money, makes one claim about it, settles one claim or is a decision
\* of support, or changes nothing of these.  In particular no step of the
\* code changes who may read a course except for a claim of that very user
\* and course that was true and that was not used before.
SalesAreHonest == Honest!Spec

\* Nothing of order o is under way any more, in either service.
settled(o) ==
  /\ \A r \in requests : r.order # o
  /\ \A e \in published : e.order = o => e.id \in processed

\* Once everything about a user's orders for a course has settled, an
\* announced payment has opened the course, unless one of the orders was
\* refunded or support closed it.  Stops of the services, a second
\* announcement of the same payment and an order that failed change nothing.
SettledPurchasesAreOpen ==
  \A o \in Orders :
    LET siblings == {s \in Orders : PairOf[s] = PairOf[o]} IN
    /\ announced("payment.completed", o)
    /\ \A s \in siblings : settled(s) /\ gateway[s] # "refunded"
    => isEntitled(PairOf[o]) \/ enrollment[PairOf[o]].revokedReason = "support"

\* "payment.refunded -> pull access back" (enrollments.service.ts:208): once
\* everything has settled, a user whose only orders were all refunded cannot
\* read the course.
SettledRefundsAreClosed ==
  \A p \in Pairs :
    LET bought == {o \in Orders : PairOf[o] = p} IN
    /\ bought # {}
    /\ \A o \in bought : /\ gateway[o] = "refunded" /\ settled(o)
                         /\ announced("payment.refunded", o)
    => ~isEntitled(p)

\* Who paid gets enrolled (infra/terraform/modules/events/main.tf:8-9 names
\* the opposite as what the bus must rule out).
PaidMeansEnrolled == \A o \in Orders : paid(o) ~> hasRow(PairOf[o])

\* A payment of order o was announced to a process of enrollment-service that
\* has stopped since.
announcedToTheDead(o) ==
  \E e \in published : e.name = "payment.completed" /\ e.order = o /\ e.id < upSince

\* So it is as long as payment-service does not stop between writing a row and
\* announcing it, nor enrollment-service between the announcement and its own
\* row.  Lost webhooks, repeated and overlapping requests, and stops of
\* enrollment-service at any other moment do no harm.
SalesOpenUnlessStopped ==
  [](crashes = 0) =>
    \A o \in Orders : paid(o) ~> (hasRow(PairOf[o]) \/ announcedToTheDead(o))
=============================================================================
