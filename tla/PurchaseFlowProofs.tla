------------------------- MODULE PurchaseFlowProofs -------------------------
(***************************************************************************)
(* The two services together.  Each keeps its own invariant whatever the   *)
(* other does, because they share only the bus; that access follows money  *)
(* then needs no further induction: rows come from applied events, and     *)
(* published events follow the money.                                      *)
(***************************************************************************)
EXTENDS PurchaseFlow, PaymentServiceProofs, EnrollmentServiceProofs

FlowInv == MoneyInv /\ EnrollmentInv

\* The consumer leaves the published events alone.
LEMMA EnrollmentBus ==
  ASSUME EnrollmentStep
  PROVE  published' = published /\ nextId' = nextId
  BY DEF EnrollmentStep, Handle, Deliver, Commit, Reject, Restart, enrollFree, grant,
         revoke, createEnrollment, deadLetter, busVars

LEMMA FlowStep == FlowInv /\ [Next]_vars => FlowInv'
<1> SUFFICES ASSUME FlowInv, [Next]_vars PROVE FlowInv'
  OBVIOUS
<1> USE DEF FlowInv
<1>1. CASE PaymentStep /\ UNCHANGED enrollVars
  <2>1. MoneyInv' BY <1>1, MoneyStep
  <2>2. EnrollmentInv'
    BY <1>1, PaymentBus, PublishStep, EnrollmentStutter DEF MoneyInv
  <2>3. QED BY <2>1, <2>2
<1>2. CASE EnrollmentStep /\ UNCHANGED paymentVars
  <2>1. EnrollmentInv' BY <1>2, EnrollmentStepInv
  <2>2. BusTypeOK' BY <2>1 DEF EnrollmentInv, EnrollmentTypeOK
  <2>3. MoneyInv'
    BY <1>2, <2>2, EnrollmentBus
       DEF MoneyInv, PaymentTypeOK, RowsFollowTheMoney, EventsFollowTheMoney,
           HandlersFollowTheMoney, justified, announced, paid, paymentVars
  <2>4. QED BY <2>1, <2>3
<1>3. CASE UNCHANGED vars
  <2>1. MoneyInv' BY <1>3, MoneyStep DEF vars, paymentSystem
  <2>2. EnrollmentInv' BY <1>3, EnrollmentStutter DEF vars
  <2>3. QED BY <2>1, <2>2
<1>4. QED BY <1>1, <1>2, <1>3 DEF Next

LEMMA FlowAlways == Spec => []FlowInv
<1>1. Init => FlowInv BY MoneyInit, EnrollmentInitInv DEF Init, FlowInv
<1>2. QED BY <1>1, FlowStep, PTL DEF Spec

\* Nobody is let into a course by a payment that was not made, or that was
\* made by another user or for another course.
THEOREM AccessIsAlwaysPaidFor == Spec => []AccessIsPaidFor
<1>1. FlowInv => AccessIsPaidFor
  <2> SUFFICES ASSUME FlowInv, NEW p \in Pairs, enrollment[p].payment # Absent
               PROVE  PairOf[enrollment[p].payment] = p /\ paid(enrollment[p].payment)
    BY DEF AccessIsPaidFor
  <2>1. PICK e \in applied : /\ e.name = "payment.completed"
                             /\ e.order = enrollment[p].payment
                             /\ PairOf[e.order] = p
    BY DEF FlowInv, EnrollmentInv, RowsComeFromEvents
  <2>2. e \in published /\ e.order \in Orders
    BY DEF applied, FlowInv, MoneyInv, PaymentTypeOK, BusTypeOK, Envelope
  <2>3. paid(e.order)
    BY <2>1, <2>2 DEF FlowInv, MoneyInv, EventsFollowTheMoney, announced
  <2>4. QED BY <2>1, <2>3
<1>2. QED BY <1>1, FlowAlways, PTL

\* Nobody loses a course "for a refund" without money having gone back for an
\* order of that user and course.
THEOREM RefundRevocationsAreAlwaysReal == Spec => []RefundRevocationsAreReal
<1>1. FlowInv => RefundRevocationsAreReal
  <2> SUFFICES ASSUME FlowInv, NEW p \in Pairs, enrollment[p].revokedReason = "refund"
               PROVE  \E o \in Orders : PairOf[o] = p /\ gateway[o] = "refunded"
    BY DEF RefundRevocationsAreReal
  <2>1. PICK e \in applied : e.name = "payment.refunded" /\ PairOf[e.order] = p
    BY DEF FlowInv, EnrollmentInv, RowsComeFromEvents
  <2>2. e \in published /\ e.order \in Orders
    BY DEF applied, FlowInv, MoneyInv, PaymentTypeOK, BusTypeOK, Envelope
  <2>3. QED
    BY <2>1, <2>2 DEF FlowInv, MoneyInv, EventsFollowTheMoney, announced
<1>2. QED BY <1>1, FlowAlways, PTL
-----------------------------------------------------------------------------
(* Settled sales                                                           *)

\* A completed sale that was applied is open until a refund of the same user
\* and course is applied or support closes it, by every step of either service.
LEMMA OpenAlways == Spec => []AppliedSalesAreOpen
<1>1. Init => AppliedSalesAreOpen
  BY DEF Init, BusInit, EnrollmentInit, AppliedSalesAreOpen, appliedTo, applied
<1>2. FlowInv /\ AppliedSalesAreOpen /\ [Next]_vars => AppliedSalesAreOpen'
  <2> SUFFICES ASSUME FlowInv, AppliedSalesAreOpen, [Next]_vars
               PROVE  AppliedSalesAreOpen'
    OBVIOUS
  <2> USE DEF FlowInv
  <2>1. CASE PaymentStep /\ UNCHANGED enrollVars
    BY <2>1, PaymentBus, OpenPublished DEF MoneyInv
  <2>2. CASE EnrollmentStep
    BY <2>2, OpenStep
  <2>3. CASE UNCHANGED vars
    BY <2>3, OpenPublished DEF vars
  <2>4. QED BY <2>1, <2>2, <2>3 DEF Next
<1>3. QED BY <1>1, <1>2, FlowAlways, PTL DEF Spec

\* Once everything about a user's orders for a course has settled, an
\* announced payment has opened the course, unless one of the orders was
\* refunded or support closed it: for any number of orders of one user for one
\* course, of concurrent handlers and copies, and of stops.
THEOREM SettledPurchasesAreAlwaysOpen == Spec => []SettledPurchasesAreOpen
<1>1. FlowInv /\ AppliedSalesAreOpen => SettledPurchasesAreOpen
  <2> SUFFICES ASSUME FlowInv, AppliedSalesAreOpen, NEW o \in Orders,
                      announced("payment.completed", o),
                      \A s \in {s \in Orders : PairOf[s] = PairOf[o]} :
                         settled(s) /\ gateway[s] # "refunded"
               PROVE  open(PairOf[o])
    BY DEF SettledPurchasesAreOpen, open
  <2>1. PairOf[o] \in Pairs BY PairOfType
  <2>2. appliedTo("payment.completed", PairOf[o])
    <3>1. PICK e \in published : e.name = "payment.completed" /\ e.order = o
      BY DEF announced
    <3>2. e.id \in processed BY <3>1 DEF settled
    <3>3. QED BY <3>1, <3>2 DEF appliedTo, applied
  <2>3. ~appliedTo("payment.refunded", PairOf[o])
    <3> SUFFICES ASSUME NEW e \in applied, e.name = "payment.refunded",
                        PairOf[e.order] = PairOf[o]
                 PROVE  FALSE
      BY DEF appliedTo
    <3>1. e \in published /\ e.order \in Orders
      BY DEF applied, FlowInv, MoneyInv, PaymentTypeOK, BusTypeOK, Envelope
    <3>2. gateway[e.order] = "refunded"
      BY <3>1 DEF FlowInv, MoneyInv, EventsFollowTheMoney, announced
    <3>3. QED BY <3>1, <3>2
  <2>4. QED BY <2>1, <2>2, <2>3 DEF AppliedSalesAreOpen
<1>2. QED BY <1>1, FlowAlways, OpenAlways, PTL

\* What payment-service keeps about announcements and answers, the consumer
\* cannot disturb.
LEMMA PaymentPromisesAlways == Spec => [](CommitsAreAnnounced /\ AnsweredInv)
<1> DEFINE P == CommitsAreAnnounced /\ AnsweredInv
<1>1. Init => P
  BY DEF Init, PaymentInit, CommitsAreAnnounced, AnsweredInv, RowsAreMarked, WebhooksHaveRows,
         HandlersAreInPlace, FailuresAreJustified, RowsAreInsertedOnce, AnswersAreMarked
<1>2. FlowInv /\ P /\ [Next]_vars => P'
  <2> SUFFICES ASSUME FlowInv, P, [Next]_vars PROVE P'
    OBVIOUS
  <2>1. CASE [PaymentStep]_paymentSystem
    BY <2>1, CommitsStep, MarkedStep, HaveRowsStep, InPlaceStep, FailuresStep, InsertStep,
       AnsweredStep
       DEF FlowInv, MoneyInv, AnsweredInv
  <2>2. CASE EnrollmentStep /\ UNCHANGED paymentVars
    <3>1. published' = published BY <2>2, EnrollmentBus
    <3>2. CommitsAreAnnounced'
      BY <2>2, <3>1 DEF CommitsAreAnnounced, announced, paymentVars
    <3>3. AnsweredInv'
      BY <2>2 DEF AnsweredInv, RowsAreMarked, WebhooksHaveRows, HandlersAreInPlace, inPlace,
                  FailuresAreJustified, failable, RowsAreInsertedOnce, AnswersAreMarked,
                  paymentVars
    <3>4. QED BY <3>2, <3>3
  <2>3. CASE UNCHANGED vars
    BY <2>1, <2>3 DEF vars, paymentSystem
  <2>4. QED BY <2>1, <2>2, <2>3 DEF Next
<1> HIDE DEF P
<1>3. Spec => []P BY <1>1, <1>2, FlowAlways, PTL DEF Spec
<1>4. QED BY <1>3 DEF P

\* Razorpay was answered that order o is paid.
captureAnswered(o) == [kind |-> "payment.captured", order |-> o] \in acked

AnsweredPurchasesAreOpen ==
  crashes = 0 =>
    \A o \in Orders :
      LET siblings == {s \in Orders : PairOf[s] = PairOf[o]} IN
      /\ captureAnswered(o)
      /\ \A s \in siblings : settled(s) /\ gateway[s] # "refunded"
      => isEntitled(PairOf[o]) \/ enrollment[PairOf[o]].revokedReason = "support"

\* Nobody pays for nothing: a capture that Razorpay was told to be done with
\* has opened the course once nothing is under way, as long as payment-service
\* did not stop.  It is what PaidMeansEnrolled says, less that Razorpay calls
\* again and that what is under way ends.
THEOREM AnsweredPurchasesAreAlwaysOpen == Spec => []AnsweredPurchasesAreOpen
<1>1. CommitsAreAnnounced /\ AnsweredInv /\ SettledPurchasesAreOpen => AnsweredPurchasesAreOpen
  <2> SUFFICES ASSUME CommitsAreAnnounced, AnsweredInv, SettledPurchasesAreOpen,
                      crashes = 0, NEW o \in Orders, captureAnswered(o),
                      \A s \in {s \in Orders : PairOf[s] = PairOf[o]} :
                         settled(s) /\ gateway[s] # "refunded"
               PROVE  open(PairOf[o])
    BY DEF AnsweredPurchasesAreOpen, open
  <2>1. rzpPaymentId[o]
    BY DEF captureAnswered, AnsweredInv, AnswersAreMarked
  <2>2. \A r \in requests : r.order # o BY DEF settled
  <2>3. announced("payment.completed", o) BY <2>1, <2>2 DEF CommitsAreAnnounced
  <2>4. QED BY <2>3 DEF SettledPurchasesAreOpen, open
<1>2. QED BY <1>1, PaymentPromisesAlways, SettledPurchasesAreAlwaysOpen, PTL

LEMMA OpenSinceAlways == noGifts => (Spec => []OpenSinceAPayment)
<1> SUFFICES ASSUME noGifts PROVE Spec => []OpenSinceAPayment
  OBVIOUS
<1>1. Init => OpenSinceAPayment
  BY DEF Init, EnrollmentInit, OpenSinceAPayment, isEntitled, hasRow, NoRow, Absent
<1>2. FlowInv /\ OpenSinceAPayment /\ [Next]_vars => OpenSinceAPayment'
  <2> SUFFICES ASSUME FlowInv, OpenSinceAPayment, [Next]_vars
               PROVE  OpenSinceAPayment'
    OBVIOUS
  <2> USE DEF FlowInv
  <2>1. CASE PaymentStep /\ UNCHANGED enrollVars
    BY <2>1, PaymentBus, OpenSincePublished DEF MoneyInv
  <2>2. CASE EnrollmentStep
    BY <2>2, OpenSinceStep
  <2>3. CASE UNCHANGED vars
    BY <2>3, OpenSincePublished DEF vars
  <2>4. QED BY <2>1, <2>2, <2>3 DEF Next
<1>3. QED BY <1>1, <1>2, FlowAlways, PTL DEF Spec

\* A payment for the course of p was applied after a refund of it.
overtaken(p) ==
  \E i, j \in DOMAIN effects :
    i < j /\ isAbout(i, "payment.refunded", p) /\ isAbout(j, "payment.completed", p)

\* SettledRefundsAreClosed, with its one exception: once everything about an
\* order has settled, an announced refund has closed the course, unless a
\* payment for it was applied after a refund.
RefundsCloseUnlessOvertaken ==
  \A o \in Orders :
    announced("payment.refunded", o) /\ settled(o) =>
      ~isEntitled(PairOf[o]) \/ overtaken(PairOf[o])

\* So the order of delivery is the only way a refunded user keeps the course,
\* where nobody is enrolled for free or by support: neither overlapping handlers
\* and copies nor stops, retries and repeated announcements do it.
THEOREM RefundsAlwaysCloseUnlessOvertaken ==
  noGifts => (Spec => []RefundsCloseUnlessOvertaken)
<1> SUFFICES ASSUME noGifts PROVE Spec => []RefundsCloseUnlessOvertaken
  OBVIOUS
<1>1. FlowInv /\ OpenSinceAPayment => RefundsCloseUnlessOvertaken
  <2> SUFFICES ASSUME FlowInv, OpenSinceAPayment, NEW o \in Orders,
                      announced("payment.refunded", o), settled(o),
                      isEntitled(PairOf[o])
               PROVE  overtaken(PairOf[o])
    BY DEF RefundsCloseUnlessOvertaken
  <2>0. PairOf[o] \in Pairs BY PairOfType
  <2>1. PICK e \in published : e.name = "payment.refunded" /\ e.order = o
    BY DEF announced
  <2>2. e.id \in processed BY <2>1 DEF settled
  <2>3. PICK i \in DOMAIN effects : effects[i] = e.id
    BY <2>2 DEF FlowInv, EnrollmentInv, LedgerMatchesEffects
  <2>4. isAbout(i, "payment.refunded", PairOf[o])
    BY <2>1, <2>3 DEF isAbout
  <2>5. PICK j \in DOMAIN effects :
          /\ isAbout(j, "payment.completed", PairOf[o])
          /\ \A k \in DOMAIN effects : isAbout(k, "payment.refunded", PairOf[o]) => k < j
    BY <2>0 DEF OpenSinceAPayment
  <2>6. QED BY <2>4, <2>5 DEF overtaken
<1>2. QED BY <1>1, FlowAlways, OpenSinceAlways, PTL
-----------------------------------------------------------------------------
(* The sale                                                                *)

\* What the sale sees of a published event.
claim(e) == [id |-> e.id, order |-> e.order, opens |-> e.name = "payment.completed"]

claimed == {claim(e) : e \in published}

\* The sale sees nothing but the money, the events, the ledger and access.
LEMMA SaleStutters ==
  ASSUME UNCHANGED <<gateway, published, processed, enrollment>>
  PROVE  UNCHANGED Honest!vars
<1>1. claimed' = claimed BY DEF claimed, claim
<1>2. accesses' = accesses BY DEF accesses, isEntitled, hasRow
<1>3. QED BY <1>1, <1>2 DEF Honest!vars, claimed, claim, accesses

\* payment-service publishes a fact about money as one new claim.
LEMMA PublishClaims ==
  ASSUME FlowInv, NEW name \in EventName, NEW o \in Orders, publish(name, o),
         IF name = "payment.completed" THEN paid(o) ELSE gateway[o] = "refunded",
         UNCHANGED gateway, UNCHANGED enrollVars
  PROVE  Honest!Next
<1> PICK c : c = [id |-> nextId, order |-> o, opens |-> name = "payment.completed"]
  OBVIOUS
<1>1. published' = published \cup {[id |-> nextId, name |-> name, order |-> o]}
  BY DEF publish
<1>2. claimed' = claimed \cup {c}
  <2>1. claim([id |-> nextId, name |-> name, order |-> o]) = c BY DEF claim
  <2>2. claimed' = {claim(e) : e \in published'} BY DEF claimed, claim
  <2>3. QED BY <1>1, <2>1, <2>2 DEF claimed
<1>3. \A d \in claimed : d.id # nextId
  BY DEF claimed, claim, FlowInv, EnrollmentInv, FreshIds, EnrollmentTypeOK, BusTypeOK, Envelope
<1>4. c.id = nextId /\ c.order = o /\ c.opens = (name = "payment.completed")
  OBVIOUS
<1>5. gateway[c.order] \in IF c.opens THEN {"captured", "refunded"} ELSE {"refunded"}
  BY <1>4 DEF paid
<1>6. c \in claimed' \ claimed
  BY <1>2, <1>3, <1>4
<1>7. accesses' = accesses /\ processed' = processed
  BY DEF accesses, isEntitled, hasRow, enrollVars
<1>8. Honest!Claim(c)
  BY <1>2, <1>3, <1>4, <1>5, <1>7 DEF Honest!Claim, claimed, claim, accesses
<1>9. QED BY <1>6, <1>8 DEF Honest!Next, claimed, claim

\* A step of Razorpay or of a refund moves the money of one order onward.
LEMMA MoneyStepMoves ==
  ASSUME FlowInv, NEW o \in Orders, gateway[o] \in DOMAIN Honest!onward,
         gateway' = [gateway EXCEPT ![o] = Honest!onward[gateway[o]]],
         UNCHANGED busVars, UNCHANGED enrollVars
  PROVE  Honest!Next
<1>1. gateway' = [gateway EXCEPT ![o] = Honest!onward[@]]
  OBVIOUS
<1>2. claimed' = claimed /\ accesses' = accesses /\ processed' = processed
  BY DEF claimed, claim, accesses, isEntitled, hasRow, enrollVars, busVars
<1>3. Honest!MoneyMoves(o)
  BY <1>1, <1>2 DEF Honest!MoneyMoves, claimed, claim, accesses
<1>4. QED BY <1>3 DEF Honest!Next

LEMMA PaymentSells ==
  ASSUME FlowInv, PaymentStep, UNCHANGED enrollVars
  PROVE  [Honest!Next]_(Honest!vars)
<1>0. /\ gateway \in [Orders -> {"none", "created", "captured", "refunded"}]
      /\ \A r \in requests : r.order \in Orders /\ justified(r.at, r.order)
  BY DEF FlowInv, MoneyInv, PaymentTypeOK, Request, HandlersFollowTheMoney
<1>1. ASSUME UNCHANGED <<gateway, busVars>> PROVE UNCHANGED Honest!vars
  BY <1>1, SaleStutters DEF busVars, enrollVars
<1>2. ASSUME NEW r \in requests, publishPaymentCompleted(r) PROVE Honest!Next
  <2>1. paid(r.order) /\ publish("payment.completed", r.order) /\ gateway' = gateway
    BY <1>0, <1>2 DEF publishPaymentCompleted, justified
  <2>2. QED BY <1>0, <2>1, PublishClaims DEF EventName
<1>3. ASSUME NEW r \in requests, publishPaymentRefunded(r) PROVE Honest!Next
  <2>1. /\ gateway[r.order] = "refunded" /\ publish("payment.refunded", r.order)
        /\ gateway' = gateway
    BY <1>0, <1>3 DEF publishPaymentRefunded, justified
  <2>2. QED BY <1>0, <2>1, PublishClaims DEF EventName
<1>4. ASSUME NEW r \in requests, refundAtGateway(r), gateway' # gateway PROVE Honest!Next
  <2>1. /\ gateway[r.order] = "captured" /\ UNCHANGED busVars
        /\ gateway' = [gateway EXCEPT ![r.order] = "refunded"]
    BY <1>4 DEF refundAtGateway
  <2>2. /\ gateway[r.order] \in DOMAIN Honest!onward
        /\ gateway' = [gateway EXCEPT ![r.order] = Honest!onward[gateway[r.order]]]
    BY <2>1 DEF Honest!onward
  <2>3. QED BY <1>0, <2>1, <2>2, MoneyStepMoves
<1>5. ASSUME NEW o \in Orders, createOrder(o) PROVE Honest!Next
  <2>1. /\ gateway[o] = "none" /\ gateway' = [gateway EXCEPT ![o] = "created"]
        /\ UNCHANGED busVars
    BY <1>5 DEF createOrder
  <2>2. /\ gateway[o] \in DOMAIN Honest!onward
        /\ gateway' = [gateway EXCEPT ![o] = Honest!onward[gateway[o]]]
    BY <2>1 DEF Honest!onward
  <2>3. QED BY <2>1, <2>2, MoneyStepMoves
<1>6. ASSUME NEW o \in Orders, pay(o) PROVE Honest!Next
  <2>1. /\ gateway[o] = "created" /\ gateway' = [gateway EXCEPT ![o] = "captured"]
        /\ UNCHANGED busVars
    BY <1>6 DEF pay
  <2>2. /\ gateway[o] \in DOMAIN Honest!onward
        /\ gateway' = [gateway EXCEPT ![o] = Honest!onward[gateway[o]]]
    BY <2>1 DEF Honest!onward
  <2>3. QED BY <2>1, <2>2, MoneyStepMoves
<1>7. ASSUME NEW r \in requests,
             \/ insertPayment(r) \/ completePayment(r) \/ redeemCoupon(r)
             \/ failPayment(r) \/ markRefunded(r)
             \/ refundAtGateway(r) /\ gateway' = gateway
      PROVE  UNCHANGED Honest!vars
  <2>1. UNCHANGED <<gateway, busVars>>
    BY <1>7 DEF insertPayment, completePayment, redeemCoupon, failPayment, markRefunded,
                refundAtGateway
  <2>2. QED BY <1>1, <2>1
<1>8. ASSUME \/ \E o \in Orders, slot \in Slots : verifyPayment(o, slot) \/ createRefund(o, slot)
             \/ \E w \in sent, slot \in Slots : handleWebhook(w, slot)
             \/ \E o \in Orders : attemptFails(o)
             \/ \E r \in requests : callRejects(r)
             \/ crash
      PROVE  UNCHANGED Honest!vars
  <2>1. UNCHANGED <<gateway, busVars>>
    BY <1>8 DEF verifyPayment, createRefund, handleWebhook, attemptFails, crash, callRejects, cutOff
  <2>2. QED BY <1>1, <2>1
<1>9. CASE \E r \in requests : Step(r)
  BY <1>2, <1>3, <1>4, <1>7, <1>9 DEF Step
<1>10. QED BY <1>5, <1>6, <1>8, <1>9 DEF PaymentStep

LEMMA EnrollmentSells ==
  ASSUME FlowInv, EnrollmentStep, UNCHANGED paymentVars
  PROVE  [Honest!Next]_(Honest!vars)
<1>0. EnrollmentInv /\ UNCHANGED <<gateway, published>>
  BY EnrollmentBus DEF FlowInv, paymentVars
<1>same. claimed' = claimed BY <1>0 DEF claimed, claim
<1>1. ASSUME NEW h \in running, Commit(h) PROVE Honest!Next
  <2> PICK c : c = claim(h.evt) OBVIOUS
  <2>1. /\ c.id = h.evt.id /\ c.order = h.evt.order
        /\ c.opens = (h.evt.name = "payment.completed")
    BY DEF claim
  <2>2. /\ h.evt \in published /\ c.id \notin processed
        /\ processed' = processed \cup {c.id}
        /\ accesses' = [accesses EXCEPT ![PairOf[c.order]] = c.opens]
    BY <1>0, <1>1, <2>1, CommitEffect
  <2>3. c \in claimed BY <2>2 DEF claimed
  <2>4. Honest!Settle(c)
    BY <1>0, <1>same, <2>2 DEF Honest!Settle, claimed, claim, accesses
  <2>5. QED BY <2>3, <2>4 DEF Honest!Next, claimed, claim
<1>2. ASSUME NEW p \in Pairs, enrollFree(p) \/ grant(p) \/ revoke(p) PROVE Honest!Next
  <2>1. PICK opens \in BOOLEAN :
          /\ opens \in decisions
          /\ accesses' = [accesses EXCEPT ![p] = opens]
          /\ processed' = processed
    BY <1>0, <1>2, RequestEffect DEF decisions
  <2>2. Honest!Decide(p)
    BY <1>0, <1>same, <2>1 DEF Honest!Decide, claimed, claim, accesses
  <2>3. QED BY <2>2 DEF Honest!Next
<1>3. ASSUME \/ \E evt \in published, copy \in Copies : Deliver(evt, copy)
             \/ \E h \in running : Reject(h)
             \/ Restart
      PROVE  UNCHANGED Honest!vars
  <2>1. UNCHANGED <<processed, enrollment>>
    BY <1>3 DEF Deliver, Reject, Restart
  <2>2. QED BY <1>0, <2>1, SaleStutters
<1>4. QED BY <1>1, <1>2, <1>3 DEF EnrollmentStep, Handle

\* payment-service, the bus and enrollment-service implement the sale, for any
\* number of users, orders, requests, copies and stops: who may read a course
\* changes only with a true claim about an order of that user and course, used
\* for the first time, or by a decision the run allows.
THEOREM FlowSellsHonestly == Spec => SalesAreHonest
<1>1. Init => Honest!Init
  <2> SUFFICES ASSUME Init PROVE Honest!Init
    OBVIOUS
  <2>1. published = {} /\ processed = {} /\ gateway = [o \in Orders |-> "none"]
    BY DEF Init, BusInit, PaymentInit, EnrollmentInit
  <2>2. \A p \in Pairs : isEntitled(p) = FALSE
    BY DEF Init, EnrollmentInit, isEntitled, hasRow, NoRow
  <2>3. accesses = [p \in Pairs |-> FALSE] BY <2>2 DEF accesses
  <2>4. claimed = {} BY <2>1 DEF claimed
  <2>5. QED BY <2>1, <2>3, <2>4 DEF Honest!Init, accesses, claimed, claim
<1>2. FlowInv /\ [Next]_vars => [Honest!Next]_(Honest!vars)
  <2> SUFFICES ASSUME FlowInv, [Next]_vars PROVE [Honest!Next]_(Honest!vars)
    OBVIOUS
  <2>1. CASE UNCHANGED vars
    BY <2>1, SaleStutters DEF vars, paymentVars, enrollVars, busVars
  <2>2. QED BY <2>1, PaymentSells, EnrollmentSells DEF Next
<1>3. QED BY <1>1, <1>2, FlowAlways, PTL DEF Spec, SalesAreHonest, Honest!Spec
=============================================================================
