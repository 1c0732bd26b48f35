------------------------ MODULE PaymentServiceProofs ------------------------
(***************************************************************************)
(* The payment service never runs ahead of the money, for every set of     *)
(* orders, users, slots and every bound.  The argument: once Razorpay has  *)
(* captured or refunded an order it stays so (MoneyIsFinal), every handler *)
(* in flight stands where it does because of money that moved              *)
(* (HandlersFollowTheMoney), and so the writes it has yet to make are      *)
(* justified whenever they come, whatever the row says by then.            *)
(***************************************************************************)
EXTENDS PaymentService, EventBusProofs

\* The inductive invariant.
MoneyInv ==
  /\ PaymentTypeOK
  /\ RowsFollowTheMoney
  /\ EventsFollowTheMoney
  /\ HandlersFollowTheMoney

-----------------------------------------------------------------------------

\* Moving a request on, or ending it, keeps the set of requests well typed and
\* adds no acknowledgement for a webhook that was not sent.
LEMMA RequestsTyped ==
  ASSUME PaymentTypeOK, NEW r \in requests, NEW at \in At,
         goto(r, at) \/ return(r) \/ throw(r)
  PROVE  /\ requests' \subseteq Request
         /\ acked' \subseteq sent
  BY DEF PaymentTypeOK, Request, goto, return, throw

\* A handler that is cut off is gone, and was counted.
LEMMA CutOff ==
  ASSUME PaymentTypeOK, NEW r \in requests, cutOff(r)
  PROVE  throw(r) /\ crashes' \in 0..MaxCrashes /\ crashes' # 0
  BY BoundsType DEF cutOff, PaymentTypeOK

LEMMA StartTyped ==
  ASSUME PaymentTypeOK, NEW op \in Op, NEW o \in Orders, NEW slot \in Slots,
         NEW at \in At, start(op, o, slot, at)
  PROVE  requests' \subseteq Request
  BY DEF PaymentTypeOK, Request, start

\* Type correctness is kept by every step of the service.
LEMMA TypeStep ==
  ASSUME PaymentTypeOK, [PaymentStep]_paymentSystem
  PROVE  PaymentTypeOK'
<1> USE DEF PaymentTypeOK
<1>0. ASSUME busVars' = busVars PROVE BusTypeOK'
  BY <1>0 DEF BusTypeOK, busVars, Envelope
<1>1. ASSUME NEW r \in requests, insertPayment(r) PROVE PaymentTypeOK'
  <2>1. return(r) /\ busVars' = busVars BY <1>1 DEF insertPayment
  <2>2. requests' \subseteq Request /\ acked' \subseteq sent
    BY <2>1, RequestsTyped DEF At
  <2>3. QED BY <1>0, <1>1, <2>1, <2>2 DEF insertPayment, Status, Request
<1>2. ASSUME NEW r \in requests, completePayment(r) PROVE PaymentTypeOK'
  <2>1. goto(r, "announce") /\ busVars' = busVars BY <1>2 DEF completePayment
  <2>2. requests' \subseteq Request /\ acked' \subseteq sent
    BY <2>1, RequestsTyped DEF At
  <2>3. QED BY <1>0, <1>2, <2>1, <2>2 DEF completePayment, Status, Request
<1>3. ASSUME NEW r \in requests, publishPaymentCompleted(r) PROVE PaymentTypeOK'
  <2>1. requests' \subseteq Request /\ acked' \subseteq sent /\ crashes' \in 0..MaxCrashes
    BY <1>3, RequestsTyped, CutOff DEF publishPaymentCompleted, At
  <2>2. BusTypeOK'
    BY <1>3, PublishTyped DEF publishPaymentCompleted, EventName, Request
  <2>3. QED BY <1>3, <2>1, <2>2 DEF publishPaymentCompleted
<1>4. ASSUME NEW r \in requests, redeemCoupon(r) PROVE PaymentTypeOK'
  <2>1. return(r) /\ busVars' = busVars BY <1>4 DEF redeemCoupon
  <2>2. requests' \subseteq Request /\ acked' \subseteq sent
    BY <2>1, RequestsTyped DEF At
  <2>3. redeemed' \in [Orders -> Nat]
    <3>1. PICK counted \in {0, 1} :
            redeemed' = [redeemed EXCEPT ![r.order] = @ + counted]
      BY <1>4 DEF redeemCoupon
    <3>2. r.order \in Orders BY DEF Request
    <3>3. redeemed[r.order] + counted \in Nat BY <3>2
    <3>4. QED BY <3>1, <3>2, <3>3
  <2>4. QED BY <1>0, <1>4, <2>1, <2>2, <2>3 DEF redeemCoupon
<1>5. ASSUME NEW r \in requests, failPayment(r) PROVE PaymentTypeOK'
  <2>1. requests' \subseteq Request /\ acked' \subseteq sent /\ crashes' \in 0..MaxCrashes
    BY <1>5, RequestsTyped, CutOff DEF failPayment, At
  <2>2. QED BY <1>0, <1>5, <2>1 DEF failPayment, Status, Request
<1>6. ASSUME NEW r \in requests, refundAtGateway(r) PROVE PaymentTypeOK'
  <2>1. requests' \subseteq Request /\ acked' \subseteq sent
    BY <1>6, RequestsTyped DEF refundAtGateway, At
  <2>2. r.order \in Orders BY DEF Request
  <2>3. sent \subseteq sent' /\ sent' \subseteq Webhook
    BY <1>6, <2>2 DEF refundAtGateway, Webhook, Hook
  <2>4. QED BY <1>0, <1>6, <2>1, <2>2, <2>3 DEF refundAtGateway
<1>7. ASSUME NEW r \in requests, markRefunded(r) PROVE PaymentTypeOK'
  <2>1. goto(r, "announceRefund") /\ busVars' = busVars BY <1>7 DEF markRefunded
  <2>2. requests' \subseteq Request /\ acked' \subseteq sent
    BY <2>1, RequestsTyped DEF At
  <2>3. QED BY <1>0, <1>7, <2>1, <2>2 DEF markRefunded, Status, Request
<1>8. ASSUME NEW r \in requests, publishPaymentRefunded(r) PROVE PaymentTypeOK'
  <2>1. requests' \subseteq Request /\ acked' \subseteq sent /\ crashes' \in 0..MaxCrashes
    BY <1>8, RequestsTyped, CutOff DEF publishPaymentRefunded, At
  <2>2. BusTypeOK'
    BY <1>8, PublishTyped DEF publishPaymentRefunded, EventName, Request
  <2>3. QED BY <1>8, <2>1, <2>2 DEF publishPaymentRefunded
<1>9. ASSUME NEW o \in Orders, NEW slot \in Slots, verifyPayment(o, slot)
      PROVE PaymentTypeOK'
  <2>1. requests' \subseteq Request
    BY <1>9, StartTyped DEF verifyPayment, Op, At
  <2>2. calls' \in 0..MaxCalls BY <1>9, BoundsType DEF verifyPayment
  <2>3. QED BY <1>0, <1>9, <2>1, <2>2 DEF verifyPayment
<1>10. ASSUME NEW o \in Orders, NEW slot \in Slots, createRefund(o, slot)
       PROVE PaymentTypeOK'
  <2>1. requests' \subseteq Request
    BY <1>10, StartTyped DEF createRefund, Op, At
  <2>2. calls' \in 0..MaxCalls BY <1>10, BoundsType DEF createRefund
  <2>3. QED BY <1>0, <1>10, <2>1, <2>2 DEF createRefund
<1>11. ASSUME NEW w \in sent, NEW slot \in Slots, handleWebhook(w, slot)
       PROVE PaymentTypeOK'
  <2>1. w.kind \in Hook /\ w.order \in Orders BY DEF Webhook
  <2>2. firstStep(w.kind) \in At BY <2>1 DEF firstStep, Hook, At
  <2>3. requests' \subseteq Request
    <3>1. CASE webhookWrites(w)
      BY <1>11, <2>1, <2>2, <3>1, StartTyped DEF handleWebhook, Op
    <3>2. CASE ~webhookWrites(w)
      BY <1>11, <3>2 DEF handleWebhook
    <3>3. QED BY <3>1, <3>2
  <2>4. acked' \subseteq sent BY <1>11 DEF handleWebhook
  <2>5. calls' \in 0..MaxCalls BY <1>11, BoundsType DEF handleWebhook
  <2>6. QED BY <1>0, <1>11, <2>3, <2>4, <2>5 DEF handleWebhook
<1>12. ASSUME NEW o \in Orders, createOrder(o) PROVE PaymentTypeOK'
  <2>1. requests' \subseteq Request
    BY <1>12, StartTyped DEF createOrder, Op, At
  <2>2. QED BY <1>0, <1>12, <2>1 DEF createOrder
<1>13. ASSUME NEW o \in Orders, pay(o) PROVE PaymentTypeOK'
  <2>1. sent \subseteq sent' /\ sent' \subseteq Webhook
    BY <1>13 DEF pay, Webhook, Hook
  <2>2. QED BY <1>0, <1>13, <2>1 DEF pay
<1>14. ASSUME NEW o \in Orders, attemptFails(o) PROVE PaymentTypeOK'
  <2>1. sent \subseteq sent' /\ sent' \subseteq Webhook
    BY <1>14 DEF attemptFails, Webhook, Hook
  <2>2. QED BY <1>0, <1>14, <2>1 DEF attemptFails
<1>15. ASSUME crash \/ \E r \in requests : callRejects(r) PROVE PaymentTypeOK'
  <2>1. CASE crash
    BY <1>0, <2>1, BoundsType DEF crash
  <2>2. ASSUME NEW r \in requests, callRejects(r) PROVE PaymentTypeOK'
    <3>1. throw(r) /\ crashes' \in 0..MaxCrashes BY <2>2, CutOff DEF callRejects
    <3>2. QED BY <1>0, <2>2, <3>1 DEF callRejects, throw
  <2>3. QED BY <1>15, <2>1, <2>2
<1>16. ASSUME UNCHANGED paymentSystem PROVE PaymentTypeOK'
  BY <1>0, <1>16 DEF paymentSystem, paymentVars
<1>17. QED
  BY <1>1, <1>2, <1>3, <1>4, <1>5, <1>6, <1>7, <1>8, <1>9, <1>10, <1>11,
     <1>12, <1>13, <1>14, <1>15, <1>16 DEF PaymentStep, Step

\* Type correctness of the payment service, for every choice of the constants.
THEOREM PaymentTypes == PaymentSpec => []PaymentTypeOK
<1>1. BusInit /\ PaymentInit => PaymentTypeOK
  BY BoundsType DEF BusInit, PaymentInit, PaymentTypeOK, BusTypeOK, Status
<1>2. PaymentTypeOK /\ [PaymentStep]_paymentSystem => PaymentTypeOK'
  BY TypeStep
<1>3. QED BY <1>1, <1>2, PTL DEF PaymentSpec, PaymentSystemInit
-----------------------------------------------------------------------------

\* What moved stays moved: no step takes a capture or a refund back.
LEMMA MoneyIsFinal ==
  ASSUME PaymentTypeOK, [PaymentStep]_paymentSystem
  PROVE  \A o \in Orders : /\ paid(o) => paid(o)'
                           /\ gateway[o] = "refunded" => gateway'[o] = "refunded"
<1>1. ASSUME NEW r \in requests, Step(r)
      PROVE  gateway' = gateway \/ refundAtGateway(r)
  BY <1>1 DEF Step, insertPayment, completePayment, publishPaymentCompleted,
       redeemCoupon, failPayment, markRefunded, publishPaymentRefunded
<1>2. ASSUME NEW r \in requests, refundAtGateway(r)
      PROVE  \/ gateway' = gateway
             \/ gateway' = [gateway EXCEPT ![r.order] = "refunded"]
  BY <1>2 DEF refundAtGateway
<1>3. ASSUME NEW o \in Orders, createOrder(o) \/ pay(o)
      PROVE  /\ ~paid(o)
             /\ \E v \in {"created", "captured"} : gateway' = [gateway EXCEPT ![o] = v]
  BY <1>3 DEF createOrder, pay, paid
<1>4. \/ gateway' = gateway
      \/ \E r \in requests : gateway' = [gateway EXCEPT ![r.order] = "refunded"]
      \/ \E o \in Orders, v \in {"created", "captured"} :
            ~paid(o) /\ gateway' = [gateway EXCEPT ![o] = v]
  BY <1>1, <1>2, <1>3 DEF PaymentStep, paymentSystem, paymentVars,
       verifyPayment, createRefund, handleWebhook, attemptFails, crash, callRejects, cutOff
<1>5. QED BY <1>4 DEF PaymentTypeOK, paid

\* A request that moves on is a request, at its new place.
LEMMA AfterGoto ==
  ASSUME PaymentTypeOK, NEW r \in requests, NEW at \in At, goto(r, at),
         NEW q \in requests'
  PROVE  q \in requests \/ (q.order = r.order /\ q.at = at)
  BY DEF goto, PaymentTypeOK, Request

LEMMA AfterEnd ==
  ASSUME NEW r \in requests, return(r) \/ throw(r)
  PROVE  requests' \subseteq requests
  BY DEF return, throw

LEMMA AfterStart ==
  ASSUME NEW op, NEW o, NEW slot, NEW at, start(op, o, slot, at), NEW q \in requests'
  PROVE  q \in requests \/ (q.order = o /\ q.at = at)
  BY DEF start

\* Every handler stays justified: it was, it has just been started from a row
\* that shows the money moved, or it moved on from where that was known.
LEMMA HandlersStep ==
  ASSUME MoneyInv, [PaymentStep]_paymentSystem
  PROVE  HandlersFollowTheMoney'
<1> USE DEF MoneyInv
<1> DEFINE Kept == requests' \subseteq requests
           Moved(at, o) == \A q \in requests' :
                              q \in requests \/ (q.order = o /\ q.at = at)
<1>1. \A o \in Orders : /\ paid(o) => paid(o)'
                        /\ gateway[o] = "refunded" => gateway'[o] = "refunded"
  BY MoneyIsFinal
<1>2. /\ \A r \in requests : r.order \in Orders /\ r.at \in At
      /\ \A w \in sent : w.kind \in Hook /\ w.order \in Orders
  BY DEF PaymentTypeOK, Request, Webhook
<1>3. ASSUME sent' = sent
      PROVE  \A w \in sent' :
               /\ w.kind = "payment.captured" => paid(w.order)'
               /\ w.kind = "refund.processed" => gateway'[w.order] = "refunded"
  BY <1>1, <1>2, <1>3 DEF HandlersFollowTheMoney
<1>4. ASSUME Kept PROVE \A q \in requests' : justified(q.at, q.order)'
  BY <1>1, <1>2, <1>4 DEF HandlersFollowTheMoney, justified
<1>5. ASSUME NEW at \in At, NEW o \in Orders, Moved(at, o), justified(at, o)'
      PROVE  \A q \in requests' : justified(q.at, q.order)'
  BY <1>1, <1>2, <1>5 DEF HandlersFollowTheMoney, justified
<1>6. ASSUME NEW r \in requests, Step(r) PROVE HandlersFollowTheMoney'
  <2>1. r.order \in Orders BY <1>2
  <2>2. CASE insertPayment(r)
    BY <2>2, <1>3, <1>4, AfterEnd DEF insertPayment, HandlersFollowTheMoney
  <2>3. CASE completePayment(r)
    <3>1. Moved("announce", r.order) BY <2>3, AfterGoto DEF completePayment, At
    <3>2. justified("announce", r.order)'
      BY <2>1, <2>3, <1>1 DEF completePayment, HandlersFollowTheMoney, justified
    <3>3. QED BY <2>1, <2>3, <3>1, <3>2, <1>3, <1>5
              DEF completePayment, HandlersFollowTheMoney, At
  <2>4. CASE publishPaymentCompleted(r)
    <3>1. justified("redeem", r.order)'
      BY <2>1, <2>4, <1>1 DEF publishPaymentCompleted, HandlersFollowTheMoney, justified
    <3>2. Kept \/ Moved("redeem", r.order)
      BY <2>4, AfterGoto, AfterEnd DEF publishPaymentCompleted, cutOff, At
    <3>3. QED BY <2>1, <2>4, <3>1, <3>2, <1>3, <1>4, <1>5
              DEF publishPaymentCompleted, HandlersFollowTheMoney, At
  <2>5. CASE redeemCoupon(r)
    BY <2>5, <1>3, <1>4, AfterEnd DEF redeemCoupon, HandlersFollowTheMoney
  <2>6. CASE failPayment(r)
    BY <2>6, <1>3, <1>4, AfterEnd DEF failPayment, cutOff, HandlersFollowTheMoney
  <2>7. CASE refundAtGateway(r)
    <3>1. gateway'[r.order] = "refunded"
      BY <2>1, <2>7 DEF refundAtGateway, PaymentTypeOK
    <3>2. sent' \subseteq sent \cup {[kind |-> "refund.processed", order |-> r.order]}
      BY <2>7 DEF refundAtGateway
    <3>3. \A w \in sent' :
            /\ w.kind = "payment.captured" => paid(w.order)'
            /\ w.kind = "refund.processed" => gateway'[w.order] = "refunded"
      BY <3>1, <3>2, <1>1, <1>2 DEF HandlersFollowTheMoney
    <3>4. Kept \/ Moved("refund", r.order)
      BY <2>7, AfterGoto, AfterEnd DEF refundAtGateway, At
    <3>5. justified("refund", r.order)' BY <3>1 DEF justified
    <3>6. QED BY <2>1, <3>3, <3>4, <3>5, <1>4, <1>5
              DEF HandlersFollowTheMoney, At
  <2>8. CASE markRefunded(r)
    <3>1. Moved("announceRefund", r.order) BY <2>8, AfterGoto DEF markRefunded, At
    <3>2. justified("announceRefund", r.order)'
      BY <2>1, <2>8, <1>1 DEF markRefunded, HandlersFollowTheMoney, justified
    <3>3. QED BY <2>1, <2>8, <3>1, <3>2, <1>3, <1>5
              DEF markRefunded, HandlersFollowTheMoney, At
  <2>9. CASE publishPaymentRefunded(r)
    BY <2>9, <1>3, <1>4, AfterEnd
       DEF publishPaymentRefunded, cutOff, HandlersFollowTheMoney
  <2>10. QED BY <1>6, <2>2, <2>3, <2>4, <2>5, <2>6, <2>7, <2>8, <2>9 DEF Step
<1>7. ASSUME NEW o \in Orders, NEW slot \in Slots, verifyPayment(o, slot)
      PROVE  HandlersFollowTheMoney'
  <2>1. /\ busVars' = busVars
        /\ sent' = sent
        /\ gateway' = gateway
    BY <1>7 DEF verifyPayment
  <2>2. CASE paid(o) /\ start("verifyPayment", o, slot, "complete")
    <3>1. Moved("complete", o) BY <2>2, AfterStart
    <3>2. justified("complete", o)' BY <2>1, <2>2, <1>1 DEF justified
    <3>3. QED BY <2>1, <3>1, <3>2, <1>3, <1>5 DEF HandlersFollowTheMoney, At
  <2>3. CASE start("verifyPayment", o, slot, "fail")
    <3>1. Moved("fail", o) BY <2>3, AfterStart
    <3>2. justified("fail", o)' BY DEF justified
    <3>3. QED BY <2>1, <3>1, <3>2, <1>3, <1>5 DEF HandlersFollowTheMoney, At
  <2>4. QED BY <1>7, <2>2, <2>3 DEF verifyPayment
<1>8. ASSUME NEW o \in Orders, NEW slot \in Slots, createRefund(o, slot)
      PROVE  HandlersFollowTheMoney'
  <2>1. Moved("callGateway", o) BY <1>8, AfterStart DEF createRefund
  <2>2. justified("callGateway", o)'
    BY <1>8, <1>1 DEF createRefund, justified, RowsFollowTheMoney
  <2>3. QED BY <1>8, <2>1, <2>2, <1>3, <1>5 DEF createRefund, HandlersFollowTheMoney, At
<1>9. ASSUME NEW w \in sent, NEW slot \in Slots, handleWebhook(w, slot)
      PROVE  HandlersFollowTheMoney'
  <2>1. Kept \/ Moved(firstStep(w.kind), w.order)
    BY <1>9, AfterStart DEF handleWebhook
  <2>2. firstStep(w.kind) \in At BY <1>2 DEF firstStep, Hook, At
  <2>3. justified(firstStep(w.kind), w.order)'
    BY <1>1, <1>2 DEF HandlersFollowTheMoney, justified, firstStep, Hook
  <2>4. QED BY <1>9, <1>2, <2>1, <2>2, <2>3, <1>3, <1>4, <1>5
            DEF handleWebhook, HandlersFollowTheMoney
<1>10. ASSUME NEW o \in Orders, createOrder(o) PROVE HandlersFollowTheMoney'
  <2>1. Moved("insert", o) BY <1>10, AfterStart DEF createOrder
  <2>2. justified("insert", o)' BY DEF justified
  <2>3. QED BY <1>10, <2>1, <2>2, <1>3, <1>5 DEF createOrder, HandlersFollowTheMoney, At
<1>11. ASSUME NEW o \in Orders, pay(o) PROVE HandlersFollowTheMoney'
  <2>1. paid(o)' /\ sent' = sent \cup {[kind |-> "payment.captured", order |-> o]}
    BY <1>11 DEF pay, paid, PaymentTypeOK
  <2>2. Kept BY <1>11 DEF pay
  <2>3. QED BY <2>1, <2>2, <1>1, <1>2, <1>4 DEF HandlersFollowTheMoney
<1>12. ASSUME NEW o \in Orders, attemptFails(o) PROVE HandlersFollowTheMoney'
  <2>1. sent' = sent \cup {[kind |-> "payment.failed", order |-> o]} /\ Kept
    BY <1>12 DEF attemptFails
  <2>2. QED BY <2>1, <1>1, <1>2, <1>4 DEF HandlersFollowTheMoney
<1>13. ASSUME \/ crash \/ \E r \in requests : callRejects(r)
              \/ UNCHANGED paymentSystem
       PROVE  HandlersFollowTheMoney'
  BY <1>13, <1>3, <1>4, AfterEnd
     DEF crash, callRejects, cutOff, paymentSystem, paymentVars, HandlersFollowTheMoney
<1>14. QED
  BY <1>6, <1>7, <1>8, <1>9, <1>10, <1>11, <1>12, <1>13 DEF PaymentStep
-----------------------------------------------------------------------------

\* A write of a row is justified by where its handler stands.
LEMMA RowsStep ==
  ASSUME MoneyInv, [PaymentStep]_paymentSystem
  PROVE  RowsFollowTheMoney'
<1> USE DEF MoneyInv
<1>1. \A o \in Orders : /\ paid(o) => paid(o)'
                        /\ gateway[o] = "refunded" => gateway'[o] = "refunded"
  BY MoneyIsFinal
<1>2. ASSUME UNCHANGED <<status, rzpPaymentId, refundedAt>>
      PROVE  RowsFollowTheMoney'
  BY <1>1, <1>2 DEF RowsFollowTheMoney
<1>3. ASSUME NEW r \in requests, Step(r) PROVE RowsFollowTheMoney'
  <2>1. r.order \in Orders /\ justified(r.at, r.order)
    BY DEF PaymentTypeOK, Request, HandlersFollowTheMoney
  <2>2. CASE insertPayment(r)
    BY <2>1, <2>2, <1>1 DEF insertPayment, RowsFollowTheMoney, PaymentTypeOK
  <2>3. CASE completePayment(r)
    BY <2>1, <2>3, <1>1 DEF completePayment, justified, RowsFollowTheMoney, PaymentTypeOK
  <2>4. CASE failPayment(r)
    BY <2>1, <2>4, <1>1 DEF failPayment, RowsFollowTheMoney, PaymentTypeOK
  <2>5. CASE markRefunded(r)
    BY <2>1, <2>5, <1>1 DEF markRefunded, justified, RowsFollowTheMoney, PaymentTypeOK, paid
  <2>6. CASE \/ publishPaymentCompleted(r) \/ redeemCoupon(r)
             \/ refundAtGateway(r) \/ publishPaymentRefunded(r)
    BY <2>6, <1>2 DEF publishPaymentCompleted, redeemCoupon, refundAtGateway,
                      publishPaymentRefunded
  <2>7. QED BY <1>3, <2>2, <2>3, <2>4, <2>5, <2>6 DEF Step
<1>4. CASE \/ \E o \in Orders, slot \in Slots : verifyPayment(o, slot) \/ createRefund(o, slot)
           \/ \E w \in sent, slot \in Slots : handleWebhook(w, slot)
           \/ \E o \in Orders : createOrder(o) \/ pay(o) \/ attemptFails(o)
           \/ \E r \in requests : callRejects(r)
           \/ crash \/ UNCHANGED paymentSystem
  BY <1>4, <1>2 DEF verifyPayment, createRefund, handleWebhook, createOrder, pay,
                    attemptFails, crash, callRejects, cutOff, paymentSystem, paymentVars
<1>5. QED BY <1>3, <1>4 DEF PaymentStep

\* So is everything it publishes.
LEMMA EventsStep ==
  ASSUME MoneyInv, [PaymentStep]_paymentSystem
  PROVE  EventsFollowTheMoney'
<1> USE DEF MoneyInv
<1>1. \A o \in Orders : /\ paid(o) => paid(o)'
                        /\ gateway[o] = "refunded" => gateway'[o] = "refunded"
  BY MoneyIsFinal
<1>2. ASSUME published' = published PROVE EventsFollowTheMoney'
  BY <1>1, <1>2 DEF EventsFollowTheMoney, announced
<1>3. ASSUME NEW r \in requests, Step(r) PROVE EventsFollowTheMoney'
  <2>1. r.order \in Orders /\ justified(r.at, r.order)
    BY DEF PaymentTypeOK, Request, HandlersFollowTheMoney
  <2>2. CASE publishPaymentCompleted(r)
    <3>1. paid(r.order)' BY <2>1, <2>2, <1>1 DEF publishPaymentCompleted, justified
    <3>2. \A e \in published' : e \in published \/ (e.name = "payment.completed" /\ e.order = r.order)
      BY <2>2 DEF publishPaymentCompleted, publish
    <3>3. QED BY <3>1, <3>2, <1>1 DEF EventsFollowTheMoney, announced
  <2>3. CASE publishPaymentRefunded(r)
    <3>1. gateway'[r.order] = "refunded"
      BY <2>1, <2>3, <1>1 DEF publishPaymentRefunded, justified
    <3>2. \A e \in published' : e \in published \/ (e.name = "payment.refunded" /\ e.order = r.order)
      BY <2>3 DEF publishPaymentRefunded, publish
    <3>3. QED BY <3>1, <3>2, <1>1 DEF EventsFollowTheMoney, announced
  <2>4. CASE \/ insertPayment(r) \/ completePayment(r) \/ redeemCoupon(r)
             \/ failPayment(r) \/ refundAtGateway(r) \/ markRefunded(r)
    BY <2>4, <1>2 DEF insertPayment, completePayment, redeemCoupon, failPayment,
                      refundAtGateway, markRefunded, busVars
  <2>5. QED BY <1>3, <2>2, <2>3, <2>4 DEF Step
<1>4. CASE \/ \E o \in Orders, slot \in Slots : verifyPayment(o, slot) \/ createRefund(o, slot)
           \/ \E w \in sent, slot \in Slots : handleWebhook(w, slot)
           \/ \E o \in Orders : createOrder(o) \/ pay(o) \/ attemptFails(o)
           \/ \E r \in requests : callRejects(r)
           \/ crash \/ UNCHANGED paymentSystem
  BY <1>4, <1>2 DEF verifyPayment, createRefund, handleWebhook, createOrder, pay,
                    attemptFails, crash, callRejects, cutOff, paymentSystem, busVars
<1>5. QED BY <1>3, <1>4 DEF PaymentStep

LEMMA MoneyInit == BusInit /\ PaymentInit => MoneyInv
  BY BoundsType DEF BusInit, PaymentInit, MoneyInv, PaymentTypeOK, BusTypeOK, Status,
     RowsFollowTheMoney, EventsFollowTheMoney, HandlersFollowTheMoney, announced

LEMMA MoneyStep == MoneyInv /\ [PaymentStep]_paymentSystem => MoneyInv'
<1> SUFFICES ASSUME MoneyInv, [PaymentStep]_paymentSystem PROVE MoneyInv'
  OBVIOUS
<1>1. PaymentTypeOK' BY TypeStep DEF MoneyInv
<1>2. RowsFollowTheMoney' BY RowsStep
<1>3. EventsFollowTheMoney' BY EventsStep
<1>4. HandlersFollowTheMoney' BY HandlersStep
<1>5. QED BY <1>1, <1>2, <1>3, <1>4 DEF MoneyInv

LEMMA MoneyAlways == PaymentSpec => []MoneyInv
  BY MoneyInit, MoneyStep, PTL DEF PaymentSpec, PaymentSystemInit

\* A payment row says COMPLETED only for an order that was paid and REFUNDED
\* only for one whose money went back, in every reachable state.
THEOREM RowsAlwaysFollowTheMoney == PaymentSpec => []RowsFollowTheMoney
<1>1. MoneyInv => RowsFollowTheMoney BY DEF MoneyInv
<1>2. QED BY <1>1, MoneyAlways, PTL

\* No payment.completed is published for an unpaid order and no
\* payment.refunded for money that was kept.
THEOREM EventsAlwaysFollowTheMoney == PaymentSpec => []EventsFollowTheMoney
<1>1. MoneyInv => EventsFollowTheMoney BY DEF MoneyInv
<1>2. QED BY <1>1, MoneyAlways, PTL
\* Every handler in flight, and every webhook Razorpay sent, is where it is
\* because of money that moved, however stale the row it read has become.
THEOREM HandlersAlwaysFollowTheMoney == PaymentSpec => []HandlersFollowTheMoney
<1>1. MoneyInv => HandlersFollowTheMoney BY DEF MoneyInv
<1>2. QED BY <1>1, MoneyAlways, PTL

-----------------------------------------------------------------------------
(* Every commit is announced                                               *)

Announcing == {"announce", "announceRefund"}

\* A step that writes neither field, takes back no event and ends no handler
\* that is about to publish leaves every commit announced.
LEMMA CommitsKept ==
  ASSUME CommitsAreAnnounced, crashes' = crashes,
         rzpPaymentId' = rzpPaymentId, refundedAt' = refundedAt,
         published \subseteq published',
         \A q \in requests : q.at \in Announcing => q \in requests'
  PROVE  CommitsAreAnnounced'
  BY DEF CommitsAreAnnounced, Announcing, announced

\* A handler that is not about to publish may end or move on.
LEMMA OthersStay ==
  ASSUME NEW r \in requests, r.at \notin Announcing, NEW at,
         goto(r, at) \/ return(r) \/ throw(r)
  PROVE  \A q \in requests : q.at \in Announcing => q \in requests'
  BY DEF goto, return, throw

\* A handler that commits goes on to announce.
LEMMA CommitsPromised ==
  ASSUME CommitsAreAnnounced, NEW r, NEW q \in requests', q.order = r.order,
         \/ q.at = "announce" /\ UNCHANGED refundedAt
              /\ \A o \in Orders \ {r.order} : rzpPaymentId'[o] = rzpPaymentId[o]
         \/ q.at = "announceRefund" /\ UNCHANGED rzpPaymentId
              /\ \A o \in Orders \ {r.order} : refundedAt'[o] = refundedAt[o],
         \A p \in requests : p.at \in Announcing => p \in requests',
         UNCHANGED <<crashes, published>>
  PROVE  CommitsAreAnnounced'
<1>1. \A n \in EventName, o \in Orders : announced(n, o) => announced(n, o)'
  BY DEF announced
<1>2. ASSUME NEW o \in Orders, NEW at \in Announcing,
             \E p \in requests : p.order = o /\ p.at = at
      PROVE  \E p \in requests' : p.order = o /\ p.at = at
  BY <1>2
<1>3. QED BY <1>1, <1>2 DEF CommitsAreAnnounced, EventName, Announcing

\* A handler that publishes leaves the other handlers where they are, and its
\* order announced.
LEMMA CommitsPublished ==
  ASSUME CommitsAreAnnounced, NEW r \in requests, NEW name,
         \/ r.at = "announce" /\ name = "payment.completed"
         \/ r.at = "announceRefund" /\ name = "payment.refunded",
         publish(name, r.order),
         \A q \in requests : q # r => q \in requests',
         crashes' = crashes, rzpPaymentId' = rzpPaymentId, refundedAt' = refundedAt
  PROVE  CommitsAreAnnounced'
<1>1. \A n \in EventName, o \in Orders : announced(n, o) => announced(n, o)'
  BY DEF announced, publish
<1>2. announced(name, r.order)'
  <2> DEFINE new == [id |-> nextId, name |-> name, order |-> r.order]
  <2>1. new \in published' BY DEF publish
  <2>2. new.name = name /\ new.order = r.order OBVIOUS
  <2>3. QED BY <2>1, <2>2 DEF announced
<1>3. QED BY <1>1, <1>2 DEF CommitsAreAnnounced, EventName

\* Nothing is promised once a handler was cut off.
LEMMA CommitsCut ==
  ASSUME PaymentTypeOK, NEW r \in requests, cutOff(r)
  PROVE  CommitsAreAnnounced'
  BY CutOff DEF CommitsAreAnnounced

LEMMA CommitsStep ==
  ASSUME PaymentTypeOK, CommitsAreAnnounced, [PaymentStep]_paymentSystem
  PROVE  CommitsAreAnnounced'
<1>0. ASSUME NEW r \in requests PROVE r.order \in Orders /\ r \in Request
  BY DEF PaymentTypeOK, Request
<1>1. ASSUME NEW r \in requests, Step(r) PROVE CommitsAreAnnounced'
  <2>1. CASE insertPayment(r)
    BY <2>1, OthersStay, CommitsKept DEF insertPayment, Announcing, busVars
  <2>2. CASE completePayment(r)
    <3>1. [r EXCEPT !.at = "announce"] \in requests'
      BY <2>2 DEF completePayment, goto
    <3>2. [r EXCEPT !.at = "announce"].order = r.order /\ [r EXCEPT !.at = "announce"].at = "announce"
      BY <1>0 DEF Request
    <3>3. \A q \in requests : q.at \in Announcing => q \in requests'
      BY <2>2, OthersStay DEF completePayment, Announcing
    <3>4. \A o \in Orders : o # r.order => rzpPaymentId'[o] = rzpPaymentId[o]
      BY <2>2 DEF completePayment, PaymentTypeOK
    <3>5. crashes' = crashes /\ refundedAt' = refundedAt /\ published' = published
      BY <2>2 DEF completePayment, busVars
    <3>6. QED BY <3>1, <3>2, <3>3, <3>4, <3>5, CommitsPromised
  <2>3. CASE publishPaymentCompleted(r)
    <3>1. \A q \in requests : q # r => q \in requests'
      BY <2>3 DEF publishPaymentCompleted, cutOff, goto, return, throw
    <3>2. QED BY <2>3, <3>1, CommitsPublished, CommitsCut DEF publishPaymentCompleted
  <2>4. CASE redeemCoupon(r)
    BY <2>4, OthersStay, CommitsKept DEF redeemCoupon, Announcing, busVars
  <2>5. CASE failPayment(r)
    BY <2>5, OthersStay, CommitsKept, CommitsCut DEF failPayment, Announcing, busVars
  <2>6. CASE refundAtGateway(r)
    BY <2>6, OthersStay, CommitsKept DEF refundAtGateway, Announcing, busVars
  <2>7. CASE markRefunded(r)
    <3>1. [r EXCEPT !.at = "announceRefund"] \in requests'
      BY <2>7 DEF markRefunded, goto
    <3>2. /\ [r EXCEPT !.at = "announceRefund"].order = r.order
          /\ [r EXCEPT !.at = "announceRefund"].at = "announceRefund"
      BY <1>0 DEF Request
    <3>3. \A q \in requests : q.at \in Announcing => q \in requests'
      BY <2>7, OthersStay DEF markRefunded, Announcing
    <3>4. \A o \in Orders : o # r.order => refundedAt'[o] = refundedAt[o]
      BY <2>7 DEF markRefunded, PaymentTypeOK
    <3>5. crashes' = crashes /\ rzpPaymentId' = rzpPaymentId /\ published' = published
      BY <2>7 DEF markRefunded, busVars
    <3>6. QED BY <3>1, <3>2, <3>3, <3>4, <3>5, CommitsPromised
  <2>8. CASE publishPaymentRefunded(r)
    <3>1. \A q \in requests : q # r => q \in requests'
      BY <2>8 DEF publishPaymentRefunded, cutOff, goto, return, throw
    <3>2. QED BY <2>8, <3>1, CommitsPublished, CommitsCut DEF publishPaymentRefunded
  <2>9. QED BY <1>1, <2>1, <2>2, <2>3, <2>4, <2>5, <2>6, <2>7, <2>8 DEF Step
<1>2. CASE crash \/ \E r \in requests : callRejects(r)
  <2>1. crashes' # 0 BY <1>2, CutOff DEF crash, callRejects, PaymentTypeOK
  <2>2. QED BY <2>1 DEF CommitsAreAnnounced
<1>3. CASE \/ \E o \in Orders, slot \in Slots : verifyPayment(o, slot) \/ createRefund(o, slot)
           \/ \E w \in sent, slot \in Slots : handleWebhook(w, slot)
           \/ \E o \in Orders : createOrder(o) \/ pay(o) \/ attemptFails(o)
           \/ UNCHANGED paymentSystem
  <2>1. /\ requests \subseteq requests' /\ published' = published /\ crashes' = crashes
        /\ rzpPaymentId' = rzpPaymentId /\ refundedAt' = refundedAt
    BY <1>3 DEF verifyPayment, createRefund, handleWebhook, createOrder, pay, attemptFails,
                start, paymentSystem, paymentVars, busVars
  <2>2. QED BY <2>1, CommitsKept
<1>4. QED BY <1>1, <1>2, <1>3 DEF PaymentStep

\* Whatever requests and webhooks race for a row, a commit that no stop of the
\* process followed has been announced, or a handler is about to announce it.
THEOREM CommitsAreAlwaysAnnounced == PaymentSpec => []CommitsAreAnnounced
<1>1. PaymentSystemInit => CommitsAreAnnounced
  BY DEF PaymentSystemInit, PaymentInit, CommitsAreAnnounced
<1>2. PaymentTypeOK /\ CommitsAreAnnounced /\ [PaymentStep]_paymentSystem => CommitsAreAnnounced'
  BY CommitsStep
<1>3. QED BY <1>1, <1>2, PaymentTypes, PTL DEF PaymentSpec
-----------------------------------------------------------------------------
(* Coupons                                                                 *)

\* All that the service does to the bus is publish, one event at a time.
LEMMA PaymentBus ==
  ASSUME PaymentTypeOK, PaymentStep
  PROVE  \/ busVars' = busVars
         \/ \E name \in EventName, o \in Orders : publish(name, o)
<1>1. ASSUME NEW r \in requests, Step(r)
      PROVE  \/ busVars' = busVars
             \/ \E name \in EventName, o \in Orders : publish(name, o)
  <2>1. r.order \in Orders BY DEF PaymentTypeOK, Request
  <2>2. QED
    BY <1>1, <2>1
       DEF Step, insertPayment, completePayment, publishPaymentCompleted, redeemCoupon,
           failPayment, refundAtGateway, markRefunded, publishPaymentRefunded, EventName
<1>2. QED
  BY <1>1 DEF PaymentStep, verifyPayment, createRefund, handleWebhook, createOrder, pay,
              attemptFails, crash, callRejects, cutOff

\* Handlers about to report a redemption of the coupon of an order.
redeemers(o) == {r \in requests : r.order = o /\ r.at = "redeem"}

completions(o) == envelopes("payment.completed", o)

\* The inductive invariant: a handler that is about to count a coupon has an
\* announcement of its own to show for it.
RedeemInv ==
  /\ FreshIds
  /\ IsFiniteSet(published)
  /\ IsFiniteSet(requests)
  /\ \A o \in Orders : redeemed[o] + Cardinality(redeemers(o)) <= Cardinality(completions(o))

LEMMA RedeemCounts ==
  ASSUME PaymentTypeOK, RedeemInv, NEW o \in Orders
  PROVE  /\ redeemed[o] \in Nat
         /\ IsFiniteSet(redeemers(o)) /\ Cardinality(redeemers(o)) \in Nat
         /\ IsFiniteSet(completions(o)) /\ Cardinality(completions(o)) \in Nat
<1>1. IsFiniteSet(redeemers(o)) /\ IsFiniteSet(completions(o))
  BY FS_Subset DEF RedeemInv, redeemers, completions, envelopes
<1>2. QED BY <1>1, FS_CardinalityType DEF PaymentTypeOK

\* A step starts at most one handler.
LEMMA RequestsFinite ==
  ASSUME IsFiniteSet(requests), [PaymentStep]_paymentSystem
  PROVE  IsFiniteSet(requests')
<1>1. \/ requests' \subseteq requests
      \/ \E q : requests' = requests \cup {q}
      \/ \E r, q : requests' = (requests \ {r}) \cup {q}
  BY DEF PaymentStep, Step, insertPayment, completePayment, publishPaymentCompleted,
         redeemCoupon, failPayment, refundAtGateway, markRefunded, publishPaymentRefunded,
         verifyPayment, createRefund, handleWebhook, createOrder, pay, attemptFails, crash, callRejects, cutOff,
         start, goto, return, throw, paymentSystem, paymentVars
<1>2. ASSUME NEW q PROVE IsFiniteSet(requests \cup {q})
  BY FS_AddElement
<1>3. ASSUME NEW r, NEW q PROVE IsFiniteSet((requests \ {r}) \cup {q})
  <2>1. IsFiniteSet(requests \ {r})
    BY FS_RemoveElement
  <2>2. QED BY <2>1, FS_AddElement
<1>4. ASSUME requests' \subseteq requests PROVE IsFiniteSet(requests')
  BY <1>4, FS_Subset
<1>5. ASSUME NEW q, requests' = requests \cup {q} PROVE IsFiniteSet(requests')
  BY <1>2, <1>5
<1>6. ASSUME NEW r, NEW q, requests' = (requests \ {r}) \cup {q} PROVE IsFiniteSet(requests')
  BY <1>3, <1>6
<1>7. QED BY <1>1, <1>4, <1>5, <1>6

\* Steps that neither publish a completion nor count a coupon.
LEMMA RedeemKept ==
  ASSUME PaymentTypeOK, RedeemInv, redeemed' = redeemed,
         FreshIds', IsFiniteSet(published'), IsFiniteSet(requests'),
         \A o \in Orders : /\ redeemers(o)' \subseteq redeemers(o)
                           /\ completions(o)' = completions(o)
  PROVE  RedeemInv'
<1>1. ASSUME NEW o \in Orders
      PROVE  Cardinality(redeemers(o)') \in Nat
             /\ Cardinality(redeemers(o)') <= Cardinality(redeemers(o))
  BY RedeemCounts, FS_Subset, FS_CardinalityType
<1>2. ASSUME NEW o \in Orders
      PROVE  redeemed'[o] + Cardinality(redeemers(o)') <= Cardinality(completions(o)')
  BY <1>1, RedeemCounts DEF RedeemInv
<1>3. QED BY <1>2 DEF RedeemInv

\* A completion is published; its handler may go on to count the coupon.
LEMMA RedeemAnnounced ==
  ASSUME PaymentTypeOK, RedeemInv, NEW r \in requests, publishPaymentCompleted(r)
  PROVE  RedeemInv'
<1>1. /\ r.order \in Orders /\ publish("payment.completed", r.order) /\ redeemed' = redeemed
      /\ BusTypeOK
  BY DEF publishPaymentCompleted, PaymentTypeOK, Request
<1>2. FreshIds' /\ IsFiniteSet(published')
  BY <1>1, PublishFresh, PublishCounts DEF RedeemInv
<1>3. IsFiniteSet(requests')
  BY RequestsFinite DEF PaymentStep, Step, RedeemInv
<1>4. /\ Cardinality(completions(r.order)') = Cardinality(completions(r.order)) + 1
      /\ \A o \in Orders \ {r.order} : completions(o)' = completions(o)
  BY <1>1, PublishCounts DEF RedeemInv, completions
<1>5. \E q : \A o \in Orders :
         redeemers(o)' \subseteq (IF o = r.order THEN redeemers(o) \cup {q} ELSE redeemers(o))
  <2>1. r \in Request BY DEF PaymentTypeOK
  <2>2. [r EXCEPT !.at = "redeem"].order = r.order BY <2>1 DEF Request
  <2>3. requests' \subseteq requests \cup {[r EXCEPT !.at = "redeem"]}
    BY DEF publishPaymentCompleted, cutOff, goto, return, throw
  <2>4. QED BY <2>2, <2>3 DEF redeemers
<1>6. PICK q : \A o \in Orders :
         redeemers(o)' \subseteq (IF o = r.order THEN redeemers(o) \cup {q} ELSE redeemers(o))
  BY <1>5
<1>7. ASSUME NEW o \in Orders
      PROVE  redeemed'[o] + Cardinality(redeemers(o)') <= Cardinality(completions(o)')
  <2>1. CASE o = r.order
    <3>1. /\ IsFiniteSet(redeemers(o) \cup {q})
          /\ Cardinality(redeemers(o) \cup {q}) <= Cardinality(redeemers(o)) + 1
      <4>1. IsFiniteSet(redeemers(o)) /\ Cardinality(redeemers(o)) \in Nat
        BY RedeemCounts
      <4>2. /\ IsFiniteSet(redeemers(o) \cup {q})
            /\ Cardinality(redeemers(o) \cup {q}) =
                 IF q \in redeemers(o) THEN Cardinality(redeemers(o))
                                       ELSE Cardinality(redeemers(o)) + 1
        BY <4>1, FS_AddElement
      <4>3. QED BY <4>1, <4>2
    <3>2. /\ Cardinality(redeemers(o)') \in Nat
          /\ Cardinality(redeemers(o)') <= Cardinality(redeemers(o) \cup {q})
          /\ Cardinality(redeemers(o) \cup {q}) \in Nat
      BY <1>6, <2>1, <3>1, FS_Subset, FS_CardinalityType
    <3>3. QED BY <1>1, <1>4, <2>1, <3>1, <3>2, RedeemCounts DEF RedeemInv
  <2>2. CASE o # r.order
    <3>1. /\ Cardinality(redeemers(o)') \in Nat
          /\ Cardinality(redeemers(o)') <= Cardinality(redeemers(o))
      BY <1>6, <2>2, RedeemCounts, FS_Subset, FS_CardinalityType
    <3>2. QED BY <1>1, <1>4, <2>2, <3>1, RedeemCounts DEF RedeemInv
  <2>3. QED BY <2>1, <2>2
<1>8. QED BY <1>2, <1>3, <1>7 DEF RedeemInv

\* A coupon is counted by a handler that then is one no more.
LEMMA RedeemCounted ==
  ASSUME PaymentTypeOK, RedeemInv, NEW r \in requests, redeemCoupon(r)
  PROVE  RedeemInv'
<1>1. /\ r.order \in Orders /\ r.at = "redeem"
      /\ published' = published /\ nextId' = nextId /\ requests' = requests \ {r}
  BY DEF redeemCoupon, return, PaymentTypeOK, Request, busVars
<1>2. PICK counted \in {0, 1} : redeemed' = [redeemed EXCEPT ![r.order] = @ + counted]
  BY DEF redeemCoupon
<1>3. FreshIds' /\ IsFiniteSet(published') /\ IsFiniteSet(requests')
  BY <1>1, FS_RemoveElement DEF RedeemInv, FreshIds
<1>4. \A o \in Orders : completions(o)' = completions(o)
  BY <1>1 DEF completions, envelopes
<1>5. ASSUME NEW o \in Orders
      PROVE  redeemed'[o] + Cardinality(redeemers(o)') <= Cardinality(completions(o)')
  <2>1. CASE o = r.order
    <3>1. r \in redeemers(o) /\ redeemers(o)' = redeemers(o) \ {r}
      BY <1>1, <2>1 DEF redeemers
    <3>2. Cardinality(redeemers(o)') = Cardinality(redeemers(o)) - 1
      BY <3>1, RedeemCounts, FS_RemoveElement
    <3>3. redeemed'[o] = redeemed[o] + counted BY <1>2, <2>1 DEF PaymentTypeOK
    <3>4. QED BY <1>4, <3>2, <3>3, RedeemCounts DEF RedeemInv
  <2>2. CASE o # r.order
    <3>1. redeemers(o)' = redeemers(o) /\ redeemed'[o] = redeemed[o]
      BY <1>1, <1>2, <2>2 DEF redeemers, PaymentTypeOK
    <3>2. QED BY <1>4, <3>1 DEF RedeemInv
  <2>3. QED BY <2>1, <2>2
<1>6. QED BY <1>3, <1>5 DEF RedeemInv

LEMMA RedeemStep ==
  ASSUME PaymentTypeOK, RedeemInv, [PaymentStep]_paymentSystem
  PROVE  RedeemInv'
<1>1. CASE \E r \in requests : publishPaymentCompleted(r)
  BY <1>1, RedeemAnnounced
<1>2. CASE \E r \in requests : redeemCoupon(r)
  BY <1>2, RedeemCounted
<1>3. CASE /\ ~ \E r \in requests : publishPaymentCompleted(r)
           /\ ~ \E r \in requests : redeemCoupon(r)
  <2>1. IsFiniteSet(requests') BY RequestsFinite DEF RedeemInv
  <2>2. redeemed' = redeemed
    BY <1>3 DEF PaymentStep, Step, insertPayment, completePayment, failPayment,
                refundAtGateway, markRefunded, publishPaymentRefunded, verifyPayment,
                createRefund, handleWebhook, createOrder, pay, attemptFails, crash, callRejects, cutOff,
                paymentSystem, paymentVars
  <2>3. \/ published' = published /\ nextId' = nextId
        \/ \E o \in Orders : publish("payment.refunded", o)
    <3>1. ASSUME NEW r \in requests PROVE r.order \in Orders
      BY DEF PaymentTypeOK, Request
    <3>2. QED
      BY <1>3, <3>1 DEF PaymentStep, Step, insertPayment, completePayment, failPayment,
                refundAtGateway, markRefunded, publishPaymentRefunded, verifyPayment,
                createRefund, handleWebhook, createOrder, pay, attemptFails, crash, callRejects, cutOff,
                paymentSystem, busVars
  <2>4. FreshIds' /\ IsFiniteSet(published') /\ \A o \in Orders : completions(o)' = completions(o)
    <3>1. CASE published' = published /\ nextId' = nextId
      BY <3>1 DEF RedeemInv, FreshIds, completions, envelopes
    <3>2. ASSUME NEW o \in Orders, publish("payment.refunded", o)
          PROVE  /\ FreshIds' /\ IsFiniteSet(published')
                 /\ \A p \in Orders : completions(p)' = completions(p)
      BY <3>2, PublishFresh, PublishCounts DEF RedeemInv, PaymentTypeOK, completions
    <3>3. QED BY <2>3, <3>1, <3>2
  <2>5. \A q \in requests' : q.at = "redeem" => q \in requests
    <3>1. ASSUME NEW r \in requests, Step(r), NEW q \in requests', q.at = "redeem"
          PROVE  q \in requests
      <4>1. \A at : at # "redeem" => [r EXCEPT !.at = at].at # "redeem"
        BY DEF PaymentTypeOK, Request
      <4>2. QED
        BY <1>3, <3>1, <4>1
           DEF Step, insertPayment, completePayment, failPayment, refundAtGateway,
               markRefunded, publishPaymentRefunded, cutOff, goto, return, throw
    <3>2. ASSUME NEW w \in sent PROVE firstStep(w.kind) # "redeem"
      BY DEF firstStep, PaymentTypeOK, Webhook, Hook
    <3>3. QED
      BY <3>1, <3>2 DEF PaymentStep, verifyPayment, createRefund, handleWebhook, createOrder,
         pay, attemptFails, crash, callRejects, cutOff, throw, start, paymentSystem, paymentVars
  <2>6. \A o \in Orders : redeemers(o)' \subseteq redeemers(o)
    BY <2>5 DEF redeemers
  <2>7. QED BY <2>1, <2>2, <2>4, <2>6, RedeemKept
<1>4. QED BY <1>1, <1>2, <1>3

LEMMA RedeemAlways == PaymentSpec => []RedeemInv
<1>1. PaymentSystemInit => RedeemInv
  <2>1. ASSUME PaymentSystemInit, NEW o \in Orders
        PROVE  redeemers(o) = {} /\ completions(o) = {} /\ redeemed[o] = 0
    BY <2>1 DEF PaymentSystemInit, BusInit, PaymentInit, redeemers, completions, envelopes
  <2>2. ASSUME PaymentSystemInit
        PROVE  FreshIds /\ IsFiniteSet(published) /\ IsFiniteSet(requests)
    BY <2>2, FS_EmptySet DEF PaymentSystemInit, BusInit, PaymentInit, FreshIds
  <2>3. QED BY <2>1, <2>2, FS_EmptySet DEF RedeemInv
<1>2. PaymentTypeOK /\ RedeemInv /\ [PaymentStep]_paymentSystem => RedeemInv'
  BY RedeemStep
<1>3. QED BY <1>1, <1>2, PaymentTypes, PTL DEF PaymentSpec

\* No coupon is counted more often than its order's payment was announced,
\* however many verify calls overlap and whichever of them are cut off.
THEOREM RedemptionsAlwaysFollowAnnouncements == PaymentSpec => []RedemptionsFollowAnnouncements
<1>1. PaymentTypeOK /\ RedeemInv => RedemptionsFollowAnnouncements
  <2> SUFFICES ASSUME PaymentTypeOK, RedeemInv, NEW o \in Orders
               PROVE  redeemed[o] <= Cardinality(completions(o))
    BY DEF RedemptionsFollowAnnouncements, completions, envelopes
  <2>1. QED BY RedeemCounts DEF RedeemInv
<1>2. QED BY <1>1, RedeemAlways, PaymentTypes, PTL
-----------------------------------------------------------------------------
(* Answered webhooks                                                       *)

\* What a row says it also dates or names.
RowsAreMarked ==
  \A o \in Orders : /\ status[o] = "COMPLETED" => rzpPaymentId[o]
                    /\ status[o] = "REFUNDED" => refundedAt[o]

\* Razorpay tells of a payment only once there is a row, and of a refund only
\* after somebody asked for it, who had seen the payment in the row.
WebhooksHaveRows ==
  \A w \in sent : /\ w.kind = "payment.captured" => status[w.order] # "none"
                  /\ w.kind = "refund.processed" => rzpPaymentId[w.order]

\* A webhook handler does nothing but its write and its event, and who is past
\* the write, or asks for a refund, knows the row.
inPlace(r) ==
  /\ r.op = "payment.captured" => r.at \in {"complete", "announce"}
  /\ r.op = "refund.processed" => r.at \in {"refund", "announceRefund"}
  /\ r.at \in {"announce", "callGateway"} => rzpPaymentId[r.order]
  /\ r.at = "announceRefund" => refundedAt[r.order]

HandlersAreInPlace == \A r \in requests : inPlace(r)

\* The row names the payment, or dates the refund, that Razorpay was answered for.
AnswersAreMarked ==
  \A w \in acked : /\ w.kind = "payment.captured" => rzpPaymentId[w.order]
                   /\ w.kind = "refund.processed" => refundedAt[w.order]

\* A row fails, and a handler is about to fail it, for a reason.
FailuresAreJustified ==
  /\ \A o \in Orders : status[o] = "FAILED" => failable(o)
  /\ \A r \in requests : r.at = "fail" => failable(r.order)

\* A row is inserted once, before any other handler of its order starts; so a
\* row that names a payment or dates a refund is past PENDING for good.
RowsAreInsertedOnce ==
  /\ \A r \in requests : IF r.at = "insert"
                         THEN status[r.order] = "none" /\ gateway[r.order] # "none"
                         ELSE status[r.order] # "none"
  /\ \A q, r \in requests : q.at = "insert" /\ r.at = "insert" /\ q.order = r.order => q = r
  /\ \A o \in Orders : /\ gateway[o] = "none" => status[o] = "none"
                       /\ rzpPaymentId[o] \/ refundedAt[o] => status[o] \notin {"none", "PENDING"}

AnsweredInv == /\ RowsAreMarked
               /\ WebhooksHaveRows
               /\ HandlersAreInPlace
               /\ FailuresAreJustified
               /\ RowsAreInsertedOnce
               /\ AnswersAreMarked

\* A row is not taken back, nor what dates or names it.
LEMMA MarksAreFinal ==
  ASSUME PaymentTypeOK, [PaymentStep]_paymentSystem
  PROVE  \A o \in Orders : /\ rzpPaymentId[o] => rzpPaymentId'[o]
                           /\ refundedAt[o] => refundedAt'[o]
                           /\ status[o] # "none" => status'[o] # "none"
<1>1. /\ rzpPaymentId' = rzpPaymentId
         \/ \E r \in requests : rzpPaymentId' = [rzpPaymentId EXCEPT ![r.order] = TRUE]
      /\ refundedAt' = refundedAt
         \/ \E r \in requests : refundedAt' = [refundedAt EXCEPT ![r.order] = TRUE]
      /\ status' = status
         \/ \E r \in requests, s \in Status \ {"none"} : status' = [status EXCEPT ![r.order] = s]
  BY DEF PaymentStep, Step, insertPayment, completePayment, publishPaymentCompleted,
         redeemCoupon, failPayment, refundAtGateway, markRefunded, publishPaymentRefunded,
         verifyPayment, createRefund, handleWebhook, createOrder, pay, attemptFails, crash, callRejects, cutOff,
         paymentSystem, paymentVars, Status
<1>2. QED BY <1>1 DEF PaymentTypeOK

LEMMA MarkedStep ==
  ASSUME PaymentTypeOK, RowsAreMarked, [PaymentStep]_paymentSystem
  PROVE  RowsAreMarked'
<1>1. \A r \in requests : r.order \in Orders BY DEF PaymentTypeOK, Request
<1>2. \/ status' = status
      \/ \E r \in requests :
           \/ status' = [status EXCEPT ![r.order] = "PENDING"]
           \/ status' = [status EXCEPT ![r.order] = "FAILED"]
           \/ /\ status' = [status EXCEPT ![r.order] = "COMPLETED"]
              /\ rzpPaymentId' = [rzpPaymentId EXCEPT ![r.order] = TRUE]
           \/ /\ status' = [status EXCEPT ![r.order] = "REFUNDED"]
              /\ refundedAt' = [refundedAt EXCEPT ![r.order] = TRUE]
  BY DEF PaymentStep, Step, insertPayment, completePayment, publishPaymentCompleted,
         redeemCoupon, failPayment, refundAtGateway, markRefunded, publishPaymentRefunded,
         verifyPayment, createRefund, handleWebhook, createOrder, pay, attemptFails, crash, callRejects, cutOff,
         paymentSystem, paymentVars
<1>3. QED BY <1>1, <1>2, MarksAreFinal DEF RowsAreMarked, PaymentTypeOK

LEMMA HaveRowsStep ==
  ASSUME PaymentTypeOK, WebhooksHaveRows, HandlersAreInPlace, [PaymentStep]_paymentSystem
  PROVE  WebhooksHaveRows'
<1>1. /\ \A r \in requests : r.order \in Orders
      /\ \A w \in sent : w.order \in Orders
  BY DEF PaymentTypeOK, Request, Webhook
<1>2. ASSUME NEW w \in sent' \ sent
      PROVE  /\ w.order \in Orders
             /\ w.kind = "payment.captured" => status[w.order] # "none"
             /\ w.kind = "refund.processed" => rzpPaymentId[w.order]
  <2>1. CASE \E r \in requests : refundAtGateway(r)
    <3>1. PICK r \in requests : refundAtGateway(r) BY <2>1
    <3>2. w = [kind |-> "refund.processed", order |-> r.order] /\ r.at = "callGateway"
      BY <1>2, <3>1 DEF refundAtGateway
    <3>3. QED BY <1>1, <3>2 DEF HandlersAreInPlace, inPlace
  <2>2. CASE \E o \in Orders : pay(o) \/ attemptFails(o)
    BY <1>2, <2>2 DEF pay, attemptFails
  <2>3. QED
    BY <1>2, <2>1, <2>2
    DEF PaymentStep, Step, insertPayment, completePayment, publishPaymentCompleted,
        redeemCoupon, failPayment, markRefunded, publishPaymentRefunded,
        verifyPayment, createRefund, handleWebhook, createOrder, crash, callRejects, cutOff,
        paymentSystem, paymentVars
<1>3. QED BY <1>1, <1>2, MarksAreFinal DEF WebhooksHaveRows

\* A handler that stays where it was stays in place.
LEMMA InPlaceKept ==
  ASSUME PaymentTypeOK, [PaymentStep]_paymentSystem, NEW r \in requests, inPlace(r)
  PROVE  inPlace(r)'
<1>1. r.order \in Orders BY DEF PaymentTypeOK, Request
<1>2. QED BY <1>1, MarksAreFinal DEF inPlace

LEMMA InPlaceStep ==
  ASSUME PaymentTypeOK, HandlersAreInPlace, [PaymentStep]_paymentSystem
  PROVE  HandlersAreInPlace'
<1> DEFINE Kept == requests' \subseteq requests
           Moved(r, at) == \A q \in requests' :
              q \in requests \/ (q.op = r.op /\ q.order = r.order /\ q.at = at)
<1>0. \A r \in requests : r.order \in Orders /\ inPlace(r)
  BY DEF PaymentTypeOK, Request, HandlersAreInPlace
<1>1. ASSUME Kept PROVE HandlersAreInPlace'
  BY <1>1, InPlaceKept DEF HandlersAreInPlace
<1>2. ASSUME NEW r \in requests, NEW at \in At, goto(r, at) PROVE Moved(r, at)
  BY <1>2 DEF goto, PaymentTypeOK, Request
<1>3. ASSUME NEW r, NEW at, Moved(r, at),
             \A q \in requests' : q.op = r.op /\ q.order = r.order /\ q.at = at => inPlace(q)'
      PROVE  HandlersAreInPlace'
  BY <1>3, InPlaceKept DEF HandlersAreInPlace
<1> HIDE DEF Moved
<1>4. ASSUME NEW r \in requests, Step(r) PROVE HandlersAreInPlace'
  <2>1. CASE completePayment(r)
    <3>1. Moved(r, "announce") BY <1>2, <2>1 DEF completePayment, At
    <3>2. rzpPaymentId'[r.order] BY <1>0, <2>1 DEF completePayment, PaymentTypeOK
    <3>3. r.op # "refund.processed" BY <1>0, <2>1 DEF completePayment, inPlace
    <3>4. \A q : q.op = r.op /\ q.order = r.order /\ q.at = "announce" => inPlace(q)'
      BY <3>2, <3>3 DEF inPlace
    <3>5. QED BY <1>3, <3>1, <3>4
  <2>2. CASE publishPaymentCompleted(r)
    <3>1. CASE return(r) \/ throw(r) BY <1>1, <3>1, AfterEnd
    <3>2. CASE goto(r, "redeem") /\ r.op = "verifyPayment"
      <4>1. Moved(r, "redeem") BY <1>2, <3>2 DEF At
      <4>2. \A q : q.op = r.op /\ q.order = r.order /\ q.at = "redeem" => inPlace(q)'
        BY <3>2 DEF inPlace
      <4>3. QED BY <1>3, <4>1, <4>2
    <3>3. QED BY <2>2, <3>1, <3>2 DEF publishPaymentCompleted, cutOff
  <2>3. CASE refundAtGateway(r)
    <3>1. CASE throw(r) BY <1>1, <3>1, AfterEnd
    <3>2. CASE goto(r, "refund")
      <4>1. Moved(r, "refund") BY <1>2, <3>2 DEF At
      <4>2. r.op # "payment.captured" BY <1>0, <2>3 DEF refundAtGateway, inPlace
      <4>3. \A q : q.op = r.op /\ q.order = r.order /\ q.at = "refund" => inPlace(q)'
        BY <4>2 DEF inPlace
      <4>4. QED BY <1>3, <4>1, <4>3
    <3>3. QED BY <2>3, <3>1, <3>2 DEF refundAtGateway
  <2>4. CASE markRefunded(r)
    <3>1. Moved(r, "announceRefund") BY <1>2, <2>4 DEF markRefunded, At
    <3>2. refundedAt'[r.order] BY <1>0, <2>4 DEF markRefunded, PaymentTypeOK
    <3>3. r.op # "payment.captured" BY <1>0, <2>4 DEF markRefunded, inPlace
    <3>4. \A q : q.op = r.op /\ q.order = r.order /\ q.at = "announceRefund" => inPlace(q)'
      BY <3>2, <3>3 DEF inPlace
    <3>5. QED BY <1>3, <3>1, <3>4
  <2>5. CASE \/ insertPayment(r) \/ redeemCoupon(r) \/ failPayment(r)
             \/ publishPaymentRefunded(r)
    BY <1>1, <2>5, AfterEnd DEF insertPayment, redeemCoupon, failPayment, publishPaymentRefunded,
                                cutOff
  <2>6. QED BY <1>4, <2>1, <2>2, <2>3, <2>4, <2>5 DEF Step
<1>5. ASSUME NEW op, NEW o \in Orders, NEW slot, NEW at, start(op, o, slot, at),
             inPlace([op |-> op, order |-> o, slot |-> slot, at |-> at])'
      PROVE  HandlersAreInPlace'
  <2>1. \A q \in requests' :
          q \in requests \/ q = [op |-> op, order |-> o, slot |-> slot, at |-> at]
    BY <1>5 DEF start
  <2>2. QED BY <1>5, <2>1, InPlaceKept DEF HandlersAreInPlace
<1>6. ASSUME NEW o \in Orders, NEW slot \in Slots, verifyPayment(o, slot)
      PROVE  HandlersAreInPlace'
  <2>1. PICK at \in {"complete", "fail"} : start("verifyPayment", o, slot, at)
    BY <1>6 DEF verifyPayment
  <2>2. inPlace([op |-> "verifyPayment", order |-> o, slot |-> slot, at |-> at])'
    BY DEF inPlace
  <2>3. QED BY <1>5, <2>1, <2>2
<1>7. ASSUME NEW o \in Orders, NEW slot \in Slots, createRefund(o, slot)
      PROVE  HandlersAreInPlace'
  <2>1. start("createRefund", o, slot, "callGateway") /\ rzpPaymentId'[o]
    BY <1>7 DEF createRefund
  <2>2. inPlace([op |-> "createRefund", order |-> o, slot |-> slot, at |-> "callGateway"])'
    BY <2>1 DEF inPlace
  <2>3. QED BY <1>5, <2>1, <2>2
<1>8. ASSUME NEW w \in sent, NEW slot \in Slots, handleWebhook(w, slot)
      PROVE  HandlersAreInPlace'
  <2>1. w.kind \in Hook /\ w.order \in Orders BY DEF PaymentTypeOK, Webhook
  <2>2. CASE start(w.kind, w.order, slot, firstStep(w.kind))
    <3>1. inPlace([op |-> w.kind, order |-> w.order, slot |-> slot, at |-> firstStep(w.kind)])'
      BY <2>1 DEF inPlace, firstStep, Hook
    <3>2. QED BY <1>5, <2>1, <2>2, <3>1
  <2>3. CASE requests' = requests BY <1>1, <2>3
  <2>4. QED BY <1>8, <2>2, <2>3 DEF handleWebhook
<1>9. ASSUME NEW o \in Orders, createOrder(o) PROVE HandlersAreInPlace'
  <2>1. PICK slot \in Slots : start("createOrder", o, slot, "insert")
    BY <1>9 DEF createOrder
  <2>2. inPlace([op |-> "createOrder", order |-> o, slot |-> slot, at |-> "insert"])'
    BY DEF inPlace
  <2>3. QED BY <1>5, <2>1, <2>2
<1>10. CASE \/ \E o \in Orders : pay(o) \/ attemptFails(o)
            \/ crash \/ \E r \in requests : callRejects(r)
            \/ UNCHANGED paymentSystem
  BY <1>1, <1>10, AfterEnd DEF pay, attemptFails, crash, callRejects, cutOff, paymentSystem,
                               paymentVars
<1>11. QED BY <1>4, <1>6, <1>7, <1>8, <1>9, <1>10 DEF PaymentStep

\* Reasons stay, and a handler about to fail a row started from one.
LEMMA FailuresStep ==
  ASSUME PaymentTypeOK, FailuresAreJustified, [PaymentStep]_paymentSystem
  PROVE  FailuresAreJustified'
<1>0. /\ \A r \in requests : r.order \in Orders /\ r \in Request
      /\ \A w \in sent : w.kind \in Hook /\ w.order \in Orders
  BY DEF PaymentTypeOK, Request, Webhook
<1>1. mismatched \subseteq mismatched' /\ sent \subseteq sent'
  BY DEF PaymentStep, Step, insertPayment, completePayment, publishPaymentCompleted,
         redeemCoupon, failPayment, refundAtGateway, markRefunded, publishPaymentRefunded,
         verifyPayment, createRefund, handleWebhook, createOrder, pay, attemptFails, crash,
         callRejects, paymentSystem, paymentVars
<1>2. \A o : failable(o) => failable(o)'
  BY <1>1 DEF failable
<1>3. \/ status' = status
      \/ \E r \in requests : r.at = "fail" /\ status' = [status EXCEPT ![r.order] = "FAILED"]
      \/ \E r \in requests, s \in Status \ {"FAILED"} : status' = [status EXCEPT ![r.order] = s]
  BY DEF PaymentStep, Step, insertPayment, completePayment, publishPaymentCompleted,
         redeemCoupon, failPayment, refundAtGateway, markRefunded, publishPaymentRefunded,
         verifyPayment, createRefund, handleWebhook, createOrder, pay, attemptFails, crash,
         callRejects, paymentSystem, paymentVars, Status
<1>4. \A o \in Orders : status'[o] = "FAILED" => failable(o)'
  BY <1>0, <1>2, <1>3 DEF FailuresAreJustified, PaymentTypeOK
<1>5. ASSUME NEW q \in requests', q \notin requests, q.at = "fail"
      PROVE  failable(q.order)'
  <2>1. ASSUME NEW r \in requests, Step(r) PROVE FALSE
    <3>1. ASSUME NEW at \in At \ {"fail"}, goto(r, at) PROVE FALSE
      BY <1>0, <1>5, <3>1 DEF goto, Request
    <3>2. QED
      BY <1>5, <2>1, <3>1, AfterEnd
         DEF Step, insertPayment, completePayment, publishPaymentCompleted, redeemCoupon,
             failPayment, refundAtGateway, markRefunded, publishPaymentRefunded, cutOff, At
  <2>2. ASSUME NEW o \in Orders, NEW slot \in Slots, verifyPayment(o, slot)
        PROVE  failable(q.order)'
    BY <1>5, <2>2 DEF verifyPayment, start, failable
  <2>3. ASSUME NEW w \in sent, NEW slot \in Slots, handleWebhook(w, slot)
        PROVE  failable(q.order)'
    <3>1. q.order = w.order /\ firstStep(w.kind) = "fail"
      BY <1>5, <2>3 DEF handleWebhook, start
    <3>2. w.kind = "payment.failed"
      BY <1>0, <3>1 DEF firstStep, Hook
    <3>3. w = [kind |-> "payment.failed", order |-> q.order]
      BY <3>1, <3>2 DEF PaymentTypeOK, Webhook
    <3>4. QED BY <1>1, <3>3 DEF failable
  <2>4. QED
    BY <1>5, <2>1, <2>2, <2>3, AfterEnd
       DEF PaymentStep, createRefund, createOrder, start, pay, attemptFails, crash,
           callRejects, cutOff, paymentSystem, paymentVars
<1>6. QED BY <1>2, <1>4, <1>5 DEF FailuresAreJustified

\* The one insert of an order is that of the request that made the order.
LEMMA InsertStep ==
  ASSUME PaymentTypeOK, RowsAreInsertedOnce, WebhooksHaveRows, [PaymentStep]_paymentSystem
  PROVE  RowsAreInsertedOnce'
<1>0. /\ \A r \in requests : r.order \in Orders /\ r \in Request
      /\ \A w \in sent : w.kind \in Hook /\ w.order \in Orders
  BY DEF PaymentTypeOK, Request, Webhook
<1> DEFINE Writes(r, v) == status' = [status EXCEPT ![r.order] = v]
           Inserts(r) == /\ r.at = "insert" /\ Writes(r, "PENDING")
                         /\ requests' = requests \ {r}
                         /\ UNCHANGED <<rzpPaymentId, refundedAt>>
           Updates(r) == /\ r.at # "insert"
                         /\ \E v \in Status \ {"none", "PENDING"} : Writes(r, v)
                         /\ \A o \in Orders \ {r.order} : /\ rzpPaymentId'[o] = rzpPaymentId[o]
                                                         /\ refundedAt'[o] = refundedAt[o]
<1>1. \/ UNCHANGED <<status, rzpPaymentId, refundedAt>>
      \/ \E r \in requests : Inserts(r) \/ Updates(r)
  <2>1. ASSUME NEW r \in requests, insertPayment(r) PROVE Inserts(r)
    BY <2>1 DEF insertPayment, return
  <2>2. ASSUME NEW r \in requests, completePayment(r) \/ failPayment(r) \/ markRefunded(r)
        PROVE  Updates(r)
    BY <2>2 DEF completePayment, failPayment, markRefunded, PaymentTypeOK, Status
  <2>3. QED
    BY <2>1, <2>2
       DEF PaymentStep, Step, publishPaymentCompleted, redeemCoupon, refundAtGateway,
           publishPaymentRefunded, verifyPayment, createRefund, handleWebhook, createOrder,
           pay, attemptFails, crash, callRejects, paymentSystem, paymentVars
<1>2. \A o \in Orders : gateway[o] # "none" => gateway'[o] # "none"
  BY <1>0 DEF PaymentStep, Step, insertPayment, completePayment, publishPaymentCompleted,
         redeemCoupon, failPayment, refundAtGateway, markRefunded, publishPaymentRefunded,
         verifyPayment, createRefund, handleWebhook, createOrder, pay, attemptFails, crash,
         callRejects, paymentSystem, paymentVars, PaymentTypeOK
<1>3. ASSUME NEW q \in requests', q \notin requests
      PROVE  \/ q.order \in Orders /\ q.at # "insert" /\ status[q.order] # "none"
             \/ /\ q.order \in Orders /\ q.at = "insert" /\ createOrder(q.order)
                /\ \A p \in requests' \ requests : p = q
  <2>1. ASSUME NEW r \in requests, Step(r)
        PROVE  q.order = r.order /\ q.at # "insert" /\ r.at # "insert"
    <3>1. ASSUME NEW at \in At \ {"insert"}, goto(r, at), r.at # "insert"
          PROVE  q.order = r.order /\ q.at # "insert" /\ r.at # "insert"
      BY <1>0, <1>3, <3>1 DEF goto, Request
    <3>2. QED
      BY <1>3, <2>1, <3>1, AfterEnd
         DEF Step, insertPayment, completePayment, publishPaymentCompleted, redeemCoupon,
             failPayment, refundAtGateway, markRefunded, publishPaymentRefunded, cutOff, At
  <2>2. ASSUME NEW r \in requests, Step(r)
        PROVE  q.order \in Orders /\ q.at # "insert" /\ status[q.order] # "none"
    BY <1>0, <2>1, <2>2 DEF RowsAreInsertedOnce
  <2>3. ASSUME NEW o \in Orders, NEW slot \in Slots,
               verifyPayment(o, slot) \/ createRefund(o, slot)
        PROVE  q.order \in Orders /\ q.at # "insert" /\ status[q.order] # "none"
    BY <1>3, <2>3 DEF verifyPayment, createRefund, start
  <2>4. ASSUME NEW w \in sent, NEW slot \in Slots, handleWebhook(w, slot)
        PROVE  q.order \in Orders /\ q.at # "insert" /\ status[q.order] # "none"
    <3>1. webhookWrites(w) /\ q.order = w.order /\ q.at = firstStep(w.kind)
      BY <1>3, <2>4 DEF handleWebhook, start
    <3>2. firstStep(w.kind) # "insert"
      BY <1>0 DEF firstStep, Hook
    <3>3. status[w.order] # "none"
      BY <1>0, <3>1 DEF webhookWrites, RowsAreInsertedOnce, Hook
    <3>4. QED BY <1>0, <3>1, <3>2, <3>3
  <2>5. ASSUME NEW o \in Orders, createOrder(o)
        PROVE  /\ q.order \in Orders /\ q.at = "insert" /\ createOrder(q.order)
               /\ \A p \in requests' \ requests : p = q
    <3>1. PICK slot \in Slots : start("createOrder", o, slot, "insert")
      BY <2>5 DEF createOrder
    <3>2. requests' =
            requests \cup {[op |-> "createOrder", order |-> o, slot |-> slot, at |-> "insert"]}
      BY <3>1 DEF start
    <3>3. q = [op |-> "createOrder", order |-> o, slot |-> slot, at |-> "insert"]
      BY <1>3, <3>2
    <3>4. QED BY <2>5, <3>2, <3>3
  <2>6. QED
    BY <1>3, <2>2, <2>3, <2>4, <2>5, AfterEnd
       DEF PaymentStep, pay, attemptFails, crash, callRejects, cutOff, paymentSystem, paymentVars
<1>4. ASSUME NEW o \in Orders, createOrder(o)
      PROVE  status'[o] = "none" /\ gateway'[o] # "none"
             /\ ~ \E r \in requests : r.at = "insert" /\ r.order = o
  BY <1>4 DEF createOrder, RowsAreInsertedOnce, PaymentTypeOK
<1> HIDE DEF Writes
<1>5. ASSUME NEW q \in requests, q \in requests'
      PROVE  IF q.at = "insert" THEN status'[q.order] = "none" /\ gateway'[q.order] # "none"
                                ELSE status'[q.order] # "none"
  <2>1. CASE q.at = "insert"
    <3>1. q.order \in Orders /\ status[q.order] = "none" /\ gateway[q.order] # "none"
      BY <1>0, <2>1 DEF RowsAreInsertedOnce
    <3>2. ASSUME NEW r \in requests, Inserts(r) \/ Updates(r) PROVE r.order # q.order
      BY <1>5, <2>1, <3>1, <3>2 DEF RowsAreInsertedOnce
    <3>3. status'[q.order] = status[q.order]
      BY <1>1, <3>1, <3>2 DEF Writes, PaymentTypeOK
    <3>4. QED BY <1>2, <2>1, <3>1, <3>3
  <2>2. CASE q.at # "insert"
    BY <1>0, <2>2, MarksAreFinal DEF RowsAreInsertedOnce
  <2>3. QED BY <2>1, <2>2
<1>6. \A r \in requests' : IF r.at = "insert"
                           THEN status'[r.order] = "none" /\ gateway'[r.order] # "none"
                           ELSE status'[r.order] # "none"
  BY <1>3, <1>4, <1>5, MarksAreFinal
<1>7. \A q, r \in requests' : q.at = "insert" /\ r.at = "insert" /\ q.order = r.order => q = r
  BY <1>3, <1>4 DEF RowsAreInsertedOnce
<1>8. ASSUME NEW o \in Orders, gateway'[o] = "none" PROVE status'[o] = "none"
  BY <1>0, <1>1, <1>2, <1>8 DEF Writes, RowsAreInsertedOnce, PaymentTypeOK
<1>9. ASSUME NEW o \in Orders, rzpPaymentId'[o] \/ refundedAt'[o]
      PROVE  status'[o] \notin {"none", "PENDING"}
  BY <1>0, <1>1, <1>9 DEF Writes, RowsAreInsertedOnce, PaymentTypeOK
<1>10. QED BY <1>6, <1>7, <1>8, <1>9 DEF RowsAreInsertedOnce

\* Who returns has written what its webhook told, or found it written.
LEMMA AnsweredStep ==
  ASSUME PaymentTypeOK, AnsweredInv, [PaymentStep]_paymentSystem
  PROVE  AnswersAreMarked'
<1> DEFINE told(w) == /\ w.kind = "payment.captured" => rzpPaymentId[w.order]
                      /\ w.kind = "refund.processed" => refundedAt[w.order]
<1>1. /\ \A r \in requests : r.order \in Orders /\ inPlace(r)
      /\ \A w \in sent : w.order \in Orders /\ w.kind \in Hook
      /\ acked \subseteq sent
  BY DEF PaymentTypeOK, Request, Webhook, AnsweredInv, HandlersAreInPlace
<1>2. ASSUME NEW r \in requests, r.at \notin {"complete", "refund"}
      PROVE  told(webhookOf(r))
  BY <1>1, <1>2 DEF webhookOf, inPlace
<1>3. ASSUME NEW w \in sent, ~webhookWrites(w) PROVE told(w)
  <2>1. w.kind = "payment.captured" => status[w.order] = "COMPLETED"
    BY <1>1, <1>3 DEF webhookWrites, AnsweredInv, WebhooksHaveRows
  <2>2. w.kind = "refund.processed" => status[w.order] = "REFUNDED"
    BY <1>1, <1>3 DEF webhookWrites, AnsweredInv, WebhooksHaveRows
  <2>3. QED BY <1>1, <2>1, <2>2 DEF AnsweredInv, RowsAreMarked
<1>4. ASSUME NEW w \in acked' \ acked PROVE w.order \in Orders /\ told(w)
  <2>1. CASE \E r \in requests : /\ r.at \notin {"complete", "refund"}
                                 /\ acked' = acked \cup ({webhookOf(r)} \cap sent)
    <3>1. PICK r \in requests : /\ r.at \notin {"complete", "refund"}
                                /\ acked' = acked \cup ({webhookOf(r)} \cap sent)
      BY <2>1
    <3>2. w = webhookOf(r) /\ w \in sent BY <1>4, <3>1
    <3>3. QED BY <1>1, <1>2, <3>1, <3>2
  <2>2. CASE \E v \in sent : ~webhookWrites(v) /\ acked' = acked \cup {v}
    BY <1>1, <1>3, <1>4, <2>2
  <2>3. CASE acked' = acked BY <1>4, <2>3
  <2>4. ASSUME NEW r \in requests, Step(r)
        PROVE  \/ acked' = acked
               \/ r.at \notin {"complete", "refund"} /\ return(r)
    BY <2>4 DEF Step, insertPayment, completePayment, publishPaymentCompleted, redeemCoupon,
       failPayment, refundAtGateway, markRefunded, publishPaymentRefunded, cutOff, goto, throw
  <2>5. QED
    BY <2>1, <2>2, <2>3, <2>4
    DEF return, PaymentStep, verifyPayment, createRefund, handleWebhook, createOrder, pay,
        attemptFails, crash, callRejects, cutOff, throw, paymentSystem, paymentVars
<1>5. ASSUME NEW w \in acked' PROVE w.order \in Orders /\ told(w)
  BY <1>1, <1>4 DEF AnsweredInv, AnswersAreMarked
<1>6. QED BY <1>5, MarksAreFinal DEF AnswersAreMarked

\* A row that names a payment or dates a refund says COMPLETED, REFUNDED or,
\* for a reason, FAILED.
LEMMA AnsweredFollows ==
  ASSUME PaymentTypeOK, AnsweredInv
  PROVE  AnsweredWebhooksReachedTheRow
<1>1. ASSUME NEW o \in Orders, rzpPaymentId[o] \/ refundedAt[o]
      PROVE  status[o] \in {"COMPLETED", "REFUNDED"} \/ (status[o] = "FAILED" /\ failable(o))
  <2>1. status[o] \in {"COMPLETED", "REFUNDED", "FAILED"}
    BY <1>1 DEF AnsweredInv, RowsAreInsertedOnce, PaymentTypeOK, Status
  <2>2. QED BY <2>1 DEF AnsweredInv, FailuresAreJustified
<1>2. \A w \in acked : w.order \in Orders
  BY DEF PaymentTypeOK, Webhook
<1>3. QED BY <1>1, <1>2 DEF AnsweredInv, AnswersAreMarked, AnsweredWebhooksReachedTheRow

\* Razorpay stops repeating a capture or a refund only when the row knows it
\* and says so, or says FAILED for a reason: for any number of requests, failed
\* attempts, mismatches, stops and calls that reject.
THEOREM AnsweredWebhooksAlwaysReachedTheRow == PaymentSpec => []AnsweredWebhooksReachedTheRow
<1>1. PaymentSystemInit => AnsweredInv
  BY DEF PaymentSystemInit, PaymentInit, AnsweredInv, RowsAreMarked, WebhooksHaveRows,
         HandlersAreInPlace, FailuresAreJustified, RowsAreInsertedOnce, AnswersAreMarked
<1>2. PaymentTypeOK /\ AnsweredInv /\ [PaymentStep]_paymentSystem => AnsweredInv'
  BY MarkedStep, HaveRowsStep, InPlaceStep, FailuresStep, InsertStep, AnsweredStep
     DEF AnsweredInv
<1>3. PaymentTypeOK /\ AnsweredInv => AnsweredWebhooksReachedTheRow
  BY AnsweredFollows
<1>4. QED BY <1>1, <1>2, <1>3, PaymentTypes, PTL DEF PaymentSpec
=============================================================================
