--------------------------- MODULE PaymentService ---------------------------
(***************************************************************************)
(* payment-service/src/payments: orders, the client's verify call, refunds *)
(* and the Razorpay webhooks, all writing the one payment row of an order. *)
(*                                                                         *)
(* Every request is a handler that awaits the database, Razorpay or Redis  *)
(* between its steps; "at" says what a handler does next.  A handler reads *)
(* the row once, when it starts, and writes it later without looking       *)
(* again, so any other request may act in between, and the process may     *)
(* stop.  Several requests of one kind for one order run at once.          *)
(*                                                                         *)
(* Razorpay is external, modelled from how the source uses it: an order is *)
(* paid at most once (so razorpayPaymentId is a function of the order and  *)
(* rzpPaymentId[o] says whether the row has it), a payment is refunded in  *)
(* full at most once, and a webhook is sent until a call of it returns.    *)
(*                                                                         *)
(* Amounts, currency, signatures as bytes, and the branches of a handler   *)
(* that reject a request without changing state are left out.              *)
(***************************************************************************)
EXTENDS EventBus, FiniteSets

CONSTANTS WithCoupon,   \* the orders made with a coupon code
          Slots,        \* concurrent requests of one kind on one order (a bound)
          MaxCalls,     \* client calls and late duplicates of webhooks (a bound)
          MaxCrashes,   \* how often handlers are cut off (a bound)
          Rejections,   \* may a call a handler awaits reject while the process lives
          Mismatches    \* may a verify call bring a signature that does not match

ASSUME WithCouponType == WithCoupon \subseteq Orders
ASSUME ChoicesType == Rejections \in BOOLEAN /\ Mismatches \in BOOLEAN
ASSUME BoundsType == MaxCalls \in Nat /\ MaxCrashes \in Nat

VARIABLES status,       \* status of the payment row, "none" before it exists
          rzpPaymentId, \* has the row a razorpayPaymentId
          refundedAt,   \* has the row a refundedAt (nothing clears it)
          requests,     \* the handlers in flight
          redeemed,     \* coupon redemptions course-service counted, by order
          gateway,      \* what Razorpay knows of the order
          sent,         \* the webhooks Razorpay has sent
          acked,        \* those that a call of handleWebhook returned for
          mismatched,   \* history: orders a verify call had a bad signature for
          calls,        \* client calls and duplicates so far
          crashes       \* how often handlers were cut off so far

paymentVars == <<status, rzpPaymentId, refundedAt, requests, redeemed,
                 gateway, sent, acked, mismatched, calls, crashes>>

Status == {"none", "PENDING", "COMPLETED", "FAILED", "REFUNDED"}

Hook == {"payment.captured", "payment.failed", "refund.processed"}
Webhook == [kind : Hook, order : Orders]

Op == {"createOrder", "verifyPayment", "createRefund"} \cup Hook
At == {"insert", "complete", "announce", "redeem",
       "fail", "callGateway", "refund", "announceRefund"}
Request == [op : Op, order : Orders, slot : Slots, at : At]

paid(o) == gateway[o] \in {"captured", "refunded"}

PaymentInit ==
  /\ status = [o \in Orders |-> "none"]
  /\ rzpPaymentId = [o \in Orders |-> FALSE]
  /\ refundedAt = [o \in Orders |-> FALSE]
  /\ requests = {}
  /\ redeemed = [o \in Orders |-> 0]
  /\ gateway = [o \in Orders |-> "none"]
  /\ sent = {}
  /\ acked = {}
  /\ mismatched = {}
  /\ calls = 0
  /\ crashes = 0

-----------------------------------------------------------------------------
(* A request starts, moves on, returns or throws                           *)

webhookOf(r) == [kind |-> r.op, order |-> r.order]

start(op, o, slot, at) ==
  /\ \A r \in requests : <<r.op, r.order, r.slot>> # <<op, o, slot>>
  /\ requests' = requests \cup
       {[op |-> op, order |-> o, slot |-> slot, at |-> at]}

goto(r, at) == /\ requests' = (requests \ {r}) \cup {[r EXCEPT !.at = at]}
               /\ UNCHANGED acked

\* Mutation: every request that ends acknowledges something.
returnAcking(r) == /\ requests' = requests \ {r}
                   /\ acked' = acked \cup {webhookOf(r)}

\* A webhook call that returns answers 200 and Razorpay stops sending it.
return(r) == /\ requests' = requests \ {r}
             /\ acked' = acked \cup ({webhookOf(r)} \cap sent)

throw(r) == requests' = requests \ {r} /\ UNCHANGED acked

\* A call the handler awaits rejects, and so does the handler.
cutOff(r) ==
  /\ Rejections
  /\ crashes < MaxCrashes
  /\ crashes' = crashes + 1
  /\ throw(r)

-----------------------------------------------------------------------------
(* createOrder                                                             *)

\* The order exists at Razorpay before its row does.
createOrder(o) ==
  /\ gateway[o] = "none"
  /\ gateway' = [gateway EXCEPT ![o] = "created"]
  /\ \E slot \in Slots : start("createOrder", o, slot, "insert")
  /\ UNCHANGED <<status, rzpPaymentId, refundedAt, redeemed, sent, acked,
                 mismatched, calls, crashes, busVars>>

insertPayment(r) ==
  /\ r.at = "insert"
  /\ status' = [status EXCEPT ![r.order] = "PENDING"]
  /\ return(r)
  /\ UNCHANGED <<rzpPaymentId, refundedAt, redeemed, gateway, sent,
                 mismatched, calls, crashes, busVars>>

-----------------------------------------------------------------------------
(* verifyPayment and the webhook payment.captured                          *)

\* The client posts what the checkout handed it.  The signature matches only
\* for a payment that was made; when it does not (a key was rotated, a field
\* was mangled), the handler goes on to fail the row, whatever its status is.
verifyPayment(o, slot) ==
  /\ calls < MaxCalls
  /\ calls' = calls + 1
  /\ status[o] # "none"
  /\ \/ /\ paid(o)
        /\ ~(status[o] = "COMPLETED" /\ rzpPaymentId[o])
        /\ start("verifyPayment", o, slot, "complete")
        /\ UNCHANGED mismatched
     \/ /\ Mismatches
        /\ start("verifyPayment", o, slot, "fail")
        /\ mismatched' = mismatched \cup {o}
  /\ UNCHANGED <<status, rzpPaymentId, refundedAt, redeemed, gateway, sent, acked,
                 crashes, busVars>>

\* Mutation: the webhook path returns once the row is written.
completePaymentSilently(r) ==
  /\ r.at = "complete"
  /\ status' = [status EXCEPT ![r.order] = "COMPLETED"]
  /\ rzpPaymentId' = [rzpPaymentId EXCEPT ![r.order] = TRUE]
  /\ IF r.op = "payment.captured" THEN return(r) ELSE goto(r, "announce")
  /\ UNCHANGED <<refundedAt, redeemed, gateway, sent, mismatched, calls, crashes, busVars>>

completePayment(r) ==
  /\ r.at = "complete"
  /\ status' = [status EXCEPT ![r.order] = "COMPLETED"]
  /\ rzpPaymentId' = [rzpPaymentId EXCEPT ![r.order] = TRUE]
  /\ goto(r, "announce")
  /\ UNCHANGED <<refundedAt, redeemed, gateway, sent, mismatched, calls, crashes, busVars>>

publishPaymentCompleted(r) ==
  /\ r.at = "announce"
  /\ publish("payment.completed", r.order)
  /\ \/ /\ IF r.op = "verifyPayment" /\ r.order \in WithCoupon
           THEN goto(r, "redeem")
           ELSE return(r)
        /\ UNCHANGED crashes
     \/ cutOff(r)
  /\ UNCHANGED <<status, rzpPaymentId, refundedAt, redeemed, gateway, sent,
                 mismatched, calls>>

\* Mutation: the redemption is repeated when its answer does not arrive.
redeemCouponRetrying(r) ==
  /\ r.at = "redeem"
  /\ redeemed' = [redeemed EXCEPT ![r.order] = @ + 1]
  /\ return(r) \/ UNCHANGED <<requests, acked>>
  /\ UNCHANGED <<status, rzpPaymentId, refundedAt, gateway, sent,
                 mismatched, calls, crashes, busVars>>

\* POST /internal/coupons/:code/redeem; an error is only logged.
redeemCoupon(r) ==
  /\ r.at = "redeem"
  /\ \E counted \in {0, 1} : redeemed' = [redeemed EXCEPT ![r.order] = @ + counted]
  /\ return(r)
  /\ UNCHANGED <<status, rzpPaymentId, refundedAt, gateway, sent,
                 mismatched, calls, crashes, busVars>>

\* An invalid signature or payment.failed; the client is told, Razorpay gets a
\* 200, unless publishing payment.failed (to no subscriber in src/) rejects.
failPayment(r) ==
  /\ r.at = "fail"
  /\ status' = [status EXCEPT ![r.order] = "FAILED"]
  /\ \/ r.op = "verifyPayment" /\ throw(r) /\ UNCHANGED crashes
     \/ r.op # "verifyPayment" /\ return(r) /\ UNCHANGED crashes
     \/ r.op # "verifyPayment" /\ cutOff(r)
  /\ UNCHANGED <<rzpPaymentId, refundedAt, redeemed, gateway, sent,
                 mismatched, calls, busVars>>

-----------------------------------------------------------------------------
(* createRefund and the webhook refund.processed                           *)

\* Mutation: the row is marked before Razorpay is asked.
createRefundMarkingFirst(o, slot) ==
  /\ calls < MaxCalls
  /\ calls' = calls + 1
  /\ status[o] = "COMPLETED" /\ rzpPaymentId[o]
  /\ start("createRefund", o, slot, "refund")
  /\ UNCHANGED <<status, rzpPaymentId, refundedAt, redeemed, gateway, sent, acked,
                 mismatched, crashes, busVars>>

createRefund(o, slot) ==
  /\ calls < MaxCalls
  /\ calls' = calls + 1
  /\ status[o] = "COMPLETED" /\ rzpPaymentId[o]
  /\ start("createRefund", o, slot, "callGateway")
  /\ UNCHANGED <<status, rzpPaymentId, refundedAt, redeemed, gateway, sent, acked,
                 mismatched, crashes, busVars>>

\* Razorpay returns the money, unless it has done so before; the answer may
\* be lost on the way back, which looks like an error to the handler.
refundAtGateway(r) ==
  /\ r.at = "callGateway"
  /\ \/ /\ gateway[r.order] = "captured"
        /\ gateway' = [gateway EXCEPT ![r.order] = "refunded"]
        /\ sent' = sent \cup {[kind |-> "refund.processed", order |-> r.order]}
        /\ goto(r, "refund") \/ throw(r)
     \/ /\ gateway[r.order] = "refunded"
        /\ throw(r)
        /\ UNCHANGED <<gateway, sent>>
  /\ UNCHANGED <<status, rzpPaymentId, refundedAt, redeemed,
                 mismatched, calls, crashes, busVars>>

markRefunded(r) ==
  /\ r.at = "refund"
  /\ status' = [status EXCEPT ![r.order] = "REFUNDED"]
  /\ refundedAt' = [refundedAt EXCEPT ![r.order] = TRUE]
  /\ goto(r, "announceRefund")
  /\ UNCHANGED <<rzpPaymentId, redeemed, gateway, sent,
                 mismatched, calls, crashes, busVars>>

publishPaymentRefunded(r) ==
  /\ r.at = "announceRefund"
  /\ publish("payment.refunded", r.order)
  /\ (return(r) /\ UNCHANGED crashes) \/ cutOff(r)
  /\ UNCHANGED <<status, rzpPaymentId, refundedAt, redeemed, gateway, sent,
                 mismatched, calls>>

-----------------------------------------------------------------------------
(* handleWebhook                                                           *)

\* Mutation: only a PENDING row may complete.
webhookWritesToPending(w) ==
  CASE w.kind = "payment.captured" -> status[w.order] = "PENDING"
    [] w.kind = "payment.failed"   -> status[w.order] = "PENDING"
    [] w.kind = "refund.processed" -> rzpPaymentId[w.order] /\ status[w.order] # "REFUNDED"

\* Mutation: a COMPLETED row is left to the request that asked for the refund.
webhookLeavesCompleted(w) ==
  CASE w.kind = "payment.captured" -> status[w.order] \notin {"none", "COMPLETED"}
    [] w.kind = "payment.failed"   -> status[w.order] \notin {"none", "COMPLETED"}
    [] w.kind = "refund.processed" -> rzpPaymentId[w.order] /\ status[w.order] = "FAILED"

\* What the handler decides from the row it reads: the write it goes on to,
\* or nothing.
webhookWrites(w) ==
  CASE w.kind = "payment.captured" -> status[w.order] \notin {"none", "COMPLETED"}
    [] w.kind = "payment.failed"   -> status[w.order] \notin {"none", "COMPLETED"}
    [] w.kind = "refund.processed" -> rzpPaymentId[w.order] /\ status[w.order] # "REFUNDED"

\* Mutation: payment.failed falls through to the branch of payment.captured.
firstStepFallingThrough(kind) ==
  IF kind = "refund.processed" THEN "refund" ELSE "complete"

firstStep(kind) ==
  CASE kind = "payment.captured" -> "complete"
    [] kind = "payment.failed"   -> "fail"
    [] kind = "refund.processed" -> "refund"

\* Razorpay calls the webhook, again and again until one call returns, and
\* now and then once more after that (a retry that overlapped the answer).
handleWebhook(w, slot) ==
  /\ w \in sent
  /\ IF w \in acked
     THEN calls < MaxCalls /\ calls' = calls + 1
     ELSE UNCHANGED calls
  /\ IF webhookWrites(w)
     THEN start(w.kind, w.order, slot, firstStep(w.kind)) /\ UNCHANGED acked
     ELSE acked' = acked \cup {w} /\ UNCHANGED requests
  /\ UNCHANGED <<status, rzpPaymentId, refundedAt, redeemed, gateway, sent,
                 mismatched, crashes, busVars>>

-----------------------------------------------------------------------------
(* Razorpay, stops of the process and calls that reject                    *)

\* The customer pays.  She has the order from the answer to createOrder.
pay(o) ==
  /\ gateway[o] = "created"
  /\ status[o] # "none"
  /\ gateway' = [gateway EXCEPT ![o] = "captured"]
  /\ sent' = sent \cup {[kind |-> "payment.captured", order |-> o]}
  /\ UNCHANGED <<status, rzpPaymentId, refundedAt, requests, redeemed, acked,
                 mismatched, calls, crashes, busVars>>

\* An attempt to pay fails; she may try again on the same order.
attemptFails(o) ==
  /\ gateway[o] = "created"
  /\ status[o] # "none"
  /\ sent' = sent \cup {[kind |-> "payment.failed", order |-> o]}
  /\ UNCHANGED <<status, rzpPaymentId, refundedAt, requests, redeemed, gateway, acked,
                 mismatched, calls, crashes, busVars>>

\* Handlers in flight are gone; nothing they had not written survives.
crash ==
  /\ crashes < MaxCrashes
  /\ crashes' = crashes + 1
  /\ requests # {}
  /\ requests' = {}
  /\ UNCHANGED <<status, rzpPaymentId, refundedAt, redeemed, gateway, sent, acked,
                 mismatched, calls, busVars>>

\* The database, Razorpay or Redis rejects a call before it did anything.
callRejects(r) ==
  /\ cutOff(r)
  /\ UNCHANGED <<status, rzpPaymentId, refundedAt, redeemed, gateway, sent,
                 mismatched, calls, busVars>>

-----------------------------------------------------------------------------

Step(r) ==
  \/ insertPayment(r)
  \/ completePayment(r)
  \/ publishPaymentCompleted(r)
  \/ redeemCoupon(r)
  \/ failPayment(r)
  \/ refundAtGateway(r)
  \/ markRefunded(r)
  \/ publishPaymentRefunded(r)

PaymentStep ==
  \/ \E r \in requests : Step(r)
  \/ \E o \in Orders, slot \in Slots : verifyPayment(o, slot) \/ createRefund(o, slot)
  \/ \E w \in sent, slot \in Slots : handleWebhook(w, slot)
  \/ \E o \in Orders : createOrder(o) \/ pay(o) \/ attemptFails(o)
  \/ \E r \in requests : callRejects(r)
  \/ crash

\* A request in flight goes on.
GoOn(op, o, slot) ==
  \E r \in requests : <<r.op, r.order, r.slot>> = <<op, o, slot>> /\ Step(r)

\* Razorpay calls a webhook that no call has returned for yet.
CallAgain(w) == w \notin acked /\ \E slot \in Slots : handleWebhook(w, slot)

-----------------------------------------------------------------------------
(* The service alone, with the bus, the client and Razorpay around it      *)

paymentSystem == <<paymentVars, busVars>>

PaymentSystemInit == BusInit /\ PaymentInit

PaymentSpec == PaymentSystemInit /\ [][PaymentStep]_paymentSystem

-----------------------------------------------------------------------------
(* Properties                                                              *)

\* Types of the component's variables.
PaymentTypeOK ==
  /\ BusTypeOK
  /\ status \in [Orders -> Status]
  /\ rzpPaymentId \in [Orders -> BOOLEAN]
  /\ refundedAt \in [Orders -> BOOLEAN]
  /\ requests \subseteq Request
  /\ redeemed \in [Orders -> Nat]
  /\ gateway \in [Orders -> {"none", "created", "captured", "refunded"}]
  /\ sent \subseteq Webhook
  /\ acked \subseteq sent
  /\ mismatched \subseteq Orders
  /\ calls \in 0..MaxCalls
  /\ crashes \in 0..MaxCrashes

announced(name, o) == \E e \in published : e.name = name /\ e.order = o

\* The row never runs ahead of the money: it says COMPLETED, or names a
\* Razorpay payment, only for an order that was paid, and REFUNDED only for
\* an order whose money went back, whatever races, retries, stale reads and
\* crashes there were between the reads and writes of the handlers.
RowsFollowTheMoney ==
  \A o \in Orders :
    /\ status[o] = "COMPLETED" \/ rzpPaymentId[o] => paid(o)
    /\ status[o] = "REFUNDED" \/ refundedAt[o] => gateway[o] = "refunded"

\* No event is false: payment.completed is published only for a paid order
\* and payment.refunded only for a refunded one.
EventsFollowTheMoney ==
  \A o \in Orders :
    /\ announced("payment.completed", o) => paid(o)
    /\ announced("payment.refunded", o) => gateway[o] = "refunded"

\* The places a handler may stand at, given the money of its order.
justified(at, o) ==
  /\ at \in {"complete", "announce", "redeem", "callGateway"} => paid(o)
  /\ at \in {"refund", "announceRefund"} => gateway[o] = "refunded"

\* Why: each handler is where it is, and Razorpay sent each webhook, because
\* of money that moved.  What a handler goes on to write was decided from a
\* row it read earlier, and stays justified however late the write comes.
HandlersFollowTheMoney ==
  /\ \A r \in requests : justified(r.at, r.order)
  /\ \A w \in sent :
       /\ w.kind = "payment.captured" => paid(w.order)
       /\ w.kind = "refund.processed" => gateway[w.order] = "refunded"

\* Every commit is announced: a row that ever completed has a published
\* payment.completed, and a row that was ever refunded a published
\* payment.refunded, or else a handler that is about to publish it.  It is
\* what the whole platform needs of the service, and it survives any
\* interleaving of requests, but not a stop, or a publish that rejects,
\* between the commit and the event.
CommitsAreAnnounced ==
  crashes = 0 =>
    \A o \in Orders :
      /\ rzpPaymentId[o] =>
           \/ announced("payment.completed", o)
           \/ \E r \in requests : r.order = o /\ r.at = "announce"
      /\ refundedAt[o] =>
           \/ announced("payment.refunded", o)
           \/ \E r \in requests : r.order = o /\ r.at = "announceRefund"

\* There is a reason to fail order o: a signature that did not match, or a
\* failed attempt.
failable(o) ==
  o \in mismatched \/ [kind |-> "payment.failed", order |-> o] \in sent

\* Razorpay repeats a webhook until a call of it returns, so a call may return
\* only when the row knows what the webhook told, whoever wrote it there: it
\* names the payment, it dates the refund, and it never goes back to PENDING.
\* It says COMPLETED or REFUNDED, except that a failed attempt or a signature
\* that did not match may be written over either, before or after the answer.
AnsweredWebhooksReachedTheRow ==
  \A w \in acked :
    LET o == w.order IN
    w.kind \in {"payment.captured", "refund.processed"} =>
      /\ IF w.kind = "payment.captured" THEN rzpPaymentId[o] ELSE refundedAt[o]
      /\ \/ status[o] \in {"COMPLETED", "REFUNDED"}
         \/ status[o] = "FAILED" /\ failable(o)

\* Course-service counts a coupon at most once per published completion, so
\* never for a payment nobody was told about.  (Two racing verify calls do
\* count it twice.)
RedemptionsFollowAnnouncements ==
  \A o \in Orders :
    redeemed[o] <= Cardinality({e \in published : e.order = o /\ e.name = "payment.completed"})

\* A captured payment is named by its row even if the client never comes back
\* and the process stops in the middle of the first webhook call: Razorpay's
\* retries are enough.  (What the status says by then is another matter: a
\* failed attempt that is handled late writes FAILED over COMPLETED.)
CapturesReachTheRow == \A o \in Orders : paid(o) ~> rzpPaymentId[o]

\* A refund that Razorpay made reaches the row even if the handler that
\* asked for it lost the answer or its process.
RefundsReachTheRow == \A o \in Orders : gateway[o] = "refunded" ~> refundedAt[o]

\* README.md:256-258 calls the payment webhook idempotent: a handler that
\* repeats an answered payment.captured leaves a refunded row as it is.
WebhookRepeatsKeepRefunds ==
  [][\A r \in requests \ requests' :
       /\ r.op = "payment.captured" /\ webhookOf(r) \in acked
       /\ status[r.order] = "REFUNDED"
       => status'[r.order] = "REFUNDED"
     ]_paymentSystem
=============================================================================
