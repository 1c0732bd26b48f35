------------------------------ MODULE EventBus ------------------------------
(***************************************************************************)
(* packages/shared: the publish/subscribe bus between the services.        *)
(*                                                                         *)
(* publish() mints a fresh envelope id on EVERY call, so publishing the    *)
(* same fact twice gives two envelopes that no consumer can tell from two  *)
(* facts.  A handler must be ready for at-least-once delivery              *)
(* (event-bus.ts:41-44), and several copies of a consumer each get one     *)
(* event, in no particular order: an envelope stays in "published" for     *)
(* good and the consumer's Deliver action may pick it any number of times, *)
(* at any moment, or (where no fairness is stated) never.  What the code   *)
(* itself GIVES is less: Redis Pub/Sub (event-bus.ts:34, 50-51) hands an   *)
(* event once to whoever is subscribed when it is published.  So no        *)
(* fairness holds for an envelope published before the consumer stopped.   *)
(* A handler that throws sends its envelope to the dead-letter list, which *)
(* nothing in the source reads back.                                       *)
(*                                                                         *)
(* Of the payment events, the two that some service subscribes to are      *)
(* kept: payment.failed and enrollment.created have no subscriber.  The    *)
(* completion of a course is in Progress and Certificates.                 *)
(***************************************************************************)
EXTENDS Naturals

CONSTANTS Orders,      \* Razorpay orders, each with its one payment row
          Pairs,       \* (userId, courseId) pairs
          PairOf       \* the user and the course an order is for

ASSUME PairOfType == PairOf \in [Orders -> Pairs]

VARIABLES published,   \* every envelope ever published
          nextId,      \* the id the next envelope gets
          dlq          \* the list lp.events.dlq, as a set

busVars == <<published, nextId, dlq>>

EventName == {"payment.completed", "payment.refunded"}

\* EventEnvelope; data.userId and data.courseId are PairOf[order].
Envelope == [id : Nat, name : EventName, order : Orders]

BusInit ==
  /\ published = {}
  /\ nextId = 1
  /\ dlq = {}

publish(name, order) ==
  /\ published' = published \cup {[id |-> nextId, name |-> name, order |-> order]}
  /\ nextId' = nextId + 1
  /\ UNCHANGED dlq

deadLetter(evt) ==
  /\ dlq' = dlq \cup {evt}
  /\ UNCHANGED <<published, nextId>>

-----------------------------------------------------------------------------

BusTypeOK ==
  /\ published \subseteq Envelope
  /\ nextId \in Nat
  /\ dlq \subseteq Envelope

\* Envelope ids are unique: the ledger of a consumer is keyed by them.
FreshIds ==
  /\ \A e \in published : e.id < nextId
  /\ \A e, f \in published : e.id = f.id => e = f
=============================================================================
