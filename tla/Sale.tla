-------------------------------- MODULE Sale --------------------------------
(***************************************************************************)
(* What the platform promises a buyer ("payment.completed -> unlock the    *)
(* course", "payment.refunded -> pull access back",                        *)
(* enrollments.service.ts:176 and 208), whichever services keep it: money  *)
(* moves, a claim about money is made only once it is true, and a course   *)
(* opens or closes in the very step that settles a claim about an order of *)
(* that user for that course.  No claim is settled twice.  Beyond that     *)
(* only people decide about access.                                        *)
(*                                                                         *)
(* How late a claim is settled, and in which order, is left open.          *)
(***************************************************************************)
EXTENDS Naturals

CONSTANTS Orders, Pairs, PairOf,
          Decisions     \* what people may decide: to open (TRUE), to close (FALSE)

VARIABLES money,        \* where the money of an order is
          claims,       \* claims made: [id, order, opens]
          settled,      \* ids of the claims that were settled
          access        \* access[p]: may the user of p read the course of p

vars == <<money, claims, settled, access>>

Init ==
  /\ money = [o \in Orders |-> "none"]
  /\ claims = {}
  /\ settled = {}
  /\ access = [p \in Pairs |-> FALSE]

\* Money only ever goes this way.
onward == [none |-> "created", created |-> "captured", captured |-> "refunded"]

MoneyMoves(o) ==
  /\ money[o] \in DOMAIN onward
  /\ money' = [money EXCEPT ![o] = onward[@]]
  /\ UNCHANGED <<claims, settled, access>>

\* That an order was paid, or that its money went back.
Claim(c) ==
  /\ money[c.order] \in (IF c.opens THEN {"captured", "refunded"} ELSE {"refunded"})
  /\ \A d \in claims : d.id # c.id
  /\ claims' = claims \cup {c}
  /\ UNCHANGED <<money, settled, access>>

Settle(c) ==
  /\ c.id \notin settled
  /\ settled' = settled \cup {c.id}
  /\ access' = [access EXCEPT ![PairOf[c.order]] = c.opens]
  /\ UNCHANGED <<money, claims>>

Decide(p) ==
  /\ \E open \in Decisions : access' = [access EXCEPT ![p] = open]
  /\ UNCHANGED <<money, claims, settled>>

Next ==
  \/ \E o \in Orders : MoneyMoves(o)
  \/ \E c \in claims' \ claims : Claim(c)
  \/ \E c \in claims : Settle(c)
  \/ \E p \in Pairs : Decide(p)

Spec == Init /\ [][Next]_vars
=============================================================================
