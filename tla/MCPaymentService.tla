-------------------------- MODULE MCPaymentService --------------------------
(* One or two users, one order each. *)
EXTENDS PaymentService, TLC

CONSTANTS alice, bob, o1, o2, s1, s2

MCOneOrder == {o1}
MCOneUser == {alice}
MCOnePairOf == (o1 :> alice)

MCTwoOrders == {o1, o2}
MCTwoUsers == {alice, bob}
MCTwoPairOf == (o1 :> alice) @@ (o2 :> bob)

\* Two requests of one kind on one order are interchangeable.
SlotSymmetry == Permutations({s1, s2})
=============================================================================
