--------------------------- MODULE MCPurchaseFlow ---------------------------
(* One user with one order or with two orders for the same course, or two  *)
(* users with an order each.                                               *)
EXTENDS PurchaseFlow, TLC

CONSTANTS alice, bob, o1, o2

MCOneOrder == {o1}
MCTwoOrders == {o1, o2}

MCOneUser == {alice}
MCTwoUsers == {alice, bob}

MCOne == (o1 :> alice)
MCBothHers == (o1 :> alice) @@ (o2 :> alice)
MCOneEach == (o1 :> alice) @@ (o2 :> bob)
=============================================================================
