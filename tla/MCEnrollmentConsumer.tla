------------------------ MODULE MCEnrollmentConsumer ------------------------
(* Two small worlds: two users with one order each, and one user with two  *)
(* orders for the same course.                                             *)
EXTENDS EnrollmentConsumer, TLC

CONSTANTS alice, bob, o1, o2

MCOrders == {o1, o2}

MCTwoUsers == {alice, bob}
MCOneOrderEach == (o1 :> alice) @@ (o2 :> bob)

MCOneUser == {alice}
MCBothOrdersHers == (o1 :> alice) @@ (o2 :> alice)
=============================================================================
