------------------------- MODULE MCOrderProcessing -------------------------
(* A small instance of OrderProcessing for TLC. *)
EXTENDS OrderProcessing, TLC

CONSTANTS o1, o2, m1, m2, x1

(* Bound: two messages of one order, and one without an order.  The other  *)
(* order has none: it is placed synchronously, or its Publish fails.       *)
Held == (m1 :> o1) @@ (m2 :> o1) @@ (x1 :> NoOrder)

(* Enough for one message to be paid, have its delete fail, be paid again, *)
(* lose the processor, and be paid once more.                              *)
Receives == (m1 :> 3) @@ (m2 :> 2) @@ (x1 :> 2)
=============================================================================
