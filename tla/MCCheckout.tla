------------------------------ MODULE MCCheckout ------------------------------
(***************************************************************************)
(* A small world for Checkout: one customer's basket, in two tabs or sent  *)
(* again, and the shop's counter beside it.                                *)
(***************************************************************************)
EXTENDS Checkout, TLC

CONSTANTS b1, b2, c1

OneCustomer == [b \in Baskets |-> c1]
\* Sound: nothing tells two attempts or two ids apart.
Calls == Permutations(Attempts) \cup Permutations(Requests)
==============================================================================
