----------------------------- MODULE MCCheckout -----------------------------
(* Instances of Checkout for TLC.                                          *)
EXTENDS Checkout, TLC

CONSTANTS r1, r2

MCShelf == 1 :> 2 @@ 2 :> 1
=============================================================================
