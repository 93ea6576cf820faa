---------------------------- MODULE MCFulfilment ----------------------------
(* Payments, refunds and shipping together for TLC.                        *)
EXTENDS Fulfilment
=============================================================================
