----------------------------- MODULE MCRefunds ------------------------------
(* Payments and refunds for TLC, with the names symmetric.                 *)
EXTENDS Refunds, TLC

Symmetry == Permutations(PayKeys) \cup Permutations(PayCalls)
              \cup Permutations(PayRefs) \cup Permutations(RefundKeys)
              \cup Permutations(RefundCalls) \cup Permutations(RefundRefs)
              \cup Permutations(RefundEventIds)
=============================================================================
