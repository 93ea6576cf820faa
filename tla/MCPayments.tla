----------------------------- MODULE MCPayments -----------------------------
(* Payments for TLC: the sets that only serve as names are symmetric.      *)
EXTENDS Payments, TLC

Symmetry == Permutations(Orders) \cup Permutations(PayKeys) \cup Permutations(PayCalls)
              \cup Permutations(PayRefs) \cup Permutations(EventIds)
=============================================================================
