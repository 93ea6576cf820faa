----------------------------- MODULE MCAccounts -----------------------------
EXTENDS Accounts, TLC

CallSymmetry == Permutations(Calls)
=============================================================================
