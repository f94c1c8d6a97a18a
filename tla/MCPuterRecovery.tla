--------------------------- MODULE MCPuterRecovery ---------------------------
(* PuterRecovery for TLC: the accounts are interchangeable.                *)
EXTENDS PuterRecovery, TLC

Symmetry == Permutations(Accounts)
=============================================================================
