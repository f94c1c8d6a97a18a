-------------------------- MODULE MCLegacyRegister --------------------------
(* LegacyRegister for TLC: the batches and the outlooks are alike.         *)
EXTENDS LegacyRegister, TLC

Symmetry == Permutations(Batches) \union Permutations(Outlooks)
=============================================================================
