-------------------------- MODULE MCPuterRegister --------------------------
(* Instances of PuterRegister for TLC: the attempts are interchangeable,   *)
(* and so are the addresses.                                               *)
EXTENDS PuterRegister, TLC

Symmetry == Permutations(Attempts) \union Permutations(IPs)
=============================================================================
