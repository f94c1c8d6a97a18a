-------------------------- MODULE MCCircuitBreaker --------------------------
(* CircuitBreaker for TLC: the processes are interchangeable.              *)
EXTENDS CircuitBreaker, TLC

Symmetry == Permutations(Procs)
=============================================================================
