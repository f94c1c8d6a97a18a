--------------------------- MODULE MCPoolCleanup ---------------------------
(* PoolCleanup for TLC: one key of each pool.                              *)
EXTENDS PoolCleanup

TwoPools == [k \in Keys |-> IF k = "o1" THEN "ollama" ELSE "puter"]
=============================================================================
