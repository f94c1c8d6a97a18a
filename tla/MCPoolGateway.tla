--------------------------- MODULE MCPoolGateway ---------------------------
(* PoolGateway for TLC: one Puter pool.                                    *)
EXTENDS PoolGateway

OnePool == [k \in Keys |-> "puter"]
=============================================================================
