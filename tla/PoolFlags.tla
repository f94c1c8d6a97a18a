------------------------------ MODULE PoolFlags ------------------------------
(***************************************************************************)
(* What pool_gateway.py does to the health flags of its keys, seen from    *)
(* outside: the flags in memory, the state file, and whether the gateway   *)
(* is up.  Why a flag changes is left open; the module PoolGateway, which  *)
(* says why, implements this one.                                          *)
(***************************************************************************)

CONSTANTS
    Keys,   \* API keys and tokens
    Pool    \* Pool[k]: the pool key k belongs to

VARIABLES
    up,     \* is the gateway serving?
    health, \* health[k] for the keys in memory; while down, what it was
    file    \* the same in pool_state.json

flagVars == <<up, health, file>>

Flags == UNION {[listed -> BOOLEAN] : listed \in SUBSET Keys}
NoFlags == [k \in {} |-> TRUE]

FlagsInit == up = FALSE /\ health = NoFlags /\ file = NoFlags

(* A listed key keeps the flag it has in the file, or is healthy.          *)
Load ==
    /\ ~up /\ up' = TRUE
    /\ \E listed \in SUBSET Keys :
          health' = [k \in listed |-> IF k \in DOMAIN file THEN file[k] ELSE TRUE]
    /\ UNCHANGED file

(* The flags are saved, while the gateway runs or as it stops.             *)
Save ==
    /\ up
    /\ file' = health
    /\ up' \in BOOLEAN
    /\ UNCHANGED health

(* The process dies, with the flags set since the last save; if the whole  *)
(* machine does, the file may be unreadable, which counts as empty.        *)
Die ==
    /\ up /\ up' = FALSE
    /\ health' = NoFlags
    /\ file' \in {file, NoFlags}

(* A request or a probe sets a flag.                                       *)
SetFlag ==
    /\ up
    /\ \E k \in DOMAIN health, flag \in BOOLEAN :
          health' = [health EXCEPT ![k] = flag]
    /\ UNCHANGED <<up, file>>

FlagsNext == Load \/ Save \/ Die \/ SetFlag

FlagsSpec == FlagsInit /\ [][FlagsNext]_flagVars

(* What the proofs rest on.                                                *)
FlagsTyped == up \in BOOLEAN /\ health \in Flags /\ file \in Flags
=============================================================================
