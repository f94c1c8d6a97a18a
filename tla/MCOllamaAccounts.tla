-------------------------- MODULE MCOllamaAccounts --------------------------
(* Instances of OllamaAccounts for TLC.                                    *)
EXTENDS OllamaAccounts, TLC

CONSTANTS r1, r2, v1, e1, e2, e3, k1, k2, k3

(* Every address has a key of its own.                                     *)
OwnKeys == (e1 :> {k1}) @@ (e2 :> {k2}) @@ (e3 :> {k3})

(* The page may yield a string it has yielded before.                      *)
SharedKeys == (e1 :> {k1}) @@ (e2 :> {k1, k2}) @@ (e3 :> {k2, k3})
=============================================================================
