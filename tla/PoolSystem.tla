----------------------------- MODULE PoolSystem -----------------------------
(***************************************************************************)
(* The gateway of PoolGateway, its requests and probes included, and the   *)
(* commands of PoolCleanup beside it.  They share nothing but the state    *)
(* file: neither holds a lock on it, and the commands do not know whether  *)
(* the gateway is up.                                                      *)
(***************************************************************************)
EXTENDS PoolGateway, PoolCleanup

systemVars == <<vars, commandVars>>

SystemInit == Init /\ CleanupInit

GatewayStep == Next /\ Beside

CommandStep == Commands /\ UNCHANGED <<banned, req, probe>>

SystemNext == GatewayStep \/ CommandStep

SystemSpec == SystemInit /\ [][SystemNext]_systemVars

-----------------------------------------------------------------------------

(* The commands see the gateway as PoolCleanup has it, although they edit  *)
(* the state file under it: whatever a request, a probe, a save or a       *)
(* restart does on flags that a command has written is what PoolFlags says *)
(* of a gateway, and no step of theirs is one it takes.                    *)
CommandsAsPromised == CleanupSpec
=============================================================================
