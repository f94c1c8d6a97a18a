---------------------------- MODULE PuterRecovery ----------------------------
(***************************************************************************)
(* What Puter v2 does with an account once it is registered: the batch     *)
(* stores it in puter_accounts_v2.json, QuarantineManager keeps it in      *)
(* puter_quarantine.json for a day and then promotes or drops it, and      *)
(* restore_puter_v2.py rebuilds these files from puter_states.jsonl.       *)
(*                                                                         *)
(* The three run as processes of their own, without locks: a manager reads *)
(* the quarantine once, when it is created; list updates read and write    *)
(* the whole file.  JSON files are replaced as a whole, but a line of a    *)
(* .jsonl file may be cut off by a crash, and from then on reading that    *)
(* file raises.  Which accounts a manager is asked about is up to its      *)
(* caller, of which the repository has none.  A write that fails without a *)
(* crash (a full disk) is left out.                                        *)
(***************************************************************************)

CONSTANTS
    Accounts,   \* account ids; drawn fresh, so each is registered once
    Managers,   \* processes with a QuarantineManager
    None

ASSUME NoneNoAccount == None \notin Accounts

VARIABLES
    log,        \* the latest state puter_states.jsonl records of an account
    audit,      \* accounts puter_audit.jsonl records as failed
    torn,       \* which of these two files ends in, or contains, a cut line
    list,       \* accounts in puter_accounts_v2.json, whatever their status
    quarantine, \* accounts in puter_quarantine.json, whatever their rechecks
    failures,   \* accounts in puter_failures.jsonl
    batch,      \* the batch: point, current account, the list it has read
    mgr,        \* the managers: point, copy of the quarantine, target, list
    rebuild,    \* the rebuild: point, and the log it has read
    lost,       \* accounts one of the ways named below has dropped, and that
                \* have not become safe again since (history)
    calm        \* only the rebuild has written since it read (history)

files == <<log, audit, torn, list, quarantine, failures>>
vars == <<files, batch, mgr, rebuild, lost, calm>>

Stages == {"none", "open", "quarantined", "audited", "exportable", "failed"}
BatchPoints == {"down", "idle", "work", "load", "store", "record", "finalize",
                "failure"}
ManagerPoints == {"down", "up", "failing", "promoting", "promoted"}
RebuildPoints == {"off", "list", "quarantine", "failures", "lines", "done"}

TypeOK ==
    /\ log \in [Accounts -> Stages]
    /\ {audit, list, quarantine, failures, lost} \subseteq SUBSET Accounts
    /\ torn \subseteq {"states", "audit"}
    /\ batch \in [pc : BatchPoints, cur : Accounts \union {None},
                  view : SUBSET Accounts]
    /\ mgr \in [Managers -> [pc : ManagerPoints, copy : SUBSET Accounts,
                             target : Accounts \union {None},
                             view : SUBSET Accounts]]
    /\ rebuild \in [pc : RebuildPoints, plan : [Accounts -> Stages]]
    /\ calm \in BOOLEAN

Ready(point) == [pc |-> point, cur |-> None, view |-> {}]
Closed == [pc |-> "down", copy |-> {}, target |-> None, view |-> {}]
Unplanned(point) == [pc |-> point, plan |-> [a \in Accounts |-> "none"]]

In(stage) == {a \in Accounts : log[a] = stage}

Init ==
    /\ log = [a \in Accounts |-> "none"]
    /\ audit = {} /\ torn = {} /\ failures = {}
    /\ list = {} /\ quarantine = {}
    /\ batch = Ready("down")
    /\ mgr = [m \in Managers |-> Closed]
    /\ rebuild = Unplanned("off")
    /\ lost = {} /\ calm = FALSE

-----------------------------------------------------------------------------
(* The batch (the registration itself is the module PuterRegister's).      *)

BatchAt(point) == batch.pc = point
BatchGoes(point) == batch' = [batch EXCEPT !.pc = point]
Quiet == calm' = (calm /\ UNCHANGED files)

(* An account is safe on the list, and in quarantine as long as no manager *)
(* is about to take it out, having put it on the list before.              *)
Leaving == {mgr[m].target : m \in {n \in Managers : mgr[n].pc = "promoted"}}
Safe == list \union (quarantine \ Leaving)

(* The step drops the accounts of S; those it does not leave safe are lost.*)
Drop(S) == lost' = (lost \union S) \ Safe'

Begin ==
    /\ batch.pc \in {"down", "idle"}
    /\ \E a \in In("none") :
          /\ log' = [log EXCEPT ![a] = "open"]
          /\ batch' = [pc |-> "work", cur |-> a, view |-> {}]
    /\ UNCHANGED <<audit, torn, list, quarantine, failures, mgr, rebuild, lost>>
    /\ Quiet

(* The attempt is quarantined, or fails on the way.                        *)
Register ==
    /\ BatchAt("work")
    /\ \E ok \in BOOLEAN :
          /\ log' = [log EXCEPT ![batch.cur] = IF ok THEN "quarantined" ELSE "failed"]
          /\ BatchGoes(IF ok THEN "load" ELSE "finalize")
    /\ UNCHANGED <<audit, torn, list, quarantine, failures, mgr, rebuild, lost>>
    /\ Quiet

(* _store_account.                                                         *)
LoadList ==
    /\ BatchAt("load")
    /\ batch' = [batch EXCEPT !.pc = "store", !.view = list]
    /\ UNCHANGED <<files, mgr, rebuild, lost, calm>>

StoreList ==
    /\ BatchAt("store")
    /\ list' = batch.view \union {batch.cur}
    /\ UNCHANGED <<log, audit, torn, quarantine, failures, mgr, rebuild>>
    /\ Drop(list \ list')
    /\ batch' = [batch EXCEPT !.pc = "record", !.view = {}]
    /\ Quiet

(* The scheduler records the registration, or its lock times out and the   *)
(* handler fails an account that is stored already.                        *)
Record ==
    /\ BatchAt("record")
    /\ \/ UNCHANGED log
       \/ log' = [log EXCEPT ![batch.cur] = "failed"]
    /\ BatchGoes("finalize")
    /\ UNCHANGED <<audit, torn, list, quarantine, failures, mgr, rebuild, lost>>
    /\ Quiet

(* _finalize reads the whole log first.  A cut line makes it raise, the    *)
(* handler fails the attempt and calls it again, and that ends the batch.  *)
Finalize ==
    /\ BatchAt("finalize")
    /\ LET failed == log[batch.cur] = "failed"
       IN IF "states" \in torn
          THEN /\ log' = [log EXCEPT ![batch.cur] = "failed"]
               /\ batch' = Ready("down")
               /\ UNCHANGED audit
          ELSE /\ audit' = IF failed THEN audit \union {batch.cur} ELSE audit
               /\ batch' = IF failed THEN [batch EXCEPT !.pc = "failure"]
                           ELSE Ready("idle")
               /\ UNCHANGED log
    /\ UNCHANGED <<torn, list, quarantine, failures, mgr, rebuild, lost>>
    /\ Quiet

AppendFailure ==
    /\ BatchAt("failure")
    /\ failures' = failures \union {batch.cur}
    /\ batch' = Ready("idle")
    /\ UNCHANGED <<log, audit, torn, list, quarantine, mgr, rebuild, lost>>
    /\ Quiet

(* The process dies, perhaps in the middle of a line (the handler writes   *)
(* one after "record" and again when _finalize raises); an account that is *)
(* logged but not yet stored is on no list.                                *)
BatchDies ==
    /\ batch.pc \notin {"down", "idle"}
    /\ \/ UNCHANGED torn
       \/ batch.pc \in {"work", "record", "finalize"} /\ torn' = torn \union {"states"}
       \/ BatchAt("finalize") /\ torn' = torn \union {"audit"}
    /\ UNCHANGED <<log, audit, list, quarantine, failures, mgr, rebuild>>
    /\ Drop(IF batch.pc \in {"load", "store"} THEN {batch.cur} ELSE {})
    /\ batch' = Ready("down")
    /\ Quiet

-----------------------------------------------------------------------------
(* QuarantineManager.                                                      *)

At(m, point) == mgr[m].pc = point

(* _save writes the copy over the file, and so drops what others have put  *)
(* there since it was read; `gone` is what the caller itself takes out.    *)
Save(copy, gone) ==
    /\ UNCHANGED list
    /\ quarantine' = copy
    /\ Drop((quarantine \ copy) \ gone)

Open(m) ==
    /\ At(m, "down")
    /\ mgr' = [mgr EXCEPT ![m].pc = "up", ![m].copy = quarantine]
    /\ UNCHANGED <<files, batch, rebuild, lost, calm>>

Add(m) ==
    /\ At(m, "up")
    /\ \E a \in In("quarantined") :
          /\ mgr' = [mgr EXCEPT ![m].copy = @ \union {a}]
          /\ Save(mgr'[m].copy, {})
    /\ UNCHANGED <<log, audit, torn, failures, batch, rebuild>>
    /\ Quiet

(* mark_audited, or mark_optional_recheck_done.                            *)
Recheck(m) ==
    /\ At(m, "up")
    /\ mgr[m].copy # {}
    /\ UNCHANGED <<log, audit, torn, failures, batch, mgr, rebuild>>
    /\ Save(mgr[m].copy, {})
    /\ Quiet

(* mark_failed: the quarantine is saved without the account, and then a    *)
(* line of the audit says so.                                              *)
DropFailed(m) ==
    /\ At(m, "up")
    /\ \E a \in mgr[m].copy :
          /\ mgr' = [mgr EXCEPT ![m].copy = @ \ {a}, ![m].target = a,
                                ![m].pc = "failing"]
          /\ Save(mgr'[m].copy, {a})
    /\ UNCHANGED <<log, audit, torn, failures, batch, rebuild>>
    /\ Quiet

AuditFailed(m) ==
    /\ At(m, "failing")
    /\ audit' = audit \union {mgr[m].target}
    /\ mgr' = [mgr EXCEPT ![m].pc = "up", ![m].target = None]
    /\ UNCHANGED <<log, torn, list, quarantine, failures, batch, rebuild, lost>>
    /\ Quiet

(* Mutant: the quarantine is saved as soon as the account has left it.     *)
PopAndSave(m) ==
    /\ At(m, "up")
    /\ \E a \in mgr[m].copy :
          /\ mgr' = [mgr EXCEPT ![m].copy = @ \ {a}, ![m].target = a,
                                ![m].view = list, ![m].pc = "promoting"]
          /\ Save(mgr'[m].copy, {a})
    /\ UNCHANGED <<log, audit, torn, failures, batch, rebuild>>
    /\ Quiet

(* promote_to_exportable: the account leaves the copy in memory, the list  *)
(* is read, then written with the account on it, then the quarantine saved.*)
Pop(m) ==
    /\ At(m, "up")
    /\ \E a \in mgr[m].copy :
          mgr' = [mgr EXCEPT ![m].copy = @ \ {a}, ![m].target = a,
                             ![m].view = list, ![m].pc = "promoting"]
    /\ UNCHANGED <<files, batch, rebuild, lost, calm>>

Promote(m) ==
    /\ At(m, "promoting")
    /\ list' = mgr[m].view \union {mgr[m].target}
    /\ UNCHANGED <<log, audit, torn, quarantine, failures, batch, rebuild>>
    /\ mgr' = [mgr EXCEPT ![m].pc = "promoted", ![m].view = {}]
    /\ Drop(list \ list')
    /\ Quiet

Promoted(m) ==
    /\ At(m, "promoted")
    /\ mgr' = [mgr EXCEPT ![m].pc = "up", ![m].target = None]
    /\ Save(mgr[m].copy, {mgr[m].target})
    /\ UNCHANGED <<log, audit, torn, failures, batch, rebuild>>
    /\ Quiet

(* The process ends, at any point: after a mark_failed it has saved, the   *)
(* account is in no file, and the line it was writing may be cut.          *)
Close(m) ==
    /\ ~At(m, "down")
    /\ mgr' = [mgr EXCEPT ![m] = Closed]
    /\ \/ UNCHANGED torn
       \/ At(m, "failing") /\ torn' = torn \union {"audit"}
    /\ UNCHANGED <<log, audit, list, quarantine, failures, batch, rebuild>>
    /\ Drop(IF At(m, "failing") THEN {mgr[m].target} ELSE {})
    /\ Quiet

-----------------------------------------------------------------------------
(* rebuild(): it reads both logs, then writes three files one by one.      *)

RebuildGoes(point) == rebuild' = [rebuild EXCEPT !.pc = point]
Planned(stage) == {a \in Accounts : rebuild.plan[a] = stage}

ReadLogs ==
    /\ rebuild.pc \in {"off", "done"}
    /\ torn = {}
    /\ \E a \in Accounts : log[a] # "none"
    /\ rebuild' = [pc |-> "list", plan |-> log]
    /\ calm' = TRUE
    /\ UNCHANGED <<files, batch, mgr, lost>>

(* The list keeps the accounts the log calls exportable; no code writes    *)
(* such a transition, so the list becomes empty.                           *)
RebuildList ==
    /\ rebuild.pc = "list"
    /\ list' = Planned("exportable")
    /\ UNCHANGED <<log, audit, torn, quarantine, failures, batch, mgr, calm>>
    /\ Drop(list \ list')
    /\ RebuildGoes("quarantine")

(* Mutant: the accounts the quarantine still has are kept in it.           *)
RebuildOnto ==
    /\ rebuild.pc = "quarantine"
    /\ quarantine' = quarantine \union Planned("quarantined")
    /\ UNCHANGED <<log, audit, torn, list, failures, batch, mgr, calm>>
    /\ Drop({})
    /\ RebuildGoes("failures")

RebuildQuarantine ==
    /\ rebuild.pc = "quarantine"
    /\ quarantine' = Planned("quarantined") \union Planned("audited")
    /\ UNCHANGED <<log, audit, torn, list, failures, batch, mgr, calm>>
    /\ Drop(quarantine \ quarantine')
    /\ RebuildGoes("failures")

(* puter_failures.jsonl is truncated and written line by line, over what a *)
(* batch may have appended in between.                                     *)
RebuildFailures ==
    /\ \/ /\ rebuild.pc = "failures"
          /\ failures' = {}
          /\ RebuildGoes("lines")
       \/ /\ rebuild.pc = "lines"
          /\ \E kept \in SUBSET failures : failures' = kept \union Planned("failed")
          /\ rebuild' = Unplanned("done")
    /\ UNCHANGED <<log, audit, torn, list, quarantine, batch, mgr, lost, calm>>

(* A crash leaves some of the files rebuilt and some as they were, and of  *)
(* the last some lines.                                                    *)
RebuildDies ==
    /\ rebuild.pc \notin {"off", "done"}
    /\ \/ UNCHANGED failures
       \/ /\ rebuild.pc = "lines"
          /\ \E some \in SUBSET Planned("failed") : failures' = failures \union some
    /\ rebuild' = Unplanned("off")
    /\ UNCHANGED <<log, audit, torn, list, quarantine, batch, mgr, lost, calm>>

Next ==
    \/ Begin \/ Register \/ LoadList \/ StoreList \/ Record
    \/ Finalize \/ AppendFailure \/ BatchDies
    \/ \E m \in Managers :
          \/ Open(m) \/ Add(m) \/ Recheck(m) \/ DropFailed(m) \/ AuditFailed(m)
          \/ Pop(m) \/ Promote(m) \/ Promoted(m) \/ Close(m)
    \/ ReadLogs \/ RebuildList \/ RebuildQuarantine \/ RebuildFailures
    \/ RebuildDies

Spec == Init /\ [][Next]_vars

-----------------------------------------------------------------------------
(* Properties.                                                             *)

(* An account the log calls quarantined is safe, unless a recheck failed   *)
(* it, or the step that made it unsafe is one of these: a crash before it  *)
(* was stored; a list or quarantine written back by a process that had     *)
(* read it before another process put the account there; a crash between   *)
(* the two writes of mark_failed; a rebuild.  A promotion is not among     *)
(* them: what it takes out of the quarantine it has put on the list,       *)
(* however it is cut short, and if the account is not there any more, then *)
(* somebody else's write, after the promotion's own, has taken it off.     *)
NoAccountVanishes ==
    \A a \in In("quarantined") :
        \/ a \in Safe \/ a \in audit \/ a \in lost
        \/ batch.cur = a /\ batch.pc \in {"load", "store"}
        \/ \E m \in Managers : At(m, "failing") /\ mgr[m].target = a

(* A rebuild that ended with nobody else writing leaves the files as the   *)
(* log says, whatever crashes, stale copies and earlier, half-finished     *)
(* rebuilds had made of them: every quarantined account is in quarantine   *)
(* again, and the list, which only has what the log calls exportable, is   *)
(* empty.                                                                  *)
RebuildSettles ==
    rebuild.pc = "done" /\ calm =>
        /\ quarantine = In("quarantined") \union In("audited")
        /\ list = In("exportable")
        /\ failures = In("failed")

-----------------------------------------------------------------------------
(* The inductive invariant behind the properties above.                    *)

(* How far a rebuild nobody has disturbed has come.                        *)
RebuildOnCourse ==
    calm =>
        /\ rebuild.pc \in {"list", "quarantine", "failures", "lines"}
             => rebuild.plan = log
        /\ rebuild.pc \in {"quarantine", "failures", "lines"}
             => list = In("exportable")
        /\ rebuild.pc \in {"failures", "lines"}
             => quarantine = In("quarantined") \union In("audited")
        /\ rebuild.pc = "lines" => failures = {}

IInv ==
    /\ TypeOK
    /\ batch.pc \notin {"down", "idle"} => batch.cur \in Accounts
    /\ \A m \in Managers :
          mgr[m].pc \notin {"down", "up"} => mgr[m].target \in Accounts
    /\ NoAccountVanishes
    /\ RebuildOnCourse
    /\ RebuildSettles
=============================================================================
