--------------------------- MODULE PuterRegister ---------------------------
(***************************************************************************)
(* Puter v2 registration: PuterStealthRegister.register_single() as the    *)
(* command line runs it, attempt after attempt, in one or more processes.  *)
(*                                                                         *)
(* An attempt walks the state machine of ALLOWED_TRANSITIONS, writing a    *)
(* line of puter_states.jsonl per transition, and leaves behind an audit   *)
(* record, perhaps a failure record, an entry of puter_accounts_v2.json    *)
(* and an entry of scheduler_state.json.  These files are written one      *)
(* after another, any awaited call in between may raise, and the process   *)
(* may die between any two writes.  The browser, the mailbox and the proxy *)
(* provider are choices; disk writes that the process lives to finish are  *)
(* taken to succeed.  A line of a .jsonl file may be cut by a kill, and    *)
(* read_jsonl raises on a file with such a line from then on.              *)
(***************************************************************************)
EXTENDS Naturals, Sequences, FiniteSets

CONSTANTS
    Procs,      \* processes running puter_register_v2.py
    Attempts,   \* attempt (and account) ids; drawn fresh, so each at most once
    IPs,        \* exit addresses the proxy provider can give out
    None

ASSUME NoneAssumption == None \notin Attempts /\ None \notin IPs

States == {"draft", "browser_started", "form_filled", "form_submitted",
           "email_verified", "session_established", "quarantined", "audited",
           "exportable", "failed", "skipped_phone_verification"}

(* Mutant: no way to fail once the form is submitted.                      *)
FailStrict == {"draft", "browser_started", "form_filled", "email_verified",
               "quarantined", "audited"}

(* ALLOWED_TRANSITIONS: the chain, and where an attempt may fail or be     *)
(* skipped from.                                                           *)
MayFail == {"draft", "browser_started", "form_filled", "form_submitted",
            "email_verified", "quarantined", "audited"}
MaySkip == {"browser_started", "form_filled", "email_verified"}
Allowed ==
    {<<"draft", "browser_started">>,
     <<"browser_started", "form_filled">>,
     <<"form_filled", "form_submitted">>,
     <<"form_submitted", "email_verified">>,
     <<"email_verified", "session_established">>,
     <<"session_established", "quarantined">>,
     <<"quarantined", "audited">>,
     <<"audited", "exportable">>}
    \union {<<s, "failed">> : s \in MayFail}
    \union {<<s, "skipped_phone_verification">> : s \in MaySkip}

Terminal == {"failed", "skipped_phone_verification", "exportable"}

VARIABLES
    log,        \* log[a]: the states written to puter_states.jsonl for a
    audit,      \* audit[a]: the results puter_audit.jsonl records for a
    failures,   \* failures[a]: how many lines of puter_failures.jsonl name a
    accounts,   \* puter_accounts_v2.json, as the list of account ids
    scheduled,  \* registrations of scheduler_state.json
    phoneLog,   \* addresses in phone_triggered_ips.jsonl
    torn,       \* which of the two files read_jsonl reads have a cut line
    started,    \* who began which attempt, in order (history)
    outcome,    \* how attempt a ended, if it has
    ip,         \* ip[a]: address the session of attempt a was opened with
    phoned,     \* attempts that met a phone prompt, or took one to be there
    pc,         \* control point of every process
    cur,        \* the attempt a process is working on, or None
    banned,     \* a process's in-memory copy of the blacklist
    view,       \* the account list a process has read
    caught,     \* processes inside the except clause of register_single
    heard       \* attempts whose prompt was on file when p started (history)

files == <<log, audit, failures, accounts, scheduled, phoneLog, torn>>
attempt == <<started, outcome, ip, phoned>>
local == <<pc, cur, banned, view, caught, heard>>
vars == <<files, attempt, local>>

Points == {"down", "idle", "identity", "mailbox", "form", "turnstile", "phone",
           "pause", "skip", "code", "session", "release", "store", "storing",
           "record", "handle", "finalize", "failure"}

(* "cut": killed with a phone prompt met and its address not retired.      *)
Outcomes == {"none", "running", "returned", "escaped", "dead", "cut"}

TypeOK ==
    /\ log \in [Attempts -> Seq(States)]
    /\ audit \in [Attempts -> Seq(States)]
    /\ failures \in [Attempts -> Nat]
    /\ accounts \in Seq(Attempts)
    /\ scheduled \in Seq(Attempts)
    /\ phoneLog \subseteq IPs
    /\ torn \subseteq {"states", "phones"}
    /\ started \in Seq(Procs \X Attempts)
    /\ outcome \in [Attempts -> Outcomes]
    /\ ip \in [Attempts -> IPs \union {None}]
    /\ phoned \subseteq Attempts
    /\ pc \in [Procs -> Points]
    /\ cur \in [Procs -> Attempts \union {None}]
    /\ banned \in [Procs -> SUBSET IPs]
    /\ view \in [Procs -> Seq(Attempts)]
    /\ caught \subseteq Procs
    /\ heard \in [Procs -> SUBSET Attempts]

Init ==
    /\ log = [a \in Attempts |-> << >>]
    /\ audit = [a \in Attempts |-> << >>]
    /\ failures = [a \in Attempts |-> 0]
    /\ accounts = << >>
    /\ scheduled = << >>
    /\ phoneLog = {}
    /\ torn = {}
    /\ started = << >>
    /\ outcome = [a \in Attempts |-> "none"]
    /\ ip = [a \in Attempts |-> None]
    /\ phoned = {}
    /\ pc = [p \in Procs |-> "down"]
    /\ cur = [p \in Procs |-> None]
    /\ banned = [p \in Procs |-> {}]
    /\ view = [p \in Procs |-> << >>]
    /\ caught = {}
    /\ heard = [p \in Procs |-> {}]

(* sm.current_state: a transition sets it to what it has just logged.      *)
StateOf(a) == IF log[a] = << >> THEN "draft" ELSE log[a][Len(log[a])]

Member(x, list) == \E i \in DOMAIN list : list[i] = x

Goto(p, point) == pc' = [pc EXCEPT ![p] = point]

(* StateMachine.transition: write the line, or raise ValueError, which the *)
(* handler of register_single catches unless it is the handler that asked. *)
Transition(p, to, point) ==
    IF <<StateOf(cur[p]), to>> \in Allowed
      THEN /\ log' = [log EXCEPT ![cur[p]] = Append(@, to)]
           /\ Goto(p, point)
      ELSE Goto(p, "handle") /\ UNCHANGED log

-----------------------------------------------------------------------------
(* The prompts whose address is retired: all but one whose process is yet  *)
(* to write it down, or was killed before it had.                          *)
Retired == {a \in phoned :
               /\ outcome[a] # "cut"
               /\ \A p \in Procs : cur[p] = a => pc[p] # "pause"}

(* A process starts: StickyProxyManager reads the blacklist, once, and     *)
(* async_main does not survive a cut line in it.                           *)
Start(p) ==
    /\ pc[p] = "down"
    /\ "phones" \notin torn
    /\ banned' = [banned EXCEPT ![p] = phoneLog]
    /\ heard' = [heard EXCEPT ![p] = Retired]
    /\ Goto(p, "idle")
    /\ UNCHANGED <<files, attempt, cur, view, caught>>

(* Its batch is over, or the circuit breaker has tripped.                  *)
Quit(p) ==
    /\ pc[p] = "idle"
    /\ Goto(p, "down")
    /\ UNCHANGED <<files, attempt, cur, banned, view, caught, heard>>

(* The next attempt of the batch, with a fresh account and attempt id.     *)
Begin(p) ==
    /\ pc[p] = "idle"
    /\ \E a \in Attempts :
          /\ outcome[a] = "none"
          /\ outcome' = [outcome EXCEPT ![a] = "running"]
          /\ started' = Append(started, <<p, a>>)
          /\ cur' = [cur EXCEPT ![p] = a]
    /\ Goto(p, "identity")
    /\ UNCHANGED <<files, ip, phoned, banned, view, caught, heard>>

(* acquire_session refuses an address on the blacklist; no session then.   *)
AcquireSession(p) ==
    /\ pc[p] = "identity"
    /\ \E i \in IPs :
          IF i \in banned[p]
            THEN Goto(p, "handle") /\ UNCHANGED ip
            ELSE Goto(p, "mailbox") /\ ip' = [ip EXCEPT ![cur[p]] = i]
    /\ UNCHANGED <<files, started, outcome, phoned, cur, banned, view, caught,
                   heard>>

(* The mailbox gives an address.                                           *)
StartBrowser(p) ==
    /\ pc[p] = "mailbox"
    /\ Transition(p, "browser_started", "form")
    /\ UNCHANGED <<audit, failures, accounts, scheduled, phoneLog, torn,
                   attempt, cur, banned, view, caught, heard>>

(* The browser is up and the entry behaviour is over.                      *)
FillForm(p) ==
    /\ pc[p] = "form"
    /\ Transition(p, "form_filled", "turnstile")
    /\ UNCHANGED <<audit, failures, accounts, scheduled, phoneLog, torn,
                   attempt, cur, banned, view, caught, heard>>

(* The challenge is solved, or not within its three attempts.              *)
Submit(p) ==
    /\ pc[p] = "turnstile"
    /\ \/ Transition(p, "form_submitted", "phone")
       \/ Transition(p, "failed", "finalize")
    /\ UNCHANGED <<audit, failures, accounts, scheduled, phoneLog, torn,
                   attempt, cur, banned, view, caught, heard>>

(* A prompt is answered by the soft landing.                               *)
DetectPhone(p) ==
    /\ pc[p] = "phone"
    /\ \/ Goto(p, "code") /\ UNCHANGED phoned
       \/ Goto(p, "pause") /\ phoned' = phoned \union {cur[p]}
    /\ UNCHANGED <<files, started, outcome, ip, cur, banned, view, caught,
                   heard>>

(* Mutant: only the running process remembers the address.                 *)
MarkUnlogged(p) ==
    /\ pc[p] = "pause"
    /\ banned' = [banned EXCEPT ![p] = @ \union {ip[cur[p]]}]
    /\ Goto(p, "skip")
    /\ UNCHANGED <<files, attempt, cur, view, caught, heard>>

(* _soft_landing_skip browses on for half a minute or more, and only then  *)
(* blacklists the address, in memory and on disk.                          *)
MarkPhoneTriggered(p) ==
    /\ pc[p] = "pause"
    /\ banned' = [banned EXCEPT ![p] = @ \union {ip[cur[p]]}]
    /\ phoneLog' = phoneLog \union {ip[cur[p]]}
    /\ Goto(p, "skip")
    /\ UNCHANGED <<log, audit, failures, accounts, scheduled, torn, attempt,
                   cur, view, caught, heard>>

(* And transition_safe, which gives up where the table has no such         *)
(* transition.                                                             *)
SoftLandingSkip(p) ==
    /\ pc[p] = "skip"
    /\ LET skipped == "skipped_phone_verification"
       IN log' = IF <<StateOf(cur[p]), skipped>> \in Allowed
                 THEN [log EXCEPT ![cur[p]] = Append(@, skipped)] ELSE log
    /\ Goto(p, "finalize")
    /\ UNCHANGED <<audit, failures, accounts, scheduled, phoneLog, torn,
                   attempt, cur, banned, view, caught, heard>>

(* The code arrives and is entered, or the mailbox gives up waiting.       *)
VerifyEmail(p) ==
    /\ pc[p] = "code"
    /\ \/ Transition(p, "email_verified", "session")
       \/ Transition(p, "failed", "finalize")
    /\ UNCHANGED <<audit, failures, accounts, scheduled, phoneLog, torn,
                   attempt, cur, banned, view, caught, heard>>

(* _verify_session answers; it swallows its own exceptions.                *)
VerifySession(p) ==
    /\ pc[p] = "session"
    /\ \/ Transition(p, "session_established", "release")
       \/ Transition(p, "failed", "finalize")
    /\ UNCHANGED <<audit, failures, accounts, scheduled, phoneLog, torn,
                   attempt, cur, banned, view, caught, heard>>

(* Mutant: the account is stored before the transition is logged.          *)
QuarantineLate(p) ==
    /\ pc[p] = "release"
    /\ Goto(p, "store")
    /\ UNCHANGED <<files, attempt, cur, banned, view, caught, heard>>

(* Browser closed, check_mid done, session released.                       *)
EnterQuarantine(p) ==
    /\ pc[p] = "release"
    /\ Transition(p, "quarantined", "store")
    /\ UNCHANGED <<audit, failures, accounts, scheduled, phoneLog, torn,
                   attempt, cur, banned, view, caught, heard>>

(* Mutant: a missing file reads as nothing at all.                         *)
LoadMissing(p) ==
    /\ pc[p] = "store"
    /\ view' = [view EXCEPT ![p] = IF accounts = << >> THEN None ELSE accounts]
    /\ Goto(p, "storing")
    /\ UNCHANGED <<files, attempt, cur, banned, caught, heard>>

(* _store_account: load_json, then atomic_write_json, with no lock.        *)
LoadAccounts(p) ==
    /\ pc[p] = "store"
    /\ view' = [view EXCEPT ![p] = accounts]
    /\ Goto(p, "storing")
    /\ UNCHANGED <<files, attempt, cur, banned, caught, heard>>

(* Mutant: the list is written back as it was read.                        *)
StoreNothing(p) ==
    /\ pc[p] = "storing"
    /\ accounts' = view[p]
    /\ view' = [view EXCEPT ![p] = << >>]
    /\ Goto(p, "record")
    /\ UNCHANGED <<log, audit, failures, scheduled, phoneLog, torn, attempt,
                   cur, banned, caught, heard>>

StoreAccount(p) ==
    /\ pc[p] = "storing"
    /\ accounts' = Append(view[p], cur[p])
    /\ view' = [view EXCEPT ![p] = << >>]
    /\ Goto(p, "record")
    /\ UNCHANGED <<log, audit, failures, scheduled, phoneLog, torn, attempt,
                   cur, banned, caught, heard>>

(* scheduler.record_registration, under its FileLock.                      *)
RecordRegistration(p) ==
    /\ pc[p] = "record"
    /\ scheduled' = Append(scheduled, cur[p])
    /\ Goto(p, "finalize")
    /\ UNCHANGED <<log, audit, failures, accounts, phoneLog, torn, attempt,
                   cur, banned, view, caught, heard>>

-----------------------------------------------------------------------------
(* Exceptions.                                                             *)

(* An awaited call raises; at "record" it is the FileLock that times out.  *)
(* A message that speaks of phone verification, whoever it comes from, is  *)
(* taken for a phone prompt if there is a proxy session, and the soft      *)
(* landing follows inside the except clause.                               *)
Raise(p) ==
    /\ pc[p] \in {"identity", "mailbox", "form", "turnstile", "code", "release",
                  "record"}
    /\ \/ Goto(p, "handle") /\ UNCHANGED <<phoned, caught>>
       \/ /\ pc[p] \notin {"identity", "record"}
          /\ Goto(p, "pause")
          /\ phoned' = phoned \union {cur[p]}
          /\ caught' = caught \union {p}
    /\ UNCHANGED <<files, started, outcome, ip, cur, banned, view, heard>>

(* The process is gone with attempt a unfinished, or finished with it.     *)
Leave(p, how, point) ==
    /\ outcome' = [outcome EXCEPT ![cur[p]] = how]
    /\ cur' = [cur EXCEPT ![p] = None]
    /\ view' = [view EXCEPT ![p] = << >>]
    /\ caught' = caught \ {p}
    /\ Goto(p, point)

(* The except clause.  From a state with no transition to "failed", the    *)
(* handler's own transition raises, nothing catches that, and the batch    *)
(* ends with no audit record.                                              *)
Handle(p) ==
    /\ pc[p] = "handle"
    /\ LET state == StateOf(cur[p])
       IN \/ /\ state \in Terminal
             /\ Goto(p, "finalize")
             /\ caught' = caught \union {p}
             /\ UNCHANGED <<log, outcome, cur, view>>
          \/ /\ state \notin Terminal
             /\ <<state, "failed">> \in Allowed
             /\ log' = [log EXCEPT ![cur[p]] = Append(@, "failed")]
             /\ Goto(p, "finalize")
             /\ caught' = caught \union {p}
             /\ UNCHANGED <<outcome, cur, view>>
          \/ /\ state \notin Terminal
             /\ <<state, "failed">> \notin Allowed
             /\ Leave(p, "escaped", "down")
             /\ UNCHANGED log
    /\ UNCHANGED <<audit, failures, accounts, scheduled, phoneLog, torn,
                   started, ip, phoned, banned, heard>>

-----------------------------------------------------------------------------
(* _finalize.                                                              *)

(* It reads the whole state log before it writes anything.  A cut line,    *)
(* whoever left it, raises: into the except clause the first time, and     *)
(* out of register_single from there.                                      *)
ReadLog(p) ==
    /\ pc[p] = "finalize"
    /\ "states" \in torn
    /\ \/ /\ p \notin caught
          /\ Goto(p, "handle")
          /\ UNCHANGED <<outcome, cur, view, caught>>
       \/ p \in caught /\ Leave(p, "escaped", "down")
    /\ UNCHANGED <<files, started, ip, phoned, banned, heard>>

(* Mutant: the handler runs after the audit record is written.             *)
AuditThenHandle(p) ==
    /\ pc[p] = "finalize"
    /\ "states" \notin torn
    /\ audit' = [audit EXCEPT ![cur[p]] = Append(@, StateOf(cur[p]))]
    /\ Goto(p, "handle")
    /\ UNCHANGED <<log, failures, accounts, scheduled, phoneLog, torn, attempt,
                   cur, banned, view, caught, heard>>

(* Mutant: no failure record.                                              *)
AuditOnly(p) ==
    /\ pc[p] = "finalize"
    /\ "states" \notin torn
    /\ audit' = [audit EXCEPT ![cur[p]] = Append(@, StateOf(cur[p]))]
    /\ Leave(p, "returned", "idle")
    /\ UNCHANGED <<log, failures, accounts, scheduled, phoneLog, torn, started,
                   ip, phoned, banned, heard>>

(* The audit record takes its result from the state machine.               *)
AppendAudit(p) ==
    /\ pc[p] = "finalize"
    /\ "states" \notin torn
    /\ audit' = [audit EXCEPT ![cur[p]] = Append(@, StateOf(cur[p]))]
    /\ IF StateOf(cur[p]) = "failed"
         THEN Goto(p, "failure") /\ UNCHANGED <<outcome, cur, view, caught>>
         ELSE Leave(p, "returned", "idle")
    /\ UNCHANGED <<log, failures, accounts, scheduled, phoneLog, torn, started,
                   ip, phoned, banned, heard>>

AppendFailure(p) ==
    /\ pc[p] = "failure"
    /\ failures' = [failures EXCEPT ![cur[p]] = @ + 1]
    /\ Leave(p, "returned", "idle")
    /\ UNCHANGED <<log, audit, accounts, scheduled, phoneLog, torn, started,
                   ip, phoned, banned, heard>>

(* What a process may be writing a line of: its next state, if the table   *)
(* has it, or the blacklist.                                               *)
Writing(p) ==
    {file \in {"states", "phones"} :
        \/ /\ file = "states"
           /\ \/ pc[p] \in {"mailbox", "form", "turnstile", "code", "session",
                            "release"}
              \/ pc[p] = "handle" /\ StateOf(cur[p]) \in MayFail
              \/ pc[p] = "skip" /\ StateOf(cur[p]) \in MaySkip
        \/ file = "phones" /\ pc[p] = "pause"}

(* The process dies, or is interrupted: except Exception does not catch    *)
(* KeyboardInterrupt or CancelledError.                                    *)
Crash(p) ==
    /\ pc[p] \notin {"down", "idle"}
    /\ Leave(p, IF pc[p] = "pause" THEN "cut" ELSE "dead", "down")
    /\ \E cut \in SUBSET Writing(p) : torn' = torn \union cut
    /\ UNCHANGED <<log, audit, failures, accounts, scheduled, phoneLog,
                   started, ip, phoned, banned, heard>>

Step(p) ==
    \/ Start(p) \/ Quit(p) \/ Begin(p)
    \/ AcquireSession(p) \/ StartBrowser(p) \/ FillForm(p) \/ Submit(p)
    \/ DetectPhone(p) \/ MarkPhoneTriggered(p) \/ SoftLandingSkip(p)
    \/ VerifyEmail(p) \/ VerifySession(p) \/ EnterQuarantine(p)
    \/ LoadAccounts(p) \/ StoreAccount(p) \/ RecordRegistration(p)
    \/ Raise(p) \/ Handle(p)
    \/ ReadLog(p) \/ AppendAudit(p) \/ AppendFailure(p)
    \/ Crash(p)

Next == \E p \in Procs : Step(p)

Spec == Init /\ [][Next]_vars

-----------------------------------------------------------------------------
(* Properties.                                                             *)

(* The audit trail tells how each attempt ended: at most one record per    *)
(* attempt, with the last state the log has for it; one record once        *)
(* register_single has returned, and then a failure record exactly if the  *)
(* attempt failed.  Log, audit and failure files are written in that order *)
(* and the process may die in between (_finalize).                         *)
Told(a) ==
    /\ Len(audit[a]) <= 1
    /\ audit[a] # << >> => audit[a][1] = StateOf(a)
    /\ failures[a] > 0 =>
          failures[a] = 1 /\ audit[a] # << >> /\ StateOf(a) = "failed"
    /\ outcome[a] = "returned" =>
          /\ audit[a] # << >>
          /\ StateOf(a) = "failed" => failures[a] = 1
AuditTellsTheEnd == \A a \in Attempts : Told(a)

(* Whatever is on the account list or counts as a registration was         *)
(* quarantined before, and is entered once: "store account (after state    *)
(* transition so crash can't leave orphan)", puter_register_v2.py:513.     *)
FiledWereQuarantined ==
    \A list \in {accounts, scheduled} :
        /\ \A i \in DOMAIN list : Member("quarantined", log[list[i]])
        /\ \A i, j \in DOMAIN list : list[i] = list[j] => i = j

(* An exception leaves register_single, taking the rest of the batch with  *)
(* it, for one of two reasons: the attempt was in "session_established",   *)
(* the one state the handler's own transition is not in the table for, or  *)
(* the state log has a line a kill has cut, so that _finalize raises again *)
(* in the except clause.  Such an attempt has no audit and no failure      *)
(* record, and is not left standing as quarantined.                        *)
Explained(a) ==
    outcome[a] = "escaped" =>
        /\ StateOf(a) = "session_established" \/ "states" \in torn
        /\ audit[a] = << >> /\ failures[a] = 0
        /\ StateOf(a) # "quarantined"
EscapesExplained == \A a \in Attempts : Explained(a)

(* An attempt that returned as quarantined has been counted by the         *)
(* scheduler, however many processes run beside, and is on the account     *)
(* list, as long as every attempt so far is of one process: the scheduler  *)
(* writes under its lock, _store_account reads the list and writes it back *)
(* without one.                                                            *)
OneProcess == \A i, j \in DOMAIN started : started[i][1] = started[j][1]
ReturnedAreFiled ==
    \A a \in Attempts :
        outcome[a] = "returned" /\ StateOf(a) = "quarantined" =>
            /\ Member(a, scheduled)
            /\ OneProcess => Member(a, accounts)

(* No attempt is given an address that its process met a phone prompt on   *)
(* in an earlier attempt, across crashes and restarts and whatever the     *)
(* other processes do, nor one that any process had met a prompt on and    *)
(* retired when its own process started ("Phone-triggered IPs are          *)
(* blacklisted for the rest of the day", src/sticky_proxy.py:8).  What is  *)
(* lost is a prompt whose process is killed in the pause before the        *)
(* blacklist is written; what another process meets later is not heard of  *)
(* until the next start.                                                   *)
PhoneIPsRetired ==
    /\ \A i, j \in DOMAIN started :
          /\ i < j /\ started[i][1] = started[j][1]
          /\ started[i][2] \in phoned /\ outcome[started[i][2]] # "cut"
          => ip[started[j][2]] # ip[started[i][2]]
    /\ \A p \in Procs : cur[p] # None =>
          \A a \in heard[p] : ip[cur[p]] # ip[a]

(* The files keep the promise of the ledger.                               *)
Verdict(a) == IF audit[a] = << >> THEN "pending" ELSE audit[a][Len(audit[a])]
Ledger == INSTANCE PuterLedger WITH
              stage <- [a \in Attempts |-> StateOf(a)],
              verdict <- [a \in Attempts |-> Verdict(a)]
LedgerKept == Ledger!LedgerSpec

(* What README.md says of phone prompts: the attempt is skipped, and ends  *)
(* in the terminal state skipped_phone_verification; here of prompts that  *)
(* follow the submitted form.                                              *)
PhoneSkipsRecorded ==
    \A a \in phoned :
        outcome[a] = "returned" /\ Member("form_submitted", log[a]) =>
            StateOf(a) = "skipped_phone_verification"

-----------------------------------------------------------------------------
(* The inductive invariant behind the properties above.                    *)

(* The state of the attempt in hand at each control point.                 *)
StateAt(point) ==
    CASE point \in {"identity", "mailbox"} -> {"draft"}
      [] point = "form" -> {"browser_started"}
      [] point = "turnstile" -> {"form_filled"}
      [] point \in {"phone", "code"} -> {"form_submitted"}
      [] point = "session" -> {"email_verified"}
      [] point = "release" -> {"session_established"}
      [] point \in {"store", "storing", "record"} -> {"quarantined"}
      [] point \in {"pause", "skip"} ->
            {"draft", "browser_started", "form_filled", "form_submitted",
             "session_established"}
      [] point = "failure" -> {"failed"}
      [] OTHER -> States

Sessionless == {"identity", "handle", "finalize", "failure"}

(* Where the except clause may be at work, beyond its first test.          *)
Excepted == {"pause", "skip", "finalize", "failure"}

(* A process that is at work has an attempt in hand, whose audit record is *)
(* written last; the except clause never finalizes it as quarantined.      *)
Holds(p) ==
    IF pc[p] \in {"down", "idle"} THEN cur[p] = None /\ p \notin caught
    ELSE /\ cur[p] \in Attempts
         /\ outcome[cur[p]] = "running"
         /\ StateOf(cur[p]) \in StateAt(pc[p])
         /\ failures[cur[p]] = 0
         /\ pc[p] \notin Sessionless => ip[cur[p]] \in IPs
         /\ audit[cur[p]] = << >> <=> pc[p] # "failure"
         /\ p \in caught => pc[p] \in Excepted
         /\ p \in caught /\ pc[p] = "finalize" =>
                StateOf(cur[p]) # "quarantined"

(* An attempt is in at most one hand; not begun, it has left no trace.     *)
ProcessInv ==
    /\ \A p \in Procs : Holds(p)
    /\ \A p, q \in Procs : cur[p] = cur[q] /\ cur[p] # None => p = q

Untouched(a) ==
    outcome[a] = "none" =>
        log[a] = << >> /\ audit[a] = << >> /\ failures[a] = 0

(* Control points after which the account is on the list, and after which  *)
(* the registration is counted.                                            *)
AfterStore == {"record", "pause", "skip", "handle", "finalize", "failure"}
AfterRecord == AfterStore \ {"record"}

(* A list of accounts that were quarantined, each once, with no attempt on *)
(* it that has yet to be entered.                                          *)
FiledInv(list, after) ==
    /\ \A i \in DOMAIN list :
          /\ Member("quarantined", log[list[i]])
          /\ \A p \in Procs : list[i] = cur[p] => pc[p] \in after
    /\ \A i, j \in DOMAIN list : list[i] = list[j] => i = j

ListInv ==
    /\ FiledInv(accounts, AfterStore)
    /\ FiledInv(scheduled, AfterRecord)
    /\ \A p \in Procs : FiledInv(view[p], AfterStore)

IInv ==
    /\ TypeOK
    /\ ProcessInv
    /\ \A a \in Attempts : Untouched(a)
    /\ AuditTellsTheEnd
    /\ EscapesExplained
    /\ ListInv

(* And for the two properties about what came before.  An attempt is begun *)
(* once, and the one in hand is its process's latest.                      *)
HistoryInv ==
    /\ \A i, j \in DOMAIN started : started[i][2] = started[j][2] => i = j
    /\ \A i \in DOMAIN started : outcome[started[i][2]] # "none"
    /\ \A p \in Procs : cur[p] # None =>
          \E i \in DOMAIN started :
              /\ started[i] = <<p, cur[p]>>
              /\ \A j \in DOMAIN started : started[j][1] = p => j <= i

(* A retired address is on disk; a process that is up knows those it read  *)
(* at its start, and those it has retired itself since.                    *)
PhoneInv ==
    /\ \A a \in Attempts : outcome[a] = "none" => ip[a] = None
    /\ \A a \in phoned : ip[a] \in IPs
    /\ \A a \in Retired : ip[a] \in phoneLog
    /\ \A p \in Procs : pc[p] = "identity" => ip[cur[p]] = None
    /\ \A p \in Procs : pc[p] # "down" =>
          /\ \A a \in heard[p] : a \in phoned /\ ip[a] \in banned[p]
          /\ \A i \in DOMAIN started :
                started[i][1] = p /\ started[i][2] \in Retired =>
                    ip[started[i][2]] \in banned[p]
    /\ PhoneIPsRetired

(* The way to a "quarantined" audit record goes through the scheduler and, *)
(* when nobody else writes the list, through the account list.             *)
Entered(p) ==
    pc[p] = "finalize" /\ StateOf(cur[p]) = "quarantined" =>
        Member(cur[p], scheduled)

Listed(p) ==
    /\ pc[p] = "storing" => view[p] = accounts
    /\ pc[p] = "record" => Member(cur[p], accounts)
    /\ pc[p] = "finalize" /\ StateOf(cur[p]) = "quarantined" =>
          Member(cur[p], accounts)

ReturnInv ==
    /\ \A p \in Procs : Entered(p) /\ (OneProcess => Listed(p))
    /\ ReturnedAreFiled
=============================================================================
