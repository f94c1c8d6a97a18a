--------------------------- MODULE CircuitBreaker ---------------------------
(***************************************************************************)
(* The circuit breaker of puter_register_v2.py and the batch loop that     *)
(* obeys it.  Each process reads circuit_breaker.json once, when it starts,*)
(* decides on the copy it has in memory, and writes that copy over the     *)
(* file after every result, without a lock; --circuit-breaker-reset is a   *)
(* process of its own.  The file is replaced as a whole.                   *)
(*                                                                         *)
(* register_single() itself only reports some of the categories; the       *)
(* breaker is modelled for every category it has a rule for.               *)
(***************************************************************************)
EXTENDS Integers, Sequences, FiniteSets

CONSTANTS
    Procs,              \* processes running puter_register_v2.py
    Categories,         \* error categories a result may have
    SuspensionLimit,    \* 3
    MailLimit,          \* 5
    CodeLimit,          \* 3
    WindowLimit,        \* 5
    Hour,               \* the length of the 401/403 window
    Day,                \* how long a rate limit keeps the breaker tripped
    Horizon,            \* bound: the clock stops here
    MaxResults          \* bound: results recorded since the last reset

(* "email_verification_timeout" counts for both the mail and the code      *)
(* counter, and "account_suspended" for both suspensions and the window.   *)
Suspensions == {"account_suspended", "suspended_during_quarantine"}
MailFailures == {"email_verification_timeout"}
CodeTimeouts == {"email_verification_timeout", "verification_code_expired"}
Refusals == {"http_401", "http_403", "account_suspended"}

ASSUME BreakerAssumption ==
    /\ {SuspensionLimit, MailLimit, CodeLimit, WindowLimit} \subseteq Nat \ {0}
    /\ CodeLimit < MailLimit
    /\ {Hour, Day, Horizon, MaxResults} \subseteq Nat

VARIABLES
    now,    \* the clock
    file,   \* circuit_breaker.json; a missing file reads as Fresh
    mem,    \* mem[p]: the copy of process p
    pc,     \* "down", at the "gate" of the loop, or at "work" on an attempt
    stale   \* processes that were running when another one tripped (history)

vars == <<now, file, mem, pc, stale>>

(* The state of a breaker.  hist is not in the file: it is the list of the *)
(* results that have led to the state, with their times (history).  An     *)
(* element of window is the time of a result and its place in hist.        *)
Reasons == {"none", "suspensions", "mail", "code", "window", "rate"}
Result == [category : Categories, at : Nat]
Breaker == [tripped : BOOLEAN, reason : Reasons, trip : Nat, limited : BOOLEAN,
            suspensions : Nat, mail : Nat, code : Nat,
            window : SUBSET [n : Nat, at : Nat], hist : Seq(Result)]

Fresh == [tripped |-> FALSE, reason |-> "none", trip |-> 0, limited |-> FALSE,
          suspensions |-> 0, mail |-> 0, code |-> 0, window |-> {},
          hist |-> << >>]

TypeOK ==
    /\ now \in Nat
    /\ file \in Breaker
    /\ mem \in [Procs -> Breaker]
    /\ pc \in [Procs -> {"down", "gate", "work"}]
    /\ stale \subseteq Procs

Init ==
    /\ now = 0
    /\ file = Fresh
    /\ mem = [p \in Procs |-> Fresh]
    /\ pc = [p \in Procs |-> "down"]
    /\ stale = {}

(* Mutant: another kind of result leaves the counter where it is.          *)
StreakKept(n, hit) == IF hit THEN n + 1 ELSE n

(* A counter of consecutive results of a kind.                             *)
Streak(n, hit) == IF hit THEN n + 1 ELSE 0

(* _trip: the time is taken, and the state saved by the caller's action.   *)
Trip(s, reason) == [s EXCEPT !.tripped = TRUE, !.reason = reason, !.trip = now]

(* The window of the last hour with the result at place n added.           *)
Slide(window, n) == {w \in window \union {[n |-> n, at |-> now]} : now < w.at + Hour}

(* record_result: each rule updates its own counter and returns if it      *)
(* trips, so that the rules below it do not see the result.                *)
RecordResult(s, c) ==
    LET n == Len(s.hist) + 1
        s1 == [s EXCEPT !.hist = Append(@, [category |-> c, at |-> now]),
                        !.suspensions = Streak(@, c \in Suspensions)]
        s2 == [s1 EXCEPT !.mail = Streak(@, c \in MailFailures)]
        s3 == [s2 EXCEPT !.code = Streak(@, c \in CodeTimeouts)]
        s4 == IF c \in Refusals THEN [s3 EXCEPT !.window = Slide(@, n)] ELSE s3
    IN IF s1.suspensions >= SuspensionLimit THEN Trip(s1, "suspensions")
       ELSE IF s2.mail >= MailLimit THEN Trip(s2, "mail")
       ELSE IF s3.code >= CodeLimit THEN Trip(s3, "code")
       ELSE IF c \in Refusals /\ Cardinality(s4.window) >= WindowLimit
            THEN Trip(s4, "window")
       ELSE IF c = "rate_limited" THEN Trip([s4 EXCEPT !.limited = TRUE], "rate")
       ELSE s4

(* is_tripped looks whether a rate limit is more than a day old, and then  *)
(* clears both flags.                                                      *)
Expired(s) == s.limited /\ now > s.trip + Day
Cleared(s) == [s EXCEPT !.limited = FALSE, !.tripped = FALSE]

-----------------------------------------------------------------------------

Tick ==
    /\ now < Horizon
    /\ now' = now + 1
    /\ UNCHANGED <<file, mem, pc, stale>>

(* Mutant: the file is not loaded.                                         *)
StartFresh(p) ==
    /\ pc[p] = "down"
    /\ mem' = [mem EXCEPT ![p] = Fresh]
    /\ stale' = stale \ {p}
    /\ pc' = [pc EXCEPT ![p] = "gate"]
    /\ UNCHANGED <<now, file>>

(* CircuitBreaker is created and loads the file.                           *)
Start(p) ==
    /\ pc[p] = "down"
    /\ mem' = [mem EXCEPT ![p] = file]
    /\ stale' = stale \ {p}
    /\ pc' = [pc EXCEPT ![p] = "gate"]
    /\ UNCHANGED <<now, file>>

(* The check before the batch and before each registration: an expired     *)
(* rate limit is cleared, in memory and on file; a tripped breaker ends    *)
(* the process.                                                            *)
Gate(p) ==
    /\ pc[p] = "gate"
    /\ IF Expired(mem[p])
         THEN /\ mem' = [mem EXCEPT ![p] = Cleared(@)]
              /\ file' = mem'[p]
         ELSE UNCHANGED <<mem, file>>
    /\ pc' = [pc EXCEPT ![p] = IF mem'[p].tripped THEN "down" ELSE "work"]
    /\ UNCHANGED <<now, stale>>

(* register_single() returns and its result is recorded and saved.         *)
Record(p) ==
    /\ pc[p] = "work"
    /\ Len(mem[p].hist) < MaxResults
    /\ \E c \in Categories : mem' = [mem EXCEPT ![p] = RecordResult(@, c)]
    /\ file' = mem'[p]
    /\ stale' = IF file'.tripped THEN {q \in Procs : pc[q] # "down"} \ {p} ELSE stale
    /\ pc' = [pc EXCEPT ![p] = "gate"]
    /\ UNCHANGED now

(* The batch is over, register_single() raises, or the process dies: what  *)
(* has not been recorded is not counted.                                   *)
End(p) ==
    /\ pc[p] # "down"
    /\ pc' = [pc EXCEPT ![p] = "down"]
    /\ mem' = [mem EXCEPT ![p] = Fresh]
    /\ UNCHANGED <<now, file, stale>>

(* --circuit-breaker-reset, in a process that ends with it.                *)
Reset ==
    /\ file' = Fresh
    /\ UNCHANGED <<now, mem, pc, stale>>

Next ==
    \/ Tick
    \/ Reset
    \/ \E p \in Procs : Start(p) \/ Gate(p) \/ Record(p) \/ End(p)

Spec == Init /\ [][Next]_vars

-----------------------------------------------------------------------------
(* Properties.                                                             *)

(* n results of a kind at the end of a list, and not one more.             *)
EndsWith(hist, n, kind) ==
    /\ n <= Len(hist)
    /\ \A i \in DOMAIN hist : i + n > Len(hist) => hist[i].category \in kind
    /\ \A i \in DOMAIN hist : i + n = Len(hist) => hist[i].category \notin kind

(* A counter that has not tripped the breaker is the number of results of  *)
(* its kind in a row at the end.                                           *)
Counts(s) ==
    /\ EndsWith(s.hist, s.suspensions, Suspensions)
    /\ EndsWith(s.hist, s.mail, MailFailures)
    /\ EndsWith(s.hist, s.code, CodeTimeouts)
    /\ s.suspensions < SuspensionLimit /\ s.code < CodeLimit

(* The window has the refusals of the hour before the last of them, and    *)
(* perhaps older ones, fewer than the limit.                               *)
WindowCounts(s) ==
    /\ \A w \in s.window : /\ w.n \in DOMAIN s.hist /\ s.hist[w.n].at = w.at
                           /\ s.hist[w.n].category \in Refusals
    /\ \A i \in DOMAIN s.hist :
          s.hist[i].category \in Refusals /\ now < s.hist[i].at + Hour =>
              [n |-> i, at |-> s.hist[i].at] \in s.window
    /\ Cardinality(s.window) < WindowLimit

(* The breaker of every process and of the file is tripped by exactly what *)
(* record_result names: that many results of a kind in a row, or within    *)
(* the hour, or a rate limit, since the last reset, whatever restarts and  *)
(* other results came in between.  No run of mail failures ever trips it:  *)
(* each of them is a code timeout as well, whose limit is lower.           *)
Sound(s) ==
    IF ~s.tripped \/ s.reason = "rate"
    THEN Counts(s) /\ WindowCounts(s)
    ELSE \/ /\ s.reason = "suspensions"
            /\ EndsWith(s.hist, s.suspensions, Suspensions)
            /\ s.suspensions = SuspensionLimit
         \/ /\ s.reason = "code"
            /\ EndsWith(s.hist, s.code, CodeTimeouts)
            /\ s.code = CodeLimit
         \/ /\ s.reason = "window"
            /\ Cardinality(s.window) >= WindowLimit
            /\ \A w \in s.window : s.hist[w.n].category \in Refusals
                                   /\ s.trip < w.at + Hour
BreakerCounts == Sound(file) /\ \A p \in Procs : Sound(mem[p])

(* A trip on file stays there until the reset command, or until a day has  *)
(* passed over a rate limit; but a process that was running when another   *)
(* one tripped has an old copy in memory, and its next save undoes it.     *)
TripKept ==
    [][file.tripped /\ ~file'.tripped =>
          \/ file' = Fresh
          \/ file.reason = "rate" /\ now > file.trip + Day
          \/ \E p \in stale : file' = mem'[p]]_vars

-----------------------------------------------------------------------------
(* The inductive invariant behind the properties above.                    *)

(* What holds of a state besides: nothing in it is later than the clock,   *)
(* and only a rate limit is ever waited out.                               *)
Dated(s) ==
    /\ s.trip <= now
    /\ \A i \in DOMAIN s.hist : s.hist[i].at <= now
    /\ s.limited <=> s.tripped /\ s.reason = "rate"
    /\ s.mail <= s.code
    /\ IsFiniteSet(s.window)

(* A tripped file is the copy of every process that has seen the trip.     *)
SeenInv ==
    /\ \A p \in Procs : pc[p] = "work" => ~mem[p].tripped
    /\ file.tripped =>
          \A p \in Procs : pc[p] # "down" /\ p \notin stale => mem[p] = file

IInv ==
    /\ TypeOK
    /\ BreakerCounts
    /\ Dated(file) /\ \A p \in Procs : Dated(mem[p])
    /\ SeenInv
=============================================================================
