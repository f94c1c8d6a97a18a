--------------------------- MODULE OllamaRateLimit ---------------------------
(***************************************************************************)
(* The rate limit of ollama_register.py: .ollama-rate-limit.json holds the *)
(* times of the attempts made through each proxy identity.  A registration *)
(* is checked against them in one critical section and recorded in         *)
(* another; each reads the clock before it waits for the FileLock.  The    *)
(* file is replaced as a whole (os.replace), so it is never found torn.    *)
(*                                                                         *)
(* How long cli() sleeps between two registrations is its caller's choice, *)
(* so a process may come back at any time.                                 *)
(***************************************************************************)
EXTENDS Naturals, FiniteSets

CONSTANTS
    Procs,          \* processes running ollama_register.py
    Identities,     \* proxy identities: exit addresses, or "direct"
    Day,            \* 86400 seconds
    Interval,       \* OLLAMA_MIN_INTERVAL_MINUTES
    MaxPerDay,      \* OLLAMA_MAX_PER_DAY
    RepeatCap,      \* the limit once there is an attempt, 5 in the code
    LockWait,       \* assumed: nobody waits longer than this for the lock
    Horizon         \* bound: the clock stops here

ASSUME LimitsAssumption ==
    /\ {Day, Interval, MaxPerDay, RepeatCap, LockWait, Horizon} \subseteq Nat
    /\ MaxPerDay > 0 /\ RepeatCap > 0
    /\ 2 * Interval <= Day
    /\ IsFiniteSet(Procs)

VARIABLES
    now,        \* the clock
    attempts,   \* attempts[i]: entries of the file under identity i
    recorded,   \* attempts recorded so far (history: it numbers the entries)
    pc,         \* control point of every process
    identity,   \* the identity a process goes through
    stamp       \* the time a process has read

vars == <<now, attempts, recorded, pc, identity, stamp>>

(* An entry: its time, its place in the order of recording, which is that  *)
(* of the list, and who wrote it (history).                                *)
Entry == [n : Nat, at : Nat, by : Procs]

Points == {"idle", "checking", "checked", "recording", "registering"}

TypeOK ==
    /\ now \in Nat
    /\ attempts \in [Identities -> SUBSET Entry]
    /\ recorded \in Nat
    /\ pc \in [Procs -> Points]
    /\ identity \in [Procs -> Identities]
    /\ stamp \in [Procs -> Nat]

Init ==
    /\ now = 0
    /\ attempts = [i \in Identities |-> {}]
    /\ recorded = 0
    /\ pc = [p \in Procs |-> "idle"]
    /\ identity \in [Procs -> Identities]
    /\ stamp = [p \in Procs |-> 0]

(* Entries of identity i that are less than a day old at time t.           *)
Recent(i, t) == {e \in attempts[i] : t < e.at + Day}

IsLast(e, entries) == \A f \in entries : f.n <= e.n

Cap == IF MaxPerDay < RepeatCap THEN MaxPerDay ELSE RepeatCap

(* Mutant: one attempt too many.                                           *)
AdmitsOneMore(i, t) ==
    LET recent == Recent(i, t)
    IN recent # {} =>
          /\ Cardinality(recent) <= Cap
          /\ \E e \in recent : IsLast(e, recent) /\ t >= e.at + 2 * Interval

(* Mutant: the interval is counted from the first attempt of the day.      *)
AdmitsSinceFirst(i, t) ==
    LET recent == Recent(i, t)
    IN recent # {} =>
          /\ Cardinality(recent) < Cap
          /\ \E e \in recent : t >= e.at + 2 * Interval

(* _enforce_rate_limits at time t: one attempt within the day lowers the   *)
(* limit and doubles the interval.                                         *)
Admits(i, t) ==
    LET recent == Recent(i, t)
    IN recent # {} =>
          /\ Cardinality(recent) < Cap
          /\ \E e \in recent : IsLast(e, recent) /\ t >= e.at + 2 * Interval

-----------------------------------------------------------------------------

(* Time passes, though not over the head of a process at the lock.         *)
Tick ==
    /\ now < Horizon
    /\ \A p \in Procs :
          pc[p] \in {"checking", "recording"} => now < stamp[p] + LockWait
    /\ now' = now + 1
    /\ UNCHANGED <<attempts, recorded, pc, identity, stamp>>

(* register_single has its proxy session; the sticky proxy may give the    *)
(* same address or another one.  time.time() comes before the lock.        *)
BeginCheck(p) ==
    /\ pc[p] = "idle"
    /\ \E i \in Identities : identity' = [identity EXCEPT ![p] = i]
    /\ stamp' = [stamp EXCEPT ![p] = now]
    /\ pc' = [pc EXCEPT ![p] = "checking"]
    /\ UNCHANGED <<now, attempts, recorded>>

(* Under the lock; a refusal raises and ends the batch.                    *)
Check(p) ==
    /\ pc[p] = "checking"
    /\ pc' = [pc EXCEPT ![p] =
           IF Admits(identity[p], stamp[p]) THEN "checked" ELSE "idle"]
    /\ UNCHANGED <<now, attempts, recorded, identity, stamp>>

BeginRecord(p) ==
    /\ pc[p] = "checked"
    /\ stamp' = [stamp EXCEPT ![p] = now]
    /\ pc' = [pc EXCEPT ![p] = "recording"]
    /\ UNCHANGED <<now, attempts, recorded, identity>>

(* _record_attempt under the lock: drop what is a day old, add the stamp   *)
(* at the end.                                                             *)
Record(p) ==
    /\ pc[p] = "recording"
    /\ recorded' = recorded + 1
    /\ attempts' = [attempts EXCEPT ![identity[p]] =
           Recent(identity[p], stamp[p])
             \union {[n |-> recorded', at |-> stamp[p], by |-> p]}]
    /\ pc' = [pc EXCEPT ![p] = "registering"]
    /\ UNCHANGED <<now, identity, stamp>>

(* The registration is over, or any step of it has raised, or the process  *)
(* dies, wherever it is: the attempt counts if it was recorded.            *)
End(p) ==
    /\ pc[p] # "idle"
    /\ pc' = [pc EXCEPT ![p] = "idle"]
    /\ UNCHANGED <<now, attempts, recorded, identity, stamp>>

Next ==
    \/ Tick
    \/ \E p \in Procs :
          BeginCheck(p) \/ Check(p) \/ BeginRecord(p) \/ Record(p) \/ End(p)

Spec == Init /\ [][Next]_vars

-----------------------------------------------------------------------------
(* Properties.                                                             *)

(* Within any day an identity is used for no more attempts than the limit, *)
(* but for one more per further process, although check and record are two *)
(* critical sections: each process can have passed the check at most once  *)
(* without being recorded.  With one process it is the limit itself, which *)
(* is RepeatCap for every MaxPerDay above it (src/ollama_register.py:443). *)
AttemptsBounded ==
    \A i \in Identities :
        Cardinality(Recent(i, now)) <= Cap + Cardinality(Procs) - 1

(* Two attempts of one process through the same identity are twice the     *)
(* interval apart, less the time a process may wait for the lock: the last *)
(* entry the check looks at can be another process's, which read its clock *)
(* earlier and wrote later.                                                *)
SpacingKept ==
    \A i \in Identities : \A e, f \in attempts[i] :
        e.by = f.by /\ e.n < f.n => f.at + LockWait >= e.at + 2 * Interval

-----------------------------------------------------------------------------
(* The inductive invariant behind the properties above.                    *)

(* Processes that have passed the check of an identity and are not yet     *)
(* recorded there.                                                         *)
Passed(i) ==
    {p \in Procs : pc[p] \in {"checked", "recording"} /\ identity[p] = i}

BoundInv ==
    \A i \in Identities :
        Cardinality(Recent(i, now)) + Cardinality(Passed(i))
            <= Cap + Cardinality(Procs) - 1

(* The list is in the order of time but for the wait at the lock.          *)
OrderInv(i) ==
    /\ IsFiniteSet(attempts[i])
    /\ \A e \in attempts[i] : e.n <= recorded /\ e.at <= now
    /\ \A e, f \in attempts[i] : e.n < f.n => e.at <= f.at + LockWait
    /\ \A e, f \in attempts[i] : e.n = f.n => e = f

(* A time read is not older than the wait; a process that has passed the   *)
(* check is far enough from its own entries.                               *)
ProcessInv(p) ==
    /\ stamp[p] <= now
    /\ pc[p] \in {"checking", "recording"} => now <= stamp[p] + LockWait
    /\ pc[p] \in {"checked", "recording"} =>
          \A e \in attempts[identity[p]] :
              e.by = p => stamp[p] + LockWait >= e.at + 2 * Interval

IInv ==
    /\ TypeOK
    /\ BoundInv
    /\ \A i \in Identities : OrderInv(i)
    /\ \A p \in Procs : ProcessInv(p)
    /\ SpacingKept
=============================================================================
