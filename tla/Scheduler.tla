----------------------------- MODULE Scheduler -----------------------------
(***************************************************************************)
(* src/scheduler.py: the limit on registrations per day and the interval   *)
(* between them, as the batches of one or more puter_register_v2.py        *)
(* processes obey them.  Each process decides on the copy of               *)
(* scheduler_state.json it has in memory, which it reads at its start and  *)
(* again, under the FileLock, when it records a registration.              *)
(*                                                                         *)
(* Time is counted in units that divide an hour and the interval.          *)
(* record_platform_error has the effect of record_registration, and no     *)
(* caller; get_daily_slots has no caller and is left out.                  *)
(***************************************************************************)
EXTENDS Integers, Sequences, FiniteSets

CONSTANTS
    Procs,          \* processes running puter_register_v2.py
    DayLength,      \* units of a UTC day
    WindowStart,    \* REG_WINDOW_START_UTC
    WindowEnd,      \* REG_WINDOW_END_UTC
    MaxPerDay,      \* MAX_PER_DAY
    MinInterval,    \* MIN_INTERVAL_MINUTES
    Horizon         \* bound: the clock stops here

ASSUME TimesAssumption ==
    /\ {DayLength, WindowStart, WindowEnd, MaxPerDay, MinInterval, Horizon}
         \subseteq Nat
    /\ WindowStart < WindowEnd
    /\ WindowEnd < DayLength
    /\ MaxPerDay > 0
ASSUME ProcsAssumption == IsFiniteSet(Procs)

(* Half an hour: less than from midnight to the window, and from its end   *)
(* to midnight.                                                            *)
ASSUME IntervalAssumption ==
    MinInterval <= WindowStart + 1 /\ WindowEnd + MinInterval <= DayLength

VARIABLES
    now,            \* the clock
    registrations,  \* of scheduler_state.json: who registered, and when
    pc,             \* "down", "waiting" for a slot or "registering"
    view            \* a process's copy of the registrations

vars == <<now, registrations, pc, view>>

Registration == [at : Nat, by : Procs]

TypeOK ==
    /\ now \in 0..Horizon
    /\ registrations \in Seq(Registration)
    /\ pc \in [Procs -> {"down", "waiting", "registering"}]
    /\ view \in [Procs -> Seq(Registration)]

Init ==
    /\ now = 0
    /\ registrations = << >>
    /\ pc = [p \in Procs |-> "down"]
    /\ view = [p \in Procs |-> << >>]

Date(t) == t \div DayLength
TimeOfDay(t) == t % DayLength

(* _today_registrations, on day d of a list of registrations.              *)
OnDay(list, d) == {i \in DOMAIN list : Date(list[i].at) = d}

LastAt(list) == list[Len(list)].at

(* Mutant: one registration too many.                                      *)
CanRegisterOnceMore(list, t) ==
    /\ TimeOfDay(t) \in WindowStart..(WindowEnd - 1)
    /\ Cardinality(OnDay(list, Date(t))) <= MaxPerDay
    /\ list # << >> => t - LastAt(list) >= MinInterval

(* Mutant: the interval is counted from the first registration.            *)
CanRegisterSinceFirst(list, t) ==
    /\ TimeOfDay(t) \in WindowStart..(WindowEnd - 1)
    /\ Cardinality(OnDay(list, Date(t))) < MaxPerDay
    /\ list # << >> => t - list[1].at >= MinInterval

(* can_register_now.                                                       *)
CanRegister(list, t) ==
    /\ TimeOfDay(t) \in WindowStart..(WindowEnd - 1)
    /\ Cardinality(OnDay(list, Date(t))) < MaxPerDay
    /\ list # << >> => t - LastAt(list) >= MinInterval

(* next_available_slot: what wait_for_slot sleeps towards.                 *)
Tomorrow(t) == (Date(t) + 1) * DayLength + WindowStart

(* Mutant: the end of the window is not looked at.                         *)
NextUnbounded(list, t) ==
    LET next == LastAt(list) + MinInterval
    IN IF TimeOfDay(t) < WindowStart THEN Date(t) * DayLength + WindowStart
       ELSE IF Cardinality(OnDay(list, Date(t))) >= MaxPerDay THEN Tomorrow(t)
       ELSE IF list = << >> \/ next <= t THEN t
       ELSE next

NextAvailableSlot(list, t) ==
    LET next == LastAt(list) + MinInterval
    IN IF TimeOfDay(t) < WindowStart THEN Date(t) * DayLength + WindowStart
       ELSE IF Cardinality(OnDay(list, Date(t))) >= MaxPerDay THEN Tomorrow(t)
       ELSE IF list = << >> \/ next <= t THEN t
       ELSE IF TimeOfDay(next) >= WindowEnd THEN Tomorrow(t)
       ELSE next

-----------------------------------------------------------------------------

Tick ==
    /\ now < Horizon
    /\ now' = now + 1
    /\ UNCHANGED <<registrations, pc, view>>

(* RegistrationScheduler is created and loads the file.                    *)
Start(p) ==
    /\ pc[p] = "down"
    /\ pc' = [pc EXCEPT ![p] = "waiting"]
    /\ view' = [view EXCEPT ![p] = registrations]
    /\ UNCHANGED <<now, registrations>>

(* wait_for_slot returns.  Until then it polls, at least every 30 seconds. *)
Proceed(p) ==
    /\ pc[p] = "waiting"
    /\ CanRegister(view[p], now)
    /\ pc' = [pc EXCEPT ![p] = "registering"]
    /\ UNCHANGED <<now, registrations, view>>

(* Mutant: the copy in memory is not refreshed under the lock.             *)
RecordStale(p) ==
    /\ pc[p] = "registering"
    /\ registrations' = Append(view[p], [at |-> now, by |-> p])
    /\ view' = [view EXCEPT ![p] = registrations']
    /\ pc' = [pc EXCEPT ![p] = "waiting"]
    /\ UNCHANGED now

(* Mutant: the local time is recorded, west of Greenwich.                  *)
RecordLocalTime(p) ==
    /\ pc[p] = "registering"
    /\ registrations' = Append(registrations, [at |-> now - WindowEnd, by |-> p])
    /\ view' = [view EXCEPT ![p] = registrations']
    /\ pc' = [pc EXCEPT ![p] = "waiting"]
    /\ UNCHANGED now

(* record_registration: load, append and save under the FileLock.  The     *)
(* registration took any time it took.                                     *)
Record(p) ==
    /\ pc[p] = "registering"
    /\ registrations' = Append(registrations, [at |-> now, by |-> p])
    /\ view' = [view EXCEPT ![p] = registrations']
    /\ pc' = [pc EXCEPT ![p] = "waiting"]
    /\ UNCHANGED now

(* The attempt failed, was skipped, or the lock was not to be had in five  *)
(* seconds: it is not counted.                                             *)
Fail(p) ==
    /\ pc[p] = "registering"
    /\ pc' = [pc EXCEPT ![p] = "waiting"]
    /\ UNCHANGED <<now, registrations, view>>

(* The process ends or dies; the save is an os.replace.                    *)
Exit(p) ==
    /\ pc[p] # "down"
    /\ pc' = [pc EXCEPT ![p] = "down"]
    /\ view' = [view EXCEPT ![p] = << >>]
    /\ UNCHANGED <<now, registrations>>

Next ==
    \/ Tick
    \/ \E p \in Procs : Start(p) \/ Proceed(p) \/ Record(p) \/ Fail(p) \/ Exit(p)

Spec == Init /\ [][Next]_vars

-----------------------------------------------------------------------------
(* Properties.                                                             *)

(* No day counts more than MAX_PER_DAY registrations, but for one more per *)
(* further process: a process may act on an old copy once, and is up to    *)
(* date when it has recorded.  With one process this is the rule of        *)
(* src/scheduler.py:4, also across restarts and for a registration that    *)
(* began the day before.                                                   *)
DailyLimit ==
    \A d \in 0..Date(Horizon) :
        Cardinality(OnDay(registrations, d)) <= MaxPerDay + Cardinality(Procs) - 1

(* Two registrations by one process are MIN_INTERVAL apart, whoever else   *)
(* registers in between, and across a restart of the process.              *)
OwnSpacing ==
    \A i, j \in DOMAIN registrations :
        i < j /\ registrations[i].by = registrations[j].by =>
            registrations[j].at - registrations[i].at >= MinInterval

(* A registration that is on file stays there and keeps its place, so that *)
(* it counts for every process that loads the file later.                  *)
RegistrationsKept ==
    [][/\ Len(registrations) <= Len(registrations')
       /\ \A i \in DOMAIN registrations : registrations'[i] = registrations[i]]_vars

(* What the proofs rest on: the list is in the order of time, a process    *)
(* holds an initial part of it that has its own registrations, and one     *)
(* that registers has kept the interval.                                   *)
Ordered ==
    \A i, j \in DOMAIN registrations :
        i <= j => registrations[i].at <= registrations[j].at

ProcessInv(p) ==
    /\ Len(view[p]) <= Len(registrations)
    /\ \A i \in DOMAIN view[p] : view[p][i] = registrations[i]
    /\ \A i \in DOMAIN registrations : registrations[i].by = p =>
          /\ pc[p] # "down" => i \in DOMAIN view[p]
          /\ pc[p] = "registering" => now - registrations[i].at >= MinInterval

IInv ==
    /\ TypeOK
    /\ \A i \in DOMAIN registrations : registrations[i].at <= now
    /\ Ordered
    /\ \A p \in Procs : ProcessInv(p)
    /\ OwnSpacing

(* And for the daily limit: processes whose copy shows room on day d; a     *)
(* process that registers is one of them, whatever day it has become, and  *)
(* once the day is full there are no more than may still exceed it.        *)
Blind(d) ==
    {p \in Procs : pc[p] # "down" /\ Cardinality(OnDay(view[p], d)) < MaxPerDay}

LimitInv ==
    /\ \A p \in Procs : pc[p] = "registering" => p \in Blind(Date(now))
    /\ \A d \in 0..Date(Horizon) :
          LET done == Cardinality(OnDay(registrations, d))
          IN done >= MaxPerDay =>
                done + Cardinality(Blind(d)) <= MaxPerDay + Cardinality(Procs) - 1

(* "Return the next datetime when registration is allowed"                 *)
(* (next_available_slot): before the window closes for the day, the time   *)
(* it returns is one can_register_now agrees to, if nothing is recorded in *)
(* between.  Excepted are the night (the first hour of the window comes    *)
(* back although a registration that lasted until after midnight may be    *)
(* too close to it) and the evening (the present comes back, which is not  *)
(* allowed).                                                               *)
NextSlotAllows ==
    \A p \in Procs :
        LET slot == NextAvailableSlot(view[p], now)
            overnight == \E i \in DOMAIN view[p] :
                            TimeOfDay(view[p][i].at) < WindowStart
        IN pc[p] = "waiting" /\ TimeOfDay(now) < WindowEnd /\ ~overnight =>
              slot >= now /\ CanRegister(view[p], slot)
=============================================================================
