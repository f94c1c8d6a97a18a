--------------------------- MODULE SchedulerProofs ---------------------------
(* Proofs about the registration scheduler, for any number of processes    *)
(* and any limits.                                                         *)
EXTENDS Scheduler, SequenceTheorems, FiniteSetTheorems, TLAPS

-----------------------------------------------------------------------------

LEMMA AppendFacts ==
  ASSUME NEW S, NEW s \in Seq(S), NEW x \in S
  PROVE  /\ Append(s, x) \in Seq(S)
         /\ Len(Append(s, x)) = Len(s) + 1
         /\ DOMAIN Append(s, x) = DOMAIN s \union {Len(s) + 1}
         /\ \A i \in DOMAIN s : Append(s, x)[i] = s[i]
         /\ Append(s, x)[Len(s) + 1] = x
  OBVIOUS

LEMMA ListFacts ==
  ASSUME NEW S, NEW s \in Seq(S)
  PROVE  /\ Len(s) \in Nat /\ DOMAIN s = 1..Len(s)
         /\ \A i \in DOMAIN s : s[i] \in S
  BY LenProperties, ElementOfSeq

(* A registration that a process may begin has kept the interval to every  *)
(* registration of a list in the order of time, not only to the last.      *)
LEMMA IntervalKept ==
  ASSUME NEW list \in Seq(Registration), NEW t \in Nat, CanRegister(list, t),
         \A i, j \in DOMAIN list : i <= j => list[i].at <= list[j].at
  PROVE  \A i \in DOMAIN list : t - list[i].at >= MinInterval
<1> SUFFICES ASSUME NEW i \in DOMAIN list PROVE t - list[i].at >= MinInterval
  OBVIOUS
<1>1. Len(list) \in Nat /\ DOMAIN list = 1..Len(list)
  BY ListFacts
<1>2. list # << >> /\ Len(list) \in DOMAIN list /\ i <= Len(list)
  BY <1>1
<1>3. /\ list[i] \in Registration /\ list[Len(list)] \in Registration
      /\ list[i].at <= list[Len(list)].at
  BY <1>2, ListFacts
<1>4. t - list[Len(list)].at >= MinInterval
  BY <1>2 DEF CanRegister, LastAt
<1>5. list[i].at \in Nat /\ list[Len(list)].at \in Nat /\ MinInterval \in Nat
  BY <1>3, TimesAssumption DEF Registration
<1>6. QED
  BY <1>3, <1>4, <1>5

-----------------------------------------------------------------------------
(* Each action preserves the inductive invariant.                          *)

LEMMA TickStep == IInv /\ Tick => IInv'
<1> SUFFICES ASSUME IInv, Tick PROVE IInv'
  OBVIOUS
<1>1. now' = now + 1 /\ now' \in 0..Horizon /\ now \in Nat
  <2>1. Horizon \in Nat
    BY TimesAssumption
  <2>2. now \in 0..Horizon /\ now < Horizon /\ now' = now + 1
    BY DEF Tick, IInv, TypeOK
  <2>3. QED
    BY <2>1, <2>2
<1>2. \A i \in DOMAIN registrations : registrations[i].at \in Nat
  <2>1. \A i \in DOMAIN registrations : registrations[i] \in Registration
    BY ListFacts DEF IInv, TypeOK
  <2>2. QED
    BY <2>1 DEF Registration
<1>3. TypeOK'
  BY <1>1 DEF Tick, IInv, TypeOK
<1>4. (\A i \in DOMAIN registrations : registrations[i].at <= now)'
  BY <1>1, <1>2 DEF Tick, IInv
<1>5. Ordered' /\ OwnSpacing'
  BY DEF Tick, IInv, Ordered, OwnSpacing
<1>6. ASSUME NEW p \in Procs PROVE ProcessInv(p)'
  <2>1. ASSUME NEW i \in DOMAIN registrations, now - registrations[i].at >= MinInterval
        PROVE  now' - registrations[i].at >= MinInterval
    BY <1>1, <1>2, <2>1, TimesAssumption
  <2>2. ProcessInv(p)
    BY DEF IInv
  <2>3. QED
    BY <2>1, <2>2 DEF Tick, ProcessInv
<1>7. QED
  BY <1>3, <1>4, <1>5, <1>6 DEF IInv

(* Start, Proceed, Fail and Exit leave the file and the clock alone.       *)
LEMMA LocalStep ==
  ASSUME IInv, UNCHANGED <<now, registrations>>, TypeOK',
         \A p \in Procs : ProcessInv(p)'
  PROVE  IInv'
  BY DEF IInv, Ordered, OwnSpacing

LEMMA StartStep == \A p \in Procs : IInv /\ Start(p) => IInv'
<1> SUFFICES ASSUME NEW p \in Procs, IInv, Start(p) PROVE IInv'
  OBVIOUS
<1>1. TypeOK'
  BY DEF Start, IInv, TypeOK
<1>2. ASSUME NEW q \in Procs PROVE ProcessInv(q)'
  <2>1. CASE q = p
    BY <2>1 DEF Start, IInv, TypeOK, ProcessInv
  <2>2. CASE q # p
    BY <2>2 DEF Start, IInv, TypeOK, ProcessInv
  <2>3. QED
    BY <2>1, <2>2
<1>3. QED
  BY <1>1, <1>2, LocalStep DEF Start

LEMMA ProceedStep == \A p \in Procs : IInv /\ Proceed(p) => IInv'
<1> SUFFICES ASSUME NEW p \in Procs, IInv, Proceed(p) PROVE IInv'
  OBVIOUS
<1>1. TypeOK'
  BY DEF Proceed, IInv, TypeOK
<1>2. PICK list : list = view[p]
  OBVIOUS
<1>3. list \in Seq(Registration) /\ now \in Nat
  BY <1>2, TimesAssumption DEF IInv, TypeOK
<1>4. /\ Len(list) <= Len(registrations)
      /\ \A i \in DOMAIN list : list[i] = registrations[i]
      /\ \A i \in DOMAIN registrations :
            registrations[i].by = p => i \in DOMAIN list
  BY <1>2 DEF IInv, ProcessInv, Proceed
<1>5. DOMAIN list \subseteq DOMAIN registrations
  BY <1>3, <1>4, ListFacts DEF IInv, TypeOK
<1>6. \A i, j \in DOMAIN list : i <= j => list[i].at <= list[j].at
  BY <1>4, <1>5 DEF IInv, Ordered
<1>7. \A i \in DOMAIN list : now - list[i].at >= MinInterval
  BY <1>2, <1>3, <1>6, IntervalKept DEF Proceed
<1>8. ASSUME NEW q \in Procs PROVE ProcessInv(q)'
  <2>1. CASE q = p
    BY <2>1, <1>4, <1>7 DEF Proceed, IInv, TypeOK, ProcessInv
  <2>2. CASE q # p
    BY <2>2 DEF Proceed, IInv, TypeOK, ProcessInv
  <2>3. QED
    BY <2>1, <2>2
<1>9. QED
  BY <1>1, <1>8, LocalStep DEF Proceed

LEMMA FailStep == \A p \in Procs : IInv /\ Fail(p) => IInv'
<1> SUFFICES ASSUME NEW p \in Procs, IInv, Fail(p) PROVE IInv'
  OBVIOUS
<1>1. TypeOK'
  BY DEF Fail, IInv, TypeOK
<1>2. ASSUME NEW q \in Procs PROVE ProcessInv(q)'
  <2>1. CASE q = p
    BY <2>1 DEF Fail, IInv, TypeOK, ProcessInv
  <2>2. CASE q # p
    BY <2>2 DEF Fail, IInv, TypeOK, ProcessInv
  <2>3. QED
    BY <2>1, <2>2
<1>3. QED
  BY <1>1, <1>2, LocalStep DEF Fail

LEMMA ExitStep == \A p \in Procs : IInv /\ Exit(p) => IInv'
<1> SUFFICES ASSUME NEW p \in Procs, IInv, Exit(p) PROVE IInv'
  OBVIOUS
<1>1. TypeOK'
  BY EmptySeq DEF Exit, IInv, TypeOK
<1>2. ASSUME NEW q \in Procs PROVE ProcessInv(q)'
  <2>1. CASE q = p
    <3>1. view'[q] = << >> /\ pc'[q] = "down" /\ registrations' = registrations
      BY <2>1 DEF Exit, IInv, TypeOK
    <3>2. Len(<< >>) <= Len(registrations) /\ DOMAIN << >> = {}
      BY ListFacts DEF IInv, TypeOK
    <3>3. QED
      BY <3>1, <3>2 DEF ProcessInv
  <2>2. CASE q # p
    BY <2>2 DEF Exit, IInv, TypeOK, ProcessInv
  <2>3. QED
    BY <2>1, <2>2
<1>3. QED
  BY <1>1, <1>2, LocalStep DEF Exit

LEMMA RecordStep == \A p \in Procs : IInv /\ Record(p) => IInv'
<1> SUFFICES ASSUME NEW p \in Procs, IInv, Record(p) PROVE IInv'
  OBVIOUS
<1>1. PICK n, list, e : n = now /\ list = registrations /\ e = [at |-> n, by |-> p]
  OBVIOUS
<1>2. /\ n \in Nat /\ e \in Registration /\ list \in Seq(Registration)
      /\ \A i \in DOMAIN list : list[i].at \in Nat /\ list[i].at <= n
  <2>1. n \in Nat /\ list \in Seq(Registration)
    BY <1>1, TimesAssumption DEF IInv, TypeOK
  <2>2. \A i \in DOMAIN list : list[i] \in Registration
    BY <2>1, ListFacts
  <2>3. \A i \in DOMAIN list : list[i].at <= n
    BY <1>1 DEF IInv
  <2>4. e \in Registration
    BY <1>1, <2>1 DEF Registration
  <2>5. QED
    BY <2>1, <2>2, <2>3, <2>4 DEF Registration
<1>3. registrations' = Append(list, e) /\ now' = n
  BY <1>1 DEF Record
<1>4. PICK new : new = Append(list, e)
  OBVIOUS
<1>5. /\ new \in Seq(Registration)
      /\ Len(new) = Len(list) + 1 /\ Len(list) \in Nat
      /\ DOMAIN list = 1..Len(list)
      /\ DOMAIN new = DOMAIN list \union {Len(list) + 1}
      /\ \A i \in DOMAIN list : new[i] = list[i]
      /\ new[Len(list) + 1] = e
  BY <1>2, <1>4, AppendFacts, ListFacts
<1>6. e.at = n /\ e.by = p
  BY <1>1
<1>7. TypeOK'
  BY <1>3, <1>4, <1>5 DEF Record, IInv, TypeOK
<1>8. (\A i \in DOMAIN registrations : registrations[i].at <= now)'
  BY <1>2, <1>3, <1>4, <1>5, <1>6
<1>9. Ordered'
  <2>1. \A i, j \in DOMAIN list : i <= j => list[i].at <= list[j].at
    BY <1>1 DEF IInv, Ordered
  <2>2. \A i, j \in DOMAIN new : i <= j => new[i].at <= new[j].at
    BY <2>1, <1>2, <1>5, <1>6
  <2>3. QED
    BY <2>2, <1>3, <1>4 DEF Ordered
<1>10. OwnSpacing'
  <2>1. \A i, j \in DOMAIN list :
           i < j /\ list[i].by = list[j].by => list[j].at - list[i].at >= MinInterval
    BY <1>1 DEF IInv, OwnSpacing
  <2>2. \A i \in DOMAIN list : list[i].by = p => n - list[i].at >= MinInterval
    BY <1>1 DEF IInv, ProcessInv, Record
  <2>3. \A i, j \in DOMAIN new :
           i < j /\ new[i].by = new[j].by => new[j].at - new[i].at >= MinInterval
    BY <2>1, <2>2, <1>5, <1>6
  <2>4. QED
    BY <2>3, <1>3, <1>4 DEF OwnSpacing
<1>11. ASSUME NEW q \in Procs PROVE ProcessInv(q)'
  <2>1. CASE q = p
    <3>1. view'[q] = new /\ pc'[q] = "waiting"
      BY <2>1, <1>3, <1>4 DEF Record, IInv, TypeOK
    <3>2. QED
      BY <3>1, <1>3, <1>4, <1>5 DEF ProcessInv
  <2>2. CASE q # p
    <3>1. view'[q] = view[q] /\ pc'[q] = pc[q]
      BY <2>2 DEF Record, IInv, TypeOK
    <3>2. ProcessInv(q)
      BY DEF IInv
    <3>3. view[q] \in Seq(Registration)
      BY DEF IInv, TypeOK
    <3>4. Len(view[q]) \in Nat /\ DOMAIN view[q] = 1..Len(view[q])
      BY <3>3, ListFacts
    <3>5. Len(view[q]) <= Len(list)
          /\ \A i \in DOMAIN view[q] : view[q][i] = list[i]
      BY <3>2, <1>1 DEF ProcessInv
    <3>6. Len(view[q]) <= Len(new)
          /\ \A i \in DOMAIN view[q] : view[q][i] = new[i]
      BY <3>4, <3>5, <1>5
    <3>7. \A i \in DOMAIN new : new[i].by = q =>
             /\ pc[q] # "down" => i \in DOMAIN view[q]
             /\ pc[q] = "registering" => n - new[i].at >= MinInterval
      BY <3>2, <2>2, <1>1, <1>5, <1>6 DEF ProcessInv
    <3>8. QED
      BY <3>1, <3>6, <3>7, <1>3, <1>4 DEF ProcessInv
  <2>3. QED
    BY <2>1, <2>2
<1>12. QED
  BY <1>7, <1>8, <1>9, <1>10, <1>11 DEF IInv

-----------------------------------------------------------------------------

LEMMA InitIInv == Init => IInv
  BY EmptySeq, TimesAssumption
  DEF Init, IInv, TypeOK, Ordered, ProcessInv, OwnSpacing

LEMMA NextIInv == IInv /\ [Next]_vars => IInv'
<1> SUFFICES ASSUME IInv, [Next]_vars PROVE IInv'
  OBVIOUS
<1>1. CASE Tick
  BY <1>1, TickStep
<1>2. CASE \E p \in Procs : Start(p) \/ Proceed(p) \/ Record(p) \/ Fail(p) \/ Exit(p)
  BY <1>2, StartStep, ProceedStep, RecordStep, FailStep, ExitStep
<1>3. CASE UNCHANGED vars
  BY <1>3 DEF vars, IInv, TypeOK, Ordered, ProcessInv, OwnSpacing
<1>4. QED
  BY <1>1, <1>2, <1>3 DEF Next

THEOREM Invariance == Spec => []IInv
  BY InitIInv, NextIInv, PTL DEF Spec

(* Times are never negative and every copy is a list of registrations.     *)
THEOREM TypeCorrect == Spec => []TypeOK
<1>1. IInv => TypeOK
  BY DEF IInv
<1>2. QED
  BY <1>1, Invariance, PTL

(* One process keeps the interval between its registrations, whatever the  *)
(* others do and however often it is restarted.                            *)
THEOREM SpacingKept == Spec => []OwnSpacing
<1>1. IInv => OwnSpacing
  BY DEF IInv
<1>2. QED
  BY <1>1, Invariance, PTL

(* No step loses a registration that is on file.                           *)
THEOREM NothingForgotten == Spec => RegistrationsKept
<1>1. IInv /\ [Next]_vars =>
         [/\ Len(registrations) <= Len(registrations')
          /\ \A i \in DOMAIN registrations :
                registrations'[i] = registrations[i]]_vars
  <2> SUFFICES ASSUME IInv, [Next]_vars
               PROVE  /\ Len(registrations) <= Len(registrations')
                      /\ \A i \in DOMAIN registrations :
                            registrations'[i] = registrations[i]
    OBVIOUS
  <2>1. registrations \in Seq(Registration) /\ Len(registrations) \in Nat
    BY ListFacts DEF IInv, TypeOK
  <2>2. CASE \E p \in Procs : Record(p)
    <3>1. PICK p \in Procs : registrations' = Append(registrations, [at |-> now, by |-> p])
      BY <2>2 DEF Record
    <3>2. [at |-> now, by |-> p] \in Registration
      BY TimesAssumption DEF IInv, TypeOK, Registration
    <3>3. QED
      BY <2>1, <3>1, <3>2, AppendFacts
  <2>3. CASE registrations' = registrations
    BY <2>1, <2>3
  <2>4. QED
    BY <2>2, <2>3 DEF Next, vars, Tick, Start, Proceed, Fail, Exit
<1>2. QED
  BY <1>1, Invariance, PTL DEF Spec, RegistrationsKept

-----------------------------------------------------------------------------
(* The daily limit.                                                        *)

LEMMA DateMonotonic ==
  ASSUME NEW a \in Nat, NEW b \in Nat, a <= b
  PROVE  Date(a) \in Nat /\ Date(b) \in Nat /\ Date(a) <= Date(b)
<1>1. DayLength \in Nat /\ DayLength > 0
  BY TimesAssumption
<1>2. QED
  BY <1>1 DEF Date

LEMMA OnDayFacts ==
  ASSUME NEW list \in Seq(Registration), NEW d
  PROVE  IsFiniteSet(OnDay(list, d)) /\ Cardinality(OnDay(list, d)) \in Nat
<1>1. Len(list) \in Nat /\ DOMAIN list = 1..Len(list)
  BY ListFacts
<1>2. IsFiniteSet(DOMAIN list) /\ OnDay(list, d) \in SUBSET DOMAIN list
  BY <1>1, FS_Interval DEF OnDay
<1>3. QED
  BY <1>2, FS_Subset, FS_CardinalityType

(* An initial part of a list has no more registrations on a day.           *)
LEMMA OnDayPrefix ==
  ASSUME NEW part \in Seq(Registration), NEW list \in Seq(Registration), NEW d,
         Len(part) <= Len(list), \A i \in DOMAIN part : part[i] = list[i]
  PROVE  Cardinality(OnDay(part, d)) <= Cardinality(OnDay(list, d))
<1>1. DOMAIN part \subseteq DOMAIN list
  BY ListFacts
<1>2. OnDay(part, d) \subseteq OnDay(list, d)
  BY <1>1 DEF OnDay
<1>3. QED
  BY <1>2, OnDayFacts, FS_Subset

LEMMA BlindFinite ==
  ASSUME NEW d
  PROVE  /\ IsFiniteSet(Procs) /\ Cardinality(Procs) \in Nat
         /\ IsFiniteSet(Blind(d)) /\ Cardinality(Blind(d)) \in Nat
         /\ IsFiniteSet(Blind(d)') /\ Cardinality(Blind(d)') \in Nat
<1>1. IsFiniteSet(Procs) /\ Cardinality(Procs) \in Nat
  BY ProcsAssumption, FS_CardinalityType
<1>2. Blind(d) \in SUBSET Procs /\ Blind(d)' \in SUBSET Procs
  BY DEF Blind
<1>3. IsFiniteSet(Blind(d)) /\ IsFiniteSet(Blind(d)')
  BY <1>1, <1>2, FS_Subset
<1>4. QED
  BY <1>1, <1>3, FS_CardinalityType

(* The day is over or goes on: a copy that had room today has room.        *)
LEMMA TodayTick ==
  ASSUME IInv, Tick, NEW p \in Procs, p \in Blind(Date(now))
  PROVE  (p \in Blind(Date(now)))'
<1> DEFINE list == view[p]
<1>1. now \in Nat /\ now' = now + 1 /\ now' \in Nat /\ list \in Seq(Registration)
      /\ pc' = pc /\ view' = view
  BY TimesAssumption DEF IInv, TypeOK, Tick
<1>2. ASSUME NEW i \in DOMAIN list PROVE list[i].at \in Nat /\ list[i].at <= now
  <2>1. i \in DOMAIN registrations /\ list[i] = registrations[i]
    <3>1. ProcessInv(p)
      BY DEF IInv
    <3>2. registrations \in Seq(Registration)
      BY DEF IInv, TypeOK
    <3>3. QED
      BY <1>1, <3>1, <3>2, ListFacts DEF ProcessInv
  <2>2. list[i] \in Registration
    BY <1>1, ListFacts
  <2>3. QED
    BY <2>1, <2>2 DEF IInv, Registration
<1>3. CASE Date(now') = Date(now)
  BY <1>1, <1>3 DEF Blind
<1>4. CASE Date(now') # Date(now)
  <2>1. Date(now) < Date(now')
    BY <1>1, <1>4, DateMonotonic
  <2>2. \A i \in DOMAIN list : Date(list[i].at) # Date(now')
    <3>1. ASSUME NEW i \in DOMAIN list PROVE Date(list[i].at) < Date(now')
      <4>1. Date(list[i].at) \in Nat /\ Date(list[i].at) <= Date(now)
        BY <1>1, <1>2, DateMonotonic
      <4>2. Date(now) \in Nat /\ Date(now') \in Nat
        BY <1>1, DateMonotonic
      <4>3. QED
        BY <2>1, <4>1, <4>2
    <3>2. ASSUME NEW i \in DOMAIN list PROVE Date(list[i].at) # Date(now')
      <4>1. Date(list[i].at) \in Nat /\ Date(now') \in Nat
        BY <1>1, <1>2, DateMonotonic
      <4>2. QED
        BY <3>1, <4>1
    <3>3. QED
      BY <3>2
  <2>3. OnDay(list, Date(now')) = {}
    BY <2>2 DEF OnDay
  <2>4. Cardinality(OnDay(list, Date(now'))) = 0
    BY <2>3, FS_EmptySet
  <2>5. QED
    BY <1>1, <2>4, TimesAssumption DEF Blind
<1>5. QED
  BY <1>3, <1>4

LEMMA TodayStep ==
  ASSUME IInv, LimitInv, [Next]_vars, NEW q \in Procs, pc'[q] = "registering"
  PROVE  (q \in Blind(Date(now)))'
<1>1. CASE Tick
  BY <1>1, TodayTick DEF Tick, LimitInv
<1>2. CASE UNCHANGED vars
  BY <1>2 DEF vars, LimitInv, Blind
<1>3. ASSUME NEW p \in Procs,
             Start(p) \/ Proceed(p) \/ Record(p) \/ Fail(p) \/ Exit(p)
      PROVE  (q \in Blind(Date(now)))'
  <2>1. now' = now /\ view'[q] = view[q]
        /\ (pc[q] = "registering" \/ CanRegister(view[q], now))
    BY <1>3 DEF Start, Proceed, Record, Fail, Exit, IInv, TypeOK
  <2>2. Cardinality(OnDay(view[q], Date(now))) < MaxPerDay
    BY <2>1 DEF LimitInv, Blind, CanRegister
  <2>3. QED
    BY <2>1, <2>2 DEF Blind
<1>4. QED
  BY <1>1, <1>2, <1>3 DEF Next

(* Only a registration makes a day fuller, and it opens the eyes of the    *)
(* process that makes it.                                                  *)
LEMMA LimitStep ==
  ASSUME IInv, LimitInv, [Next]_vars, NEW d \in 0..Date(Horizon),
         (Cardinality(OnDay(registrations, d)) >= MaxPerDay)'
  PROVE  (Cardinality(OnDay(registrations, d)) + Cardinality(Blind(d))
            <= MaxPerDay + Cardinality(Procs) - 1)'
<1> DEFINE done == Cardinality(OnDay(registrations, d))
           blind == Cardinality(Blind(d))
           total == Cardinality(Procs)
<1>1. /\ registrations \in Seq(Registration) /\ registrations' \in Seq(Registration)
      /\ MaxPerDay \in Nat
      /\ \A p \in Procs : view[p] \in Seq(Registration)
      /\ pc \in [Procs -> {"down", "waiting", "registering"}]
      /\ view \in [Procs -> Seq(Registration)]
      /\ now \in Nat
  BY NextIInv, TimesAssumption DEF IInv, TypeOK
<1>2. done \in Nat /\ done' \in Nat
  BY <1>1, OnDayFacts
<1>3. /\ IsFiniteSet(Procs) /\ total \in Nat
      /\ IsFiniteSet(Blind(d)) /\ blind \in Nat
      /\ IsFiniteSet(Blind(d)') /\ blind' \in Nat
  BY BlindFinite
<1>4. done >= MaxPerDay => done + blind <= MaxPerDay + total - 1
  BY DEF LimitInv
<1> DEFINE Goal == done' + blind' <= MaxPerDay + total - 1
<1> SUFFICES Goal
  OBVIOUS
<1>5. ASSUME registrations' = registrations, Blind(d)' \subseteq Blind(d) PROVE Goal
  <2>1. blind' <= blind
    BY <1>3, <1>5, FS_Subset
  <2>2. done' = done /\ done >= MaxPerDay
    BY <1>5
  <2>3. QED
    BY <1>1, <1>2, <1>3, <1>4, <2>1, <2>2
<1>6. CASE Tick \/ UNCHANGED vars
  <2>1. registrations' = registrations /\ Blind(d)' = Blind(d)
    BY <1>6 DEF Tick, vars, Blind
  <2>2. QED
    BY <1>5, <2>1
<1>7. ASSUME NEW p \in Procs, Proceed(p) \/ Fail(p) \/ Exit(p) PROVE Goal
  <2>1. registrations' = registrations /\ Blind(d)' \subseteq Blind(d)
    BY <1>1, <1>7 DEF Proceed, Fail, Exit, Blind
  <2>2. QED
    BY <1>5, <2>1
<1>8. ASSUME NEW p \in Procs, Start(p) PROVE Goal
  <2>1. /\ registrations' = registrations /\ view'[p] = registrations
        /\ \A q \in Procs \ {p} : view'[q] = view[q] /\ pc'[q] = pc[q]
    BY <1>1, <1>8 DEF Start
  <2>2. p \notin Blind(d)'
    BY <1>1, <1>2, <2>1 DEF Blind
  <2>3. Blind(d)' \subseteq Blind(d)
    BY <2>1, <2>2 DEF Blind
  <2>4. QED
    BY <1>5, <2>1, <2>3
<1>9. ASSUME NEW p \in Procs, Record(p) PROVE Goal
  <2> DEFINE e == [at |-> now, by |-> p]
             new == Append(registrations, e)
  <2>1. /\ registrations' = new /\ view'[p] = new /\ pc[p] = "registering"
        /\ \A q \in Procs \ {p} : view'[q] = view[q] /\ pc'[q] = pc[q]
    BY <1>1, <1>9 DEF Record
  <2>2. /\ e \in Registration /\ Len(registrations) \in Nat
        /\ DOMAIN registrations = 1..Len(registrations)
        /\ DOMAIN new = DOMAIN registrations \union {Len(registrations) + 1}
        /\ \A i \in DOMAIN registrations : new[i] = registrations[i]
        /\ new[Len(registrations) + 1] = e
    <3>1. e \in Registration
      BY <1>1 DEF Registration
    <3>2. QED
      BY <1>1, <3>1, AppendFacts, ListFacts
  <2>3. p \notin Blind(d)'
    <3>1. view'[p] = registrations'
      BY <2>1
    <3>2. QED
      BY <1>1, <1>2, <3>1 DEF Blind
  <2>4. Blind(d)' \subseteq Blind(d) \ {p} /\ Blind(d)' \subseteq Procs \ {p}
    BY <2>1, <2>3 DEF Blind
  <2>5. blind' <= blind /\ blind' <= total - 1
    <3>1. IsFiniteSet(Procs \ {p}) /\ Cardinality(Procs \ {p}) = total - 1
      BY <1>3, FS_RemoveElement
    <3>2. QED
      BY <1>3, <2>4, <3>1, FS_Subset
  <2>6. CASE Date(now) # d
    <3>1. OnDay(new, d) = OnDay(registrations, d)
      BY <2>2, <2>6 DEF OnDay
    <3>2. done' = done /\ done >= MaxPerDay
      BY <2>1, <3>1
    <3>3. QED
      BY <1>1, <1>2, <1>3, <1>4, <2>5, <3>2
  <2>7. CASE Date(now) = d
    <3>1. /\ OnDay(new, d) = OnDay(registrations, d) \union {Len(registrations) + 1}
          /\ Len(registrations) + 1 \notin OnDay(registrations, d)
      BY <2>2, <2>7 DEF OnDay
    <3>2. done' = done + 1
      BY <1>1, <2>1, <3>1, OnDayFacts, FS_AddElement
    <3>3. p \in Blind(d)
      BY <2>1, <2>7 DEF LimitInv
    <3>4. blind' <= blind - 1
      <4>1. IsFiniteSet(Blind(d) \ {p}) /\ Cardinality(Blind(d) \ {p}) = blind - 1
        BY <1>3, <3>3, FS_RemoveElement
      <4>2. QED
        BY <1>3, <2>4, <4>1, FS_Subset
    <3>5. CASE done >= MaxPerDay
      BY <1>1, <1>2, <1>3, <1>4, <3>2, <3>4, <3>5
    <3>6. CASE ~(done >= MaxPerDay)
      BY <1>1, <1>2, <1>3, <2>5, <3>2, <3>6
    <3>7. QED
      BY <3>5, <3>6
  <2>8. QED
    BY <2>6, <2>7
<1>10. QED
  BY <1>6, <1>7, <1>8, <1>9 DEF Next

LEMMA LimitInvariance == Spec => [](IInv /\ LimitInv)
<1>1. Init => LimitInv
  <2> SUFFICES ASSUME Init PROVE LimitInv
    OBVIOUS
  <2>1. \A d : OnDay(registrations, d) = {}
    BY DEF Init, OnDay
  <2>2. \A d : Cardinality(OnDay(registrations, d)) = 0
    BY <2>1, FS_EmptySet
  <2>3. QED
    BY <2>2, TimesAssumption DEF Init, LimitInv
<1>2. IInv /\ LimitInv /\ [Next]_vars => LimitInv'
  <2> SUFFICES ASSUME IInv, LimitInv, [Next]_vars PROVE LimitInv'
    OBVIOUS
  <2>1. \A p \in Procs : pc'[p] = "registering" => (p \in Blind(Date(now)))'
    BY TodayStep
  <2>2. QED
    BY <2>1, LimitStep DEF LimitInv
<1>3. QED
  BY <1>1, <1>2, InitIInv, NextIInv, PTL DEF Spec

(* However many processes decide on copies that others have outdated, no   *)
(* day counts more registrations than the limit and one per further        *)
(* process, across midnight and restarts.                                  *)
THEOREM LimitKept == Spec => []DailyLimit
<1>1. IInv /\ LimitInv => DailyLimit
  <2> SUFFICES ASSUME IInv, LimitInv, NEW d \in 0..Date(Horizon)
               PROVE  Cardinality(OnDay(registrations, d))
                        <= MaxPerDay + Cardinality(Procs) - 1
    BY DEF DailyLimit
  <2> DEFINE done == Cardinality(OnDay(registrations, d))
  <2>1. registrations \in Seq(Registration)
    BY DEF IInv, TypeOK
  <2>2. done \in Nat /\ Cardinality(Blind(d)) \in Nat /\ Cardinality(Procs) \in Nat
    BY <2>1, OnDayFacts, BlindFinite
  <2>3. QED
    BY <2>2, TimesAssumption DEF LimitInv
<1>2. QED
  BY <1>1, LimitInvariance, PTL

-----------------------------------------------------------------------------
(* The next slot.                                                          *)

LEMMA DivMod ==
  ASSUME NEW t \in Nat, NEW D \in Nat \ {0}
  PROVE  /\ t \div D \in Nat /\ t % D \in 0..(D - 1)
         /\ t = D * (t \div D) + (t % D)
  OBVIOUS

LEMMA NextMultiple ==
  ASSUME NEW D \in Nat \ {0}, NEW a \in Nat, NEW b \in Nat, a < b
  PROVE  D * b >= D * a + D
  OBVIOUS

(* A time is made of a day and a time of day in one way only.              *)
LEMMA DivModUnique ==
  ASSUME NEW D \in Nat \ {0}, NEW q \in Nat, NEW r \in 0..(D - 1)
  PROVE  (D * q + r) \div D = q /\ (D * q + r) % D = r
<1> DEFINE p == (D * q + r) \div D
           s == (D * q + r) % D
<1>1. D * q + r \in Nat
  OBVIOUS
<1>2. p \in Nat /\ s \in 0..(D - 1) /\ D * q + r = D * p + s
  BY <1>1, DivMod
<1> HIDE DEF p, s
<1>3. ~(p < q)
  BY <1>2, NextMultiple
<1>4. ~(q < p)
  BY <1>2, NextMultiple
<1>5. p = q
  BY <1>2, <1>3, <1>4
<1>6. s = r
  BY <1>2, <1>5
<1>7. QED
  BY <1>5, <1>6 DEF p, s

LEMMA Clock ==
  ASSUME NEW d \in Nat, NEW r \in 0..(DayLength - 1)
  PROVE  /\ DayLength * d + r \in Nat
         /\ Date(DayLength * d + r) = d /\ TimeOfDay(DayLength * d + r) = r
<1>1. DayLength \in Nat \ {0}
  BY TimesAssumption
<1>2. QED
  BY <1>1, DivModUnique DEF Date, TimeOfDay

LEMMA ClockOf ==
  ASSUME NEW t \in Nat
  PROVE  /\ Date(t) \in Nat /\ TimeOfDay(t) \in 0..(DayLength - 1)
         /\ t = DayLength * Date(t) + TimeOfDay(t)
<1>1. DayLength \in Nat \ {0}
  BY TimesAssumption
<1>2. QED
  BY <1>1, DivMod DEF Date, TimeOfDay

LEMMA TimesOfList ==
  ASSUME NEW list \in Seq(Registration)
  PROVE  \A i \in DOMAIN list : list[i].at \in Nat
<1>1. \A i \in DOMAIN list : list[i] \in Registration
  BY ListFacts
<1>2. QED
  BY <1>1 DEF Registration

(* The opening of a window that has not been reached yet: on its day       *)
(* nothing is registered, and the last registration was before midnight.   *)
LEMMA Opening ==
  ASSUME NEW list \in Seq(Registration), NEW d \in Nat, MaxPerDay > 0,
         \A i \in DOMAIN list : list[i].at < DayLength * d
  PROVE  CanRegister(list, DayLength * d + WindowStart)
<1> DEFINE slot == DayLength * d + WindowStart
<1>1. /\ DayLength \in Nat /\ WindowStart \in Nat /\ WindowEnd \in Nat
      /\ MinInterval \in Nat /\ WindowStart \in 0..(DayLength - 1)
      /\ WindowStart < WindowEnd
  BY TimesAssumption
<1>2. slot \in Nat /\ Date(slot) = d /\ TimeOfDay(slot) = WindowStart
  BY <1>1, Clock
<1>3. ASSUME NEW i \in DOMAIN list PROVE Date(list[i].at) # d
  <2>1. list[i].at \in Nat
    BY TimesOfList
  <2>2. /\ list[i].at = DayLength * Date(list[i].at) + TimeOfDay(list[i].at)
        /\ TimeOfDay(list[i].at) \in 0..(DayLength - 1)
    BY <2>1, ClockOf
  <2>3. TimeOfDay(list[i].at) >= 0
    BY <1>1, <2>2
  <2>4. DayLength * d \in Nat /\ list[i].at < DayLength * d
    BY <1>1, <1>3
  <2>5. Date(list[i].at) = d => list[i].at >= DayLength * d
    BY <1>1, <2>1, <2>2, <2>3, <2>4
  <2>6. QED
    BY <2>1, <2>4, <2>5
<1>4. OnDay(list, d) = {}
  BY <1>3 DEF OnDay
<1>5. Cardinality(OnDay(list, d)) < MaxPerDay
  BY <1>4, FS_EmptySet
<1>6. ASSUME list # << >> PROVE slot - LastAt(list) >= MinInterval
  <2>1. Len(list) \in DOMAIN list
    BY <1>6, ListFacts
  <2>2. LastAt(list) \in Nat /\ LastAt(list) < DayLength * d
    BY <2>1, TimesOfList DEF LastAt
  <2>3. QED
    BY <1>1, <2>2, IntervalAssumption
<1>7. TimeOfDay(slot) \in WindowStart..(WindowEnd - 1)
  BY <1>1, <1>2
<1>8. QED
  BY <1>2, <1>5, <1>6, <1>7 DEF CanRegister

(* next_available_slot keeps its word, if every registration it looks at   *)
(* is past and none was made before its day's window.                      *)
LEMMA SlotAllows ==
  ASSUME NEW list \in Seq(Registration), NEW t \in Nat,
         TimeOfDay(t) < WindowEnd,
         \A i \in DOMAIN list :
             list[i].at <= t /\ ~(TimeOfDay(list[i].at) < WindowStart)
  PROVE  /\ NextAvailableSlot(list, t) >= t
         /\ CanRegister(list, NextAvailableSlot(list, t))
<1> DEFINE d == Date(t)
           midnight == DayLength * d
           next == LastAt(list) + MinInterval
<1>1. /\ DayLength \in Nat /\ WindowStart \in Nat /\ WindowEnd \in Nat
      /\ MinInterval \in Nat /\ MaxPerDay \in Nat /\ MaxPerDay > 0
      /\ WindowStart < WindowEnd /\ WindowEnd < DayLength
  BY TimesAssumption
<1>2. /\ d \in Nat /\ midnight \in Nat
      /\ TimeOfDay(t) \in Nat /\ TimeOfDay(t) < DayLength
      /\ t = midnight + TimeOfDay(t)
  <2>1. d \in Nat /\ TimeOfDay(t) \in 0..(DayLength - 1)
    BY ClockOf
  <2>2. DayLength * Date(t) \in Nat
    BY <1>1, <2>1
  <2>3. t = DayLength * Date(t) + TimeOfDay(t)
    BY ClockOf
  <2>4. QED
    BY <1>1, <2>1, <2>2, <2>3
<1>3. /\ (d + 1) \in Nat /\ DayLength * (d + 1) = midnight + DayLength
      /\ Tomorrow(t) = DayLength * (d + 1) + WindowStart
  <2>1. (Date(t) + 1) \in Nat
    BY <1>2
  <2>2. DayLength * (Date(t) + 1) = DayLength * Date(t) + DayLength
    BY <1>1, <1>2
  <2>3. (Date(t) + 1) * DayLength = DayLength * (Date(t) + 1)
    BY <1>1, <2>1
  <2>4. QED
    BY <2>1, <2>2, <2>3 DEF Tomorrow
<1> HIDE DEF midnight, d
<1>4. \A i \in DOMAIN list : list[i].at \in Nat
  BY TimesOfList
<1>5. list # << >> =>
         LastAt(list) \in Nat /\ LastAt(list) <= t /\ next \in Nat
  <2>1. list # << >> => Len(list) \in DOMAIN list
    BY ListFacts
  <2>2. QED
    BY <1>1, <1>4, <2>1 DEF LastAt
<1>6. CASE TimeOfDay(t) < WindowStart
  <2>1. NextAvailableSlot(list, t) = midnight + WindowStart
    <3>1. d * DayLength = midnight
      BY <1>1, <1>2 DEF midnight
    <3>2. QED
      BY <1>6, <3>1 DEF NextAvailableSlot, d
  <2>2. ASSUME NEW i \in DOMAIN list PROVE list[i].at < midnight
    <3> DEFINE e == Date(list[i].at)
               r == TimeOfDay(list[i].at)
               start == DayLength * e
    <3>1. list[i].at \in Nat /\ list[i].at <= t /\ ~(r < WindowStart)
      BY <1>4
    <3>2. e \in Nat /\ r \in Nat /\ r < DayLength /\ list[i].at = start + r
      <4>1. /\ e \in Nat /\ r \in 0..(DayLength - 1)
            /\ list[i].at = start + r
        BY <3>1, ClockOf
      <4>2. QED
        BY <1>1, <4>1
    <3>3. e <= d
      BY <3>1, DateMonotonic DEF d
    <3>4. start \in Nat
      BY <1>1, <3>2
    <3>5. e = d => start = midnight
      BY DEF midnight
    <3>6. e < d => midnight >= start + DayLength
      <4>1. DayLength \in Nat \ {0}
        BY <1>1
      <4>2. QED
        BY <1>2, <3>2, <4>1, NextMultiple DEF midnight
    <3> HIDE DEF e, r, start
    <3>7. e # d
      BY <1>1, <1>2, <1>6, <3>1, <3>2, <3>4, <3>5
    <3>8. QED
      BY <1>1, <1>2, <3>1, <3>2, <3>3, <3>4, <3>6, <3>7
  <2>3. CanRegister(list, midnight + WindowStart)
    BY <1>1, <1>2, <2>2, Opening DEF midnight
  <2>4. QED
    BY <1>1, <1>2, <1>6, <2>1, <2>3
<1>7. Tomorrow(t) >= t /\ CanRegister(list, Tomorrow(t))
  <2>1. \A i \in DOMAIN list : list[i].at < DayLength * (d + 1)
    BY <1>1, <1>2, <1>3, <1>4
  <2>2. CanRegister(list, Tomorrow(t))
    BY <1>1, <1>3, <2>1, Opening
  <2>3. Tomorrow(t) >= t
    BY <1>1, <1>2, <1>3
  <2>4. QED
    BY <2>2, <2>3
<1>8. CASE /\ ~(TimeOfDay(t) < WindowStart)
           /\ Cardinality(OnDay(list, d)) >= MaxPerDay
  BY <1>7, <1>8 DEF NextAvailableSlot, d
<1>9. CASE /\ ~(TimeOfDay(t) < WindowStart)
           /\ ~(Cardinality(OnDay(list, d)) >= MaxPerDay)
  <2>1. Cardinality(OnDay(list, d)) < MaxPerDay
    <3>1. Cardinality(OnDay(list, d)) \in Nat
      BY OnDayFacts
    <3>2. QED
      BY <1>1, <1>9, <3>1
  <2>2. TimeOfDay(t) \in WindowStart..(WindowEnd - 1)
    BY <1>1, <1>2, <1>9
  <2>3. CASE list = << >> \/ next <= t
    <3>1. NextAvailableSlot(list, t) = t
      BY <1>9, <2>3 DEF NextAvailableSlot, d
    <3>2. list # << >> => t - LastAt(list) >= MinInterval
      BY <1>1, <1>5, <2>3
    <3>3. QED
      BY <1>2, <2>1, <2>2, <3>1, <3>2 DEF CanRegister, d
  <2>4. CASE ~(list = << >> \/ next <= t) /\ TimeOfDay(next) >= WindowEnd
    <3>1. NextAvailableSlot(list, t) = Tomorrow(t)
      BY <1>9, <2>4 DEF NextAvailableSlot, d
    <3>2. QED
      BY <1>7, <3>1
  <2>5. CASE ~(list = << >> \/ next <= t) /\ ~(TimeOfDay(next) >= WindowEnd)
    <3>1. NextAvailableSlot(list, t) = next
      BY <1>9, <2>5 DEF NextAvailableSlot, d
    <3>2. LastAt(list) \in Nat /\ LastAt(list) <= t /\ next \in Nat /\ next > t
      BY <1>5, <2>5
    <3>3. PICK r \in 0..(DayLength - 1) :
             next = midnight + r /\ r > TimeOfDay(t)
      <4> DEFINE r == next - midnight
      <4>1. r \in 0..(DayLength - 1) /\ r > TimeOfDay(t)
        BY <1>1, <1>2, <3>2, IntervalAssumption
      <4>2. next = midnight + r
        BY <1>2, <3>2
      <4>3. QED
        BY <4>1, <4>2
    <3>4. Date(next) = d /\ TimeOfDay(next) = r
      BY <1>2, <3>3, Clock DEF midnight
    <3>5. TimeOfDay(next) \in WindowStart..(WindowEnd - 1)
      <4>1. ~(r >= WindowEnd)
        BY <2>5, <3>4
      <4>2. r \in WindowStart..(WindowEnd - 1)
        BY <1>1, <1>2, <1>9, <3>3, <4>1
      <4>3. QED
        BY <3>4, <4>2
    <3>6. next - LastAt(list) >= MinInterval
      BY <1>1, <3>2
    <3>7. QED
      BY <2>1, <3>1, <3>2, <3>4, <3>5, <3>6 DEF CanRegister
  <2>6. QED
    BY <2>3, <2>4, <2>5
<1>10. QED
  BY <1>6, <1>8, <1>9

(* Whatever the constants of the day, next_available_slot names a time at  *)
(* which can_register_now will agree, as long as the interval fits before  *)
(* the window and after it.                                                *)
THEOREM SlotsAreAllowed == Spec => []NextSlotAllows
<1>1. ASSUME IInv PROVE NextSlotAllows
  <2> SUFFICES ASSUME NEW p \in Procs, TimeOfDay(now) < WindowEnd,
                      ~\E i \in DOMAIN view[p] :
                          TimeOfDay(view[p][i].at) < WindowStart
               PROVE  /\ NextAvailableSlot(view[p], now) >= now
                      /\ CanRegister(view[p], NextAvailableSlot(view[p], now))
    BY DEF NextSlotAllows
  <2>1. view[p] \in Seq(Registration) /\ now \in Nat
    BY <1>1, TimesAssumption DEF IInv, TypeOK
  <2>2. /\ Len(view[p]) <= Len(registrations)
        /\ \A i \in DOMAIN view[p] : view[p][i] = registrations[i]
        /\ \A i \in DOMAIN registrations : registrations[i].at <= now
        /\ registrations \in Seq(Registration)
    BY <1>1 DEF IInv, ProcessInv, TypeOK
  <2>3. DOMAIN view[p] \subseteq DOMAIN registrations
    BY <2>1, <2>2, ListFacts
  <2>4. \A i \in DOMAIN view[p] :
           view[p][i].at <= now /\ ~(TimeOfDay(view[p][i].at) < WindowStart)
    BY <2>2, <2>3
  <2>5. QED
    BY <2>1, <2>4, SlotAllows
<1>2. QED
  BY <1>1, Invariance, PTL
=============================================================================
