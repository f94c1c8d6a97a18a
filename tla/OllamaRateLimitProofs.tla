------------------------ MODULE OllamaRateLimitProofs ------------------------
(* Proofs about the Ollama rate limit, for any number of processes and     *)
(* identities, any limits and an unbounded clock within any horizon.       *)
EXTENDS OllamaRateLimit, FiniteSetTheorems, TLAPS

-----------------------------------------------------------------------------

LEMMA Constants ==
  /\ Day \in Nat /\ Interval \in Nat /\ LockWait \in Nat /\ Horizon \in Nat
  /\ Cap \in Nat /\ Cap >= 1 /\ 2 * Interval <= Day
  /\ IsFiniteSet(Procs) /\ Cardinality(Procs) \in Nat
<1>1. IsFiniteSet(Procs) /\ Cardinality(Procs) \in Nat
  BY LimitsAssumption, FS_CardinalityType
<1>2. QED
  BY <1>1, LimitsAssumption DEF Cap

(* A later time leaves fewer entries recent.                               *)
LEMMA RecentShrinks ==
  ASSUME NEW i, NEW t \in Nat, NEW u \in Nat, t <= u,
         attempts[i] \subseteq Entry
  PROVE  Recent(i, u) \subseteq Recent(i, t)
  BY Constants DEF Recent, Entry

LEMMA RecentFinite ==
  ASSUME NEW i, NEW t, IsFiniteSet(attempts[i])
  PROVE  IsFiniteSet(Recent(i, t)) /\ Cardinality(Recent(i, t)) \in Nat
<1>1. Recent(i, t) \in SUBSET attempts[i]
  BY DEF Recent
<1>2. IsFiniteSet(Recent(i, t))
  BY <1>1, FS_Subset
<1>3. QED
  BY <1>2, FS_CardinalityType

LEMMA OneMore ==
  ASSUME NEW S, NEW x, IsFiniteSet(S)
  PROVE  /\ IsFiniteSet(S \union {x}) /\ Cardinality(S \union {x}) \in Nat
         /\ Cardinality(S \union {x}) <= Cardinality(S) + 1
<1>1. IsFiniteSet(S \union {x}) /\ Cardinality(S) \in Nat
  BY FS_AddElement, FS_CardinalityType
<1>2. Cardinality(S \union {x}) =
        IF x \in S THEN Cardinality(S) ELSE Cardinality(S) + 1
  BY FS_AddElement
<1>3. QED
  BY <1>1, <1>2

LEMMA PassedFinite ==
  ASSUME NEW i
  PROVE  /\ IsFiniteSet(Passed(i)) /\ Cardinality(Passed(i)) \in Nat
         /\ Cardinality(Passed(i)) <= Cardinality(Procs)
<1>1. Passed(i) \in SUBSET Procs
  BY DEF Passed
<1>2. IsFiniteSet(Passed(i)) /\ Cardinality(Passed(i)) <= Cardinality(Procs)
  BY <1>1, FS_Subset, Constants
<1>3. QED
  BY <1>2, FS_CardinalityType

-----------------------------------------------------------------------------
(* Each part of the inductive invariant is preserved.                      *)

LEMMA TypeStep == TypeOK /\ [Next]_vars => TypeOK'
<1> SUFFICES ASSUME TypeOK, [Next]_vars PROVE TypeOK'
  OBVIOUS
<1> USE DEF TypeOK, Points
<1>1. CASE Tick
  BY <1>1 DEF Tick
<1>2. ASSUME NEW p \in Procs, BeginCheck(p) PROVE TypeOK'
  BY <1>2 DEF BeginCheck
<1>3. ASSUME NEW p \in Procs, Check(p) PROVE TypeOK'
  BY <1>3 DEF Check
<1>4. ASSUME NEW p \in Procs, BeginRecord(p) PROVE TypeOK'
  BY <1>4 DEF BeginRecord
<1>5. ASSUME NEW p \in Procs, Record(p) PROVE TypeOK'
  <2>1. [n |-> recorded', at |-> stamp[p], by |-> p] \in Entry
    BY <1>5 DEF Record, Entry
  <2>2. Recent(identity[p], stamp[p]) \in SUBSET Entry
    BY DEF Recent
  <2>3. QED
    BY <1>5, <2>1, <2>2 DEF Record
<1>6. ASSUME NEW p \in Procs, End(p) PROVE TypeOK'
  BY <1>6 DEF End
<1>7. CASE UNCHANGED vars
  BY <1>7 DEF vars
<1>8. QED
  BY <1>1, <1>2, <1>3, <1>4, <1>5, <1>6, <1>7 DEF Next

(* What a record does to the list of its identity.                         *)
LEMMA RecordFacts ==
  ASSUME IInv, NEW p \in Procs, Record(p)
  PROVE  LET new == [n |-> recorded + 1, at |-> stamp[p], by |-> p]
         IN /\ new \in Entry
            /\ attempts'[identity[p]] =
                 Recent(identity[p], stamp[p]) \union {new}
            /\ attempts'[identity[p]] \subseteq attempts[identity[p]] \union {new}
            /\ \A i \in Identities : i # identity[p] => attempts'[i] = attempts[i]
            /\ now' = now /\ recorded' = recorded + 1
            /\ stamp' = stamp /\ identity' = identity
            /\ stamp[p] \in Nat /\ identity[p] \in Identities
  BY DEF IInv, TypeOK, Record, Recent, Entry

LEMMA OrderStep ==
  ASSUME IInv, [Next]_vars, NEW i \in Identities
  PROVE  OrderInv(i)'
<1> USE Constants
<1>1. /\ now \in Nat /\ recorded \in Nat /\ attempts[i] \subseteq Entry
      /\ OrderInv(i)
  BY DEF IInv, TypeOK
<1>2. CASE Tick \/ UNCHANGED vars
  <2>1. now' \in Nat /\ now <= now' /\ UNCHANGED <<attempts, recorded>>
    BY <1>1, <1>2 DEF Tick, vars
  <2>2. QED
    BY <1>1, <2>1 DEF OrderInv, Entry
<1>3. ASSUME NEW p \in Procs, Record(p) PROVE OrderInv(i)'
  <2> DEFINE new == [n |-> recorded + 1, at |-> stamp[p], by |-> p]
  <2>1. CASE i # identity[p]
    BY <1>1, <1>3, <2>1, RecordFacts DEF OrderInv, Entry
  <2>2. CASE i = identity[p]
    <3>1. /\ new \in Entry /\ new.n = recorded + 1 /\ new.at = stamp[p]
          /\ attempts'[i] = Recent(i, stamp[p]) \union {new}
          /\ attempts'[i] \subseteq attempts[i] \union {new}
          /\ now' = now /\ recorded' = recorded + 1 /\ stamp[p] \in Nat
      BY <1>3, <2>2, RecordFacts
    <3>2. stamp[p] <= now /\ now <= stamp[p] + LockWait
      BY <1>3 DEF IInv, ProcessInv, Record
    <3>3. IsFiniteSet(attempts'[i])
      <4>1. IsFiniteSet(Recent(i, stamp[p]))
        BY <1>1, RecentFinite DEF OrderInv
      <4> HIDE DEF new
      <4>2. QED
        BY <3>1, <4>1, OneMore
    <3>4. \A e \in attempts'[i] :
             e # new => e \in attempts[i] /\ e.n <= recorded /\ e.at <= now
      <4>1. \A e \in attempts[i] : e.n <= recorded /\ e.at <= now
        BY <1>1 DEF OrderInv
      <4>2. attempts'[i] \subseteq attempts[i] \union {new}
        BY <3>1
      <4> HIDE DEF new
      <4>3. ASSUME NEW e \in attempts'[i], e # new
            PROVE  e \in attempts[i] /\ e.n <= recorded /\ e.at <= now
        <5>1. e \in attempts[i]
          BY <4>2, <4>3
        <5>2. QED
          BY <4>1, <5>1
      <4>4. QED
        BY <4>3
    <3>5. \A e \in attempts'[i] : e \in Entry /\ e.n \in Nat /\ e.at \in Nat
      BY <1>1, <3>1 DEF Entry
    <3>6. \A e \in attempts'[i] : e.n <= recorded' /\ e.at <= now'
      BY <1>1, <3>1, <3>2, <3>4, <3>5
    <3>7. \A e, f \in attempts'[i] : e.n < f.n => e.at <= f.at + LockWait
      <4> SUFFICES ASSUME NEW e \in attempts'[i], NEW f \in attempts'[i],
                          e.n < f.n
                   PROVE  e.at <= f.at + LockWait
        OBVIOUS
      <4>1. CASE f = new
        BY <3>1, <3>2, <3>5, <3>6, <4>1, <1>1
      <4>2. CASE e = new
        BY <3>1, <3>4, <3>5, <4>2, <1>1
      <4>3. CASE e # new /\ f # new
        BY <3>4, <4>3, <1>1 DEF OrderInv
      <4>4. QED
        BY <4>1, <4>2, <4>3
    <3>8. \A e, f \in attempts'[i] : e.n = f.n => e = f
      BY <1>1, <3>1, <3>4, <3>5 DEF OrderInv
    <3>9. QED
      BY <3>3, <3>6, <3>7, <3>8 DEF OrderInv
  <2>3. QED
    BY <2>1, <2>2
<1>4. CASE UNCHANGED <<now, attempts, recorded>>
  BY <1>1, <1>4 DEF OrderInv
<1>5. QED
  BY <1>2, <1>3, <1>4 DEF Next, BeginCheck, Check, BeginRecord, End

LEMMA ProcessStep ==
  ASSUME IInv, [Next]_vars, NEW q \in Procs
  PROVE  ProcessInv(q)'
<1> USE Constants
<1>1. /\ now \in Nat /\ stamp \in [Procs -> Nat] /\ pc \in [Procs -> Points]
      /\ identity \in [Procs -> Identities]
      /\ \A i \in Identities : attempts[i] \subseteq Entry
      /\ \A p \in Procs : ProcessInv(p)
  BY DEF IInv, TypeOK
<1>2. CASE Tick
  BY <1>1, <1>2 DEF Tick, ProcessInv
<1>3. CASE UNCHANGED vars
  BY <1>1, <1>3 DEF vars, ProcessInv
<1>4. ASSUME NEW p \in Procs, BeginCheck(p) PROVE ProcessInv(q)'
  BY <1>1, <1>4 DEF BeginCheck, ProcessInv
<1>5. ASSUME NEW p \in Procs, Check(p) PROVE ProcessInv(q)'
  <2>1. CASE q # p \/ ~Admits(identity[p], stamp[p])
    BY <1>1, <1>5, <2>1 DEF Check, ProcessInv
  <2>2. CASE q = p /\ Admits(identity[p], stamp[p])
    <3> DEFINE i == identity[p]
    <3>1. i \in Identities /\ stamp[p] \in Nat /\ attempts[i] \subseteq Entry
      BY <1>1
    <3>2. OrderInv(i)
      BY <3>1 DEF IInv
    <3>3. ASSUME NEW e \in attempts[i]
          PROVE  stamp[p] + LockWait >= e.at + 2 * Interval
      <4>1. e.at \in Nat /\ e.n \in Nat
        BY <3>1 DEF Entry
      <4>2. CASE e \notin Recent(i, stamp[p])
        BY <3>1, <4>1, <4>2 DEF Recent
      <4>3. CASE e \in Recent(i, stamp[p])
        <5>1. PICK f \in Recent(i, stamp[p]) :
                 /\ IsLast(f, Recent(i, stamp[p]))
                 /\ stamp[p] >= f.at + 2 * Interval
          BY <2>2, <4>3 DEF Admits
        <5>2. f \in attempts[i] /\ f.at \in Nat /\ f.n \in Nat /\ e.n <= f.n
          BY <3>1, <4>3, <5>1 DEF Recent, IsLast, Entry
        <5>3. e.at <= f.at + LockWait
          BY <3>2, <4>1, <5>2 DEF OrderInv
        <5>4. QED
          BY <3>1, <4>1, <5>1, <5>2, <5>3
      <4>4. QED
        BY <4>2, <4>3
    <3>4. QED
      BY <1>1, <1>5, <2>2, <3>3 DEF Check, ProcessInv
  <2>3. QED
    BY <2>1, <2>2
<1>6. ASSUME NEW p \in Procs, BeginRecord(p) PROVE ProcessInv(q)'
  <2>1. CASE q # p
    BY <1>1, <1>6, <2>1 DEF BeginRecord, ProcessInv
  <2>2. CASE q = p
    <3>1. /\ identity[p] \in Identities /\ stamp[p] \in Nat /\ stamp[p] <= now
          /\ \A e \in attempts[identity[p]] : e.at \in Nat /\
                (e.by = p => stamp[p] + LockWait >= e.at + 2 * Interval)
      BY <1>1, <1>6 DEF BeginRecord, ProcessInv, Entry
    <3>2. \A e \in attempts[identity[p]] :
             e.by = p => now + LockWait >= e.at + 2 * Interval
      BY <1>1, <3>1
    <3>3. /\ stamp'[p] = now /\ now' = now /\ attempts' = attempts
          /\ identity' = identity
      BY <1>1, <1>6 DEF BeginRecord
    <3>4. QED
      BY <1>1, <2>2, <3>2, <3>3 DEF ProcessInv
  <2>3. QED
    BY <2>1, <2>2
<1>7. ASSUME NEW p \in Procs, Record(p) PROVE ProcessInv(q)'
  <2>1. CASE q = p
    BY <1>1, <1>7, <2>1 DEF Record, ProcessInv
  <2>2. CASE q # p
    <3>1. pc'[q] = pc[q] /\ now' = now /\ stamp' = stamp /\ identity' = identity
      BY <1>1, <1>7, <2>2 DEF Record
    <3>2. \A e \in attempts'[identity[q]] :
             e.by = q => e \in attempts[identity[q]]
      <4>1. identity[q] \in Identities
        BY <1>1
      <4> DEFINE new == [n |-> recorded + 1, at |-> stamp[p], by |-> p]
      <4>2. new.by # q
        BY <2>2
      <4>3. attempts'[identity[q]] \subseteq attempts[identity[q]] \union {new}
        <5>0. attempts'[identity[p]] \subseteq attempts[identity[p]] \union {new}
          BY <1>7, RecordFacts
        <5> HIDE DEF new
        <5>1. CASE identity[q] = identity[p]
          BY <5>0, <5>1
        <5>2. CASE identity[q] # identity[p]
          <6>1. attempts'[identity[q]] = attempts[identity[q]]
            BY <1>7, <4>1, <5>2, RecordFacts
          <6>2. QED
            BY <6>1
        <5>3. QED
          BY <5>1, <5>2
      <4> HIDE DEF new
      <4>4. QED
        BY <4>2, <4>3
    <3>3. QED
      BY <1>1, <3>1, <3>2 DEF ProcessInv
  <2>3. QED
    BY <2>1, <2>2
<1>8. ASSUME NEW p \in Procs, End(p) PROVE ProcessInv(q)'
  BY <1>1, <1>8 DEF End, ProcessInv
<1>9. QED
  BY <1>2, <1>3, <1>4, <1>5, <1>6, <1>7, <1>8 DEF Next

LEMMA SpacingStep == IInv /\ [Next]_vars => SpacingKept'
<1> SUFFICES ASSUME IInv, [Next]_vars, NEW i \in Identities,
                    NEW e \in attempts'[i], NEW f \in attempts'[i],
                    e.by = f.by, e.n < f.n
             PROVE  f.at + LockWait >= e.at + 2 * Interval
  BY DEF SpacingKept
<1>1. CASE attempts' = attempts
  BY <1>1 DEF IInv, SpacingKept
<1>2. ASSUME NEW p \in Procs, Record(p)
      PROVE  f.at + LockWait >= e.at + 2 * Interval
  <2> DEFINE new == [n |-> recorded + 1, at |-> stamp[p], by |-> p]
  <2>1. CASE e \in attempts[i] /\ f \in attempts[i]
    BY <2>1 DEF IInv, SpacingKept
  <2>2. CASE i = identity[p] /\ f = new /\ e \in attempts[i]
    BY <1>2, <2>2 DEF IInv, ProcessInv, Record
  <2>3. CASE i = identity[p] /\ e = new
    <3>1. f = new \/ f \in attempts[i]
      BY <1>2, <2>3, RecordFacts
    <3>2. f \in attempts[i] => f.n \in Nat /\ f.n <= recorded
      BY DEF IInv, TypeOK, OrderInv, Entry
    <3>3. QED
      BY <2>3, <3>1, <3>2 DEF IInv, TypeOK
  <2>4. QED
    BY <1>2, <2>1, <2>2, <2>3, RecordFacts
<1>3. QED
  BY <1>1, <1>2 DEF Next, Tick, BeginCheck, Check, BeginRecord, End, vars

(* The bound of one identity after a step, from what the step does to the  *)
(* two sets.                                                               *)
LEMMA BoundFrom ==
  ASSUME NEW a \in Nat, NEW b \in Nat, NEW c \in Nat, NEW d \in Nat,
         a + b <= Cap + Cardinality(Procs) - 1, c + d <= a + b
  PROVE  c + d <= Cap + Cardinality(Procs) - 1
  BY Constants

LEMMA BoundStep ==
  ASSUME IInv, [Next]_vars, NEW i \in Identities
  PROVE  (Cardinality(Recent(i, now)) + Cardinality(Passed(i))
            <= Cap + Cardinality(Procs) - 1)'
<1> DEFINE R == Recent(i, now)
           P == Passed(i)
<1>1. /\ now \in Nat /\ stamp \in [Procs -> Nat] /\ pc \in [Procs -> Points]
      /\ identity \in [Procs -> Identities] /\ attempts[i] \subseteq Entry
      /\ IsFiniteSet(attempts[i])
      /\ Cardinality(R) + Cardinality(P) <= Cap + Cardinality(Procs) - 1
  BY DEF IInv, TypeOK, BoundInv, OrderInv
<1>2. IsFiniteSet(R) /\ Cardinality(R) \in Nat
  BY <1>1, RecentFinite
<1>3. IsFiniteSet(P) /\ Cardinality(P) \in Nat
  BY PassedFinite
<1>4. /\ IsFiniteSet(P') /\ Cardinality(P') \in Nat
      /\ Cardinality(P') <= Cardinality(Procs)
  <2>1. P' \in SUBSET Procs
    BY DEF Passed
  <2>2. IsFiniteSet(P') /\ Cardinality(P') <= Cardinality(Procs)
    BY <2>1, FS_Subset, Constants
  <2>3. QED
    BY <2>2, FS_CardinalityType
<1>5. IsFiniteSet(attempts'[i])
  BY OrderStep DEF OrderInv
<1>6. IsFiniteSet(R') /\ Cardinality(R') \in Nat
  <2>1. R' \in SUBSET attempts'[i]
    BY DEF Recent
  <2>2. IsFiniteSet(R')
    BY <1>5, <2>1, FS_Subset
  <2>3. QED
    BY <2>2, FS_CardinalityType
<1>7. ASSUME R' \subseteq R, P' \subseteq P
      PROVE  Cardinality(R') + Cardinality(P') <= Cardinality(R) + Cardinality(P)
  <2>1. Cardinality(R') <= Cardinality(R) /\ Cardinality(P') <= Cardinality(P)
    BY <1>2, <1>3, <1>7, FS_Subset
  <2>2. QED
    BY <1>2, <1>3, <1>4, <1>6, <2>1
<1> DEFINE Goal == Cardinality(R') + Cardinality(P') <= Cap + Cardinality(Procs) - 1
<1> SUFFICES Goal
  OBVIOUS
<1>8. ASSUME R' \subseteq R, P' \subseteq P PROVE Goal
  BY <1>1, <1>2, <1>3, <1>4, <1>6, <1>7, <1>8, BoundFrom
<1>9. CASE Tick
  <2>1. R' \subseteq R
    BY <1>1, <1>9, Constants DEF Tick, Recent, Entry
  <2>2. P' = P
    BY <1>9 DEF Tick, Passed
  <2>3. QED
    BY <1>8, <2>1, <2>2
<1>10. CASE UNCHANGED vars
  BY <1>8, <1>10 DEF vars, Recent, Passed
<1>11. ASSUME NEW p \in Procs, BeginCheck(p) PROVE Goal
  <2>1. R' = R /\ P' \subseteq P
    BY <1>1, <1>11 DEF BeginCheck, Recent, Passed
  <2>2. QED
    BY <1>8, <2>1
<1>12. ASSUME NEW p \in Procs, Check(p) PROVE Goal
  <2>1. R' = R
    BY <1>12 DEF Check, Recent
  <2>2. CASE ~Admits(identity[p], stamp[p]) \/ identity[p] # i
    <3>1. P' \subseteq P
      BY <1>1, <1>12, <2>2 DEF Check, Passed
    <3>2. QED
      BY <1>8, <2>1, <3>1
  <2>3. CASE Admits(identity[p], stamp[p]) /\ identity[p] = i
    <3> DEFINE S == Recent(i, stamp[p])
    <3>1. stamp[p] \in Nat /\ stamp[p] <= now
      BY <1>1 DEF IInv, ProcessInv
    <3>2. R \subseteq S
      BY <1>1, <3>1, RecentShrinks
    <3>3. IsFiniteSet(S) /\ Cardinality(S) \in Nat
      BY <1>1, RecentFinite
    <3>4. Cardinality(R) <= Cardinality(S)
      BY <3>2, <3>3, FS_Subset
    <3>5. Cardinality(S) < Cap
      <4>1. CASE S = {}
        BY <4>1, FS_EmptySet, Constants
      <4>2. CASE S # {}
        BY <2>3, <4>2 DEF Admits
      <4>3. QED
        BY <4>1, <4>2
    <3>6. QED
      BY <1>2, <1>4, <2>1, <3>3, <3>4, <3>5, Constants
  <2>4. QED
    BY <2>2, <2>3
<1>13. ASSUME NEW p \in Procs, BeginRecord(p) PROVE Goal
  <2>1. R' = R /\ P' \subseteq P
    BY <1>1, <1>13 DEF BeginRecord, Recent, Passed
  <2>2. QED
    BY <1>8, <2>1
<1>14. ASSUME NEW p \in Procs, Record(p) PROVE Goal
  <2> DEFINE new == [n |-> recorded + 1, at |-> stamp[p], by |-> p]
  <2>1. CASE identity[p] # i
    <3>1. R' = R
      BY <1>14, <2>1, RecordFacts DEF Recent
    <3>2. P' \subseteq P
      BY <1>1, <1>14 DEF Record, Passed
    <3>3. QED
      BY <1>8, <3>1, <3>2
  <2>2. CASE identity[p] = i
    <3>1. R' \subseteq R \union {new}
      BY <1>14, <2>2, RecordFacts DEF Recent
    <3>2. /\ IsFiniteSet(R \union {new})
          /\ Cardinality(R \union {new}) <= Cardinality(R) + 1
          /\ Cardinality(R \union {new}) \in Nat
      BY <1>2, OneMore
    <3>3. Cardinality(R') <= Cardinality(R) + 1
      <4>1. Cardinality(R') <= Cardinality(R \union {new})
        BY <3>1, <3>2, FS_Subset
      <4>2. QED
        BY <1>2, <1>6, <3>2, <4>1
    <3>4. p \in P /\ P' = P \ {p}
      BY <1>1, <1>14, <2>2 DEF Record, Passed
    <3>5. Cardinality(P') = Cardinality(P) - 1
      BY <1>3, <3>4, FS_RemoveElement
    <3>6. QED
      BY <1>1, <1>2, <1>3, <1>4, <1>6, <3>3, <3>5, Constants
  <2>3. QED
    BY <2>1, <2>2
<1>15. ASSUME NEW p \in Procs, End(p) PROVE Goal
  <2>1. R' = R /\ P' \subseteq P
    BY <1>1, <1>15 DEF End, Recent, Passed
  <2>2. QED
    BY <1>8, <2>1
<1>16. QED
  BY <1>9, <1>10, <1>11, <1>12, <1>13, <1>14, <1>15 DEF Next

-----------------------------------------------------------------------------

LEMMA InitIInv == Init => IInv
<1> SUFFICES ASSUME Init PROVE IInv
  OBVIOUS
<1>1. TypeOK /\ SpacingKept /\ \A p \in Procs : ProcessInv(p)
  BY DEF Init, TypeOK, Points, SpacingKept, ProcessInv
<1>2. \A i \in Identities : OrderInv(i)
  BY FS_EmptySet DEF Init, OrderInv
<1>3. BoundInv
  <2> SUFFICES ASSUME NEW i \in Identities
               PROVE  Cardinality(Recent(i, now)) + Cardinality(Passed(i))
                        <= Cap + Cardinality(Procs) - 1
    BY DEF BoundInv
  <2>1. Recent(i, now) = {} /\ Passed(i) = {}
    BY DEF Init, Recent, Passed
  <2>2. QED
    BY <2>1, FS_EmptySet, Constants
<1>4. QED
  BY <1>1, <1>2, <1>3 DEF IInv

LEMMA NextIInv == IInv /\ [Next]_vars => IInv'
<1> SUFFICES ASSUME IInv, [Next]_vars PROVE IInv'
  OBVIOUS
<1>1. TypeOK' /\ SpacingKept'
  BY TypeStep, SpacingStep DEF IInv
<1>2. \A i \in Identities : OrderInv(i)'
  BY OrderStep
<1>3. \A p \in Procs : ProcessInv(p)'
  BY ProcessStep
<1>4. BoundInv'
  BY BoundStep DEF BoundInv
<1>5. QED
  BY <1>1, <1>2, <1>3, <1>4 DEF IInv

THEOREM Invariance == Spec => []IInv
  BY InitIInv, NextIInv, PTL DEF Spec

(* However many processes check and record side by side, and wherever they *)
(* die, an identity is used at most Cap times a day, and once more per     *)
(* further process.                                                        *)
THEOREM AttemptsStayBounded == Spec => []AttemptsBounded
<1>1. IInv => AttemptsBounded
  <2> SUFFICES ASSUME IInv, NEW i \in Identities
               PROVE  Cardinality(Recent(i, now)) <= Cap + Cardinality(Procs) - 1
    BY DEF AttemptsBounded
  <2>1. IsFiniteSet(attempts[i])
    BY DEF IInv, OrderInv
  <2>2. Cardinality(Recent(i, now)) \in Nat /\ Cardinality(Passed(i)) \in Nat
    BY <2>1, RecentFinite, PassedFinite
  <2>3. Cardinality(Recent(i, now)) + Cardinality(Passed(i))
          <= Cap + Cardinality(Procs) - 1
    BY DEF IInv, BoundInv
  <2>4. QED
    BY <2>2, <2>3, Constants
<1>2. QED
  BY <1>1, Invariance, PTL

(* One process keeps twice the interval, less the wait at the lock.        *)
THEOREM SpacingIsKept == Spec => []SpacingKept
<1>1. IInv => SpacingKept
  BY DEF IInv
<1>2. QED
  BY <1>1, Invariance, PTL
=============================================================================
