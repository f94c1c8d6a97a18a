------------------------- MODULE PuterRecoveryProofs -------------------------
(* Proofs about the quarantine and its recovery, for any accounts and any  *)
(* number of managers with copies as old as they like.                     *)
EXTENDS PuterRecovery, TLAPS

Points ==
    /\ batch.pc \notin {"down", "idle"} => batch.cur \in Accounts
    /\ \A m \in Managers :
          mgr[m].pc \notin {"down", "up"} => mgr[m].target \in Accounts

Course == RebuildOnCourse /\ RebuildSettles

LEMMA Parts == IInv <=> TypeOK /\ Points /\ NoAccountVanishes /\ Course
  BY DEF IInv, Points, Course

LEMMA ClosedType ==
  /\ Closed \in [pc : ManagerPoints, copy : SUBSET Accounts,
                 target : Accounts \union {None}, view : SUBSET Accounts]
  /\ Closed.pc = "down"
  BY DEF Closed, ManagerPoints

LEMMA ReadyType ==
  ASSUME NEW point \in BatchPoints
  PROVE  /\ Ready(point) \in [pc : BatchPoints, cur : Accounts \union {None},
                              view : SUBSET Accounts]
         /\ Ready(point).pc = point
  BY DEF Ready

LEMMA UnplannedType ==
  ASSUME NEW point \in RebuildPoints
  PROVE  /\ Unplanned(point) \in [pc : RebuildPoints, plan : [Accounts -> Stages]]
         /\ Unplanned(point).pc = point
  BY DEF Unplanned, Stages

(* A step of the batch or of a manager leaves the rebuild on its course.   *)
LEMMA CourseKept ==
  ASSUME Course, rebuild' = rebuild, calm' => calm /\ files' = files
  PROVE  Course'
<1>1. CASE ~calm'
  BY <1>1 DEF Course, RebuildOnCourse, RebuildSettles
<1>2. CASE calm'
  <2>1. /\ calm /\ log' = log /\ list' = list /\ quarantine' = quarantine
        /\ failures' = failures
    BY <1>2 DEF files
  <2>2. In("quarantined")' = In("quarantined") /\ In("audited")' = In("audited")
        /\ In("exportable")' = In("exportable") /\ In("failed")' = In("failed")
    BY <2>1 DEF In
  <2>3. RebuildOnCourse'
    BY <2>1, <2>2 DEF Course, RebuildOnCourse
  <2>4. RebuildSettles'
    BY <2>1, <2>2 DEF Course, RebuildSettles
  <2>5. QED
    BY <2>3, <2>4 DEF Course
<1>3. QED
  BY <1>1, <1>2

LEMMA InitIInv == Init => IInv
<1> SUFFICES ASSUME Init PROVE IInv
  OBVIOUS
<1>1. TypeOK
  BY ClosedType, ReadyType, UnplannedType
     DEF Init, TypeOK, BatchPoints, RebuildPoints, Stages
<1>2. Points
  BY ClosedType, ReadyType DEF Init, Points, BatchPoints
<1>3. NoAccountVanishes
  BY DEF Init, NoAccountVanishes, In
<1>4. Course
  BY DEF Init, Course, RebuildOnCourse, RebuildSettles
<1>5. QED
  BY <1>1, <1>2, <1>3, <1>4, Parts

-----------------------------------------------------------------------------
(* The batch.                                                              *)

LEMMA BeginStep ==
  ASSUME TypeOK, Points, NoAccountVanishes, Course, Begin
  PROVE  TypeOK' /\ Points' /\ NoAccountVanishes' /\ Course'
<1>1. PICK a \in In("none") :
         /\ log' = [log EXCEPT ![a] = "open"]
         /\ batch' = [pc |-> "work", cur |-> a, view |-> {}]
  BY DEF Begin
<1>2. UNCHANGED <<audit, torn, list, quarantine, failures, mgr, rebuild, lost>>
      /\ calm' = (calm /\ UNCHANGED files)
  BY DEF Begin, Quiet
<1>3. a \in Accounts
  BY DEF In
<1>4. TypeOK'
  BY <1>1, <1>2, <1>3 DEF TypeOK, BatchPoints, Stages
<1>5. Points'
  BY <1>1, <1>2, <1>3 DEF Points
<1>6. NoAccountVanishes'
  <2>1. In("quarantined")' \subseteq In("quarantined")
    BY <1>1, <1>3 DEF In, TypeOK
  <2>2. batch.pc \notin {"load", "store"}
    BY DEF Begin
  <2>3. QED
    BY <1>2, <2>1, <2>2 DEF NoAccountVanishes, Safe, Leaving, At
<1>7. Course'
  BY <1>2, CourseKept DEF files
<1>8. QED
  BY <1>4, <1>5, <1>6, <1>7

LEMMA RegisterStep ==
  ASSUME TypeOK, Points, NoAccountVanishes, Course, Register
  PROVE  TypeOK' /\ Points' /\ NoAccountVanishes' /\ Course'
<1>1. PICK ok \in BOOLEAN :
         /\ log' = [log EXCEPT ![batch.cur] = IF ok THEN "quarantined" ELSE "failed"]
         /\ batch' = [batch EXCEPT !.pc = IF ok THEN "load" ELSE "finalize"]
  BY DEF Register, BatchGoes
<1>2. /\ UNCHANGED <<audit, torn, list, quarantine, failures, mgr, rebuild, lost>>
      /\ calm' = (calm /\ UNCHANGED files)
      /\ batch.pc = "work" /\ batch.cur \in Accounts
  BY DEF Register, BatchAt, Quiet, Points
<1>3. TypeOK'
  BY <1>1, <1>2 DEF TypeOK, BatchPoints, Stages
<1>4. Points'
  BY <1>1, <1>2 DEF Points, TypeOK
<1>5. NoAccountVanishes'
  <2>1. /\ batch'.cur = batch.cur
        /\ batch'.pc = IF ok THEN "load" ELSE "finalize"
    BY <1>1 DEF TypeOK
  <2>2. \A a \in In("quarantined")' :
           a \in In("quarantined") \/ (a = batch.cur /\ ok)
    BY <1>1, <1>2 DEF In, TypeOK
  <2>3. QED
    BY <1>2, <2>1, <2>2 DEF NoAccountVanishes, Safe, Leaving, At
<1>6. Course'
  BY <1>2, CourseKept DEF files
<1>7. QED
  BY <1>3, <1>4, <1>5, <1>6

LEMMA LoadListStep ==
  ASSUME TypeOK, Points, NoAccountVanishes, Course, LoadList
  PROVE  TypeOK' /\ Points' /\ NoAccountVanishes' /\ Course'
<1>1. /\ batch.pc = "load" /\ batch' = [batch EXCEPT !.pc = "store", !.view = list]
      /\ UNCHANGED <<files, mgr, rebuild, lost, calm>>
  BY DEF LoadList, BatchAt
<1>2. TypeOK'
  BY <1>1 DEF TypeOK, BatchPoints, files
<1>3. Points'
  BY <1>1 DEF Points, TypeOK
<1>4. NoAccountVanishes'
  <2>1. batch'.cur = batch.cur /\ batch'.pc = "store"
    BY <1>1 DEF TypeOK
  <2>2. QED
    BY <1>1, <2>1 DEF NoAccountVanishes, Safe, Leaving, At, In, files
<1>5. Course'
  BY <1>1, CourseKept
<1>6. QED
  BY <1>2, <1>3, <1>4, <1>5

LEMMA StoreListStep ==
  ASSUME TypeOK, Points, NoAccountVanishes, Course, StoreList
  PROVE  TypeOK' /\ Points' /\ NoAccountVanishes' /\ Course'
<1>1. /\ batch.pc = "store" /\ list' = batch.view \union {batch.cur}
      /\ UNCHANGED <<log, audit, torn, quarantine, failures, mgr, rebuild>>
      /\ lost' = (lost \union (list \ list')) \ Safe'
      /\ batch' = [batch EXCEPT !.pc = "record", !.view = {}]
      /\ calm' = (calm /\ UNCHANGED files)
      /\ batch.cur \in Accounts
  BY DEF StoreList, BatchAt, Drop, Quiet, Points
<1>2. TypeOK'
  <2>1. batch.view \in SUBSET Accounts /\ list \in SUBSET Accounts
    BY DEF TypeOK
  <2>2. list' \in SUBSET Accounts /\ lost' \in SUBSET Accounts
    BY <1>1, <2>1 DEF TypeOK
  <2>3. batch' \in [pc : BatchPoints, cur : Accounts \union {None},
                   view : SUBSET Accounts]
    BY <1>1 DEF TypeOK, BatchPoints
  <2>4. QED
    BY <1>1, <2>2, <2>3 DEF TypeOK
<1>3. Points'
  BY <1>1 DEF Points, TypeOK
<1>4. NoAccountVanishes'
  <2>1. In("quarantined")' = In("quarantined")
    BY <1>1 DEF In
  <2>2. Safe \union lost \union {batch.cur} \subseteq Safe' \union lost'
    BY <1>1 DEF Safe, Leaving
  <2>3. QED
    BY <1>1, <2>1, <2>2 DEF NoAccountVanishes, At
<1>5. Course'
  BY <1>1, CourseKept
<1>6. QED
  BY <1>2, <1>3, <1>4, <1>5

LEMMA RecordStep ==
  ASSUME TypeOK, Points, NoAccountVanishes, Course, Record
  PROVE  TypeOK' /\ Points' /\ NoAccountVanishes' /\ Course'
<1>1. /\ \/ log' = log
         \/ log' = [log EXCEPT ![batch.cur] = "failed"]
      /\ batch' = [batch EXCEPT !.pc = "finalize"] /\ batch.pc = "record"
      /\ UNCHANGED <<audit, torn, list, quarantine, failures, mgr, rebuild, lost>>
      /\ calm' = (calm /\ UNCHANGED files)
      /\ batch.cur \in Accounts
  BY DEF Record, BatchAt, BatchGoes, Quiet, Points
<1>2. TypeOK'
  BY <1>1 DEF TypeOK, BatchPoints, Stages
<1>3. Points'
  BY <1>1 DEF Points, TypeOK
<1>4. NoAccountVanishes'
  <2>1. In("quarantined")' \subseteq In("quarantined")
    BY <1>1 DEF In, TypeOK
  <2>2. QED
    BY <1>1, <2>1 DEF NoAccountVanishes, Safe, Leaving, At
<1>5. Course'
  BY <1>1, CourseKept
<1>6. QED
  BY <1>2, <1>3, <1>4, <1>5

LEMMA FinalizeStep ==
  ASSUME TypeOK, Points, NoAccountVanishes, Course, Finalize
  PROVE  TypeOK' /\ Points' /\ NoAccountVanishes' /\ Course'
<1>1. /\ \/ /\ log' = [log EXCEPT ![batch.cur] = "failed"]
            /\ batch' = Ready("down") /\ audit' = audit
         \/ /\ audit' = audit \/ audit' = audit \union {batch.cur}
            /\ batch' = [batch EXCEPT !.pc = "failure"] \/ batch' = Ready("idle")
            /\ log' = log
      /\ batch.pc = "finalize"
      /\ UNCHANGED <<torn, list, quarantine, failures, mgr, rebuild, lost>>
      /\ calm' = (calm /\ UNCHANGED files)
      /\ batch.cur \in Accounts
  BY DEF Finalize, BatchAt, BatchGoes, Quiet, Points
<1>2. {"down", "idle"} \subseteq BatchPoints
  BY DEF BatchPoints
<1>3. TypeOK'
  BY <1>1, <1>2, ReadyType DEF TypeOK, BatchPoints, Stages
<1>4. Points'
  BY <1>1, <1>2, ReadyType DEF Points, TypeOK
<1>5. NoAccountVanishes'
  <2>1. In("quarantined")' \subseteq In("quarantined")
    BY <1>1 DEF In, TypeOK
  <2>2. QED
    BY <1>1, <2>1 DEF NoAccountVanishes, Safe, Leaving, At
<1>6. Course'
  BY <1>1, CourseKept
<1>7. QED
  BY <1>3, <1>4, <1>5, <1>6

LEMMA AppendFailureStep ==
  ASSUME TypeOK, Points, NoAccountVanishes, Course, AppendFailure
  PROVE  TypeOK' /\ Points' /\ NoAccountVanishes' /\ Course'
<1>1. /\ batch.pc = "failure" /\ batch' = Ready("idle")
      /\ failures' = failures \union {batch.cur}
      /\ UNCHANGED <<log, audit, torn, list, quarantine, mgr, rebuild, lost>>
      /\ calm' = (calm /\ UNCHANGED files)
      /\ batch.cur \in Accounts
  BY DEF AppendFailure, BatchAt, Quiet, Points
<1>2. "idle" \in BatchPoints
  BY DEF BatchPoints
<1>3. TypeOK'
  BY <1>1, <1>2, ReadyType DEF TypeOK
<1>4. Points'
  BY <1>1, <1>2, ReadyType DEF Points
<1>5. NoAccountVanishes'
  BY <1>1 DEF NoAccountVanishes, Safe, Leaving, At, In
<1>6. Course'
  BY <1>1, CourseKept
<1>7. QED
  BY <1>3, <1>4, <1>5, <1>6

LEMMA BatchDiesStep ==
  ASSUME TypeOK, Points, NoAccountVanishes, Course, BatchDies
  PROVE  TypeOK' /\ Points' /\ NoAccountVanishes' /\ Course'
<1> DEFINE dropped == IF batch.pc \in {"load", "store"} THEN {batch.cur} ELSE {}
<1>1. /\ torn' = torn \/ torn' = torn \union {"states"}
         \/ torn' = torn \union {"audit"}
      /\ UNCHANGED <<log, audit, list, quarantine, failures, mgr, rebuild>>
      /\ lost' = (lost \union dropped) \ Safe'
      /\ batch' = Ready("down")
      /\ calm' = (calm /\ UNCHANGED files)
      /\ batch.cur \in Accounts
  BY DEF BatchDies, BatchAt, Drop, Quiet, Points
<1>2. "down" \in BatchPoints
  BY DEF BatchPoints
<1>3. TypeOK'
  <2>1. lost' \in SUBSET Accounts
    BY <1>1 DEF TypeOK
  <2>2. torn' \subseteq {"states", "audit"} /\ calm' \in BOOLEAN
    BY <1>1 DEF TypeOK
  <2>3. QED
    BY <1>1, <1>2, <2>1, <2>2, ReadyType DEF TypeOK
<1>4. Points'
  BY <1>1, <1>2, ReadyType DEF Points
<1>5. NoAccountVanishes'
  <2>1. Safe' = Safe /\ Safe \union lost \union dropped \subseteq Safe' \union lost'
    BY <1>1 DEF Safe, Leaving
  <2>2. In("quarantined")' = In("quarantined")
    BY <1>1 DEF In
  <2>3. QED
    BY <1>1, <2>1, <2>2 DEF NoAccountVanishes, At
<1>6. Course'
  BY <1>1, CourseKept
<1>7. QED
  BY <1>3, <1>4, <1>5, <1>6

-----------------------------------------------------------------------------
(* A manager.  What its steps have in common: the batch, the log and the   *)
(* rebuild are left alone, and what is no longer safe is either lost or    *)
(* already audited, or the target of a mark_failed on its way.             *)

LEMMA TypeNext ==
  ASSUME log' \in [Accounts -> Stages],
         {audit', list', quarantine', failures', lost'} \subseteq SUBSET Accounts,
         torn' \subseteq {"states", "audit"}, calm' \in BOOLEAN,
         batch' \in [pc : BatchPoints, cur : Accounts \union {None},
                    view : SUBSET Accounts],
         mgr' \in [Managers -> [pc : ManagerPoints, copy : SUBSET Accounts,
                               target : Accounts \union {None},
                               view : SUBSET Accounts]],
         rebuild' \in [pc : RebuildPoints, plan : [Accounts -> Stages]]
  PROVE  TypeOK'
  BY DEF TypeOK

(* What a manager's step has to show: r, its record afterwards, and the    *)
(* files are of their types; what was safe, or on its way into the audit,  *)
(* is accounted for.                                                       *)
ManagerTyped(r) ==
    /\ r \in [pc : ManagerPoints, copy : SUBSET Accounts,
              target : Accounts \union {None}, view : SUBSET Accounts]
    /\ r.pc \notin {"down", "up"} => r.target \in Accounts
    /\ audit' \in SUBSET Accounts /\ list' \in SUBSET Accounts
    /\ quarantine' \in SUBSET Accounts /\ lost' \in SUBSET Accounts
    /\ torn' \subseteq {"states", "audit"}

ManagerKeeps(m, r) ==
    /\ audit \subseteq audit'
    /\ lost \subseteq Safe' \union lost'
    /\ \A a \in Safe :
          a \in Safe' \union lost' \/ (r.pc = "failing" /\ r.target = a)
    /\ mgr[m].pc = "failing" =>
          \/ r.pc = "failing" /\ r.target = mgr[m].target
          \/ mgr[m].target \in Safe' \union lost' \union audit'

LEMMA ManagerStep ==
  ASSUME TypeOK, Points, NoAccountVanishes, Course, NEW m \in Managers, NEW r,
         mgr' = [mgr EXCEPT ![m] = r],
         UNCHANGED <<log, failures, batch, rebuild>>,
         calm' = (calm /\ UNCHANGED files),
         ManagerTyped(r), ManagerKeeps(m, r)
  PROVE  TypeOK' /\ Points' /\ NoAccountVanishes' /\ Course'
<1> USE DEF ManagerTyped, ManagerKeeps
<1>1. mgr \in [Managers -> [pc : ManagerPoints, copy : SUBSET Accounts,
                            target : Accounts \union {None},
                            view : SUBSET Accounts]]
  BY DEF TypeOK
<1>2. /\ mgr'[m] = r /\ \A n \in Managers : n # m => mgr'[n] = mgr[n]
      /\ mgr' \in [Managers -> [pc : ManagerPoints, copy : SUBSET Accounts,
                                target : Accounts \union {None},
                                view : SUBSET Accounts]]
  BY <1>1
<1>3. TypeOK'
  <2>1. calm' \in BOOLEAN
    BY DEF TypeOK
  <2>2. /\ log' \in [Accounts -> Stages]
        /\ failures' \in SUBSET Accounts
        /\ batch' \in [pc : BatchPoints, cur : Accounts \union {None},
                       view : SUBSET Accounts]
        /\ rebuild' \in [pc : RebuildPoints, plan : [Accounts -> Stages]]
    BY DEF TypeOK
  <2>3. {audit', list', quarantine', failures', lost'} \subseteq SUBSET Accounts
    BY <2>2
  <2>4. torn' \subseteq {"states", "audit"}
    OBVIOUS
  <2>5. QED
    BY <1>2, <2>1, <2>2, <2>3, <2>4, TypeNext
<1>4. Points'
  BY <1>2 DEF Points
<1>5. NoAccountVanishes'
  <2>1. In("quarantined")' = In("quarantined")
    BY DEF In
  <2>2. SUFFICES ASSUME NEW a \in In("quarantined")
                 PROVE  \/ a \in Safe' \/ a \in audit' \/ a \in lost'
                        \/ batch'.cur = a /\ batch'.pc \in {"load", "store"}
                        \/ \E n \in Managers : mgr'[n].pc = "failing" /\ mgr'[n].target = a
    BY <2>1 DEF NoAccountVanishes, At
  <2>3. CASE a \in Safe
    BY <1>2, <2>3
  <2>4. CASE a \in audit \/ a \in lost
    BY <2>4
  <2>5. CASE batch.cur = a /\ batch.pc \in {"load", "store"}
    BY <2>5
  <2>6. CASE \E n \in Managers : mgr[n].pc = "failing" /\ mgr[n].target = a
    <3>1. PICK n \in Managers : mgr[n].pc = "failing" /\ mgr[n].target = a
      BY <2>6
    <3>2. CASE n = m
      BY <1>2, <3>1, <3>2
    <3>3. CASE n # m
      BY <1>2, <3>1, <3>3
    <3>4. QED
      BY <3>2, <3>3
  <2>7. QED
    BY <2>3, <2>4, <2>5, <2>6 DEF NoAccountVanishes, At
<1>6. Course'
  BY CourseKept
<1>7. QED
  BY <1>3, <1>4, <1>5, <1>6

(* The state of a manager and of the files it may meet.                    *)
LEMMA ManagerFacts ==
  ASSUME TypeOK, NEW m \in Managers
  PROVE  /\ mgr[m].copy \in SUBSET Accounts /\ mgr[m].view \in SUBSET Accounts
         /\ mgr[m] \in [pc : ManagerPoints, copy : SUBSET Accounts,
                        target : Accounts \union {None},
                        view : SUBSET Accounts]
         /\ list \in SUBSET Accounts /\ quarantine \in SUBSET Accounts
         /\ lost \in SUBSET Accounts /\ audit \in SUBSET Accounts
         /\ torn \subseteq {"states", "audit"}
         /\ calm \in BOOLEAN
         /\ DOMAIN mgr = Managers /\ mgr = [mgr EXCEPT ![m] = mgr[m]]
  BY DEF TypeOK

(* A manager's step takes no account on the way out of the quarantine but  *)
(* the one it promotes.                                                    *)
LEMMA LeavingNext ==
  ASSUME TypeOK, NEW m \in Managers, NEW r, mgr' = [mgr EXCEPT ![m] = r]
  PROVE  Leaving' \subseteq
           Leaving \union (IF r.pc = "promoted" THEN {r.target} ELSE {})
<1>1. mgr'[m] = r /\ \A n \in Managers : n # m => mgr'[n] = mgr[n]
  BY DEF TypeOK
<1>2. QED
  BY <1>1 DEF Leaving

LEMMA OpenStep ==
  ASSUME TypeOK, Points, NoAccountVanishes, Course, NEW m \in Managers, Open(m)
  PROVE  TypeOK' /\ Points' /\ NoAccountVanishes' /\ Course'
<1> DEFINE r == [mgr[m] EXCEPT !.pc = "up", !.copy = quarantine]
<1>1. /\ mgr[m].pc = "down" /\ mgr' = [mgr EXCEPT ![m] = r]
      /\ UNCHANGED <<files, batch, rebuild, lost, calm>>
  BY ManagerFacts DEF Open, At
<1>2. /\ r \in [pc : ManagerPoints, copy : SUBSET Accounts,
                target : Accounts \union {None}, view : SUBSET Accounts]
      /\ r.pc = "up"
  BY ManagerFacts DEF ManagerPoints
<1> HIDE DEF r
<1>3. calm' = (calm /\ UNCHANGED files)
  BY <1>1, ManagerFacts
<1>4. Leaving' \subseteq
          Leaving \union (IF r.pc = "promoted" THEN {r.target} ELSE {})
  BY <1>1, <1>2, <1>3, LeavingNext
<1>5. Safe \subseteq Safe' \union lost' 
  BY <1>1, <1>2, <1>3, <1>4 DEF Safe, files
<1>6. ManagerTyped(r)
  BY <1>1, <1>2, <1>3, <1>5, ClosedType, ManagerFacts DEF ManagerTyped, files
<1>7. ManagerKeeps(m, r)
  BY <1>1, <1>2, <1>3, <1>5, ClosedType, ManagerFacts DEF ManagerKeeps, files
<1>8. QED
  BY <1>1, <1>2, <1>3, <1>5, <1>6, <1>7, ManagerStep DEF files
LEMMA AddStep ==
  ASSUME TypeOK, Points, NoAccountVanishes, Course, NEW m \in Managers, Add(m)
  PROVE  TypeOK' /\ Points' /\ NoAccountVanishes' /\ Course'
<1>1. PICK a \in In("quarantined") :
         /\ mgr' = [mgr EXCEPT ![m].copy = @ \union {a}]
         /\ Save(mgr'[m].copy, {})
  BY DEF Add
<1> DEFINE r == [mgr[m] EXCEPT !.copy = @ \union {a}]
<1>2. /\ mgr[m].pc = "up" /\ mgr' = [mgr EXCEPT ![m] = r] /\ mgr'[m] = r
      /\ UNCHANGED <<log, audit, torn, failures, batch, rebuild>>
      /\ calm' = (calm /\ UNCHANGED files) /\ a \in Accounts
  BY <1>1, ManagerFacts DEF Add, At, Quiet, In
<1>3. /\ r \in [pc : ManagerPoints, copy : SUBSET Accounts,
                target : Accounts \union {None}, view : SUBSET Accounts]
      /\ r.pc = "up" /\ r.copy \in SUBSET Accounts
  BY <1>2, ManagerFacts
<1>4. /\ list' = list /\ quarantine' = r.copy
      /\ lost' = (lost \union ((quarantine \ r.copy) \ {})) \ Safe'
  BY <1>1, <1>2 DEF Save, Drop
<1> HIDE DEF r
<1>5. Leaving' \subseteq
          Leaving \union (IF r.pc = "promoted" THEN {r.target} ELSE {})
  BY <1>2, <1>3, <1>4, LeavingNext
<1>6. Safe \subseteq Safe' \union lost' 
  BY <1>2, <1>3, <1>4, <1>5 DEF Safe
<1>7. ManagerTyped(r)
  BY <1>2, <1>3, <1>4, <1>6, ClosedType, ManagerFacts DEF ManagerTyped
<1>8. ManagerKeeps(m, r)
  BY <1>2, <1>3, <1>4, <1>6, ClosedType, ManagerFacts DEF ManagerKeeps
<1>9. QED
  BY <1>2, <1>3, <1>4, <1>6, <1>7, <1>8, ManagerStep
LEMMA RecheckStep ==
  ASSUME TypeOK, Points, NoAccountVanishes, Course, NEW m \in Managers, Recheck(m)
  PROVE  TypeOK' /\ Points' /\ NoAccountVanishes' /\ Course'
<1>1. /\ mgr[m].pc = "up" /\ mgr' = mgr
      /\ UNCHANGED <<log, audit, torn, failures, batch, rebuild>>
      /\ calm' = (calm /\ UNCHANGED files)
      /\ list' = list /\ quarantine' = mgr[m].copy
      /\ lost' = (lost \union ((quarantine \ mgr[m].copy) \ {})) \ Safe'
  BY DEF Recheck, At, Quiet, Save, Drop
<1>2. mgr' = [mgr EXCEPT ![m] = mgr[m]]
  BY <1>1, ManagerFacts
<1>3. Leaving' \subseteq
          Leaving \union (IF mgr[m].pc = "promoted" THEN {mgr[m].target} ELSE {})
  BY <1>1, <1>2, LeavingNext
<1>4. Safe \subseteq Safe' \union lost' 
  BY <1>1, <1>2, <1>3 DEF Safe
<1>5. ManagerTyped(mgr[m])
  BY <1>1, <1>2, <1>4, ClosedType, ManagerFacts DEF ManagerTyped
<1>6. ManagerKeeps(m, mgr[m])
  BY <1>1, <1>2, <1>4, ClosedType, ManagerFacts DEF ManagerKeeps
<1>7. QED
  BY <1>1, <1>2, <1>4, <1>5, <1>6, ManagerStep
LEMMA DropFailedStep ==
  ASSUME TypeOK, Points, NoAccountVanishes, Course, NEW m \in Managers,
         DropFailed(m)
  PROVE  TypeOK' /\ Points' /\ NoAccountVanishes' /\ Course'
<1>1. PICK a \in mgr[m].copy :
         /\ mgr' = [mgr EXCEPT ![m].copy = @ \ {a}, ![m].target = a,
                               ![m].pc = "failing"]
         /\ Save(mgr'[m].copy, {a})
  BY DEF DropFailed
<1> DEFINE r == [mgr[m] EXCEPT !.copy = @ \ {a}, !.target = a, !.pc = "failing"]
<1>2. /\ mgr[m].pc = "up" /\ mgr' = [mgr EXCEPT ![m] = r] /\ mgr'[m] = r
      /\ UNCHANGED <<log, audit, torn, failures, batch, rebuild>>
      /\ calm' = (calm /\ UNCHANGED files) /\ a \in Accounts
  BY <1>1, ManagerFacts DEF DropFailed, At, Quiet
<1>3. /\ r \in [pc : ManagerPoints, copy : SUBSET Accounts,
                target : Accounts \union {None}, view : SUBSET Accounts]
      /\ r.pc = "failing" /\ r.target = a /\ r.copy \in SUBSET Accounts
  BY <1>2, ManagerFacts DEF ManagerPoints
<1>4. /\ list' = list /\ quarantine' = r.copy
      /\ lost' = (lost \union ((quarantine \ r.copy) \ {a})) \ Safe'
  BY <1>1, <1>2 DEF Save, Drop
<1> HIDE DEF r
<1>5. Leaving' \subseteq
          Leaving \union (IF r.pc = "promoted" THEN {r.target} ELSE {})
  BY <1>2, <1>3, <1>4, LeavingNext
<1>6. Safe \subseteq Safe' \union lost' \union {a}
  BY <1>2, <1>3, <1>4, <1>5 DEF Safe
<1>7. ManagerTyped(r)
  BY <1>2, <1>3, <1>4, <1>6, ClosedType, ManagerFacts DEF ManagerTyped
<1>8. ManagerKeeps(m, r)
  BY <1>2, <1>3, <1>4, <1>6, ClosedType, ManagerFacts DEF ManagerKeeps
<1>9. QED
  BY <1>2, <1>3, <1>4, <1>6, <1>7, <1>8, ManagerStep
LEMMA AuditFailedStep ==
  ASSUME TypeOK, Points, NoAccountVanishes, Course, NEW m \in Managers,
         AuditFailed(m)
  PROVE  TypeOK' /\ Points' /\ NoAccountVanishes' /\ Course'
<1> DEFINE r == [mgr[m] EXCEPT !.pc = "up", !.target = None]
<1>1. /\ mgr[m].pc = "failing" /\ mgr' = [mgr EXCEPT ![m] = r]
      /\ audit' = audit \union {mgr[m].target} /\ mgr[m].target \in Accounts
      /\ UNCHANGED <<log, torn, list, quarantine, failures, batch, rebuild, lost>>
      /\ calm' = (calm /\ UNCHANGED files)
  BY ManagerFacts DEF AuditFailed, At, Quiet, Points
<1>2. /\ r \in [pc : ManagerPoints, copy : SUBSET Accounts,
                target : Accounts \union {None}, view : SUBSET Accounts]
      /\ r.pc = "up"
  BY ManagerFacts DEF ManagerPoints
<1> HIDE DEF r
<1>3. Leaving' \subseteq
          Leaving \union (IF r.pc = "promoted" THEN {r.target} ELSE {})
  BY <1>1, <1>2, LeavingNext
<1>4. Safe \subseteq Safe' \union lost' 
  BY <1>1, <1>2, <1>3 DEF Safe
<1>5. ManagerTyped(r)
  BY <1>1, <1>2, <1>4, ClosedType, ManagerFacts DEF ManagerTyped
<1>6. ManagerKeeps(m, r)
  BY <1>1, <1>2, <1>4, ClosedType, ManagerFacts DEF ManagerKeeps
<1>7. QED
  BY <1>1, <1>2, <1>4, <1>5, <1>6, ManagerStep
LEMMA PopStep ==
  ASSUME TypeOK, Points, NoAccountVanishes, Course, NEW m \in Managers, Pop(m)
  PROVE  TypeOK' /\ Points' /\ NoAccountVanishes' /\ Course'
<1>1. PICK a \in mgr[m].copy :
         mgr' = [mgr EXCEPT ![m].copy = @ \ {a}, ![m].target = a,
                            ![m].view = list, ![m].pc = "promoting"]
  BY DEF Pop
<1> DEFINE r == [mgr[m] EXCEPT !.copy = @ \ {a}, !.target = a, !.view = list,
                               !.pc = "promoting"]
<1>2. /\ mgr[m].pc = "up" /\ mgr' = [mgr EXCEPT ![m] = r] /\ a \in Accounts
      /\ UNCHANGED <<files, batch, rebuild, lost, calm>>
  BY <1>1, ManagerFacts DEF Pop, At
<1>3. /\ r \in [pc : ManagerPoints, copy : SUBSET Accounts,
                target : Accounts \union {None}, view : SUBSET Accounts]
      /\ r.pc = "promoting" /\ r.target = a
  BY <1>2, ManagerFacts DEF ManagerPoints
<1> HIDE DEF r
<1>4. calm' = (calm /\ UNCHANGED files)
  BY <1>2, ManagerFacts
<1>5. Leaving' \subseteq
          Leaving \union (IF r.pc = "promoted" THEN {r.target} ELSE {})
  BY <1>2, <1>3, <1>4, LeavingNext
<1>6. Safe \subseteq Safe' \union lost' 
  BY <1>2, <1>3, <1>4, <1>5 DEF Safe, files
<1>7. ManagerTyped(r)
  BY <1>2, <1>3, <1>4, <1>6, ClosedType, ManagerFacts DEF ManagerTyped, files
<1>8. ManagerKeeps(m, r)
  BY <1>2, <1>3, <1>4, <1>6, ClosedType, ManagerFacts DEF ManagerKeeps, files
<1>9. QED
  BY <1>2, <1>3, <1>4, <1>6, <1>7, <1>8, ManagerStep DEF files
LEMMA PromoteStep ==
  ASSUME TypeOK, Points, NoAccountVanishes, Course, NEW m \in Managers, Promote(m)
  PROVE  TypeOK' /\ Points' /\ NoAccountVanishes' /\ Course'
<1> DEFINE r == [mgr[m] EXCEPT !.pc = "promoted", !.view = {}]
<1>1. /\ mgr[m].pc = "promoting" /\ mgr' = [mgr EXCEPT ![m] = r]
      /\ list' = mgr[m].view \union {mgr[m].target} /\ mgr[m].target \in Accounts
      /\ UNCHANGED <<log, audit, torn, quarantine, failures, batch, rebuild>>
      /\ lost' = (lost \union (list \ list')) \ Safe'
      /\ calm' = (calm /\ UNCHANGED files)
  BY ManagerFacts DEF Promote, At, Quiet, Points, Drop
<1>2. /\ r \in [pc : ManagerPoints, copy : SUBSET Accounts,
                target : Accounts \union {None}, view : SUBSET Accounts]
      /\ r.pc = "promoted" /\ r.target = mgr[m].target
  BY ManagerFacts DEF ManagerPoints
<1> HIDE DEF r
<1>3. Leaving' \subseteq
          Leaving \union (IF r.pc = "promoted" THEN {r.target} ELSE {})
  BY <1>1, <1>2, LeavingNext
<1>4. Safe \subseteq Safe' \union lost' 
  BY <1>1, <1>2, <1>3 DEF Safe
<1>5. ManagerTyped(r)
  BY <1>1, <1>2, <1>4, ClosedType, ManagerFacts DEF ManagerTyped
<1>6. ManagerKeeps(m, r)
  BY <1>1, <1>2, <1>4, ClosedType, ManagerFacts DEF ManagerKeeps
<1>7. QED
  BY <1>1, <1>2, <1>4, <1>5, <1>6, ManagerStep
LEMMA PromotedStep ==
  ASSUME TypeOK, Points, NoAccountVanishes, Course, NEW m \in Managers,
         Promoted(m)
  PROVE  TypeOK' /\ Points' /\ NoAccountVanishes' /\ Course'
<1> DEFINE r == [mgr[m] EXCEPT !.pc = "up", !.target = None]
<1>1. /\ mgr[m].pc = "promoted" /\ mgr' = [mgr EXCEPT ![m] = r]
      /\ UNCHANGED <<log, audit, torn, failures, batch, rebuild>>
      /\ list' = list /\ quarantine' = mgr[m].copy
      /\ lost' = (lost \union ((quarantine \ mgr[m].copy) \ {mgr[m].target})) \ Safe'
      /\ calm' = (calm /\ UNCHANGED files)
  BY ManagerFacts DEF Promoted, At, Quiet, Save, Drop
<1>2. /\ r \in [pc : ManagerPoints, copy : SUBSET Accounts,
                target : Accounts \union {None}, view : SUBSET Accounts]
      /\ r.pc = "up"
  BY ManagerFacts DEF ManagerPoints
<1> HIDE DEF r
<1>3. Leaving' \subseteq
          Leaving \union (IF r.pc = "promoted" THEN {r.target} ELSE {})
  BY <1>1, <1>2, LeavingNext
<1>4. Safe \subseteq Safe' \union lost' 
  BY <1>1, <1>2, <1>3 DEF Safe, Leaving
<1>5. ManagerTyped(r)
  BY <1>1, <1>2, <1>4, ClosedType, ManagerFacts DEF ManagerTyped
<1>6. ManagerKeeps(m, r)
  BY <1>1, <1>2, <1>4, ClosedType, ManagerFacts DEF ManagerKeeps
<1>7. QED
  BY <1>1, <1>2, <1>4, <1>5, <1>6, ManagerStep
LEMMA CloseStep ==
  ASSUME TypeOK, Points, NoAccountVanishes, Course, NEW m \in Managers, Close(m)
  PROVE  TypeOK' /\ Points' /\ NoAccountVanishes' /\ Course'
<1> DEFINE dropped == IF mgr[m].pc = "failing" THEN {mgr[m].target} ELSE {}
<1>1. /\ mgr' = [mgr EXCEPT ![m] = Closed]
      /\ torn' = torn \/ torn' = torn \union {"audit"}
      /\ UNCHANGED <<log, audit, list, quarantine, failures, batch, rebuild>>
      /\ lost' = (lost \union dropped) \ Safe'
      /\ calm' = (calm /\ UNCHANGED files)
  BY DEF Close, At, Quiet, Drop
<1>2. dropped \in SUBSET Accounts
  BY DEF Points
<1>3. mgr[m].pc = "failing" => dropped = {mgr[m].target}
  OBVIOUS
<1> HIDE DEF dropped
<1>4. Leaving' \subseteq
          Leaving \union (IF Closed.pc = "promoted" THEN {Closed.target} ELSE {})
  BY <1>1, <1>2, <1>3, LeavingNext
<1>5. Safe \subseteq Safe' \union lost' 
  BY <1>1, <1>2, <1>3, <1>4, ClosedType DEF Safe
<1>6. ManagerTyped(Closed)
  BY <1>1, <1>2, <1>3, <1>5, ClosedType, ManagerFacts DEF ManagerTyped
<1>7. ManagerKeeps(m, Closed)
  BY <1>1, <1>2, <1>3, <1>5, ClosedType, ManagerFacts DEF ManagerKeeps
<1>8. QED
  BY <1>1, <1>2, <1>3, <1>5, <1>6, <1>7, ManagerStep
-----------------------------------------------------------------------------
(* The rebuild.                                                            *)

LEMMA ReadLogsStep ==
  ASSUME TypeOK, Points, NoAccountVanishes, Course, ReadLogs
  PROVE  TypeOK' /\ Points' /\ NoAccountVanishes' /\ Course'
<1>1. /\ rebuild' = [pc |-> "list", plan |-> log] /\ calm' = TRUE
      /\ UNCHANGED <<log, audit, torn, list, quarantine, failures, batch, mgr, lost>>
  BY DEF ReadLogs, files
<1>2. TypeOK'
  BY <1>1 DEF TypeOK, RebuildPoints
<1>3. Points'
  BY <1>1 DEF Points
<1>4. NoAccountVanishes'
  BY <1>1 DEF NoAccountVanishes, Safe, Leaving, At, In
<1>5. Course'
  BY <1>1 DEF Course, RebuildOnCourse, RebuildSettles
<1>6. QED
  BY <1>2, <1>3, <1>4, <1>5

LEMMA RebuildListStep ==
  ASSUME TypeOK, Points, NoAccountVanishes, Course, RebuildList
  PROVE  TypeOK' /\ Points' /\ NoAccountVanishes' /\ Course'
<1>1. /\ rebuild.pc = "list" /\ list' = Planned("exportable")
      /\ rebuild' = [rebuild EXCEPT !.pc = "quarantine"]
      /\ lost' = (lost \union (list \ list')) \ Safe'
      /\ UNCHANGED <<log, audit, torn, quarantine, failures, batch, mgr, calm>>
  BY DEF RebuildList, RebuildGoes, Drop
<1>2. /\ rebuild'.pc = "quarantine" /\ rebuild'.plan = rebuild.plan
      /\ rebuild' \in [pc : RebuildPoints, plan : [Accounts -> Stages]]
  BY <1>1 DEF TypeOK, RebuildPoints
<1>3. list' \in SUBSET Accounts /\ lost' \in SUBSET Accounts
  BY <1>1 DEF Planned, TypeOK
<1>4. TypeOK'
  BY <1>1, <1>2, <1>3 DEF TypeOK
<1>5. Points'
  BY <1>1 DEF Points
<1>6. NoAccountVanishes'
  <2>1. In("quarantined")' = In("quarantined")
    BY <1>1 DEF In
  <2>2. Safe \union lost \subseteq Safe' \union lost'
    BY <1>1 DEF Safe, Leaving
  <2>3. QED
    BY <1>1, <2>1, <2>2 DEF NoAccountVanishes, At
<1>7. Course'
  <2>1. calm => rebuild.plan = log /\ list' = In("exportable")
    BY <1>1 DEF Course, RebuildOnCourse, Planned, In
  <2>2. QED
    BY <1>1, <1>2, <2>1 DEF Course, RebuildOnCourse, RebuildSettles, In
<1>8. QED
  BY <1>4, <1>5, <1>6, <1>7

LEMMA RebuildQuarantineStep ==
  ASSUME TypeOK, Points, NoAccountVanishes, Course, RebuildQuarantine
  PROVE  TypeOK' /\ Points' /\ NoAccountVanishes' /\ Course'
<1>1. /\ rebuild.pc = "quarantine"
      /\ quarantine' = Planned("quarantined") \union Planned("audited")
      /\ rebuild' = [rebuild EXCEPT !.pc = "failures"]
      /\ lost' = (lost \union (quarantine \ quarantine')) \ Safe'
      /\ UNCHANGED <<log, audit, torn, list, failures, batch, mgr, calm>>
  BY DEF RebuildQuarantine, RebuildGoes, Drop
<1>2. /\ rebuild'.pc = "failures" /\ rebuild'.plan = rebuild.plan
      /\ rebuild' \in [pc : RebuildPoints, plan : [Accounts -> Stages]]
  BY <1>1 DEF TypeOK, RebuildPoints
<1>3. quarantine' \in SUBSET Accounts /\ lost' \in SUBSET Accounts
  BY <1>1 DEF Planned, TypeOK
<1>4. TypeOK'
  BY <1>1, <1>2, <1>3 DEF TypeOK
<1>5. Points'
  BY <1>1 DEF Points
<1>6. /\ In("quarantined")' = In("quarantined") /\ In("audited")' = In("audited")
      /\ In("exportable")' = In("exportable")
  BY <1>1 DEF In
<1>7. NoAccountVanishes'
  <2>1. Safe \union lost \subseteq Safe' \union lost'
    BY <1>1 DEF Safe, Leaving
  <2>2. QED
    BY <1>1, <1>6, <2>1 DEF NoAccountVanishes, At
<1>8. Course'
  <2>1. calm => /\ rebuild.plan = log /\ list = In("exportable")
                /\ quarantine' = In("quarantined") \union In("audited")
    BY <1>1 DEF Course, RebuildOnCourse, Planned, In
  <2>2. QED
    BY <1>1, <1>2, <1>6, <2>1 DEF Course, RebuildOnCourse, RebuildSettles
<1>9. QED
  BY <1>4, <1>5, <1>7, <1>8

LEMMA RebuildFailuresStep ==
  ASSUME TypeOK, Points, NoAccountVanishes, Course, RebuildFailures
  PROVE  TypeOK' /\ Points' /\ NoAccountVanishes' /\ Course'
<1>1. /\ \/ /\ rebuild.pc = "failures" /\ failures' = {}
            /\ rebuild' = [rebuild EXCEPT !.pc = "lines"]
         \/ /\ rebuild.pc = "lines" /\ rebuild' = Unplanned("done")
            /\ \E kept \in SUBSET failures : failures' = kept \union Planned("failed")
      /\ UNCHANGED <<log, audit, torn, list, quarantine, batch, mgr, lost, calm>>
  BY DEF RebuildFailures, RebuildGoes
<1>2. /\ \/ rebuild'.pc = "lines" /\ rebuild'.plan = rebuild.plan
         \/ rebuild'.pc = "done"
      /\ rebuild' \in [pc : RebuildPoints, plan : [Accounts -> Stages]]
  <2>1. CASE rebuild' = [rebuild EXCEPT !.pc = "lines"]
    BY <2>1 DEF TypeOK, RebuildPoints
  <2>2. CASE rebuild' = Unplanned("done")
    BY <2>2, UnplannedType DEF RebuildPoints
  <2>3. QED
    BY <1>1, <2>1, <2>2
<1>3. failures' \in SUBSET Accounts
  BY <1>1 DEF Planned, TypeOK
<1>4. TypeOK'
  BY <1>1, <1>2, <1>3 DEF TypeOK
<1>5. Points'
  BY <1>1 DEF Points
<1>6. /\ In("quarantined")' = In("quarantined") /\ In("audited")' = In("audited")
      /\ In("exportable")' = In("exportable") /\ In("failed")' = In("failed")
  BY <1>1 DEF In
<1>7. NoAccountVanishes'
  BY <1>1, <1>6 DEF NoAccountVanishes, Safe, Leaving, At
<1>8. Course'
  <2>1. CASE rebuild.pc = "failures"
    <3>1. rebuild'.pc = "lines" /\ rebuild'.plan = rebuild.plan /\ failures' = {}
      BY <1>1, <2>1 DEF TypeOK
    <3>2. QED
      BY <1>1, <1>6, <2>1, <3>1 DEF Course, RebuildOnCourse, RebuildSettles
  <2>2. CASE rebuild.pc = "lines"
    <3>1. rebuild'.pc = "done"
      BY <1>1, <2>2, UnplannedType DEF RebuildPoints
    <3>2. calm => failures' = In("failed")
      BY <1>1, <2>2 DEF Course, RebuildOnCourse, Planned, In
    <3>3. QED
      BY <1>1, <1>6, <2>2, <3>1, <3>2 DEF Course, RebuildOnCourse, RebuildSettles
  <2>3. QED
    BY <1>1, <2>1, <2>2
<1>9. QED
  BY <1>4, <1>5, <1>7, <1>8

LEMMA RebuildDiesStep ==
  ASSUME TypeOK, Points, NoAccountVanishes, Course, RebuildDies
  PROVE  TypeOK' /\ Points' /\ NoAccountVanishes' /\ Course'
<1>1. /\ rebuild' = Unplanned("off")
      /\ failures' \in SUBSET Accounts
      /\ UNCHANGED <<log, audit, torn, list, quarantine, batch, mgr, lost, calm>>
  BY DEF RebuildDies, TypeOK, Planned
<1>2. /\ rebuild'.pc = "off"
      /\ rebuild' \in [pc : RebuildPoints, plan : [Accounts -> Stages]]
  BY <1>1, UnplannedType DEF RebuildPoints
<1>3. TypeOK'
  BY <1>1, <1>2 DEF TypeOK
<1>4. Points'
  BY <1>1 DEF Points
<1>5. NoAccountVanishes'
  BY <1>1 DEF NoAccountVanishes, Safe, Leaving, At, In
<1>6. Course'
  BY <1>2 DEF Course, RebuildOnCourse, RebuildSettles
<1>7. QED
  BY <1>3, <1>4, <1>5, <1>6

-----------------------------------------------------------------------------

LEMMA StepParts ==
  ASSUME TypeOK, Points, NoAccountVanishes, Course, [Next]_vars
  PROVE  TypeOK' /\ Points' /\ NoAccountVanishes' /\ Course'
<1>1. CASE UNCHANGED vars
  <2>1. UNCHANGED <<log, audit, torn, list, quarantine, failures, batch, mgr,
                    rebuild, lost, calm>>
    BY <1>1 DEF vars, files
  <2>2. TypeOK' /\ Points' /\ NoAccountVanishes'
    BY <2>1 DEF TypeOK, Points, NoAccountVanishes, Safe, Leaving, At, In
  <2>3. Course'
    BY <2>1, CourseKept DEF files
  <2>4. QED
    BY <2>2, <2>3
<1>2. CASE \/ Begin \/ Register \/ LoadList \/ StoreList \/ Record
           \/ Finalize \/ AppendFailure \/ BatchDies
  BY <1>2, BeginStep, RegisterStep, LoadListStep, StoreListStep, RecordStep,
     FinalizeStep, AppendFailureStep, BatchDiesStep
<1>3. CASE \E m \in Managers :
              \/ Open(m) \/ Add(m) \/ Recheck(m) \/ DropFailed(m)
              \/ AuditFailed(m) \/ Pop(m) \/ Promote(m) \/ Promoted(m) \/ Close(m)
  BY <1>3, OpenStep, AddStep, RecheckStep, DropFailedStep, AuditFailedStep,
     PopStep, PromoteStep, PromotedStep, CloseStep
<1>4. CASE \/ ReadLogs \/ RebuildList \/ RebuildQuarantine \/ RebuildFailures
           \/ RebuildDies
  BY <1>4, ReadLogsStep, RebuildListStep, RebuildQuarantineStep,
     RebuildFailuresStep, RebuildDiesStep
<1>5. QED
  BY <1>1, <1>2, <1>3, <1>4 DEF Next

(* The invariant holds in every reachable state.                           *)
THEOREM Invariance == Spec => []IInv
<1> DEFINE Ind == TypeOK /\ Points /\ NoAccountVanishes /\ Course
<1>1. Init => Ind
  BY InitIInv, Parts
<1>2. Ind /\ [Next]_vars => Ind'
  BY StepParts
<1>3. Ind => IInv
  BY Parts
<1>4. QED
  BY <1>1, <1>2, <1>3, PTL DEF Spec

(* An account the log calls quarantined becomes unsafe only by the ways    *)
(* named, whatever crashes, stale copies and rebuilds come in between; a   *)
(* promotion (puter_register_v2.py:1030) takes nothing out of quarantine   *)
(* that it has not put on the list before.                                 *)
THEOREM AccountsStay == Spec => []NoAccountVanishes
<1>1. IInv => NoAccountVanishes
  BY DEF IInv
<1>2. QED
  BY <1>1, Invariance, PTL

(* A rebuild (restore_puter_v2.py:60) nobody writes beside makes the files *)
(* what the log says, whatever state it found them in.                     *)
THEOREM RebuildsSettle == Spec => []RebuildSettles
<1>1. IInv => RebuildSettles
  BY DEF IInv
<1>2. QED
  BY <1>1, Invariance, PTL
=============================================================================
