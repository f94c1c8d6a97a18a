----------------------------- MODULE PoolProofs -----------------------------
(* Proofs about the gateway, the commands beside it and the two together,  *)
(* for any keys, pools, requests and channels.                             *)
EXTENDS PoolSystem, FiniteSetTheorems, TLAPS

-----------------------------------------------------------------------------
(* The flags of the keys.                                                  *)

(* A set of flags with one flag set or one more key is a set of flags.     *)
LEMMA FlagsOver ==
  ASSUME NEW K \in SUBSET Keys, NEW f \in [K -> BOOLEAN]
  PROVE  f \in Flags
  BY DEF Flags

LEMMA FlagsShape ==
  ASSUME NEW f \in Flags
  PROVE  DOMAIN f \subseteq Keys /\ f \in [DOMAIN f -> BOOLEAN]
  BY DEF Flags

LEMMA NoFlagsTyped == NoFlags \in Flags /\ DOMAIN NoFlags = {}
<1>1. NoFlags \in [{} -> BOOLEAN] /\ DOMAIN NoFlags = {}
  BY DEF NoFlags
<1>2. QED
  BY <1>1, FlagsOver

LEMMA InitFlags == FlagsInit => FlagsTyped /\ SavedInv
  BY NoFlagsTyped DEF FlagsInit, FlagsTyped, SavedInv

(* What Load makes of the file is a set of flags, and it keeps the flag of *)
(* every key that is in both.                                              *)
LEMMA Loaded ==
  ASSUME FlagsTyped, Load
  PROVE  /\ health' \in Flags
         /\ \A k \in DOMAIN health' \intersect DOMAIN file : health'[k] = file[k]
<1>1. PICK listed \in SUBSET Keys :
         health' = [k \in listed |-> IF k \in DOMAIN file THEN file[k] ELSE TRUE]
  BY DEF Load
<1>2. \A k \in DOMAIN file : file[k] \in BOOLEAN
  BY FlagsShape DEF FlagsTyped
<1>3. health' \in [listed -> BOOLEAN]
  BY <1>1, <1>2
<1>4. QED
  BY <1>1, <1>3, FlagsOver

LEMMA FlagSet ==
  ASSUME FlagsTyped, SetFlag
  PROVE  health' \in Flags
<1>1. PICK k \in DOMAIN health, flag \in BOOLEAN :
         health' = [health EXCEPT ![k] = flag]
  BY DEF SetFlag
<1>2. DOMAIN health \subseteq Keys /\ health \in [DOMAIN health -> BOOLEAN]
  BY FlagsShape DEF FlagsTyped
<1>3. health' \in [DOMAIN health -> BOOLEAN]
  BY <1>1, <1>2
<1>4. QED
  BY <1>2, <1>3, FlagsOver

LEMMA FlagsStep == FlagsTyped /\ [FlagsNext]_flagVars => FlagsTyped'
<1> SUFFICES ASSUME FlagsTyped, [FlagsNext]_flagVars PROVE FlagsTyped'
  OBVIOUS
<1>1. CASE Load
  BY <1>1, Loaded DEF Load, FlagsTyped
<1>2. CASE Save \/ Die
  BY <1>2, NoFlagsTyped DEF Save, Die, FlagsTyped
<1>3. CASE SetFlag
  BY <1>3, FlagSet DEF SetFlag, FlagsTyped
<1>4. CASE UNCHANGED flagVars
  BY <1>4 DEF flagVars, FlagsTyped
<1>5. QED
  BY <1>1, <1>2, <1>3, <1>4 DEF FlagsNext

(* A gateway that stops leaves its flags in the file, one that dies keeps  *)
(* none.                                                                   *)
LEMMA SavedStep == FlagsTyped /\ SavedInv /\ [FlagsNext]_flagVars => SavedInv'
<1> SUFFICES ASSUME FlagsTyped, SavedInv, [FlagsNext]_flagVars PROVE SavedInv'
  OBVIOUS
<1>1. CASE Load \/ SetFlag
  <2>1. up' = TRUE
    BY <1>1 DEF Load, SetFlag, FlagsTyped
  <2>2. QED
    BY <2>1 DEF SavedInv
<1>2. CASE Save
  BY <1>2 DEF Save, SavedInv
<1>3. CASE Die
  BY <1>3, NoFlagsTyped DEF Die, SavedInv
<1>4. CASE UNCHANGED flagVars
  BY <1>4 DEF flagVars, SavedInv
<1>5. QED
  BY <1>1, <1>2, <1>3, <1>4 DEF FlagsNext

-----------------------------------------------------------------------------
(* The records the actions write.                                          *)

LEMMA IdleTyped == Idle \in Request
  BY DEF Idle, Request, MaxAttempts

LEMMA AsleepTyped == Asleep \in Probe
  BY DEF Asleep, Probe

LEMMA RequestFields ==
  ASSUME NEW q \in Request
  PROVE  /\ q.pc \in {"idle", "pick", "once", "stream"}
         /\ q.pool \in Pools \union {None} /\ q.stream \in BOOLEAN
         /\ q.left \in 0..MaxAttempts /\ q.key \in Keys \union {None}
  BY DEF Request

(* Marking a key in memory changes no other flag and adds no key.          *)
LEMMA HealthSet ==
  ASSUME TypeOK, NEW k, NEW b \in BOOLEAN, SetHealth(k, b)
  PROVE  /\ health' \in Flags
         /\ DOMAIN health' = DOMAIN health
         /\ \A j \in DOMAIN health : j # k => health'[j] = health[j]
         /\ k \in DOMAIN health => health'[k] = b
<1>1. DOMAIN health \subseteq Keys /\ health \in [DOMAIN health -> BOOLEAN]
  BY FlagsShape DEF TypeOK, FlagsTyped
<1>2. health' \in [DOMAIN health -> BOOLEAN] /\ DOMAIN health' = DOMAIN health
  BY <1>1 DEF SetHealth
<1>3. health' \in Flags
  BY <1>1, <1>2, FlagsOver
<1>4. QED
  BY <1>1, <1>2, <1>3 DEF SetHealth

-----------------------------------------------------------------------------
(* The steps of the process and of the world.                              *)

LEMMA CutDown ==
  ASSUME Cut
  PROVE  /\ req' \in [Requests -> Request] /\ probe' \in [Tasks -> Probe]
         /\ \A r \in Requests : req'[r] = Idle
         /\ \A t \in Tasks : probe'[t] = Asleep
         /\ AttemptInv' /\ ProbeInv'
<1>1. /\ req' \in [Requests -> Request] /\ probe' \in [Tasks -> Probe]
      /\ \A r \in Requests : req'[r] = Idle
      /\ \A t \in Tasks : probe'[t] = Asleep
  BY IdleTyped, AsleepTyped DEF Cut
<1>2. Idle.pc = "idle" /\ Asleep.live = FALSE
  BY DEF Idle, Asleep
<1>3. QED
  BY <1>1, <1>2 DEF AttemptInv, ProbeInv

LEMMA StartStep == IInv /\ Start => IInv'
<1> SUFFICES ASSUME IInv, Start PROVE IInv'
  OBVIOUS
<1>1. PICK listed \in SUBSET Keys :
         /\ health' = Merge(listed)
         /\ probe' = [probe EXCEPT ![Startup].todo = listed]
  BY DEF Start
<1>2. \A k \in DOMAIN file : file[k] \in BOOLEAN
  BY FlagsShape DEF IInv, TypeOK, FlagsTyped
<1>3. health' \in [listed -> BOOLEAN]
  BY <1>1, <1>2 DEF Merge
<1>4. health' \in Flags
  BY <1>3, FlagsOver
<1>5. Startup \in Tasks /\ probe \in [Tasks -> Probe]
  BY DEF Tasks, IInv, TypeOK, FlagsTyped
<1>6. /\ probe' \in [Tasks -> Probe]
      /\ \A t \in Tasks : probe'[t].live = probe[t].live
                         /\ probe'[t].key = probe[t].key
  BY <1>1, <1>5 DEF Probe
<1>7. TypeOK'
  BY <1>4, <1>6 DEF Start, IInv, TypeOK, FlagsTyped
<1>8. AttemptInv' /\ ProbeInv' /\ DownInv'
  BY <1>6 DEF Start, IInv, AttemptInv, ProbeInv, DownInv
<1>9. QED
  BY <1>7, <1>8 DEF IInv

LEMMA PersistStep == IInv /\ Persist => IInv'
  BY DEF IInv, TypeOK, FlagsTyped, AttemptInv, ProbeInv, DownInv, Persist

LEMMA StopStep == IInv /\ Stop => IInv'
<1> SUFFICES ASSUME IInv, Stop PROVE IInv'
  OBVIOUS
<1>1. TypeOK'
  BY CutDown DEF Stop, IInv, TypeOK, FlagsTyped
<1>2. AttemptInv' /\ ProbeInv'
  BY CutDown DEF Stop
<1>3. DownInv'
  BY CutDown DEF Stop, DownInv
<1>4. QED
  BY <1>1, <1>2, <1>3 DEF IInv

LEMMA CrashStep == IInv /\ Crash => IInv'
<1> SUFFICES ASSUME IInv, Crash PROVE IInv'
  OBVIOUS
<1>1. NoFlags \in [{} -> BOOLEAN] /\ DOMAIN NoFlags = {}
  BY DEF NoFlags
<1>2. health' \in Flags /\ file' \in Flags
  BY <1>1, FlagsOver DEF Crash, IInv, TypeOK, FlagsTyped
<1>3. TypeOK'
  BY <1>2, CutDown DEF Crash, IInv, TypeOK, FlagsTyped
<1>4. AttemptInv' /\ ProbeInv'
  BY CutDown DEF Crash
<1>5. DownInv'
  BY <1>1, CutDown DEF Crash, DownInv
<1>6. QED
  BY <1>3, <1>4, <1>5 DEF IInv

LEMMA BanStep == IInv /\ Ban => IInv'
  BY DEF Ban, IInv, TypeOK, FlagsTyped, AttemptInv, ProbeInv, DownInv

-----------------------------------------------------------------------------
(* The steps of a request.                                                 *)

LEMMA RequestRuns ==
  ASSUME IInv, NEW r \in Requests, req[r].pc # "idle"
  PROVE  up
  BY DEF IInv, DownInv, Idle

(* A step that gives request r the record q, and perhaps marks a key.      *)
LEMMA RequestFrame ==
  ASSUME IInv, NEW r \in Requests, NEW q \in Request,
         up, up' = up, file' = file, banned' = banned, probe' = probe,
         health' \in Flags,
         req' = [req EXCEPT ![r] = q],
         q.pc \in {"once", "stream"} => q.key \in Keys /\ q.left > 0
  PROVE  IInv'
<1>1. req \in [Requests -> Request]
  BY DEF IInv, TypeOK, FlagsTyped
<1>2. /\ req' \in [Requests -> Request]
      /\ req'[r] = q /\ \A s \in Requests : s # r => req'[s] = req[s]
  BY <1>1
<1>3. TypeOK'
  BY <1>2 DEF IInv, TypeOK, FlagsTyped
<1>4. AttemptInv'
  <2>1. ASSUME NEW s \in Requests, req'[s].pc \in {"once", "stream"}
        PROVE  req'[s].key \in Keys /\ req'[s].left > 0
    BY <1>2, <2>1 DEF IInv, AttemptInv
  <2>2. QED
    BY <2>1 DEF AttemptInv
<1>5. ProbeInv' /\ DownInv'
  BY DEF IInv, ProbeInv, DownInv
<1>6. QED
  BY <1>3, <1>4, <1>5 DEF IInv

LEMMA ReceiveStep == \A r \in Requests : IInv /\ Receive(r) => IInv'
<1> SUFFICES ASSUME NEW r \in Requests, IInv, Receive(r) PROVE IInv'
  OBVIOUS
<1>1. PICK pool \in Pools, stream \in BOOLEAN :
         req' = [req EXCEPT ![r] =
             [pc |-> "pick", pool |-> pool, stream |-> stream, key |-> None,
              left |-> IF stream THEN 1 ELSE MaxAttempts]]
  BY DEF Receive
<1>2. PICK q : q = [pc |-> "pick", pool |-> pool, stream |-> stream,
                    key |-> None, left |-> IF stream THEN 1 ELSE MaxAttempts]
  OBVIOUS
<1>3. q \in Request /\ q.pc = "pick"
  BY <1>2 DEF Request, MaxAttempts
<1>4. QED
  BY <1>1, <1>2, <1>3, RequestFrame DEF Receive, IInv, TypeOK, FlagsTyped

LEMMA PickStep == \A r \in Requests : IInv /\ Pick(r) => IInv'
<1> SUFFICES ASSUME NEW r \in Requests, IInv, Pick(r) PROVE IInv'
  OBVIOUS
<1>1. PICK k \in HealthyKeys(req[r].pool) :
         req' = [req EXCEPT ![r] =
             [pc |-> IF @.stream THEN "stream" ELSE "once", pool |-> @.pool,
              stream |-> @.stream, left |-> @.left, key |-> k]]
  BY DEF Pick
<1>2. k \in Keys
  BY FlagsShape DEF HealthyKeys, IInv, TypeOK, FlagsTyped
<1>3. PICK a : a = req[r]
  OBVIOUS
<1>4. a \in Request /\ a.left > 0
  BY <1>3 DEF Pick, IInv, TypeOK, FlagsTyped
<1>5. PICK q : q = [pc |-> IF a.stream THEN "stream" ELSE "once", pool |-> a.pool,
                    stream |-> a.stream, left |-> a.left, key |-> k]
  OBVIOUS
<1>6. q \in Request /\ q.key \in Keys /\ q.left > 0
  BY <1>2, <1>4, <1>5 DEF Request
<1>7. req' = [req EXCEPT ![r] = q]
  BY <1>1, <1>3, <1>5 DEF IInv, TypeOK, FlagsTyped
<1>8. QED
  BY <1>6, <1>7, RequestFrame, RequestRuns DEF Pick, IInv, TypeOK, FlagsTyped

(* The answer goes to the client: by whichever action, the request is over.*)
LEMMA AnsweredStep ==
  \A r \in Requests : IInv /\ (Exhaust(r) \/ Succeed(r) \/ EndStream(r)) => IInv'
<1> SUFFICES ASSUME NEW r \in Requests, IInv,
                    Exhaust(r) \/ Succeed(r) \/ EndStream(r)
             PROVE  IInv'
  OBVIOUS
<1>1. /\ req[r].pc # "idle"
      /\ req' = [req EXCEPT ![r] = Idle]
      /\ UNCHANGED <<up, health, file, banned, probe>>
  BY DEF Exhaust, Succeed, EndStream
<1>2. Idle.pc = "idle"
  BY DEF Idle
<1>3. health \in Flags
  BY DEF IInv, TypeOK, FlagsTyped
<1>4. QED
  BY <1>1, <1>2, <1>3, IdleTyped, RequestRuns, RequestFrame

LEMMA FailedStep ==
  \A r \in Requests : IInv /\ (Refused(r) \/ Fail(r)) => IInv'
<1> SUFFICES ASSUME NEW r \in Requests, IInv, Refused(r) \/ Fail(r) PROVE IInv'
  OBVIOUS
<1>1. /\ req[r].pc = "once" /\ NextAttempt(r)
      /\ UNCHANGED <<up, file, banned, probe>>
  BY DEF Refused, Fail
<1>2. health' \in Flags
  BY HealthSet DEF Refused, Fail, IInv, TypeOK, FlagsTyped
<1>3. PICK a : a = req[r]
  OBVIOUS
<1>4. a \in Request /\ a.left > 0
  BY <1>1, <1>3 DEF IInv, TypeOK, FlagsTyped, AttemptInv
<1>5. PICK q : q = [pc |-> "pick", pool |-> a.pool, stream |-> a.stream,
                    left |-> a.left - 1, key |-> None]
  OBVIOUS
<1>6. q \in Request /\ q.pc = "pick"
  BY <1>4, <1>5 DEF Request, MaxAttempts
<1>7. req' = [req EXCEPT ![r] = q]
  BY <1>1, <1>3, <1>5 DEF NextAttempt, IInv, TypeOK, FlagsTyped
<1>8. QED
  BY <1>1, <1>2, <1>6, <1>7, RequestFrame, RequestRuns

-----------------------------------------------------------------------------
(* The steps of a probe.                                                   *)

LEMMA ProbeRuns ==
  ASSUME IInv, NEW t \in Tasks, probe[t] # Asleep
  PROVE  up
  BY DEF IInv, DownInv

(* A step that gives task t the record q, and perhaps marks a key.         *)
LEMMA ProbeFrame ==
  ASSUME IInv, NEW t \in Tasks, NEW q \in Probe,
         up, up' = up, file' = file, banned' = banned, req' = req,
         health' \in Flags,
         probe' = [probe EXCEPT ![t] = q],
         q.live => q.key \in Keys
  PROVE  IInv'
<1>1. probe \in [Tasks -> Probe]
  BY DEF IInv, TypeOK, FlagsTyped
<1>2. /\ probe' \in [Tasks -> Probe]
      /\ probe'[t] = q /\ \A s \in Tasks : s # t => probe'[s] = probe[s]
  BY <1>1
<1>3. TypeOK'
  BY <1>2 DEF IInv, TypeOK, FlagsTyped
<1>4. ProbeInv'
  <2>1. ASSUME NEW s \in Tasks, probe'[s].live PROVE probe'[s].key \in Keys
    BY <1>2, <2>1 DEF IInv, ProbeInv
  <2>2. QED
    BY <2>1 DEF ProbeInv
<1>5. AttemptInv' /\ DownInv'
  BY DEF IInv, AttemptInv, DownInv
<1>6. QED
  BY <1>3, <1>4, <1>5 DEF IInv

LEMMA WakeStep == IInv /\ Wake => IInv'
<1> SUFFICES ASSUME IInv, Wake PROVE IInv'
  OBVIOUS
<1>1. Loop \in Tasks
  BY DEF Tasks
<1>2. DOMAIN health \subseteq Keys
  BY FlagsShape DEF IInv, TypeOK, FlagsTyped
<1>3. PICK q : q = [todo |-> DOMAIN health, key |-> None, live |-> FALSE]
  OBVIOUS
<1>4. q \in Probe /\ ~q.live
  BY <1>2, <1>3 DEF Probe
<1>5. probe' = [probe EXCEPT ![Loop] = q]
  BY <1>3 DEF Wake
<1>6. QED
  BY <1>1, <1>4, <1>5, ProbeFrame DEF Wake, IInv, TypeOK, FlagsTyped

LEMMA AskStep == \A t \in Tasks : IInv /\ Ask(t) => IInv'
<1> SUFFICES ASSUME NEW t \in Tasks, IInv, Ask(t) PROVE IInv'
  OBVIOUS
<1>1. PICK k \in probe[t].todo :
         probe' = [probe EXCEPT ![t] =
             [todo |-> @.todo, key |-> k, live |-> k \notin banned]]
  BY DEF Ask
<1>2. PICK a : a = probe[t]
  OBVIOUS
<1>3. a \in Probe /\ k \in a.todo
  BY <1>1, <1>2 DEF IInv, TypeOK, FlagsTyped
<1>4. PICK b \in BOOLEAN : b = (k \notin banned)
  OBVIOUS
<1>5. PICK q : q = [todo |-> a.todo, key |-> k, live |-> b]
  OBVIOUS
<1>6. q \in Probe /\ q.key \in Keys
  BY <1>3, <1>5 DEF Probe
<1>7. probe' = [probe EXCEPT ![t] = q]
  BY <1>1, <1>2, <1>4, <1>5 DEF IInv, TypeOK, FlagsTyped
<1>8. up
  <2>1. a # Asleep
    BY <1>3 DEF Asleep
  <2>2. QED
    BY <1>2, <2>1, ProbeRuns
<1>9. QED
  BY <1>6, <1>7, <1>8, ProbeFrame DEF Ask, IInv, TypeOK, FlagsTyped

(* The answer is in, or will not come: the task goes on to the next key.   *)
LEMMA AnswerStep ==
  \A t \in Tasks :
      IInv /\ (Accept(t) \/ Unclear(t) \/ \E k \in Keys : Reject(t, k)) => IInv'
<1> SUFFICES ASSUME NEW t \in Tasks, IInv,
                    Accept(t) \/ Unclear(t) \/ \E k \in Keys : Reject(t, k)
             PROVE  IInv'
  OBVIOUS
<1>1. /\ Done(t)
      /\ UNCHANGED <<up, file, banned, req>>
  BY DEF Accept, Unclear, Reject
<1>2. health' \in Flags
  BY HealthSet DEF Accept, Unclear, Reject, IInv, TypeOK, FlagsTyped
<1>3. probe[t] # Asleep
  <2>1. Asleep.live = FALSE /\ Asleep.key = None
    BY DEF Asleep
  <2>2. CASE Accept(t)
    BY <2>1, <2>2 DEF Accept
  <2>3. CASE Unclear(t)
    BY <2>1, <2>3 DEF Unclear
  <2>4. CASE \E k \in Keys : Reject(t, k)
    BY <2>1, <2>4, NoneAssumption DEF Reject
  <2>5. QED
    BY <2>2, <2>3, <2>4
<1>4. PICK a : a = probe[t]
  OBVIOUS
<1>5. a \in Probe
  BY <1>4 DEF IInv, TypeOK, FlagsTyped
<1>6. PICK q : q = [todo |-> a.todo \ {a.key}, key |-> None, live |-> FALSE]
  OBVIOUS
<1>7. q \in Probe /\ ~q.live
  BY <1>5, <1>6 DEF Probe
<1>8. probe' = [probe EXCEPT ![t] = q]
  BY <1>1, <1>4, <1>6 DEF Done, IInv, TypeOK, FlagsTyped
<1>9. QED
  BY <1>1, <1>2, <1>3, <1>7, <1>8, ProbeFrame, ProbeRuns

-----------------------------------------------------------------------------

LEMMA InitIInv == Init => IInv
<1> SUFFICES ASSUME Init PROVE IInv
  OBVIOUS
<1>1. TypeOK
  BY InitFlags, IdleTyped, AsleepTyped DEF Init, TypeOK
<1>2. AttemptInv /\ ProbeInv /\ DownInv
  BY DEF Init, AttemptInv, ProbeInv, DownInv, Idle, Asleep
<1>3. QED
  BY <1>1, <1>2 DEF IInv

LEMMA NextIInv == IInv /\ [Next]_vars => IInv'
<1> SUFFICES ASSUME IInv, [Next]_vars PROVE IInv'
  OBVIOUS
<1>1. CASE Start \/ Persist \/ Stop \/ Crash \/ Ban \/ Wake
  BY <1>1, StartStep, PersistStep, StopStep, CrashStep, BanStep, WakeStep
<1>2. CASE \E r \in Requests : Receive(r) \/ Attempt(r)
  BY <1>2, ReceiveStep, PickStep, AnsweredStep, FailedStep DEF Attempt
<1>3. CASE \E t \in Tasks :
              Ask(t) \/ Accept(t) \/ Unclear(t) \/ \E k \in Keys : Reject(t, k)
  BY <1>3, AskStep, AnswerStep
<1>4. CASE UNCHANGED vars
  BY <1>4 DEF vars, IInv, TypeOK, FlagsTyped, AttemptInv, ProbeInv, DownInv
<1>5. QED
  BY <1>1, <1>2, <1>3, <1>4 DEF Next

(* The inductive invariant: attempts and probes under way hold a key, and  *)
(* while the gateway is down nothing runs and the state file has its flags.*)
THEOREM Invariance == Spec => []IInv
  BY InitIInv, NextIInv, PTL DEF Spec

(* Flags, requests and probes keep their types; no request of chat_route   *)
(* counts below zero attempts.                                             *)
THEOREM TypeCorrect == Spec => []TypeOK
<1>1. IInv => TypeOK
  BY DEF IInv
<1>2. QED
  BY <1>1, Invariance, PTL

-----------------------------------------------------------------------------
(* What a step may do to a key that is out of service.                     *)

Revival ==
    \A k \in DOMAIN health \intersect DOMAIN health' :
        up /\ ~health[k] /\ health'[k] =>
            \E t \in Tasks : probe[t].key = k /\ probe[t].live

LEMMA RevivalStep == IInv /\ [Next]_vars => Revival
<1> SUFFICES ASSUME IInv, [Next]_vars,
                    NEW k \in DOMAIN health \intersect DOMAIN health',
                    up, ~health[k], health'[k]
             PROVE  \E t \in Tasks : probe[t].key = k /\ probe[t].live
  BY DEF Revival
<1>1. ~Crash
  <2>1. NoFlags \in [{} -> BOOLEAN] /\ DOMAIN NoFlags = {}
    BY DEF NoFlags
  <2>2. QED
    BY <2>1 DEF Crash
<1>2. ~Start
  BY DEF Start
<1>3. health' # health
  OBVIOUS
<1>4. CASE \E r \in Requests : Refused(r)
  <2>1. PICK r \in Requests : Refused(r)
    BY <1>4
  <2>2. DOMAIN health' = DOMAIN health
        /\ \A j \in DOMAIN health : health'[j] = health[j] \/ health'[j] = FALSE
    BY <2>1, HealthSet DEF Refused, IInv
  <2>3. QED
    BY <2>2
<1>5. CASE \E t \in Tasks : \E j \in Keys : Reject(t, j)
  <2>1. PICK t \in Tasks, i \in Keys : Reject(t, i)
    BY <1>5
  <2>2. DOMAIN health' = DOMAIN health
        /\ \A j \in DOMAIN health : health'[j] = health[j] \/ health'[j] = FALSE
    BY <2>1, HealthSet DEF Reject, IInv
  <2>3. QED
    BY <2>2
<1>6. CASE \E t \in Tasks : Accept(t)
  <2>1. PICK t \in Tasks : Accept(t)
    BY <1>6
  <2>2. PICK j : j = probe[t].key
    OBVIOUS
  <2>3. SetHealth(j, TRUE)
    BY <2>1, <2>2 DEF Accept
  <2>4. \A i \in DOMAIN health : i # j => health'[i] = health[i]
    BY <2>3, HealthSet DEF IInv
  <2>5. k = j
    BY <2>4
  <2>6. QED
    BY <2>1, <2>2, <2>5 DEF Accept
<1>7. \/ \E r \in Requests : Refused(r)
      \/ \E t \in Tasks : Accept(t) \/ \E j \in Keys : Reject(t, j)
  BY <1>1, <1>2, <1>3 DEF Next, vars, Attempt, Persist, Stop, Ban, Receive, Pick,
     Exhaust, Succeed, Fail, EndStream, Wake, Ask, Unclear
<1>8. QED
  BY <1>4, <1>5, <1>6, <1>7

(* Only a probe the upstream answered brings a key back into service.      *)
THEOREM OnlyProbesRevive == Spec => RevivedOnlyByProbe
<1>1. IInv /\ [Next]_vars =>
          [\A k \in DOMAIN health \intersect DOMAIN health' :
              up /\ ~health[k] /\ health'[k] =>
                  \E t \in Tasks : probe[t].key = k /\ probe[t].live]_vars
  BY RevivalStep DEF Revival
<1>2. QED
  BY <1>1, Invariance, PTL DEF Spec, RevivedOnlyByProbe

-----------------------------------------------------------------------------
(* The gateway implements PoolFlags.                                       *)

(* Setting a flag is a step of PoolFlags, or none if the key is not there. *)
LEMMA SetHealthMaps ==
    ASSUME NEW k \in Keys, NEW flag \in BOOLEAN, up = TRUE,
           SetHealth(k, flag), up' = up, file' = file
    PROVE  SetFlag \/ UNCHANGED flagVars
<1>1. CASE k \in DOMAIN health
  <2>1. health' = [health EXCEPT ![k] = flag]
    BY <1>1 DEF SetHealth
  <2>2. QED
    BY <1>1, <2>1 DEF SetFlag
<1>2. CASE k \notin DOMAIN health
  BY <1>2 DEF SetHealth, flagVars
<1>3. QED
  BY <1>1, <1>2

(* Every step of the gateway is one of PoolFlags or leaves its state.      *)
LEMMA StepMaps ==
    IInv /\ [Next]_vars => FlagsNext \/ UNCHANGED flagVars
<1> SUFFICES ASSUME IInv, [Next]_vars
             PROVE  FlagsNext \/ UNCHANGED flagVars
  OBVIOUS
<1>1. CASE Start
  <2>1. PICK listed \in SUBSET Keys : health' = Merge(listed)
    BY <1>1 DEF Start
  <2>2. up = FALSE /\ up' = TRUE /\ file' = file
    BY <1>1 DEF Start, IInv, TypeOK, FlagsTyped
  <2>3. Load
    BY <2>1, <2>2 DEF Merge, Load
  <2>4. QED
    BY <2>3 DEF FlagsNext
<1>2. CASE Persist \/ Stop
  <2>1. up /\ file' = health /\ up' \in BOOLEAN /\ health' = health
    BY <1>2 DEF Persist, Stop, IInv, TypeOK, FlagsTyped
  <2>2. Save
    BY <2>1 DEF Save
  <2>3. QED
    BY <2>2 DEF FlagsNext
<1>3. CASE Crash
  <2>1. Die
    BY <1>3 DEF Crash, NoFlags, Die, NoFlags
  <2>2. QED
    BY <2>1 DEF FlagsNext
<1>4. CASE \E r \in Requests : Refused(r)
  <2>1. PICK r \in Requests : Refused(r)
    BY <1>4
  <2>2. up = TRUE /\ req[r].key \in Keys
    BY <2>1, RequestRuns, IdleTyped DEF Refused, IInv, TypeOK, FlagsTyped, AttemptInv, DownInv, Idle
  <2>3. SetHealth(req[r].key, FALSE) /\ up' = up /\ file' = file
    BY <2>1 DEF Refused
  <2>4. QED
    BY <2>2, <2>3, SetHealthMaps DEF FlagsNext
<1>5. CASE \E t \in Tasks : \E k \in Keys : Reject(t, k)
  <2>1. PICK t \in Tasks, k \in Keys : Reject(t, k)
    BY <1>5
  <2>2. up = TRUE
    BY <2>1, NoneAssumption DEF Reject, IInv, TypeOK, FlagsTyped, DownInv, Asleep
  <2>3. SetHealth(k, FALSE) /\ up' = up /\ file' = file
    BY <2>1 DEF Reject
  <2>4. QED
    BY <2>2, <2>3, SetHealthMaps DEF FlagsNext
<1>6. CASE \E t \in Tasks : Accept(t)
  <2>1. PICK t \in Tasks : Accept(t)
    BY <1>6
  <2>2. up = TRUE /\ probe[t].key \in Keys
    BY <2>1 DEF Accept, IInv, TypeOK, FlagsTyped, ProbeInv, DownInv, Asleep
  <2>3. SetHealth(probe[t].key, TRUE) /\ up' = up /\ file' = file
    BY <2>1 DEF Accept
  <2>4. QED
    BY <2>2, <2>3, SetHealthMaps DEF FlagsNext
<1>7. \/ Start \/ Persist \/ Stop \/ Crash
      \/ \E r \in Requests : Refused(r)
      \/ \E t \in Tasks : Accept(t) \/ \E k \in Keys : Reject(t, k)
      \/ UNCHANGED <<up, health, file>>
  BY DEF Next, vars, Attempt, Ban, Receive, Pick, Exhaust, Succeed, Fail,
     EndStream, Wake, Ask, Unclear
<1>8. QED
  BY <1>1, <1>2, <1>3, <1>4, <1>5, <1>6, <1>7 DEF flagVars

(* With any keys, requests and upstreams, the gateway does to its flags and*)
(* its state file only what PoolFlags allows, on which the cleanup         *)
(* commands beside it rest.                                                *)
THEOREM ImplementsPoolFlags == Spec => FlagsAsPromised
<1>1. Init => FlagsInit
  BY DEF Init, NoFlags, FlagsInit, NoFlags
<1>2. IInv /\ [Next]_vars => [FlagsNext]_flagVars
  BY StepMaps
<1>3. QED
  BY <1>1, <1>2, Invariance, PTL DEF Spec, FlagsAsPromised, FlagsSpec

(* A key that is listed again after a shutdown has the flag it had.        *)
THEOREM FlagsSurviveRestart == Spec => RestartKeepsFlags
<1>1. Init => SavedInv
  BY InitFlags DEF Init
<1>2. IInv /\ SavedInv /\ [Next]_vars => SavedInv'
  BY StepMaps, SavedStep DEF IInv, TypeOK
<1>3. Spec => []SavedInv
  BY <1>1, <1>2, Invariance, PTL DEF Spec
<1>4. SavedInv /\ [Next]_vars =>
          [Start => \A k \in DOMAIN health \intersect DOMAIN health' :
                       health'[k] = health[k]]_vars
  <2> SUFFICES ASSUME SavedInv, Start,
                      NEW k \in DOMAIN health \intersect DOMAIN health'
               PROVE  health'[k] = health[k]
    OBVIOUS
  <2>1. k \in DOMAIN file /\ file[k] = health[k]
    BY DEF Start, SavedInv
  <2>2. PICK listed : health' = Merge(listed)
    BY DEF Start
  <2>3. QED
    BY <2>1, <2>2 DEF Merge
<1>5. QED
  BY <1>3, <1>4, PTL DEF Spec, RestartKeepsFlags

-----------------------------------------------------------------------------
(* The commands and the state file.                                        *)

FileHalf == FlagsTyped /\ purge \in Purge /\ FileInv

LEMMA FlagsRestrict ==
  ASSUME NEW f \in Flags, NEW S
  PROVE  /\ Restrict(f, DOMAIN f \ S) \in Flags
         /\ DOMAIN Restrict(f, DOMAIN f \ S) = DOMAIN f \ S
         /\ \A k \in DOMAIN f \ S : Restrict(f, DOMAIN f \ S)[k] = f[k]
<1> DEFINE K == DOMAIN f \ S
<1>1. DOMAIN f \subseteq Keys /\ f \in [DOMAIN f -> BOOLEAN]
  BY FlagsShape
<1>2. Restrict(f, K) = [k \in K |-> f[k]]
  BY DEF Restrict
<1>3. K \in SUBSET Keys /\ Restrict(f, K) \in [K -> BOOLEAN]
  BY <1>1, <1>2
<1>4. QED
  BY <1>2, <1>3, FlagsOver

LEMMA GatewayKeepsFile == FileHalf /\ Gateway => FileHalf'
<1> SUFFICES ASSUME FileHalf, Gateway PROVE FileHalf'
  OBVIOUS
<1>1. FlagsTyped'
  BY FlagsStep DEF FileHalf, Gateway
<1>2. purge' \in Purge
  BY DEF FileHalf, Gateway, Beside
<1>3. FileInv'
  <2>1. CASE Load \/ SetFlag
    <3>1. up' = TRUE
      BY <2>1 DEF Load, SetFlag, FileHalf, FlagsTyped
    <3>2. QED
      BY <3>1 DEF FileInv
  <2>2. CASE Save
    BY <2>2 DEF Save, FileInv
  <2>3. CASE Die
    BY <2>3, NoFlagsTyped DEF Die, FileInv
  <2>4. QED
    BY <2>1, <2>2, <2>3 DEF Gateway, FlagsNext
<1>4. QED
  BY <1>1, <1>2, <1>3 DEF FileHalf

(* What a purge reads is what it will write.                               *)
LEMMA PurgeReadKeepsFile == FileHalf /\ PurgeRead => FileHalf'
<1> SUFFICES ASSUME FileHalf, PurgeRead PROVE FileHalf'
  OBVIOUS
<1>1. Restrict(file, DOMAIN file \ PuterKeys) \in Flags
  BY FlagsRestrict DEF FileHalf, FlagsTyped
<1>2. purge' \in Purge
  BY <1>1 DEF PurgeRead, Purge
<1>3. QED
  BY <1>2 DEF PurgeRead, flagVars, FileHalf, FlagsTyped, FileInv

(* A purge leaves the flags that are still what it read, and counts as     *)
(* replacing all others.                                                   *)
LEMMA PurgeKeepsFile == FileHalf /\ PurgeWrite => FileHalf'
<1> SUFFICES ASSUME FileHalf, PurgeWrite PROVE FileHalf'
  OBVIOUS
<1>1. purge.view \in Flags /\ file' = purge.view
  BY DEF FileHalf, Purge, PurgeWrite
<1>2. FlagsTyped'
  BY <1>1 DEF PurgeWrite, FileHalf, FlagsTyped
<1>3. purge' \in Purge
  BY NoFlagsTyped DEF PurgeWrite, NoPurge, Purge
<1>4. ASSUME ~up', NEW k \in DOMAIN health' \ rewritten'
      PROVE  k \in DOMAIN file' /\ file'[k] = health'[k]
  <2>1. ~up /\ health' = health /\ k \in DOMAIN health
    BY <1>4 DEF PurgeWrite
  <2>2. k \in Keys
    BY <2>1, FlagsShape DEF FileHalf, FlagsTyped
  <2>3. k \notin Purged /\ k \notin rewritten
    BY <1>4, <2>1 DEF PurgeWrite, Replace
  <2>4. k \in DOMAIN purge.view /\ purge.view[k] = file[k]
    BY <2>2, <2>3 DEF Purged
  <2>5. file[k] = health[k]
    BY <2>1, <2>3 DEF FileHalf, FileInv
  <2>6. QED
    BY <1>1, <2>1, <2>4, <2>5
<1>5. QED
  BY <1>2, <1>3, <1>4 DEF FileHalf, FileInv

LEMMA FileStep == FileHalf /\ [CleanupNext]_cleanupVars => FileHalf'
<1> SUFFICES ASSUME FileHalf, [CleanupNext]_cleanupVars PROVE FileHalf'
  OBVIOUS
<1>1. CASE RestoreState
  <2>1. FlagsTyped' /\ purge' \in Purge
    BY <1>1 DEF RestoreState, SavedFlags, FileHalf, FlagsTyped
  <2>2. DOMAIN health' \subseteq Keys
    BY <2>1, FlagsShape DEF FlagsTyped
  <2>3. ~up' => Keys \subseteq rewritten'
    BY <1>1 DEF RestoreState, Replace
  <2>4. QED
    BY <2>1, <2>2, <2>3 DEF FileHalf, FileInv
<1>2. CASE PurgeEnd
  BY <1>2, NoFlagsTyped
  DEF PurgeEnd, flagVars, NoPurge, FileHalf, FlagsTyped, Purge, FileInv
<1>3. CASE UNCHANGED <<up, health, file, purge, rewritten>>
  BY <1>3 DEF FileHalf, FlagsTyped, FileInv
<1>4. \/ Gateway \/ PurgeRead \/ PurgeWrite \/ PurgeEnd \/ RestoreState
      \/ UNCHANGED <<up, health, file, purge, rewritten>>
  BY DEF CleanupNext, Commands, DeleteStart, ListPage, DeleteList, DeleteOne,
     DeleteCheck, DeleteEnd, CreateOne, cleanupVars, commandVars, flagVars
<1>5. QED
  BY <1>1, <1>2, <1>3, <1>4, GatewayKeepsFile, PurgeReadKeepsFile, PurgeKeepsFile

-----------------------------------------------------------------------------
(* The commands and the channels.                                          *)

ChannelHalf == ChannelInv /\ ListingInv /\ DeleteInv

LEMMA NoListingTyped == NoListing \in Listing
  BY DEF NoListing, Listing

LEMMA EmptyCount == Cardinality({}) = 0
  BY FS_EmptySet

(* A listing that has not begun is right about the channels it has.        *)
LEMMA NoListingFits ==
  /\ \A b \in NoListing.seen :
        b.id \in 1..made /\ \A c \in channels : b.id = c.id => b = c
  /\ NoListing.seen \subseteq channels
  /\ NoListing.len = Cardinality(NoListing.seen)
  /\ NoListing.ollama = Cardinality(NoListing.seen \intersect OllamaChannels)
<1>1. NoListing.seen = {} /\ NoListing.len = 0 /\ NoListing.ollama = 0
  BY DEF NoListing
<1>2. {} \intersect OllamaChannels = {}
  OBVIOUS
<1>3. QED
  BY <1>1, <1>2, EmptyCount

LEMMA ChannelFrame ==
  ASSUME ChannelHalf, UNCHANGED <<channels, made, delete, listing>>
  PROVE  ChannelHalf'
BY DEF ChannelHalf, ChannelInv, ListingInv, DeleteInv, OllamaChannels, WrongCount

(* A channel that comes or goes leaves the listings as they are, but none  *)
(* that has begun counts as undisturbed.                                   *)
LEMMA StirredListings ==
  ASSUME ListingInv, listing' = Stirred
  PROVE  /\ ListingInv'
         /\ \A d \in Deleters : listing'[d].seen = listing[d].seen
<1>1. \A d \in Deleters : listing[d] \in Listing
  BY DEF ListingInv
<1>2. ASSUME NEW d \in Deleters
      PROVE  /\ listing'[d] \in Listing
             /\ listing'[d].seen = listing[d].seen
             /\ listing'[d].len = listing[d].len
             /\ listing'[d].ollama = listing[d].ollama
             /\ listing'[d].still => listing[d].still /\ listing[d].seen = {}
  <2>1. listing'[d] = [listing[d] EXCEPT !.still = @ /\ listing[d].seen = {}]
    BY DEF Stirred
  <2>2. QED
    BY <1>1, <2>1 DEF Listing
<1>3. listing' \in [Deleters -> Listing]
  BY <1>2 DEF Stirred
<1>4. ASSUME NEW d \in Deleters, listing'[d].still
      PROVE  /\ listing'[d].seen \subseteq channels'
             /\ listing'[d].len = Cardinality(listing'[d].seen)
             /\ listing'[d].ollama = Cardinality(listing'[d].seen \intersect OllamaChannels')
  <2>1. listing[d].still /\ listing[d].seen = {} /\ listing'[d].seen = {}
    BY <1>2, <1>4
  <2>2. listing[d].len = Cardinality({}) /\ listing[d].ollama = Cardinality({})
    <3>1. {} \intersect OllamaChannels = {}
      OBVIOUS
    <3>2. QED
      BY <2>1, <3>1 DEF ListingInv
  <2>3. {} \intersect OllamaChannels' = {}
    OBVIOUS
  <2>4. QED
    BY <1>2, <2>1, <2>2, <2>3
<1>5. QED
  BY <1>2, <1>3, <1>4 DEF ListingInv

(* A page of a listing that nothing disturbs adds channels it does not     *)
(* have, and after the last one it has all of them.                        *)
LEMMA PageListed ==
  ASSUME ChannelHalf, NEW d \in Deleters, NEW S \in Pages(d)
  PROVE  /\ S \subseteq channels
         /\ Listed(d, S) \in Listing
         /\ Listed(d, S).seen = listing[d].seen \union S
         /\ Listed(d, S).still = listing[d].still
         /\ listing[d].still =>
               /\ Listed(d, S).seen \subseteq channels
               /\ Listed(d, S).len = Cardinality(Listed(d, S).seen)
               /\ Listed(d, S).ollama
                     = Cardinality(Listed(d, S).seen \intersect OllamaChannels)
               /\ Last(d, S) => Listed(d, S).ollama = Cardinality(OllamaChannels)
<1> DEFINE seen == listing[d].seen
           mine == S \intersect OllamaChannels
<1>1. S \subseteq channels /\ IsFiniteSet(channels) /\ channels \subseteq Channel
  BY DEF Pages, ChannelHalf, ChannelInv
<1>2. IsFiniteSet(S) /\ IsFiniteSet(mine)
  BY <1>1, FS_Subset
<1>3. Cardinality(S) \in Nat /\ Cardinality(mine) \in Nat
  BY <1>2, FS_CardinalityType
<1>4. listing[d] \in Listing
  BY DEF ChannelHalf, ListingInv
<1>5. PICK q : q = Listed(d, S)
  OBVIOUS
<1>6. /\ q \in Listing /\ q.seen = seen \union S /\ q.still = listing[d].still
      /\ q.len = listing[d].len + Cardinality(S)
      /\ q.ollama = listing[d].ollama + Cardinality(mine)
  <2>1. seen \in SUBSET Channel /\ seen \union S \in SUBSET Channel
    BY <1>1, <1>4 DEF Listing
  <2>2. q = [listing[d] EXCEPT !.seen = seen \union S,
                !.len = listing[d].len + Cardinality(S),
                !.ollama = listing[d].ollama + Cardinality(mine)]
    BY <1>5 DEF Listed
  <2>3. listing[d].len + Cardinality(S) \in Nat
        /\ listing[d].ollama + Cardinality(mine) \in Nat
    BY <1>3, <1>4 DEF Listing
  <2> HIDE DEF seen, mine
  <2>4. QED
    BY <1>4, <2>1, <2>2, <2>3 DEF Listing
<1>7. ASSUME listing[d].still
      PROVE  /\ q.seen \subseteq channels
             /\ q.len = Cardinality(q.seen)
             /\ q.ollama = Cardinality(q.seen \intersect OllamaChannels)
             /\ Last(d, S) => q.ollama = Cardinality(OllamaChannels)
  <2>1. /\ seen \subseteq channels /\ S \intersect seen = {}
        /\ listing[d].len = Cardinality(seen)
        /\ listing[d].ollama = Cardinality(seen \intersect OllamaChannels)
    BY <1>7 DEF Pages, ChannelHalf, ListingInv
  <2>2. IsFiniteSet(seen) /\ IsFiniteSet(seen \intersect OllamaChannels)
    BY <1>1, <2>1, FS_Subset
  <2>3. Cardinality(seen) \in Nat /\ Cardinality(seen \intersect OllamaChannels) \in Nat
    BY <2>2, FS_CardinalityType
  <2>4. Cardinality(seen \union S) = Cardinality(seen) + Cardinality(S)
    <3>1. Cardinality(seen \union S)
             = Cardinality(seen) + Cardinality(S) - Cardinality(seen \intersect S)
      BY <1>2, <2>2, FS_Union
    <3>2. seen \intersect S = {}
      BY <2>1
    <3>3. Cardinality(seen \intersect S) = 0
      BY <3>2, EmptyCount, Zenon
    <3> HIDE DEF seen
    <3>4. QED
      BY <1>3, <2>3, <3>1, <3>3
  <2>5. Cardinality(q.seen \intersect OllamaChannels)
           = Cardinality(seen \intersect OllamaChannels) + Cardinality(mine)
    <3> DEFINE theirs == seen \intersect OllamaChannels
    <3>1. Cardinality(theirs \union mine)
             = Cardinality(theirs) + Cardinality(mine) - Cardinality(theirs \intersect mine)
      BY <1>2, <2>2, FS_Union
    <3>2. theirs \intersect mine = {} /\ q.seen \intersect OllamaChannels = theirs \union mine
      BY <1>6, <2>1
    <3>3. Cardinality(theirs \intersect mine) = 0
      BY <3>2, EmptyCount, Zenon
    <3>4. Cardinality(q.seen \intersect OllamaChannels) = Cardinality(theirs \union mine)
      BY <3>2, Zenon
    <3>5. Cardinality(theirs) \in Nat
      BY <2>3
    <3>6. Cardinality(theirs) = Cardinality(seen \intersect OllamaChannels)
      BY DEF theirs
    <3> HIDE DEF seen, mine, theirs
    <3>7. QED
      BY <1>3, <3>1, <3>3, <3>4, <3>5, <3>6
  <2>6. ASSUME Last(d, S) PROVE q.seen = channels
    <3>1. q.seen \subseteq channels
      BY <1>1, <1>6, <2>1
    <3>2. CASE S = {}
      <4>1. Cardinality(S) # PageSize
        BY <3>2, FS_EmptySet, CleanupAssumption
      <4>2. QED
        BY <1>6, <1>7, <3>1, <4>1 DEF Pages
    <3>3. CASE q.len >= Cardinality(channels)
      <4>1. Cardinality(q.seen) >= Cardinality(channels)
        BY <1>6, <2>1, <2>4, <3>3
      <4>2. Cardinality(q.seen) <= Cardinality(channels)
            /\ (Cardinality(channels) = Cardinality(q.seen) => channels = q.seen)
        BY <1>1, <3>1, FS_Subset
      <4>3. Cardinality(channels) \in Nat /\ Cardinality(q.seen) \in Nat
        BY <1>1, <1>6, <2>3, <1>3, <2>4, FS_CardinalityType
      <4>4. QED
        BY <4>1, <4>2, <4>3
    <3>4. QED
      BY <1>5, <2>6, <3>2, <3>3 DEF Last
  <2>7. q.seen = channels => q.seen \intersect OllamaChannels = OllamaChannels
    BY DEF OllamaChannels
  <2>8. QED
    BY <1>1, <1>6, <2>1, <2>4, <2>5, <2>6, <2>7
<1>8. QED
  BY <1>1, <1>5, <1>6, <1>7

(* A new channel has a new id; if it makes the count right, every delete   *)
(* starts to count again.                                                  *)
LEMMA CreateStep ==
  ASSUME ChannelHalf, NEW k \in Keys, Create(k)
  PROVE  ChannelHalf'
<1> DEFINE new == [id |-> made + 1, key |-> k]
<1>1. made \in Nat /\ made' = made + 1 /\ channels' = channels \union {new}
  BY DEF ChannelHalf, ChannelInv, Create
<1>2. delete \in [Deleters -> Delete]
  BY DEF ChannelHalf, DeleteInv
<1>3. /\ delete' \in [Deleters -> Delete]
      /\ \A d \in Deleters : delete'[d].ids = delete[d].ids
      /\ WrongCount' => delete' = delete
      /\ ~WrongCount' => \A d \in Deleters : delete'[d].wrong = 0
  BY <1>2 DEF Create, Delete
<1>4. ASSUME NEW c \in channels' PROVE c = new \/ (c \in channels /\ c.id \in 1..made)
  BY <1>1 DEF ChannelHalf, ChannelInv
<1>5. /\ \A c \in channels' : c.id \in 1..made'
      /\ channels' \subseteq Channel /\ IsFiniteSet(channels')
  <2>1. IsFiniteSet(channels') /\ channels \subseteq Channel
    BY <1>1, FS_AddElement DEF ChannelHalf, ChannelInv
  <2>2. QED
    BY <1>1, <1>4, <2>1 DEF Channel
<1>6. ASSUME NEW b \in channels', NEW c \in channels', b.id = c.id PROVE b = c
  BY <1>1, <1>4, <1>6 DEF ChannelHalf, ChannelInv
<1>7. ASSUME NEW d \in Deleters, NEW i \in delete'[d].ids
      PROVE  i \in 1..made' /\ \A c \in OllamaChannels' : c.id # i
  <2>1. i \in delete[d].ids /\ i \in 1..made
    BY <1>3, <1>7 DEF ChannelHalf, ChannelInv
  <2>2. ASSUME NEW c \in OllamaChannels' PROVE c.id # i
    BY <1>1, <1>4, <2>1, <2>2 DEF OllamaChannels, ChannelHalf, ChannelInv
  <2>3. QED
    BY <1>1, <2>1, <2>2
<1>8. ListingInv' /\ \A d \in Deleters : listing'[d].seen = listing[d].seen
  BY StirredListings DEF Create, ChannelHalf
<1>9. ASSUME NEW d \in Deleters, NEW b \in listing'[d].seen
      PROVE  b.id \in 1..made' /\ \A c \in channels' : b.id = c.id => b = c
  <2>1. b.id \in 1..made /\ \A c \in channels : b.id = c.id => b = c
    BY <1>8, <1>9 DEF ChannelHalf, ChannelInv
  <2>2. QED
    BY <1>1, <1>4, <2>1
<1>10. ChannelInv'
  BY <1>1, <1>5, <1>6, <1>7, <1>9 DEF ChannelInv
<1>11. DeleteInv'
  BY <1>3 DEF ChannelHalf, DeleteInv
<1>12. QED
  BY <1>8, <1>10, <1>11 DEF ChannelHalf

(* A step that leaves the channels, gives delete d the record q and its    *)
(* listing the record l.                                                   *)
LEMMA DeleteFrame ==
  ASSUME ChannelHalf, NEW d \in Deleters, NEW q \in Delete, NEW l \in Listing,
         UNCHANGED <<channels, made>>,
         delete' = [delete EXCEPT ![d] = q], listing' = [listing EXCEPT ![d] = l],
         \A i \in q.ids : i \in 1..made /\ \A c \in OllamaChannels : c.id # i,
         \A b \in l.seen : b.id \in 1..made /\ \A c \in channels : b.id = c.id => b = c,
         l.still => /\ l.seen \subseteq channels
                    /\ l.len = Cardinality(l.seen)
                    /\ l.ollama = Cardinality(l.seen \intersect OllamaChannels),
         q.wrong = 1 => q.pc = "check" /\ WrongCount
  PROVE  ChannelHalf'
<1>1. delete \in [Deleters -> Delete] /\ listing \in [Deleters -> Listing]
  BY DEF ChannelHalf, DeleteInv, ListingInv
<1>2. /\ delete' \in [Deleters -> Delete] /\ listing' \in [Deleters -> Listing]
      /\ delete'[d] = q /\ listing'[d] = l
      /\ \A e \in Deleters \ {d} : delete'[e] = delete[e] /\ listing'[e] = listing[e]
  BY <1>1
<1>3. OllamaChannels' = OllamaChannels /\ WrongCount' = WrongCount
  BY DEF OllamaChannels, WrongCount
<1>4. \A e \in Deleters : e = d \/ e \in Deleters \ {d}
  OBVIOUS
<1>5. ChannelInv'
  BY <1>2, <1>3, <1>4 DEF ChannelHalf, ChannelInv
<1>6. ListingInv'
  BY <1>2, <1>3, <1>4 DEF ChannelHalf, ListingInv
<1>7. DeleteInv'
  BY <1>2, <1>3, <1>4 DEF ChannelHalf, DeleteInv
<1>8. QED
  BY <1>5, <1>6, <1>7 DEF ChannelHalf

(* The same with a listing that has not begun.                             *)
LEMMA RestFrame ==
  ASSUME ChannelHalf, NEW d \in Deleters, NEW q \in Delete,
         UNCHANGED <<channels, made>>,
         delete' = [delete EXCEPT ![d] = q],
         listing' = [listing EXCEPT ![d] = NoListing],
         \A i \in q.ids : i \in 1..made /\ \A c \in OllamaChannels : c.id # i,
         q.wrong = 0
  PROVE  ChannelHalf'
<1>1. PICK l \in Listing : l = NoListing
  BY NoListingTyped
<1>2. \A b \in l.seen : b.id \in 1..made /\ \A c \in channels : b.id = c.id => b = c
  BY <1>1, NoListingFits
<1>3. l.still => /\ l.seen \subseteq channels
                 /\ l.len = Cardinality(l.seen)
                 /\ l.ollama = Cardinality(l.seen \intersect OllamaChannels)
  BY <1>1, NoListingFits
<1>4. q.wrong = 1 => q.pc = "check" /\ WrongCount
  OBVIOUS
<1>5. listing' = [listing EXCEPT ![d] = l]
  BY <1>1
<1>6. QED
  BY <1>2, <1>3, <1>4, <1>5, DeleteFrame

(* A command begins, or ends.                                              *)
LEMMA BeginEndStep ==
  ASSUME ChannelHalf, NEW d \in Deleters, DeleteStart(d) \/ DeleteEnd(d)
  PROVE  ChannelHalf'
<1>1. PICK q \in Delete : /\ q.ids = {} /\ q.wrong = 0
                          /\ delete' = [delete EXCEPT ![d] = q]
  BY DEF DeleteStart, DeleteEnd, NoDelete, Delete
<1>2. /\ UNCHANGED <<channels, made>>
      /\ listing' = [listing EXCEPT ![d] = NoListing]
  BY DEF DeleteStart, DeleteEnd
<1>3. QED
  BY <1>1, <1>2, RestFrame

(* A page goes to the listing.                                             *)
LEMMA PageStep ==
  ASSUME ChannelHalf, NEW d \in Deleters, ListPage(d)
  PROVE  ChannelHalf'
<1>1. PICK S \in Pages(d) : listing' = [listing EXCEPT ![d] = Listed(d, S)]
  BY DEF ListPage
<1>2. PICK l : l = Listed(d, S)
  OBVIOUS
<1>3. /\ S \subseteq channels /\ l \in Listing /\ l.seen = listing[d].seen \union S
      /\ l.still => /\ l.seen \subseteq channels
                    /\ l.len = Cardinality(l.seen)
                    /\ l.ollama = Cardinality(l.seen \intersect OllamaChannels)
  BY <1>2, PageListed
<1>4. delete \in [Deleters -> Delete]
  BY DEF ChannelHalf, DeleteInv
<1>5. delete[d] \in Delete /\ delete' = [delete EXCEPT ![d] = delete[d]]
  BY <1>4 DEF ListPage
<1>6. ASSUME NEW b \in l.seen
      PROVE  b.id \in 1..made /\ \A c \in channels : b.id = c.id => b = c
  BY <1>3, <1>6 DEF ChannelHalf, ChannelInv
<1>7. UNCHANGED <<channels, made>>
  BY DEF ListPage
<1>8. delete[d].wrong = 1 => delete[d].pc = "check" /\ WrongCount
  BY DEF ChannelHalf, DeleteInv
<1>9. \A i \in delete[d].ids : i \in 1..made /\ \A c \in OllamaChannels : c.id # i
  BY DEF ChannelHalf, ChannelInv
<1>10. listing' = [listing EXCEPT ![d] = l]
  BY <1>1, <1>2
<1>11. QED
  BY <1>3, <1>5, <1>6, <1>7, <1>8, <1>9, <1>10, DeleteFrame

(* What is listed is no ollama channel, as an id has one channel.          *)
LEMMA ListStep ==
  ASSUME ChannelHalf, NEW d \in Deleters, DeleteList(d)
  PROVE  ChannelHalf'
<1>1. PICK S \in Pages(d) :
         delete' = [delete EXCEPT ![d].pc = "next", ![d].ids =
              {c.id : c \in {x \in Listed(d, S).seen : x.key \in PuterKeys}}]
  BY DEF DeleteList
<1>2. PICK seen : seen = listing[d].seen \union S /\ seen = Listed(d, S).seen
  BY PageListed
<1>3. PICK listed : listed = {c.id : c \in {x \in seen : x.key \in PuterKeys}}
  OBVIOUS
<1>4. \A b \in seen : b.id \in 1..made /\ \A c \in channels : b.id = c.id => b = c
  BY <1>2, PageListed DEF ChannelHalf, ChannelInv
<1>5. ASSUME NEW i \in listed
      PROVE  i \in 1..made /\ \A c \in OllamaChannels : c.id # i
  <2>1. PICK b \in seen : b.key \in PuterKeys /\ b.id = i
    BY <1>3, <1>5
  <2>2. ASSUME NEW c \in OllamaChannels PROVE c.id # i
    BY <1>4, <2>1, <2>2 DEF OllamaChannels, OllamaKeys, PuterKeys
  <2>3. QED
    BY <1>4, <2>1, <2>2
<1>6. made \in Nat
  BY DEF ChannelHalf, ChannelInv
<1>7. listed \subseteq Nat
  BY <1>5, <1>6
<1>8. PICK old \in Delete : old = delete[d] /\ old.pc = "list" /\ old.wrong = 0
  BY DEF ChannelHalf, DeleteInv, DeleteList, Delete
<1>9. PICK q : q = [pc |-> "next", ids |-> listed, wrong |-> 0]
  OBVIOUS
<1>10. q \in Delete /\ q.ids = listed /\ q.wrong = 0
  BY <1>7, <1>9 DEF Delete
<1>11. delete' = [delete EXCEPT ![d] = q]
  <2>1. delete \in [Deleters -> Delete]
    BY DEF ChannelHalf, DeleteInv
  <2>2. delete'[d] = q
    BY <1>1, <1>2, <1>3, <1>8, <1>9, <2>1 DEF Delete
  <2>3. QED
    BY <1>1, <2>1, <2>2
<1>12. UNCHANGED <<channels, made>> /\ listing' = [listing EXCEPT ![d] = NoListing]
  BY DEF DeleteList
<1>13. QED
  BY <1>5, <1>10, <1>11, <1>12, RestFrame

(* A deletion takes no ollama channel, and is the first since the count    *)
(* was right or misread.                                                   *)
LEMMA DeleteOneStep ==
  ASSUME ChannelHalf, NEW d \in Deleters, DeleteOne(d)
  PROVE  ChannelHalf'
<1>1. PICK i \in delete[d].ids, then \in {"check", "next"} :
         /\ channels' = {c \in channels : c.id # i}
         /\ channels' # channels => then = "check"
         /\ listing' = IF channels' = channels THEN listing ELSE Stirred
         /\ delete' = [delete EXCEPT
               ![d].pc = then, ![d].ids = @ \ {i},
               ![d].wrong = IF WrongCount /\ channels' # channels THEN @ + 1 ELSE @]
  BY DEF DeleteOne
<1>2. delete \in [Deleters -> Delete] /\ made' = made
  BY DEF ChannelHalf, DeleteInv, DeleteOne
<1>3. PICK old \in Delete : old = delete[d] /\ old.pc = "next" /\ old.wrong = 0
  BY <1>2 DEF ChannelHalf, DeleteInv, DeleteOne, Delete
<1>4. PICK wrong \in {0, 1} :
         wrong = IF WrongCount /\ channels' # channels THEN 1 ELSE 0
  OBVIOUS
<1>5. PICK q : q = [pc |-> then, ids |-> old.ids \ {i}, wrong |-> wrong]
  OBVIOUS
<1>6. q \in Delete
  BY <1>3, <1>4, <1>5 DEF Delete
<1>7. delete' = [delete EXCEPT ![d] = q]
  <2>1. delete'[d] = q
    BY <1>1, <1>2, <1>3, <1>4, <1>5 DEF Delete
  <2>2. QED
    BY <1>1, <1>2, <2>1
<1>8. OllamaChannels' = OllamaChannels
  BY <1>1 DEF OllamaChannels, ChannelHalf, ChannelInv
<1>9. WrongCount' = WrongCount
  BY <1>8 DEF WrongCount
<1>10. ListingInv' /\ \A e \in Deleters : listing'[e].seen = listing[e].seen
  <2>1. CASE channels' = channels
    BY <1>1, <1>8, <2>1 DEF ChannelHalf, ListingInv
  <2>2. CASE channels' # channels
    BY <1>1, <2>2, StirredListings DEF ChannelHalf
  <2>3. QED
    BY <2>1, <2>2
<1>11. channels' \subseteq channels /\ IsFiniteSet(channels')
  BY <1>1, FS_Subset DEF ChannelHalf, ChannelInv
<1>12. ChannelInv'
  BY <1>2, <1>3, <1>5, <1>7, <1>8, <1>10, <1>11 DEF ChannelHalf, ChannelInv
<1>13. DeleteInv'
  BY <1>1, <1>2, <1>4, <1>5, <1>6, <1>7, <1>9 DEF ChannelHalf, DeleteInv
<1>14. QED
  BY <1>10, <1>12, <1>13 DEF ChannelHalf

(* A delete goes on after a check only if the count is right, or its       *)
(* listing was disturbed.                                                  *)
LEMMA CheckStep ==
  ASSUME ChannelHalf, NEW d \in Deleters, DeleteCheck(d)
  PROVE  ChannelHalf'
<1>1. PICK S \in Pages(d) :
         /\ Last(d, S)
         /\ delete' = [delete EXCEPT ![d] =
               IF Listed(d, S).ollama # OllamaCount THEN NoDelete
               ELSE [delete[d] EXCEPT
                   !.pc = "next",
                   !.wrong = IF listing[d].still THEN delete[d].wrong ELSE 0]]
  BY DEF DeleteCheck
<1>2. delete \in [Deleters -> Delete] /\ UNCHANGED <<channels, made>>
      /\ listing' = [listing EXCEPT ![d] = NoListing]
  BY DEF ChannelHalf, DeleteInv, DeleteCheck
<1>3. PICK old \in Delete : old = delete[d]
  BY <1>2
<1>4. PICK q \in Delete : /\ delete' = [delete EXCEPT ![d] = q]
                          /\ q.ids \subseteq old.ids /\ q.wrong = 0
  <2>1. NoDelete \in Delete /\ NoDelete.ids \subseteq old.ids /\ NoDelete.wrong = 0
    BY DEF NoDelete, Delete
  <2>2. CASE Listed(d, S).ollama # OllamaCount
    BY <1>1, <2>1, <2>2
  <2>3. CASE Listed(d, S).ollama = OllamaCount
    <3>1. PICK q :
             q = [old EXCEPT !.pc = "next",
                             !.wrong = IF listing[d].still THEN old.wrong ELSE 0]
      OBVIOUS
    <3>2. listing[d].still => old.wrong = 0
      <4>1. listing[d].still => ~WrongCount
        BY <1>1, <2>3, PageListed DEF WrongCount
      <4>2. QED
        BY <1>3, <4>1 DEF ChannelHalf, DeleteInv, Delete
    <3>3. q \in Delete /\ q.ids = old.ids /\ q.wrong = 0
      BY <3>1, <3>2 DEF Delete
    <3>4. delete' = [delete EXCEPT ![d] = q]
      BY <1>1, <1>3, <2>3, <3>1
    <3>5. QED
      BY <3>3, <3>4
  <2>4. QED
    BY <2>2, <2>3
<1>5. \A i \in q.ids : i \in 1..made /\ \A c \in OllamaChannels : c.id # i
  BY <1>3, <1>4 DEF ChannelHalf, ChannelInv
<1>6. QED
  BY <1>2, <1>4, <1>5, RestFrame

LEMMA ChannelStep == ChannelHalf /\ [CleanupNext]_cleanupVars => ChannelHalf'
<1> SUFFICES ASSUME ChannelHalf, [CleanupNext]_cleanupVars PROVE ChannelHalf'
  OBVIOUS
<1>1. CASE CreateOne
  BY <1>1, CreateStep DEF CreateOne
<1>2. CASE \E d \in Deleters :
              \/ DeleteStart(d) \/ ListPage(d) \/ DeleteList(d)
              \/ DeleteOne(d) \/ DeleteCheck(d) \/ DeleteEnd(d)
  BY <1>2, BeginEndStep, PageStep, ListStep, DeleteOneStep, CheckStep
<1>3. CASE UNCHANGED <<channels, made, delete, listing>>
  BY <1>3, ChannelFrame
<1>4. QED
  BY <1>1, <1>2, <1>3 DEF CleanupNext, Commands, Gateway, Beside, PurgeRead,
     PurgeWrite, PurgeEnd, RestoreState, cleanupVars, commandVars

-----------------------------------------------------------------------------

LEMMA InitCleanupInv == CleanupInit => CleanupInv
<1> SUFFICES ASSUME CleanupInit PROVE CleanupInv
  OBVIOUS
<1>1. FlagsTyped /\ purge \in Purge /\ FileInv
  BY InitFlags, NoFlagsTyped
  DEF CleanupInit, FlagsInit, NoPurge, Purge, FileInv
<1>2. ChannelInv
  BY FS_EmptySet
  DEF CleanupInit, NoDelete, NoListing, ChannelInv, OllamaChannels
<1>3. ListingInv
  BY NoListingTyped, FS_EmptySet DEF CleanupInit, NoListing, ListingInv
<1>4. DeleteInv
  BY DEF CleanupInit, NoDelete, Delete, DeleteInv
<1>5. QED
  BY <1>1, <1>2, <1>3, <1>4 DEF CleanupInv

LEMMA NextCleanupInv == CleanupInv /\ [CleanupNext]_cleanupVars => CleanupInv'
  BY FileStep, ChannelStep DEF CleanupInv, FileHalf, ChannelHalf

(* The inductive invariant of the commands: the state file has the flags   *)
(* the gateway went down with, except where a command is known to have     *)
(* replaced them; an id is given once; a listing under which nothing came  *)
(* or went has each channel once; and a delete that has removed a channel  *)
(* under a wrong count is about to find out, unless its listing misleads it*)
THEOREM CleanupInvariance == CleanupSpec => []CleanupInv
  BY InitCleanupInv, NextCleanupInv, PTL DEF CleanupSpec

(* Whatever the number of deletes, imports and restores, and of channels   *)
(* and pages, a delete removes one channel at most before the number of    *)
(* ollama channels is right or a listing disturbed between its pages       *)
(* misleads it.                                                            *)
THEOREM DeletesStopInTime == CleanupSpec => []DeletesStop
<1>1. CleanupInv => DeletesStop
  BY DEF CleanupInv, DeleteInv, Delete, DeletesStop
<1>2. QED
  BY <1>1, CleanupInvariance, PTL

LEMMA LoadKeeps ==
  FileHalf /\ Load => \A k \in DOMAIN health \intersect DOMAIN health' :
                          health'[k] = health[k] \/ k \in rewritten
<1> SUFFICES ASSUME FileHalf, Load, NEW k \in DOMAIN health \intersect DOMAIN health',
                    k \notin rewritten
             PROVE  health'[k] = health[k]
  OBVIOUS
<1>1. k \in DOMAIN file /\ file[k] = health[k]
  BY DEF Load, FileHalf, FileInv
<1>2. QED
  BY <1>1, Loaded DEF FileHalf

(* A start finds the flags of the last stop, but for those a restore or a  *)
(* purge has replaced.                                                     *)
THEOREM FlagsSurviveCommands == CleanupSpec => FlagsSurvive
<1>1. CleanupInv =>
          [Load => \A k \in DOMAIN health \intersect DOMAIN health' :
                       health'[k] = health[k] \/ k \in rewritten]_cleanupVars
  BY LoadKeeps DEF CleanupInv, FileHalf
<1>2. QED
  BY <1>1, CleanupInvariance, PTL DEF FlagsSurvive

-----------------------------------------------------------------------------
(* The gateway and the commands together.                                  *)

(* The commands write the state file, and nothing else of the gateway's.   *)
LEMMA CommandsLeave == Commands => UNCHANGED <<up, health>>
  BY DEF Commands, PurgeRead, PurgeWrite, PurgeEnd, DeleteStart, ListPage,
     DeleteList, DeleteOne, DeleteCheck, DeleteEnd, RestoreState, CreateOne,
     flagVars

(* A step of the system is one of PoolCleanup: what the gateway does to    *)
(* the flags is PoolFlags's, whatever the commands have made of the file,  *)
(* and the rest of what it does they do not see.                           *)
LEMMA SystemStepMaps ==
  IInv /\ [SystemNext]_systemVars => [CleanupNext]_cleanupVars
<1> SUFFICES ASSUME IInv, [SystemNext]_systemVars PROVE [CleanupNext]_cleanupVars
  OBVIOUS
<1>1. CASE GatewayStep
  <2>1. FlagsNext \/ UNCHANGED flagVars
    BY <1>1, StepMaps DEF GatewayStep
  <2>2. CASE FlagsNext
    BY <1>1, <2>2 DEF GatewayStep, Gateway, CleanupNext
  <2>3. CASE UNCHANGED flagVars
    <3>1. rewritten' = rewritten
      BY <1>1, <2>3 DEF GatewayStep, Beside, flagVars
    <3>2. QED
      BY <1>1, <2>3, <3>1 DEF GatewayStep, Beside, commandVars, cleanupVars
  <2>4. QED
    BY <2>1, <2>2, <2>3
<1>2. CASE CommandStep
  BY <1>2 DEF CommandStep, CleanupNext
<1>3. CASE UNCHANGED systemVars
  BY <1>3 DEF systemVars, vars, flagVars, cleanupVars
<1>4. QED
  BY <1>1, <1>2, <1>3 DEF SystemNext

(* Requests and probes do not depend on what is in the state file.         *)
LEMMA SystemStep ==
  IInv /\ CleanupInv /\ [SystemNext]_systemVars => IInv' /\ CleanupInv'
<1> SUFFICES ASSUME IInv, CleanupInv, [SystemNext]_systemVars
             PROVE  IInv' /\ CleanupInv'
  OBVIOUS
<1>1. CleanupInv'
  BY SystemStepMaps, NextCleanupInv
<1>2. CASE GatewayStep
  BY <1>1, <1>2, NextIInv DEF GatewayStep
<1>3. CASE CommandStep
  <2>1. UNCHANGED <<up, banned, req, probe>>
    BY <1>3, CommandsLeave DEF CommandStep
  <2>2. TypeOK'
    BY <1>1, <2>1 DEF IInv, TypeOK, CleanupInv
  <2>3. AttemptInv' /\ ProbeInv' /\ DownInv'
    BY <2>1 DEF IInv, AttemptInv, ProbeInv, DownInv
  <2>4. QED
    BY <1>1, <2>2, <2>3 DEF IInv
<1>4. CASE UNCHANGED systemVars
  BY <1>1, <1>4, NextIInv DEF systemVars
<1>5. QED
  BY <1>1, <1>2, <1>3, <1>4 DEF SystemNext

(* The gateway's invariant and the commands' both hold when they run side  *)
(* by side.                                                                *)
THEOREM SystemInvariance == SystemSpec => [](IInv /\ CleanupInv)
<1>1. SystemInit => IInv /\ CleanupInv
  BY InitIInv, InitCleanupInv DEF SystemInit
<1>2. QED
  BY <1>1, SystemStep, PTL DEF SystemSpec

(* The whole gateway beside the commands is what the commands take it for: *)
(* the composition implements PoolCleanup.                                 *)
THEOREM ImplementsPoolCleanup == SystemSpec => CommandsAsPromised
<1>1. SystemInit => CleanupInit
  BY DEF SystemInit
<1>2. QED
  BY <1>1, SystemStepMaps, SystemInvariance, PTL
  DEF SystemSpec, CleanupSpec, CommandsAsPromised

(* So the flags survive the commands in the whole system, and a delete     *)
(* stops in time, also while requests and probes change the flags.         *)
THEOREM SystemKeepsPromises == SystemSpec => FlagsSurvive /\ []DeletesStop
  BY ImplementsPoolCleanup, FlagsSurviveCommands, DeletesStopInTime, PTL
  DEF CommandsAsPromised

(* No command brings a key back under a running gateway either.            *)
THEOREM OnlyProbesReviveBesideCommands == SystemSpec => RevivedOnlyByProbe
<1>1. IInv /\ [SystemNext]_systemVars =>
          [\A k \in DOMAIN health \intersect DOMAIN health' :
              up /\ ~health[k] /\ health'[k] =>
                  \E t \in Tasks : probe[t].key = k /\ probe[t].live]_vars
  <2> SUFFICES ASSUME IInv, [SystemNext]_systemVars PROVE Revival
    BY DEF Revival
  <2>1. CASE GatewayStep
    BY <2>1, RevivalStep DEF GatewayStep
  <2>2. CASE CommandStep \/ UNCHANGED systemVars
    <3>1. health' = health
      BY <2>2, CommandsLeave DEF CommandStep, systemVars, vars
    <3>2. QED
      BY <3>1 DEF Revival
  <2>3. QED
    BY <2>1, <2>2 DEF SystemNext
<1>2. QED
  BY <1>1, SystemInvariance, PTL DEF SystemSpec, RevivedOnlyByProbe
=============================================================================
