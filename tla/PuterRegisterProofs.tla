------------------------ MODULE PuterRegisterProofs ------------------------
(* Proofs about Puter v2 registration, for any number of processes,        *)
(* attempts and addresses.                                                 *)
EXTENDS PuterRegister, SequenceTheorems, TLAPS

(* Appending to a list keeps its entries and adds one at the end.          *)
LEMMA AppendFacts ==
  ASSUME NEW S, NEW s \in Seq(S), NEW x \in S
  PROVE  /\ Append(s, x) \in Seq(S)
         /\ Append(s, x) # << >>
         /\ Len(Append(s, x)) = Len(s) + 1
         /\ DOMAIN Append(s, x) = DOMAIN s \union {Len(s) + 1}
         /\ Len(s) + 1 \notin DOMAIN s
         /\ \A i \in DOMAIN s : Append(s, x)[i] = s[i]
         /\ Append(s, x)[Len(s) + 1] = x
  OBVIOUS

(* A line of the state log moves its attempt to the state it names and     *)
(* forgets nothing.                                                        *)
LEMMA LogFacts ==
  ASSUME log \in [Attempts -> Seq(States)],
         NEW a \in Attempts, NEW s \in States,
         log' = [log EXCEPT ![a] = Append(@, s)]
  PROVE  /\ log' \in [Attempts -> Seq(States)]
         /\ StateOf(a)' = s
         /\ log'[a] # << >>
         /\ Member(s, log[a])'
         /\ \A b \in Attempts : b # a => log'[b] = log[b]
         /\ \A x : \A b \in Attempts : Member(x, log[b]) => Member(x, log[b])'
<1>1. log[a] \in Seq(States) /\ log'[a] = Append(log[a], s)
  OBVIOUS
<1>2. /\ Append(log[a], s) \in Seq(States)
      /\ Append(log[a], s) # << >>
      /\ Len(Append(log[a], s)) = Len(log[a]) + 1
      /\ DOMAIN Append(log[a], s) = DOMAIN log[a] \union {Len(log[a]) + 1}
      /\ \A i \in DOMAIN log[a] : Append(log[a], s)[i] = log[a][i]
      /\ Append(log[a], s)[Len(log[a]) + 1] = s
  BY <1>1, AppendFacts
<1>3. \A b \in Attempts : b # a => log'[b] = log[b]
  OBVIOUS
<1>4. StateOf(a)' = s
  BY <1>1, <1>2 DEF StateOf
<1>5. Member(s, log[a])'
  BY <1>1, <1>2 DEF Member
<1>6. ASSUME NEW b \in Attempts, NEW x, Member(x, log[b])
      PROVE  Member(x, log[b])'
  BY <1>1, <1>2, <1>3, <1>6 DEF Member
<1>7. log' \in [Attempts -> Seq(States)]
  BY <1>1, <1>2
<1> QED
  BY <1>1, <1>2, <1>3, <1>4, <1>5, <1>6, <1>7

(* The state of an attempt is one of the states.                           *)
LEMMA StateType ==
  ASSUME log \in [Attempts -> Seq(States)], NEW a \in Attempts
  PROVE  StateOf(a) \in States
  BY DEF StateOf, States

-----------------------------------------------------------------------------
(* Type correctness.                                                       *)

(* A process that is at work has an attempt in hand.                       *)
LEMMA InHand ==
  ASSUME IInv, NEW p \in Procs, pc[p] \notin {"down", "idle"}
  PROVE  /\ cur[p] \in Attempts
         /\ outcome[cur[p]] = "running"
         /\ StateOf(cur[p]) \in StateAt(pc[p])
         /\ failures[cur[p]] = 0
         /\ pc[p] = "failure" => audit[cur[p]] # << >>
         /\ pc[p] # "failure" => audit[cur[p]] = << >>
         /\ p \in caught => pc[p] \in Excepted
         /\ p \in caught /\ pc[p] = "finalize" =>
                StateOf(cur[p]) # "quarantined"
  BY DEF IInv, ProcessInv, Holds

LEMMA TypeStep == IInv /\ [Next]_vars => TypeOK'
<1> SUFFICES ASSUME IInv, [Next]_vars PROVE TypeOK'
  OBVIOUS
<1> USE DEF TypeOK, vars, files, attempt, local, Goto, Points, Outcomes
<1>0. TypeOK
  BY DEF IInv
<1>1. ASSUME NEW p \in Procs, Start(p) \/ Quit(p) PROVE TypeOK'
  <2>1. Retired \subseteq Attempts
    BY <1>0 DEF Retired
  <2>2. heard' \in [Procs -> SUBSET Attempts]
    BY <1>0, <1>1, <2>1 DEF Start, Quit
  <2> QED
    BY <1>0, <1>1, <2>2 DEF Start, Quit
<1>2. ASSUME NEW p \in Procs, Begin(p) PROVE TypeOK'
  <2>1. PICK a \in Attempts :
           /\ outcome' = [outcome EXCEPT ![a] = "running"]
           /\ started' = Append(started, <<p, a>>)
           /\ cur' = [cur EXCEPT ![p] = a]
    BY <1>2 DEF Begin
  <2> QED
    BY <1>0, <1>2, <2>1, AppendFacts DEF Begin
<1>3. ASSUME NEW p \in Procs, AcquireSession(p) PROVE TypeOK'
  <2>1. cur[p] \in Attempts
    BY <1>3, InHand DEF AcquireSession
  <2>2. PICK i \in IPs :
          IF i \in banned[p]
            THEN Goto(p, "handle") /\ UNCHANGED ip
            ELSE Goto(p, "mailbox") /\ ip' = [ip EXCEPT ![cur[p]] = i]
    BY <1>3 DEF AcquireSession
  <2>3. ip' \in [Attempts -> IPs \union {None}] /\ pc' \in [Procs -> Points]
    <3>1. CASE Goto(p, "handle") /\ UNCHANGED ip
      BY <1>0, <3>1
    <3>2. CASE Goto(p, "mailbox") /\ ip' = [ip EXCEPT ![cur[p]] = i]
      BY <1>0, <2>1, <3>2
    <3> QED
      BY <2>2, <3>1, <3>2
  <2> QED
    BY <1>0, <1>3, <2>3 DEF AcquireSession
<1>4. ASSUME NEW p \in Procs, NEW s \in States, NEW x \in Points,
             pc[p] \notin {"down", "idle"}, Transition(p, s, x)
      PROVE  log' \in [Attempts -> Seq(States)] /\ pc' \in [Procs -> Points]
  <2>1. PICK a \in Attempts : a = cur[p]
    BY <1>4, InHand
  <2>2. CASE log' = [log EXCEPT ![a] = Append(@, s)] /\ Goto(p, x)
    BY <1>0, <2>2, LogFacts
  <2>3. CASE Goto(p, "handle") /\ UNCHANGED log
    BY <1>0, <2>3
  <2> QED
    BY <1>4, <2>1, <2>2, <2>3 DEF Transition
<1>5. ASSUME NEW p \in Procs,
             \/ StartBrowser(p) \/ FillForm(p) \/ Submit(p)
             \/ VerifyEmail(p) \/ VerifySession(p) \/ EnterQuarantine(p)
      PROVE  TypeOK'
  <2>0. /\ pc[p] \notin {"down", "idle"}
        /\ \E s \in States, x \in Points : Transition(p, s, x)
    BY <1>5 DEF StartBrowser, FillForm, Submit, VerifyEmail, VerifySession,
                EnterQuarantine, States
  <2>1. log' \in [Attempts -> Seq(States)] /\ pc' \in [Procs -> Points]
    BY <1>4, <2>0
  <2> QED
    BY <1>0, <1>5, <2>1 DEF StartBrowser, FillForm, Submit, VerifyEmail,
                           VerifySession, EnterQuarantine
<1>6. ASSUME NEW p \in Procs, DetectPhone(p) \/ Raise(p) PROVE TypeOK'
  <2>1. cur[p] \in Attempts
    BY <1>6, InHand DEF DetectPhone, Raise
  <2> QED
    BY <1>0, <1>6, <2>1 DEF DetectPhone, Raise
<1>7. ASSUME NEW p \in Procs, MarkPhoneTriggered(p) PROVE TypeOK'
  <2>1. ip[cur[p]] \in IPs
    BY <1>7 DEF MarkPhoneTriggered, IInv, ProcessInv, Holds, Sessionless
  <2> QED
    BY <1>0, <1>7, <2>1 DEF MarkPhoneTriggered
<1>17. ASSUME NEW p \in Procs, SoftLandingSkip(p) PROVE TypeOK'
  <2>1. cur[p] \in Attempts
    BY <1>17, InHand DEF SoftLandingSkip
  <2>2. log' \in [Attempts -> Seq(States)]
    BY <1>0, <1>17, <2>1, LogFacts DEF SoftLandingSkip, States
  <2> QED
    BY <1>0, <1>17, <2>2 DEF SoftLandingSkip
<1>8. ASSUME NEW p \in Procs, LoadAccounts(p) PROVE TypeOK'
  BY <1>0, <1>8 DEF LoadAccounts
<1>9. ASSUME NEW p \in Procs, StoreAccount(p) PROVE TypeOK'
  BY <1>0, <1>9, InHand, AppendFacts, EmptySeq DEF StoreAccount
<1>10. ASSUME NEW p \in Procs, RecordRegistration(p) PROVE TypeOK'
  BY <1>0, <1>10, InHand, AppendFacts DEF RecordRegistration
<1>11. ASSUME NEW p \in Procs, NEW how \in Outcomes, NEW x \in Points,
              cur[p] \in Attempts, Leave(p, how, x)
       PROVE  /\ outcome' \in [Attempts -> Outcomes]
              /\ cur' \in [Procs -> Attempts \union {None}]
              /\ view' \in [Procs -> Seq(Attempts)]
              /\ pc' \in [Procs -> Points]
              /\ caught' \subseteq Procs
  BY <1>0, <1>11, EmptySeq DEF Leave
<1>12. ASSUME NEW p \in Procs, Handle(p) PROVE TypeOK'
  <2>1. cur[p] \in Attempts
    BY <1>12, InHand DEF Handle
  <2>2. CASE Leave(p, "escaped", "down") /\ UNCHANGED log
    BY <1>0, <1>11, <1>12, <2>1, <2>2 DEF Handle
  <2>3. CASE /\ log' = [log EXCEPT ![cur[p]] = Append(@, "failed")]
             /\ Goto(p, "finalize") /\ caught' = caught \union {p}
             /\ UNCHANGED <<outcome, cur, view>>
    <3>1. log' \in [Attempts -> Seq(States)]
      BY <1>0, <2>1, <2>3, LogFacts DEF States
    <3> QED
      BY <1>0, <1>12, <2>3, <3>1 DEF Handle
  <2>4. CASE /\ Goto(p, "finalize") /\ caught' = caught \union {p}
             /\ UNCHANGED <<log, outcome, cur, view>>
    BY <1>0, <1>12, <2>4 DEF Handle
  <2> QED
    BY <1>12, <2>2, <2>3, <2>4 DEF Handle
<1>13. ASSUME NEW p \in Procs, AppendAudit(p) PROVE TypeOK'
  <2>1. cur[p] \in Attempts
    BY <1>13, InHand DEF AppendAudit
  <2>2. audit' \in [Attempts -> Seq(States)]
    BY <1>0, <1>13, <2>1, StateType, AppendFacts DEF AppendAudit
  <2>3. /\ outcome' \in [Attempts -> Outcomes]
        /\ cur' \in [Procs -> Attempts \union {None}]
        /\ view' \in [Procs -> Seq(Attempts)]
        /\ pc' \in [Procs -> Points]
        /\ caught' \subseteq Procs
    BY <1>0, <1>11, <1>13, <2>1 DEF AppendAudit
  <2> QED
    BY <1>0, <1>13, <2>2, <2>3 DEF AppendAudit
<1>14. ASSUME NEW p \in Procs, AppendFailure(p) PROVE TypeOK'
  <2>1. cur[p] \in Attempts
    BY <1>14, InHand DEF AppendFailure
  <2>2. /\ outcome' \in [Attempts -> Outcomes]
        /\ cur' \in [Procs -> Attempts \union {None}]
        /\ view' \in [Procs -> Seq(Attempts)]
        /\ pc' \in [Procs -> Points]
        /\ caught' \subseteq Procs
    BY <1>11, <1>14, <2>1 DEF AppendFailure
  <2>3. failures' \in [Attempts -> Nat]
    BY <1>0, <1>14, <2>1 DEF AppendFailure
  <2> QED
    BY <1>0, <1>14, <2>2, <2>3 DEF AppendFailure
<1>15. ASSUME NEW p \in Procs, Crash(p) PROVE TypeOK'
  <2>1. /\ outcome' \in [Attempts -> Outcomes]
        /\ cur' \in [Procs -> Attempts \union {None}]
        /\ view' \in [Procs -> Seq(Attempts)]
        /\ pc' \in [Procs -> Points]
        /\ caught' \subseteq Procs
    BY <1>11, <1>15, InHand DEF Crash
  <2> QED
    BY <1>0, <1>15, <2>1 DEF Crash, Writing
<1>18. ASSUME NEW p \in Procs, ReadLog(p) PROVE TypeOK'
  <2>1. cur[p] \in Attempts
    BY <1>18, InHand DEF ReadLog
  <2>2. CASE Leave(p, "escaped", "down")
    BY <1>0, <1>11, <1>18, <2>1, <2>2 DEF ReadLog
  <2>3. CASE Goto(p, "handle") /\ UNCHANGED <<outcome, cur, view, caught>>
    BY <1>0, <1>18, <2>3 DEF ReadLog
  <2> QED
    BY <1>18, <2>2, <2>3 DEF ReadLog
<1>16. CASE UNCHANGED vars
  BY <1>0, <1>16
<1> QED
  BY <1>1, <1>2, <1>3, <1>5, <1>6, <1>7, <1>8, <1>9, <1>10, <1>12, <1>13,
     <1>14, <1>15, <1>16, <1>17, <1>18 DEF Next, Step

-----------------------------------------------------------------------------
(* The attempt in hand.                                                    *)

AttemptInv(a) ==
  /\ Untouched(a)
  /\ Told(a)
  /\ Explained(a)

(* A transition the table has leads to its control point.                  *)
LEMMA TransitionOwn ==
  ASSUME IInv, NEW p \in Procs, NEW a \in Attempts, a = cur[p],
         NEW s \in States, NEW x \in Points \ {"down", "idle", "failure"},
         pc[p] \notin {"down", "idle", "failure"}, pc[p] \notin Excepted,
         pc[p] \notin Sessionless \/ x \in Sessionless,
         <<StateOf(a), s>> \in Allowed, s \in StateAt(x),
         Transition(p, s, x),
         UNCHANGED <<audit, failures, outcome, ip, cur, caught>>
  PROVE  Holds(p)' /\ AttemptInv(a)'
<1> USE DEF TypeOK
<1>0. /\ TypeOK /\ Told(a)
      /\ outcome[a] = "running" /\ failures[a] = 0 /\ audit[a] = << >>
      /\ pc[p] \notin Sessionless => ip[a] \in IPs
      /\ p \notin caught
  BY DEF IInv, ProcessInv, Holds, AuditTellsTheEnd
<1>1. log' = [log EXCEPT ![a] = Append(@, s)] /\ pc' = [pc EXCEPT ![p] = x]
  BY DEF Transition, Goto
<1>2. StateOf(a)' = s
  BY <1>0, <1>1, LogFacts
<1>3. pc'[p] = x /\ cur'[p] = a
  BY <1>0, <1>1
<1>4. Holds(p)'
  BY <1>0, <1>2, <1>3 DEF Holds, StateAt, Sessionless
<1>5. AttemptInv(a)'
  BY <1>0, <1>2 DEF AttemptInv, Untouched, Told, Explained
<1> QED
  BY <1>4, <1>5

(* Whatever it does, a process keeps its own affairs in order.             *)
LEMMA OwnStep ==
  ASSUME IInv, NEW p \in Procs, Step(p)
  PROVE  /\ Holds(p)'
         /\ \A a \in Attempts : a = cur[p] \/ a = cur'[p] => AttemptInv(a)'
<1> USE DEF TypeOK
<1>0. TypeOK /\ Holds(p) /\ \A a \in Attempts : AttemptInv(a)
  BY DEF IInv, ProcessInv, AuditTellsTheEnd, EscapesExplained, AttemptInv
<1>1. CASE Start(p) \/ Quit(p)
  BY <1>0, <1>1, NoneAssumption DEF Start, Quit, Goto, Holds, files, attempt
<1>2. CASE Begin(p)
  <2>1. PICK a \in Attempts :
           /\ outcome[a] = "none"
           /\ outcome' = [outcome EXCEPT ![a] = "running"]
           /\ cur' = [cur EXCEPT ![p] = a]
    BY <1>2 DEF Begin
  <2>2. cur[p] = None /\ cur'[p] = a /\ pc'[p] = "identity"
    BY <1>0, <1>2, <2>1 DEF Begin, Holds, Goto
  <2>3. UNCHANGED <<log, audit, failures>>
    BY <1>2 DEF Begin, files
  <2>4. log[a] = << >> /\ audit[a] = << >> /\ failures[a] = 0
    BY <1>0, <2>1 DEF AttemptInv, Untouched
  <2>5. StateOf(a)' = "draft" /\ outcome'[a] = "running"
    BY <1>0, <2>1, <2>3, <2>4 DEF StateOf
  <2>8. p \notin caught'
    BY <1>0, <1>2 DEF Begin, Holds
  <2>6. Holds(p)'
    BY <2>2, <2>3, <2>4, <2>5, <2>8 DEF Holds, StateAt, Sessionless
  <2>7. AttemptInv(a)'
    BY <1>0, <2>3, <2>4, <2>5 DEF AttemptInv, Untouched, Told, Explained
  <2> QED
    BY <2>2, <2>6, <2>7, NoneAssumption
<1>3. ASSUME ~Start(p), ~Quit(p), ~Begin(p)
      PROVE  pc[p] \notin {"down", "idle"}
  BY <1>3 DEF Step, AcquireSession, StartBrowser, FillForm, Submit, DetectPhone,
     MarkPhoneTriggered, SoftLandingSkip, VerifyEmail, VerifySession,
     EnterQuarantine, LoadAccounts, StoreAccount, RecordRegistration, Raise,
     Handle, ReadLog, AppendAudit, AppendFailure, Crash
<1>4. CASE ~Start(p) /\ ~Quit(p) /\ ~Begin(p)
  <2>1. PICK a \in Attempts : a = cur[p]
    BY <1>0, <1>3, <1>4 DEF Holds
  <2>2. /\ pc[p] \notin {"down", "idle"}
        /\ outcome[a] = "running" /\ failures[a] = 0
        /\ StateOf(a) \in StateAt(pc[p])
        /\ StateOf(a) \in States
        /\ pc[p] \notin Sessionless => ip[a] \in IPs
        /\ audit[a] = << >> <=> pc[p] # "failure"
        /\ p \in caught => pc[p] \in Excepted
        /\ p \in caught /\ pc[p] = "finalize" => StateOf(a) # "quarantined"
        /\ Told(a)
    BY <1>0, <1>3, <1>4, <2>1, StateType DEF Holds, AttemptInv
  <2>3. SUFFICES Holds(p)' /\ AttemptInv(a)'
                 /\ (cur'[p] = a \/ cur'[p] \notin Attempts)
    BY <2>1
  <2>4. ASSUME NEW x \in Points \ {"down", "idle", "failure"}, Goto(p, x),
               pc[p] # "failure",
               pc[p] \notin Sessionless \/ x \in Sessionless,
               StateOf(a) \in StateAt(x),
               p \in caught' => /\ x \in Excepted
                                /\ x = "finalize" => StateOf(a) # "quarantined",
               UNCHANGED <<log, audit, failures, outcome, ip, cur>>
        PROVE  Holds(p)' /\ AttemptInv(a)' /\ cur'[p] = a
    <3>1. pc'[p] = x /\ cur'[p] = a /\ StateOf(a)' = StateOf(a)
      BY <1>0, <2>1, <2>4 DEF Goto, StateOf
    <3>2. StateAt(x)' = StateAt(x)
      BY DEF StateAt
    <3>3. Holds(p)'
      BY <2>2, <2>4, <3>1, <3>2 DEF Holds, Sessionless, Points
    <3>4. AttemptInv(a)'
      BY <2>2, <2>4, <3>1 DEF AttemptInv, Untouched, Told, Explained
    <3> QED
      BY <3>1, <3>3, <3>4
  <2>5. ASSUME NEW how \in Outcomes \ {"none", "running"},
               NEW x \in {"down", "idle"}, Leave(p, how, x),
               how = "returned" => /\ audit'[a] # << >>
                                   /\ StateOf(a)' = "failed" => failures'[a] = 1,
               how = "escaped" =>
                  /\ StateOf(a)' = "session_established" \/ "states" \in torn'
                  /\ audit'[a] = << >> /\ failures'[a] = 0
                  /\ StateOf(a)' # "quarantined",
               Len(audit'[a]) <= 1,
               audit'[a] # << >> => audit'[a][1] = StateOf(a)',
               failures'[a] > 0 => /\ failures'[a] = 1
                                   /\ audit'[a] # << >>
                                   /\ StateOf(a)' = "failed"
        PROVE  Holds(p)' /\ AttemptInv(a)' /\ cur'[p] = None
    <3>1. /\ outcome'[a] = how /\ cur'[p] = None /\ pc'[p] = x
          /\ p \notin caught'
      BY <1>0, <2>1, <2>5 DEF Leave, Goto
    <3> QED
      BY <2>5, <3>1 DEF Holds, AttemptInv, Untouched, Told, Explained
  <2>6. CASE AcquireSession(p)
    <3>1. PICK i \in IPs :
            IF i \in banned[p]
              THEN Goto(p, "handle") /\ UNCHANGED ip
              ELSE Goto(p, "mailbox") /\ ip' = [ip EXCEPT ![a] = i]
      BY <2>1, <2>6 DEF AcquireSession
    <3>2. /\ pc[p] = "identity" /\ p \notin caught
          /\ UNCHANGED <<log, audit, failures, outcome, cur, caught>>
      BY <2>2, <2>6 DEF AcquireSession, files, Excepted
    <3>3. StateOf(a) = "draft"
      BY <2>2, <3>2 DEF StateAt
    <3>4. CASE Goto(p, "handle") /\ UNCHANGED ip
      BY <2>2, <2>4, <3>2, <3>3, <3>4 DEF Points, Sessionless, StateAt
    <3>5. CASE Goto(p, "mailbox") /\ ip' = [ip EXCEPT ![a] = i]
      <4>1. /\ pc'[p] = "mailbox" /\ cur'[p] = a /\ StateOf(a)' = "draft"
            /\ ip'[a] \in IPs
        BY <1>0, <2>1, <3>2, <3>3, <3>5 DEF Goto, StateOf
      <4>2. Holds(p)'
        BY <2>2, <3>2, <4>1 DEF Holds, StateAt, Sessionless
      <4>3. AttemptInv(a)'
        BY <2>2, <3>2, <3>3, <4>1 DEF AttemptInv, Untouched, Told, Explained
      <4> QED
        BY <4>1, <4>2, <4>3
    <3> QED
      BY <3>1, <3>4, <3>5
  <2>7. CASE \/ StartBrowser(p) \/ FillForm(p) \/ Submit(p)
             \/ VerifyEmail(p) \/ VerifySession(p) \/ EnterQuarantine(p)
    <3>1. UNCHANGED <<audit, failures, outcome, ip, cur, caught>>
      BY <2>7 DEF StartBrowser, FillForm, Submit, VerifyEmail, VerifySession,
                  EnterQuarantine, attempt
    <3>2. cur'[p] = a
      BY <2>1, <3>1
    <3>3. CASE StartBrowser(p)
      BY <2>1, <2>2, <3>1, <3>3, <3>2, TransitionOwn
         DEF StartBrowser, States, Points, Sessionless, Excepted, StateAt,
             Allowed, MayFail
    <3>4. CASE FillForm(p)
      BY <2>1, <2>2, <3>1, <3>4, <3>2, TransitionOwn
         DEF FillForm, States, Points, Sessionless, Excepted, StateAt,
             Allowed, MayFail
    <3>5. CASE Submit(p)
      BY <2>1, <2>2, <3>1, <3>5, <3>2, TransitionOwn
         DEF Submit, States, Points, Sessionless, Excepted, StateAt,
             Allowed, MayFail
    <3>6. CASE VerifyEmail(p)
      BY <2>1, <2>2, <3>1, <3>6, <3>2, TransitionOwn
         DEF VerifyEmail, States, Points, Sessionless, Excepted, StateAt,
             Allowed, MayFail
    <3>7. CASE VerifySession(p)
      BY <2>1, <2>2, <3>1, <3>7, <3>2, TransitionOwn
         DEF VerifySession, States, Points, Sessionless, Excepted, StateAt,
             Allowed, MayFail
    <3>8. CASE EnterQuarantine(p)
      BY <2>1, <2>2, <3>1, <3>8, <3>2, TransitionOwn
         DEF EnterQuarantine, States, Points, Sessionless, Excepted, StateAt,
             Allowed
    <3> QED
      BY <2>7, <3>3, <3>4, <3>5, <3>6, <3>7, <3>8
  <2>8. CASE DetectPhone(p) \/ Raise(p)
    <3>1. UNCHANGED <<log, audit, failures, outcome, ip, cur>>
      BY <2>8 DEF DetectPhone, Raise, files, attempt
    <3>2. PICK x \in {"pause", "code", "handle"} :
             /\ Goto(p, x) /\ pc[p] # "failure"
             /\ pc[p] \notin Sessionless \/ x \in Sessionless
             /\ StateOf(a) \in StateAt(x)
             /\ x = "pause" \/ caught' = caught
             /\ pc[p] \notin Excepted
      BY <2>2, <2>8 DEF DetectPhone, Raise, StateAt, Sessionless, Excepted
    <3> QED
      BY <2>2, <2>4, <3>1, <3>2 DEF Points, Excepted
  <2>15. CASE MarkPhoneTriggered(p)
    <3>1. /\ UNCHANGED <<log, audit, failures, outcome, ip, cur, caught>>
          /\ pc[p] = "pause" /\ Goto(p, "skip")
      BY <2>15 DEF MarkPhoneTriggered, attempt
    <3>2. StateOf(a) \in StateAt("skip")
      BY <2>2, <3>1 DEF StateAt
    <3> QED
      BY <2>4, <3>1, <3>2 DEF Points, Sessionless, Excepted
  <2>9. CASE SoftLandingSkip(p)
    <3>1. /\ UNCHANGED <<audit, failures, outcome, ip, cur, caught>>
          /\ pc[p] = "skip" /\ Goto(p, "finalize")
      BY <2>9 DEF SoftLandingSkip, attempt
    <3>2. cur'[p] = a /\ pc'[p] = "finalize" /\ audit[a] = << >>
      BY <1>0, <2>1, <2>2, <3>1 DEF Goto
    <3>3. log' \in [Attempts -> Seq(States)]
      BY TypeStep DEF Next
    <3>4. StateOf(a)' \in States
      BY <3>3 DEF StateOf, States
    <3>7. StateOf(a)' # "quarantined"
      <4>1. \/ log' = [log EXCEPT ![a] =
                          Append(@, "skipped_phone_verification")]
            \/ UNCHANGED log
        BY <2>1, <2>9 DEF SoftLandingSkip
      <4>2. StateOf(a)' = "skipped_phone_verification" \/ UNCHANGED log
        BY <1>0, <4>1, LogFacts DEF States
      <4> QED
        BY <2>2, <3>1, <4>2 DEF StateAt, StateOf
    <3>5. Holds(p)'
      BY <2>2, <3>1, <3>2, <3>4, <3>7 DEF Holds, StateAt, Sessionless, Excepted
    <3>6. AttemptInv(a)'
      BY <2>2, <3>1, <3>2 DEF AttemptInv, Untouched, Told, Explained
    <3> QED
      BY <3>2, <3>5, <3>6
  <2>10. CASE LoadAccounts(p) \/ StoreAccount(p) \/ RecordRegistration(p)
    <3>1. UNCHANGED <<log, audit, failures, outcome, ip, cur, caught>>
      BY <2>10 DEF LoadAccounts, StoreAccount, RecordRegistration, files, attempt
    <3>2. PICK x \in {"storing", "record", "finalize"} :
             Goto(p, x) /\ pc[p] \in {"store", "storing", "record"}
      BY <2>10 DEF LoadAccounts, StoreAccount, RecordRegistration
    <3>3. StateOf(a) \in StateAt(x)
      BY <2>2, <3>2 DEF StateAt, States
    <3> QED
      BY <2>2, <2>4, <3>1, <3>2, <3>3 DEF Points, Sessionless, Excepted
  <2>11. CASE Handle(p)
    <3>1. /\ pc[p] = "handle"
          /\ UNCHANGED <<audit, failures, ip>>
      BY <2>11 DEF Handle
    <3>2. audit[a] = << >> /\ StateOf(a) \in StateAt("handle")
      BY <2>2, <3>1
    <3>3. CASE Leave(p, "escaped", "down") /\ UNCHANGED log
               /\ StateOf(a) \notin Terminal
               /\ <<StateOf(a), "failed">> \notin Allowed
      <4>1. StateOf(a) = "session_established"
        BY <2>2, <3>3 DEF States, Terminal, Allowed, MayFail
      <4>2. StateOf(a)' = StateOf(a)
        BY <3>3 DEF StateOf
      <4> QED
        BY <2>2, <2>5, <3>1, <3>2, <3>3, <4>1, <4>2, NoneAssumption
           DEF Outcomes
    <3>4. CASE log' = [log EXCEPT ![a] = Append(@, "failed")]
               /\ Goto(p, "finalize") /\ UNCHANGED <<outcome, cur>>
      <4>1. StateOf(a)' = "failed"
        BY <1>0, <3>4, LogFacts DEF States
      <4>2. cur'[p] = a /\ pc'[p] = "finalize"
        BY <1>0, <2>1, <3>4 DEF Goto
      <4>3. Holds(p)'
        BY <2>2, <3>1, <3>2, <3>4, <4>1, <4>2
           DEF Holds, StateAt, Sessionless, States, Excepted
      <4>4. AttemptInv(a)'
        BY <2>2, <3>1, <3>2, <3>4 DEF AttemptInv, Untouched, Told, Explained
      <4> QED
        BY <4>2, <4>3, <4>4
    <3>5. CASE /\ StateOf(a) \in Terminal
               /\ Goto(p, "finalize") /\ UNCHANGED <<log, outcome, cur>>
      <4>1. StateOf(a) \in StateAt("finalize") /\ StateOf(a) # "quarantined"
        BY <1>0, <3>5, StateType DEF StateAt, Terminal
      <4> QED
        BY <2>4, <3>1, <3>5, <4>1 DEF Points, Sessionless, Excepted
    <3> QED
      BY <2>1, <2>11, <3>3, <3>4, <3>5 DEF Handle
  <2>16. CASE ReadLog(p)
    <3>1. /\ pc[p] = "finalize" /\ "states" \in torn
          /\ UNCHANGED <<log, audit, failures, ip, torn>>
      BY <2>16 DEF ReadLog, files
    <3>2. /\ StateOf(a)' = StateOf(a) /\ StateOf(a) \in States
          /\ audit[a] = << >> /\ failures[a] = 0
      BY <1>0, <2>2, <3>1, StateType DEF StateOf
    <3>3. CASE p \notin caught /\ Goto(p, "handle")
               /\ UNCHANGED <<outcome, cur, caught>>
      <4>1. StateOf(a) \in StateAt("handle")
        BY <3>2 DEF StateAt
      <4> QED
        BY <2>4, <3>1, <3>3, <4>1 DEF Points, Sessionless
    <3>4. CASE p \in caught /\ Leave(p, "escaped", "down")
      BY <2>2, <2>5, <3>1, <3>2, <3>4, NoneAssumption DEF Outcomes
    <3> QED
      BY <2>16, <3>3, <3>4 DEF ReadLog
  <2>12. CASE AppendAudit(p)
    <3>1. /\ pc[p] = "finalize"
          /\ audit' = [audit EXCEPT ![a] = Append(@, StateOf(a))]
          /\ UNCHANGED <<log, failures, ip>>
      BY <2>1, <2>12 DEF AppendAudit
    <3>2. audit[a] = << >> /\ StateOf(a) \in States /\ StateOf(a)' = StateOf(a)
      BY <1>0, <2>2, <3>1, StateType DEF StateOf
    <3>3. audit'[a] = <<StateOf(a)>>
      BY <1>0, <3>1, <3>2
    <3>6. /\ audit'[a] # << >> /\ Len(audit'[a]) = 1
          /\ audit'[a][1] = StateOf(a)
          /\ failures'[a] = 0 /\ outcome[a] = "running"
      <4>1. audit'[a] # << >> /\ Len(audit'[a]) = 1
        BY <3>3
      <4>2. audit'[a][1] = StateOf(a)
        BY <3>3
      <4>3. failures'[a] = failures[a]
        BY <3>1
      <4> QED
        BY <2>2, <4>1, <4>2, <4>3
    <3>4. CASE StateOf(a) = "failed" /\ Goto(p, "failure")
               /\ UNCHANGED <<outcome, cur, caught>>
      <4>1. cur'[p] = a /\ pc'[p] = "failure"
        BY <1>0, <2>1, <3>4 DEF Goto
      <4>2. Holds(p)'
        <5>1. audit'[a] # << >> /\ failures'[a] = 0 /\ outcome'[a] = "running"
          BY <3>4, <3>6
        <5>2. StateOf(a)' \in StateAt("failure") /\ "failure" \in Excepted
          BY <3>2, <3>4 DEF StateAt, Excepted
        <5> QED
          BY <4>1, <5>1, <5>2 DEF Holds, Sessionless, StateAt
      <4>3. AttemptInv(a)'
        BY <2>2, <3>1, <3>2, <3>3, <3>4 DEF AttemptInv, Untouched, Told, Explained
      <4> QED
        BY <4>1, <4>2, <4>3
    <3>5. CASE StateOf(a) # "failed" /\ Leave(p, "returned", "idle")
      <4>1. /\ audit'[a] # << >> /\ Len(audit'[a]) <= 1
            /\ audit'[a][1] = StateOf(a)' /\ failures'[a] = 0
        BY <3>2, <3>6
      <4> QED
        BY <2>5, <3>2, <3>5, <4>1, NoneAssumption DEF Outcomes
    <3> QED
      BY <2>1, <2>12, <3>4, <3>5 DEF AppendAudit
  <2>13. CASE AppendFailure(p)
    <3>1. /\ pc[p] = "failure" /\ Leave(p, "returned", "idle")
          /\ failures' = [failures EXCEPT ![a] = @ + 1]
          /\ UNCHANGED <<log, audit>>
      BY <2>1, <2>13 DEF AppendFailure
    <3>2. /\ StateOf(a) = "failed" /\ StateOf(a)' = StateOf(a)
          /\ audit[a] # << >> /\ failures'[a] = 1
      BY <1>0, <2>2, <3>1 DEF StateAt, StateOf
    <3> QED
      BY <2>2, <2>5, <3>1, <3>2, NoneAssumption DEF Outcomes, Told
  <2>14. CASE Crash(p)
    <3>1. PICK how \in {"dead", "cut"} :
             Leave(p, how, "down") /\ UNCHANGED <<log, audit, failures>>
      BY <2>14 DEF Crash
    <3>2. StateOf(a)' = StateOf(a)
      BY <3>1 DEF StateOf
    <3> QED
      BY <2>2, <2>5, <3>1, <3>2, NoneAssumption DEF Outcomes, Told
  <2> QED
    BY <1>4, <2>6, <2>7, <2>8, <2>9, <2>10, <2>11, <2>12, <2>13, <2>14,
       <2>15, <2>16 DEF Step
<1> QED
  BY <1>1, <1>2, <1>4

(* A process disturbs no other process and no attempt but its own.         *)
LEMMA Frame ==
  ASSUME IInv, NEW p \in Procs, Step(p)
  PROVE  /\ \A q \in Procs : q # p =>
               /\ pc'[q] = pc[q] /\ cur'[q] = cur[q]
               /\ q \in caught' <=> q \in caught
         /\ \A b \in Attempts : b # cur[p] /\ b # cur'[p] =>
               /\ log'[b] = log[b] /\ audit'[b] = audit[b]
               /\ failures'[b] = failures[b] /\ outcome'[b] = outcome[b]
               /\ ip'[b] = ip[b]
         /\ \/ cur'[p] \in {cur[p], None}
            \/ cur'[p] \in Attempts /\ outcome[cur'[p]] = "none"
         /\ torn \subseteq torn'
<1> USE DEF TypeOK
<1>0. TypeOK
  BY DEF IInv
<1>1. CASE Start(p) \/ Quit(p)
  BY <1>0, <1>1 DEF Start, Quit, Goto, files, attempt
<1>2. CASE Begin(p)
  BY <1>0, <1>2 DEF Begin, Goto, files
<1>3. CASE AcquireSession(p)
  BY <1>0, <1>3 DEF AcquireSession, Goto, files
<1>4. CASE \/ StartBrowser(p) \/ FillForm(p) \/ Submit(p)
           \/ VerifyEmail(p) \/ VerifySession(p) \/ EnterQuarantine(p)
  <2>1. \E s, x : Transition(p, s, x)
    BY <1>4 DEF StartBrowser, FillForm, Submit, VerifyEmail, VerifySession,
                EnterQuarantine
  <2>2. UNCHANGED <<audit, failures, outcome, ip, cur, caught, torn>>
    BY <1>4 DEF StartBrowser, FillForm, Submit, VerifyEmail, VerifySession,
                EnterQuarantine, attempt
  <2> QED
    BY <1>0, <2>1, <2>2 DEF Transition, Goto
<1>5. CASE DetectPhone(p) \/ Raise(p)
  BY <1>0, <1>5 DEF DetectPhone, Raise, Goto, files, attempt
<1>6. CASE MarkPhoneTriggered(p) \/ SoftLandingSkip(p)
  BY <1>0, <1>6 DEF MarkPhoneTriggered, SoftLandingSkip, Goto, attempt
<1>7. CASE LoadAccounts(p) \/ StoreAccount(p) \/ RecordRegistration(p)
  BY <1>0, <1>7 DEF LoadAccounts, StoreAccount, RecordRegistration, Goto, files,
                    attempt
<1>8. CASE Handle(p)
  BY <1>0, <1>8 DEF Handle, Leave, Goto
<1>9. CASE AppendAudit(p) \/ AppendFailure(p)
  BY <1>0, <1>9 DEF AppendAudit, AppendFailure, Leave, Goto
<1>10. CASE Crash(p)
  BY <1>0, <1>10 DEF Crash, Leave, Goto
<1>11. CASE ReadLog(p)
  BY <1>0, <1>11 DEF ReadLog, Leave, Goto, files
<1> QED
  BY <1>1, <1>2, <1>3, <1>4, <1>5, <1>6, <1>7, <1>8, <1>9, <1>10, <1>11 DEF Step

LEMMA ProcessStep ==
  ASSUME IInv, [Next]_vars
  PROVE  ProcessInv' /\ \A a \in Attempts : AttemptInv(a)'
<1>0. /\ \A p \in Procs : Holds(p)
      /\ \A p, q \in Procs : cur[p] = cur[q] /\ cur[p] # None => p = q
      /\ \A a \in Attempts : AttemptInv(a)
  BY DEF IInv, ProcessInv, AuditTellsTheEnd, EscapesExplained, AttemptInv
<1>1. ASSUME NEW p \in Procs, Step(p)
      PROVE  ProcessInv' /\ \A a \in Attempts : AttemptInv(a)'
  <2>0. TypeOK
    BY DEF IInv
  <2>1. /\ Holds(p)'
        /\ \A a \in Attempts : a = cur[p] \/ a = cur'[p] => AttemptInv(a)'
    BY <1>1, OwnStep
  <2>2. /\ \A q \in Procs : q # p =>
               /\ pc'[q] = pc[q] /\ cur'[q] = cur[q]
               /\ q \in caught' <=> q \in caught
        /\ \A b \in Attempts : b # cur[p] /\ b # cur'[p] =>
               /\ log'[b] = log[b] /\ audit'[b] = audit[b]
               /\ failures'[b] = failures[b] /\ outcome'[b] = outcome[b]
               /\ ip'[b] = ip[b]
        /\ \/ cur'[p] \in {cur[p], None}
           \/ cur'[p] \in Attempts /\ outcome[cur'[p]] = "none"
        /\ torn \subseteq torn'
    BY <1>1, Frame
  <2>3. ASSUME NEW q \in Procs, q # p, cur[q] # None
        PROVE  cur[q] # cur[p] /\ cur[q] # cur'[p]
    BY <1>0, <2>2, <2>3 DEF Holds
  <2>4. ASSUME NEW q \in Procs, q # p PROVE Holds(q)'
    <3>1. CASE cur[q] = None
      BY <1>0, <2>2, <2>4, <3>1, NoneAssumption DEF Holds
    <3>2. CASE cur[q] # None
      <4>1. PICK a \in Attempts : a = cur[q]
        BY <2>0, <3>2 DEF TypeOK
      <4>2. /\ log'[a] = log[a] /\ audit'[a] = audit[a]
            /\ failures'[a] = failures[a] /\ outcome'[a] = outcome[a]
            /\ ip'[a] = ip[a]
            /\ pc'[q] = pc[q] /\ cur'[q] = a
            /\ q \in caught' <=> q \in caught
        BY <2>2, <2>3, <2>4, <3>2, <4>1
      <4>3. StateOf(a)' = StateOf(a)
        BY <4>2 DEF StateOf
      <4>4. Holds(q) /\ StateAt(pc[q])' = StateAt(pc[q])
        BY <1>0, <4>2 DEF StateAt
      <4> QED
        BY <4>1, <4>2, <4>3, <4>4 DEF Holds
    <3> QED
      BY <3>1, <3>2
  <2>5. ASSUME NEW q \in Procs, NEW r \in Procs, cur'[q] = cur'[r],
               cur'[q] # None
        PROVE  q = r
    <3>1. CASE q # p /\ r # p
      BY <1>0, <2>2, <2>5, <3>1
    <3>2. CASE q = p /\ r # p
      BY <2>2, <2>3, <2>5, <3>2
    <3>3. CASE q # p /\ r = p
      BY <2>2, <2>3, <2>5, <3>3
    <3> QED
      BY <3>1, <3>2, <3>3
  <2>6. ASSUME NEW a \in Attempts PROVE AttemptInv(a)'
    <3>1. CASE a = cur[p] \/ a = cur'[p]
      BY <2>1, <3>1
    <3>2. CASE a # cur[p] /\ a # cur'[p]
      BY <1>0, <2>2, <3>2 DEF AttemptInv, Untouched, Told, Explained, StateOf
    <3> QED
      BY <3>1, <3>2
  <2> QED
    BY <2>1, <2>4, <2>5, <2>6 DEF ProcessInv
<1>2. CASE UNCHANGED vars
  <2>1. UNCHANGED <<log, audit, failures, outcome, ip, pc, cur, caught, torn>>
    BY <1>2 DEF vars, files, attempt, local
  <2>2. \A p \in Procs : Holds(p)'
    BY <1>0, <2>1 DEF Holds, StateOf, StateAt
  <2> QED
    BY <1>0, <2>1, <2>2 DEF ProcessInv, AttemptInv, Untouched, Told, Explained,
       StateOf
<1> QED
  BY <1>1, <1>2 DEF Next

-----------------------------------------------------------------------------
(* The account list and the scheduler's list.                              *)

(* Control never goes back over the writes, and the log forgets nothing.   *)
LEMMA Onward ==
  ASSUME IInv, NEW p \in Procs, Step(p)
  PROVE  /\ pc[p] \in AfterStore => pc'[p] \in AfterStore \/ cur'[p] = None
         /\ pc[p] \in AfterRecord => pc'[p] \in AfterRecord \/ cur'[p] = None
         /\ \A x : \A b \in Attempts : Member(x, log[b]) => Member(x, log[b])'
<1> USE DEF TypeOK, AfterStore, AfterRecord
<1>0. TypeOK
  BY DEF IInv
<1>1. CASE \/ Start(p) \/ Quit(p) \/ Begin(p) \/ AcquireSession(p)
           \/ DetectPhone(p) \/ MarkPhoneTriggered(p) \/ Raise(p)
           \/ LoadAccounts(p) \/ StoreAccount(p) \/ RecordRegistration(p)
  <2>1. UNCHANGED log
    BY <1>1 DEF Start, Quit, Begin, AcquireSession, DetectPhone,
                MarkPhoneTriggered, Raise, LoadAccounts, StoreAccount,
                RecordRegistration, files
  <2>2. \A x : \A b \in Attempts : Member(x, log[b]) => Member(x, log[b])'
    BY <2>1 DEF Member
  <2> QED
    BY <1>0, <1>1, <2>2 DEF Start, Quit, Begin, AcquireSession, DetectPhone,
       MarkPhoneTriggered, Raise, LoadAccounts, StoreAccount, RecordRegistration, Goto
<1>2. CASE \/ StartBrowser(p) \/ FillForm(p) \/ Submit(p)
           \/ VerifyEmail(p) \/ VerifySession(p) \/ EnterQuarantine(p)
  <2>1. PICK s \in States, x \in Points : Transition(p, s, x)
    BY <1>2 DEF StartBrowser, FillForm, Submit, VerifyEmail, VerifySession,
                EnterQuarantine, States, Points
  <2>2. pc[p] \notin AfterStore \union {"down", "idle"}
    BY <1>2 DEF StartBrowser, FillForm, Submit, VerifyEmail, VerifySession,
                EnterQuarantine
  <2>3. PICK a \in Attempts : a = cur[p]
    BY <2>2, InHand
  <2>4. \/ log' = [log EXCEPT ![a] = Append(@, s)]
        \/ UNCHANGED log
    BY <2>1, <2>3 DEF Transition
  <2>5. \A y : \A b \in Attempts : Member(y, log[b]) => Member(y, log[b])'
    BY <1>0, <2>4, LogFacts DEF Member
  <2> QED
    BY <2>2, <2>5
<1>3. CASE SoftLandingSkip(p)
  <2>1. PICK a \in Attempts : a = cur[p]
    BY <1>3, InHand DEF SoftLandingSkip
  <2>2. \/ log' = [log EXCEPT ![a] = Append(@, "skipped_phone_verification")]
        \/ UNCHANGED log
    BY <1>3, <2>1 DEF SoftLandingSkip
  <2>3. \A y : \A b \in Attempts : Member(y, log[b]) => Member(y, log[b])'
    BY <1>0, <2>2, LogFacts DEF Member, States
  <2>4. pc'[p] = "finalize"
    BY <1>0, <1>3 DEF SoftLandingSkip, Goto
  <2> QED
    BY <2>3, <2>4
<1>4. CASE Handle(p)
  <2>1. PICK a \in Attempts : a = cur[p]
    BY <1>4, InHand DEF Handle
  <2>2. \/ log' = [log EXCEPT ![a] = Append(@, "failed")]
        \/ UNCHANGED log
    BY <1>4, <2>1 DEF Handle
  <2>3. \A y : \A b \in Attempts : Member(y, log[b]) => Member(y, log[b])'
    BY <1>0, <2>2, LogFacts DEF Member, States
  <2>4. pc'[p] = "finalize" \/ cur'[p] = None
    BY <1>0, <1>4 DEF Handle, Goto, Leave
  <2> QED
    BY <2>3, <2>4
<1>5. CASE ReadLog(p) \/ AppendAudit(p) \/ AppendFailure(p) \/ Crash(p)
  <2>1. UNCHANGED log
    BY <1>5 DEF ReadLog, AppendAudit, AppendFailure, Crash, files
  <2>2. \A x : \A b \in Attempts : Member(x, log[b]) => Member(x, log[b])'
    BY <2>1 DEF Member
  <2>3. pc'[p] \in {"failure", "handle"} \/ cur'[p] = None
    BY <1>0, <1>5 DEF ReadLog, AppendAudit, AppendFailure, Crash, Goto, Leave
  <2> QED
    BY <2>2, <2>3
<1> QED
  BY <1>1, <1>2, <1>3, <1>4, <1>5 DEF Step

(* A list nobody touches stays as good as it was.                          *)
LEMMA FiledStable ==
  ASSUME IInv, NEW p \in Procs, Step(p), NEW list \in Seq(Attempts)
  PROVE  /\ FiledInv(list, AfterStore) => FiledInv(list, AfterStore)'
         /\ FiledInv(list, AfterRecord) => FiledInv(list, AfterRecord)'
<1> DEFINE Filed(after) ==
      /\ after \in {AfterStore, AfterRecord}
      /\ FiledInv(list, after)
<1>1. ASSUME NEW after \in {AfterStore, AfterRecord}, FiledInv(list, after)
      PROVE  FiledInv(list, after)'
  <2>0. /\ \A i \in DOMAIN list : Member("quarantined", log[list[i]])
        /\ \A i \in DOMAIN list, q \in Procs :
               list[i] = cur[q] => pc[q] \in after
        /\ \A i, j \in DOMAIN list : list[i] = list[j] => i = j
        /\ \A i \in DOMAIN list : list[i] \in Attempts
    BY <1>1, ElementOfSeq DEF FiledInv
  <2>1. ASSUME NEW i \in DOMAIN list PROVE Member("quarantined", log[list[i]])'
    BY <2>0, <2>1, Onward
  <2>2. ASSUME NEW i \in DOMAIN list, NEW q \in Procs, list[i] = cur'[q]
        PROVE  pc'[q] \in after
    <3>1. CASE q # p
      BY <2>0, <2>2, <3>1, Frame
    <3>2. CASE q = p /\ cur'[p] = cur[p]
      <4>1. cur'[p] # None
        BY <2>0, <2>2, <3>2, NoneAssumption
      <4> QED
        BY <1>1, <2>0, <2>2, <3>2, <4>1, Onward
    <3>3. CASE q = p /\ cur'[p] # cur[p]
      <4>1. cur'[p] \in Attempts /\ outcome[cur'[p]] = "none"
        BY <2>0, <2>2, <3>3, Frame, NoneAssumption
      <4>2. log[list[i]] = << >>
        BY <2>0, <2>2, <3>3, <4>1 DEF IInv, Untouched
      <4> QED
        BY <2>0, <4>2 DEF Member
    <3> QED
      BY <3>1, <3>2, <3>3
  <2> QED
    BY <2>0, <2>1, <2>2 DEF FiledInv, AfterStore, AfterRecord
<1> QED
  BY <1>1

LEMMA EmptyFiled == FiledInv(<< >>, AfterStore)
  BY DEF FiledInv

(* Adding an attempt that is being entered.                                *)
LEMMA EntryFiled ==
  ASSUME IInv, NEW p \in Procs, NEW a \in Attempts, a = cur[p],
         NEW after \in {AfterStore, AfterRecord},
         NEW list \in Seq(Attempts), FiledInv(list, after),
         pc[p] \in {"storing", "record"}, pc[p] \notin after,
         UNCHANGED <<log, cur>>, pc'[p] \in after,
         \A q \in Procs : q # p => pc'[q] = pc[q]
  PROVE  /\ Append(list, a) \in Seq(Attempts)
         /\ FiledInv(Append(list, a), after)'
<1> DEFINE new == Append(list, a)
<1>1. /\ new \in Seq(Attempts)
      /\ DOMAIN new = DOMAIN list \union {Len(list) + 1}
      /\ Len(list) + 1 \notin DOMAIN list
      /\ \A i \in DOMAIN list : new[i] = list[i]
      /\ new[Len(list) + 1] = a
  BY AppendFacts
<1>2. /\ StateOf(a) = "quarantined"
      /\ \A q \in Procs : cur[q] = a => q = p
  BY NoneAssumption DEF IInv, ProcessInv, Holds, StateAt
<1>3. Member("quarantined", log[a])
  <2>1. log[a] # << >> /\ log[a][Len(log[a])] = "quarantined"
    BY <1>2 DEF StateOf
  <2>2. log[a] \in Seq(States)
    BY DEF IInv, TypeOK
  <2>3. Len(log[a]) \in DOMAIN log[a]
    BY <2>1, <2>2
  <2> QED
    BY <2>1, <2>3 DEF Member
<1>4. /\ \A i \in DOMAIN list : Member("quarantined", log[list[i]])
      /\ \A i \in DOMAIN list, q \in Procs :
             list[i] = cur[q] => pc[q] \in after
      /\ \A i, j \in DOMAIN list : list[i] = list[j] => i = j
  BY DEF FiledInv
<1>5. \A i \in DOMAIN list : list[i] # a
  BY <1>4
<1> HIDE DEF new
<1>6. /\ \A i \in DOMAIN new : Member("quarantined", log[new[i]])
      /\ \A i, j \in DOMAIN new : new[i] = new[j] => i = j
  BY <1>1, <1>3, <1>4, <1>5
<1>7. ASSUME NEW i \in DOMAIN new, NEW q \in Procs, new[i] = cur'[q]
      PROVE  pc'[q] \in after
  BY <1>1, <1>2, <1>4, <1>7
<1>8. FiledInv(new, after)'
  BY <1>6, <1>7 DEF FiledInv, Member, AfterStore, AfterRecord
<1> QED
  BY <1>1, <1>8 DEF new

LEMMA ListStep == IInv /\ [Next]_vars => ListInv'
<1> SUFFICES ASSUME IInv, [Next]_vars PROVE ListInv'
  OBVIOUS
<1>0. TypeOK /\ ListInv /\ TypeOK'
  BY TypeStep DEF IInv
<1>1. ASSUME NEW p \in Procs, Step(p) PROVE ListInv'
  <2>0. PICK A \in Seq(Attempts), S \in Seq(Attempts) :
           A = accounts /\ S = scheduled
    BY <1>0 DEF TypeOK
  <2>1. FiledInv(A, AfterStore)' /\ FiledInv(S, AfterRecord)'
    BY <1>0, <1>1, <2>0, FiledStable DEF ListInv
  <2>2. ASSUME NEW q \in Procs, view'[q] = view[q]
        PROVE  FiledInv(view[q], AfterStore)'
    <3>1. PICK V \in Seq(Attempts) : V = view[q]
      BY <1>0 DEF TypeOK
    <3> QED
      BY <1>0, <1>1, <2>2, <3>1, FiledStable DEF ListInv, FiledInv
  <2>3. FiledInv(<< >>, AfterStore)'
    BY DEF FiledInv
  <2>4. CASE StoreAccount(p)
    <3>1. PICK a \in Attempts : a = cur[p]
      BY <2>4, InHand DEF StoreAccount
    <3>2. PICK V \in Seq(Attempts) : V = view[p]
      BY <1>0 DEF TypeOK
    <3>3. FiledInv(V, AfterStore)
      BY <1>0, <3>2 DEF ListInv
    <3>4. /\ pc[p] = "storing" /\ pc'[p] = "record"
          /\ \A q \in Procs : q # p => pc'[q] = pc[q] /\ view'[q] = view[q]
          /\ view'[p] = << >>
          /\ UNCHANGED <<log, cur, scheduled>>
          /\ accounts' = Append(V, a)
      BY <1>0, <2>4, <3>1, <3>2 DEF StoreAccount, Goto, attempt, TypeOK
    <3>5. FiledInv(Append(V, a), AfterStore)'
      BY <3>1, <3>3, <3>4, EntryFiled DEF AfterStore
    <3>6. FiledInv(accounts, AfterStore)'
      BY <3>4, <3>5 DEF FiledInv
    <3>7. FiledInv(scheduled, AfterRecord)'
      BY <2>0, <2>1, <3>4 DEF FiledInv
    <3>8. \A q \in Procs : FiledInv(view[q], AfterStore)'
      BY <2>2, <2>3, <3>4 DEF FiledInv
    <3> QED
      BY <3>6, <3>7, <3>8 DEF ListInv
  <2>5. CASE RecordRegistration(p)
    <3>1. PICK a \in Attempts : a = cur[p]
      BY <2>5, InHand DEF RecordRegistration
    <3>2. /\ pc[p] = "record" /\ pc'[p] = "finalize"
          /\ \A q \in Procs : q # p => pc'[q] = pc[q]
          /\ UNCHANGED <<log, cur, accounts, view>>
          /\ scheduled' = Append(S, a)
      BY <1>0, <2>0, <2>5, <3>1 DEF RecordRegistration, Goto, attempt, TypeOK
    <3>3. FiledInv(S, AfterRecord)
      BY <1>0, <2>0 DEF ListInv
    <3>4. FiledInv(Append(S, a), AfterRecord)'
      BY <3>1, <3>2, <3>3, EntryFiled DEF AfterStore, AfterRecord
    <3>5. FiledInv(scheduled, AfterRecord)'
      BY <3>2, <3>4 DEF FiledInv
    <3>6. FiledInv(accounts, AfterStore)'
      BY <2>0, <2>1, <3>2 DEF FiledInv
    <3> QED
      BY <2>2, <3>2, <3>5, <3>6 DEF ListInv
  <2>6. CASE LoadAccounts(p)
    <3>1. /\ UNCHANGED <<accounts, scheduled>> /\ view'[p] = A
          /\ \A q \in Procs : q # p => view'[q] = view[q]
      BY <1>0, <2>0, <2>6 DEF LoadAccounts, files, TypeOK
    <3>2. FiledInv(accounts, AfterStore)' /\ FiledInv(scheduled, AfterRecord)'
      BY <2>0, <2>1, <3>1 DEF FiledInv
    <3>3. FiledInv(view[p], AfterStore)'
      BY <2>1, <3>1 DEF FiledInv
    <3> QED
      BY <2>2, <3>1, <3>2, <3>3 DEF ListInv
  <2>7. CASE ~StoreAccount(p) /\ ~RecordRegistration(p) /\ ~LoadAccounts(p)
    <3>1. /\ UNCHANGED <<accounts, scheduled>>
          /\ UNCHANGED view \/ view' = [view EXCEPT ![p] = << >>]
      BY <1>1, <2>7 DEF Step, Start, Quit, Begin, AcquireSession, StartBrowser,
         FillForm, Submit, DetectPhone, MarkPhoneTriggered, SoftLandingSkip,
         VerifyEmail, VerifySession, EnterQuarantine, Raise, Handle, ReadLog,
         AppendAudit, AppendFailure, Crash, Leave, files, attempt
    <3>2. FiledInv(accounts, AfterStore)' /\ FiledInv(scheduled, AfterRecord)'
      BY <2>0, <2>1, <3>1 DEF FiledInv
    <3>3. ASSUME NEW q \in Procs PROVE FiledInv(view[q], AfterStore)'
      <4>1. view'[q] = view[q] \/ view'[q] = << >>
        BY <1>0, <3>1 DEF TypeOK
      <4> QED
        BY <2>2, <2>3, <4>1 DEF FiledInv
    <3> QED
      BY <3>2, <3>3 DEF ListInv
  <2> QED
    BY <2>4, <2>5, <2>6, <2>7
<1>2. CASE UNCHANGED vars
  BY <1>0, <1>2 DEF ListInv, FiledInv, Member, AfterStore, AfterRecord, vars,
     files, attempt, local
<1> QED
  BY <1>1, <1>2 DEF Next

-----------------------------------------------------------------------------
(* The theorems.                                                           *)

LEMMA InitIInv == Init => IInv
<1> SUFFICES ASSUME Init PROVE IInv
  OBVIOUS
<1>1. TypeOK
  BY EmptySeq DEF Init, TypeOK, Points, Outcomes
<1>2. ProcessInv
  BY DEF Init, ProcessInv, Holds
<1>3. \A a \in Attempts : Untouched(a) /\ Told(a)
  BY EmptySeq DEF Init, Untouched, Told
<1>4. EscapesExplained
  BY DEF Init, EscapesExplained, Explained
<1>5. ListInv
  BY DEF Init, ListInv, FiledInv
<1> QED
  BY <1>1, <1>2, <1>3, <1>4, <1>5 DEF IInv, AuditTellsTheEnd

LEMMA NextIInv == IInv /\ [Next]_vars => IInv'
<1> SUFFICES ASSUME IInv, [Next]_vars PROVE IInv'
  OBVIOUS
<1>1. TypeOK' /\ ListInv'
  BY TypeStep, ListStep
<1>2. ProcessInv' /\ \A a \in Attempts : AttemptInv(a)'
  BY ProcessStep
<1> QED
  BY <1>1, <1>2 DEF IInv, AttemptInv, AuditTellsTheEnd, EscapesExplained

(* The inductive invariant holds in every reachable state.                 *)
THEOREM Invariance == Spec => []IInv
<1> QED
  BY InitIInv, NextIInv, PTL DEF Spec

(* Every file, lock and control point of register_single keeps its type.   *)
THEOREM TypeCorrect == Spec => []TypeOK
<1>1. IInv => TypeOK
  BY DEF IInv
<1> QED
  BY <1>1, Invariance, PTL

(* The audit trail tells how every attempt ended, once and for all.        *)
THEOREM AuditTruthful == Spec => []AuditTellsTheEnd
<1>1. IInv => AuditTellsTheEnd
  BY DEF IInv
<1> QED
  BY <1>1, Invariance, PTL

(* Only quarantined attempts are listed or counted, and only once.         *)
THEOREM FiledAfterQuarantine == Spec => []FiledWereQuarantined
<1>1. IInv => FiledWereQuarantined
  BY DEF IInv, ListInv, FiledInv, FiledWereQuarantined
<1> QED
  BY <1>1, Invariance, PTL

(* An exception leaves register_single only after the session is           *)
(* established or over a cut line in the state log, and never with a       *)
(* record written or the attempt left standing as quarantined.             *)
THEOREM EscapesAreLate == Spec => []EscapesExplained
<1>1. IInv => EscapesExplained
  BY DEF IInv
<1> QED
  BY <1>1, Invariance, PTL

-----------------------------------------------------------------------------
(* The files keep the promise of PuterLedger.                              *)

Stages == [a \in Attempts |-> StateOf(a)]
Verdicts == [a \in Attempts |-> Verdict(a)]

(* A line of the log that follows the chain or ends the attempt.           *)
LEMMA LedgerLine ==
  ASSUME IInv, NEW a \in Attempts, NEW s \in States,
         audit[a] = << >>,
         log' = [log EXCEPT ![a] = Append(@, s)], UNCHANGED audit,
         \/ <<StateOf(a), s>> \in Ledger!Chain
         \/ StateOf(a) \notin Ledger!Ended /\ s \in Ledger!Ended
  PROVE  Ledger!LedgerNext
<1>1. /\ StateOf(a)' = s
      /\ \A b \in Attempts : b # a => log'[b] = log[b]
  BY LogFacts DEF IInv, TypeOK
<1>2. \A b \in Attempts : b # a => StateOf(b)' = StateOf(b)
  BY <1>1 DEF StateOf
<1>3. Stages' = [Stages EXCEPT ![a] = s]
  BY <1>1, <1>2 DEF Stages
<1>4. Verdicts' = Verdicts /\ Verdicts[a] = "pending"
  BY DEF Verdicts, Verdict
<1>5. Stages[a] = StateOf(a)
  BY DEF Stages
<1>6. CASE <<StateOf(a), s>> \in Ledger!Chain
  BY <1>3, <1>4, <1>5, <1>6
     DEF Ledger!LedgerNext, Ledger!Advance, Ledger!Chain, Stages, Verdicts
<1>7. CASE StateOf(a) \notin Ledger!Ended /\ s \in Ledger!Ended
  BY <1>3, <1>4, <1>5, <1>7
     DEF Ledger!LedgerNext, Ledger!End, Ledger!Ended, Stages, Verdicts
<1> QED
  BY <1>6, <1>7

(* A step that writes neither the log nor the audit trail.                 *)
LEMMA LedgerStutter ==
  UNCHANGED <<log, audit>> => UNCHANGED <<Stages, Verdicts>>
  BY DEF Stages, Verdicts, StateOf, Verdict

LEMMA LedgerStep ==
  IInv /\ [Next]_vars => [Ledger!LedgerNext]_<<Stages, Verdicts>>
<1> SUFFICES ASSUME IInv, [Next]_vars
             PROVE  Ledger!LedgerNext \/ UNCHANGED <<Stages, Verdicts>>
  OBVIOUS
<1>0. TypeOK
  BY DEF IInv
<1>1. ASSUME NEW p \in Procs, Step(p)
      PROVE  Ledger!LedgerNext \/ UNCHANGED <<log, audit>>
  <2>1. CASE \/ StartBrowser(p) \/ FillForm(p) \/ Submit(p)
             \/ VerifyEmail(p) \/ VerifySession(p) \/ EnterQuarantine(p)
    <3>1. PICK s \in States, x \in Points :
             /\ Transition(p, s, x) /\ UNCHANGED audit
             /\ <<pc[p], s>> \in
                  {<<"mailbox", "browser_started">>, <<"form", "form_filled">>,
                   <<"turnstile", "form_submitted">>, <<"turnstile", "failed">>,
                   <<"code", "email_verified">>, <<"code", "failed">>,
                   <<"session", "session_established">>,
                   <<"session", "failed">>, <<"release", "quarantined">>}
      BY <2>1 DEF StartBrowser, FillForm, Submit, VerifyEmail, VerifySession,
                  EnterQuarantine, States, Points
    <3>2. PICK a \in Attempts : a = cur[p]
      BY <3>1, InHand
    <3>3. audit[a] = << >> /\ StateOf(a) \in StateAt(pc[p])
      BY <3>1, <3>2, InHand
    <3>4. \/ <<StateOf(a), s>> \in Ledger!Chain
          \/ StateOf(a) \notin Ledger!Ended /\ s \in Ledger!Ended
      BY <3>1, <3>3 DEF StateAt, Ledger!Chain, Ledger!Ended
    <3>5. \/ log' = [log EXCEPT ![a] = Append(@, s)]
          \/ UNCHANGED log
      BY <3>1, <3>2 DEF Transition
    <3> QED
      BY <3>1, <3>3, <3>4, <3>5, LedgerLine
  <2>2. CASE SoftLandingSkip(p) \/ Handle(p)
    <3>1. PICK a \in Attempts : a = cur[p]
      BY <2>2, InHand DEF SoftLandingSkip, Handle
    <3>2. audit[a] = << >>
      BY <2>2, <3>1, InHand DEF SoftLandingSkip, Handle
    <3>3. PICK s \in {"failed", "skipped_phone_verification"} :
             \/ /\ log' = [log EXCEPT ![a] = Append(@, s)]
                /\ <<StateOf(a), s>> \in Allowed
             \/ UNCHANGED log
      BY <2>2, <3>1 DEF SoftLandingSkip, Handle
    <3>4. UNCHANGED audit
      BY <2>2 DEF SoftLandingSkip, Handle
    <3>5. <<StateOf(a), s>> \in Allowed =>
             StateOf(a) \notin Ledger!Ended /\ s \in Ledger!Ended
      BY <3>3 DEF Allowed, MayFail, MaySkip, Ledger!Ended
    <3> QED
      BY <3>2, <3>3, <3>4, <3>5, LedgerLine DEF States
  <2>3. CASE AppendAudit(p)
    <3>1. PICK a \in Attempts : a = cur[p]
      BY <2>3, InHand DEF AppendAudit
    <3>2. audit[a] = << >>
      BY <2>3, <3>1, InHand DEF AppendAudit
    <3>3. /\ audit' = [audit EXCEPT ![a] = Append(@, StateOf(a))]
          /\ UNCHANGED log
      BY <2>3, <3>1 DEF AppendAudit
    <3>4. audit'[a] = <<StateOf(a)>> /\ \A b \in Attempts \ {a} : audit'[b] = audit[b]
      BY <1>0, <3>2, <3>3 DEF TypeOK
    <3>5. /\ Verdict(a)' = StateOf(a)
          /\ \A b \in Attempts \ {a} : Verdict(b)' = Verdict(b)
      BY <3>4 DEF Verdict
    <3>6. /\ Stages' = Stages /\ Stages[a] = StateOf(a)
          /\ Verdicts' = [Verdicts EXCEPT ![a] = StateOf(a)]
          /\ Verdicts[a] = "pending"
      <4>1. Stages' = Stages /\ Stages[a] = StateOf(a)
        BY <3>3 DEF Stages, StateOf
      <4>2. Verdicts' = [Verdicts EXCEPT ![a] = StateOf(a)]
        BY <3>5 DEF Verdicts
      <4>3. Verdicts[a] = "pending"
        BY <3>2 DEF Verdicts, Verdict
      <4> QED
        BY <4>1, <4>2, <4>3
    <3>7. Ledger!LedgerNext
      BY <3>6 DEF Ledger!LedgerNext, Ledger!Close, Stages, Verdicts
    <3> QED
      BY <3>7
  <2>4. CASE \/ Start(p) \/ Quit(p) \/ Begin(p) \/ AcquireSession(p)
             \/ DetectPhone(p) \/ MarkPhoneTriggered(p) \/ Raise(p)
             \/ LoadAccounts(p) \/ StoreAccount(p) \/ RecordRegistration(p)
             \/ ReadLog(p) \/ AppendFailure(p) \/ Crash(p)
    BY <2>4 DEF Start, Quit, Begin, AcquireSession, DetectPhone,
       MarkPhoneTriggered, Raise, LoadAccounts, StoreAccount,
       RecordRegistration, ReadLog, AppendFailure, Crash, files
  <2> QED
    BY <1>1, <2>1, <2>2, <2>3, <2>4 DEF Step
<1>2. CASE UNCHANGED vars
  BY <1>2, LedgerStutter DEF vars, files
<1> QED
  BY <1>1, <1>2, LedgerStutter DEF Next

(* What register_single writes, it writes as the ledger promises: along    *)
(* the documented chain, and nothing after the audit record.               *)
THEOREM LedgerRefined == Spec => LedgerKept
<1>1. Init => Ledger!LedgerInit
  BY DEF Init, Ledger!LedgerInit, StateOf, Verdict
<1>2. IInv /\ [Next]_vars =>
        [Ledger!LedgerNext]_<<[a \in Attempts |-> StateOf(a)],
                              [a \in Attempts |-> Verdict(a)]>>
  BY LedgerStep DEF Stages, Verdicts
<1> QED
  BY <1>1, <1>2, Invariance, PTL DEF Spec, LedgerKept, Ledger!LedgerSpec

-----------------------------------------------------------------------------
(* What came before: addresses with a phone prompt, and what a return says.*)

LEMMA HistoryStep == IInv /\ HistoryInv /\ [Next]_vars => HistoryInv'
<1> SUFFICES ASSUME IInv, HistoryInv, [Next]_vars PROVE HistoryInv'
  OBVIOUS
<1>0. TypeOK
  BY DEF IInv
<1>1. CASE UNCHANGED vars
  BY <1>1 DEF HistoryInv, vars, attempt, local
<1>2. ASSUME NEW p \in Procs, Step(p) PROVE HistoryInv'
  <2>1. CASE Begin(p)
    <3>1. PICK a \in Attempts :
             /\ outcome[a] = "none"
             /\ outcome' = [outcome EXCEPT ![a] = "running"]
             /\ started' = Append(started, <<p, a>>)
             /\ cur' = [cur EXCEPT ![p] = a]
      BY <2>1 DEF Begin
    <3>2. <<p, a>> \in Procs \X Attempts /\ started \in Seq(Procs \X Attempts)
      BY <1>0 DEF TypeOK
    <3>3. /\ DOMAIN started = 1..Len(started) /\ Len(started) \in Nat
          /\ DOMAIN started' = DOMAIN started \union {Len(started) + 1}
          /\ \A i \in DOMAIN started : started'[i] = started[i]
          /\ started'[Len(started) + 1] = <<p, a>>
      BY <3>1, <3>2, AppendFacts, LenProperties
    <3>4. \A i \in DOMAIN started : started[i][2] \in Attempts /\ started[i][2] # a
      BY <3>1, <3>2, ElementOfSeq DEF HistoryInv
    <3>5. (\A i, j \in DOMAIN started : started[i][2] = started[j][2] => i = j)'
      BY <3>3, <3>4 DEF HistoryInv
    <3>6. (\A i \in DOMAIN started : outcome[started[i][2]] # "none")'
      <4>1. outcome'[a] = "running" /\ \A b \in Attempts \ {a} : outcome'[b] = outcome[b]
        BY <1>0, <3>1 DEF TypeOK
      <4>2. ASSUME NEW i \in DOMAIN started PROVE outcome'[started'[i][2]] # "none"
        BY <3>3, <3>4, <4>1, <4>2 DEF HistoryInv
      <4>3. outcome'[started'[Len(started) + 1][2]] # "none"
        BY <3>3, <4>1
      <4> QED
        BY <3>3, <4>2, <4>3
    <3>7. ASSUME NEW q \in Procs, cur'[q] # None
          PROVE  \E i \in DOMAIN started' :
                    /\ started'[i] = <<q, cur'[q]>>
                    /\ \A j \in DOMAIN started' : started'[j][1] = q => j <= i
      <4>1. CASE q = p
        <5>1. cur'[q] = a
          BY <1>0, <3>1, <4>1 DEF TypeOK
        <5>2. \A j \in DOMAIN started' : j <= Len(started) + 1
          BY <3>3
        <5> QED
          BY <3>3, <4>1, <5>1, <5>2
      <4>2. CASE q # p
        <5>1. cur'[q] = cur[q]
          BY <1>0, <3>1, <4>2 DEF TypeOK
        <5>2. PICK i \in DOMAIN started :
                 /\ started[i] = <<q, cur[q]>>
                 /\ \A j \in DOMAIN started : started[j][1] = q => j <= i
          BY <3>7, <5>1 DEF HistoryInv
        <5>3. i \in DOMAIN started' /\ started'[i] = <<q, cur'[q]>>
          BY <3>3, <5>1, <5>2
        <5>4. \A j \in DOMAIN started' : started'[j][1] = q => j <= i
          BY <3>3, <4>2, <5>2
        <5> QED
          BY <5>3, <5>4
      <4> QED
        BY <4>1, <4>2
    <3> QED
      BY <3>5, <3>6, <3>7 DEF HistoryInv
  <2>2. CASE ~Begin(p)
    <3>1. /\ started' = started
          /\ \A q \in Procs : cur'[q] = cur[q] \/ cur'[q] = None
          /\ \A a \in Attempts : outcome[a] # "none" => outcome'[a] # "none"
      BY <1>0, <1>2, <2>2 DEF TypeOK, Step, Start, Quit, AcquireSession,
         StartBrowser, FillForm, Submit, DetectPhone, MarkPhoneTriggered,
         SoftLandingSkip, VerifyEmail, VerifySession, EnterQuarantine,
         LoadAccounts, StoreAccount, RecordRegistration, Raise, Handle, ReadLog,
         AppendAudit, AppendFailure, Crash, Leave, files, attempt
    <3>2. \A i \in DOMAIN started : started[i][2] \in Attempts
      BY <1>0, ElementOfSeq DEF TypeOK
    <3> QED
      BY <3>1, <3>2 DEF HistoryInv
  <2> QED
    BY <2>1, <2>2
<1> QED
  BY <1>1, <1>2 DEF Next

(* Steps about neither addresses nor prompts, and a kill in the pause.     *)
LEMMA ElsewherePhone ==
  ASSUME IInv, PhoneInv, NEW p \in Procs,
         UNCHANGED <<started, ip, phoned, banned, phoneLog, heard>>,
         \A q \in Procs \ {p} : pc'[q] = pc[q] /\ cur'[q] = cur[q],
         cur'[p] \in {cur[p], None},
         pc'[p] # "identity", pc[p] # "down",
         \A a \in Attempts :
            /\ outcome'[a] = "none" => outcome[a] = "none"
            /\ outcome'[a] # "cut" => outcome[a] # "cut",
         pc[p] = "pause" => outcome'[cur[p]] = "cut"
  PROVE  PhoneInv'
<1>1. Retired' \subseteq Retired
  <2> SUFFICES ASSUME NEW a \in Retired'
               PROVE  a \in Retired
    OBVIOUS
  <2>1. a \in phoned /\ a \in Attempts /\ outcome'[a] # "cut"
    BY DEF Retired, IInv, TypeOK
  <2>2. ASSUME NEW q \in Procs, cur[q] = a PROVE pc[q] # "pause"
    <3>1. CASE q = p
      BY <2>1, <2>2, <3>1
    <3>2. CASE q # p
      BY <2>2, <3>2 DEF Retired
    <3> QED
      BY <3>1, <3>2
  <2> QED
    BY <2>1, <2>2 DEF Retired
<1>2. /\ (\A a \in Attempts : outcome[a] = "none" => ip[a] = None)'
      /\ (\A a \in phoned : ip[a] \in IPs)'
      /\ (\A a \in Retired : ip[a] \in phoneLog)'
      /\ (\A q \in Procs : pc[q] = "identity" => ip[cur[q]] = None)'
  BY <1>1 DEF PhoneInv
<1>3. (\A q \in Procs : pc[q] # "down" =>
         /\ \A a \in heard[q] : a \in phoned /\ ip[a] \in banned[q]
         /\ \A i \in DOMAIN started :
               started[i][1] = q /\ started[i][2] \in Retired =>
                   ip[started[i][2]] \in banned[q])'
  BY <1>1 DEF PhoneInv
<1>4. \A i \in DOMAIN started : started[i][2] \in Attempts
  BY ElementOfSeq DEF IInv, TypeOK
<1>5. PhoneIPsRetired'
  BY <1>4 DEF PhoneInv, PhoneIPsRetired
<1> QED
  BY <1>2, <1>3, <1>5 DEF PhoneInv

(* What a process has met and not retired, it has in hand.                 *)
LEMMA OwnRetired ==
  ASSUME TypeOK, HistoryInv, NEW p \in Procs, NEW i \in DOMAIN started,
         started[i][1] = p, started[i][2] \in phoned,
         outcome[started[i][2]] # "cut",
         cur[p] # started[i][2] \/ pc[p] # "pause"
  PROVE  started[i][2] \in Retired
<1>1. ASSUME NEW q \in Procs, cur[q] = started[i][2] PROVE pc[q] # "pause"
  <2>1. cur[q] # None
    BY <1>1, NoneAssumption DEF TypeOK
  <2>2. PICK k \in DOMAIN started : started[k] = <<q, cur[q]>>
    BY <2>1 DEF HistoryInv
  <2>3. k = i /\ q = p
    BY <1>1, <2>2 DEF HistoryInv
  <2> QED
    BY <1>1, <2>3
<1> QED
  BY <1>1 DEF Retired

LEMMA PhoneStart ==
  ASSUME IInv, PhoneInv, NEW p \in Procs, Start(p)
  PROVE  PhoneInv'
<1>0. TypeOK
  BY DEF IInv
<1>1. UNCHANGED <<started, ip, phoned, phoneLog, outcome, cur>>
  BY DEF Start, files, attempt
<1>2. /\ banned'[p] = phoneLog /\ heard'[p] = Retired
      /\ pc[p] = "down" /\ pc'[p] = "idle"
      /\ \A q \in Procs \ {p} :
            banned'[q] = banned[q] /\ heard'[q] = heard[q] /\ pc'[q] = pc[q]
  BY <1>0 DEF Start, Goto, TypeOK
<1>3. Retired' = Retired /\ Retired \subseteq phoned
  BY <1>1, <1>2 DEF Retired
<1>4. cur[p] = None
  BY <1>2 DEF IInv, ProcessInv, Holds
<1>5. /\ (\A a \in Attempts : outcome[a] = "none" => ip[a] = None)'
      /\ (\A a \in phoned : ip[a] \in IPs)'
      /\ (\A a \in Retired : ip[a] \in phoneLog)'
      /\ (\A q \in Procs : pc[q] = "identity" => ip[cur[q]] = None)'
  BY <1>1, <1>2, <1>3 DEF PhoneInv
<1>6. ASSUME NEW q \in Procs, pc'[q] # "down"
      PROVE  /\ \A a \in heard'[q] : a \in phoned' /\ ip'[a] \in banned'[q]
             /\ \A i \in DOMAIN started' :
                   started'[i][1] = q /\ started'[i][2] \in Retired' =>
                       ip'[started'[i][2]] \in banned'[q]
  BY <1>1, <1>2, <1>3, <1>6 DEF PhoneInv
<1>7. PhoneIPsRetired'
  BY <1>1, <1>2, <1>4 DEF PhoneInv, PhoneIPsRetired
<1> QED
  BY <1>5, <1>6, <1>7 DEF PhoneInv

LEMMA PhoneBegin ==
  ASSUME IInv, HistoryInv, PhoneInv, NEW p \in Procs, Begin(p)
  PROVE  PhoneInv'
<1>0. TypeOK /\ \A i \in DOMAIN started : started[i] \in Procs \X Attempts
  BY ElementOfSeq DEF IInv, TypeOK
<1>1. PICK a \in Attempts :
         /\ outcome[a] = "none"
         /\ outcome' = [outcome EXCEPT ![a] = "running"]
         /\ started' = Append(started, <<p, a>>)
         /\ cur' = [cur EXCEPT ![p] = a]
  BY DEF Begin
<1>2. /\ UNCHANGED <<ip, phoned, phoneLog, banned, heard>>
      /\ pc[p] = "idle" /\ pc'[p] = "identity" /\ cur'[p] = a
      /\ \A q \in Procs \ {p} : pc'[q] = pc[q] /\ cur'[q] = cur[q]
      /\ \A b \in Attempts \ {a} : outcome'[b] = outcome[b]
      /\ outcome'[a] = "running"
  BY <1>0, <1>1 DEF Begin, Goto, TypeOK, files
<1>3. <<p, a>> \in Procs \X Attempts /\ started \in Seq(Procs \X Attempts)
  BY <1>0 DEF TypeOK
<1>4. /\ DOMAIN started = 1..Len(started) /\ Len(started) \in Nat
      /\ DOMAIN started' = DOMAIN started \union {Len(started) + 1}
      /\ \A i \in DOMAIN started : started'[i] = started[i]
      /\ started'[Len(started) + 1] = <<p, a>>
  BY <1>1, <1>3, AppendFacts, LenProperties
<1>5. /\ ip[a] = None /\ a \notin phoned
      /\ phoned \subseteq Attempts /\ \A b \in phoned : ip[b] # None
  BY <1>0, <1>1, NoneAssumption DEF PhoneInv, TypeOK
<1>6. Retired' \subseteq Retired /\ Retired \subseteq phoned
  <2> SUFFICES ASSUME NEW b \in Retired' PROVE b \in Retired
    BY DEF Retired
  <2>1. b \in phoned /\ b \in Attempts \ {a} /\ outcome[b] # "cut"
    BY <1>2, <1>5 DEF Retired
  <2>2. \A q \in Procs : cur[q] = b => pc[q] # "pause"
    BY <1>2 DEF Retired
  <2> QED
    BY <2>1, <2>2 DEF Retired
<1>7. /\ (\A b \in Attempts : outcome[b] = "none" => ip[b] = None)'
      /\ (\A b \in phoned : ip[b] \in IPs)'
      /\ (\A b \in Retired : ip[b] \in phoneLog)'
      /\ (\A q \in Procs : pc[q] = "identity" => ip[cur[q]] = None)'
  BY <1>2, <1>5, <1>6 DEF PhoneInv
<1>8. ASSUME NEW q \in Procs, pc'[q] # "down"
      PROVE  /\ \A b \in heard'[q] : b \in phoned' /\ ip'[b] \in banned'[q]
             /\ \A i \in DOMAIN started' :
                   started'[i][1] = q /\ started'[i][2] \in Retired' =>
                       ip'[started'[i][2]] \in banned'[q]
  <2>1. pc[q] # "down"
    BY <1>2, <1>8
  <2>2. ASSUME NEW i \in DOMAIN started', started'[i][1] = q,
               started'[i][2] \in Retired'
        PROVE  ip[started'[i][2]] \in banned[q]
    <3>1. i \in DOMAIN started
      BY <1>4, <1>5, <1>6, <2>2
    <3> QED
      BY <1>4, <1>6, <2>1, <2>2, <3>1 DEF PhoneInv
  <2> QED
    BY <1>2, <2>1, <2>2 DEF PhoneInv
<1>9. ASSUME NEW i \in DOMAIN started', NEW j \in DOMAIN started',
             i < j, started'[i][1] = started'[j][1],
             started'[i][2] \in phoned, outcome'[started'[i][2]] # "cut"
      PROVE  ip[started'[j][2]] # ip[started'[i][2]]
  <2>1. i \in DOMAIN started /\ started[i][2] \in Attempts \ {a}
    BY <1>0, <1>4, <1>5, <1>9
  <2>2. CASE j \in DOMAIN started
    BY <1>2, <1>4, <1>9, <2>1, <2>2 DEF PhoneInv, PhoneIPsRetired
  <2>3. CASE j = Len(started) + 1
    BY <1>4, <1>5, <1>9, <2>3
  <2> QED
    BY <1>4, <2>2, <2>3
<1>10. ASSUME NEW q \in Procs, cur'[q] # None, NEW b \in heard[q]
       PROVE  ip[cur'[q]] # ip[b]
  <2>1. CASE q = p
    BY <1>2, <1>5, <1>10, <2>1 DEF PhoneInv
  <2>2. CASE q # p
    BY <1>2, <1>10, <2>2 DEF PhoneInv, PhoneIPsRetired
  <2> QED
    BY <2>1, <2>2
<1>11. PhoneIPsRetired'
  BY <1>2, <1>9, <1>10 DEF PhoneIPsRetired
<1> QED
  BY <1>7, <1>8, <1>11 DEF PhoneInv

LEMMA PhoneAcquire ==
  ASSUME IInv, HistoryInv, PhoneInv, NEW p \in Procs, AcquireSession(p)
  PROVE  PhoneInv'
<1>0. TypeOK /\ \A i \in DOMAIN started : started[i] \in Procs \X Attempts
  BY ElementOfSeq DEF IInv, TypeOK
<1>1. PICK a \in Attempts : a = cur[p]
  BY InHand DEF AcquireSession
<1>2. PICK x \in IPs :
         IF x \in banned[p]
           THEN Goto(p, "handle") /\ UNCHANGED ip
           ELSE Goto(p, "mailbox") /\ ip' = [ip EXCEPT ![a] = x]
  BY <1>1 DEF AcquireSession
<1>3. /\ UNCHANGED <<started, outcome, phoned, phoneLog, banned, cur, heard>>
      /\ pc[p] = "identity" /\ pc'[p] \in {"handle", "mailbox"}
      /\ \A q \in Procs \ {p} : pc'[q] = pc[q]
  BY <1>0, <1>2 DEF AcquireSession, Goto, TypeOK, files
<1>4. CASE UNCHANGED ip
  BY <1>3, <1>4, ElsewherePhone
<1>5. CASE x \notin banned[p] /\ ip' = [ip EXCEPT ![a] = x]
  <2>1. ip'[a] = x /\ \A b \in Attempts \ {a} : ip'[b] = ip[b]
    BY <1>0, <1>5 DEF TypeOK
  <2>2. /\ a \notin phoned /\ phoned \subseteq Attempts
        /\ \A b \in phoned : ip'[b] = ip[b]
    BY <1>0, <1>1, <1>3, <2>1, NoneAssumption DEF PhoneInv, TypeOK
  <2>3. outcome[a] = "running"
    BY <1>1, <1>3, InHand
  <2>4. \A q \in Procs \ {p} : cur[q] # None => cur[q] \in Attempts \ {a}
    BY <1>0, <1>1, NoneAssumption DEF IInv, ProcessInv, TypeOK
  <2>5. Retired' = Retired /\ Retired \subseteq phoned
    BY <1>3 DEF Retired
  <2>6. /\ (\A b \in Attempts : outcome[b] = "none" => ip[b] = None)'
        /\ (\A b \in phoned : ip[b] \in IPs)'
        /\ (\A b \in Retired : ip[b] \in phoneLog)'
    BY <1>3, <2>1, <2>2, <2>3, <2>5 DEF PhoneInv
  <2>7. (\A q \in Procs : pc[q] = "identity" => ip[cur[q]] = None)'
    <3> SUFFICES ASSUME NEW q \in Procs, pc'[q] = "identity"
                 PROVE  ip'[cur[q]] = None
      BY <1>3
    <3>1. q # p /\ pc[q] = "identity"
      BY <1>3
    <3>2. cur[q] \in Attempts \ {a}
      BY <2>4, <3>1, InHand, NoneAssumption
    <3> QED
      BY <2>1, <3>1, <3>2 DEF PhoneInv
  <2>8. ASSUME NEW q \in Procs, pc'[q] # "down"
        PROVE  /\ \A b \in heard'[q] : b \in phoned' /\ ip'[b] \in banned'[q]
               /\ \A i \in DOMAIN started' :
                     started'[i][1] = q /\ started'[i][2] \in Retired' =>
                         ip'[started'[i][2]] \in banned'[q]
    <3>1. pc[q] # "down"
      BY <1>3, <2>8
    <3> QED
      BY <1>3, <2>2, <2>5, <3>1 DEF PhoneInv
  <2>9. ASSUME NEW i \in DOMAIN started, NEW j \in DOMAIN started,
               i < j, started[i][1] = started[j][1],
               started[i][2] \in phoned, outcome[started[i][2]] # "cut"
        PROVE  ip'[started[j][2]] # ip'[started[i][2]]
    <3>1. ip'[started[i][2]] = ip[started[i][2]] /\ started[i][2] # a
      BY <2>2, <2>9
    <3>2. CASE started[j][2] # a
      BY <1>0, <2>1, <2>9, <3>1, <3>2 DEF PhoneInv, PhoneIPsRetired
    <3>3. CASE started[j][2] = a
      <4>1. PICK k \in DOMAIN started : started[k] = <<p, cur[p]>>
        BY <1>1, NoneAssumption DEF HistoryInv
      <4>2. started[j][1] = p
        BY <1>1, <3>3, <4>1 DEF HistoryInv
      <4>3. started[i][2] \in Retired
        BY <1>0, <1>1, <2>9, <3>1, <4>2, OwnRetired
      <4>4. ip[started[i][2]] \in banned[p]
        BY <1>3, <2>9, <4>2, <4>3 DEF PhoneInv
      <4> QED
        BY <1>5, <2>1, <3>1, <3>3, <4>4
    <3> QED
      BY <3>2, <3>3
  <2>10. ASSUME NEW q \in Procs, cur[q] # None, NEW b \in heard[q]
         PROVE  ip'[cur[q]] # ip'[b]
    <3>1. pc[q] # "down"
      BY <2>10 DEF IInv, ProcessInv, Holds
    <3>2. b \in phoned /\ ip'[b] = ip[b] /\ ip[b] \in banned[q]
      BY <2>2, <3>1 DEF PhoneInv
    <3>3. CASE q = p
      BY <1>1, <1>5, <2>1, <3>2, <3>3
    <3>4. CASE q # p
      BY <2>1, <2>4, <2>10, <3>2, <3>4 DEF PhoneInv, PhoneIPsRetired
    <3> QED
      BY <3>3, <3>4
  <2>11. PhoneIPsRetired'
    BY <1>3, <2>9, <2>10 DEF PhoneIPsRetired
  <2> QED
    BY <2>6, <2>7, <2>8, <2>11 DEF PhoneInv
<1> QED
  BY <1>2, <1>4, <1>5

(* The prompt: nothing is retired yet, and no later attempt there is.      *)
LEMMA PhonePrompt ==
  ASSUME IInv, HistoryInv, PhoneInv, NEW p \in Procs,
         DetectPhone(p) \/ Raise(p), Goto(p, "pause")
  PROVE  PhoneInv'
<1>0. TypeOK
  BY DEF IInv
<1>1. PICK a \in Attempts : a = cur[p]
  BY InHand DEF DetectPhone, Raise
<1>2. /\ UNCHANGED <<started, outcome, ip, cur, banned, phoneLog, heard>>
      /\ pc'[p] = "pause" /\ \A q \in Procs \ {p} : pc'[q] = pc[q]
      /\ pc[p] \notin {"down", "idle"} \union Sessionless
      /\ phoned' = phoned \union {a}
  BY <1>0, <1>1 DEF DetectPhone, Raise, Goto, TypeOK, files, Sessionless
<1>3. ip[a] \in IPs
  BY <1>1, <1>2 DEF IInv, ProcessInv, Holds
<1>4. Retired' \subseteq Retired
  <2> SUFFICES ASSUME NEW b \in Retired' PROVE b \in Retired
    OBVIOUS
  <2>1. b \in phoned' /\ outcome[b] # "cut"
    BY <1>2 DEF Retired
  <2>2. \A q \in Procs : cur[q] = b => pc'[q] # "pause"
    BY <1>2 DEF Retired
  <2>3. b # a
    BY <1>1, <1>2, <2>2
  <2>4. \A q \in Procs : cur[q] = b => pc[q] # "pause"
    BY <1>1, <1>2, <2>2, <2>3
  <2> QED
    BY <1>2, <2>1, <2>3, <2>4 DEF Retired
<1>5. PICK k \in DOMAIN started :
         /\ started[k] = <<p, a>>
         /\ \A j \in DOMAIN started : started[j][1] = p => j <= k
  BY <1>1, NoneAssumption DEF HistoryInv
<1>6. \A i \in DOMAIN started : started[i][2] = a => i = k
  BY <1>5 DEF HistoryInv
<1>7. /\ (\A b \in Attempts : outcome[b] = "none" => ip[b] = None)'
      /\ (\A b \in phoned : ip[b] \in IPs)'
      /\ (\A b \in Retired : ip[b] \in phoneLog)'
      /\ (\A q \in Procs : pc[q] = "identity" => ip[cur[q]] = None)'
  BY <1>2, <1>3, <1>4 DEF PhoneInv
<1>8. ASSUME NEW q \in Procs, pc'[q] # "down"
      PROVE  /\ \A b \in heard'[q] : b \in phoned' /\ ip'[b] \in banned'[q]
             /\ \A i \in DOMAIN started' :
                   started'[i][1] = q /\ started'[i][2] \in Retired' =>
                       ip'[started'[i][2]] \in banned'[q]
  <2>1. pc[q] # "down"
    BY <1>2, <1>8
  <2> QED
    BY <1>2, <1>4, <2>1 DEF PhoneInv
<1>9. ASSUME NEW i \in DOMAIN started, NEW j \in DOMAIN started,
             i < j, started[i][1] = started[j][1],
             started[i][2] \in phoned', outcome[started[i][2]] # "cut"
      PROVE  ip[started[j][2]] # ip[started[i][2]]
  <2>1. CASE started[i][2] \in phoned
    BY <1>9, <2>1 DEF PhoneInv, PhoneIPsRetired
  <2>2. CASE started[i][2] = a
    <3>1. i = k /\ started[j][1] = p
      BY <1>5, <1>6, <1>9, <2>2
    <3>2. j <= k /\ i \in Nat /\ j \in Nat
      <4>1. started \in Seq(Procs \X Attempts)
        BY <1>0 DEF TypeOK
      <4> QED
        BY <1>5, <3>1, <4>1
    <3> QED
      BY <1>9, <3>1, <3>2
  <2> QED
    BY <1>2, <1>9, <2>1, <2>2
<1>10. PhoneIPsRetired'
  BY <1>2, <1>9 DEF PhoneInv, PhoneIPsRetired
<1> QED
  BY <1>7, <1>8, <1>10 DEF PhoneInv

LEMMA PhoneMark ==
  ASSUME IInv, HistoryInv, PhoneInv, NEW p \in Procs, MarkPhoneTriggered(p)
  PROVE  PhoneInv'
<1>0. TypeOK
  BY DEF IInv
<1>1. PICK a \in Attempts : a = cur[p] /\ ip[a] \in IPs
  <2>1. cur[p] \in Attempts
    BY InHand DEF MarkPhoneTriggered
  <2>2. ip[cur[p]] \in IPs
    BY DEF MarkPhoneTriggered, IInv, ProcessInv, Holds, Sessionless
  <2> QED
    BY <2>1, <2>2
<1>2. /\ UNCHANGED <<started, outcome, ip, phoned, cur, heard>>
      /\ phoneLog' = phoneLog \union {ip[a]}
      /\ pc[p] = "pause" /\ pc'[p] = "skip"
      /\ banned'[p] = banned[p] \union {ip[a]}
      /\ \A q \in Procs \ {p} : pc'[q] = pc[q] /\ banned'[q] = banned[q]
  BY <1>0, <1>1 DEF MarkPhoneTriggered, Goto, TypeOK, attempt
<1>3. PICK k \in DOMAIN started : started[k] = <<p, a>>
  BY <1>1, NoneAssumption DEF HistoryInv
<1>4. \A i \in DOMAIN started : started[i][2] = a => started[i][1] = p
  BY <1>3 DEF HistoryInv
<1>5. Retired' \subseteq Retired \union {a}
  <2> SUFFICES ASSUME NEW b \in Retired', b # a PROVE b \in Retired
    OBVIOUS
  <2>1. b \in phoned /\ outcome[b] # "cut"
    BY <1>2 DEF Retired
  <2>2. \A q \in Procs : cur[q] = b => pc[q] # "pause"
    BY <1>1, <1>2 DEF Retired
  <2> QED
    BY <2>1, <2>2 DEF Retired
<1>6. /\ (\A b \in Attempts : outcome[b] = "none" => ip[b] = None)'
      /\ (\A b \in phoned : ip[b] \in IPs)'
      /\ (\A b \in Retired : ip[b] \in phoneLog)'
      /\ (\A q \in Procs : pc[q] = "identity" => ip[cur[q]] = None)'
  BY <1>2, <1>5 DEF PhoneInv
<1>7. ASSUME NEW q \in Procs, pc'[q] # "down"
      PROVE  /\ \A b \in heard'[q] : b \in phoned' /\ ip'[b] \in banned'[q]
             /\ \A i \in DOMAIN started' :
                   started'[i][1] = q /\ started'[i][2] \in Retired' =>
                       ip'[started'[i][2]] \in banned'[q]
  <2>1. pc[q] # "down" /\ banned[q] \subseteq banned'[q]
    BY <1>2, <1>7
  <2>2. \A b \in heard'[q] : b \in phoned' /\ ip'[b] \in banned'[q]
    BY <1>2, <2>1 DEF PhoneInv
  <2>3. ASSUME NEW i \in DOMAIN started, started[i][1] = q,
               started[i][2] \in Retired'
        PROVE  ip[started[i][2]] \in banned'[q]
    <3>1. CASE started[i][2] = a
      BY <1>2, <1>4, <2>3, <3>1
    <3>2. CASE started[i][2] \in Retired
      BY <2>1, <2>3, <3>2 DEF PhoneInv
    <3> QED
      BY <1>5, <2>3, <3>1, <3>2
  <2> QED
    BY <1>2, <2>2, <2>3
<1>8. PhoneIPsRetired'
  BY <1>2 DEF PhoneInv, PhoneIPsRetired
<1> QED
  BY <1>6, <1>7, <1>8 DEF PhoneInv

LEMMA PhoneStep == IInv /\ HistoryInv /\ PhoneInv /\ [Next]_vars => PhoneInv'
<1> SUFFICES ASSUME IInv, HistoryInv, PhoneInv, [Next]_vars PROVE PhoneInv'
  OBVIOUS
<1>0. TypeOK
  BY DEF IInv
<1>1. CASE UNCHANGED vars
  BY <1>1 DEF PhoneInv, PhoneIPsRetired, Retired, vars, files, attempt, local
<1>2. ASSUME NEW p \in Procs,
             \/ Start(p) \/ Begin(p) \/ AcquireSession(p)
             \/ MarkPhoneTriggered(p)
      PROVE  PhoneInv'
  BY <1>2, PhoneStart, PhoneBegin, PhoneAcquire, PhoneMark
<1>3. ASSUME NEW p \in Procs, DetectPhone(p) \/ Raise(p) PROVE PhoneInv'
  <2>1. CASE Goto(p, "pause")
    BY <1>3, <2>1, PhonePrompt
  <2>2. CASE UNCHANGED phoned /\ \E x \in {"code", "handle"} : Goto(p, x)
    <3>1. /\ UNCHANGED <<started, outcome, ip, phoned, banned, phoneLog, heard,
                         cur>>
          /\ pc'[p] # "identity" /\ pc[p] \notin {"down", "pause"}
          /\ \A q \in Procs \ {p} : pc'[q] = pc[q]
      BY <1>0, <1>3, <2>2 DEF DetectPhone, Raise, Goto, TypeOK, files
    <3> QED
      BY <3>1, ElsewherePhone
  <2> QED
    BY <1>3, <2>1, <2>2 DEF DetectPhone, Raise
<1>4. ASSUME NEW p \in Procs, Crash(p) PROVE PhoneInv'
  <2>1. PICK a \in Attempts : a = cur[p] /\ outcome[a] = "running"
    BY <1>4, InHand DEF Crash
  <2>2. /\ UNCHANGED <<started, ip, phoned, banned, phoneLog, heard>>
        /\ cur'[p] = None /\ pc'[p] = "down" /\ pc[p] # "down"
        /\ \A q \in Procs \ {p} : pc'[q] = pc[q] /\ cur'[q] = cur[q]
        /\ outcome'[a] = IF pc[p] = "pause" THEN "cut" ELSE "dead"
        /\ \A b \in Attempts \ {a} : outcome'[b] = outcome[b]
    BY <1>0, <1>4, <2>1 DEF Crash, Leave, Goto, TypeOK
  <2> QED
    BY <2>1, <2>2, ElsewherePhone
<1>5. ASSUME NEW p \in Procs, Step(p), ~Start(p), ~Begin(p),
             ~AcquireSession(p), ~MarkPhoneTriggered(p), ~DetectPhone(p),
             ~Raise(p), ~Crash(p)
      PROVE  PhoneInv'
  <2>1. /\ UNCHANGED <<started, ip, phoned, banned, phoneLog, heard>>
        /\ pc'[p] # "identity" /\ pc[p] \notin {"down", "pause"}
        /\ cur'[p] \in {cur[p], None}
        /\ \A a \in Attempts :
              /\ outcome'[a] = "none" => outcome[a] = "none"
              /\ outcome'[a] # "cut" => outcome[a] # "cut"
    <3>1. CASE \/ StartBrowser(p) \/ FillForm(p) \/ Submit(p)
               \/ VerifyEmail(p) \/ VerifySession(p) \/ EnterQuarantine(p)
      BY <1>0, <3>1 DEF TypeOK, StartBrowser, FillForm, Submit, VerifyEmail,
         VerifySession, EnterQuarantine, Transition, Goto, attempt
    <3>2. CASE \/ Quit(p) \/ SoftLandingSkip(p)
               \/ LoadAccounts(p) \/ StoreAccount(p) \/ RecordRegistration(p)
      BY <1>0, <3>2 DEF TypeOK, Quit, SoftLandingSkip, LoadAccounts,
         StoreAccount, RecordRegistration, Goto, files, attempt
    <3>3. CASE Handle(p) \/ ReadLog(p) \/ AppendAudit(p) \/ AppendFailure(p)
      <4>1. cur[p] \in Attempts /\ outcome[cur[p]] = "running"
        BY <3>3, InHand DEF Handle, ReadLog, AppendAudit, AppendFailure
      <4> QED
        BY <1>0, <3>3, <4>1 DEF TypeOK, Handle, ReadLog, AppendAudit,
           AppendFailure, Leave, Goto, files
    <3> QED
      BY <1>5, <3>1, <3>2, <3>3 DEF Step
  <2>2. \A q \in Procs \ {p} : pc'[q] = pc[q] /\ cur'[q] = cur[q]
    BY <1>5, Frame
  <2> QED
    BY <2>1, <2>2, ElsewherePhone
<1> QED
  BY <1>1, <1>2, <1>3, <1>4, <1>5 DEF Next

(* An address is not used again by a process that has retired it after a   *)
(* phone prompt, however often it is killed and restarted, nor by one that *)
(* started after any process had.                                          *)
THEOREM AddressesRetired == Spec => []PhoneIPsRetired
<1>1. Init => HistoryInv /\ PhoneInv
  BY DEF Init, HistoryInv, PhoneInv, PhoneIPsRetired, Retired
<1>2. PhoneInv => PhoneIPsRetired
  BY DEF PhoneInv
<1> QED
  BY <1>1, <1>2, InitIInv, NextIInv, HistoryStep, PhoneStep, PTL DEF Spec

-----------------------------------------------------------------------------
(* Two attempts in hand belong to two processes.                           *)
LEMMA OneAtWork ==
  ASSUME HistoryInv, OneProcess, NEW p \in Procs, NEW q \in Procs,
         cur[p] # None, cur[q] # None
  PROVE  p = q
<1>1. PICK i \in DOMAIN started : started[i] = <<p, cur[p]>>
  BY DEF HistoryInv
<1>2. PICK j \in DOMAIN started : started[j] = <<q, cur[q]>>
  BY DEF HistoryInv
<1>3. started[i][1] = p /\ started[j][1] = q
  BY <1>1, <1>2
<1> QED
  BY <1>3 DEF OneProcess

(* If all attempts are of one process now, they were before.               *)
LEMMA OneBefore ==
  ASSUME TypeOK, NEW p \in Procs, Step(p), OneProcess'
  PROVE  OneProcess
<1>1. CASE Begin(p)
  <2>1. PICK a \in Attempts : started' = Append(started, <<p, a>>)
    BY <1>1 DEF Begin
  <2>2. <<p, a>> \in Procs \X Attempts /\ started \in Seq(Procs \X Attempts)
    BY DEF TypeOK
  <2>3. /\ DOMAIN started' = DOMAIN started \union {Len(started) + 1}
        /\ \A i \in DOMAIN started : started'[i] = started[i]
    BY <2>1, <2>2, AppendFacts
  <2> QED
    BY <2>3 DEF OneProcess
<1>2. CASE ~Begin(p)
  <2>1. UNCHANGED started
    BY <1>2 DEF Step, Start, Quit, AcquireSession, StartBrowser, FillForm,
       Submit, DetectPhone, MarkPhoneTriggered, SoftLandingSkip, VerifyEmail,
       VerifySession, EnterQuarantine, LoadAccounts, StoreAccount,
       RecordRegistration, Raise, Handle, ReadLog, AppendAudit, AppendFailure,
       Crash, files, attempt
  <2> QED
    BY <2>1 DEF OneProcess
<1> QED
  BY <1>1, <1>2

(* Adding to a list loses nothing.                                         *)
LEMMA MemberAppend ==
  ASSUME NEW s \in Seq(Attempts), NEW x \in Attempts
  PROVE  /\ Member(x, Append(s, x))
         /\ \A a : Member(a, s) => Member(a, Append(s, x))
<1>1. /\ DOMAIN Append(s, x) = DOMAIN s \union {Len(s) + 1}
      /\ \A i \in DOMAIN s : Append(s, x)[i] = s[i]
      /\ Append(s, x)[Len(s) + 1] = x
  BY AppendFacts
<1> QED
  BY <1>1 DEF Member

(* The scheduler's list only grows; the account list does with one process.*)
LEMMA ListsGrow ==
  ASSUME IInv, ReturnInv, NEW p \in Procs, Step(p), NEW a \in Attempts
  PROVE  /\ Member(a, scheduled) => Member(a, scheduled')
         /\ OneProcess /\ Member(a, accounts) => Member(a, accounts')
<1>0. TypeOK
  BY DEF IInv
<1>1. CASE RecordRegistration(p)
  <2>1. PICK x \in Attempts : scheduled' = Append(scheduled, x)
    BY <1>1, InHand DEF RecordRegistration
  <2> QED
    BY <1>0, <1>1, <2>1, MemberAppend DEF RecordRegistration, TypeOK
<1>2. CASE StoreAccount(p)
  <2>1. PICK x \in Attempts : accounts' = Append(view[p], x)
    BY <1>2, InHand DEF StoreAccount
  <2>2. OneProcess => view[p] = accounts
    BY <1>2 DEF StoreAccount, ReturnInv, Listed
  <2>3. UNCHANGED scheduled
    BY <1>2 DEF StoreAccount
  <2> QED
    BY <1>0, <2>1, <2>2, <2>3, MemberAppend DEF TypeOK
<1>3. CASE ~RecordRegistration(p) /\ ~StoreAccount(p)
  <2>1. UNCHANGED <<accounts, scheduled>>
    BY <1>3 DEF Step, Start, Quit, Begin, AcquireSession, StartBrowser,
       FillForm, Submit, DetectPhone, MarkPhoneTriggered, SoftLandingSkip,
       VerifyEmail, VerifySession, EnterQuarantine, LoadAccounts, Raise, Handle,
       ReadLog, AppendAudit, AppendFailure, Crash, files
  <2> QED
    BY <2>1
<1> QED
  BY <1>1, <1>2, <1>3

(* A process reaches _finalize with a quarantined attempt only by way of   *)
(* the store and the scheduler.                                            *)
LEMMA EnteredStep ==
  ASSUME IInv, ReturnInv, NEW p \in Procs, Step(p), OneProcess' => OneProcess
  PROVE  Entered(p)' /\ (OneProcess' => Listed(p)')
<1>0. TypeOK /\ Entered(p) /\ (OneProcess => Listed(p))
  BY DEF IInv, ReturnInv
<1>1. CASE pc'[p] \notin {"storing", "record", "finalize"}
  BY <1>1 DEF Entered, Listed
<1>3. CASE \/ StartBrowser(p) \/ FillForm(p) \/ Submit(p)
           \/ VerifyEmail(p) \/ VerifySession(p) \/ EnterQuarantine(p)
  <2>1. PICK s \in States, x \in Points :
           /\ Transition(p, s, x)
           /\ x \in {"finalize", "storing", "record"} =>
                 x = "finalize" /\ s = "failed"
    BY <1>3 DEF StartBrowser, FillForm, Submit, VerifyEmail, VerifySession,
                EnterQuarantine, States, Points
  <2>2. PICK a \in Attempts : a = cur[p]
    BY <1>3, InHand DEF StartBrowser, FillForm, Submit, VerifyEmail,
                        VerifySession, EnterQuarantine
  <2>3. UNCHANGED cur
    BY <1>3 DEF StartBrowser, FillForm, Submit, VerifyEmail, VerifySession,
                EnterQuarantine
  <2>4. CASE log' = [log EXCEPT ![a] = Append(@, s)] /\ Goto(p, x)
    <3>1. pc'[p] = x
      BY <1>0, <2>4 DEF Goto, TypeOK
    <3>2. StateOf(a)' = s
      BY <1>0, <2>4, LogFacts DEF TypeOK
    <3> QED
      BY <2>1, <2>2, <2>3, <3>1, <3>2 DEF Entered, Listed
  <2>5. CASE Goto(p, "handle")
    BY <1>0, <1>1, <2>5 DEF Goto, TypeOK
  <2> QED
    BY <2>1, <2>2, <2>4, <2>5 DEF Transition
<1>4. CASE SoftLandingSkip(p)
  <2>1. PICK a \in Attempts : a = cur[p] /\ StateOf(a) \in StateAt("skip")
    BY <1>4, InHand DEF SoftLandingSkip
  <2>2. /\ pc[p] = "skip" /\ pc'[p] = "finalize" /\ UNCHANGED cur
        /\ \/ log' = [log EXCEPT ![a] =
                         Append(@, "skipped_phone_verification")]
           \/ UNCHANGED log
    BY <1>0, <1>4, <2>1 DEF SoftLandingSkip, Goto, TypeOK
  <2>3. StateOf(a)' = "skipped_phone_verification" \/ UNCHANGED log
    BY <1>0, <2>2, LogFacts DEF TypeOK, States
  <2>4. StateOf(a)' # "quarantined"
    BY <2>1, <2>3 DEF StateAt, StateOf
  <2> QED
    BY <2>1, <2>2, <2>4 DEF Entered, Listed
<1>5. CASE Handle(p)
  <2>1. PICK a \in Attempts : a = cur[p]
    BY <1>5, InHand DEF Handle
  <2>2. CASE Leave(p, "escaped", "down")
    BY <1>0, <1>1, <2>2 DEF Leave, Goto, TypeOK
  <2>3. CASE /\ log' = [log EXCEPT ![a] = Append(@, "failed")]
             /\ Goto(p, "finalize") /\ UNCHANGED cur
    <3>1. StateOf(a)' = "failed" /\ pc'[p] = "finalize"
      BY <1>0, <2>3, LogFacts DEF TypeOK, States, Goto
    <3> QED
      BY <2>1, <2>3, <3>1 DEF Entered, Listed
  <2>4. CASE /\ StateOf(a) \in Terminal
             /\ Goto(p, "finalize") /\ UNCHANGED <<log, cur>>
    <3>1. StateOf(a)' # "quarantined" /\ pc'[p] = "finalize"
      BY <1>0, <2>4 DEF TypeOK, Goto, Terminal, StateOf
    <3> QED
      BY <2>1, <2>4, <3>1 DEF Entered, Listed
  <2> QED
    BY <1>5, <2>1, <2>2, <2>3, <2>4 DEF Handle
<1>6. CASE LoadAccounts(p)
  <2>1. /\ pc'[p] = "storing" /\ view'[p] = accounts /\ UNCHANGED accounts
    BY <1>0, <1>6 DEF LoadAccounts, Goto, files, TypeOK
  <2> QED
    BY <2>1 DEF Entered, Listed
<1>7. CASE StoreAccount(p)
  <2>1. PICK a \in Attempts : a = cur[p]
    BY <1>7, InHand DEF StoreAccount
  <2>2. /\ pc'[p] = "record" /\ UNCHANGED cur /\ view[p] \in Seq(Attempts)
        /\ accounts' = Append(view[p], a)
    BY <1>0, <1>7, <2>1 DEF StoreAccount, Goto, attempt, TypeOK
  <2>3. Member(cur'[p], accounts')
    BY <2>1, <2>2, MemberAppend
  <2> QED
    BY <2>2, <2>3 DEF Entered, Listed, Member
<1>8. CASE RecordRegistration(p)
  <2>1. PICK a \in Attempts : a = cur[p]
    BY <1>8, InHand DEF RecordRegistration
  <2>2. /\ pc[p] = "record" /\ pc'[p] = "finalize"
        /\ UNCHANGED <<cur, accounts>>
        /\ scheduled' = Append(scheduled, a)
    BY <1>0, <1>8, <2>1 DEF RecordRegistration, Goto, attempt, TypeOK
  <2>3. Member(cur'[p], scheduled')
    BY <1>0, <2>1, <2>2, MemberAppend DEF TypeOK
  <2>4. OneProcess' => Member(cur'[p], accounts')
    BY <1>0, <2>2 DEF Listed
  <2> QED
    BY <2>2, <2>3, <2>4 DEF Entered, Listed, Member
<1>9. CASE \/ Start(p) \/ Quit(p) \/ Begin(p) \/ AcquireSession(p)
           \/ DetectPhone(p) \/ MarkPhoneTriggered(p) \/ Raise(p)
           \/ ReadLog(p) \/ AppendAudit(p) \/ AppendFailure(p) \/ Crash(p)
  <2>1. pc'[p] \in {"idle", "down", "identity", "handle", "mailbox", "failure",
                    "pause", "skip", "code"}
    BY <1>0, <1>9 DEF Start, Quit, Begin, AcquireSession, DetectPhone,
       MarkPhoneTriggered, Raise, ReadLog, AppendAudit, AppendFailure, Crash,
       Leave, Goto, TypeOK
  <2> QED
    BY <1>1, <2>1
<1> QED
  BY <1>3, <1>4, <1>5, <1>6, <1>7, <1>8, <1>9 DEF Step

(* What another process knows of its attempt stays so.                     *)
LEMMA EnteredElsewhere ==
  ASSUME IInv, HistoryInv, ReturnInv, NEW p \in Procs, Step(p),
         OneProcess' => OneProcess, NEW q \in Procs \ {p}
  PROVE  Entered(q)' /\ (OneProcess' => Listed(q)')
<1>0. TypeOK /\ Entered(q) /\ (OneProcess => Listed(q))
  BY DEF IInv, ReturnInv
<1>1. pc'[q] = pc[q] /\ cur'[q] = cur[q]
  BY Frame
<1>2. CASE pc[q] \notin {"storing", "record", "finalize"}
  BY <1>1, <1>2 DEF Entered, Listed
<1>3. CASE pc[q] \in {"storing", "record", "finalize"}
  <2>1. PICK a \in Attempts : a = cur[q] /\ outcome[a] = "running"
    BY <1>3, InHand
  <2>2. a # cur[p] /\ a # cur'[p]
    BY <2>1, Frame, NoneAssumption DEF IInv, ProcessInv
  <2>3. StateOf(a)' = StateOf(a)
    BY <2>2, Frame DEF StateOf
  <2>4. /\ Member(a, scheduled) => Member(a, scheduled')
        /\ OneProcess /\ Member(a, accounts) => Member(a, accounts')
    BY ListsGrow
  <2>5. view'[q] = view[q]
    BY <1>0 DEF Step, Start, Quit, Begin, AcquireSession, StartBrowser,
       FillForm, Submit, DetectPhone, MarkPhoneTriggered, SoftLandingSkip,
       VerifyEmail, VerifySession, EnterQuarantine, LoadAccounts, StoreAccount,
       RecordRegistration, Raise, Handle, ReadLog, AppendAudit, AppendFailure,
       Crash, Leave, TypeOK
  <2>6. OneProcess => UNCHANGED accounts \/ ~StoreAccount(p)
    <3>1. StoreAccount(p) => cur[p] # None
      BY InHand, NoneAssumption DEF StoreAccount
    <3> QED
      BY <2>1, <3>1, OneAtWork, NoneAssumption
  <2>7. ~StoreAccount(p) => UNCHANGED accounts
    BY DEF Step, Start, Quit, Begin, AcquireSession, StartBrowser,
       FillForm, Submit, DetectPhone, MarkPhoneTriggered, SoftLandingSkip,
       VerifyEmail, VerifySession, EnterQuarantine, LoadAccounts,
       RecordRegistration, Raise, Handle, ReadLog, AppendAudit, AppendFailure,
       Crash, files
  <2>8. Entered(q)'
    BY <1>0, <1>1, <2>1, <2>3, <2>4 DEF Entered, Member
  <2>9. OneProcess' => Listed(q)'
    BY <1>0, <1>1, <2>1, <2>3, <2>4, <2>5, <2>6, <2>7 DEF Listed, Member
  <2> QED
    BY <2>8, <2>9
<1> QED
  BY <1>2, <1>3

LEMMA ReturnStep == IInv /\ HistoryInv /\ ReturnInv /\ [Next]_vars => ReturnInv'
<1> SUFFICES ASSUME IInv, HistoryInv, ReturnInv, [Next]_vars PROVE ReturnInv'
  OBVIOUS
<1>0. TypeOK
  BY DEF IInv
<1>1. CASE UNCHANGED vars
  <2>1. \A p \in Procs : Entered(p)' <=> Entered(p)
    BY <1>1 DEF Entered, StateOf, Member, vars, files, local
  <2>2. \A p \in Procs : Listed(p)' <=> Listed(p)
    BY <1>1 DEF Listed, StateOf, Member, vars, files, local
  <2>3. OneProcess' <=> OneProcess
    BY <1>1 DEF OneProcess, vars, attempt
  <2>4. ReturnedAreFiled'
    BY <1>1, <2>3 DEF ReturnInv, ReturnedAreFiled, StateOf, Member, vars, files,
       attempt
  <2> QED
    BY <2>1, <2>2, <2>3, <2>4 DEF ReturnInv
<1>2. ASSUME NEW p \in Procs, Step(p) PROVE ReturnInv'
  <2>1. OneProcess' => OneProcess
    BY <1>0, <1>2, OneBefore
  <2>2. ASSUME NEW q \in Procs PROVE Entered(q)' /\ (OneProcess' => Listed(q)')
    <3>1. CASE q = p
      BY <1>2, <2>1, <3>1, EnteredStep
    <3>2. CASE q # p
      BY <1>2, <2>1, <3>2, EnteredElsewhere
    <3> QED
      BY <3>1, <3>2
  <2>3. ASSUME NEW a \in Attempts, outcome'[a] = "returned",
               StateOf(a)' = "quarantined"
        PROVE  Member(a, scheduled') /\ (OneProcess' => Member(a, accounts'))
    <3>1. /\ Member(a, scheduled) => Member(a, scheduled')
          /\ OneProcess /\ Member(a, accounts) => Member(a, accounts')
      BY <1>2, ListsGrow
    <3>2. a # cur'[p]
      BY <1>2, <2>3, ProcessStep, NoneAssumption DEF ProcessInv, Holds, Next
    <3>3. CASE a # cur[p]
      <4>1. log'[a] = log[a] /\ outcome'[a] = outcome[a]
        BY <1>2, <3>2, <3>3, Frame
      <4>2. StateOf(a) = "quarantined" /\ outcome[a] = "returned"
        BY <2>3, <4>1 DEF StateOf
      <4> QED
        BY <2>1, <3>1, <4>2 DEF ReturnInv, ReturnedAreFiled
    <3>4. CASE a = cur[p]
      <4>1. outcome[a] = "running"
        BY <3>4, NoneAssumption DEF IInv, ProcessInv, Holds
      <4>2. AppendAudit(p) \/ AppendFailure(p)
        BY <1>0, <1>2, <2>3, <3>4, <4>1 DEF Step, Start, Quit, Begin,
           AcquireSession, StartBrowser, FillForm, Submit, DetectPhone,
           MarkPhoneTriggered, SoftLandingSkip, VerifyEmail, VerifySession,
           EnterQuarantine, LoadAccounts, StoreAccount, RecordRegistration,
           Raise, Handle, ReadLog, Crash, Leave, TypeOK, files, attempt
      <4>3. StateOf(a) = "quarantined"
        BY <2>3, <4>2 DEF AppendAudit, AppendFailure, StateOf
      <4>4. pc[p] = "finalize"
        BY <3>4, <4>2, <4>3, InHand DEF AppendAudit, AppendFailure, StateAt
      <4>5. Member(a, scheduled) /\ (OneProcess => Member(a, accounts))
        BY <3>4, <4>3, <4>4 DEF ReturnInv, Entered, Listed
      <4> QED
        BY <2>1, <3>1, <4>5
    <3> QED
      BY <3>3, <3>4
  <2>4. ReturnedAreFiled'
    BY <2>3 DEF ReturnedAreFiled, Member
  <2> QED
    BY <2>2, <2>4 DEF ReturnInv
<1> QED
  BY <1>1, <1>2 DEF Next

(* A quarantined attempt that returned was counted by the scheduler, and,  *)
(* while one process runs, is on the account list.                         *)
THEOREM ReturnsAreFiled == Spec => []ReturnedAreFiled
<1>1. Init => HistoryInv /\ ReturnInv
  BY DEF Init, HistoryInv, ReturnInv, ReturnedAreFiled, Entered, Listed
<1>2. ReturnInv => ReturnedAreFiled
  BY DEF ReturnInv
<1> QED
  BY <1>1, <1>2, InitIInv, NextIInv, HistoryStep, ReturnStep, PTL DEF Spec
=============================================================================
