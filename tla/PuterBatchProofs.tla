-------------------------- MODULE PuterBatchProofs --------------------------
(* Proofs about the batches of both registration programs of Puter: the    *)
(* circuit breaker that ends a batch of the second, for any number of      *)
(* processes, any limits that keep the mail limit above the code limit,    *)
(* and any windows; and the files of the first, for any outlook accounts,  *)
(* batches, passes and attempts.  The two share nothing.                   *)
EXTENDS CircuitBreaker, LegacyRegister, FiniteSetTheorems, SequenceTheorems,
        TLAPS

-----------------------------------------------------------------------------

LEMMA Constants ==
  /\ SuspensionLimit \in Nat /\ SuspensionLimit > 0
  /\ MailLimit \in Nat /\ CodeLimit \in Nat /\ CodeLimit > 0
  /\ CodeLimit < MailLimit
  /\ WindowLimit \in Nat /\ WindowLimit > 0
  /\ Hour \in Nat /\ Day \in Nat
  BY BreakerAssumption

LEMMA AppendFacts ==
  ASSUME NEW S, NEW s \in Seq(S), NEW x \in S
  PROVE  /\ Append(s, x) \in Seq(S)
         /\ Len(s) \in Nat /\ DOMAIN s = 1..Len(s)
         /\ Len(Append(s, x)) = Len(s) + 1
         /\ DOMAIN Append(s, x) = 1..(Len(s) + 1)
         /\ \A i \in DOMAIN s : Append(s, x)[i] = s[i]
         /\ Append(s, x)[Len(s) + 1] = x
         /\ \A i \in DOMAIN s : s[i] \in S
  OBVIOUS

(* A counter that was right is right after one more result.                *)
LEMMA StreakCounts ==
  ASSUME NEW hist \in Seq(Result), NEW r \in Result, NEW n \in Nat, NEW kind,
         EndsWith(hist, n, kind)
  PROVE  /\ Streak(n, r.category \in kind) \in Nat
         /\ EndsWith(Append(hist, r), Streak(n, r.category \in kind), kind)
<1> DEFINE h == Append(hist, r)
           k == Streak(n, r.category \in kind)
<1>1. /\ Len(hist) \in Nat /\ DOMAIN hist = 1..Len(hist)
      /\ Len(h) = Len(hist) + 1 /\ DOMAIN h = 1..(Len(hist) + 1)
      /\ \A i \in DOMAIN hist : h[i] = hist[i]
      /\ h[Len(hist) + 1] = r
  BY AppendFacts
<1>2. k \in Nat /\ k <= Len(h)
  BY <1>1 DEF Streak, EndsWith
<1>3. ASSUME NEW i \in DOMAIN h, i + k > Len(h) PROVE h[i].category \in kind
  <2>1. CASE r.category \in kind
    <3>1. k = n + 1
      BY <2>1 DEF Streak
    <3>2. CASE i = Len(hist) + 1
      BY <1>1, <2>1, <3>2
    <3>3. CASE i # Len(hist) + 1
      <4>1. i \in DOMAIN hist /\ i + n > Len(hist)
        BY <1>1, <1>3, <3>1, <3>3
      <4>2. QED
        BY <1>1, <4>1 DEF EndsWith
    <3>4. QED
      BY <3>2, <3>3
  <2>2. CASE r.category \notin kind
    BY <1>1, <1>3, <2>2 DEF Streak
  <2>3. QED
    BY <2>1, <2>2
<1>4. ASSUME NEW i \in DOMAIN h, i + k = Len(h) PROVE h[i].category \notin kind
  <2>1. CASE r.category \in kind
    <3>1. k = n + 1
      BY <2>1 DEF Streak
    <3>2. i \in DOMAIN hist /\ i + n = Len(hist)
      BY <1>1, <1>4, <3>1
    <3>3. QED
      BY <1>1, <3>2 DEF EndsWith
  <2>2. CASE r.category \notin kind
    <3>1. i = Len(hist) + 1
      BY <1>1, <1>4, <2>2 DEF Streak
    <3>2. QED
      BY <1>1, <2>2, <3>1
  <2>3. QED
    BY <2>1, <2>2
<1>5. QED
  BY <1>2, <1>3, <1>4 DEF EndsWith

(* The fields of a state.                                                  *)
LEMMA Fields ==
  ASSUME NEW s \in Breaker
  PROVE  /\ s.tripped \in BOOLEAN /\ s.limited \in BOOLEAN
         /\ s.reason \in Reasons /\ s.trip \in Nat
         /\ s.suspensions \in Nat /\ s.mail \in Nat /\ s.code \in Nat
         /\ s.window \subseteq [n : Nat, at : Nat] /\ s.hist \in Seq(Result)
  BY DEF Breaker

LEMMA FreshGood ==
  ASSUME now \in Nat
  PROVE  Fresh \in Breaker /\ Sound(Fresh) /\ Dated(Fresh) /\ ~Fresh.tripped
<1>1. Fresh \in Breaker /\ ~Fresh.tripped
  BY DEF Fresh, Breaker, Reasons
<1>2. /\ Fresh.hist = << >> /\ Len(Fresh.hist) = 0 /\ DOMAIN Fresh.hist = {}
      /\ Fresh.window = {} /\ Fresh.trip = 0 /\ ~Fresh.limited
      /\ Fresh.suspensions = 0 /\ Fresh.mail = 0 /\ Fresh.code = 0
      /\ Fresh.reason = "none"
  BY DEF Fresh
<1>3. Counts(Fresh)
  BY <1>2, Constants DEF Counts, EndsWith
<1>4. WindowCounts(Fresh)
  BY <1>2, Constants, FS_EmptySet DEF WindowCounts
<1>5. Dated(Fresh)
  BY <1>1, <1>2, FS_EmptySet DEF Dated
<1>6. QED
  BY <1>1, <1>3, <1>4, <1>5 DEF Sound

-----------------------------------------------------------------------------
(* record_result, rule by rule.                                            *)

LEMMA TripFields ==
  ASSUME NEW s \in Breaker, NEW r \in Reasons, now \in Nat
  PROVE  LET t == Trip(s, r)
         IN /\ t \in Breaker
            /\ t.tripped /\ t.reason = r /\ t.trip = now
            /\ t.limited = s.limited /\ t.suspensions = s.suspensions
            /\ t.mail = s.mail /\ t.code = s.code /\ t.window = s.window
            /\ t.hist = s.hist
  BY DEF Trip, Breaker

(* The states between the rules.                                           *)
Rule1(s, c) == [s EXCEPT !.hist = Append(@, [category |-> c, at |-> now]),
                         !.suspensions = Streak(@, c \in Suspensions)]
Rule2(s, c) == [s EXCEPT !.mail = Streak(@, c \in MailFailures)]
Rule3(s, c) == [s EXCEPT !.code = Streak(@, c \in CodeTimeouts)]
Rule4(s, c, n) ==
    IF c \in Refusals THEN [s EXCEPT !.window = Slide(@, n)] ELSE s

SameBut(t, s) == t.tripped = s.tripped /\ t.reason = s.reason /\ t.trip = s.trip
                 /\ t.limited = s.limited

LEMMA Rule1Fields ==
  ASSUME NEW s \in Breaker, NEW c \in Categories, now \in Nat
  PROVE  LET t == Rule1(s, c)
         IN /\ t \in Breaker /\ SameBut(t, s)
            /\ t.hist = Append(s.hist, [category |-> c, at |-> now])
            /\ t.suspensions = Streak(s.suspensions, c \in Suspensions)
            /\ t.mail = s.mail /\ t.code = s.code /\ t.window = s.window
<1>1. Append(s.hist, [category |-> c, at |-> now]) \in Seq(Result)
  BY Fields, AppendFacts DEF Result
<1>2. Streak(s.suspensions, c \in Suspensions) \in Nat
  BY Fields DEF Streak
<1>3. QED
  BY <1>1, <1>2 DEF Rule1, Breaker, SameBut

LEMMA Rule2Fields ==
  ASSUME NEW s \in Breaker, NEW c \in Categories
  PROVE  LET t == Rule2(s, c)
         IN /\ t \in Breaker /\ SameBut(t, s)
            /\ t.mail = Streak(s.mail, c \in MailFailures)
            /\ t.hist = s.hist /\ t.suspensions = s.suspensions
            /\ t.code = s.code /\ t.window = s.window
<1>1. Streak(s.mail, c \in MailFailures) \in Nat
  BY Fields DEF Streak
<1>2. QED
  BY <1>1 DEF Rule2, Breaker, SameBut

LEMMA Rule3Fields ==
  ASSUME NEW s \in Breaker, NEW c \in Categories
  PROVE  LET t == Rule3(s, c)
         IN /\ t \in Breaker /\ SameBut(t, s)
            /\ t.code = Streak(s.code, c \in CodeTimeouts)
            /\ t.hist = s.hist /\ t.suspensions = s.suspensions
            /\ t.mail = s.mail /\ t.window = s.window
<1>1. Streak(s.code, c \in CodeTimeouts) \in Nat
  BY Fields DEF Streak
<1>2. QED
  BY <1>1 DEF Rule3, Breaker, SameBut

LEMMA Rule4Fields ==
  ASSUME NEW s \in Breaker, NEW c \in Categories, NEW n \in Nat, now \in Nat
  PROVE  LET t == Rule4(s, c, n)
         IN /\ t \in Breaker /\ SameBut(t, s)
            /\ t.window = IF c \in Refusals THEN Slide(s.window, n) ELSE s.window
            /\ t.hist = s.hist /\ t.suspensions = s.suspensions
            /\ t.mail = s.mail /\ t.code = s.code
<1>1. Slide(s.window, n) \subseteq [n : Nat, at : Nat]
  BY Fields DEF Slide
<1>2. QED
  BY <1>1 DEF Rule4, Breaker, SameBut

(* What the rules make of a state, field by field.                         *)
LEMMA RuleFields ==
  ASSUME NEW s \in Breaker, NEW c \in Categories, now \in Nat
  PROVE  LET t == RecordResult(s, c)
             h == Append(s.hist, [category |-> c, at |-> now])
             sus == Streak(s.suspensions, c \in Suspensions)
             mail == Streak(s.mail, c \in MailFailures)
             code == Streak(s.code, c \in CodeTimeouts)
             win == IF c \in Refusals THEN Slide(s.window, Len(s.hist) + 1)
                    ELSE s.window
         IN /\ t.hist = h
            /\ t.suspensions = sus
            /\ \/ /\ sus >= SuspensionLimit
                  /\ t.tripped /\ t.reason = "suspensions" /\ t.trip = now
                  /\ t.mail = s.mail /\ t.code = s.code /\ t.window = s.window
                  /\ t.limited = s.limited
               \/ /\ mail >= MailLimit
                  /\ t.tripped /\ t.reason = "mail" /\ t.trip = now
                  /\ t.mail = mail /\ t.code = s.code /\ t.window = s.window
                  /\ t.limited = s.limited
               \/ /\ code >= CodeLimit
                  /\ t.tripped /\ t.reason = "code" /\ t.trip = now
                  /\ t.mail = mail /\ t.code = code /\ t.window = s.window
                  /\ t.limited = s.limited
               \/ /\ c \in Refusals /\ Cardinality(win) >= WindowLimit
                  /\ t.tripped /\ t.reason = "window" /\ t.trip = now
                  /\ t.mail = mail /\ t.code = code /\ t.window = win
                  /\ t.limited = s.limited
               \/ /\ ~(sus >= SuspensionLimit) /\ ~(code >= CodeLimit)
                  /\ ~(c \in Refusals /\ Cardinality(win) >= WindowLimit)
                  /\ t.mail = mail /\ t.code = code /\ t.window = win
                  /\ \/ /\ t.tripped /\ t.reason = "rate" /\ t.trip = now
                        /\ t.limited
                     \/ /\ t.tripped = s.tripped /\ t.reason = s.reason
                        /\ t.trip = s.trip /\ t.limited = s.limited
<1> DEFINE n == Len(s.hist) + 1
           s1 == Rule1(s, c)
           s2 == Rule2(s1, c)
           s3 == Rule3(s2, c)
           s4 == Rule4(s3, c, n)
           s5 == [s4 EXCEPT !.limited = TRUE]
           t == RecordResult(s, c)
<1>0. n \in Nat
  BY Fields, LenProperties
<1>1. /\ s1 \in Breaker /\ SameBut(s1, s)
      /\ s1.hist = Append(s.hist, [category |-> c, at |-> now])
      /\ s1.suspensions = Streak(s.suspensions, c \in Suspensions)
      /\ s1.mail = s.mail /\ s1.code = s.code /\ s1.window = s.window
  BY Rule1Fields
<1>2. /\ s2 \in Breaker /\ SameBut(s2, s)
      /\ s2.hist = s1.hist /\ s2.suspensions = s1.suspensions
      /\ s2.mail = Streak(s.mail, c \in MailFailures)
      /\ s2.code = s.code /\ s2.window = s.window
  <2> HIDE DEF s1
  <2>1. QED
    BY <1>1, Rule2Fields DEF SameBut
<1>3. /\ s3 \in Breaker /\ SameBut(s3, s)
      /\ s3.hist = s1.hist /\ s3.suspensions = s1.suspensions
      /\ s3.mail = s2.mail
      /\ s3.code = Streak(s.code, c \in CodeTimeouts) /\ s3.window = s.window
  <2> HIDE DEF s1, s2
  <2>1. QED
    BY <1>2, Rule3Fields DEF SameBut
<1>4. /\ s4 \in Breaker /\ SameBut(s4, s)
      /\ s4.hist = s1.hist /\ s4.suspensions = s1.suspensions
      /\ s4.mail = s2.mail /\ s4.code = s3.code
      /\ s4.window = IF c \in Refusals THEN Slide(s.window, n) ELSE s.window
  <2> HIDE DEF s1, s2, s3, n
  <2>1. QED
    BY <1>0, <1>3, Rule4Fields DEF SameBut
<1>5. /\ s5 \in Breaker /\ s5.limited
      /\ s5.hist = s1.hist /\ s5.suspensions = s1.suspensions
      /\ s5.mail = s2.mail /\ s5.code = s3.code /\ s5.window = s4.window
  <2> HIDE DEF s1, s2, s3, s4
  <2>1. QED
    BY <1>4 DEF Breaker
<1>6. t = IF s1.suspensions >= SuspensionLimit THEN Trip(s1, "suspensions")
          ELSE IF s2.mail >= MailLimit THEN Trip(s2, "mail")
          ELSE IF s3.code >= CodeLimit THEN Trip(s3, "code")
          ELSE IF c \in Refusals /\ Cardinality(s4.window) >= WindowLimit
               THEN Trip(s4, "window")
          ELSE IF c = "rate_limited" THEN Trip(s5, "rate")
          ELSE s4
  BY Zenon DEF RecordResult, Rule1, Rule2, Rule3, Rule4
<1> HIDE DEF s1, s2, s3, s4, s5, t, n
<1>8. CASE s1.suspensions >= SuspensionLimit
  <2>1. t = Trip(s1, "suspensions")
    BY <1>6, <1>8
  <2>a. s1 \in Breaker
    BY <1>1
  <2>b. "suspensions" \in Reasons
    BY DEF Reasons
  <2>2. /\ t.tripped /\ t.reason = "suspensions" /\ t.trip = now
        /\ t.limited = s1.limited /\ t.suspensions = s1.suspensions
        /\ t.mail = s1.mail /\ t.code = s1.code
        /\ t.window = s1.window /\ t.hist = s1.hist
    BY <2>1, <2>a, <2>b, TripFields
  <2>3. QED
    BY <1>1, <1>8, <2>2 DEF SameBut, t, n
<1>9. CASE ~(s1.suspensions >= SuspensionLimit) /\ s2.mail >= MailLimit
  <2>1. t = Trip(s2, "mail")
    BY <1>6, <1>9
  <2>a. s2 \in Breaker
    BY <1>2
  <2>b. "mail" \in Reasons
    BY DEF Reasons
  <2>2. /\ t.tripped /\ t.reason = "mail" /\ t.trip = now
        /\ t.limited = s2.limited /\ t.suspensions = s2.suspensions
        /\ t.mail = s2.mail /\ t.code = s2.code
        /\ t.window = s2.window /\ t.hist = s2.hist
    BY <2>1, <2>a, <2>b, TripFields
  <2>3. QED
    BY <1>1, <1>2, <1>9, <2>2 DEF SameBut, t, n
<1>10. CASE /\ ~(s1.suspensions >= SuspensionLimit) /\ ~(s2.mail >= MailLimit)
            /\ s3.code >= CodeLimit
  <2>1. t = Trip(s3, "code")
    BY <1>6, <1>10
  <2>a. s3 \in Breaker
    BY <1>3
  <2>b. "code" \in Reasons
    BY DEF Reasons
  <2>2. /\ t.tripped /\ t.reason = "code" /\ t.trip = now
        /\ t.limited = s3.limited /\ t.suspensions = s3.suspensions
        /\ t.mail = s3.mail /\ t.code = s3.code
        /\ t.window = s3.window /\ t.hist = s3.hist
    BY <2>1, <2>a, <2>b, TripFields
  <2>3. QED
    BY <1>1, <1>2, <1>3, <1>10, <2>2 DEF SameBut, t, n
<1>11. CASE /\ ~(s1.suspensions >= SuspensionLimit) /\ ~(s2.mail >= MailLimit)
            /\ ~(s3.code >= CodeLimit)
            /\ c \in Refusals /\ Cardinality(s4.window) >= WindowLimit
  <2>1. t = Trip(s4, "window")
    BY <1>6, <1>11
  <2>a. s4 \in Breaker
    BY <1>4
  <2>b. "window" \in Reasons
    BY DEF Reasons
  <2>2. /\ t.tripped /\ t.reason = "window" /\ t.trip = now
        /\ t.limited = s4.limited /\ t.suspensions = s4.suspensions
        /\ t.mail = s4.mail /\ t.code = s4.code
        /\ t.window = s4.window /\ t.hist = s4.hist
    BY <2>1, <2>a, <2>b, TripFields
  <2>3. QED
    BY <1>1, <1>2, <1>3, <1>4, <1>11, <2>2 DEF SameBut, t, n
<1>12. CASE /\ ~(s1.suspensions >= SuspensionLimit) /\ ~(s2.mail >= MailLimit)
            /\ ~(s3.code >= CodeLimit)
            /\ ~(c \in Refusals /\ Cardinality(s4.window) >= WindowLimit)
            /\ c = "rate_limited"
  <2>1. t = Trip(s5, "rate")
    BY <1>6, <1>12
  <2>a. s5 \in Breaker
    BY <1>5
  <2>b. "rate" \in Reasons
    BY DEF Reasons
  <2>2. /\ t.tripped /\ t.reason = "rate" /\ t.trip = now
        /\ t.limited = s5.limited /\ t.suspensions = s5.suspensions
        /\ t.mail = s5.mail /\ t.code = s5.code
        /\ t.window = s5.window /\ t.hist = s5.hist
    BY <2>1, <2>a, <2>b, TripFields
  <2>3. QED
    BY <1>1, <1>2, <1>3, <1>4, <1>5, <1>12, <2>2 DEF SameBut, t, n
<1>13. CASE /\ ~(s1.suspensions >= SuspensionLimit) /\ ~(s2.mail >= MailLimit)
            /\ ~(s3.code >= CodeLimit)
            /\ ~(c \in Refusals /\ Cardinality(s4.window) >= WindowLimit)
            /\ c # "rate_limited"
  <2>1. t = s4
    BY <1>6, <1>13
  <2>2. QED
    BY <1>1, <1>2, <1>3, <1>4, <1>13, <2>1 DEF SameBut, t, n
<1>14. QED
  BY <1>8, <1>9, <1>10, <1>11, <1>12, <1>13

LEMMA RuleType ==
  ASSUME NEW s \in Breaker, NEW c \in Categories, now \in Nat
  PROVE  RecordResult(s, c) \in Breaker
<1>1. Append(s.hist, [category |-> c, at |-> now]) \in Seq(Result)
  BY Fields, AppendFacts DEF Result
<1>2. /\ Streak(s.suspensions, c \in Suspensions) \in Nat
      /\ Streak(s.mail, c \in MailFailures) \in Nat
      /\ Streak(s.code, c \in CodeTimeouts) \in Nat
  BY Fields DEF Streak
<1>3. Slide(s.window, Len(s.hist) + 1) \subseteq [n : Nat, at : Nat]
  <2>1. Len(s.hist) + 1 \in Nat
    BY Fields, LenProperties
  <2>2. QED
    BY <2>1, Fields DEF Slide
<1>4. QED
  BY <1>1, <1>2, <1>3 DEF RecordResult, Breaker, Trip, Reasons

-----------------------------------------------------------------------------

Good(s) == s \in Breaker /\ Sound(s) /\ Dated(s)

(* The window after a refusal has what it had of the last hour, and it.    *)
LEMMA SlideCounts ==
  ASSUME NEW s \in Breaker, Good(s), NEW c \in Refusals, c \in Categories,
         now \in Nat,
         \A w \in s.window : /\ w.n \in DOMAIN s.hist /\ s.hist[w.n].at = w.at
                             /\ s.hist[w.n].category \in Refusals,
         \A i \in DOMAIN s.hist :
            s.hist[i].category \in Refusals /\ now < s.hist[i].at + Hour =>
                [n |-> i, at |-> s.hist[i].at] \in s.window
  PROVE  LET h == Append(s.hist, [category |-> c, at |-> now])
             win == Slide(s.window, Len(s.hist) + 1)
         IN /\ IsFiniteSet(win)
            /\ \A w \in win : /\ w.n \in DOMAIN h /\ h[w.n].at = w.at
                              /\ h[w.n].category \in Refusals
                              /\ now < w.at + Hour
            /\ \A i \in DOMAIN h :
                  h[i].category \in Refusals /\ now < h[i].at + Hour =>
                      [n |-> i, at |-> h[i].at] \in win
<1> DEFINE r == [category |-> c, at |-> now]
           h == Append(s.hist, r)
           k == Len(s.hist) + 1
           new == [n |-> k, at |-> now]
           win == Slide(s.window, k)
<1>1. /\ r \in Result /\ s.hist \in Seq(Result)
      /\ r.category = c /\ r.at = now
  BY Fields DEF Result
<1>2. /\ Len(s.hist) \in Nat /\ DOMAIN s.hist = 1..Len(s.hist)
      /\ DOMAIN h = 1..k /\ h[k] = r
      /\ \A i \in DOMAIN s.hist : h[i] = s.hist[i]
  BY <1>1, AppendFacts
<1>3. win \in SUBSET (s.window \union {new})
  BY DEF Slide
<1>4. IsFiniteSet(win)
  <2>1. IsFiniteSet(s.window)
    BY DEF Good, Dated
  <2> HIDE DEF new, win
  <2>2. IsFiniteSet(s.window \union {new})
    BY <2>1, FS_AddElement
  <2>3. QED
    BY <1>3, <2>2, FS_Subset
<1>5. ASSUME NEW w \in win
      PROVE  /\ w.n \in DOMAIN h /\ h[w.n].at = w.at
             /\ h[w.n].category \in Refusals /\ now < w.at + Hour
  <2>1. now < w.at + Hour
    BY DEF Slide
  <2>2. CASE w = new
    <3>1. w.n = k /\ w.at = now /\ k \in 1..k
      BY <1>2, <2>2
    <3>2. QED
      BY <1>1, <1>2, <2>1, <3>1
  <2>3. CASE w \in s.window
    <3>1. w.n \in DOMAIN s.hist /\ w.n \in DOMAIN h /\ h[w.n] = s.hist[w.n]
      BY <1>2, <2>3
    <3>2. QED
      BY <2>1, <2>3, <3>1
  <2>4. QED
    BY <1>3, <2>2, <2>3
<1>6. ASSUME NEW i \in DOMAIN h, h[i].category \in Refusals,
             now < h[i].at + Hour
      PROVE  [n |-> i, at |-> h[i].at] \in win
  <2>1. CASE i = k
    <3>1. [n |-> i, at |-> h[i].at] = new
      BY <1>1, <1>2, <2>1
    <3>2. now < now + Hour
      BY <1>1, <1>2, <1>6, <2>1
    <3>3. QED
      BY <3>1, <3>2 DEF Slide
  <2>2. CASE i # k
    <3>1. i \in DOMAIN s.hist /\ h[i] = s.hist[i]
      BY <1>2, <2>2
    <3>2. [n |-> i, at |-> h[i].at] \in s.window
      BY <1>6, <3>1
    <3>3. QED
      BY <1>6, <3>2 DEF Slide
  <2>3. QED
    BY <2>1, <2>2
<1>7. QED
  BY <1>4, <1>5, <1>6

(* One result more leaves a state sound.                                   *)
LEMMA RecordSound ==
  ASSUME NEW s \in Breaker, Good(s), ~s.tripped, NEW c \in Categories,
         now \in Nat
  PROVE  Good(RecordResult(s, c))
<1> DEFINE t == RecordResult(s, c)
           r == [category |-> c, at |-> now]
           h == Append(s.hist, r)
           sus == Streak(s.suspensions, c \in Suspensions)
           mail == Streak(s.mail, c \in MailFailures)
           code == Streak(s.code, c \in CodeTimeouts)
           win == IF c \in Refusals THEN Slide(s.window, Len(s.hist) + 1)
                  ELSE s.window
<1>1. t \in Breaker
  BY RuleType
<1>2. /\ Counts(s) /\ WindowCounts(s) /\ Dated(s)
      /\ s.suspensions \in Nat /\ s.mail \in Nat /\ s.code \in Nat
      /\ s.hist \in Seq(Result) /\ r \in Result /\ s.trip \in Nat
      /\ r.category = c /\ r.at = now
  BY Fields DEF Good, Sound, Result
<1>3. /\ sus \in Nat /\ EndsWith(h, sus, Suspensions)
      /\ mail \in Nat /\ EndsWith(h, mail, MailFailures)
      /\ code \in Nat /\ EndsWith(h, code, CodeTimeouts)
  BY <1>2, StreakCounts DEF Counts
<1>4. /\ sus <= SuspensionLimit /\ mail <= code /\ code <= CodeLimit
  <2>1. s.suspensions < SuspensionLimit /\ s.code < CodeLimit /\ s.mail <= s.code
    BY <1>2 DEF Counts, Dated
  <2>2. c \in MailFailures => c \in CodeTimeouts
    BY DEF MailFailures, CodeTimeouts
  <2>3. QED
    BY <1>2, <2>1, <2>2, Constants DEF Streak
<1>5. ~(mail >= MailLimit)
  BY <1>3, <1>4, Constants
<1>6. /\ Len(s.hist) \in Nat /\ DOMAIN s.hist = 1..Len(s.hist)
      /\ DOMAIN h = 1..(Len(s.hist) + 1) /\ h[Len(s.hist) + 1] = r
      /\ \A i \in DOMAIN s.hist : h[i] = s.hist[i]
  BY <1>2, AppendFacts
<1>7. \A i \in DOMAIN h : h[i].at <= now
  BY <1>2, <1>6 DEF Dated
<1>8. /\ IsFiniteSet(win)
      /\ \A w \in win : /\ w.n \in DOMAIN h /\ h[w.n].at = w.at
                        /\ h[w.n].category \in Refusals
      /\ \A i \in DOMAIN h :
            h[i].category \in Refusals /\ now < h[i].at + Hour =>
                [n |-> i, at |-> h[i].at] \in win
      /\ c \in Refusals => \A w \in win : now < w.at + Hour
      /\ c \notin Refusals => Cardinality(win) < WindowLimit
  <2>1. CASE c \in Refusals
    <3>1. win = Slide(s.window, Len(s.hist) + 1)
      BY <2>1
    <3>2. QED
      BY <1>2, <2>1, <3>1, SlideCounts DEF WindowCounts
  <2>2. CASE c \notin Refusals
    <3>1. win = s.window
      BY <2>2
    <3>2. IsFiniteSet(win) /\ Cardinality(win) < WindowLimit
      BY <1>2, <3>1 DEF Dated, WindowCounts
    <3>3. \A w \in win : /\ w.n \in DOMAIN h /\ h[w.n].at = w.at
                         /\ h[w.n].category \in Refusals
      BY <1>2, <1>6, <3>1 DEF WindowCounts
    <3>4. \A i \in DOMAIN h :
            h[i].category \in Refusals /\ now < h[i].at + Hour =>
                [n |-> i, at |-> h[i].at] \in win
      BY <1>2, <1>6, <2>2, <3>1 DEF WindowCounts
    <3>5. QED
      BY <2>2, <3>2, <3>3, <3>4
  <2>3. QED
    BY <2>1, <2>2
<1>9. IsFiniteSet(s.window) /\ ~s.limited /\ s.trip <= now /\ s.mail <= s.code
  BY <1>2 DEF Dated
<1>10. /\ t.hist = h /\ t.suspensions = sus
       /\ \/ /\ sus >= SuspensionLimit
             /\ t.tripped /\ t.reason = "suspensions" /\ t.trip = now
             /\ t.mail = s.mail /\ t.code = s.code /\ t.window = s.window
             /\ t.limited = s.limited
          \/ /\ code >= CodeLimit
             /\ t.tripped /\ t.reason = "code" /\ t.trip = now
             /\ t.mail = mail /\ t.code = code /\ t.window = s.window
             /\ t.limited = s.limited
          \/ /\ c \in Refusals /\ Cardinality(win) >= WindowLimit
             /\ t.tripped /\ t.reason = "window" /\ t.trip = now
             /\ t.mail = mail /\ t.code = code /\ t.window = win
             /\ t.limited = s.limited
          \/ /\ ~(sus >= SuspensionLimit) /\ ~(code >= CodeLimit)
             /\ ~(c \in Refusals /\ Cardinality(win) >= WindowLimit)
             /\ t.mail = mail /\ t.code = code /\ t.window = win
             /\ \/ /\ t.tripped /\ t.reason = "rate" /\ t.trip = now
                   /\ t.limited
                \/ /\ t.tripped = s.tripped /\ t.reason = s.reason
                   /\ t.trip = s.trip /\ t.limited = s.limited
  <2>1. ~(Streak(s.mail, c \in MailFailures) >= MailLimit)
    BY <1>5
  <2>2. QED
    BY <2>1, RuleFields
<1> HIDE DEF t, h, r, sus, mail, code, win
<1>11. CASE /\ sus >= SuspensionLimit
            /\ t.tripped /\ t.reason = "suspensions" /\ t.trip = now
            /\ t.mail = s.mail /\ t.code = s.code /\ t.window = s.window
            /\ t.limited = s.limited
  <2>1. sus = SuspensionLimit
    BY <1>3, <1>4, <1>11, Constants
  <2>2. Sound(t)
    BY <1>3, <1>10, <1>11, <2>1 DEF Sound
  <2>3. Dated(t)
    BY <1>7, <1>9, <1>10, <1>11 DEF Dated
  <2>4. QED
    BY <1>1, <2>2, <2>3 DEF Good, t
<1>12. CASE /\ code >= CodeLimit
            /\ t.tripped /\ t.reason = "code" /\ t.trip = now
            /\ t.mail = mail /\ t.code = code /\ t.window = s.window
            /\ t.limited = s.limited
  <2>1. code = CodeLimit
    BY <1>3, <1>4, <1>12, Constants
  <2>2. Sound(t)
    BY <1>3, <1>10, <1>12, <2>1 DEF Sound
  <2>3. Dated(t)
    BY <1>4, <1>7, <1>9, <1>10, <1>12 DEF Dated
  <2>4. QED
    BY <1>1, <2>2, <2>3 DEF Good, t
<1>13. CASE /\ c \in Refusals /\ Cardinality(win) >= WindowLimit
            /\ t.tripped /\ t.reason = "window" /\ t.trip = now
            /\ t.mail = mail /\ t.code = code /\ t.window = win
            /\ t.limited = s.limited
  <2>1. Sound(t)
    BY <1>8, <1>10, <1>13 DEF Sound
  <2>2. Dated(t)
    BY <1>4, <1>7, <1>8, <1>9, <1>10, <1>13 DEF Dated
  <2>3. QED
    BY <1>1, <2>1, <2>2 DEF Good, t
<1>14. CASE /\ ~(sus >= SuspensionLimit) /\ ~(code >= CodeLimit)
            /\ ~(c \in Refusals /\ Cardinality(win) >= WindowLimit)
            /\ t.mail = mail /\ t.code = code /\ t.window = win
            /\ \/ /\ t.tripped /\ t.reason = "rate" /\ t.trip = now
                  /\ t.limited
               \/ /\ t.tripped = s.tripped /\ t.reason = s.reason
                  /\ t.trip = s.trip /\ t.limited = s.limited
  <2>1. ~t.tripped \/ t.reason = "rate"
    BY <1>14
  <2>2. sus < SuspensionLimit /\ code < CodeLimit
    BY <1>3, <1>14, Constants
  <2>3. Counts(t)
    BY <1>3, <1>10, <1>14, <2>2 DEF Counts
  <2>4. Cardinality(win) < WindowLimit
    <3>1. Cardinality(win) \in Nat
      BY <1>8, FS_CardinalityType
    <3>2. QED
      BY <1>8, <1>14, <3>1, Constants
  <2>5. WindowCounts(t)
    BY <1>8, <1>10, <1>14, <2>4 DEF WindowCounts
  <2>6. Dated(t)
    BY <1>4, <1>7, <1>8, <1>9, <1>10, <1>14 DEF Dated
  <2>7. QED
    BY <1>1, <2>1, <2>3, <2>5, <2>6 DEF Good, Sound, t
<1>15. QED
  BY <1>10, <1>11, <1>12, <1>13, <1>14

(* An expired rate limit is cleared: what the breaker counts stays.        *)
LEMMA ClearedGood ==
  ASSUME NEW s \in Breaker, Good(s), Expired(s)
  PROVE  Good(Cleared(s)) /\ ~Cleared(s).tripped /\ s.tripped /\ s.reason = "rate"
<1> DEFINE t == Cleared(s)
<1>1. /\ t \in Breaker /\ ~t.tripped /\ ~t.limited
      /\ t.reason = s.reason /\ t.trip = s.trip /\ t.suspensions = s.suspensions
      /\ t.mail = s.mail /\ t.code = s.code /\ t.window = s.window
      /\ t.hist = s.hist
  BY DEF Cleared, Breaker
<1>2. s.tripped /\ s.reason = "rate" /\ Counts(s) /\ WindowCounts(s) /\ Dated(s)
  BY DEF Good, Sound, Dated, Expired
<1> HIDE DEF t
<1>3. Counts(t)
  BY <1>1, <1>2 DEF Counts
<1>4. WindowCounts(t)
  BY <1>1, <1>2 DEF WindowCounts
<1>5. Dated(t)
  BY <1>1, <1>2 DEF Dated
<1>6. Good(t)
  BY <1>1, <1>3, <1>4, <1>5 DEF Good, Sound
<1>7. QED
  BY <1>1, <1>2, <1>6 DEF t

LEMMA HistType ==
  ASSUME NEW s \in Breaker
  PROVE  \A i \in DOMAIN s.hist : s.hist[i].at \in Nat
<1>1. s.hist \in Seq(Result)
  BY Fields
<1>2. \A i \in DOMAIN s.hist : s.hist[i] \in Result
  BY <1>1
<1>3. QED
  BY <1>2 DEF Result

(* A state that is good stays so as time passes.                           *)
LEMMA TickGood ==
  ASSUME NEW s \in Breaker, Good(s), now \in Nat, now' = now + 1
  PROVE  Good(s)'
<1>1. Dated(s)'
  <2>1. s.trip \in Nat /\ s.trip <= now
    BY Fields DEF Good, Dated
  <2>2. \A i \in DOMAIN s.hist : s.hist[i].at \in Nat /\ s.hist[i].at <= now
    BY HistType DEF Good, Dated
  <2>3. QED
    BY <2>1, <2>2 DEF Good, Dated
<1>2. ASSUME WindowCounts(s) PROVE WindowCounts(s)'
  <2>1. \A i \in DOMAIN s.hist : s.hist[i].at \in Nat
    BY HistType
  <2>2. Hour \in Nat
    BY Constants
  <2>3. \A i \in DOMAIN s.hist :
           now + 1 < s.hist[i].at + Hour => now < s.hist[i].at + Hour
    BY <2>1, <2>2
  <2>4. QED
    BY <1>2, <2>3 DEF WindowCounts
<1>3. Sound(s)'
  BY <1>2 DEF Good, Sound, Counts
<1>4. QED
  BY <1>1, <1>3 DEF Good

-----------------------------------------------------------------------------
(* The inductive invariant, file and copies together.                      *)

GoodInv == /\ now \in Nat /\ pc \in [Procs -> {"down", "gate", "work"}]
           /\ stale \subseteq Procs
           /\ Good(file)
           /\ mem \in [Procs -> Breaker] /\ \A p \in Procs : Good(mem[p])

(* What is proved inductive: it is IInv, regrouped by state.               *)
Ind == GoodInv /\ SeenInv

LEMMA IndIInv == Ind => IInv
  BY DEF Ind, IInv, GoodInv, TypeOK, BreakerCounts, Good

LEMMA InitInd == Init => Ind
<1> SUFFICES ASSUME Init PROVE Ind
  OBVIOUS
<1>1. Good(Fresh) /\ ~Fresh.tripped
  BY FreshGood DEF Init, Good
<1>2. \A p \in Procs : mem[p] = Fresh /\ pc[p] = "down"
  BY DEF Init
<1>3. GoodInv
  BY <1>1, <1>2 DEF Init, GoodInv, Good
<1>4. SeenInv
  BY <1>1, <1>2 DEF Init, SeenInv
<1>5. QED
  BY <1>3, <1>4 DEF Ind

LEMMA TickStep == Ind /\ Tick => Ind'
<1> SUFFICES ASSUME Ind, Tick PROVE Ind'
  OBVIOUS
<1>1. GoodInv /\ SeenInv
  BY DEF Ind
<1>2. /\ now \in Nat /\ now' = now + 1
      /\ file' = file /\ mem' = mem /\ pc' = pc /\ stale' = stale
  BY <1>1 DEF Tick, GoodInv
<1>3. Good(file)'
  BY <1>1, <1>2, TickGood DEF GoodInv, Good, Sound, Counts, WindowCounts, Dated
<1>4. \A p \in Procs : Good(mem[p])'
  BY <1>1, <1>2, TickGood DEF GoodInv, Good, Sound, Counts, WindowCounts, Dated
<1>5. GoodInv'
  BY <1>1, <1>2, <1>3, <1>4 DEF GoodInv
<1>6. SeenInv'
  BY <1>1, <1>2 DEF SeenInv
<1>7. QED
  BY <1>5, <1>6 DEF Ind

(* The other actions leave the clock alone, so that a good state stays so. *)
LEMMA StillGood ==
  ASSUME NEW s \in Breaker, Good(s), now' = now
  PROVE  Good(s)'
  BY DEF Good, Sound, Counts, WindowCounts, Dated

(* What each of them leaves or writes.                                     *)
LEMMA StartStep == ASSUME Ind, NEW p \in Procs, Start(p) PROVE Ind'
<1>1. GoodInv /\ SeenInv
  BY DEF Ind
<1>2. /\ now' = now /\ file' = file /\ stale' = stale \ {p}
      /\ mem' = [mem EXCEPT ![p] = file] /\ pc' = [pc EXCEPT ![p] = "gate"]
  BY DEF Start
<1>3. GoodInv'
  BY <1>1, <1>2, StillGood DEF GoodInv, Good
<1>4. SeenInv'
  BY <1>1, <1>2 DEF SeenInv, GoodInv
<1>5. QED
  BY <1>3, <1>4 DEF Ind

LEMMA EndStep == ASSUME Ind, NEW p \in Procs, End(p) PROVE Ind'
<1>1. GoodInv /\ SeenInv
  BY DEF Ind
<1>2. /\ now' = now /\ file' = file /\ stale' = stale
      /\ mem' = [mem EXCEPT ![p] = Fresh] /\ pc' = [pc EXCEPT ![p] = "down"]
  BY DEF End
<1>3. Good(Fresh)
  BY <1>1, FreshGood DEF Good, GoodInv
<1>4. GoodInv'
  BY <1>1, <1>2, <1>3, StillGood DEF GoodInv, Good
<1>5. SeenInv'
  BY <1>1, <1>2 DEF SeenInv, GoodInv
<1>6. QED
  BY <1>4, <1>5 DEF Ind

LEMMA ResetStep == Ind /\ Reset => Ind'
<1> SUFFICES ASSUME Ind, Reset PROVE Ind'
  OBVIOUS
<1>1. GoodInv /\ SeenInv
  BY DEF Ind
<1>2. now' = now /\ file' = Fresh /\ stale' = stale /\ mem' = mem /\ pc' = pc
  BY DEF Reset
<1>3. Good(Fresh) /\ ~Fresh.tripped
  BY <1>1, FreshGood DEF Good, GoodInv
<1>4. GoodInv'
  BY <1>1, <1>2, <1>3, StillGood DEF GoodInv, Good
<1>5. SeenInv'
  BY <1>1, <1>2, <1>3 DEF SeenInv, GoodInv
<1>6. QED
  BY <1>4, <1>5 DEF Ind

(* An expired copy is cleared in memory and on file; a copy that is not    *)
(* expired goes on to work only if it is not tripped.                      *)
LEMMA GateStep == ASSUME Ind, NEW p \in Procs, Gate(p) PROVE Ind'
<1>1. GoodInv /\ SeenInv /\ Good(mem[p]) /\ mem[p] \in Breaker
  BY DEF Ind, GoodInv
<1>2. /\ now' = now /\ stale' = stale /\ pc[p] = "gate"
      /\ pc' = [pc EXCEPT ![p] = IF mem'[p].tripped THEN "down" ELSE "work"]
  BY DEF Gate
<1>3. CASE Expired(mem[p])
  <2>1. mem' = [mem EXCEPT ![p] = Cleared(@)] /\ file' = mem'[p]
    BY <1>3 DEF Gate
  <2>2. Good(Cleared(mem[p])) /\ ~Cleared(mem[p]).tripped
    BY <1>1, <1>3, ClearedGood
  <2>3. mem'[p] = Cleared(mem[p]) /\ file' = Cleared(mem[p])
    BY <1>1, <2>1 DEF GoodInv
  <2>4. GoodInv'
    BY <1>1, <1>2, <2>1, <2>2, <2>3, StillGood DEF GoodInv, Good
  <2>5. SeenInv'
    BY <1>1, <1>2, <2>1, <2>2, <2>3 DEF SeenInv, GoodInv
  <2>6. QED
    BY <2>4, <2>5 DEF Ind
<1>4. CASE ~Expired(mem[p])
  <2>1. mem' = mem /\ file' = file
    BY <1>4 DEF Gate
  <2>2. GoodInv'
    BY <1>1, <1>2, <2>1, StillGood DEF GoodInv, Good
  <2>3. SeenInv'
    BY <1>1, <1>2, <2>1 DEF SeenInv, GoodInv
  <2>4. QED
    BY <2>2, <2>3 DEF Ind
<1>5. QED
  BY <1>3, <1>4

LEMMA RecordStep == ASSUME Ind, NEW p \in Procs, Record(p) PROVE Ind'
<1>1. GoodInv /\ SeenInv /\ Good(mem[p]) /\ mem[p] \in Breaker /\ now \in Nat
  BY DEF Ind, GoodInv
<1>2. /\ now' = now /\ pc[p] = "work" /\ file' = mem'[p]
      /\ pc' = [pc EXCEPT ![p] = "gate"]
      /\ stale' = IF file'.tripped
                  THEN {q \in Procs : pc[q] # "down"} \ {p} ELSE stale
  BY DEF Record
<1>3. PICK c \in Categories : mem' = [mem EXCEPT ![p] = RecordResult(@, c)]
  BY DEF Record
<1> DEFINE t == RecordResult(mem[p], c)
<1>4. Good(t)
  <2>1. ~mem[p].tripped
    BY <1>1, <1>2 DEF SeenInv
  <2>2. QED
    BY <1>1, <2>1, RecordSound
<1>5. mem'[p] = t /\ file' = t /\ mem' = [mem EXCEPT ![p] = t]
  BY <1>1, <1>2, <1>3 DEF GoodInv
<1> HIDE DEF t
<1>6. GoodInv'
  BY <1>1, <1>2, <1>4, <1>5, StillGood DEF GoodInv, Good
<1>7. SeenInv'
  <2>1. \A q \in Procs : pc'[q] = "work" => ~mem'[q].tripped
    BY <1>1, <1>2, <1>5 DEF SeenInv, GoodInv
  <2>2. ASSUME file'.tripped, NEW q \in Procs, pc'[q] # "down", q \notin stale'
        PROVE  mem'[q] = file'
    BY <1>1, <1>2, <1>5, <2>2 DEF GoodInv
  <2>3. QED
    BY <2>1, <2>2 DEF SeenInv
<1>8. QED
  BY <1>6, <1>7 DEF Ind

LEMMA StepInd == Ind /\ [Next]_vars => Ind'
<1> SUFFICES ASSUME Ind, [Next]_vars PROVE Ind'
  OBVIOUS
<1>1. CASE UNCHANGED vars
  BY <1>1, StillGood DEF vars, Ind, GoodInv, SeenInv, Good
<1>2. CASE Next
  BY <1>2, TickStep, ResetStep, StartStep, GateStep, RecordStep, EndStep DEF Next
<1>3. QED
  BY <1>1, <1>2

(* The invariant holds in every reachable state.                           *)
THEOREM Invariance == Spec => []IInv
<1>1. Spec => []Ind
  BY InitInd, StepInd, PTL DEF Spec
<1>2. QED
  BY <1>1, IndIInv, PTL

(* Whatever the order of results, restarts and saves of other processes,   *)
(* the breaker trips on what record_result (puter_register_v2.py:841)      *)
(* names and on nothing else, for any limits.                              *)
THEOREM BreakerCountsRight == Spec => []BreakerCounts
<1>1. IInv => BreakerCounts
  BY DEF IInv
<1>2. QED
  BY <1>1, Invariance, PTL

(* A trip on file is undone only by the reset command, by the end of a     *)
(* rate limit, or by a process whose copy is older than the trip.          *)
THEOREM TripsKept == Spec => TripKept
<1> DEFINE Kept == file.tripped /\ ~file'.tripped =>
                     \/ file' = Fresh
                     \/ file.reason = "rate" /\ now > file.trip + Day
                     \/ \E p \in stale : file' = mem'[p]
<1>1. ASSUME Ind, [Next]_vars PROVE Kept
  <2> SUFFICES ASSUME file.tripped, ~file'.tripped PROVE Kept
    OBVIOUS
  <2>1. CASE \E p \in Procs : Gate(p)
    <3>1. PICK p \in Procs : Gate(p)
      BY <2>1
    <3>2. file' # file
      OBVIOUS
    <3>3. Expired(mem[p]) /\ file' = mem'[p]
      BY <3>1, <3>2 DEF Gate
    <3>4. CASE p \in stale
      BY <3>3, <3>4
    <3>5. CASE p \notin stale
      <4>1. mem[p] = file
        BY <1>1, <3>1, <3>5 DEF Ind, SeenInv, Gate
      <4>2. file.reason = "rate"
        BY <1>1, <3>3, <4>1 DEF Ind, GoodInv, Good, Dated, Expired
      <4>3. QED
        BY <3>3, <4>1, <4>2 DEF Expired
    <3>6. QED
      BY <3>4, <3>5
  <2>2. CASE \E p \in Procs : Record(p)
    <3>1. PICK p \in Procs : Record(p)
      BY <2>2
    <3>2. file' = mem'[p] /\ pc[p] = "work"
      BY <3>1 DEF Record
    <3>3. p \in stale
      BY <1>1, <3>2 DEF Ind, SeenInv
    <3>4. QED
      BY <3>2, <3>3
  <2>3. CASE Reset
    BY <2>3 DEF Reset
  <2>4. CASE \/ Tick \/ UNCHANGED vars
             \/ \E p \in Procs : Start(p) \/ End(p)
    BY <2>4 DEF Tick, Start, End, vars
  <2>5. QED
    BY <1>1, <2>1, <2>2, <2>3, <2>4 DEF Next
<1>2. Spec => [][Kept]_vars
  <2>1. Spec => []Ind
    BY InitInd, StepInd, PTL DEF Spec
  <2>2. Ind /\ [Next]_vars => [Kept]_vars
    BY <1>1
  <2>3. QED
    BY <2>1, <2>2, PTL DEF Spec
<1>3. QED
  BY <1>2 DEF TripKept

-----------------------------------------------------------------------------
(* The first program: LegacyRegister.                                      *)

(* A step of one batch, which may add to what is at Puter and in the files *)
(* but takes nothing away from the attempts, the tokens and the accounts.  *)
LEMMA LegacyFrame ==
  ASSUME LegacyInv, NEW b \in Batches, NEW q \in Batch,
         batch' = [batch EXCEPT ![b] = q], confirm' = confirm,
         DOMAIN puter \subseteq DOMAIN puter', DOMAIN puter' \subseteq Outlooks,
         UsernamesKept',
         pending' \in Seq(Outlooks),
         \A i \in DOMAIN pending : i \in DOMAIN pending' /\ pending'[i] = pending[i],
         records' \subseteq DOMAIN puter', tokens \subseteq tokens',
         used' \in [Outlooks -> Statuses], StatusInv',
         q.view \subseteq DOMAIN puter',
         q.pc \in Attempting => /\ q.cur \in Outlooks /\ q.name \in DOMAIN pending'
                                /\ pending'[q.name] = q.cur,
         q.pc \in Saving => q.cur \in DOMAIN puter',
         q.pc = "mark" => q.cur \in tokens'
  PROVE  LegacyInv'
<1>1. batch \in [Batches -> Batch]
  BY DEF LegacyInv, LegacyTyped
<1>2. /\ batch' \in [Batches -> Batch]
      /\ batch'[b] = q /\ \A c \in Batches : c # b => batch'[c] = batch[c]
  BY <1>1
<1>3. LegacyTyped'
  BY <1>2 DEF LegacyTyped
<1>4. AttemptInv'
  <2>1. ASSUME NEW c \in Batches, batch'[c].pc \in Attempting
        PROVE  /\ batch'[c].cur \in Outlooks /\ batch'[c].name \in DOMAIN pending'
               /\ pending'[batch'[c].name] = batch'[c].cur
    BY <1>2, <2>1 DEF LegacyInv, AttemptInv
  <2>2. QED
    BY <2>1 DEF AttemptInv
<1>5. SavedInv'
  <2>1. ASSUME NEW c \in Batches
        PROVE  /\ batch'[c].view \subseteq DOMAIN puter'
               /\ batch'[c].pc \in Saving => batch'[c].cur \in DOMAIN puter'
               /\ batch'[c].pc = "mark" => batch'[c].cur \in tokens'
    BY <1>2 DEF LegacyInv, SavedInv
  <2>2. confirm'.view \subseteq DOMAIN puter'
    BY DEF LegacyInv, SavedInv
  <2>3. QED
    BY <2>1, <2>2 DEF SavedInv
<1>6. QED
  BY <1>3, <1>4, <1>5 DEF LegacyInv

(* A step of one batch that writes nothing, and goes on with the attempt   *)
(* it is at, if any.                                                       *)
LEMMA LegacyQuiet ==
  ASSUME LegacyInv, NEW b \in Batches, NEW q \in Batch,
         batch' = [batch EXCEPT ![b] = q], UNCHANGED <<puter, files, confirm>>,
         q.view \subseteq batch[b].view \union records,
         q.pc \in Attempting => /\ batch[b].pc \in Attempting
                                /\ q.cur = batch[b].cur /\ q.name = batch[b].name,
         q.pc \in Saving => batch[b].pc \in Saving, q.pc # "mark"
  PROVE  LegacyInv'
<1>1. UNCHANGED <<puter, pending, records, readable, tokens, used, confirm>>
  BY DEF files
<1>2. UsernamesKept' /\ StatusInv'
  BY <1>1 DEF LegacyInv, UsernamesKept, StatusInv
<1>3. /\ pending' \in Seq(Outlooks) /\ used' \in [Outlooks -> Statuses]
      /\ DOMAIN puter' \subseteq Outlooks
  BY <1>1 DEF LegacyInv, LegacyTyped
<1>4. q.view \subseteq DOMAIN puter /\ records \subseteq DOMAIN puter
  BY DEF LegacyInv, SavedInv
<1>5. q.pc \in Attempting => /\ q.cur \in Outlooks /\ q.name \in DOMAIN pending
                             /\ pending[q.name] = q.cur
  BY DEF LegacyInv, AttemptInv
<1>6. q.pc \in Saving => q.cur \in DOMAIN puter
  BY DEF LegacyInv, SavedInv, Attempting
<1>7. QED
  BY <1>1, <1>2, <1>3, <1>4, <1>5, <1>6, LegacyFrame

LEMMA LegacyStart == \A b \in Batches : LegacyInv /\ StartBatch(b) => LegacyInv'
<1> SUFFICES ASSUME NEW b \in Batches, LegacyInv, StartBatch(b) PROVE LegacyInv'
  OBVIOUS
<1>1. PICK fresh \in SUBSET Outlooks :
         batch' = [batch EXCEPT ![b] =
             [Idle EXCEPT !.pc = "next", !.queue = fresh, !.pass = 1]]
  BY DEF StartBatch
<1>2. PICK q : q = [Idle EXCEPT !.pc = "next", !.queue = fresh, !.pass = 1]
  OBVIOUS
<1>3. q \in Batch /\ q.pc = "next" /\ q.view = {}
  BY <1>2 DEF Idle, Batch
<1>4. QED
  BY <1>1, <1>2, <1>3, LegacyQuiet DEF StartBatch, Attempting, Saving

LEMMA LegacyEnd == \A b \in Batches : LegacyInv /\ EndBatch(b) => LegacyInv'
<1> SUFFICES ASSUME NEW b \in Batches, LegacyInv, EndBatch(b) PROVE LegacyInv'
  OBVIOUS
<1>1. Idle \in Batch /\ Idle.pc = "off" /\ Idle.view = {}
  BY DEF Idle, Batch
<1>2. QED
  BY <1>1, LegacyQuiet DEF EndBatch, Attempting, Saving

(* The attempt is on file under its name before it begins.                 *)
LEMMA LegacyBegin == \A b \in Batches : LegacyInv /\ Begin(b) => LegacyInv'
<1> SUFFICES ASSUME NEW b \in Batches, LegacyInv, Begin(b) PROVE LegacyInv'
  OBVIOUS
<1>1. PICK o \in batch[b].queue :
         /\ pending' = Append(pending, o)
         /\ batch' = [batch EXCEPT ![b] = [batch[b] EXCEPT !.pc = "solve",
               !.queue = @ \ {o}, !.cur = o, !.name = Len(pending')]]
  BY DEF Begin
<1>2. batch \in [Batches -> Batch] /\ pending \in Seq(Outlooks)
  BY DEF LegacyInv, LegacyTyped
<1>3. PICK old \in Batch : old = batch[b]
  BY <1>2
<1>4. o \in Outlooks
  BY <1>1, <1>3 DEF Batch
<1>5. /\ pending' \in Seq(Outlooks) /\ Len(pending') \in DOMAIN pending'
      /\ pending'[Len(pending')] = o
      /\ \A i \in DOMAIN pending : i \in DOMAIN pending' /\ pending'[i] = pending[i]
  BY <1>1, <1>2, <1>4
<1>6. PICK n \in Nat : n = Len(pending')
  BY <1>5
<1>7. PICK q : q = [old EXCEPT !.pc = "solve", !.queue = @ \ {o}, !.cur = o,
                               !.name = n]
  OBVIOUS
<1>8. /\ q \in Batch /\ q.pc = "solve" /\ q.cur = o /\ q.name = n
      /\ q.view = old.view
  BY <1>3, <1>4, <1>7 DEF Batch, Attempting
<1>9. batch' = [batch EXCEPT ![b] = q]
  BY <1>1, <1>2, <1>3, <1>6, <1>7
<1>10. UsernamesKept' /\ StatusInv'
  BY <1>5 DEF Begin, LegacyInv, UsernamesKept, StatusInv
<1>11. /\ q.view \subseteq DOMAIN puter' /\ records' \subseteq DOMAIN puter'
       /\ used' \in [Outlooks -> Statuses] /\ DOMAIN puter' \subseteq Outlooks
  BY <1>3, <1>8 DEF Begin, LegacyInv, SavedInv, LegacyTyped
<1>12. UNCHANGED <<puter, records, tokens, used, confirm>>
  BY DEF Begin
<1>13. QED
  BY <1>4, <1>5, <1>6, <1>8, <1>9, <1>10, <1>11, <1>12, LegacyFrame DEF Saving

LEMMA LegacyRetry == \A b \in Batches : LegacyInv /\ Retry(b) => LegacyInv'
<1> SUFFICES ASSUME NEW b \in Batches, LegacyInv, Retry(b) PROVE LegacyInv'
  OBVIOUS
<1>1. PICK old \in Batch : old = batch[b] /\ old.pc \in Attempting
  BY DEF LegacyInv, LegacyTyped, Retry, Batch
<1>2. old.cur \in Outlooks
  BY <1>1 DEF LegacyInv, AttemptInv
<1>3. PICK q : q = [old EXCEPT !.pc = "next", !.cur = None, !.name = 0,
                               !.view = {}, !.later = @ \union {old.cur}]
  OBVIOUS
<1>4. q \in Batch /\ q.pc = "next" /\ q.view = {}
  BY <1>1, <1>2, <1>3 DEF Batch
<1>5. batch' = [batch EXCEPT ![b] = q]
  BY <1>1, <1>3 DEF Retry, LegacyInv, LegacyTyped
<1>6. QED
  BY <1>4, <1>5, LegacyQuiet DEF Retry, Attempting, Saving

(* From one point of an attempt to the next.                               *)
LEMMA LegacyGo ==
  ASSUME LegacyInv, NEW b \in Batches, batch[b].pc \in Attempting,
         NEW point \in Attempting, Go(b, point)
  PROVE  \E q \in Batch : /\ batch' = [batch EXCEPT ![b] = q]
                          /\ q.pc = point /\ q.cur = batch[b].cur
                          /\ q.name = batch[b].name /\ q.view = batch[b].view
<1>1. PICK old \in Batch : old = batch[b]
  BY DEF LegacyInv, LegacyTyped
<1>2. PICK q : q = [old EXCEPT !.pc = point]
  OBVIOUS
<1>3. q \in Batch /\ q.pc = point
  BY <1>1, <1>2 DEF Batch
<1>4. q.cur = old.cur /\ q.name = old.name /\ q.view = old.view
  BY <1>1, <1>2 DEF Batch
<1>5. batch' = [batch EXCEPT ![b] = q]
  BY <1>1, <1>2 DEF Go, LegacyInv, LegacyTyped
<1>6. QED
  BY <1>1, <1>3, <1>4, <1>5

LEMMA LegacySolved == \A b \in Batches : LegacyInv /\ Solved(b) => LegacyInv'
<1> SUFFICES ASSUME NEW b \in Batches, LegacyInv, Solved(b) PROVE LegacyInv'
  OBVIOUS
<1>1. batch[b].pc \in Attempting /\ "signup" \in Attempting
  BY DEF Solved, At, Attempting
<1>2. PICK q \in Batch : /\ batch' = [batch EXCEPT ![b] = q]
                         /\ q.pc = "signup" /\ q.cur = batch[b].cur
                         /\ q.name = batch[b].name /\ q.view = batch[b].view
  BY <1>1, LegacyGo DEF Solved
<1>3. QED
  BY <1>1, <1>2, LegacyQuiet DEF Solved, Saving

(* The account gets the username that is on file for its outlook.          *)
LEMMA LegacySignup ==
  \A b \in Batches : LegacyInv /\ (Signup(b) \/ SignupUnanswered(b)) => LegacyInv'
<1> SUFFICES ASSUME NEW b \in Batches, LegacyInv, Signup(b) \/ SignupUnanswered(b)
             PROVE  LegacyInv'
  OBVIOUS
<1>1. /\ batch[b].pc = "signup" /\ CreateAccount(b)
      /\ UNCHANGED <<pending, records, readable, tokens, used, confirm>>
  BY DEF Signup, SignupUnanswered, At, files
<1>2. PICK point \in {"read", "lost"} : Go(b, point)
  BY DEF Signup, SignupUnanswered
<1>3. batch[b].pc \in Attempting /\ point \in Attempting /\ point # "mark"
  BY <1>1, <1>2 DEF Attempting, Saving
<1>4. PICK q \in Batch : /\ batch' = [batch EXCEPT ![b] = q]
                         /\ q.pc = point /\ q.cur = batch[b].cur
                         /\ q.name = batch[b].name /\ q.view = batch[b].view
  BY <1>2, <1>3, LegacyGo
<1>5. /\ q.cur \in Outlooks /\ q.name \in DOMAIN pending
      /\ pending[q.name] = q.cur
  BY <1>3, <1>4 DEF LegacyInv, AttemptInv
<1>6. puter' = [o \in DOMAIN puter \union {q.cur} |->
                   IF o = q.cur THEN q.name ELSE puter[o]]
  BY <1>1, <1>4 DEF CreateAccount
<1>7. DOMAIN puter' = DOMAIN puter \union {q.cur}
  BY <1>6
<1>8. UsernamesKept'
  BY <1>1, <1>5, <1>6 DEF LegacyInv, UsernamesKept
<1>9. StatusInv' /\ records' \subseteq DOMAIN puter' /\ q.view \subseteq DOMAIN puter'
  BY <1>1, <1>4, <1>7 DEF LegacyInv, StatusInv, SavedInv
<1>10. /\ pending' \in Seq(Outlooks) /\ used' \in [Outlooks -> Statuses]
       /\ DOMAIN puter' \subseteq Outlooks
  BY <1>1, <1>5, <1>7 DEF LegacyInv, LegacyTyped
<1>11. QED
  BY <1>1, <1>3, <1>4, <1>5, <1>7, <1>8, <1>9, <1>10, LegacyFrame

(* The attempt is over.                                                    *)
LEMMA LegacyLeave ==
  ASSUME LegacyInv, NEW b \in Batches, Leave(b)
  PROVE  \E q \in Batch : /\ batch' = [batch EXCEPT ![b] = q]
                          /\ q.pc = "next" /\ q.view = {}
<1>1. PICK old \in Batch : old = batch[b]
  BY DEF LegacyInv, LegacyTyped
<1>2. PICK q : q = [old EXCEPT !.pc = "next", !.cur = None, !.name = 0, !.view = {}]
  OBVIOUS
<1>3. q \in Batch /\ q.pc = "next" /\ q.view = {}
  BY <1>1, <1>2 DEF Batch
<1>4. batch' = [batch EXCEPT ![b] = q]
  BY <1>1, <1>2 DEF Leave, LegacyInv, LegacyTyped
<1>5. QED
  BY <1>3, <1>4

(* A status that is set: success once the account exists and its token is  *)
(* on file, a duplicate once the account exists.                           *)
LEMMA LegacyMark ==
  ASSUME LegacyInv, NEW b \in Batches, NEW q \in Batch, NEW o, NEW s \in Statuses,
         batch' = [batch EXCEPT ![b] = q], used' = [used EXCEPT ![o] = s],
         UNCHANGED <<puter, pending, records, readable, tokens, confirm>>,
         q.view \subseteq batch[b].view, q.pc \notin Attempting,
         s \in {"success", "email_duplicate"} => o \in DOMAIN puter,
         s = "success" => o \in tokens
  PROVE  LegacyInv'
<1>1. /\ used' \in [Outlooks -> Statuses] /\ pending' \in Seq(Outlooks)
      /\ DOMAIN puter' \subseteq Outlooks
  BY DEF LegacyInv, LegacyTyped
<1>2. UsernamesKept'
  BY DEF LegacyInv, UsernamesKept
<1>3. StatusInv'
  <2>1. used \in [Outlooks -> Statuses]
    BY DEF LegacyInv, LegacyTyped
  <2>2. \A p \in Outlooks : used'[p] = used[p] \/ (p = o /\ used'[p] = s)
    BY <2>1
  <2>3. QED
    BY <2>2 DEF LegacyInv, StatusInv
<1>4. q.view \subseteq DOMAIN puter /\ records \subseteq DOMAIN puter
  BY DEF LegacyInv, SavedInv
<1>5. q.pc \notin Saving /\ q.pc # "mark"
  BY DEF Attempting, Saving
<1>6. QED
  BY <1>1, <1>2, <1>3, <1>4, <1>5, LegacyFrame

LEMMA LegacySkip == \A b \in Batches : LegacyInv /\ Skip(b) => LegacyInv'
<1> SUFFICES ASSUME NEW b \in Batches, LegacyInv, Skip(b) PROVE LegacyInv'
  OBVIOUS
<1>1. PICK kind \in {"email_blacklist", "email_duplicate"} :
         /\ kind = "email_duplicate" => batch[b].cur \in DOMAIN puter
         /\ used' = [used EXCEPT ![batch[b].cur] = kind]
  BY DEF Skip
<1>2. kind \in Statuses /\ kind # "success"
  BY <1>1 DEF Statuses
<1>3. PICK q \in Batch : /\ batch' = [batch EXCEPT ![b] = q]
                         /\ q.pc = "next" /\ q.view = {}
  BY LegacyLeave DEF Skip
<1>4. q.pc \notin Attempting /\ q.view \subseteq batch[b].view
  BY <1>3 DEF Attempting, Saving
<1>5. PICK o : o = batch[b].cur
  OBVIOUS
<1>6. QED
  BY <1>1, <1>2, <1>3, <1>4, <1>5, LegacyMark DEF Skip

LEMMA LegacySuccess == \A b \in Batches : LegacyInv /\ MarkSuccess(b) => LegacyInv'
<1> SUFFICES ASSUME NEW b \in Batches, LegacyInv, MarkSuccess(b) PROVE LegacyInv'
  OBVIOUS
<1>1. batch[b].cur \in DOMAIN puter /\ batch[b].cur \in tokens
  BY DEF MarkSuccess, At, LegacyInv, SavedInv, Saving
<1>2. PICK q \in Batch : /\ batch' = [batch EXCEPT ![b] = q]
                         /\ q.pc = "next" /\ q.view = {}
  BY LegacyLeave DEF MarkSuccess
<1>3. q.pc \notin Attempting /\ q.view \subseteq batch[b].view
  BY <1>2 DEF Attempting, Saving
<1>4. PICK o : o = batch[b].cur
  OBVIOUS
<1>5. "success" \in Statuses
  BY DEF Statuses
<1>6. QED
  BY <1>1, <1>2, <1>3, <1>4, <1>5, LegacyMark DEF MarkSuccess

LEMMA LegacyExhausted == \A b \in Batches : LegacyInv /\ MarkExhausted(b) => LegacyInv'
<1> SUFFICES ASSUME NEW b \in Batches, LegacyInv, MarkExhausted(b) PROVE LegacyInv'
  OBVIOUS
<1>1. PICK o \in batch[b].later :
         /\ used' = [used EXCEPT ![o] = "retry_exhausted"]
         /\ batch' = [batch EXCEPT ![b].later = @ \ {o}]
  BY DEF MarkExhausted
<1>2. PICK old \in Batch : old = batch[b] /\ old.pc = "exhausted"
  BY DEF LegacyInv, LegacyTyped, MarkExhausted, At
<1>3. PICK q : q = [old EXCEPT !.later = @ \ {o}]
  OBVIOUS
<1>4. q \in Batch /\ q.pc = "exhausted" /\ q.view = old.view
  BY <1>2, <1>3 DEF Batch
<1>5. batch' = [batch EXCEPT ![b] = q]
  BY <1>1, <1>2, <1>3 DEF LegacyInv, LegacyTyped
<1>6. "retry_exhausted" \in Statuses /\ q.pc \notin Attempting
  BY <1>4 DEF Statuses, Attempting, Saving
<1>7. QED
  BY <1>1, <1>2, <1>4, <1>5, <1>6, LegacyMark DEF MarkExhausted

LEMMA LegacyReads == \A b \in Batches : LegacyInv /\ ReadRecords(b) => LegacyInv'
<1> SUFFICES ASSUME NEW b \in Batches, LegacyInv, ReadRecords(b) PROVE LegacyInv'
  OBVIOUS
<1>1. batch' = [batch EXCEPT ![b].pc = "truncate", ![b].view = records]
  BY DEF ReadRecords
<1>2. PICK old \in Batch : old = batch[b] /\ old.pc = "read"
  BY DEF LegacyInv, LegacyTyped, ReadRecords, At
<1>3. records \subseteq Outlooks
  BY DEF LegacyInv, SavedInv, LegacyTyped
<1>4. PICK q : q = [old EXCEPT !.pc = "truncate", !.view = records]
  OBVIOUS
<1>5. /\ q \in Batch /\ q.pc = "truncate" /\ q.view = records
      /\ q.cur = old.cur /\ q.name = old.name
  BY <1>2, <1>3, <1>4 DEF Batch, Attempting, Saving
<1>6. batch' = [batch EXCEPT ![b] = q]
  BY <1>1, <1>2, <1>4 DEF LegacyInv, LegacyTyped
<1>7. QED
  BY <1>2, <1>5, <1>6, LegacyQuiet DEF ReadRecords, Attempting, Saving

(* Only accounts that exist are written back.                              *)
LEMMA LegacyWrites == \A b \in Batches : LegacyInv /\ WriteRecords(b) => LegacyInv'
<1> SUFFICES ASSUME NEW b \in Batches, LegacyInv, WriteRecords(b) PROVE LegacyInv'
  OBVIOUS
<1>1. PICK point \in {"fill", "token"} :
         /\ Go(b, point) /\ batch[b].pc \in Saving
         /\ records' \subseteq batch[b].view \union {batch[b].cur}
  BY DEF WriteRecords, At, Saving, Truncate, Fill
<1>2. UNCHANGED <<puter, pending, tokens, used, confirm>>
  BY DEF WriteRecords
<1>3. batch[b].pc \in Attempting /\ point \in Attempting /\ point # "mark"
  BY <1>1 DEF Attempting, Saving
<1>4. PICK q \in Batch : /\ batch' = [batch EXCEPT ![b] = q]
                         /\ q.pc = point /\ q.cur = batch[b].cur
                         /\ q.name = batch[b].name /\ q.view = batch[b].view
  BY <1>1, <1>3, LegacyGo
<1>5. q.cur \in DOMAIN puter /\ q.view \subseteq DOMAIN puter
  BY <1>1, <1>4 DEF LegacyInv, SavedInv
<1>6. /\ q.cur \in Outlooks /\ q.name \in DOMAIN pending
      /\ pending[q.name] = q.cur
  BY <1>3, <1>4 DEF LegacyInv, AttemptInv
<1>7. UsernamesKept' /\ StatusInv'
  BY <1>2 DEF LegacyInv, UsernamesKept, StatusInv
<1>8. /\ pending \in Seq(Outlooks) /\ used \in [Outlooks -> Statuses]
      /\ DOMAIN puter \subseteq Outlooks
  BY DEF LegacyInv, LegacyTyped
<1>9. QED
  BY <1>1, <1>2, <1>3, <1>4, <1>5, <1>6, <1>7, <1>8, LegacyFrame

LEMMA LegacyToken == \A b \in Batches : LegacyInv /\ AppendToken(b) => LegacyInv'
<1> SUFFICES ASSUME NEW b \in Batches, LegacyInv, AppendToken(b) PROVE LegacyInv'
  OBVIOUS
<1>1. /\ batch[b].pc = "token" /\ Go(b, "mark")
      /\ tokens' = tokens \union {batch[b].cur}
      /\ UNCHANGED <<puter, pending, records, readable, used, confirm>>
  BY DEF AppendToken, At
<1>2. /\ batch[b].pc \in Attempting /\ batch[b].pc \in Saving
      /\ "mark" \in Attempting
  BY <1>1 DEF Attempting, Saving
<1>3. PICK q \in Batch : /\ batch' = [batch EXCEPT ![b] = q]
                         /\ q.pc = "mark" /\ q.cur = batch[b].cur
                         /\ q.name = batch[b].name /\ q.view = batch[b].view
  BY <1>1, <1>2, LegacyGo
<1>4. /\ q.cur \in DOMAIN puter /\ q.view \subseteq DOMAIN puter
      /\ records \subseteq DOMAIN puter
  BY <1>2, <1>3 DEF LegacyInv, SavedInv
<1>5. /\ q.cur \in Outlooks /\ q.name \in DOMAIN pending
      /\ pending[q.name] = q.cur
  BY <1>2, <1>3 DEF LegacyInv, AttemptInv
<1>6. UsernamesKept' /\ StatusInv'
  BY <1>1 DEF LegacyInv, UsernamesKept, StatusInv
<1>7. /\ pending \in Seq(Outlooks) /\ used \in [Outlooks -> Statuses]
      /\ DOMAIN puter \subseteq Outlooks
  BY DEF LegacyInv, LegacyTyped
<1>8. QED
  BY <1>1, <1>3, <1>4, <1>5, <1>6, <1>7, LegacyFrame

LEMMA LegacyPass == \A b \in Batches : LegacyInv /\ NextPass(b) => LegacyInv'
<1> SUFFICES ASSUME NEW b \in Batches, LegacyInv, NextPass(b) PROVE LegacyInv'
  OBVIOUS
<1>1. PICK old \in Batch : old = batch[b]
  BY DEF LegacyInv, LegacyTyped
<1>2. PICK q : q = [old EXCEPT
          !.pc = IF old.pass < Passes THEN "next" ELSE "exhausted",
          !.queue = IF old.pass < Passes THEN old.later ELSE {},
          !.later = IF old.pass < Passes THEN {} ELSE old.later,
          !.pass = IF old.pass < Passes THEN old.pass + 1 ELSE old.pass]
  OBVIOUS
<1>3. q \in Batch /\ q.pc \in {"next", "exhausted"} /\ q.view = old.view
  <2>1. CASE old.pass < Passes
    <3>1. old.later \in SUBSET Outlooks /\ old.pass + 1 \in Nat
      BY <1>1 DEF Batch
    <3>2. q = [old EXCEPT !.pc = "next", !.queue = old.later, !.later = {},
                          !.pass = old.pass + 1]
      BY <1>2, <2>1
    <3>3. QED
      BY <1>1, <3>1, <3>2 DEF Batch
  <2>2. CASE ~(old.pass < Passes)
    BY <1>1, <1>2, <2>2 DEF Batch
  <2>3. QED
    BY <2>1, <2>2
<1>4. batch' = [batch EXCEPT ![b] = q]
  <2>1. CASE old.pass < Passes
    BY <1>1, <1>2, <2>1 DEF NextPass, LegacyInv, LegacyTyped, Batch
  <2>2. CASE ~(old.pass < Passes)
    BY <1>1, <1>2, <2>2 DEF NextPass, LegacyInv, LegacyTyped, Batch
  <2>3. QED
    BY <2>1, <2>2
<1>5. QED
  BY <1>1, <1>3, <1>4, LegacyQuiet DEF NextPass, Attempting, Saving

(* The confirmation writes back what it read, all accounts that exist.     *)
LEMMA LegacyConfirm ==
  LegacyInv /\ (ConfirmRead \/ ConfirmWrite \/ ConfirmDies) => LegacyInv'
<1> SUFFICES ASSUME LegacyInv, ConfirmRead \/ ConfirmWrite \/ ConfirmDies PROVE LegacyInv'
  OBVIOUS
<1>1. UNCHANGED <<puter, pending, tokens, used, batch>>
  BY DEF ConfirmRead, ConfirmWrite, ConfirmDies, files
<1>2. ConfirmIdle.view = {}
  BY DEF ConfirmIdle
<1>3. /\ records' \subseteq records \union confirm.view
      /\ confirm'.view \subseteq records \union confirm.view
  <2>1. CASE ConfirmRead
    BY <2>1 DEF ConfirmRead, files
  <2>2. CASE ConfirmWrite
    <3>1. CASE Truncate /\ confirm' = [confirm EXCEPT !.pc = "fill"]
      BY <3>1 DEF Truncate
    <3>2. CASE records' = confirm.view /\ confirm' = ConfirmIdle
      BY <1>2, <3>2
    <3>3. QED
      BY <2>2, <3>1, <3>2 DEF ConfirmWrite, Fill
  <2>3. CASE ConfirmDies
    BY <1>2, <2>3 DEF ConfirmDies, files
  <2>4. QED
    BY <2>1, <2>2, <2>3
<1>4. LegacyTyped' /\ UsernamesKept' /\ AttemptInv' /\ StatusInv'
  BY <1>1 DEF LegacyInv, LegacyTyped, UsernamesKept, AttemptInv, StatusInv
<1>5. SavedInv'
  BY <1>1, <1>3 DEF LegacyInv, SavedInv
<1>6. QED
  BY <1>4, <1>5 DEF LegacyInv

LEMMA InitLegacyInv == LegacyInit => LegacyInv
<1> SUFFICES ASSUME LegacyInit PROVE LegacyInv
  OBVIOUS
<1>1. Idle \in Batch /\ Idle.pc = "off" /\ Idle.view = {}
  BY DEF Idle, Batch
<1>2. LegacyTyped
  BY <1>1 DEF LegacyInit, LegacyTyped, Statuses
<1>3. UsernamesKept /\ StatusInv
  BY DEF LegacyInit, UsernamesKept, StatusInv
<1>4. AttemptInv /\ SavedInv
  BY <1>1 DEF LegacyInit, AttemptInv, SavedInv, Attempting, Saving, ConfirmIdle
<1>5. QED
  BY <1>2, <1>3, <1>4 DEF LegacyInv

LEMMA NextLegacyInv == LegacyInv /\ [LegacyNext]_legacyVars => LegacyInv'
<1> SUFFICES ASSUME LegacyInv, [LegacyNext]_legacyVars PROVE LegacyInv'
  OBVIOUS
<1>1. CASE \E b \in Batches : Step(b)
  BY <1>1, LegacyStart, LegacyBegin, LegacyRetry, LegacySolved, LegacySignup,
     LegacySkip, LegacyReads, LegacyWrites, LegacyToken, LegacySuccess,
     LegacyPass, LegacyExhausted, LegacyEnd DEF Step
<1>2. CASE ConfirmRead \/ ConfirmWrite \/ ConfirmDies
  BY <1>2, LegacyConfirm
<1>3. CASE UNCHANGED legacyVars
  BY <1>3 DEF legacyVars, files, LegacyInv, LegacyTyped, UsernamesKept, AttemptInv, SavedInv,
     StatusInv
<1>4. QED
  BY <1>1, <1>2, <1>3 DEF LegacyNext

(* The inductive invariant of the first program.                           *)
THEOREM LegacyInvariance == LegacySpec => []LegacyInv
  BY InitLegacyInv, NextLegacyInv, PTL DEF LegacySpec

(* No crash loses a username: any account Puter has made for any batch is  *)
(* in pending.jsonl, for its outlook, under its name.                      *)
THEOREM LegacyUsernames == LegacySpec => []UsernamesKept
<1>1. LegacyInv => UsernamesKept
  BY DEF LegacyInv
<1>2. QED
  BY <1>1, LegacyInvariance, PTL

(* An outlook that later batches pass over is refused by Puter or has an   *)
(* account, and its token is on file unless the account was met as a       *)
(* duplicate; whatever is overwritten, by any number of batches.           *)
THEOREM LegacyStranded == LegacySpec => []NoneStranded
<1>1. LegacyInv => NoneStranded
  BY DEF LegacyInv, StatusInv, SavedInv, Excluded, NoneStranded
<1>2. QED
  BY <1>1, LegacyInvariance, PTL
=============================================================================
