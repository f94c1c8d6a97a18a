------------------------ MODULE OllamaAccountsProofs ------------------------
(* Proofs about the Ollama account store, for any number of processes,     *)
(* addresses and keys.                                                     *)
EXTENDS OllamaAccounts, SequenceTheorems, TLAPS

(* Appending to a list keeps its entries and adds one at the end.          *)
LEMMA AppendFacts ==
  ASSUME NEW S, NEW s \in Seq(S), NEW x \in S
  PROVE  /\ Append(s, x) \in Seq(S)
         /\ DOMAIN Append(s, x) = DOMAIN s \union {Len(s) + 1}
         /\ \A i \in DOMAIN s : Append(s, x)[i] = s[i]
         /\ Append(s, x)[Len(s) + 1] = x
         /\ Len(s) + 1 \notin DOMAIN s
  OBVIOUS

(* Replacing one entry of a list keeps the others.                         *)
LEMMA ReplaceFacts ==
  ASSUME NEW S, NEW s \in Seq(S), NEW i \in DOMAIN s, NEW x \in S
  PROVE  /\ [s EXCEPT ![i] = x] \in Seq(S)
         /\ DOMAIN [s EXCEPT ![i] = x] = DOMAIN s
         /\ \A j \in DOMAIN s :
               [s EXCEPT ![i] = x][j] = IF j = i THEN x ELSE s[j]
  BY ExceptSeq, LenProperties

-----------------------------------------------------------------------------
(* Each conjunct of the inductive invariant is preserved by every action.  *)

LEMMA TypeStep == IInv /\ [Next]_vars => TypeOK'
<1> SUFFICES ASSUME IInv, [Next]_vars PROVE TypeOK'
  OBVIOUS
<1> USE DEF IInv, TypeOK, vars, files, locks, world, local, Procs
<1>1. ASSUME NEW p \in Registrars, Signup(p) PROVE TypeOK'
  <2>1. PICK e \in Emails \ issued :
           /\ issued' = issued \union {e}
           /\ \/ \E k \in Scraped[e] :
                    /\ rec' = [rec EXCEPT ![p] =
                           [email |-> e, key |-> k, status |-> "unverified"]]
                    /\ pc' = [pc EXCEPT ![p] = "validate"]
              \/ UNCHANGED <<rec, pc>>
    BY <1>1 DEF Signup
  <2>2. \A k \in Scraped[e] :
           [email |-> e, key |-> k, status |-> "unverified"] \in Account
    BY ScrapedAssumption DEF Account, Status
  <2>3. rec' \in [Procs -> Account \union {None}] /\ pc' \in [Procs -> Points]
    BY <2>1, <2>2 DEF Points
  <2>4. QED
    BY <1>1, <2>1, <2>3 DEF Signup
<1>2. ASSUME NEW p \in Registrars, Validate(p) PROVE TypeOK'
  <2>1. rec[p] \in Account
    BY <1>2 DEF Validate, ProcessInv
  <2>2. PICK ok \in BOOLEAN, drift \in BOOLEAN :
           /\ accepted' = IF ok THEN accepted \union {rec[p].key} ELSE accepted
           /\ rec' = [rec EXCEPT ![p] =
                  IF drift THEN None
                  ELSE Marked(@, IF ok THEN "verified" ELSE "unverified")]
           /\ pc' = [pc EXCEPT ![p] = IF drift THEN "idle" ELSE "accounts"]
    BY <1>2 DEF Validate
  <2>3. \A st \in Status : Marked(rec[p], st) \in Account
    BY <2>1 DEF Account, Marked
  <2>4. rec' \in [Procs -> Account \union {None}]
    BY <2>2, <2>3 DEF Status
  <2>5. accepted' \subseteq Keys
    BY <2>1, <2>2 DEF Account
  <2>6. pc' \in [Procs -> Points]
    BY <2>2 DEF Points
  <2>7. QED
    BY <1>2, <2>4, <2>5, <2>6 DEF Validate
<1>3. ASSUME NEW p \in Registrars, LockAccounts(p) PROVE TypeOK'
  BY <1>3 DEF LockAccounts, Points
<1>4. ASSUME NEW p \in Registrars, AppendAccount(p) PROVE TypeOK'
  <2>1. rec[p] \in Account
    BY <1>4 DEF AppendAccount, ProcessInv
  <2>2. Append(view[p], rec[p]) \in Seq(Account)
    BY <2>1
  <2>3. accounts' \in Seq(Account)
    BY <1>4, <2>2 DEF AppendAccount
  <2>4. rec' \in [Procs -> Account \union {None}] /\ pc' \in [Procs -> Points]
    BY <1>4 DEF AppendAccount, Points
  <2>5. view' \in [Procs -> Seq(Account)]
    BY <1>4 DEF AppendAccount
  <2>6. QED
    BY <1>4, <2>3, <2>4, <2>5 DEF AppendAccount
<1>5. ASSUME NEW p \in Procs, LockKeys(p) PROVE TypeOK'
  BY <1>5 DEF LockKeys, Points
<1>6. ASSUME NEW p \in Procs, AppendKey(p) PROVE TypeOK'
  <2>1. rec[p].key \in Keys
    BY <1>6 DEF AppendKey, ProcessInv, Account
  <2>2. QED
    BY <1>6, <2>1 DEF AppendKey, Points
<1>7. ASSUME NEW p \in Revalidators, Load(p) PROVE TypeOK'
  BY <1>7 DEF Load, Points
<1>8. ASSUME NEW p \in Revalidators, PassOver(p) PROVE TypeOK'
  BY <1>8 DEF PassOver
<1>9. ASSUME NEW p \in Revalidators, Accept(p) PROVE TypeOK'
  <2> DEFINE a == view[p][pos[p]]
             promoted == Marked(a, "verified")
  <2>1. pos[p] \in DOMAIN view[p]
    BY <1>9 DEF Accept, Finished, ProcessInv
  <2>2. a \in Account /\ promoted \in Account
    <3>1. view[p] \in Seq(Account)
      OBVIOUS
    <3>2. a \in Account
      BY <2>1, <3>1
    <3>3. QED
      BY <3>2 DEF Account, Status, Marked
  <2>3. [view[p] EXCEPT ![pos[p]] = promoted] \in Seq(Account)
    BY <2>1, <2>2, ReplaceFacts
  <2>4. view' \in [Procs -> Seq(Account)]
    BY <1>9, <2>3 DEF Accept
  <2>5. rec' = [rec EXCEPT ![p] = promoted] /\ pc' \in [Procs -> Points]
    BY <1>9 DEF Accept, Points
  <2>6. accepted' \subseteq Keys
    BY <1>9, <2>2 DEF Accept, Account
  <2>7. rec' \in [Procs -> Account \union {None}]
    BY <2>2, <2>5
  <2>8. QED
    BY <1>9, <2>4, <2>5, <2>6, <2>7 DEF Accept
<1>10. ASSUME NEW p \in Revalidators, Save(p) PROVE TypeOK'
  BY <1>10 DEF Save, Points
<1>11. ASSUME NEW p \in Revalidators, Finish(p) PROVE TypeOK'
  BY <1>11 DEF Finish, Points
<1>12. ASSUME NEW p \in Procs, Crash(p) PROVE TypeOK'
  <2>1. cutOff' \subseteq Keys
    BY <1>12 DEF Crash, ProcessInv, Account
  <2>2. view' \in [Procs -> Seq(Account)]
    BY <1>12 DEF Crash
  <2>3. QED
    BY <1>12, <2>1, <2>2 DEF Crash, Points
<1>13. CASE UNCHANGED vars
  BY <1>13
<1>14. QED
  BY <1>1, <1>2, <1>3, <1>4, <1>5, <1>6, <1>7, <1>8, <1>9, <1>10, <1>11,
     <1>12, <1>13 DEF Next, Register, Revalidate

LEMMA ProcessStep == IInv /\ [Next]_vars => \A q \in Procs : ProcessInv(q)'
<1> SUFFICES ASSUME IInv, [Next]_vars, NEW q \in Procs PROVE ProcessInv(q)'
  OBVIOUS
<1>0. TypeOK /\ \A p \in Procs : ProcessInv(p)
  BY DEF IInv
<1>a. None \notin Procs
  BY ProcsAssumption
<1>b. Registrars \subseteq Procs /\ Revalidators \subseteq Procs
  BY DEF Procs
<1> USE <1>0, <1>a, <1>b DEF TypeOK, ProcessInv, files, locks, world
<1>1. ASSUME NEW p \in Registrars, Signup(p) PROVE ProcessInv(q)'
  <2>1. PICK e \in Emails \ issued :
           \/ \E k \in Scraped[e] :
                 /\ rec' = [rec EXCEPT ![p] =
                        [email |-> e, key |-> k, status |-> "unverified"]]
                 /\ pc' = [pc EXCEPT ![p] = "validate"]
           \/ UNCHANGED <<rec, pc>>
    BY <1>1 DEF Signup
  <2>2. \A k \in Scraped[e] :
           [email |-> e, key |-> k, status |-> "unverified"] \in Account
    BY ScrapedAssumption DEF Account, Status
  <2>3. QED
    BY <1>1, <2>1, <2>2 DEF Signup
<1>2. ASSUME NEW p \in Registrars, Validate(p) PROVE ProcessInv(q)'
  <2>1. PICK ok \in BOOLEAN, drift \in BOOLEAN :
           /\ accepted' = IF ok THEN accepted \union {rec[p].key} ELSE accepted
           /\ rec' = [rec EXCEPT ![p] =
                  IF drift THEN None
                  ELSE Marked(@, IF ok THEN "verified" ELSE "unverified")]
           /\ pc' = [pc EXCEPT ![p] = IF drift THEN "idle" ELSE "accounts"]
    BY <1>2 DEF Validate
  <2>2. rec[p] \in Account
    BY <1>2 DEF Validate
  <2>3. \A st \in Status : /\ Marked(rec[p], st) \in Account
                           /\ Marked(rec[p], st).status = st
                           /\ Marked(rec[p], st).key = rec[p].key
    BY <2>2 DEF Account, Marked
  <2>4. CASE q = p
    <3>1. CASE drift
      BY <1>2, <2>1, <2>4, <3>1 DEF Validate
    <3>2. CASE ~drift
      <4> DEFINE st == IF ok THEN "verified" ELSE "unverified"
      <4>1. rec'[q] = Marked(rec[p], st) /\ pc'[q] = "accounts" /\ st \in Status
        BY <2>1, <2>4, <3>2 DEF Status
      <4>2. rec'[q] \in Account /\ rec'[q].status = st
        BY <4>1, <2>3
      <4>3. rec'[q].key = rec[p].key
        BY <4>1, <2>3
      <4>4. st = "verified" => rec[p].key \in accepted'
        BY <2>1
      <4>5. QED
        BY <1>2, <4>1, <4>2, <4>3, <4>4 DEF Validate
    <3>3. QED
      BY <3>1, <3>2
  <2>5. CASE q # p
    BY <1>2, <2>1, <2>5 DEF Validate
  <2>6. QED
    BY <2>4, <2>5
<1>3. ASSUME NEW p \in Registrars, LockAccounts(p) PROVE ProcessInv(q)'
  BY <1>3 DEF LockAccounts
<1>4. ASSUME NEW p \in Registrars, AppendAccount(p) PROVE ProcessInv(q)'
  BY <1>4 DEF AppendAccount
<1>5. ASSUME NEW p \in Procs, LockKeys(p) PROVE ProcessInv(q)'
  BY <1>5 DEF LockKeys
<1>6. ASSUME NEW p \in Procs, AppendKey(p) PROVE ProcessInv(q)'
  BY <1>6 DEF AppendKey
<1>7. ASSUME NEW p \in Revalidators, Load(p) PROVE ProcessInv(q)'
  BY <1>7 DEF Load
<1>8. ASSUME NEW p \in Revalidators, PassOver(p) PROVE ProcessInv(q)'
  BY <1>8 DEF PassOver
<1>9. ASSUME NEW p \in Revalidators, Accept(p) PROVE ProcessInv(q)'
  <2> DEFINE a == view[p][pos[p]]
             promoted == Marked(a, "verified")
  <2>1. pos[p] \in DOMAIN view[p]
    BY <1>9 DEF Accept, Finished
  <2>2. a \in Account
    <3>1. view[p] \in Seq(Account)
      OBVIOUS
    <3>2. QED
      BY <2>1, <3>1
  <2>3. /\ promoted \in Account
        /\ promoted.status = "verified"
        /\ promoted.key = a.key
    BY <2>2 DEF Account, Status, Marked
  <2>4. /\ rec' = [rec EXCEPT ![p] = promoted]
        /\ accepted' = accepted \union {a.key}
        /\ pc' = [pc EXCEPT ![p] = "save"]
    BY <1>9 DEF Accept
  <2>5. CASE q = p
    <3>1. rec'[q] = promoted /\ pc'[q] = "save" /\ pos'[q] = pos[p]
      BY <1>9, <2>4, <2>5 DEF Accept
    <3>2. pos[p] >= 1
      BY <1>9 DEF Accept
    <3>3. QED
      BY <2>3, <2>4, <3>1, <3>2
  <2>6. CASE q # p
    <3> HIDE DEF promoted, a
    <3>1. QED
      BY <1>9, <2>4, <2>6 DEF Accept
  <2>7. QED
    BY <2>5, <2>6
<1>10. ASSUME NEW p \in Revalidators, Save(p) PROVE ProcessInv(q)'
  BY <1>10 DEF Save
<1>11. ASSUME NEW p \in Revalidators, Finish(p) PROVE ProcessInv(q)'
  BY <1>11 DEF Finish
<1>12. ASSUME NEW p \in Procs, Crash(p) PROVE ProcessInv(q)'
  BY <1>12 DEF Crash
<1>13. CASE UNCHANGED vars
  BY <1>13 DEF vars, local
<1>14. QED
  BY <1>1, <1>2, <1>3, <1>4, <1>5, <1>6, <1>7, <1>8, <1>9, <1>10, <1>11,
     <1>12, <1>13 DEF Next, Register, Revalidate

LEMMA KeyStep == IInv /\ [Next]_vars => KeyInv'
<1> SUFFICES ASSUME IInv, [Next]_vars PROVE KeyInv'
  OBVIOUS
<1>0. TypeOK /\ KeyInv /\ \A p \in Procs : ProcessInv(p)
  BY DEF IInv
<1>1. accepted \subseteq accepted'
  BY <1>0 DEF Next, Register, Revalidate, Signup, Validate, LockAccounts,
     AppendAccount, LockKeys, AppendKey, Load, PassOver, Accept, Save, Finish,
     Crash, vars, files, locks, world, local
<1>2. CASE apikeys' = apikeys
  BY <1>0, <1>1, <1>2 DEF KeyInv
<1>3. ASSUME NEW p \in Procs, AppendKey(p), ~seen[p] PROVE KeyInv'
  <2> DEFINE k == rec[p].key
  <2>1. k \in Keys /\ k \in accepted /\ \A i \in DOMAIN apikeys : apikeys[i] # k
    BY <1>0, <1>3 DEF AppendKey, ProcessInv, Account
  <2>2. apikeys' = Append(apikeys, k) /\ apikeys \in Seq(Keys)
    BY <1>0, <1>3 DEF AppendKey, TypeOK
  <2>3. /\ DOMAIN apikeys' = DOMAIN apikeys \union {Len(apikeys) + 1}
        /\ \A i \in DOMAIN apikeys : apikeys'[i] = apikeys[i]
        /\ apikeys'[Len(apikeys) + 1] = k
    BY <2>1, <2>2, AppendFacts
  <2> HIDE DEF k
  <2>4. QED
    BY <1>0, <1>1, <2>1, <2>3 DEF KeyInv
<1>4. apikeys' = apikeys \/ \E p \in Procs : AppendKey(p) /\ ~seen[p]
  BY DEF Next, Register, Revalidate, Signup, Validate, LockAccounts,
     AppendAccount, LockKeys, AppendKey, Load, PassOver, Accept, Save, Finish,
     Crash, vars, files, locks, world, local
<1>5. QED
  BY <1>2, <1>3, <1>4

(* Once a key is accounted for it stays so: its publication is completed   *)
(* or cut off by a crash, and published lines are never removed.           *)
LEMMA AccountedForStep ==
  IInv /\ [Next]_vars => \A k \in Keys : AccountedFor(k) => AccountedFor(k)'
<1> SUFFICES ASSUME IInv, [Next]_vars, NEW k \in Keys, AccountedFor(k)
             PROVE  AccountedFor(k)'
  OBVIOUS
<1>0. TypeOK /\ \A p \in Procs : ProcessInv(p)
  BY DEF IInv
<1>1. CASE \E i \in DOMAIN apikeys : apikeys[i] = k
  <2>1. ASSUME NEW p \in Procs, AppendKey(p), ~seen[p] PROVE AccountedFor(k)'
    <3>1. rec[p].key \in Keys /\ apikeys' = Append(apikeys, rec[p].key)
      BY <1>0, <2>1 DEF AppendKey, ProcessInv, Account
    <3>2. QED
      BY <1>0, <1>1, <3>1, AppendFacts DEF AccountedFor, TypeOK
  <2>2. CASE apikeys' = apikeys
    BY <1>1, <2>2 DEF AccountedFor
  <2>3. apikeys' = apikeys \/ \E p \in Procs : AppendKey(p) /\ ~seen[p]
    BY DEF Next, Register, Revalidate, Signup, Validate, LockAccounts,
       AppendAccount, LockKeys, AppendKey, Load, PassOver, Accept, Save,
       Finish, Crash, vars, files, locks, world, local
  <2>4. QED
    BY <2>1, <2>2, <2>3
<1>2. CASE k \in cutOff
  <2>1. cutOff \subseteq cutOff'
    BY DEF Next, Register, Revalidate, Signup, Validate, LockAccounts,
       AppendAccount, LockKeys, AppendKey, Load, PassOver, Accept, Save,
       Finish, Crash, vars, files, locks, world, local
  <2>2. QED
    BY <1>2, <2>1 DEF AccountedFor
<1>3. ASSUME NEW q \in Procs, pc[q] \in {"keys", "addkey"}, rec[q].key = k
      PROVE  AccountedFor(k)'
  <2>1. CASE pc'[q] \in {"keys", "addkey"} /\ rec'[q] = rec[q]
    BY <1>3, <2>1 DEF AccountedFor
  <2>2. CASE AppendKey(q)
    <3>1. CASE seen[q]
      <4>1. \E i \in DOMAIN apikeys : apikeys[i] = k
        BY <1>0, <1>3, <2>2, <3>1 DEF AppendKey, ProcessInv
      <4>2. apikeys' = apikeys
        BY <2>2, <3>1 DEF AppendKey
      <4>3. QED
        BY <4>1, <4>2 DEF AccountedFor
    <3>2. CASE ~seen[q]
      <4>1. apikeys' = Append(apikeys, k)
        BY <1>3, <2>2, <3>2 DEF AppendKey
      <4>2. QED
        BY <1>0, <4>1, AppendFacts DEF AccountedFor, TypeOK
    <3>3. QED
      BY <3>1, <3>2
  <2>3. CASE Crash(q)
    BY <1>3, <2>3 DEF Crash, AccountedFor
  <2>4. \/ pc'[q] \in {"keys", "addkey"} /\ rec'[q] = rec[q]
        \/ AppendKey(q) \/ Crash(q)
    <3>1. ASSUME NEW p \in Procs, p # q,
                 \/ p \in Registrars /\ Register(p)
                 \/ p \in Revalidators /\ Revalidate(p)
                 \/ LockKeys(p) \/ AppendKey(p) \/ Crash(p)
          PROVE  pc'[q] = pc[q] /\ rec'[q] = rec[q]
      BY <1>0, <3>1 DEF TypeOK, Register, Revalidate, Signup, Validate,
         LockAccounts, AppendAccount, LockKeys, AppendKey, Load, PassOver,
         Accept, Save, Finish, Crash
    <3>2. CASE LockKeys(q)
      BY <1>0, <3>2 DEF LockKeys, TypeOK
    <3>3. ~ Register(q) /\ ~ Revalidate(q)
      BY <1>3 DEF Register, Revalidate, Signup, Validate, LockAccounts,
         AppendAccount, Load, PassOver, Accept, Save, Finish
    <3>4. CASE UNCHANGED vars
      BY <1>3, <3>4 DEF vars, local
    <3>5. QED
      BY <1>3, <3>1, <3>2, <3>3, <3>4 DEF Next, Procs
  <2>5. QED
    BY <2>1, <2>2, <2>3, <2>4
<1>4. QED
  BY <1>1, <1>2, <1>3 DEF AccountedFor

LEMMA ListStep == IInv /\ [Next]_vars => ListInv'
<1> SUFFICES ASSUME IInv, [Next]_vars PROVE ListInv'
  OBVIOUS
<1>0. TypeOK /\ ListInv /\ \A p \in Procs : ProcessInv(p)
  BY DEF IInv
<1>a. accepted \subseteq accepted'
  BY <1>0 DEF Next, Register, Revalidate, Signup, Validate, LockAccounts,
     AppendAccount, LockKeys, AppendKey, Load, PassOver, Accept, Save, Finish,
     Crash, vars, files, locks, world, local
<1>b. \A k \in Keys : AccountedFor(k) => AccountedFor(k)'
  BY AccountedForStep
<1>c. /\ \A i \in DOMAIN accounts : accounts[i] \in Account
      /\ \A q \in Procs : \A i \in DOMAIN view[q] : view[q][i] \in Account
  BY <1>0 DEF TypeOK
<1>d. Registrars \subseteq Procs /\ Revalidators \subseteq Procs
  BY DEF Procs
<1> DEFINE Sound(list) ==
             \A i \in DOMAIN list : list[i].status = "verified" =>
                 list[i].key \in accepted /\ AccountedFor(list[i].key)
           Held(q) ==
             \A i \in DOMAIN view[q] : view[q][i].status = "verified" =>
                 /\ view[q][i].key \in accepted
                 /\ \/ AccountedFor(view[q][i].key)
                    \/ pc[q] = "save" /\ rec[q].key = view[q][i].key
           File == Distinct(accounts) /\ Sound(accounts)
           Hands(q) == Distinct(view[q]) /\ Held(q)
<1>e. File /\ \A q \in Procs : Hands(q)
  BY <1>0 DEF ListInv
<1>f. SUFFICES File' /\ \A q \in Procs : Hands(q)'
  BY DEF ListInv
(* Whatever the step, a list that does not change stays sound.             *)
<1>g. ASSUME accounts' = accounts PROVE File'
  <2>1. \A i \in DOMAIN accounts : accounts[i].key \in Keys
    BY <1>c DEF Account
  <2>2. QED
    BY <1>a, <1>b, <1>e, <1>g, <2>1 DEF Distinct
<1>h. ASSUME NEW q \in Procs, view'[q] = view[q],
             pc[q] = "save" => pc'[q] = "save" /\ rec'[q] = rec[q]
      PROVE  Hands(q)'
  <2>1. \A i \in DOMAIN view[q] : view[q][i].key \in Keys
    BY <1>c DEF Account
  <2>2. QED
    BY <1>a, <1>b, <1>e, <1>h, <2>1 DEF Distinct
<1>i. ASSUME NEW q \in Procs, view'[q] = << >> PROVE Hands(q)'
  BY <1>i DEF Distinct
<1>j. ASSUME NEW q \in Procs, accounts' = accounts, view'[q] = accounts
      PROVE  Hands(q)'
  BY <1>g, <1>j DEF Distinct
(* Another process's step leaves one's list alone.                         *)
<1>k. ASSUME NEW p \in Procs, NEW q \in Procs, q # p,
             \E r \in {p} : \/ r \in Registrars /\ Register(r)
                            \/ r \in Revalidators /\ Revalidate(r)
                            \/ LockKeys(r) \/ AppendKey(r) \/ Crash(r)
      PROVE  Hands(q)'
  <2>1. view'[q] = view[q] /\ pc'[q] = pc[q] /\ rec'[q] = rec[q]
    BY <1>0, <1>k DEF TypeOK, Register, Revalidate, Signup, Validate,
       LockAccounts, AppendAccount, LockKeys, AppendKey, Load, PassOver,
       Accept, Save, Finish, Crash, files, locks, world
  <2>2. QED
    BY <1>h, <2>1
<1> HIDE DEF File, Hands
<1>1. ASSUME NEW p \in Registrars, Signup(p) \/ Validate(p)
      PROVE  File' /\ Hands(p)'
  BY <1>d, <1>1, <1>g, <1>h DEF Signup, Validate, files
<1>2. ASSUME NEW p \in Registrars, LockAccounts(p) PROVE File' /\ Hands(p)'
  BY <1>0, <1>d, <1>2, <1>g, <1>j DEF LockAccounts, files, TypeOK
<1>3. ASSUME NEW p \in Registrars, AppendAccount(p) PROVE File' /\ Hands(p)'
  <2>1. Hands(p)'
    BY <1>0, <1>d, <1>3, <1>i DEF AppendAccount, TypeOK
  <2>2. CASE Known(view[p], rec[p])
    BY <1>3, <1>g, <2>1, <2>2 DEF AppendAccount
  <2>3. CASE ~Known(view[p], rec[p])
    <3>0. PICK new \in Account : new = rec[p]
      BY <1>0, <1>d, <1>3 DEF AppendAccount, ProcessInv
    <3>1. view[p] = accounts /\ accounts \in Seq(Account)
      BY <1>0, <1>d, <1>3 DEF AppendAccount, ProcessInv, TypeOK
    <3>2. accounts' = Append(accounts, new)
      BY <1>3, <2>3, <3>0, <3>1 DEF AppendAccount
    <3>3. /\ DOMAIN accounts' = DOMAIN accounts \union {Len(accounts) + 1}
          /\ \A i \in DOMAIN accounts : accounts'[i] = accounts[i]
          /\ accounts'[Len(accounts) + 1] = new
      BY <3>1, <3>2, AppendFacts
    <3>4. \A i \in DOMAIN accounts :
             accounts[i].key # new.key /\ accounts[i].email # new.email
      BY <2>3, <3>0, <3>1 DEF Known
    <3>5. new.status = "verified" =>
             new.key \in accepted' /\ AccountedFor(new.key)'
      <4>1. new.status = "verified" => new.key \in accepted
        BY <1>0, <1>d, <1>3, <3>0 DEF AppendAccount, ProcessInv
      <4>2. new.status = "verified" => pc'[p] = "keys" /\ rec'[p] = new
        BY <1>0, <1>d, <1>3, <3>0 DEF AppendAccount, TypeOK
      <4>3. QED
        BY <1>a, <1>d, <4>1, <4>2 DEF AccountedFor
    <3>6. \A i \in DOMAIN accounts : accounts[i].key \in Keys
      BY <1>c DEF Account
    <3>7. Distinct(accounts')
      BY <1>e, <3>3, <3>4 DEF Distinct, File
    <3>8. Sound(accounts)'
      BY <1>a, <1>b, <1>e, <3>3, <3>5, <3>6 DEF File
    <3>9. QED
      BY <2>1, <3>7, <3>8 DEF File
  <2>4. QED
    BY <2>2, <2>3
<1>4. ASSUME NEW p \in Procs, LockKeys(p) \/ AppendKey(p)
      PROVE  File' /\ Hands(p)'
  BY <1>4, <1>g, <1>h DEF LockKeys, AppendKey, files
<1>5. ASSUME NEW p \in Revalidators, Load(p) PROVE File' /\ Hands(p)'
  BY <1>0, <1>d, <1>5, <1>g, <1>j DEF Load, files, TypeOK
<1>6. ASSUME NEW p \in Revalidators, PassOver(p) PROVE File' /\ Hands(p)'
  BY <1>d, <1>6, <1>g, <1>h DEF PassOver, files
<1>7. ASSUME NEW p \in Revalidators, Accept(p) PROVE File' /\ Hands(p)'
  <2> DEFINE n == pos[p]
             a == view[p][n]
             promoted == Marked(a, "verified")
  <2>1. n \in DOMAIN view[p] /\ view[p] \in Seq(Account)
    BY <1>0, <1>d, <1>7 DEF Accept, Finished, ProcessInv, TypeOK
  <2>2. a \in Account
    BY <2>1
  <2>3. /\ promoted \in Account
        /\ promoted.status = "verified"
        /\ promoted.key = a.key
        /\ promoted.email = a.email
    BY <2>2 DEF Account, Status, Marked
  <2>4. /\ rec' = [rec EXCEPT ![p] = promoted]
        /\ accepted' = accepted \union {a.key}
        /\ pc' = [pc EXCEPT ![p] = "save"]
        /\ view' = [view EXCEPT ![p] = [@ EXCEPT ![n] = promoted]]
        /\ accounts' = accounts
        /\ pc[p] = "scan"
    BY <1>7 DEF Accept, files
  <2>5. /\ rec'[p] = promoted
        /\ pc'[p] = "save"
        /\ view'[p] = [view[p] EXCEPT ![n] = promoted]
    BY <1>0, <1>d, <2>4 DEF TypeOK
  <2> HIDE DEF promoted, a, n
  <2>6. /\ DOMAIN view'[p] = DOMAIN view[p]
        /\ \A i \in DOMAIN view[p] :
              view'[p][i] = IF i = n THEN promoted ELSE view[p][i]
    BY <2>1, <2>3, <2>5, ReplaceFacts
  <2>7. view[p][n] = a
    BY DEF a
  <2>8. \A i \in DOMAIN view[p] : view[p][i].key \in Keys
    BY <1>c, <1>d DEF Account
  <2>9. Distinct(view[p]) /\ Held(p)
    BY <1>d, <1>e DEF Hands
  <2>10. Distinct(view'[p])
    BY <2>3, <2>6, <2>7, <2>9 DEF Distinct
  <2>11. Held(p)'
    BY <1>b, <2>3, <2>4, <2>5, <2>6, <2>8, <2>9
  <2>12. QED
    BY <1>g, <2>4, <2>10, <2>11 DEF Hands
<1>8. ASSUME NEW p \in Revalidators, Save(p) PROVE File' /\ Hands(p)'
  <2>1. accounts' = view[p] /\ view' = view /\ accepted' = accepted
    BY <1>8 DEF Save, world
  <2>2. pc'[p] = "keys" /\ rec'[p] = rec[p]
    BY <1>0, <1>d, <1>8 DEF Save, TypeOK
  <2>3. \A k \in Keys : k = rec[p].key => AccountedFor(k)'
    BY <1>d, <2>2 DEF AccountedFor
  <2>4. \A i \in DOMAIN view[p] : view[p][i].key \in Keys
    BY <1>c, <1>d DEF Account
  <2>5. Distinct(view[p]) /\ Held(p)
    BY <1>d, <1>e DEF Hands
  <2>6. \A i \in DOMAIN view[p] : view[p][i].status = "verified" =>
           \A k \in Keys : k = view[p][i].key =>
               k \in accepted /\ AccountedFor(k)'
    BY <1>b, <2>3, <2>4, <2>5
  <2>7. Distinct(accounts') /\ Sound(accounts)'
    BY <2>1, <2>4, <2>5, <2>6
  <2>8. Distinct(view'[p]) /\ Held(p)'
    BY <2>1, <2>4, <2>5, <2>6
  <2>9. QED
    BY <2>7, <2>8 DEF File, Hands
<1>9. ASSUME NEW p \in Revalidators, Finish(p) PROVE File' /\ Hands(p)'
  BY <1>0, <1>d, <1>9, <1>g, <1>i DEF Finish, files, TypeOK
<1>10. ASSUME NEW p \in Procs, Crash(p) PROVE File' /\ Hands(p)'
  BY <1>0, <1>10, <1>g, <1>i DEF Crash, files, TypeOK
<1>11. CASE UNCHANGED vars
  BY <1>11, <1>g, <1>h DEF vars, files, local
<1>12. QED
  BY <1>d, <1>k, <1>1, <1>2, <1>3, <1>4, <1>5, <1>6, <1>7, <1>8, <1>9, <1>10,
     <1>11 DEF Next, Register, Revalidate

-----------------------------------------------------------------------------
(* The inductive invariant and what follows from it.                       *)

LEMMA InitIInv == Init => IInv
  BY DEF Init, IInv, TypeOK, ProcessInv, ListInv, KeyInv, Distinct, Points

LEMMA NextIInv == IInv /\ [Next]_vars => IInv'
  BY TypeStep, ProcessStep, ListStep, KeyStep DEF IInv

(* In every reachable state the files hold lists of accounts and keys, a   *)
(* lock is held by one process at most, and what a process carries is what *)
(* its control point says, whatever the number of processes.               *)
THEOREM Invariance == Spec => []IInv
  BY InitIInv, NextIInv, PTL DEF Spec

(* The store's variables keep their types.                                 *)
THEOREM TypeCorrect == Spec => []TypeOK
<1>1. IInv => TypeOK
  BY DEF IInv
<1>2. QED
  BY <1>1, Invariance, PTL

(* No interleaving of registrations and revalidations, and no crash,       *)
(* leaves two records of one address or key, or a repeated line.           *)
THEOREM DuplicateFree == Spec => []NoDuplicates
<1>1. IInv => NoDuplicates
  BY DEF IInv, ListInv, KeyInv, NoDuplicates
<1>2. QED
  BY <1>1, Invariance, PTL

(* Nothing is published or marked verified that the endpoint has not       *)
(* accepted.                                                               *)
THEOREM PublishedWereAccepted == Spec => []OnlyAcceptedKeys
<1>1. IInv => OnlyAcceptedKeys
  BY DEF IInv, ListInv, KeyInv, OnlyAcceptedKeys
<1>2. QED
  BY <1>1, Invariance, PTL

(* Only a crash between the two writes separates a verified account from   *)
(* its published key.                                                      *)
THEOREM VerifiedArePublished == Spec => []VerifiedKeysPublished
<1>1. IInv => VerifiedKeysPublished
  BY DEF IInv, ListInv, VerifiedKeysPublished, AccountedFor
<1>2. QED
  BY <1>1, Invariance, PTL

(* No step but a revalidation's write drops an account: a registration     *)
(* still holds the lock under which it read the list.                      *)
THEOREM RegistrationsLoseNothing == Spec => RegistrationsKeepAccounts
<1> DEFINE Kept == \A i \in DOMAIN accounts : \E j \in DOMAIN accounts' :
                       accounts'[j].email = accounts[i].email
<1>1. IInv /\ [Next]_vars => [~WroteBack => Kept]_vars
  <2> SUFFICES ASSUME IInv, Next, ~WroteBack PROVE Kept
    OBVIOUS
  <2>1. CASE accounts' = accounts
    BY <2>1
  <2>2. ASSUME NEW p \in Registrars, AppendAccount(p) PROVE Kept
    <3>1. view[p] = accounts /\ accounts \in Seq(Account) /\ rec[p] \in Account
      BY <2>2 DEF IInv, TypeOK, ProcessInv, AppendAccount, Procs
    <3>2. accounts' = accounts \/ accounts' = Append(accounts, rec[p])
      BY <2>2, <3>1 DEF AppendAccount
    <3>3. QED
      BY <3>1, <3>2, AppendFacts
  <2>3. ASSUME NEW p \in Revalidators, Save(p) PROVE Kept
    <3>1. pc \in [Procs -> Points] /\ p \in Procs
      BY DEF IInv, TypeOK, Procs
    <3>2. pc[p] = "save" /\ pc'[p] = "keys"
      BY <2>3, <3>1 DEF Save
    <3>3. QED
      BY <3>2 DEF WroteBack
  <2>4. \/ accounts' = accounts
        \/ \E p \in Registrars : AppendAccount(p)
        \/ \E p \in Revalidators : Save(p)
    BY DEF Next, Register, Revalidate, Signup, Validate, LockAccounts,
       LockKeys, AppendKey, Crash, Load, PassOver, Accept, Finish, files
  <2>5. QED
    BY <2>1, <2>2, <2>3, <2>4
<1>2. QED
  BY <1>1, Invariance, PTL DEF Spec, RegistrationsKeepAccounts

-----------------------------------------------------------------------------
(* One revalidation at a time.                                             *)

OneRevalidation == \A p, q \in Revalidators : p = q

(* Apart from a registration and from what a revalidation saves, the file  *)
(* stays as it is.                                                         *)
LEMMA WhoWrites ==
  ASSUME [Next]_vars
  PROVE  \/ accounts' = accounts
         \/ \E p \in Registrars : AppendAccount(p)
         \/ \E p \in Revalidators : Save(p)
  BY DEF Next, Register, Revalidate, Signup, Validate, LockAccounts,
     LockKeys, AppendKey, Crash, Load, PassOver, Accept, Finish, files, vars

(* A registration leaves the file alone or adds an account at its end      *)
(* whose address is new.                                                   *)
LEMMA AppendedIsNew ==
  ASSUME IInv, NEW p \in Registrars, AppendAccount(p)
  PROVE  \/ accounts' = accounts
         \/ /\ accounts \in Seq(Account)
            /\ DOMAIN accounts' = DOMAIN accounts \union {Len(accounts) + 1}
            /\ \A i \in DOMAIN accounts : accounts'[i] = accounts[i]
            /\ \A i \in DOMAIN accounts :
                  accounts[i].email # accounts'[Len(accounts) + 1].email
<1>1. view[p] = accounts /\ accounts \in Seq(Account) /\ rec[p] \in Account
  BY DEF IInv, TypeOK, ProcessInv, AppendAccount, Procs
<1>2. CASE Known(view[p], rec[p])
  BY <1>2 DEF AppendAccount
<1>3. CASE ~Known(view[p], rec[p])
  <2>1. accounts' = Append(accounts, rec[p])
    BY <1>1, <1>3 DEF AppendAccount
  <2>2. \A i \in DOMAIN accounts : accounts[i].email # rec[p].email
    BY <1>1, <1>3 DEF Known
  <2>3. QED
    BY <1>1, <2>1, <2>2, AppendFacts
<1>4. QED
  BY <1>2, <1>3

(* What a step may do to the copy of a revalidation.                       *)
LEMMA CopyChanges ==
  ASSUME IInv, [Next]_vars, OneRevalidation, NEW p \in Revalidators
  PROVE  \/ view'[p] = view[p]
         \/ view'[p] = << >>
         \/ Load(p)
         \/ Accept(p)
<1>0. TypeOK /\ p \in Procs /\ p \notin Registrars
  BY ProcsAssumption DEF IInv, Procs
<1>1. ASSUME NEW q \in Registrars, Register(q) \/ LockKeys(q) \/ AppendKey(q) \/ Crash(q)
      PROVE  view'[p] = view[p]
  <2>1. q # p
    BY <1>0
  <2>2. QED
    BY <1>0, <1>1, <2>1 DEF TypeOK, Register, Signup, Validate, LockAccounts,
       AppendAccount, LockKeys, AppendKey, Crash
<1>2. CASE LockKeys(p) \/ AppendKey(p) \/ PassOver(p) \/ Save(p)
  BY <1>2 DEF LockKeys, AppendKey, PassOver, Save
<1>3. CASE Finish(p) \/ Crash(p)
  BY <1>0, <1>3 DEF Finish, Crash, TypeOK
<1>4. CASE UNCHANGED vars
  BY <1>4 DEF vars, local
<1>5. QED
  BY <1>1, <1>2, <1>3, <1>4 DEF Next, Revalidate, Procs, OneRevalidation

LEMMA CopyStep ==
  ASSUME IInv, CopyInv, [Next]_vars, OneRevalidation PROVE CopyInv'
<1> DEFINE Current(file, copy) ==
             \A j \in DOMAIN copy :
                 /\ \E i \in DOMAIN file : file[i].email = copy[j].email
                 /\ \A i \in DOMAIN file :
                       file[i].email = copy[j].email /\ file[i].status = "verified"
                          => copy[j].status = "verified"
<1> SUFFICES ASSUME NEW p \in Revalidators PROVE Current(accounts', view'[p])
  BY DEF CopyInv
<1>0. /\ Current(accounts, view[p]) /\ Distinct(accounts) /\ Distinct(view[p])
      /\ p \in Procs /\ view \in [Procs -> Seq(Account)]
      /\ accounts \in Seq(Account) /\ ProcessInv(p)
  BY DEF CopyInv, IInv, ListInv, TypeOK, Procs
<1>1. CASE view'[p] = << >>
  BY <1>1
<1>2. CASE Load(p)
  <2>1. accounts' = accounts /\ view'[p] = accounts
    BY <1>0, <1>2 DEF Load, files
  <2>2. QED
    BY <1>0, <2>1 DEF Distinct
<1>3. CASE Accept(p)
  <2> DEFINE n == pos[p]
             promoted == Marked(view[p][n], "verified")
  <2>1. n \in DOMAIN view[p] /\ view[p] \in Seq(Account)
    <3>1. pos[p] \in Nat /\ pos[p] >= 1 /\ ~(pos[p] > Len(view[p]))
      BY <1>0, <1>3 DEF Accept, Finished, ProcessInv, IInv, TypeOK
    <3>2. view[p] \in Seq(Account)
      BY <1>0
    <3>3. QED
      BY <3>1, <3>2
  <2>2. view[p][n] \in Account
    BY <2>1
  <2>3. /\ promoted \in Account
        /\ promoted.status = "verified"
        /\ promoted.email = view[p][n].email
    BY <2>2 DEF Account, Status, Marked
  <2>4. accounts' = accounts /\ view'[p] = [view[p] EXCEPT ![n] = promoted]
    BY <1>0, <1>3 DEF Accept, files
  <2> HIDE DEF promoted, n
  <2>5. /\ DOMAIN view'[p] = DOMAIN view[p]
        /\ \A j \in DOMAIN view[p] :
              view'[p][j] = IF j = n THEN promoted ELSE view[p][j]
    BY <2>1, <2>3, <2>4, ReplaceFacts
  <2>6. ASSUME NEW j \in DOMAIN view[p]
        PROVE  /\ view'[p][j].email = view[p][j].email
               /\ view[p][j].status = "verified" => view'[p][j].status = "verified"
    BY <2>3, <2>5
  <2>7. QED
    BY <1>0, <2>4, <2>5, <2>6
<1>4. CASE view'[p] = view[p]
  <2>1. CASE accounts' = accounts
    BY <1>0, <1>4, <2>1
  <2>2. ASSUME NEW q \in Registrars, AppendAccount(q)
        PROVE  Current(accounts', view'[p])
    <3>1. CASE accounts' = accounts
      BY <1>0, <1>4, <3>1
    <3>2. CASE accounts' # accounts
      <4>1. /\ DOMAIN accounts' = DOMAIN accounts \union {Len(accounts) + 1}
            /\ \A i \in DOMAIN accounts : accounts'[i] = accounts[i]
            /\ \A i \in DOMAIN accounts :
                  accounts[i].email # accounts'[Len(accounts) + 1].email
        BY <2>2, <3>2, AppendedIsNew
      <4>2. QED
        BY <1>0, <1>4, <4>1
    <3>3. QED
      BY <3>1, <3>2
  <2>3. ASSUME NEW q \in Revalidators, Save(q)
        PROVE  Current(accounts', view'[p])
    <3>1. accounts' = view[p]
      BY <2>3 DEF Save, OneRevalidation
    <3>2. QED
      BY <1>0, <1>4, <3>1 DEF Distinct
  <2>4. QED
    BY <2>1, <2>2, <2>3, WhoWrites
<1>5. QED
  BY <1>1, <1>2, <1>3, <1>4, CopyChanges

(* A single revalidation demotes nothing, whatever registrations run       *)
(* beside it: every verified account of the file is verified in its copy,  *)
(* also if it was registered after the copy was made.                      *)
THEOREM NothingDemoted == OneRevalidation => (Spec => NoDemotion)
<1> SUFFICES ASSUME OneRevalidation PROVE Spec => NoDemotion
  OBVIOUS
<1> DEFINE Kept == \A i \in DOMAIN accounts, j \in DOMAIN accounts' :
                      /\ accounts[i].email = accounts'[j].email
                      /\ accounts[i].status = "verified"
                      => accounts'[j].status = "verified"
<1>1. Init => CopyInv
  BY DEF Init, CopyInv, Procs
<1>2. IInv /\ CopyInv /\ [Next]_vars => CopyInv'
  BY CopyStep
<1>3. IInv /\ CopyInv /\ [Next]_vars => [Kept]_vars
  <2> SUFFICES ASSUME IInv, CopyInv, Next PROVE Kept
    OBVIOUS
  <2>1. Distinct(accounts)
    BY DEF IInv, ListInv
  <2>2. CASE accounts' = accounts
    BY <2>1, <2>2 DEF Distinct
  <2>3. ASSUME NEW p \in Registrars, AppendAccount(p), accounts' # accounts PROVE Kept
    BY <2>1, <2>3, AppendedIsNew DEF Distinct
  <2>4. ASSUME NEW p \in Revalidators, Save(p) PROVE Kept
    BY <2>4 DEF Save, CopyInv
  <2>5. QED
    BY <2>2, <2>3, <2>4, WhoWrites
<1>4. QED
  BY <1>1, <1>2, <1>3, InitIInv, NextIInv, PTL DEF Spec, NoDemotion
=============================================================================
