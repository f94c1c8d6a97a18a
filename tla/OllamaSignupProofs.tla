------------------------- MODULE OllamaSignupProofs -------------------------
(* Proofs about the sign-up, for any number of activations, tries and exit *)
(* addresses.                                                              *)
EXTENDS OllamaSignup, TLAPS

-----------------------------------------------------------------------------

(* The constants in the form the leaves below use.                         *)
LEMMA Constants ==
  /\ Retries \in Nat /\ Retries > 0
  /\ SubmitTries \in Nat /\ SubmitTries > 0
  /\ None \notin Activations
BY TriesAssumption, NoneAssumption

LEMMA InitInv == Init => IInv
<1> SUFFICES ASSUME Init PROVE IInv
  OBVIOUS
<1>a. tries \in Nat /\ (tries < Retries \/ tries < SubmitTries) /\ bought \in Nat
  BY Constants DEF Init
<1>b. exit \in Exits /\ ipPre \in Exits
  BY DEF Init
<1>c. pc \in Points /\ page \in Stages
  BY DEF Init, Points, Stages
<1>1. TypeOK
  BY <1>a, <1>b, <1>c DEF Init, TypeOK
<1>2. TriesInv /\ SessionInv /\ ExitInv
  BY Constants DEF Init, TriesInv, SessionInv, ExitInv, ClosedAtEnd, InBrowser, Holding
<1>3. HeldInv
  BY DEF Init, HeldInv, Holding
<1>4. \A a \in Activations : ActivationInv(a)
  BY DEF Init, ActivationInv
<1>5. QED
  BY <1>1, <1>2, <1>3, <1>4 DEF IInv

-----------------------------------------------------------------------------
(* Steps that leave the phone activation alone.                            *)

(* What an exception does outside the loops' tries.                        *)
LEMMA UnwindStep ==
  ASSUME IInv, Unwind, page' \in Stages, Send \/ UNCHANGED proxy,
         pc # "idle", pc \in InBrowser \union {"open", "mid", "validate", "post", "file"},
         UNCHANGED <<status, lost, broken, accepted, bought>>,
         pc # "finish", pc # "cancel"
  PROVE  IInv'
<1>a. tries' \in Nat /\ (tries' < Retries \/ tries' < SubmitTries)
  BY Constants DEF Unwind
<1>b. pc' \in Points /\ result' \in {"none", "filed", "raised"}
  BY DEF Unwind, Points, InBrowser, Holding
<1>c. /\ sticky' \in BOOLEAN /\ exit' \in Exits
      /\ ipPre' \in Exits /\ strayed' \in {"no", "away", "back"}
  BY DEF IInv, TypeOK, Send, proxy
<1>1. TypeOK'
  BY <1>a, <1>b, <1>c DEF IInv, TypeOK, Unwind
<1>2. TriesInv'
  BY Constants DEF IInv, TypeOK, TriesInv, Unwind
<1>3. HeldInv'
  BY DEF IInv, HeldInv, Unwind, Holding
<1>4. (\A a \in Activations : ActivationInv(a))'
  BY DEF IInv, ActivationInv, Unwind
<1>5. SessionInv'
  BY DEF IInv, SessionInv, Unwind, ClosedAtEnd, InBrowser, Holding
<1>6. ExitInv'
  BY DEF IInv, TypeOK, ExitInv, Unwind, Send, proxy, Holding
<1>7. QED
  BY <1>1, <1>2, <1>3, <1>4, <1>5, <1>6 DEF IInv

(* The steps that only move on, open or close a session.                   *)
Move ==
    \/ \E next \in Stages : OpenSignup(next) \/ SubmitMailCode(next)
    \/ CheckAfterPassword \/ ReceiveMail \/ CheckBeforePhone
    \/ CollectCookies \/ OpenKeys \/ CreateSolver \/ SolveClearance
    \/ OpenKeysAgain \/ GenerateKey \/ CheckMid \/ Validate \/ CheckPost \/ File
    \/ RaiseInKeys

LEMMA MoveStep == IInv /\ Move => IInv'
<1> SUFFICES ASSUME IInv, Move PROVE IInv'
  OBVIOUS
<1> USE DEF Move, OpenSignup, SubmitMailCode, CheckAfterPassword, ReceiveMail,
    CheckBeforePhone, CollectCookies, OpenKeys, CreateSolver, SolveClearance,
    OpenKeysAgain, GenerateKey, CheckMid, Validate, CheckPost, File, RaiseInKeys,
    RaiseLeaving
<1>1. UNCHANGED <<tries, phone>>
  BY DEF phone
<1>2. /\ pc \notin Holding /\ pc' \notin Holding
      /\ pc \notin {"email", "password", "request"}
      /\ pc' = "request" => pc = "before_phone"
      /\ pc' \in {"open", "email", "password", "after_password", "mail", "code",
                  "before_phone"}
           => pc \in {"open", "after_password", "mail", "code"}
      /\ pc' \in Points
  BY DEF Points, InBrowser, Holding
<1>3. /\ page' \in Stages /\ result' \in {"none", "filed", "raised"}
      /\ sessions' \subseteq {"signup", "keys", "keys-clearance", "flaresolverr"}
  BY DEF IInv, TypeOK, Stages
<1>4. UNCHANGED proxy \/ Send
  OBVIOUS
<1>5. /\ sticky' \in BOOLEAN /\ exit' \in Exits
      /\ ipPre' \in Exits /\ strayed' \in {"no", "away", "back"}
  BY <1>4 DEF IInv, TypeOK, Send, proxy
<1>6. TypeOK'
  BY <1>1, <1>2, <1>3, <1>5 DEF IInv, TypeOK, phone
<1>7. TriesInv'
  BY <1>1, <1>2, Constants DEF IInv, TypeOK, TriesInv, phone, Holding
<1>8. HeldInv' /\ (\A a \in Activations : ActivationInv(a))'
  BY <1>1, <1>2 DEF IInv, HeldInv, ActivationInv, phone, Holding
<1>9. SessionInv'
  <2>1. CASE RaiseInKeys
    <3>1. /\ pc' = "idle" /\ result' = "raised"
          /\ sessions' \subseteq {"keys"} \/ sessions' \subseteq {"flaresolverr"}
             \/ sessions' \subseteq {"keys-clearance"}
      BY <2>1
    <3>2. QED
      BY <3>1 DEF SessionInv, ClosedAtEnd, InBrowser, Holding
  <2>2. CASE GenerateKey
    <3>1. sessions' = {} /\ pc' = "mid"
      BY <2>2 DEF IInv, SessionInv
    <3>2. QED
      BY <3>1 DEF SessionInv, ClosedAtEnd, InBrowser, Holding
  <2>3. CASE ~RaiseInKeys /\ ~GenerateKey
    BY <2>3 DEF IInv, SessionInv, ClosedAtEnd, InBrowser, Holding
  <2>4. QED
    BY <2>1, <2>2, <2>3
<1>10. ExitInv'
  BY <1>4 DEF IInv, TypeOK, ExitInv, Send, proxy, CheckIP
<1>11. QED
  BY <1>6, <1>7, <1>8, <1>9, <1>10 DEF IInv

LEMMA BeginStep == IInv /\ Begin => IInv'
<1> SUFFICES ASSUME IInv, Begin PROVE IInv'
  OBVIOUS
<1>1. pc = "idle" /\ held = None /\ pc' = "open" /\ held' = None
  BY DEF Begin, IInv, HeldInv, Holding
<1>2. TypeOK'
  <2>1. tries' \in Nat /\ tries' < Retries /\ bought' \in Nat
    BY Constants DEF Begin
  <2>2. pc' \in Points /\ page' \in Stages
    BY DEF Begin, Points, Stages
  <2>3. QED
    BY <2>1, <2>2 DEF IInv, TypeOK, Begin
<1>3. TriesInv'
  BY Constants DEF Begin, TriesInv
<1>4. HeldInv' /\ (\A a \in Activations : ActivationInv(a))'
  BY <1>1 DEF Begin, IInv, HeldInv, ActivationInv, Holding
<1>5. SessionInv' /\ ExitInv'
  BY DEF Begin, IInv, TypeOK, SessionInv, ExitInv, ClosedAtEnd, InBrowser, Holding
<1>6. QED
  BY <1>2, <1>3, <1>4, <1>5 DEF IInv

LEMMA DriftStep == IInv /\ Drift => IInv'
<1> SUFFICES ASSUME IInv, Drift PROVE IInv'
  OBVIOUS
<1>1. exit' \in Exits /\ strayed' \in {"no", "away", "back"}
  BY DEF Drift, IInv, TypeOK
<1>2. ExitInv'
  BY <1>1 DEF Drift, IInv, TypeOK, ExitInv
<1>3. QED
  BY <1>1, <1>2 DEF Drift, phone, IInv, TypeOK, TriesInv, HeldInv, ActivationInv,
     SessionInv, ClosedAtEnd

LEMMA RaiseStep == IInv /\ Raise => IInv'
<1> SUFFICES ASSUME IInv, Raise PROVE IInv'
  OBVIOUS
<1>1. pc \in InBrowser \union {"open", "mid", "validate", "post", "file"}
  BY DEF Raise, IInv, TypeOK, Points
<1>2. QED
  BY <1>1, UnwindStep DEF Raise, IInv, TypeOK

(* The loops: the email, the password and the phone number.                *)
LEMMA SubmitStep ==
  ASSUME IInv, NEW next \in Stages,
         SubmitEmail(next) \/ SubmitPassword(next) \/ SubmitNumber(next)
  PROVE  IInv'
<1>1. PICK after : Submit(next, after) /\ pc \in InBrowser /\
        (\/ pc = "email" /\ after = "password"
         \/ pc = "password" /\ after = "after_password"
         \/ pc = "number" /\ after = "sms")
  BY DEF SubmitEmail, SubmitPassword, SubmitNumber, InBrowser, Holding
<1>2. CASE Unwind
  BY <1>1, <1>2, UnwindStep DEF Submit
<1>3. CASE ~Unwind
  <2>1. /\ UNCHANGED <<result, sessions, held>> /\ Send /\ page' \in Stages
        /\ \/ pc' = after /\ tries' = 0
           \/ pc' = pc /\ tries' = tries + 1 /\ tries' < SubmitTries
    BY <1>1, <1>3, Constants DEF Submit, IInv, TypeOK
  <2>2. UNCHANGED <<status, lost, broken, accepted, bought>>
    BY <1>1 DEF Submit
  <2>3. tries' \in Nat /\ (tries' < Retries \/ tries' < SubmitTries)
    BY <2>1, Constants DEF IInv, TypeOK
  <2>4. pc' \in Points /\ pc' \in InBrowser /\ pc' # "idle"
    BY <1>1, <2>1 DEF Points, InBrowser, Holding
  <2>5. TypeOK'
    BY <2>1, <2>2, <2>3, <2>4 DEF IInv, TypeOK, Send
  <2>6. TriesInv'
    BY <1>1, <2>1, <2>2, Constants DEF IInv, TypeOK, TriesInv
  <2>7. HeldInv' /\ (\A a \in Activations : ActivationInv(a))'
    BY <1>1, <2>1, <2>2 DEF IInv, HeldInv, ActivationInv, Holding
  <2>8. SessionInv'
    BY <1>1, <2>1, <2>4 DEF IInv, SessionInv, ClosedAtEnd, InBrowser, Holding
  <2>9. ExitInv'
    BY <1>1, <2>1 DEF IInv, TypeOK, ExitInv, Send
  <2>10. QED
    BY <2>5, <2>6, <2>7, <2>8, <2>9 DEF IInv
<1>4. QED
  BY <1>2, <1>3

-----------------------------------------------------------------------------
(* Steps that do something with an activation.                             *)

(* What is left of a call to HeroSMS that has not been answered well, while*)
(* nothing is in hand: it is sent again, or the sign-up is over.           *)
LEMMA NumberStep ==
  ASSUME IInv, NEW reply \in Replies,
         NumberRefused(reply) \/ \E a \in Activations : NumberUnanswered(a, reply)
  PROVE  IInv'
<1>1. /\ pc = "request" /\ Repeat(reply) /\ held = None /\ held' = None
      /\ UNCHANGED <<page, broken, accepted, proxy>>
      /\ tries < Retries /\ bought <= tries /\ tries \in Nat /\ bought \in Nat
  <2>1. pc = "request" /\ Repeat(reply)
        /\ UNCHANGED <<page, broken, accepted, proxy>>
    BY DEF NumberRefused, NumberUnanswered
  <2>2. held = None /\ tries < Retries /\ bought <= tries
        /\ tries \in Nat /\ bought \in Nat
    BY <2>1 DEF IInv, TypeOK, HeldInv, TriesInv, Holding
  <2>3. QED
    BY <2>1, <2>2 DEF Repeat, Unwind
<1>2. \/ /\ pc' = "request" /\ tries' = tries + 1 /\ tries' < Retries
         /\ UNCHANGED <<result, sessions>>
      \/ pc' = "idle" /\ tries' = 0 /\ result' = "raised" /\ sessions' = {}
  <2>1. sessions = {"signup"}
    BY <1>1 DEF IInv, SessionInv, InBrowser
  <2>2. CASE SentAgain(reply)
    BY <1>1, <2>2, Constants DEF Repeat, SentAgain
  <2>3. CASE ~SentAgain(reply)
    BY <1>1, <2>1, <2>3 DEF Repeat, Unwind, Holding
  <2>4. QED
    BY <2>2, <2>3
<1>3. (bought' = bought \/ bought' = bought + 1) /\ bought' \in Nat
  BY <1>1 DEF NumberRefused, NumberUnanswered
<1>4. \A b \in Activations :
        \/ status'[b] = status[b] /\ (b \in lost => b \in lost')
        \/ status'[b] = "open" /\ b \in lost'
  BY DEF NumberRefused, NumberUnanswered, IInv, TypeOK
<1>5. /\ status' \in [Activations -> {"unsold", "open", "finished", "cancelled"}]
      /\ lost' \subseteq Activations
  BY DEF NumberRefused, NumberUnanswered, IInv, TypeOK
<1>6. TypeOK'
  <2>1. tries' \in Nat /\ (tries' < Retries \/ tries' < SubmitTries)
    BY <1>1, <1>2, Constants
  <2>2. pc' \in Points
    BY <1>2 DEF Points, InBrowser
  <2>3. QED
    BY <1>1, <1>2, <1>3, <1>5, <2>1, <2>2 DEF IInv, TypeOK, proxy
<1>7. TriesInv'
  BY <1>1, <1>2, <1>3, Constants DEF TriesInv
<1>8. HeldInv'
  BY <1>1, <1>2 DEF HeldInv, Holding
<1>9. (\A b \in Activations : ActivationInv(b))'
  BY <1>1, <1>4 DEF IInv, ActivationInv
<1>10. SessionInv'
  BY <1>1, <1>2 DEF IInv, SessionInv, ClosedAtEnd, InBrowser, Holding
<1>11. ExitInv'
  BY <1>1, <1>2 DEF IInv, ExitInv, proxy
<1>12. QED
  BY <1>6, <1>7, <1>8, <1>9, <1>10, <1>11 DEF IInv

LEMMA SoldStep == ASSUME IInv, NEW a \in Activations, NumberSold(a) PROVE IInv'
<1>1. /\ pc = "request" /\ tries < Retries /\ bought <= tries /\ held = None
      /\ tries \in Nat /\ bought \in Nat /\ a \notin accepted /\ a # None
  BY Constants DEF NumberSold, IInv, TypeOK, TriesInv, HeldInv, ActivationInv, Holding
<1>2. bought' \in Nat /\ bought' <= Retries
  BY <1>1, Constants DEF NumberSold
<1>3. status'[a] = "open" /\ \A b \in Activations : b # a => status'[b] = status[b]
  BY DEF NumberSold, IInv, TypeOK
<1>4. TypeOK'
  <2>1. tries' \in Nat /\ tries' < Retries
    BY Constants DEF NumberSold
  <2>2. pc' \in Points
    BY DEF NumberSold, Points, InBrowser, Holding
  <2>3. QED
    BY <1>2, <2>1, <2>2 DEF NumberSold, IInv, TypeOK, proxy
<1>5. TriesInv'
  BY <1>2, Constants DEF NumberSold, TriesInv
<1>6. HeldInv' /\ (\A b \in Activations : ActivationInv(b))'
  <2>1. /\ held' = a /\ pc' = "number"
        /\ UNCHANGED <<lost, broken, accepted>>
    BY DEF NumberSold
  <2>2. HeldInv'
    BY <1>1, <1>3, <2>1 DEF HeldInv, Holding
  <2>3. ASSUME NEW b \in Activations PROVE ActivationInv(b)'
    BY <1>1, <1>3, <2>1, <2>3, Constants DEF IInv, ActivationInv
  <2>4. QED
    BY <2>2, <2>3
<1>7. SessionInv' /\ ExitInv'
  BY <1>1 DEF NumberSold, IInv, SessionInv, ClosedAtEnd, ExitInv, InBrowser, Holding, proxy
<1>8. QED
  BY <1>4, <1>5, <1>6, <1>7 DEF IInv

LEMMA SmsStep ==
  ASSUME IInv,
         \/ ReceiveSms
         \/ \E next \in Stages, taken, read \in BOOLEAN : SubmitSmsCode(next, taken, read)
  PROVE  IInv'
<1>1. /\ pc \in {"sms", "smscode"} /\ held \in Activations /\ status[held] = "open"
      /\ held \notin accepted /\ tries = 0 /\ result = "none"
  BY DEF ReceiveSms, SubmitSmsCode, IInv, TypeOK, HeldInv, TriesInv, ExitInv, Holding
<1>2. /\ UNCHANGED <<tries, sessions, held, status, lost, bought>>
      /\ accepted' \in {accepted, accepted \union {held}}
      /\ \/ /\ pc = "sms" /\ pc' = "smscode"
            /\ UNCHANGED <<result, broken, accepted>>
         \/ pc' = "finish" /\ UNCHANGED <<result, broken>>
         \/ /\ pc' = "cancel" /\ result' = "raised"
            /\ broken' = broken \union {held}
  <2>1. CASE ReceiveSms
    BY <2>1 DEF ReceiveSms, phone
  <2>2. CASE \E next \in Stages, taken, read \in BOOLEAN : SubmitSmsCode(next, taken, read)
    BY <1>1, <2>2 DEF SubmitSmsCode, Unwind, Holding
  <2>3. QED
    BY <2>1, <2>2
<1>2a. page' \in Stages /\ (Send \/ UNCHANGED proxy)
  BY DEF ReceiveSms, SubmitSmsCode, IInv, TypeOK
<1>3. TypeOK'
  <2>1. pc' \in Points
    BY <1>2 DEF Points, InBrowser, Holding
  <2>2. /\ sticky' \in BOOLEAN /\ exit' \in Exits
        /\ ipPre' \in Exits /\ strayed' \in {"no", "away", "back"}
    BY <1>2a DEF IInv, TypeOK, Send, proxy
  <2>3. accepted' \subseteq Activations /\ broken' \subseteq Activations
    BY <1>1, <1>2 DEF IInv, TypeOK
  <2>4. result' \in {"none", "filed", "raised"}
    BY <1>1, <1>2
  <2>5. QED
    BY <1>2, <1>2a, <2>1, <2>2, <2>3, <2>4 DEF IInv, TypeOK
<1>4. TriesInv'
  BY <1>1, <1>2, Constants DEF IInv, TypeOK, TriesInv
<1>5. HeldInv'
  BY <1>1, <1>2, Constants DEF IInv, HeldInv, Holding
<1>6. (\A a \in Activations : ActivationInv(a))'
  BY <1>1, <1>2 DEF IInv, ActivationInv
<1>7. SessionInv'
  BY <1>1, <1>2 DEF IInv, SessionInv, ClosedAtEnd, InBrowser, Holding
<1>8. ExitInv'
  BY <1>1, <1>2, <1>2a DEF IInv, TypeOK, ExitInv, Send, proxy
<1>9. QED
  BY <1>3, <1>4, <1>5, <1>6, <1>7, <1>8 DEF IInv

(* What a request to end the activation in hand does to the activations.   *)
LEMMA EndFacts ==
  ASSUME IInv, held \in Activations, NEW done \in BOOLEAN,
         NEW as \in {"finished", "cancelled"}, EndActivation(as, done)
  PROVE  /\ status' \in [Activations -> {"unsold", "open", "finished", "cancelled"}]
         /\ \A a \in Activations : a # held => status'[a] = status[a]
         /\ status'[held] \in {status[held], as}
  BY DEF EndActivation, IInv, TypeOK

LEMMA FinishStep ==
  ASSUME IInv, NEW reply \in Replies, NEW done \in BOOLEAN, Finish(reply, done)
  PROVE  IInv'
<1>1. /\ pc = "finish" /\ held \in Activations /\ status[held] # "unsold"
      /\ tries \in Nat /\ tries < Retries /\ sessions = {"signup"}
      /\ UNCHANGED <<page, accepted, bought, proxy>>
  BY DEF Finish, IInv, TypeOK, HeldInv, TriesInv, SessionInv, InBrowser, Holding
<1>2. /\ status' \in [Activations -> {"unsold", "open", "finished", "cancelled"}]
      /\ \A a \in Activations : a # held => status'[a] = status[a]
      /\ status'[held] \in {status[held], "finished"}
  <2>1. EndActivation("finished", done)
    BY DEF Finish
  <2>2. QED
    BY <1>1, <2>1, EndFacts
<1>3. \/ /\ pc' = "cookies" /\ tries' = 0 /\ held' = None
         /\ lost' = lost \union {a \in {held} \ {None} : status'[a] = "open"}
         /\ UNCHANGED <<result, broken>>
      \/ /\ pc' = "finish" /\ tries' = tries + 1 /\ tries' < Retries
         /\ UNCHANGED <<result, held, lost, broken>>
      \/ /\ pc' = "cancel" /\ tries' = 0 /\ result' = "raised"
         /\ broken' = broken \union {held}
         /\ UNCHANGED <<held, lost>>
  <2>1. CASE reply = "ok"
    BY <2>1 DEF Finish, LoseHeld
  <2>2. CASE reply # "ok" /\ SentAgain(reply)
    BY <1>1, <2>2, Constants DEF Finish, Repeat, SentAgain
  <2>3. CASE reply # "ok" /\ ~SentAgain(reply)
    BY <1>1, <2>3 DEF Finish, Repeat, Unwind, Holding
  <2>4. QED
    BY <2>1, <2>2, <2>3
<1>4. sessions' = {"signup"} /\ pc' \in InBrowser
  BY <1>1, <1>3 DEF Finish, Repeat, Unwind, InBrowser, Holding
<1>5. TypeOK'
  <2>1. tries' \in Nat /\ (tries' < Retries \/ tries' < SubmitTries)
    BY <1>1, <1>3, Constants
  <2>2. pc' \in Points
    BY <1>4 DEF Points
  <2>3. lost' \subseteq Activations /\ broken' \subseteq Activations
    BY <1>1, <1>3 DEF IInv, TypeOK
  <2>4. QED
    BY <1>1, <1>2, <1>3, <1>4, <2>1, <2>2, <2>3 DEF IInv, TypeOK, proxy
<1>6. TriesInv'
  BY <1>1, <1>3, Constants DEF IInv, TypeOK, TriesInv
<1>7. HeldInv'
  BY <1>1, <1>2, <1>3, Constants DEF IInv, HeldInv, Holding
<1>8. ASSUME NEW a \in Activations PROVE ActivationInv(a)'
  <2>1. a \in accepted /\ status'[a] = "cancelled" => a \in broken'
    BY <1>1, <1>2, <1>3, <1>8 DEF IInv, ActivationInv
  <2>2. status'[a] = "unsold" => a \notin accepted'
    BY <1>1, <1>2, <1>8 DEF IInv, ActivationInv
  <2>3. a # held' /\ status'[a] = "open" => a \in lost'
    BY <1>1, <1>2, <1>3, <1>8, Constants DEF IInv, ActivationInv
  <2>4. QED
    BY <1>1, <2>1, <2>2, <2>3 DEF ActivationInv
<1>9. SessionInv'
  BY <1>3, <1>4 DEF SessionInv, ClosedAtEnd, InBrowser, Holding
<1>10. ExitInv'
  BY <1>1, <1>3 DEF IInv, ExitInv, proxy
<1>11. QED
  BY <1>5, <1>6, <1>7, <1>8, <1>9, <1>10 DEF IInv

LEMMA CancelStep ==
  ASSUME IInv, NEW reply \in Replies, NEW done \in BOOLEAN, Cancel(reply, done)
  PROVE  IInv'
<1>1. /\ pc = "cancel" /\ held \in Activations /\ status[held] # "unsold"
      /\ held \in accepted => held \in broken
      /\ tries \in Nat /\ tries < Retries /\ sessions = {"signup"} /\ result = "raised"
      /\ UNCHANGED <<page, accepted, broken, bought, proxy, result>>
  BY DEF Cancel, IInv, TypeOK, HeldInv, TriesInv, SessionInv, InBrowser, Holding, ExitInv
<1>2. /\ status' \in [Activations -> {"unsold", "open", "finished", "cancelled"}]
      /\ \A a \in Activations : a # held => status'[a] = status[a]
      /\ status'[held] \in {status[held], "cancelled"}
  <2>1. EndActivation("cancelled", done)
    BY DEF Cancel
  <2>2. QED
    BY <1>1, <2>1, EndFacts
<1>3. \/ /\ pc' = "cancel" /\ tries' = tries + 1 /\ tries' < Retries
         /\ UNCHANGED <<sessions, held, lost>>
      \/ /\ pc' = "idle" /\ tries' = 0 /\ held' = None /\ sessions' = {}
         /\ lost' = lost \union {a \in {held} \ {None} : status'[a] = "open"}
  <2>1. CASE SentAgain(reply)
    BY <1>1, <2>1, Constants DEF Cancel, SentAgain
  <2>2. CASE ~SentAgain(reply)
    BY <1>1, <2>2 DEF Cancel, LoseHeld
  <2>3. QED
    BY <2>1, <2>2
<1>4. TypeOK'
  <2>1. tries' \in Nat /\ (tries' < Retries \/ tries' < SubmitTries)
    BY <1>1, <1>3, Constants
  <2>2. pc' \in Points
    BY <1>3 DEF Points, InBrowser, Holding
  <2>3. lost' \subseteq Activations /\ held' \in Activations \union {None}
    BY <1>1, <1>3 DEF IInv, TypeOK
  <2>4. sessions' \subseteq {"signup"}
    BY <1>1, <1>3
  <2>5. QED
    BY <1>1, <1>2, <2>1, <2>2, <2>3, <2>4 DEF IInv, TypeOK, proxy
<1>5. TriesInv'
  BY <1>1, <1>3, Constants DEF IInv, TypeOK, TriesInv
<1>6. HeldInv'
  BY <1>1, <1>2, <1>3, Constants DEF IInv, HeldInv, Holding
<1>7. ASSUME NEW a \in Activations PROVE ActivationInv(a)'
  <2>1. a \in accepted /\ status'[a] = "cancelled" => a \in broken'
    BY <1>1, <1>2, <1>7 DEF IInv, ActivationInv
  <2>2. status'[a] = "unsold" => a \notin accepted'
    BY <1>1, <1>2, <1>7 DEF IInv, ActivationInv
  <2>3. a # held' /\ status'[a] = "open" => a \in lost'
    BY <1>1, <1>2, <1>3, <1>7, Constants DEF IInv, ActivationInv
  <2>4. QED
    BY <1>1, <2>1, <2>2, <2>3 DEF ActivationInv
<1>8. SessionInv'
  BY <1>1, <1>3 DEF SessionInv, ClosedAtEnd, InBrowser, Holding
<1>9. ExitInv'
  BY <1>1, <1>3 DEF IInv, ExitInv, proxy
<1>10. QED
  BY <1>4, <1>5, <1>6, <1>7, <1>8, <1>9 DEF IInv

LEMMA CrashStep == IInv /\ Crash => IInv'
<1> SUFFICES ASSUME IInv, Crash PROVE IInv'
  OBVIOUS
<1>1. /\ pc' = "idle" /\ result' = "raised" /\ tries' = 0 /\ held' = None
      /\ sessions' = sessions \intersect {"flaresolverr"}
      /\ lost' = lost \union {a \in {held} \ {None} : status[a] = "open"}
      /\ UNCHANGED <<page, status, broken, accepted, bought, proxy>>
  BY DEF Crash, LoseHeld
<1>2. TypeOK'
  <2>1. tries' \in Nat /\ tries' < Retries
    BY <1>1, Constants
  <2>2. pc' \in Points
    BY <1>1 DEF Points
  <2>3. lost' \subseteq Activations
    BY <1>1 DEF IInv, TypeOK
  <2>4. QED
    BY <1>1, <2>1, <2>2, <2>3 DEF IInv, TypeOK, proxy
<1>3. TriesInv'
  BY <1>1, Constants DEF IInv, TypeOK, TriesInv
<1>4. HeldInv'
  BY <1>1 DEF HeldInv, Holding
<1>5. (\A a \in Activations : ActivationInv(a))'
  BY <1>1, Constants DEF IInv, ActivationInv
<1>6. SessionInv'
  BY <1>1 DEF SessionInv, ClosedAtEnd, InBrowser, Holding
<1>7. ExitInv'
  BY <1>1 DEF IInv, ExitInv, proxy
<1>8. QED
  BY <1>2, <1>3, <1>4, <1>5, <1>6, <1>7 DEF IInv

-----------------------------------------------------------------------------

LEMMA NextInv == IInv /\ [Next]_vars => IInv'
<1> SUFFICES ASSUME IInv, [Next]_vars PROVE IInv'
  OBVIOUS
<1>1. CASE Begin \/ Crash \/ Drift \/ Raise
  BY <1>1, BeginStep, CrashStep, DriftStep, RaiseStep
<1>2. CASE Move
  BY <1>2, MoveStep
<1>3. CASE \/ ReceiveSms
           \/ \E next \in Stages, taken, read \in BOOLEAN : SubmitSmsCode(next, taken, read)
  BY <1>3, SmsStep
<1>4. CASE \E next \in Stages : SubmitEmail(next) \/ SubmitPassword(next) \/ SubmitNumber(next)
  BY <1>4, SubmitStep
<1>5. CASE SoldNow
  BY <1>5, SoldStep DEF SoldNow
<1>6. CASE AtHeroSms
  BY <1>6, NumberStep, FinishStep, CancelStep DEF AtHeroSms
<1>7. CASE UNCHANGED vars
  BY <1>7 DEF vars, phone, proxy, IInv, TypeOK, TriesInv, HeldInv, ActivationInv,
     SessionInv, ClosedAtEnd, ExitInv
<1>8. QED
  BY <1>1, <1>2, <1>3, <1>4, <1>5, <1>6, <1>7 DEF Next, Proceed, OnSite, Move

(* The inductive invariant: what is in hand is determined by the control   *)
(* point, an activation not in hand is settled or known to be lost, and    *)
(* after a request that strayed the exit is at another address than at the *)
(* start until it comes back.                                              *)
THEOREM Invariance == Spec => []IInv
  BY InitInv, NextInv, PTL DEF Spec

(* The variables keep their types, and no loop of requests or submissions  *)
(* counts beyond its tries.                                                *)
THEOREM TypeCorrect == Spec => []TypeOK
<1>1. IInv => TypeOK
  BY DEF IInv
<1>2. QED
  BY <1>1, Invariance, PTL

(* _handle_phone_challenge gives back what it was given, on every path.    *)
THEOREM NothingLeftOpen == Spec => []ActivationsSettled
<1>1. IInv => ActivationsSettled
  BY Constants DEF IInv, HeldInv, ActivationInv, ActivationsSettled, Holding
<1>2. QED
  BY <1>1, Invariance, PTL

(* Its finally clause cancels an activation the site has taken only when   *)
(* an exception came after the submission of the SMS code.                 *)
THEOREM UsedNotReturned == Spec => []AcceptedNotCancelled
<1>1. IInv => AcceptedNotCancelled
  BY DEF IInv, TypeOK, ActivationInv, AcceptedNotCancelled
<1>2. QED
  BY <1>1, Invariance, PTL

(* HeroSmsProvider._request bounds what a sign-up can pay for.             *)
THEOREM PurchasesBounded == Spec => []PaidWithinRetries
<1>1. IInv => PaidWithinRetries
  BY Constants DEF IInv, TypeOK, TriesInv, PaidWithinRetries
<1>2. QED
  BY <1>1, Invariance, PTL

(* The finally clause of run closes the sign-up browser on every path.     *)
THEOREM SessionsClosed == Spec => []ClosedAtEnd
<1>1. IInv => ClosedAtEnd
  BY DEF IInv, SessionInv
<1>2. QED
  BY <1>1, Invariance, PTL

(* The last check notices every exit address that has changed for good; it *)
(* cannot notice one that came back.                                       *)
THEOREM FiledUndrifted == Spec => []StrayingNoticed
<1>1. IInv => StrayingNoticed
  BY DEF IInv, ExitInv, StrayingNoticed
<1>2. QED
  BY <1>1, Invariance, PTL
=============================================================================
