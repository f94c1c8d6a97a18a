---------------------------- MODULE OllamaSignup ----------------------------
(***************************************************************************)
(* One process that signs up accounts, one after another: register_single  *)
(* of ollama_register.py up to the account files (OllamaAccounts goes on   *)
(* from there) and OllamaBrowserFlow.run of src/browser_flow.py, with what *)
(* they acquire on the way and have to give back: a paid phone activation  *)
(* at HeroSMS, browsers, a FlareSolverr session.                           *)
(*                                                                         *)
(* Any call may raise.  A call to HeroSMS is retried when its answer times *)
(* out, and may have been carried out all the same.  The exit address of   *)
(* the proxy may change at any time, to a new address or to an earlier one.*)
(*                                                                         *)
(* Solving a challenge and polling for a mail or an SMS are one step each: *)
(* they yield a code, or raise when their tries or their time are up.      *)
(***************************************************************************)
EXTENDS Naturals

CONSTANTS
    Activations,    \* bound: the activations HeroSMS can sell
    Retries,        \* retry_count of HeroSmsProvider
    SubmitTries,    \* times a form is submitted before the flow gives up
    Exits,          \* the addresses the proxy lets requests out at
    None

ASSUME TriesAssumption == {Retries, SubmitTries} \subseteq Nat \ {0}
ASSUME ExitsAssumption == Exits # {}
ASSUME NoneAssumption == None \notin Activations

VARIABLES
    pc,         \* control point
    result,     \* of the sign-up: "none" yet, "filed" or "raised"
    page,       \* detect_signup_stage of the page the sign-up browser shows
    tries,      \* failed tries of the form or the request in hand
    sessions,   \* browsers and solver sessions of the sign-up that are open
    held,       \* the activation _handle_phone_challenge has to give back
    status,     \* of every activation, at HeroSMS
    lost,       \* history: activations whose sale never became known, that
                \* HeroSMS did not end when asked to, or a crash left open
    broken,     \* history: activations whose try block an exception left after
                \* the SMS code was submitted
    accepted,   \* history: activations whose code the site has taken
    bought,     \* history: activations sold to this sign-up
    sticky,     \* OLLAMA_STICKY_PROXY
    exit,       \* the address the proxy now lets requests out at
    ipPre,      \* the address at the start of the sign-up
    strayed     \* history: whether a request of this sign-up left at another
                \* address, and if so, whether the exit has been back since

phone == <<held, status, lost, broken, accepted, bought>>
proxy == <<sticky, exit, ipPre, strayed>>
vars == <<pc, result, page, tries, sessions, phone, proxy>>

Stages == {"email", "password", "verification", "phone", "unknown", "blocked"}

(* Where the flow has an activation in hand (the try block of              *)
(* _handle_phone_challenge and its finally clause), and where the sign-up  *)
(* browser is open.                                                        *)
Holding == {"number", "sms", "smscode", "finish", "cancel"}
InBrowser == Holding \union
    {"email", "password", "after_password", "mail", "code", "before_phone",
     "request", "cookies"}
Points == InBrowser \union
    {"idle", "open", "keys", "flaresolverr", "clearance", "keys_again",
     "generate", "mid", "validate", "post", "file"}

TypeOK ==
    /\ pc \in Points
    /\ result \in {"none", "filed", "raised"}
    /\ page \in Stages
    /\ tries \in Nat /\ (tries < Retries \/ tries < SubmitTries)
    /\ sessions \subseteq {"signup", "keys", "keys-clearance", "flaresolverr"}
    /\ held \in Activations \union {None}
    /\ status \in [Activations -> {"unsold", "open", "finished", "cancelled"}]
    /\ lost \subseteq Activations
    /\ broken \subseteq Activations
    /\ accepted \subseteq Activations
    /\ bought \in Nat
    /\ sticky \in BOOLEAN
    /\ exit \in Exits
    /\ ipPre \in Exits
    /\ strayed \in {"no", "away", "back"}

Init ==
    /\ pc = "idle"
    /\ result = "none"
    /\ page = "unknown"
    /\ tries = 0
    /\ sessions = {}
    /\ held = None
    /\ status = [a \in Activations |-> "unsold"]
    /\ lost = {}
    /\ broken = {}
    /\ accepted = {}
    /\ bought = 0
    /\ sticky \in BOOLEAN
    /\ exit \in Exits
    /\ ipPre = exit
    /\ strayed = "no"

-----------------------------------------------------------------------------
(* A request through the proxy.                                            *)
Send ==
    /\ strayed' = IF sticky /\ exit # ipPre THEN "away" ELSE strayed
    /\ UNCHANGED <<sticky, exit, ipPre>>

(* check_ip passes; Raise is what it does otherwise.                       *)
CheckIP == sticky => exit = ipPre

(* ensure_signup_advanced does not raise.                                  *)
Advanced(next) == next # page /\ next # "blocked"

(* Mutant: the try block ends with the submission of the number.           *)
UnwindEarly ==
    /\ result' = "raised"
    /\ tries' = 0
    /\ IF pc \in {"number", "finish"}
         THEN pc' = "cancel" /\ UNCHANGED <<sessions, held>>
         ELSE pc' = "idle" /\ sessions' = sessions \ {"signup"} /\ held' = None

(* Mutant: the sign-up browser is closed on the normal path only.          *)
UnwindOpen ==
    /\ result' = "raised"
    /\ tries' = 0
    /\ UNCHANGED <<sessions, held>>
    /\ pc' = IF pc \in Holding THEN "cancel" ELSE "idle"

(* An exception: the finally clauses, innermost first, up to the call of   *)
(* cancelActivation if there is one to make.                               *)
Unwind ==
    /\ result' = "raised"
    /\ tries' = 0
    /\ UNCHANGED held
    /\ IF pc \in Holding
         THEN pc' = "cancel" /\ UNCHANGED sessions
         ELSE pc' = "idle" /\ sessions' = sessions \ {"signup"}

-----------------------------------------------------------------------------
(* register_single: the proxy session with its first check, the rate       *)
(* limit, the clients and a fresh address; nothing of it has to be given   *)
(* back if one of them raises.                                             *)
Begin ==
    /\ pc = "idle"
    /\ pc' = "open"
    /\ result' = "none"
    /\ tries' = 0
    /\ sessions' = {}
    /\ ipPre' = exit
    /\ bought' = 0
    /\ strayed' = "no"
    /\ page' = "unknown"
    /\ UNCHANGED <<held, status, lost, broken, accepted, sticky, exit>>

(* The sign-up browser is started and shows some page of the site.         *)
OpenSignup(next) ==
    /\ pc = "open"
    /\ pc' = "email"
    /\ page' = next
    /\ sessions' = sessions \union {"signup"}
    /\ Send
    /\ UNCHANGED <<result, tries, phone>>

(* Mutant: the loop starts over when its tries are used up.                *)
SubmitForever(next, after) ==
    /\ page' = next
    /\ Send
    /\ IF Advanced(next)
         THEN pc' = after /\ tries' = 0 /\ UNCHANGED <<result, sessions, held>>
         ELSE IF next = "blocked" THEN Unwind
         ELSE tries' = (tries + 1) % SubmitTries /\ UNCHANGED <<pc, result, sessions, held>>
    /\ UNCHANGED <<status, lost, broken, accepted, bought>>

(* The loop of _submit_with_turnstile and of _submit_phone_number: fill    *)
(* the form, submit it and look at the page that comes, up to SubmitTries  *)
(* times.                                                                  *)
Submit(next, after) ==
    /\ page' = next
    /\ Send
    /\ IF Advanced(next)
         THEN pc' = after /\ tries' = 0 /\ UNCHANGED <<result, sessions, held>>
         ELSE IF next = "blocked" \/ tries + 1 >= SubmitTries THEN Unwind
         ELSE tries' = tries + 1 /\ UNCHANGED <<pc, result, sessions, held>>
    /\ UNCHANGED <<status, lost, broken, accepted, bought>>

SubmitEmail(next) == pc = "email" /\ Submit(next, "password")
SubmitPassword(next) == pc = "password" /\ Submit(next, "after_password")

(* The check before the mail is awaited.                                   *)
CheckAfterPassword ==
    /\ pc = "after_password"
    /\ CheckIP
    /\ pc' = "mail"
    /\ UNCHANGED <<result, page, tries, sessions, phone, proxy>>

(* _poll_email_code finds a code.                                          *)
ReceiveMail ==
    /\ pc = "mail"
    /\ pc' = "code"
    /\ UNCHANGED <<result, page, tries, sessions, phone, proxy>>

(* _submit_verification_form, tried once.                                  *)
SubmitMailCode(next) ==
    /\ pc = "code"
    /\ Advanced(next)
    /\ page' = next
    /\ pc' = "before_phone"
    /\ Send
    /\ UNCHANGED <<result, tries, sessions, phone>>

(* _handle_phone_challenge, up to its decision.                            *)
CheckBeforePhone ==
    /\ pc = "before_phone"
    /\ CheckIP
    /\ pc' = IF page = "phone" THEN "request" ELSE "cookies"
    /\ UNCHANGED <<result, page, tries, sessions, phone, proxy>>

-----------------------------------------------------------------------------
(* HeroSMS.  A call is answered ("ok"), fails at once ("error": a status   *)
(* of 400 or more, a broken connection, an answer that makes no sense), or *)
(* times out, and is then sent again up to Retries times.  Independently   *)
(* of that it has been carried out or not.                                 *)
Replies == {"ok", "error", "timeout"}

(* Mutant: one try too many.                                               *)
SentAgainOnceMore(reply) == reply = "timeout" /\ tries < Retries

SentAgain(reply) == reply = "timeout" /\ tries + 1 < Retries

(* request_number, and its answer is here.                                 *)
NumberSold(a) ==
    /\ pc = "request"
    /\ status[a] = "unsold"
    /\ status' = [status EXCEPT ![a] = "open"]
    /\ held' = a
    /\ pc' = "number"
    /\ tries' = 0
    /\ bought' = bought + 1
    /\ UNCHANGED <<result, page, sessions, lost, broken, accepted, proxy>>

Repeat(reply) ==
    IF SentAgain(reply)
      THEN tries' = tries + 1 /\ UNCHANGED <<pc, result, sessions, held>>
      ELSE Unwind

(* The activation is sold, and the flow never learns of it.                *)
NumberUnanswered(a, reply) ==
    /\ pc = "request"
    /\ reply # "ok"
    /\ status[a] = "unsold"
    /\ status' = [status EXCEPT ![a] = "open"]
    /\ lost' = lost \union {a}
    /\ bought' = bought + 1
    /\ Repeat(reply)
    /\ UNCHANGED <<page, broken, accepted, proxy>>

(* Nothing is sold.                                                        *)
NumberRefused(reply) ==
    /\ pc = "request"
    /\ reply # "ok"
    /\ Repeat(reply)
    /\ UNCHANGED <<page, status, lost, broken, accepted, bought, proxy>>

SubmitNumber(next) == pc = "number" /\ Submit(next, "sms")

(* wait_for_code returns.                                                  *)
ReceiveSms ==
    /\ pc = "sms"
    /\ pc' = "smscode"
    /\ UNCHANGED <<result, page, tries, sessions, phone, proxy>>

(* _submit_verification_form with the SMS code: it is submitted, the site  *)
(* takes it or not, and the page that comes is read, which may fail, and   *)
(* looked at.                                                              *)
SubmitSmsCode(next, taken, read) ==
    /\ pc = "smscode"
    /\ page' = next
    /\ accepted' = IF taken THEN accepted \union {held} ELSE accepted
    /\ Send
    /\ IF read /\ Advanced(next)
         THEN pc' = "finish" /\ UNCHANGED <<result, tries, sessions, held, broken>>
         ELSE Unwind /\ broken' = broken \union {held}
    /\ UNCHANGED <<status, lost, bought>>

(* What HeroSMS does with a request to end the activation in hand: one     *)
(* that has ended stays as it is.                                          *)
EndActivation(as, done) ==
    status' = [status EXCEPT ![held] = IF done /\ @ = "open" THEN as ELSE @]

(* The activation in hand, if any, is given up in whatever state it is.    *)
LoseHeld == lost' = lost \union {a \in {held} \ {None} : status'[a] = "open"}

(* Mutant: finished is not set, and the finally clause cancels.            *)
FinishAndCancel(reply, done) ==
    /\ pc = "finish"
    /\ EndActivation("finished", done)
    /\ IF reply = "ok"
         THEN /\ pc' = "cancel" /\ tries' = 0
              /\ UNCHANGED <<result, sessions, held, lost, broken>>
         ELSE /\ Repeat(reply)
              /\ broken' = IF SentAgain(reply) THEN broken
                                ELSE broken \union {held}
              /\ UNCHANGED lost
    /\ UNCHANGED <<page, accepted, bought, proxy>>

(* finish_activation.  It takes any answer without an HTTP error for done. *)
Finish(reply, done) ==
    /\ pc = "finish"
    /\ EndActivation("finished", done)
    /\ IF reply = "ok"
         THEN /\ pc' = "cookies" /\ tries' = 0 /\ held' = None
              /\ LoseHeld
              /\ UNCHANGED <<result, sessions, broken>>
         ELSE /\ Repeat(reply)
              /\ broken' = IF SentAgain(reply) THEN broken
                                ELSE broken \union {held}
              /\ UNCHANGED lost
    /\ UNCHANGED <<page, accepted, bought, proxy>>

(* _safe_cancel_phone_activation, whose failure is swallowed, and the      *)
(* finally clause of run after it.                                         *)
Cancel(reply, done) ==
    /\ pc = "cancel"
    /\ EndActivation("cancelled", done)
    /\ IF SentAgain(reply)
         THEN tries' = tries + 1 /\ UNCHANGED <<pc, sessions, held, lost>>
         ELSE /\ pc' = "idle" /\ tries' = 0 /\ held' = None
              /\ sessions' = sessions \ {"signup"}
              /\ LoseHeld
    /\ UNCHANGED <<result, page, broken, accepted, bought, proxy>>

-----------------------------------------------------------------------------
(* The cookies are collected and the sign-up browser is closed.            *)
CollectCookies ==
    /\ pc = "cookies"
    /\ pc' = "keys"
    /\ page' = "unknown"
    /\ sessions' = sessions \ {"signup"}
    /\ UNCHANGED <<result, tries, phone, proxy>>

(* _open_keys_session: the keys page, unless Cloudflare is in front of it. *)
OpenKeys ==
    /\ pc = "keys"
    /\ \/ pc' = "generate" /\ sessions' = sessions \union {"keys"}
       \/ pc' = "flaresolverr" /\ UNCHANGED sessions
    /\ Send
    /\ UNCHANGED <<result, page, tries, phone>>

CreateSolver ==
    /\ pc = "flaresolverr"
    /\ pc' = "clearance"
    /\ sessions' = sessions \union {"flaresolverr"}
    /\ UNCHANGED <<result, page, tries, phone, proxy>>

(* _resolve_clearance: the page is solved and the solver session           *)
(* destroyed.                                                              *)
SolveClearance ==
    /\ pc = "clearance"
    /\ pc' = "keys_again"
    /\ sessions' = sessions \ {"flaresolverr"}
    /\ UNCHANGED <<result, page, tries, phone, proxy>>

OpenKeysAgain ==
    /\ pc = "keys_again"
    /\ pc' = "generate"
    /\ sessions' = sessions \union {"keys-clearance"}
    /\ Send
    /\ UNCHANGED <<result, page, tries, phone>>

(* A key is on the page; the keys browser is closed.                       *)
GenerateKey ==
    /\ pc = "generate"
    /\ pc' = "mid"
    /\ sessions' = sessions \ {"keys", "keys-clearance"}
    /\ Send
    /\ UNCHANGED <<result, page, tries, phone>>

(* Back in register_single: the mid check, the validation (through the     *)
(* proxy unless the helpers connect directly) and the post check.          *)
CheckMid ==
    /\ pc = "mid"
    /\ CheckIP
    /\ pc' = "validate"
    /\ UNCHANGED <<result, page, tries, sessions, phone, proxy>>

Validate ==
    /\ pc = "validate"
    /\ pc' = "post"
    /\ Send
    /\ UNCHANGED <<result, page, tries, sessions, phone>>

(* Mutant: the validation is the last that goes through the proxy.         *)
SkipPost ==
    /\ pc = "post"
    /\ pc' = "file"
    /\ UNCHANGED <<result, page, tries, sessions, phone, proxy>>

CheckPost ==
    /\ pc = "post"
    /\ CheckIP
    /\ pc' = "file"
    /\ UNCHANGED <<result, page, tries, sessions, phone, proxy>>

(* persist_account_result.                                                 *)
File ==
    /\ pc = "file"
    /\ pc' = "idle"
    /\ result' = "filed"
    /\ UNCHANGED <<page, tries, sessions, phone, proxy>>

-----------------------------------------------------------------------------
(* A call raises: a timeout, an element that is not there, a drifted       *)
(* address, a number that is rate limited, no provider configured.  What   *)
(* has just been opened and is not inside a try block yet stays open, and  *)
(* so does a solver session that could not be destroyed.                   *)
Raise ==
    /\ pc \notin {"idle", "request", "finish", "cancel", "keys", "flaresolverr",
                  "clearance", "keys_again", "generate"}
    /\ Unwind
    /\ UNCHANGED <<page, status, lost, broken, accepted, bought, proxy>>

(* The same in the second half of run, where Left are the sessions that    *)
(* may be open when the call raises and that no finally clause closes.     *)
RaiseLeaving(point, Left) ==
    /\ pc = point
    /\ \E left \in SUBSET Left : sessions' = left
    /\ pc' = "idle"
    /\ result' = "raised"
    /\ UNCHANGED <<page, tries, phone, proxy>>

RaiseInKeys ==
    \/ RaiseLeaving("keys", {"keys"})
    \/ RaiseLeaving("flaresolverr", {"flaresolverr"})
    \/ RaiseLeaving("clearance", {"flaresolverr"})
    \/ RaiseLeaving("keys_again", {"keys-clearance"})
    \/ RaiseLeaving("generate", {})

(* The process is killed; its browsers go with it.                         *)
Crash ==
    /\ pc # "idle"
    /\ pc' = "idle"
    /\ result' = "raised"
    /\ tries' = 0
    /\ sessions' = sessions \intersect {"flaresolverr"}
    /\ held' = None
    /\ UNCHANGED status
    /\ LoseHeld
    /\ UNCHANGED <<page, broken, accepted, bought, proxy>>

(* A sticky proxy changes its exit address; another one's is not looked at. *)
Drift ==
    /\ sticky
    /\ exit' \in Exits \ {exit}
    /\ strayed' = IF strayed = "away" /\ exit' = ipPre THEN "back" ELSE strayed
    /\ UNCHANGED <<pc, result, page, tries, sessions, phone, sticky, ipPre>>

-----------------------------------------------------------------------------

OnSite ==
    \E next \in Stages :
        \/ OpenSignup(next) \/ SubmitEmail(next) \/ SubmitPassword(next)
        \/ SubmitMailCode(next) \/ SubmitNumber(next)
        \/ \E taken, read \in BOOLEAN : SubmitSmsCode(next, taken, read)

AtHeroSms ==
    \E reply \in Replies :
        \/ \E a \in Activations : NumberUnanswered(a, reply)
        \/ NumberRefused(reply)
        \/ \E done \in BOOLEAN : Finish(reply, done) \/ Cancel(reply, done)

SoldNow == \E a \in Activations : NumberSold(a)

Proceed ==
    \/ OnSite \/ AtHeroSms \/ SoldNow
    \/ CheckAfterPassword \/ ReceiveMail \/ CheckBeforePhone \/ ReceiveSms
    \/ CollectCookies \/ OpenKeys \/ CreateSolver \/ SolveClearance
    \/ OpenKeysAgain \/ GenerateKey \/ CheckMid \/ Validate \/ CheckPost \/ File
    \/ Raise \/ RaiseInKeys

Next == Begin \/ Proceed \/ Crash \/ Drift

Spec == Init /\ [][Next]_vars

(* Every call has a timeout and every polling loop a deadline, so a        *)
(* sign-up does not stand still.                                           *)
FairSpec == Spec /\ WF_vars(Proceed)

-----------------------------------------------------------------------------
(* Properties.                                                             *)

(* When a sign-up is over, no activation is left open at HeroSMS, except   *)
(* one the flow was never told of, one the process died with, and one      *)
(* HeroSMS did not end when asked to: the try block of                     *)
(* _handle_phone_challenge leaves none behind, however it is left.         *)
ActivationsSettled ==
    \A a \in Activations : pc = "idle" /\ status[a] = "open" =>
        a \in lost

(* An activation whose code the site has taken is given back as unused     *)
(* only if an exception came between the submission of the code and the    *)
(* answer of finishActivation: the page after it could not be read or had  *)
(* not moved on, or finishActivation itself raised, carried out or not.    *)
(* In all of these the finally clause of _handle_phone_challenge does      *)
(* cancel a used activation; after an answer it never does.                *)
AcceptedNotCancelled ==
    \A a \in accepted : status[a] = "cancelled" => a \in broken

(* getNumberV2 is not idempotent and is sent again when its answer is      *)
(* late: a sign-up pays for as many activations as a request has tries,    *)
(* whatever else it retries, and for no more.                              *)
PaidWithinRetries == bought <= Retries

(* A sign-up that ends closes its sign-up browser, however it ends, and    *)
(* one that files an account leaves nothing open at all; a failed one may  *)
(* leave one keys browser or one solver session, opened before the try     *)
(* block of run.                                                           *)
ClosedAtEnd ==
    pc = "idle" =>
        /\ "signup" \notin sessions
        /\ result = "filed" => sessions = {}
        /\ \A s, t \in sessions : s = t

(* With a sticky proxy, if a request of the sign-up left at an address     *)
(* other than the first, its account is filed only if the exit has been    *)
(* back at the first address since.  The checks look at four moments, so a *)
(* change that is undone before the next of them goes unnoticed, and the   *)
(* account is filed all the same ("back"); one that lasts never does.      *)
StrayingNoticed == result = "filed" => strayed # "away"

(* A sign-up ends, whatever the site, HeroSMS and the proxy do: no loop of *)
(* submissions and requests goes on for ever.                              *)
SignupEnds == pc # "idle" ~> pc = "idle"

(* What the proofs rest on, by part.                                       *)
TriesInv ==
    /\ pc \in {"request", "finish", "cancel"} => tries < Retries
    /\ pc \in {"email", "password", "number"} => tries < SubmitTries
    /\ pc \notin {"request", "finish", "cancel", "email", "password", "number"}
         => tries = 0
    /\ pc \in {"open", "email", "password", "after_password", "mail", "code",
               "before_phone"} => bought = 0
    /\ bought <= (IF pc = "request" THEN tries ELSE Retries)

HeldInv ==
    /\ held # None <=> pc \in Holding
    /\ held # None => status[held] # "unsold"
    /\ pc \in {"number", "sms", "smscode"} =>
          held \notin accepted /\ status[held] = "open"
    /\ pc = "cancel" /\ held \in accepted => held \in broken

ActivationInv(a) ==
    /\ a # held /\ status[a] = "open" =>
          a \in lost
    /\ status[a] = "unsold" => a \notin accepted
    /\ status[a] = "cancelled" /\ a \in accepted => a \in broken

SessionInv ==
    /\ pc \in InBrowser => sessions = {"signup"}
    /\ pc \in {"open", "keys", "flaresolverr", "keys_again", "mid", "validate",
               "post", "file"} => sessions = {}
    /\ pc = "clearance" => sessions = {"flaresolverr"}
    /\ pc = "generate" => sessions = {"keys"} \/ sessions = {"keys-clearance"}
    /\ ClosedAtEnd

ExitInv ==
    /\ strayed = "away" => sticky /\ exit # ipPre
    /\ pc = "file" \/ result = "filed" => strayed # "away"
    /\ pc # "idle" => result = IF pc = "cancel" THEN "raised" ELSE "none"

IInv ==
    /\ TypeOK
    /\ TriesInv
    /\ HeldInv
    /\ \A a \in Activations : ActivationInv(a)
    /\ SessionInv
    /\ ExitInv
=============================================================================
