--------------------------- MODULE LegacyRegister ---------------------------
(***************************************************************************)
(* puter_register.py, the first registration program, and the program that *)
(* confirms what it left unconfirmed, confirm_pending.py.  Both are runs   *)
(* of a process on plain files that no lock guards: lines appended to      *)
(* pending.jsonl, puter_tokens.txt and outlook_used.txt, and               *)
(* puter_accounts.json, which is read and written back as a whole.         *)
(*                                                                         *)
(* The Turnstile solver, the mailboxes and Puter are external.  A Puter    *)
(* account is named after its record in pending.jsonl; of the records and  *)
(* lines elsewhere only the outlook account matters, and of a status only  *)
(* what load_used tells apart.  That Puter finds a random username taken   *)
(* is left out.                                                            *)
(***************************************************************************)
EXTENDS Naturals, Sequences

CONSTANTS
    Outlooks,   \* the pool of outlook accounts
    Batches,    \* processes of puter_register.py
    Passes,     \* --passes
    MaxPending, \* bound: attempts ever begun
    None

ASSUME LegacyAssumption == Passes \in Nat \ {0} /\ MaxPending \in Nat /\ None \notin Outlooks

VARIABLES
    puter,      \* puter[o]: the username of the account Puter has for o
    pending,    \* pending.jsonl: the attempts; the index is the username
    records,    \* puter_accounts.json: the outlooks with a record, if it
    readable,   \* can be read
    tokens,     \* puter_tokens.txt: the outlooks whose token is in it
    used,       \* outlook_used.txt: the last status of each outlook
    batch,      \* the batches
    confirm     \* confirm_pending.py: its point, the records it read

files == <<pending, records, readable, tokens, used>>
legacyVars == <<puter, files, batch, confirm>>

Statuses == {"none", "success", "email_blacklist", "email_duplicate", "retry_exhausted"}

(* pc: "next" between attempts, "solve" to "mark" within one, "exhausted"  *)
(* after the last pass; queue, later: still to try in this pass, in the    *)
(* next; name: the username; view: the records append_account has read.    *)
Idle == [pc |-> "off", queue |-> {}, later |-> {}, pass |-> 0, cur |-> None,
         name |-> 0, view |-> {}]
ConfirmIdle == [pc |-> "off", view |-> {}]

LegacyInit ==
    /\ puter = [o \in {} |-> 0]
    /\ pending = <<>>
    /\ records = {} /\ readable = TRUE
    /\ tokens = {}
    /\ used = [o \in Outlooks |-> "none"]
    /\ batch = [b \in Batches |-> Idle]
    /\ confirm = ConfirmIdle

(* What main leaves out: load_already_registered, of a file that cannot be *)
(* read nothing, and the statuses that are final.                          *)
Excluded(o) ==
    \/ readable /\ o \in records
    \/ used[o] \in {"success", "email_blacklist", "email_duplicate"}

At(b, pc) == batch[b].pc = pc
Go(b, pc) == batch' = [batch EXCEPT ![b].pc = pc]

(* write_text truncates the file before it fills it: what is there in the  *)
(* meantime, or for good after a crash, is empty or cannot be read.  If    *)
(* another process truncates or fills it in between, what the last one     *)
(* leaves may be a mixture, which cannot be read either.                   *)
Truncate == records' = {} /\ readable' \in BOOLEAN
Fill(content, others) ==
    /\ records' = content
    /\ readable' \in IF others \/ records # {} THEN BOOLEAN ELSE {TRUE}

-----------------------------------------------------------------------------
(* A batch.                                                                *)

(* --count takes any number of the accounts that are left.                 *)
StartBatch(b) ==
    /\ At(b, "off")
    /\ \E fresh \in SUBSET {o \in Outlooks : ~Excluded(o)} \ {{}} :
          batch' = [batch EXCEPT ![b] =
              [Idle EXCEPT !.pc = "next", !.queue = fresh, !.pass = 1]]
    /\ UNCHANGED <<puter, files, confirm>>

(* Mutant: the attempt is not recorded before the signup.                  *)
BeginUnrecorded(b) ==
    /\ At(b, "next")
    /\ Len(pending) < MaxPending
    /\ \E o \in batch[b].queue :
          batch' = [batch EXCEPT ![b] = [batch[b] EXCEPT !.pc = "solve",
              !.queue = @ \ {o}, !.cur = o, !.name = Len(pending) + 1]]
    /\ UNCHANGED <<puter, files, confirm>>

(* run_single begins: append_pending.                                      *)
Begin(b) ==
    /\ At(b, "next")
    /\ Len(pending) < MaxPending
    /\ \E o \in batch[b].queue :
          /\ pending' = Append(pending, o)
          /\ batch' = [batch EXCEPT ![b] = [batch[b] EXCEPT !.pc = "solve",
                !.queue = @ \ {o}, !.cur = o, !.name = Len(pending')]]
    /\ UNCHANGED <<puter, records, readable, tokens, used, confirm>>

(* The attempt ends here and the next pass tries the account again: no     *)
(* token from the solver in three tries, an error or silence of Puter, an  *)
(* accounts file that cannot be read, any other exception.                 *)
Retry(b) ==
    /\ batch[b].pc \notin {"off", "next", "exhausted"}
    /\ batch' = [batch EXCEPT ![b] = [batch[b] EXCEPT !.pc = "next",
          !.cur = None, !.name = 0, !.view = {}, !.later = @ \union {batch[b].cur}]]
    /\ UNCHANGED <<puter, files, confirm>>

(* The solver delivers.                                                    *)
Solved(b) ==
    /\ At(b, "solve")
    /\ Go(b, "signup")
    /\ UNCHANGED <<puter, files, confirm>>

CreateAccount(b) ==
    /\ batch[b].cur \notin DOMAIN puter
    /\ puter' = [o \in DOMAIN puter \union {batch[b].cur} |->
                    IF o = batch[b].cur THEN batch[b].name ELSE puter[o]]

(* Mutant: success is on file before the account is saved.                 *)
SignupMarked(b) ==
    /\ At(b, "signup")
    /\ CreateAccount(b)
    /\ Go(b, "read")
    /\ used' = [used EXCEPT ![batch[b].cur] = "success"]
    /\ UNCHANGED <<pending, records, readable, tokens, confirm>>

(* Puter creates the account and answers with the token.  Then the code is *)
(* awaited and confirmed, which may fail: the account is saved anyway.     *)
Signup(b) ==
    /\ At(b, "signup")
    /\ CreateAccount(b)
    /\ Go(b, "read")
    /\ UNCHANGED <<files, confirm>>

(* Puter creates the account, but the answer is lost.                      *)
SignupUnanswered(b) ==
    /\ At(b, "signup")
    /\ CreateAccount(b)
    /\ Go(b, "lost")
    /\ UNCHANGED <<files, confirm>>

Leave(b) ==
    batch' = [batch EXCEPT ![b] = [@ EXCEPT !.pc = "next", !.cur = None,
                                            !.name = 0, !.view = {}]]

(* Skip: the account exists already, or Puter does not take the address.   *)
Skip(b) ==
    /\ At(b, "signup")
    /\ \E kind \in {"email_blacklist", "email_duplicate"} :
          /\ kind = "email_duplicate" => batch[b].cur \in DOMAIN puter
          /\ used' = [used EXCEPT ![batch[b].cur] = kind]
    /\ Leave(b)
    /\ UNCHANGED <<puter, pending, records, readable, tokens, confirm>>

-----------------------------------------------------------------------------
(* What an attempt saves: append_account, append_token, mark_used.         *)

ReadRecords(b) ==
    /\ At(b, "read")
    /\ readable
    /\ batch' = [batch EXCEPT ![b].pc = "truncate", ![b].view = records]
    /\ UNCHANGED <<puter, files, confirm>>

WriteRecords(b) ==
    /\ \/ At(b, "truncate") /\ Truncate /\ Go(b, "fill")
       \/ /\ At(b, "fill")
          /\ Fill(batch[b].view \union {batch[b].cur},
                  confirm.pc = "fill" \/ \E c \in Batches \ {b} : At(c, "fill"))
          /\ Go(b, "token")
    /\ UNCHANGED <<puter, pending, tokens, used, confirm>>

AppendToken(b) ==
    /\ At(b, "token")
    /\ tokens' = tokens \union {batch[b].cur}
    /\ Go(b, "mark")
    /\ UNCHANGED <<puter, pending, records, readable, used, confirm>>

MarkSuccess(b) ==
    /\ At(b, "mark")
    /\ used' = [used EXCEPT ![batch[b].cur] = "success"]
    /\ Leave(b)
    /\ UNCHANGED <<puter, pending, records, readable, tokens, confirm>>

-----------------------------------------------------------------------------
(* Between attempts.                                                       *)

NextPass(b) ==
    /\ At(b, "next") /\ batch[b].queue = {} /\ batch[b].later # {}
    /\ batch' = [batch EXCEPT
          ![b].pc = IF batch[b].pass < Passes THEN "next" ELSE "exhausted",
          ![b].queue = IF batch[b].pass < Passes THEN batch[b].later ELSE {},
          ![b].later = IF batch[b].pass < Passes THEN {} ELSE @,
          ![b].pass = IF @ < Passes THEN @ + 1 ELSE @]
    /\ UNCHANGED <<puter, files, confirm>>

(* What no pass has settled is marked, for the next batch to try.          *)
MarkExhausted(b) ==
    /\ At(b, "exhausted")
    /\ \E o \in batch[b].later :
          /\ used' = [used EXCEPT ![o] = "retry_exhausted"]
          /\ batch' = [batch EXCEPT ![b].later = @ \ {o}]
    /\ UNCHANGED <<puter, pending, records, readable, tokens, confirm>>

(* Nothing is left to do, or the process is killed wherever it is.         *)
EndBatch(b) ==
    /\ ~At(b, "off")
    /\ batch' = [batch EXCEPT ![b] = Idle]
    /\ UNCHANGED <<puter, files, confirm>>

-----------------------------------------------------------------------------
(* confirm_pending.py: the accounts are read once, the codes awaited, up   *)
(* to two minutes each, and then what was read is written back, with what  *)
(* could be confirmed.                                                     *)

ConfirmRead ==
    /\ confirm.pc = "off"
    /\ readable
    /\ confirm' = [pc |-> "truncate", view |-> records]
    /\ UNCHANGED <<puter, files, batch>>

ConfirmWrite ==
    /\ \/ confirm.pc = "truncate" /\ Truncate /\ confirm' = [confirm EXCEPT !.pc = "fill"]
       \/ /\ confirm.pc = "fill"
          /\ Fill(confirm.view, \E b \in Batches : At(b, "fill"))
          /\ confirm' = ConfirmIdle
    /\ UNCHANGED <<puter, pending, tokens, used, batch>>

ConfirmDies ==
    /\ confirm.pc # "off"
    /\ confirm' = ConfirmIdle
    /\ UNCHANGED <<puter, files, batch>>

Step(b) ==
    \/ StartBatch(b) \/ Begin(b) \/ Retry(b)
    \/ Solved(b) \/ Signup(b) \/ SignupUnanswered(b) \/ Skip(b)
    \/ ReadRecords(b) \/ WriteRecords(b) \/ AppendToken(b) \/ MarkSuccess(b)
    \/ NextPass(b) \/ MarkExhausted(b) \/ EndBatch(b)

LegacyNext ==
    \/ \E b \in Batches : Step(b)
    \/ ConfirmRead \/ ConfirmWrite \/ ConfirmDies

LegacySpec == LegacyInit /\ [][LegacyNext]_legacyVars

-----------------------------------------------------------------------------
(* Properties.                                                             *)

(* "A crash never loses the username": whatever is killed, whichever       *)
(* answer is lost and however often the account is tried, each account     *)
(* that Puter has is in pending.jsonl, for its own outlook, under the      *)
(* username Puter knows.                                                   *)
UsernamesKept ==
    \A o \in DOMAIN puter :
        puter[o] \in DOMAIN pending /\ pending[puter[o]] = o

(* An outlook account that no later batch would try, unless Puter refuses  *)
(* it, has an account at Puter; and its token is on file, whatever the     *)
(* batches and a confirmation overwrite, unless the account was created in *)
(* an attempt that did not get to save it, and met as a duplicate later.   *)
NoneStranded ==
    \A o \in Outlooks :
        Excluded(o) =>
            \/ used[o] = "email_blacklist"
            \/ /\ o \in DOMAIN puter
               /\ o \in tokens \union records \/ used[o] = "email_duplicate"

(* What the proofs rest on.  An attempt is on file before anything else;   *)
(* only accounts that exist are saved, by whoever writes a list back; and  *)
(* the token is on file before the status.                                 *)
Saving == {"read", "truncate", "fill", "token", "mark"}
Attempting == {"solve", "signup", "lost"} \union Saving
Batch == [pc : {"off", "next", "exhausted"} \union Attempting,
          queue : SUBSET Outlooks, later : SUBSET Outlooks, pass : Nat,
          cur : Outlooks \union {None}, name : Nat, view : SUBSET Outlooks]

LegacyTyped ==
    /\ DOMAIN puter \subseteq Outlooks
    /\ pending \in Seq(Outlooks)
    /\ used \in [Outlooks -> Statuses]
    /\ batch \in [Batches -> Batch]

AttemptInv ==
    \A b \in Batches : batch[b].pc \in Attempting =>
        /\ batch[b].cur \in Outlooks
        /\ batch[b].name \in DOMAIN pending
        /\ pending[batch[b].name] = batch[b].cur

SavedInv ==
    /\ records \subseteq DOMAIN puter
    /\ confirm.view \subseteq DOMAIN puter
    /\ \A b \in Batches :
          /\ batch[b].view \subseteq DOMAIN puter
          /\ batch[b].pc \in Saving => batch[b].cur \in DOMAIN puter
          /\ batch[b].pc = "mark" => batch[b].cur \in tokens

StatusInv ==
    \A o \in Outlooks :
        /\ used[o] \in {"success", "email_duplicate"} => o \in DOMAIN puter
        /\ used[o] = "success" => o \in tokens

LegacyInv == LegacyTyped /\ UsernamesKept /\ AttemptInv /\ SavedInv /\ StatusInv
=============================================================================
