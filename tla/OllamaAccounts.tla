--------------------------- MODULE OllamaAccounts ---------------------------
(***************************************************************************)
(* The Ollama account store: accounts.json and apikey.txt, written by any  *)
(* number of registration processes (ollama_register.py) and revalidation  *)
(* processes (ollama_register.py --revalidate) that run side by side.      *)
(*                                                                         *)
(* Every helper of src/account_store.py that appends takes the FileLock of *)
(* its file, reads the file and writes it back before it releases; the     *)
(* read and the write are two steps here, so that the lock matters.        *)
(* revalidate() reads accounts.json without the lock and later overwrites  *)
(* the whole file with its edited copy.  A write of accounts.json is one   *)
(* step: os.replace swaps the file as a whole.                             *)
(***************************************************************************)
EXTENDS Naturals, Sequences, FiniteSets

CONSTANTS
    Registrars,     \* processes that run register_single() in a loop
    Revalidators,   \* processes that run revalidate()
    Emails,         \* addresses the temp-mail service can hand out, once each
    Keys,           \* strings the settings page can yield as an API key
    Scraped,        \* Scraped[e]: what may be scraped as the key of address e
    None            \* nobody holds the lock; no account in hand

Procs == Registrars \union Revalidators

ASSUME ProcsAssumption == Registrars \cap Revalidators = {} /\ None \notin Procs
ASSUME ScrapedAssumption == Scraped \in [Emails -> SUBSET Keys]

Status == {"verified", "unverified"}
Account == [email : Emails, key : Keys, status : Status]
Marked(a, s) == [email |-> a.email, key |-> a.key, status |-> s]

VARIABLES
    accounts,   \* contents of accounts.json
    apikeys,    \* lines of apikey.txt
    acctLock,   \* holder of accounts.json.lock
    keyLock,    \* holder of apikey.txt.lock
    issued,     \* addresses handed out so far (temp-mail service)
    accepted,   \* keys the validation endpoint has answered 200 for
    cutOff,     \* keys whose publication a crash has cut off (history)
    pc,         \* control point of every process
    rec,        \* the account a process is working on, or None
    seen,       \* did append_api_key find its key among the lines it read?
    view,       \* the account list a process has read
    pos         \* revalidate's position in its list

files == <<accounts, apikeys>>
locks == <<acctLock, keyLock>>
world == <<issued, accepted, cutOff>>
local == <<pc, rec, seen, view, pos>>
vars == <<files, locks, world, local>>

Points == {"idle", "validate", "accounts", "append", "keys", "addkey",
           "scan", "save"}

TypeOK ==
    /\ accounts \in Seq(Account)
    /\ apikeys \in Seq(Keys)
    /\ acctLock \in Procs \union {None}
    /\ keyLock \in Procs \union {None}
    /\ issued \subseteq Emails
    /\ accepted \subseteq Keys
    /\ cutOff \subseteq Keys
    /\ pc \in [Procs -> Points]
    /\ rec \in [Procs -> Account \union {None}]
    /\ seen \in [Procs -> BOOLEAN]
    /\ view \in [Procs -> Seq(Account)]
    /\ pos \in [Procs -> Nat]

Init ==
    /\ accounts = << >>
    /\ apikeys = << >>
    /\ acctLock = None
    /\ keyLock = None
    /\ issued = {}
    /\ accepted = {}
    /\ cutOff = {}
    /\ pc = [p \in Procs |-> "idle"]
    /\ rec = [p \in Procs |-> None]
    /\ seen = [p \in Procs |-> FALSE]
    /\ view = [p \in Procs |-> << >>]
    /\ pos = [p \in Procs |-> 0]

-----------------------------------------------------------------------------
(* Registration: register_single() and persist_account_result().           *)

(* The browser flow succeeded and yielded an address and a key, or raised  *)
(* (a failed step, a proxy drift at the mid check): the address is spent   *)
(* either way and nothing is on disk.                                      *)
Signup(p) ==
    /\ pc[p] = "idle"
    /\ \E e \in Emails \ issued :
          /\ issued' = issued \union {e}
          /\ \/ \E k \in Scraped[e] :
                   /\ rec' = [rec EXCEPT ![p] =
                          [email |-> e, key |-> k, status |-> "unverified"]]
                   /\ pc' = [pc EXCEPT ![p] = "validate"]
             \/ UNCHANGED <<rec, pc>>
    /\ UNCHANGED <<files, locks, accepted, cutOff, seen, view, pos>>

(* Mutant: the answer of the endpoint is not looked at.                    *)
TrustScrapedKey(p) ==
    /\ pc[p] = "validate"
    /\ rec' = [rec EXCEPT ![p] = Marked(@, "verified")]
    /\ pc' = [pc EXCEPT ![p] = "accounts"]
    /\ UNCHANGED <<files, locks, world, seen, view, pos>>

(* validate_api_key answers 200 or anything else; then the post-signup     *)
(* proxy check may raise before anything is written.                       *)
Validate(p) ==
    /\ pc[p] = "validate"
    /\ \E ok \in BOOLEAN, drift \in BOOLEAN :
          /\ accepted' = IF ok THEN accepted \union {rec[p].key} ELSE accepted
          /\ rec' = [rec EXCEPT ![p] =
                 IF drift THEN None
                 ELSE Marked(@, IF ok THEN "verified" ELSE "unverified")]
          /\ pc' = [pc EXCEPT ![p] = IF drift THEN "idle" ELSE "accounts"]
    /\ UNCHANGED <<files, locks, issued, cutOff, seen, view, pos>>

(* Mutant: the list is read before the lock is there to be waited for.     *)
ReadWithoutLock(p) ==
    /\ pc[p] = "accounts"
    /\ view' = [view EXCEPT ![p] = accounts]
    /\ pc' = [pc EXCEPT ![p] = "append"]
    /\ UNCHANGED <<files, locks, world, rec, seen, pos>>

(* append_account_record: enter the lock and read the list.                *)
LockAccounts(p) ==
    /\ pc[p] = "accounts"
    /\ acctLock = None
    /\ acctLock' = p
    /\ view' = [view EXCEPT ![p] = accounts]
    /\ pc' = [pc EXCEPT ![p] = "append"]
    /\ UNCHANGED <<files, keyLock, world, rec, seen, pos>>

Known(list, r) ==
    \E i \in DOMAIN list : list[i].key = r.key \/ list[i].email = r.email

(* append_account_record: a known email or key leaves the file alone,      *)
(* otherwise the list read is written back with the record at its end.     *)
(* persist_account_result goes on to the key file for a verified record,   *)
(* whether or not the account was added.                                   *)
AppendAccount(p) ==
    /\ pc[p] = "append"
    /\ accounts' = IF Known(view[p], rec[p]) THEN accounts
                   ELSE Append(view[p], rec[p])
    /\ acctLock' = None
    /\ view' = [view EXCEPT ![p] = << >>]
    /\ IF rec[p].status = "verified"
         THEN pc' = [pc EXCEPT ![p] = "keys"] /\ UNCHANGED rec
         ELSE /\ pc' = [pc EXCEPT ![p] = "idle"]
              /\ rec' = [rec EXCEPT ![p] = None]
    /\ UNCHANGED <<apikeys, keyLock, world, seen, pos>>

-----------------------------------------------------------------------------
(* append_api_key, called by both kinds of process.                        *)

(* Mutant: the lines are read before the lock is there to be waited for.   *)
ReadKeysWithoutLock(p) ==
    /\ pc[p] = "keys"
    /\ pc' = [pc EXCEPT ![p] = "addkey"]
    /\ seen' = [seen EXCEPT ![p] = \E i \in DOMAIN apikeys :
                                       apikeys[i] = rec[p].key]
    /\ UNCHANGED <<files, locks, world, rec, view, pos>>

(* Enter the lock and read the lines; a known key leaves the file alone.   *)
LockKeys(p) ==
    /\ pc[p] = "keys"
    /\ keyLock = None
    /\ keyLock' = p
    /\ pc' = [pc EXCEPT ![p] = "addkey"]
    /\ seen' = [seen EXCEPT ![p] = \E i \in DOMAIN apikeys :
                                       apikeys[i] = rec[p].key]
    /\ UNCHANGED <<files, acctLock, world, rec, view, pos>>

(* Mutant: the whole record is written where the key belongs.              *)
AppendRecord(p) ==
    /\ pc[p] = "addkey"
    /\ apikeys' = Append(apikeys, rec[p])
    /\ keyLock' = None
    /\ pc' = [pc EXCEPT ![p] = "idle"]
    /\ UNCHANGED <<accounts, acctLock, world, rec, seen, view, pos>>

(* Append the line unless it was found, release, and return to the loop of *)
(* the caller.                                                             *)
AppendKey(p) ==
    /\ pc[p] = "addkey"
    /\ apikeys' = IF seen[p] THEN apikeys ELSE Append(apikeys, rec[p].key)
    /\ keyLock' = None
    /\ rec' = [rec EXCEPT ![p] = None]
    /\ seen' = [seen EXCEPT ![p] = FALSE]
    /\ pc' = [pc EXCEPT ![p] = IF p \in Registrars THEN "idle" ELSE "scan"]
    /\ pos' = [pos EXCEPT ![p] = IF p \in Registrars THEN @ ELSE @ + 1]
    /\ UNCHANGED <<accounts, acctLock, world, view>>

-----------------------------------------------------------------------------
(* Revalidation: revalidate().                                             *)

(* load_accounts, without the lock.                                        *)
Load(p) ==
    /\ pc[p] = "idle"
    /\ view' = [view EXCEPT ![p] = accounts]
    /\ pos' = [pos EXCEPT ![p] = 1]
    /\ pc' = [pc EXCEPT ![p] = "scan"]
    /\ UNCHANGED <<files, locks, world, rec, seen>>

Finished(p) == pos[p] > Len(view[p])

(* The loop passes over a verified account, and over an unverified one the *)
(* endpoint still refuses.                                                 *)
PassOver(p) ==
    /\ pc[p] = "scan"
    /\ ~Finished(p)
    /\ pos' = [pos EXCEPT ![p] = @ + 1]
    /\ UNCHANGED <<files, locks, world, pc, rec, seen, view>>

(* An unverified account whose key is now accepted is marked in the list.  *)
Accept(p) ==
    /\ pc[p] = "scan"
    /\ ~Finished(p)
    /\ LET a == view[p][pos[p]]
           promoted == Marked(a, "verified")
       IN /\ a.status = "unverified"
          /\ accepted' = accepted \union {a.key}
          /\ rec' = [rec EXCEPT ![p] = promoted]
          /\ view' = [view EXCEPT ![p] = [@ EXCEPT ![pos[p]] = promoted]]
    /\ pc' = [pc EXCEPT ![p] = "save"]
    /\ UNCHANGED <<files, locks, issued, cutOff, seen, pos>>

(* Mutant: save_accounts does not wait for the lock.                       *)
SaveWithoutLock(p) ==
    /\ pc[p] = "save"
    /\ accounts' = view[p]
    /\ pc' = [pc EXCEPT ![p] = "keys"]
    /\ UNCHANGED <<apikeys, locks, world, rec, seen, view, pos>>

(* Mutant: the promoted account's key is not published.                    *)
SaveOnly(p) ==
    /\ pc[p] = "save"
    /\ acctLock = None
    /\ accounts' = view[p]
    /\ pc' = [pc EXCEPT ![p] = "scan"]
    /\ pos' = [pos EXCEPT ![p] = @ + 1]
    /\ UNCHANGED <<apikeys, locks, world, rec, seen, view>>

(* save_accounts: the whole list replaces the file, under the lock.        *)
Save(p) ==
    /\ pc[p] = "save"
    /\ acctLock = None
    /\ accounts' = view[p]
    /\ pc' = [pc EXCEPT ![p] = "keys"]
    /\ UNCHANGED <<apikeys, locks, world, rec, seen, view, pos>>

Finish(p) ==
    /\ pc[p] = "scan"
    /\ Finished(p)
    /\ pc' = [pc EXCEPT ![p] = "idle"]
    /\ view' = [view EXCEPT ![p] = << >>]
    /\ pos' = [pos EXCEPT ![p] = 0]
    /\ UNCHANGED <<files, locks, world, rec, seen>>

-----------------------------------------------------------------------------

(* The process dies: the operating system drops its locks, its locals are  *)
(* gone, the files stay as they are.  Run again, it starts afresh.         *)
Crash(p) ==
    /\ pc[p] # "idle"
    /\ cutOff' = IF pc[p] \in {"keys", "addkey"}
                 THEN cutOff \union {rec[p].key} ELSE cutOff
    /\ acctLock' = IF acctLock = p THEN None ELSE acctLock
    /\ keyLock' = IF keyLock = p THEN None ELSE keyLock
    /\ pc' = [pc EXCEPT ![p] = "idle"]
    /\ rec' = [rec EXCEPT ![p] = None]
    /\ seen' = [seen EXCEPT ![p] = FALSE]
    /\ view' = [view EXCEPT ![p] = << >>]
    /\ pos' = [pos EXCEPT ![p] = 0]
    /\ UNCHANGED <<files, issued, accepted>>

Register(p) ==
    \/ Signup(p) \/ Validate(p)
    \/ LockAccounts(p) \/ AppendAccount(p)

Revalidate(p) ==
    \/ Load(p) \/ PassOver(p) \/ Accept(p) \/ Save(p) \/ Finish(p)

Next ==
    \/ \E p \in Registrars : Register(p)
    \/ \E p \in Revalidators : Revalidate(p)
    \/ \E p \in Procs : LockKeys(p) \/ AppendKey(p) \/ Crash(p)

Spec == Init /\ [][Next]_vars

-----------------------------------------------------------------------------
(* Properties.                                                             *)

(* No two entries of a list share an address or a key.                     *)
Distinct(list) ==
    \A i, j \in DOMAIN list :
        list[i].email = list[j].email \/ list[i].key = list[j].key => i = j

(* No two records of accounts.json share an address or a key and no line   *)
(* of apikey.txt is repeated, however the processes interleave: the test   *)
(* and the write of append_account_record and append_api_key are one       *)
(* critical section, and revalidate() only ever writes back a list that    *)
(* was free of duplicates when it read it.                                 *)
NoDuplicates ==
    /\ Distinct(accounts)
    /\ \A i, j \in DOMAIN apikeys : apikeys[i] = apikeys[j] => i = j

(* Only keys the validation endpoint has accepted are published in         *)
(* apikey.txt or sit in a record marked verified, whichever process wrote  *)
(* it and from however old a list (append_production_key=validation.ok,    *)
(* and revalidate()'s "if not validation.ok: continue").                   *)
OnlyAcceptedKeys ==
    /\ \A i \in DOMAIN apikeys : apikeys[i] \in accepted
    /\ \A i \in DOMAIN accounts :
          accounts[i].status = "verified" => accounts[i].key \in accepted

(* When no process is in the middle of a registration or a revalidation,   *)
(* every verified account has its key in apikey.txt, unless a process died *)
(* between writing the record and writing the key: persist_account_result  *)
(* and revalidate() write both, but in two critical sections.              *)
VerifiedKeysPublished ==
    (\A p \in Procs : pc[p] = "idle") =>
        \A i \in DOMAIN accounts : accounts[i].status = "verified" =>
            \/ accounts[i].key \in cutOff
            \/ \E j \in DOMAIN apikeys : apikeys[j] = accounts[i].key

(* A step never drops an account that is on file: append_account_record    *)
(* writes back all it read under the lock it still holds.                  *)
NoAccountLost ==
    [][\A i \in DOMAIN accounts : \E j \in DOMAIN accounts' :
           accounts'[j].email = accounts[i].email]_vars

(* It is save_accounts alone that can drop one: whatever else the other    *)
(* processes are doing, and wherever a process dies, an account on file    *)
(* stays there through every step that is not revalidate() writing its     *)
(* list back.                                                              *)
WroteBack ==
    \E p \in Revalidators : pc[p] = "save" /\ pc'[p] = "keys"
RegistrationsKeepAccounts ==
    [][~WroteBack =>
           \A i \in DOMAIN accounts : \E j \in DOMAIN accounts' :
               accounts'[j].email = accounts[i].email]_vars

(* A step never turns a verified account back to unverified, provided that *)
(* one revalidation runs at a time: a registration that is between its     *)
(* read and its write holds the lock save_accounts waits for, so it cannot *)
(* write the unverified status back.  (Two revalidations side by side do   *)
(* demote: the second one writes back the list it read at its start.)      *)
NoDemotion ==
    [][\A i \in DOMAIN accounts, j \in DOMAIN accounts' :
           /\ accounts[i].email = accounts'[j].email
           /\ accounts[i].status = "verified"
           => accounts'[j].status = "verified"]_vars

-----------------------------------------------------------------------------
(* The inductive invariant behind the properties above.                    *)

(* A key is accounted for when it is published, or a crash cut its         *)
(* publication off, or a process is about to publish it.                   *)
AccountedFor(k) ==
    \/ \E j \in DOMAIN apikeys : apikeys[j] = k
    \/ k \in cutOff
    \/ \E q \in Procs : pc[q] \in {"keys", "addkey"} /\ rec[q].key = k

(* What a process holds at each control point; a lock is held exactly      *)
(* between the read and the write it protects, and what was read under it  *)
(* is still what is on disk.                                               *)
ProcessInv(p) ==
    /\ pc[p] \in {"validate", "accounts", "append", "keys", "addkey", "save"} =>
          rec[p] \in Account
    /\ pc[p] = "append" => acctLock = p /\ view[p] = accounts
    /\ pc[p] = "addkey" => /\ keyLock = p
                           /\ seen[p] <=> \E i \in DOMAIN apikeys :
                                              apikeys[i] = rec[p].key
    /\ pc[p] \in {"scan", "save"} => pos[p] >= 1
    /\ pc[p] \in {"accounts", "append"} /\ rec[p].status = "verified" =>
          rec[p].key \in accepted
    /\ pc[p] \in {"keys", "addkey", "save"} =>
          rec[p].status = "verified" /\ rec[p].key \in accepted

(* What holds of the lists, on disk and in a process's hands.              *)
ListInv ==
    /\ Distinct(accounts)
    /\ \A i \in DOMAIN accounts : accounts[i].status = "verified" =>
          accounts[i].key \in accepted /\ AccountedFor(accounts[i].key)
    /\ \A p \in Procs :
          /\ Distinct(view[p])
          /\ \A i \in DOMAIN view[p] : view[p][i].status = "verified" =>
                /\ view[p][i].key \in accepted
                /\ \/ AccountedFor(view[p][i].key)
                   \/ pc[p] = "save" /\ rec[p].key = view[p][i].key

KeyInv ==
    /\ \A i, j \in DOMAIN apikeys : apikeys[i] = apikeys[j] => i = j
    /\ \A i \in DOMAIN apikeys : apikeys[i] \in accepted

IInv ==
    /\ TypeOK
    /\ \A p \in Procs : ProcessInv(p)
    /\ ListInv
    /\ KeyInv

(* And for one revalidation at a time: every account of its copy is on     *)
(* file, and verified there only if it is verified in the copy.            *)
CopyInv ==
    \A p \in Revalidators : \A j \in DOMAIN view[p] :
        /\ \E i \in DOMAIN accounts : accounts[i].email = view[p][j].email
        /\ \A i \in DOMAIN accounts :
              /\ accounts[i].email = view[p][j].email
              /\ accounts[i].status = "verified"
              => view[p][j].status = "verified"
=============================================================================
