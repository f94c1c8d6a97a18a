----------------------------- MODULE PoolCleanup -----------------------------
(***************************************************************************)
(* pool_cleaner.py, restore_cleanup.py and import_channels.py beside the   *)
(* gateway: commands an operator runs, each a process of its own, on the   *)
(* gateway's state file and on the channels of new-api.                    *)
(*                                                                         *)
(* Of the gateway, which may run beside any of this, only the flags of its *)
(* keys matter: the module PoolFlags, which PoolGateway implements.        *)
(* new-api is external: it gives a new channel a new id, and its answer to *)
(* any call may be lost, before or after it has done its work, which ends  *)
(* the command.  Of a channel only the id and the key matter; its tag and  *)
(* address are those of the key's pool.                                    *)
(***************************************************************************)
EXTENDS PoolFlags, Naturals, FiniteSets, Functions

CONSTANTS
    Deleters,   \* runs of the delete command
    OllamaCount,\* 4: how many ollama channels the delete command expects
    PageSize,   \* 100: channels new-api returns at a time
    MaxId       \* bound: channels ever created

Channel == [id : Nat, key : Keys]
OllamaKeys == {k \in Keys : Pool[k] = "ollama"}
PuterKeys == {k \in Keys : Pool[k] = "puter"}

ASSUME CleanupAssumption ==
    OllamaCount \in Nat /\ PageSize \in Nat \ {0} /\ MaxId \in Nat

VARIABLES
    channels,   \* the channels of new-api
    made,       \* how many were ever created
    purge,      \* the purge: its point, the state it read
    delete,     \* each delete: its point, the ids it listed, and how many it
                \* has deleted since the ollama count was last right, or it
                \* counted right on a listing not all channels stayed for
                \* (history)
    listing,    \* each delete's listing in progress: the channels returned,
                \* how many in all and how many ollama ones, one returned
                \* twice counted twice; and has no channel come or gone
                \* since its first page (history)?
    rewritten   \* keys whose flags a command replaced since the gateway
                \* was last stopped (history)

commandVars == <<channels, made, purge, delete, listing, rewritten>>
cleanupVars == <<flagVars, commandVars>>

NoPurge == [pc |-> "off", view |-> NoFlags]
NoDelete == [pc |-> "off", ids |-> {}, wrong |-> 0]
NoListing == [seen |-> {}, len |-> 0, ollama |-> 0, still |-> TRUE]

CleanupInit ==
    /\ FlagsInit
    /\ channels = {} /\ made = 0
    /\ purge = NoPurge
    /\ delete = [d \in Deleters |-> NoDelete]
    /\ listing = [d \in Deleters |-> NoListing]
    /\ rewritten = {}

OllamaChannels == {c \in channels : c.key \in OllamaKeys}
WrongCount == Cardinality(OllamaChannels) # OllamaCount

(* A channel comes or goes under the listings that have begun.             *)
Stirred ==
    [d \in Deleters |-> [listing[d] EXCEPT !.still = @ /\ listing[d].seen = {}]]

(* new-api adds a channel for a key.                                       *)
Create(k) ==
    /\ made < MaxId
    /\ made' = made + 1
    /\ channels' = channels \union {[id |-> made + 1, key |-> k]}
    /\ listing' = Stirred
    /\ delete' = IF WrongCount' THEN delete
                 ELSE [d \in Deleters |-> [delete[d] EXCEPT !.wrong = 0]]

-----------------------------------------------------------------------------

(* A step of the gateway.  As it stops, its flags replace what the         *)
(* commands have written, and as it starts, it has them in memory.         *)
Beside ==
    /\ rewritten' = IF up' # up THEN {} ELSE rewritten
    /\ UNCHANGED <<channels, made, purge, delete, listing>>

Gateway == FlagsNext /\ Beside

(* A command replaces the flags of some keys in the state file.            *)
Replace(ks) == rewritten' = IF up THEN {} ELSE rewritten \union ks

(* purge: the state is read and its Puter keys dropped, then it is written.*)
PurgeRead ==
    /\ purge.pc = "off"
    /\ purge' = [pc |-> "write", view |-> Restrict(file, DOMAIN file \ PuterKeys)]
    /\ UNCHANGED <<flagVars, channels, made, delete, listing, rewritten>>

(* The keys a purge replaces: the Puter keys, and those whose flag in the  *)
(* file has changed since it was read.                                     *)
Purged == {k \in Keys : k \in DOMAIN purge.view \intersect DOMAIN file =>
                            purge.view[k] # file[k]}

(* Mutant: every pool is emptied.                                          *)
PurgeAll ==
    /\ purge.pc = "write"
    /\ file' = NoFlags /\ Replace(Purged)
    /\ purge' = NoPurge
    /\ UNCHANGED <<up, health, channels, made, delete, listing>>

(* It then reads the file again and raises if the gateway has saved in the *)
(* meantime, which changes nothing; what it itself overwrote since it read *)
(* the file it does not notice.                                            *)
PurgeWrite ==
    /\ purge.pc = "write"
    /\ file' = purge.view /\ Replace(Purged)
    /\ purge' = NoPurge
    /\ UNCHANGED <<up, health, channels, made, delete, listing>>

-----------------------------------------------------------------------------
(* delete, once its number of candidates is the expected or an allowed one.*)

DeleteStart(d) ==
    /\ delete[d].pc = "off"
    /\ delete' = [delete EXCEPT ![d] = [NoDelete EXCEPT !.pc = "list"]]
    /\ listing' = [listing EXCEPT ![d] = NoListing]
    /\ UNCHANGED <<flagVars, channels, made, purge, rewritten>>

(* The channels are listed in pages, each with the number there are, until *)
(* as many have been returned or a page is empty.  While none comes or     *)
(* goes the pages are parts of one order, whichever new-api has; then each *)
(* is full or the last, and has no channel of another.  Once the channels  *)
(* have changed, a page may repeat some and pass others over: any channels *)
(* may be on it, more than an order with its gaps would allow.             *)
Pages(d) ==
    {S \in SUBSET channels :
        /\ Cardinality(S) <= PageSize
        /\ listing[d].still =>
              /\ S \intersect listing[d].seen = {}
              /\ \/ Cardinality(S) = PageSize
                 \/ channels \subseteq listing[d].seen \union S}

Listed(d, S) ==
    [listing[d] EXCEPT
        !.seen = @ \union S, !.len = @ + Cardinality(S),
        !.ollama = @ + Cardinality(S \intersect OllamaChannels)]

Last(d, S) == S = {} \/ Listed(d, S).len >= Cardinality(channels)

(* A page that is not the last one.                                        *)
ListPage(d) ==
    /\ delete[d].pc \in {"list", "check"}
    /\ \E S \in Pages(d) :
          ~Last(d, S) /\ listing' = [listing EXCEPT ![d] = Listed(d, S)]
    /\ UNCHANGED <<flagVars, channels, made, purge, delete, rewritten>>

(* The last page of the first listing gives the channels to delete.  One   *)
(* that was returned twice is asked for twice; the second time it is gone, *)
(* and all that can follow is a count too many.                            *)
DeleteList(d) ==
    /\ delete[d].pc = "list"
    /\ \E S \in Pages(d) :
          /\ Last(d, S)
          /\ delete' = [delete EXCEPT ![d].pc = "next", ![d].ids =
                {c.id : c \in {x \in Listed(d, S).seen : x.key \in PuterKeys}}]
    /\ listing' = [listing EXCEPT ![d] = NoListing]
    /\ UNCHANGED <<flagVars, channels, made, purge, rewritten>>

(* One channel is deleted.  For one that is gone new-api answers 200 as    *)
(* well, or else 404, and then the next one follows without a check.       *)
DeleteOne(d) ==
    /\ delete[d].pc = "next"
    /\ \E i \in delete[d].ids, then \in {"check", "next"} :
          /\ channels' = {c \in channels : c.id # i}
          /\ channels' # channels => then = "check"
          /\ listing' = IF channels' = channels THEN listing ELSE Stirred
          /\ delete' = [delete EXCEPT
                ![d].pc = then, ![d].ids = @ \ {i},
                ![d].wrong = IF WrongCount /\ channels' # channels THEN @ + 1 ELSE @]
    /\ UNCHANGED <<flagVars, made, purge, rewritten>>

(* Mutant: the channels are not counted again.                             *)
SkipCheck(d) ==
    /\ delete[d].pc = "check"
    /\ delete' = [delete EXCEPT ![d].pc = "next"]
    /\ UNCHANGED <<flagVars, channels, made, purge, listing, rewritten>>

(* The last page of the listing after a delete: another number of ollama   *)
(* channels on its pages than expected ends the command at once.           *)
DeleteCheck(d) ==
    /\ delete[d].pc = "check"
    /\ \E S \in Pages(d) :
          /\ Last(d, S)
          /\ delete' = [delete EXCEPT ![d] =
                IF Listed(d, S).ollama # OllamaCount THEN NoDelete
                ELSE [delete[d] EXCEPT
                    !.pc = "next",
                    !.wrong = IF listing[d].still THEN delete[d].wrong ELSE 0]]
    /\ listing' = [listing EXCEPT ![d] = NoListing]
    /\ UNCHANGED <<flagVars, channels, made, purge, rewritten>>

(* All are deleted, or a call fails, and the rest stays.                   *)
DeleteEnd(d) ==
    /\ delete[d].pc # "off"
    /\ delete' = [delete EXCEPT ![d] = NoDelete]
    /\ listing' = [listing EXCEPT ![d] = NoListing]
    /\ UNCHANGED <<flagVars, channels, made, purge, rewritten>>

-----------------------------------------------------------------------------
(* restore and import.                                                     *)

(* What backup leaves: the state file and the channels of its time.        *)
(* Backups of any age are kept, so that they may hold any flags and        *)
(* channels; one cut short by an error, or by a state saved during the     *)
(* copy, is no directory a restore accepts.                                *)
SavedFlags == Flags

(* A backup is validated and its state written back, under a gateway that  *)
(* may still be running.                                                   *)
RestoreState ==
    /\ file' \in SavedFlags /\ Replace(Keys)
    /\ UNCHANGED <<up, health, channels, made, purge, delete, listing>>

(* The restore then creates every channel of the dump, whether it is still *)
(* there or not, and stops at the first error; an import creates one for   *)
(* every key of the account files, whether there is one already or not,    *)
(* and passes over what is refused or goes wrong for one key.  The imports *)
(* an operator runs may create channels for any keys, in any order, and so *)
(* there is nothing a restore adds, nor a point it has to be at.           *)
CreateOne ==
    /\ \E k \in Keys : Create(k)
    /\ UNCHANGED <<flagVars, purge, rewritten>>

(* A purge fails or is interrupted before it writes.                       *)
PurgeEnd ==
    /\ purge' = NoPurge
    /\ UNCHANGED <<flagVars, channels, made, delete, listing, rewritten>>

Commands ==
    \/ PurgeRead \/ PurgeWrite \/ PurgeEnd
    \/ \E d \in Deleters :
          \/ DeleteStart(d) \/ ListPage(d) \/ DeleteList(d)
          \/ DeleteOne(d) \/ DeleteCheck(d) \/ DeleteEnd(d)
    \/ RestoreState \/ CreateOne

CleanupNext == Gateway \/ Commands

CleanupSpec == CleanupInit /\ [][CleanupNext]_cleanupVars

-----------------------------------------------------------------------------
(* Properties.                                                             *)

(* Between a stop of the gateway and the next start, the flags of its keys *)
(* survive every command but a restore: a purge that read the state after  *)
(* the gateway had saved it touches the Puter keys alone (which come back  *)
(* as healthy if they are still listed), and a purge or a restore written  *)
(* before the gateway stopped has no effect at all.                        *)
FlagsSurvive ==
    [][Load => \A k \in DOMAIN health \intersect DOMAIN health' :
                   health'[k] = health[k] \/ k \in rewritten]_cleanupVars

(* A delete removes at most one channel before the number of ollama        *)
(* channels has, at least for a moment, been the expected one, whatever a  *)
(* restore, an import or another delete does between its calls.  One thing *)
(* can mislead it, and each time for one channel more: a channel that      *)
(* comes or goes between two pages of a listing it then counts right (and  *)
(* so nothing can while all channels fit on one page).                     *)
DeletesStop == \A d \in Deleters : delete[d].wrong <= 1

(* What the proofs rest on.  While the gateway is down, the flags it went  *)
(* down with are in the state file, but for those a command replaced.      *)
Purge == [pc : {"off", "write"}, view : Flags]

FileInv ==
    ~up => \A k \in DOMAIN health \ rewritten :
              k \in DOMAIN file /\ file[k] = health[k]

(* An id is given once, and what a delete has listed is not an ollama      *)
(* channel, nor becomes one.                                               *)
ChannelInv ==
    /\ made \in Nat /\ IsFiniteSet(channels)
    /\ channels \subseteq Channel /\ \A c \in channels : c.id \in 1..made
    /\ \A b, c \in channels : b.id = c.id => b = c
    /\ \A d \in Deleters :
          /\ \A i \in delete[d].ids :
                i \in 1..made /\ \A c \in OllamaChannels : c.id # i
          /\ \A b \in listing[d].seen :
                b.id \in 1..made /\ \A c \in channels : b.id = c.id => b = c

(* What a listing has returned of channels that stayed is some of them,    *)
(* each once.                                                              *)
Listing == [seen : SUBSET Channel, len : Nat, ollama : Nat, still : BOOLEAN]

ListingInv ==
    /\ listing \in [Deleters -> Listing]
    /\ \A d \in Deleters : listing[d].still =>
          /\ listing[d].seen \subseteq channels
          /\ listing[d].len = Cardinality(listing[d].seen)
          /\ listing[d].ollama = Cardinality(listing[d].seen \intersect OllamaChannels)

(* A delete that has removed a channel while the count was wrong looks at  *)
(* the count next, and finds it wrong unless it has been right since or    *)
(* the listing misleads it.                                                *)
Delete == [pc : {"off", "list", "next", "check"}, ids : SUBSET Nat, wrong : {0, 1}]

DeleteInv ==
    /\ delete \in [Deleters -> Delete]
    /\ \A d \in Deleters :
          delete[d].wrong = 1 => delete[d].pc = "check" /\ WrongCount

CleanupInv ==
    /\ FlagsTyped /\ purge \in Purge
    /\ FileInv /\ ChannelInv /\ ListingInv /\ DeleteInv
=============================================================================
