---------------------------- MODULE PoolGateway ----------------------------
(***************************************************************************)
(* pool_gateway.py: the gateway that spreads chat requests over the keys   *)
(* of the pools.  One asyncio process; what interleaves are the requests,  *)
(* the probe of every key at start, the probe loop, the save loop and the  *)
(* shutdown.  A pool is read from the account files and the state file at  *)
(* start and lives in memory from then on.                                 *)
(*                                                                         *)
(* A pool is modelled by the health flags of its keys.  The usage counters *)
(* only weight the choice in Pool.pick, which here takes any healthy key.  *)
(* An account file lists a key once.  Both backends are enabled.           *)
(***************************************************************************)
EXTENDS PoolFlags, Naturals

CONSTANTS
    Requests,   \* connections of clients
    Loop,       \* the task of _health_probe_loop
    Startup,    \* the task of the probe at start
    None

Tasks == {Loop, Startup}
Pools == {Pool[k] : k \in Keys}

ASSUME TasksAssumption == Loop # Startup
ASSUME NoneAssumption == None \notin Keys

(* A request that is not streamed makes at most three attempts.            *)
MaxAttempts == 3

VARIABLES
    banned,     \* keys the upstream refuses for good
    req,        \* the requests
    probe       \* the probing tasks

vars == <<up, health, file, banned, req, probe>>

(* pc: "pick" at the head of the loop of chat_route, "once" in             *)
(* _proxy_once, "stream" in _proxy_stream; left: the attempts left, the    *)
(* one under way included; key: the key of that attempt.                   *)
Request == [pc : {"idle", "pick", "once", "stream"}, pool : Pools \union {None},
            stream : BOOLEAN, left : 0..MaxAttempts, key : Keys \union {None}]
Idle == [pc |-> "idle", pool |-> None, stream |-> FALSE, left |-> 0, key |-> None]

(* todo: keys still to probe; key: the key probed now; live: had the       *)
(* upstream not yet banned it when it was asked?                           *)
Probe == [todo : SUBSET Keys, key : Keys \union {None}, live : BOOLEAN]
Asleep == [todo |-> {}, key |-> None, live |-> FALSE]

TypeOK ==
    /\ FlagsTyped
    /\ banned \subseteq Keys
    /\ req \in [Requests -> Request]
    /\ probe \in [Tasks -> Probe]

Init ==
    /\ FlagsInit
    /\ banned = {}
    /\ req = [r \in Requests |-> Idle]
    /\ probe = [t \in Tasks |-> Asleep]

HealthyKeys(pool) == {k \in DOMAIN health : Pool[k] = pool /\ health[k]}

SetHealth(k, flag) ==
    health' = IF k \in DOMAIN health THEN [health EXCEPT ![k] = flag] ELSE health

-----------------------------------------------------------------------------
(* The life of the process.                                                *)

(* _merge_pool: a listed key keeps the flag of its record in the state     *)
(* file or is healthy; a record that is not listed is dropped.             *)
Merge(listed) ==
    [k \in listed |-> IF k \in DOMAIN file THEN file[k] ELSE TRUE]

(* _on_start: registrations, revalidations and the operator edit the       *)
(* account files at any time, and a file that cannot be read lists no key: *)
(* any set of keys may be listed.  The tasks are started.                  *)
Start ==
    /\ ~up
    /\ up' = TRUE
    /\ \E listed \in SUBSET Keys :
          /\ health' = Merge(listed)
          /\ probe' = [probe EXCEPT ![Startup].todo = listed]
    /\ UNCHANGED <<file, banned, req>>

(* _save_loop, every minute; os.replace swaps the file as a whole.         *)
Persist ==
    /\ up
    /\ file' = health
    /\ UNCHANGED <<up, health, banned, req, probe>>

Cut ==
    /\ req' = [r \in Requests |-> Idle]
    /\ probe' = [t \in Tasks |-> Asleep]

(* Mutant: the flags are not saved at shutdown.                            *)
StopUnsaved ==
    /\ up
    /\ up' = FALSE
    /\ Cut
    /\ UNCHANGED <<health, file, banned>>

(* _on_stop: the tasks are cancelled, then the flags are saved.            *)
Stop ==
    /\ up
    /\ up' = FALSE
    /\ file' = health
    /\ Cut
    /\ UNCHANGED <<health, banned>>

(* Flags set since the last save are lost.  With the machine the file may  *)
(* be lost as well, as it was replaced without being forced to disk first: *)
(* one that cannot be read is for _load_state a file without flags, and    *)
(* every key starts as healthy.                                            *)
Crash ==
    /\ up
    /\ up' = FALSE
    /\ health' = NoFlags
    /\ file' \in {file, NoFlags}
    /\ Cut
    /\ UNCHANGED banned

-----------------------------------------------------------------------------
(* The upstream bans a key.                                                *)

Ban ==
    /\ \E k \in Keys \ banned : banned' = banned \union {k}
    /\ UNCHANGED <<up, health, file, req, probe>>

-----------------------------------------------------------------------------
(* Requests.                                                               *)

(* chat_route: authenticate, route the model to a pool.                    *)
Receive(r) ==
    /\ up
    /\ req[r].pc = "idle"
    /\ \E pool \in Pools, stream \in BOOLEAN :
          req' = [req EXCEPT ![r] =
              [pc |-> "pick", pool |-> pool, stream |-> stream, key |-> None,
               left |-> IF stream THEN 1 ELSE MaxAttempts]]
    /\ UNCHANGED <<up, health, file, banned, probe>>

(* Mutant: one attempt more than are left.                                 *)
PickOneMore(r) ==
    /\ req[r].pc = "pick"
    /\ \E k \in HealthyKeys(req[r].pool) :
          req' = [req EXCEPT ![r] =
              [pc |-> IF @.stream THEN "stream" ELSE "once", pool |-> @.pool,
               stream |-> @.stream, left |-> @.left, key |-> k]]
    /\ UNCHANGED <<up, health, file, banned, probe>>

(* Pool.pick finds a healthy key, perhaps one it found before.             *)
Pick(r) ==
    /\ req[r].pc = "pick"
    /\ req[r].left > 0
    /\ \E k \in HealthyKeys(req[r].pool) :
          req' = [req EXCEPT ![r] =
              [pc |-> IF @.stream THEN "stream" ELSE "once", pool |-> @.pool,
               stream |-> @.stream, left |-> @.left, key |-> k]]
    /\ UNCHANGED <<up, health, file, banned, probe>>

(* No attempt is left, or no key is healthy: 503.                          *)
Exhaust(r) ==
    /\ req[r].pc = "pick"
    /\ req[r].left = 0 \/ HealthyKeys(req[r].pool) = {}
    /\ req' = [req EXCEPT ![r] = Idle]
    /\ UNCHANGED <<up, health, file, banned, probe>>

(* Mutant: a served request makes its key healthy.                         *)
SucceedAndRevive(r) ==
    /\ req[r].pc = "once"
    /\ SetHealth(req[r].key, TRUE)
    /\ req' = [req EXCEPT ![r] = Idle]
    /\ UNCHANGED <<up, file, banned, probe>>

(* The upstream serves the request; the answer goes to the client.         *)
Succeed(r) ==
    /\ req[r].pc = "once"
    /\ req' = [req EXCEPT ![r] = Idle]
    /\ UNCHANGED <<up, health, file, banned, probe>>

(* Mutant: an attempt that failed is not counted.                          *)
TryAgain(r) == req' = [req EXCEPT ![r].pc = "pick", ![r].key = None]

NextAttempt(r) ==
    req' = [req EXCEPT ![r] =
        [pc |-> "pick", pool |-> @.pool, stream |-> @.stream,
         left |-> @.left - 1, key |-> None]]

(* 401, 402, 403 or a word about quota: the key is marked dead.            *)
Refused(r) ==
    /\ req[r].pc = "once"
    /\ SetHealth(req[r].key, FALSE)
    /\ NextAttempt(r)
    /\ UNCHANGED <<up, file, banned, probe>>

(* 429, another error, the network or a timeout: the key stays.            *)
Fail(r) ==
    /\ req[r].pc = "once"
    /\ NextAttempt(r)
    /\ UNCHANGED <<up, health, file, banned, probe>>

(* A stream has one attempt; whatever comes of it goes to the client and   *)
(* leaves the key as it is.                                                *)
EndStream(r) ==
    /\ req[r].pc = "stream"
    /\ req' = [req EXCEPT ![r] = Idle]
    /\ UNCHANGED <<up, health, file, banned, probe>>

-----------------------------------------------------------------------------
(* Probes: _probe_all_pools and _probe_key.                                *)

(* The probe loop wakes up, ten minutes after its last round.              *)
Wake ==
    /\ up
    /\ probe[Loop].todo = {}
    /\ DOMAIN health # {}
    /\ probe' = [probe EXCEPT ![Loop] =
          [todo |-> DOMAIN health, key |-> None, live |-> FALSE]]
    /\ UNCHANGED <<up, health, file, banned, req>>

Ask(t) ==
    /\ probe[t].key = None
    /\ \E k \in probe[t].todo :
          probe' = [probe EXCEPT ![t] =
              [todo |-> @.todo, key |-> k, live |-> k \notin banned]]
    /\ UNCHANGED <<up, health, file, banned, req>>

Done(t) ==
    probe' = [probe EXCEPT ![t] =
        [todo |-> @.todo \ {@.key}, key |-> None, live |-> FALSE]]

(* Mutant: a refusal is counted and leaves the key as it is.               *)
RejectCounted(t, k) ==
    /\ probe[t].key = k
    /\ Done(t)
    /\ UNCHANGED <<up, health, file, banned, req>>

(* 401, 403 or a word about suspension, which a key that is not banned may *)
(* meet as well.                                                           *)
Reject(t, k) ==
    /\ probe[t].key = k
    /\ SetHealth(k, FALSE)
    /\ Done(t)
    /\ UNCHANGED <<up, file, banned, req>>

(* 200, from an upstream that had not banned the key when it was asked;    *)
(* a request may have marked the key dead since.                           *)
Accept(t) ==
    /\ probe[t].live
    /\ SetHealth(probe[t].key, TRUE)
    /\ Done(t)
    /\ UNCHANGED <<up, file, banned, req>>

(* Any other status, or no answer in fifteen seconds.                      *)
Unclear(t) ==
    /\ probe[t].key # None
    /\ Done(t)
    /\ UNCHANGED <<up, health, file, banned, req>>

-----------------------------------------------------------------------------

Attempt(r) ==
    \/ Pick(r) \/ Exhaust(r)
    \/ Succeed(r) \/ Refused(r) \/ Fail(r) \/ EndStream(r)

Next ==
    \/ Start \/ Persist \/ Stop \/ Crash
    \/ Ban
    \/ \E r \in Requests : Receive(r) \/ Attempt(r)
    \/ Wake
    \/ \E t \in Tasks :
          Ask(t) \/ Accept(t) \/ Unclear(t) \/ \E k \in Keys : Reject(t, k)

(* The event loop runs what is ready.  A call to an upstream is bounded by *)
(* a timeout, so a request and a probe go on; and a banned key that is     *)
(* asked again and again is refused in time now and then.                  *)
Fairness ==
    /\ WF_vars(Wake)
    /\ \A r \in Requests : WF_vars(Attempt(r))
    /\ \A t \in Tasks :
          /\ WF_vars(Ask(t))
          /\ WF_vars(Accept(t) \/ Unclear(t) \/ \E k \in Keys : Reject(t, k))
          /\ \A k \in Keys : SF_vars(k \in banned /\ Reject(t, k))

Spec == Init /\ [][Next]_vars
FairSpec == Spec /\ Fairness

-----------------------------------------------------------------------------
(* Properties.                                                             *)

(* A key in memory that was out of service comes back only by the answer   *)
(* to a probe sent before the upstream banned it, never by the late        *)
(* success of a request that was under way when the key was marked dead.   *)
RevivedOnlyByProbe ==
    [][\A k \in DOMAIN health \intersect DOMAIN health' :
           up /\ ~health[k] /\ health'[k] =>
               \E t \in Tasks : probe[t].key = k /\ probe[t].live]_vars

(* Between a shutdown and the next start no flag is lost: the keys still   *)
(* listed have the health they had when the process was stopped (while it  *)
(* is down, health is what it was then, or empty after a crash).           *)
RestartKeepsFlags ==
    [][Start => \A k \in DOMAIN health \intersect DOMAIN health' :
                    health'[k] = health[k]]_vars

(* A key the upstream has banned ends up out of service and stays there,   *)
(* if the gateway stays up, whatever late answers are still on their way.  *)
BannedRetired ==
    \A k \in Keys :
        <>[](up /\ k \in banned) => <>[](k \notin HealthyKeys(Pool[k]))

(* A request is answered, whatever the upstream does and however the       *)
(* health of the keys changes under it.                                    *)
RequestsAnswered ==
    \A r \in Requests : req[r].pc # "idle" ~> req[r].pc = "idle"

(* Seen from the commands that edit its state file beside it, the gateway  *)
(* is what the module PoolFlags says: it writes the file only with the     *)
(* flags it has in memory, reads it only at start, and when it stops, and  *)
(* does not die, it leaves its flags there.                                *)
FlagsAsPromised == FlagsSpec

(* What the proofs rest on: an attempt under way has a key and is counted. *)
AttemptInv == \A r \in Requests :
    req[r].pc \in {"once", "stream"} => req[r].key \in Keys /\ req[r].left > 0

(* An answer is awaited for a key.                                         *)
ProbeInv == \A t \in Tasks : probe[t].live => probe[t].key \in Keys

(* Nothing runs while the gateway is down.                                 *)
DownInv ==
    ~up => /\ \A r \in Requests : req[r] = Idle
           /\ \A t \in Tasks : probe[t] = Asleep

IInv == TypeOK /\ AttemptInv /\ ProbeInv /\ DownInv

(* The flags the gateway went down with are in the state file.             *)
SavedInv ==
    ~up => \A k \in DOMAIN health : k \in DOMAIN file /\ file[k] = health[k]
=============================================================================
