# Verification of ollama-register

TLA+ models of the stateful parts of this repository, the TLC configurations
that check them on small instances, and TLAPS proofs of what matters most for
every instance. Paths below are relative to the repository root.

The repository registers accounts on two services, keeps them in files and
serves chat requests from a pool of their keys. Its programs are small; what
makes them hard is that several of them share files without knowing of each
other, that any awaited call may raise, that a process may die between two
writes, and that answers from upstream services come late.

## 1. Inventory

| Component | State | Operations | Interacts with | Hard behaviour |
|---|---|---|---|---|
| Ollama account store (`src/account_store.py`, `ollama_register.py`) | `accounts.json`, `apikey.txt`, a `FileLock` for each | append account, append key, rewrite all accounts, revalidate | browser flow, validation endpoint, gateway (reads) | registrations and revalidations side by side, crash between the two files, list read without the lock |
| Ollama rate limit (`ollama_register.py`) | `rate_limit_state_file` | check, record attempt | account store's caller | check and record are two critical sections |
| Ollama browser flow (`src/browser_flow.py`, `src/hero_sms_provider.py`, `src/tempmail_client.py`, `src/proxy_session.py`) | browser sessions, a phone activation, an address, a proxy session | sign-up steps, polling, retries, cancellation | every provider | a step raises while something is held; a request retried after its answer is lost |
| Puter v2 registration (`puter_register_v2.py`, `src/sticky_proxy.py`, `src/utils.py`) | state machine, `puter_states.jsonl`, `puter_audit.jsonl`, `puter_failures.jsonl`, `puter_accounts_v2.json`, `phone_triggered_ips.jsonl` | one attempt, its exception handler, `_finalize` | scheduler, mailbox pool, circuit breaker | five files written in turn, crash in between, exceptions inside the handler, two processes |
| Registration scheduler (`src/scheduler.py`) | `scheduler_state.json`, a copy per process | may I register, next slot, record | Puter v2 | stale copies, day and window boundaries |
| Circuit breaker (`puter_register_v2.py`) | `circuit_breaker.json`, a copy per process | gate before each attempt, record a result, trip, reset | the batch loop | counters that share a result, a copy that overwrites another's trip |
| Quarantine manager (`puter_register_v2.py`), rebuild (`restore_puter_v2.py`) | `puter_quarantine.json`, `puter_accounts_v2.json`, failures | add, recheck, fail, promote; rebuild from the log | Puter v2 batch | three unlocked writers, crash between writes, torn lines, transitions that are never logged |
| Mailbox pool (`src/mailbox_provider.py`) | health of providers, used addresses | choose a provider, record success and failure | Puter v2 | no program registers a provider, so every acquisition fails |
| Pool gateway (`pool_gateway.py`) | keys with health flags in memory, `pool_state.json` | start, stop, save, probe, chat request | account files, upstreams, cleaner | requests, probes and saves interleave; late answers; crash |
| Pool cleaner, restore, import (`pool_cleaner.py`, `restore_cleanup.py`, `import_channels.py`) | backups, `pool_state.json`, remote channels | backup, purge, delete, restore, import | gateway, new-api | rewrite a file the gateway owns; partial deletion; lost answers |
| Legacy registration (`puter_register.py`, `confirm_pending.py`) | `pending.jsonl`, `puter_accounts.json`, `puter_tokens.txt`, `outlook_used.txt` | a batch of attempts in several passes; confirm what is unconfirmed | solver, mailboxes, Puter | no locks, files truncated before they are filled, lost answers |
| Puter adapter, temp-mail server, capsolver shim | none, or an inbox | translate requests | | thin services |
| Scripts (`check_*`, `fix_*`, `debug_*`) | none | one-shot calls | new-api | not concurrent, no state |

What makes each correct:

* account store: no duplicates, no lost account, only accepted keys published,
  every verified account published;
* Puter v2: the audit trail tells exactly how each attempt ended, nothing is
  filed that was not quarantined, an address that met a phone prompt is retired,
  a batch ends by an exception for known reasons only;
* scheduler: limit per day, interval, no registration forgotten, the next slot
  is one;
* browser flow: a paid activation is given back on every path, browsers are
  closed, an account is not filed while the exit address is not the first one,
  every sign-up ends;
* gateway: a dead key is not revived by a late answer, a restart keeps the
  flags, a request is answered, a banned key ends up out of service;
* rate limit: no more attempts within a day than the limit and one per further
  process, a process keeps its interval;
* breaker: tripped by exactly what it names, a trip stays;
* recovery: a quarantined account leaves the files only in known ways, a promotion
  not being one of them, and a rebuild left alone ends with what the log says;
* cleanup: a purge touches the Puter keys alone, a delete stops when the number
  of Ollama channels is wrong;
* legacy registration: every account at Puter has its username on file, and no
  account is given up without reason.

`PROJECT.json` lists every component with its status, and every hazard at its
line with the properties that would catch it going wrong.

## 2. Modules

| Module | Models | Proofs |
|---|---|---|
| `OllamaAccounts` | account store, `register_single`'s persistence, `revalidate()` | `OllamaAccountsProofs` |
| `PuterRegister` | `PuterStealthRegister.register_single` and the batch around it | `PuterRegisterProofs` |
| `PuterLedger` | the abstract specification that `PuterRegister` implements | |
| `Scheduler` | `RegistrationScheduler` | `SchedulerProofs` |
| `OllamaSignup` | `OllamaBrowserFlow.run`, `HeroSmsProvider`, the proxy checks of `register_single` | `OllamaSignupProofs` |
| `OllamaRateLimit` | `_enforce_rate_limits`, `_record_attempt` | `OllamaRateLimitProofs` |
| `CircuitBreaker` | `CircuitBreaker` and the batch loop that obeys it | `PuterBatchProofs` |
| `PuterRecovery` | `QuarantineManager`, `rebuild()` and the batch beside them | `PuterRecoveryProofs` |
| `PoolGateway` | `Gateway` and `Pool` | `PoolProofs` |
| `PoolFlags` | the abstract specification that `PoolGateway` implements | |
| `PoolCleanup` | purge, delete, restore and import beside `PoolFlags` | `PoolProofs` |
| `PoolSystem` | `PoolGateway` and the commands of `PoolCleanup` on one state file | `PoolProofs` |
| `LegacyRegister` | `puter_register.py` and `confirm_pending.py` | second half of `PuterBatchProofs` |
| `MCOllamaAccounts`, `MCPuterRegister`, `MCPoolGateway`, `MCCircuitBreaker`, `MCPuterRecovery`, `MCPoolCleanup`, `MCLegacyRegister` | instances for TLC | |

A definition named "Mutant" in its comment is not part of a specification. It
is what the definition below it would be with a plausible bug, and it shows
that a property notices.

### OllamaAccounts

`accounts` and `apikeys` are the two files, `acctLock` and `keyLock` their
lock files. A process is at a control point (`pc`) with the account in hand
(`rec`) and, once it has read `accounts.json`, its copy (`view`). Reading under a lock and
writing before the release are two steps (`LockAccounts`, `AppendAccount`;
`LockKeys`, `AppendKey`), because only then the lock matters; `save_accounts`
reads nothing and is one step (`Save`). `Load`, `PassOver`, `Accept`, `Save`,
`LockKeys`, `AppendKey`, `Finish` are `revalidate()`. `Signup` stands for the
browser flow: it spends an address and yields a key or raises. `Validate` is
the call to the endpoint and the proxy check after it. `Crash` frees the locks,
as the operating system does, and forgets the locals; it also stands for an
exception that leaves the program.

`issued`, `accepted` and `cutOff` are history: the addresses handed out, the
keys the endpoint has answered 200 for, and the keys whose publication a crash
has cut off.

### PuterRegister and PuterLedger

`log[a]`, `audit[a]` and `failures[a]` are the lines of the three JSONL files
that name attempt `a`; `accounts` and `scheduled` are the account list and the
scheduler's list; `phoneLog` is the blacklist on disk and `banned[p]` the copy
of process `p`. The state of the machine is the last line it has logged
(`StateOf`): `_record_transition` writes the line and then sets
`current_state`. `Transition` writes if `ALLOWED_TRANSITIONS` allows it and
goes to the handler otherwise. There is one action per stretch of code between
two writes or two places that may raise; `Raise` is an exception out of an
awaited call (or a lock timeout when the registration is recorded), `Handle`
the except clause, `ReadLog`, `AppendAudit` and `AppendFailure` are `_finalize`,
`Crash` is death or an interrupt. `LoadAccounts` and `StoreAccount` are the two
halves of the unlocked rewrite in `_store_account`.

`torn` names the files, the state log and the blacklist, that have a line a kill
has cut (`Writing` says what a process may be writing a line of). `read_jsonl`
raises on such a line: in the state log `_finalize` meets it before it has written
anything (`ReadLog`), goes into the except clause the first time and, from there
(`caught`), out of `register_single`; in the blacklist it keeps every process from
starting. A phone prompt is met in one step (`DetectPhone`, or `Raise`, where the
handler takes a message for a prompt), and the address retired in another
(`MarkPhoneTriggered`), after the pause of half a minute or more in which the
process may be killed (outcome `cut`); `SoftLandingSkip` is the transition after
it. `phoned` and `heard` are history: the attempts that met a prompt, and those
whose prompt was on file when a process started.

`PuterLedger` says what a reader of the files may rely on: an attempt advances
along the chain or ends; its verdict is the stage it has reached; after the
verdict nothing moves. The mapping takes `stage` from the log and `verdict`
from the audit file.

### Scheduler

`now` is a clock in units that divide an hour; `registrations` is the list in
the file; `view[p]` is the copy `can_register_now` looks at, refreshed by
`Start` and `Record`. `Proceed` is `wait_for_slot` returning, `Record` the
locked load-append-save, `Fail` an attempt that is not counted. The clock may
advance between any two steps, so an attempt takes any time.

### PoolGateway

`health` maps the keys in memory to their flags, `file` is the same in
`pool_state.json`. `Start` merges any set of listed keys with the file; `Persist`
is the save loop; `Stop` cancels the tasks and saves; `Crash` loses the memory,
and perhaps the file: one that cannot be read counts as empty. A request goes
through `Receive`, `Pick` and one of `Succeed`, `Refused`, `Fail` (or
`EndStream`), and `Exhaust` when it has no attempt or no key left. Both probing
tasks (`Startup`, `Loop`) `Ask` about one key at a time and handle `Accept`,
`Reject` or `Unclear`. `Ban` is the upstream's doing; a probe carries whether its
key was banned when it was asked (`live`).

### OllamaSignup

The sign-ups of one process, one after another. `pc` follows
`register_single` and `run`, `page` is the stage `detect_signup_stage` reads
off the browser's page, which may be anything after a submission, and `tries`
counts the failed tries of the loop the flow is in. `Raise` and `Unwind` are an
exception and the `finally` clauses it meets: with an activation in hand
(`held`) it goes to `Cancel`, and at the end of the clauses the sign-up browser
is closed. In the second half of `run` a browser is opened before its `try`
block, and the cleanup of a solver session may fail itself; `RaiseLeaving` says
what stays open.

`status` is HeroSMS' own view of its activations. A call to HeroSMS is carried
out or not, and independently of that answered, broken off or not answered in
time (`Replies`); only the last is sent again (`SentAgain`). So a number may be
sold without the flow being told, and an activation finished or cancelled
without being confirmed. `SubmitSmsCode` is the submission of the code and the look at the
page after it: the site takes the code or not, and whether the page can be read
and has moved on is independent of that; if not, the `finally` clause follows.
`lost` and `broken` are history: `lost` keeps the activations no code could have
helped, `broken` those for which an exception came between the submission of the
code and the answer of `finishActivation`. `exit` is the proxy's present address,
which may change to any other at any moment (`Drift`), the first one included;
`strayed` is history and tells whether a request of the sign-up has left at
another address than the first (`away`), and whether the exit has been back since
(`back`).

`OllamaAccounts` takes over where `File` stands; its `Signup` is this module as
a whole.

### OllamaRateLimit

`attempts[i]` are the entries of the state file under identity `i`, numbered in
the order of recording, which is the order of the list. `Check` and `Record`
are two critical sections, each with a time (`stamp`) that was read before the
wait for the lock, so that the list need not be in the order of time. `Admits`
is the decision. `LockWait` bounds the wait, and the clock (`Tick`) does not run
past a process that waits. `End` is the end of a registration, an exception or
death.

### CircuitBreaker

`file` is `circuit_breaker.json`, `mem[p]` the copy process `p` loaded at its
start. `RecordResult` goes through the rules in the order of the code, each of
which updates its counter and returns if it trips; `Record` saves the copy over
the file. `Gate` is `is_tripped` before a registration, `Reset` the command.
The state of a breaker carries the list of the results that led to it (`hist`,
history), so that a property can compare counters with what happened. `stale`
is history as well: the processes that were running when another one tripped.

### PuterRecovery

The batch (`Begin` to `BatchDies`), a quarantine manager per process (`Open` to
`Close`) and the rebuild (`ReadLogs` to `RebuildDies`), one step per file
written. `log[a]` is the latest state the log has of an account, `torn` the
logs with a line a crash has cut off: reading such a file raises. A manager
holds a copy of the quarantine from its start on. An account is `Safe` on the
list, and in quarantine as long as no manager is about to take it out again after
having put it on the list. `lost` is history: a step that makes an account unsafe
enters it (`Drop`) if it is one of those the property names, and an account that
becomes safe leaves it. What a manager takes out itself (`gone` in `Save`) is never
entered, so that neither a promotion nor a recheck that failed is excused. `calm`
tells whether anybody else has written since the rebuild read the log. The failures
file is truncated and written in two steps, and a crash leaves some of its lines.
What leads to
`quarantined` is `PuterRegister`; here it is one step (`Register`).

### PoolFlags and PoolCleanup

`PoolFlags` is the gateway as those see it who edit its state file: `Load`,
`Save`, `Die`, `SetFlag`. `PoolGateway` declares nothing of its own for these: it
takes the flags, the file and `up` from `PoolFlags` and adds the requests, the
probes and the upstream; `FlagsAsPromised` says that it implements it.
`PoolCleanup` extends it with the operator's commands: `PurgeRead` and
`PurgeWrite`; `DeleteStart`, `ListPage`, `DeleteList`, `DeleteOne`, `DeleteCheck`;
`RestoreState`; `CreateOne`, which is a channel that a restore or an import
creates. A backup changes nothing; since backups of any age are kept, a restore
brings back any flags and channels, and as imports are not limited either, there
is no state of a restore in progress. A command that fails (`PurgeEnd`,
`DeleteEnd`) leaves what it has done.

A delete lists the channels page by page (`Pages`, `ListPage`), before it begins
and after each channel it has deleted, and between two pages others may create
and delete channels. While none comes or goes, the pages are disjoint parts of
one order, all full but the last; after that a page may repeat channels and the
listing pass over others, and any channels may be on it. `listing[d]` is the
listing so far. `listing[d].still`, `rewritten` and `delete[d].wrong` are history:
whether no channel has come or gone since the first page; the keys whose flags a
command has replaced since the gateway last stopped; and the channels deleted
since the number of Ollama channels was last the expected one, or was counted so
on a listing that was not still.

`PoolSystem` puts the whole gateway and the commands together: a step is one of
`PoolGateway` (`GatewayStep`) or one of the commands (`CommandStep`), and `file` is
the only thing both touch. `CommandsAsPromised` says that the composition
implements `PoolCleanup`, so that what is checked beside `PoolFlags` holds beside
the requests and probes. It has no run: the smallest instance with a key of each
pool, a request, a delete and two channels is far beyond the time of the other
runs. It is proved (section 5), for every instance.

### LegacyRegister

A batch takes outlook accounts through `run_single`: `Begin` writes
`pending.jsonl`, `Solved` and `Signup` deal with the solver and with Puter,
`ReadRecords`, `WriteRecords`, `AppendToken` and `MarkSuccess` write the three
other files. `write_text` truncates before it fills, so `WriteRecords` is two
steps, and what is in between can be read, or stay after a crash; where another
process has the file open at the same time, what is left may be a mixture of both
that cannot be read (`Fill`). `Retry` is
every way an attempt ends for the next pass to try again. `SignupUnanswered` is
an account created whose answer is lost. `ConfirmRead` and `ConfirmWrite` are
`confirm_pending.py`, which writes back what it read before it waited for the
codes. `EndBatch` is also a kill.

## 3. Runs

| Run | Instance | What it shows |
|---|---|---|
| `ollama_accounts` | 2 registrations, 1 revalidation, 3 addresses, 3 keys that addresses may share | `TypeOK`, `NoDuplicates`, `OnlyAcceptedKeys`, `VerifiedKeysPublished`, `NoDemotion`, `RegistrationsKeepAccounts` |
| `ollama_lost_account` | 1 registration, 1 revalidation | `NoAccountLost` is violated: see Findings |
| `puter_parallel` | 2 processes, 2 attempts, 2 exit addresses | `TypeOK`, `AuditTellsTheEnd`, `FiledWereQuarantined`, `EscapesExplained`, `ReturnedAreFiled`, `PhoneIPsRetired`, `LedgerKept` |
| `puter_phone_skip` | 1 process, 1 attempt | `PhoneSkipsRecorded` is violated: see Findings |
| `gateway` | 1 key, 2 requests, both probing tasks, fairness | `TypeOK`, `RevivedOnlyByProbe`, `RestartKeepsFlags`, `BannedRetired`, `RequestsAnswered`, `FlagsAsPromised` |
| `scheduler` | 2 processes, nearly two days of 7 units, window 1 to 5, limit 2, interval 2 | `TypeOK`, `DailyLimit`, `OwnSpacing`, `NextSlotAllows`, `RegistrationsKept` |
| `ollama_signup` | 2 activations, 2 tries of each kind, 3 exit addresses, fairness | `TypeOK`, `ActivationsSettled`, `AcceptedNotCancelled`, `ClosedAtEnd`, `StrayingNoticed`, `SignupEnds` |
| `ollama_rate_limit` | 2 processes, 1 identity, a day of 9 units and a little more, interval 2, limits 4 and 3, a wait of 1 | `AttemptsBounded`, `SpacingKept` |
| `circuit_breaker` | 2 processes, 4 categories, limits 2 (mail 3), 3 results, an hour of 2 units and a day of 1 | `BreakerCounts`, `TripKept` |
| `puter_recovery` | 2 accounts, 1 manager | `NoAccountVanishes`, `RebuildSettles` |
| `pool_cleanup` | 1 key of each pool, 1 delete, 2 Ollama channels expected, 1 channel on a page, 4 channels ever created | `DeletesStop`, `FlagsSurvive` |
| `legacy_register` | 2 outlook accounts, 2 batches of 2 passes, 3 attempts, 1 confirmation | `UsernamesKept`, `NoneStranded` |

Bounds. The store needs two writers for a lost update, a third process that
rewrites, and a third address so that a list read is neither empty nor last.
Puter needs two attempts for one process to carry something from one to the
next, two processes for the lost update, and two addresses so that there is one to
avoid and one to use. The scheduler's horizon covers a full day and the next one
up to the end of its window, so that the limit, the window and midnight are all
crossed. One key is enough for the gateway's properties, which are about each
key by itself, with two requests and two tasks on it at once; a retry that
finds another key differs only in finding it healthy. The sign-up needs two
tries for one to be repeated, and two activations, so that one can be lost
before the other is used; and three addresses, so that the exit can move on from
a strange one to another, or back. The rate limit
needs a day longer than the attempts it allows take, so that the limit and not
the interval refuses, and two units more, so that entries get old. The breaker
needs limits of two, so that a counter can be reset or not, a mail limit above
the code limit as in the code, and a "day" shorter than the "hour", so that a rate limit
expires while refusals still count. Recovery needs a second account so that a list
written back can lack one. The cleanup needs two pages, so that channels can come
and go between them, two Ollama channels for one of them to be missed or counted
twice, and Puter channels beside them to delete. The legacy run needs a third
attempt so that both outlooks are tried and one of them twice. Addresses,
attempts, results, accounts and horizons run out, so these runs do not check deadlock;
those of the gateway, of the sign-up, of the cleanup and of the scheduler do.

Properties that need one process. `ReturnedAreFiled` says of any number of
processes that the registration is counted, and of one process, with restarts,
that the account is on the list: the list is rewritten without a lock.
`PhoneIPsRetired` is about the prompts a process has met itself, and those any
process had retired when it started: the blacklist is read at start. `NoDemotion`
holds for one revalidation at a time, `NoAccountLost` for none;
`RegistrationsKeepAccounts` is what is left of it, and holds for any number of
both. `DailyLimit` and `AttemptsBounded` allow one more for each further process,
and with one process the limit is kept.

Fairness is assumed for the sign-up and the gateway (`FairSpec`). A sign-up does
not stand still, because page operations and HTTP calls have timeouts and the
polling loops have deadlines; weak fairness of its own steps says that. In the
gateway, the event loop runs whatever is ready, so the probe loop wakes up
(`Wake`) and asks (`Ask`). Every
call to an upstream has an httpx timeout (15 seconds for a probe, 120 or 300
for a request), so attempts and probes come to an end. That a banned key which is
asked again and again is refused in time now and then is strong fairness of the
refusal, an assumption on the upstream: without it every probe could time out.
`BannedRetired` asks in addition that the gateway stays up.

## 4. Findings

* `ollama_lost_account`. "Account store with filelock and atomic writes"
  (`CHANGELOG.md:48`), but `revalidate()` reads `accounts.json` without the lock
  (`ollama_register.py:211`) and `save_accounts` overwrites the file with that
  list: an account registered in between is lost.
* `puter_phone_skip`. "Phone prompt detection and soft skip path"
  (`README.md:132`), but the prompt is looked for after `form_submitted`, and the
  table has no transition from there to `skipped_phone_verification`. The
  attempt is audited as `form_submitted`.

Other behaviour of the code that a reader should know of. The models have it,
and the properties, where they touch it, name it as an exception:

* An exception after `session_established` makes the handler ask for a
  transition the table does not have (`puter_register_v2.py:528`); its
  `ValueError` ends the batch before `_finalize`, so the attempt has no audit
  record. A line of `puter_states.jsonl` that a kill has cut makes `_finalize`
  raise twice, and ends every later batch at its first attempt, also after the
  account was stored. `EscapesExplained` says that there is no third reason.
* A process killed in the pause before it blacklists an address that met a phone
  prompt (`puter_register_v2.py:678`) uses it again after a restart, and a line of
  the blacklist that is cut keeps every process from starting
  (`src/sticky_proxy.py:102`).
* The sticky proxy's exit is looked at four times. If it moves away and is back
  before the next look, requests have left at another address and the account is
  filed, although "if the IP changes, the attempt fails with `proxy_drift`"
  (the repository's `README.md:52`). `StrayingNoticed` says what is noticed.
* If the page after the SMS code cannot be read or has not moved on, or
  `finishActivation` raises, the `finally` clause cancels an activation the site has
  used (`src/browser_flow.py:306`). `AcceptedNotCancelled` names these cases.
* A delete counts the Ollama channels over pages of 100. A channel created or
  deleted between two pages may make a wrong number look right, and the delete
  goes on (`pool_cleaner.py:131`). `DeletesStop` counts one more channel for each
  time.
* After the window has closed, `next_available_slot` returns the present moment
  (`src/scheduler.py:132`), and `wait_for_slot` loops without sleeping until
  midnight; and the first hour of the window comes back although a registration
  that lasted past midnight may be too close. `NextSlotAllows` excludes both.
* With one attempt on file the rate limit doubles its interval
  (`ollama_register.py:445`), while `cli()` sleeps the plain one: the second
  registration of a batch is refused. One attempt also lowers the limit to 5.
* The mail breaker (5 results) cannot trip: every mail failure is a code timeout
  too, whose limit is 3 (`BreakerCounts`). A process that was running when
  another one tripped writes the trip away with its next result (`TripKept`).
* Nothing calls `QuarantineManager.add`, `mark_*` or `promote_to_exportable`.
  Used as they are meant, they write no transition to the log, so that a
  rebuild finds no exportable account, empties the list, and puts accounts that were
  failed or promoted back into quarantine.
* A purge or a restore under a running gateway is undone when the gateway stops
  and saves its memory. Purged keys that are still listed come back as healthy.
  Restore and import are not idempotent: run twice they leave duplicates, and a
  number of Ollama channels that is wrong stops every later delete after one
  channel.
* In the legacy program, an account whose signup answer is lost is met as a
  duplicate by the next pass and never tried again; its token is never
  fetched, and only `pending.jsonl` knows it. `append_account` and
  `confirm_pending.py` truncate and fill a file the other may be reading, and lose
  records.

## 5. Proofs

Proved with TLAPS, for every number of processes, keys, attempts and requests
and every value of the parameters that meets the assumptions of the module
(`TriesAssumption`, `ExitsAssumption`, `ProcsAssumption`, `ScrapedAssumption`,
`NoneAssumption`, `TimesAssumption`, `IntervalAssumption`, `TasksAssumption`,
`LimitsAssumption`, `BreakerAssumption`, `CleanupAssumption`, `LegacyAssumption`,
`NoneNoAccount`):

| Module | Theorem | Property |
|---|---|---|
| `OllamaAccountsProofs` | `TypeCorrect` | `TypeOK` |
| | `DuplicateFree` | `NoDuplicates` |
| | `PublishedWereAccepted` | `OnlyAcceptedKeys` |
| | `VerifiedArePublished` | `VerifiedKeysPublished` |
| | `RegistrationsLoseNothing` | `RegistrationsKeepAccounts` |
| | `NothingDemoted` | `NoDemotion`, for one revalidation at a time |
| `PuterRegisterProofs` | `TypeCorrect` | `TypeOK` |
| | `AuditTruthful` | `AuditTellsTheEnd` |
| | `FiledAfterQuarantine` | `FiledWereQuarantined` |
| | `EscapesAreLate` | `EscapesExplained` |
| | `LedgerRefined` | `LedgerKept` |
| | `AddressesRetired` | `PhoneIPsRetired` |
| | `ReturnsAreFiled` | `ReturnedAreFiled` |
| `PoolProofs` | `TypeCorrect` | `TypeOK` |
| | `OnlyProbesRevive` | `RevivedOnlyByProbe` |
| | `FlagsSurviveRestart` | `RestartKeepsFlags` |
| | `ImplementsPoolFlags` | `FlagsAsPromised` |
| | `DeletesStopInTime` | `DeletesStop` |
| | `FlagsSurviveCommands` | `FlagsSurvive` |
| | `ImplementsPoolCleanup` | `CommandsAsPromised` (no run) |
| | `SystemKeepsPromises` | `FlagsSurvive`, `DeletesStop`, of `PoolSystem` |
| | `OnlyProbesReviveBesideCommands` | `RevivedOnlyByProbe`, of `PoolSystem` |
| `SchedulerProofs` | `TypeCorrect` | `TypeOK` |
| | `SpacingKept` | `OwnSpacing` |
| | `NothingForgotten` | `RegistrationsKept` |
| | `LimitKept` | `DailyLimit` |
| | `SlotsAreAllowed` | `NextSlotAllows` |
| `OllamaSignupProofs` | `TypeCorrect` | `TypeOK` |
| | `NothingLeftOpen` | `ActivationsSettled` |
| | `UsedNotReturned` | `AcceptedNotCancelled` |
| | `PurchasesBounded` | `PaidWithinRetries` (no run) |
| | `SessionsClosed` | `ClosedAtEnd` |
| | `FiledUndrifted` | `StrayingNoticed` |
| `OllamaRateLimitProofs` | `AttemptsStayBounded` | `AttemptsBounded` |
| | `SpacingIsKept` | `SpacingKept` |
| `PuterBatchProofs` | `BreakerCountsRight` | `BreakerCounts` |
| | `TripsKept` | `TripKept` |
| | `LegacyUsernames` | `UsernamesKept` |
| | `LegacyStranded` | `NoneStranded` |
| `PuterRecoveryProofs` | `AccountsStay` | `NoAccountVanishes` |
| | `RebuildsSettle` | `RebuildSettles` |

Each module has an inductive invariant `IInv`, proved by `Invariance`; that of the
commands is `CleanupInv`, proved by `CleanupInvariance`, and that of the legacy
program `LegacyInv`, proved by `LegacyInvariance`.

* Account store. None of the properties is inductive. A lock is held exactly
  between the read and the write it protects, so what was read under it is
  still on disk (`ProcessInv`); the list of a revalidation is old, but was
  free of duplicates when it was read, and marking an account leaves it so
  (`ListInv`); and a verified key is published, or cut off by a crash, or about
  to be published by the process that holds it (`AccountedFor`). That nothing is
  demoted needs, on top, that a revalidation's copy has no account that is not on
  file and knows every verified one of them as verified (`CopyInv`): a second
  revalidation would break this, so the theorem assumes `OneRevalidation`.
* Puter. The state of the attempt in hand is determined by the control point up to
  the paths into the handler (`StateAt`); an attempt is in one hand
  (`ProcessInv`); a list never has an attempt on it that has yet to be entered
  (`FiledInv`). The refinement follows from these: an attempt with an audit record
  is past every transition. Two properties speak of earlier attempts, and need to
  know that an attempt is begun once and the one in hand is its process's latest
  (`HistoryInv`). For the addresses: a process that is up has in its copy of the
  blacklist every prompt it ever met, but for one it is in the pause of or was
  killed in the pause of, and every prompt that was retired when it started
  (`PhoneInv`); a prompt that is retired is on file. For the exceptions: the
  except clause reaches `_finalize` with the attempt failed, skipped or where it
  was, never quarantined (`Holds`), which is what it says of an attempt that
  escapes there. For the returns: the way to a quarantined audit record goes
  through the scheduler's list, which only grows, and through the account list,
  which only grows while nobody stores from an older copy, as is so when all
  attempts are of one process (`ReturnInv`).
* Gateway. While it is down nothing runs (`DownInv`); an answer is awaited for a
  key (`ProbeInv`). These hold whoever writes the state file; that it has the
  flags the gateway went down with (`SavedInv`) holds of the gateway alone, and is
  what `RestartKeepsFlags` needs. That the gateway implements `PoolFlags` is shown
  action by action: each is a `Load`, a `Save`, a `Die`, a `SetFlag` or a stutter.
* Commands. While the gateway is down, the flags it went down with are in the
  state file, except for the keys in `rewritten` (`FileInv`), also while a purge
  holds a state it read earlier: if that differs from the file, the purge takes
  responsibility for every key. A delete that has removed a channel under a wrong
  count stands before the count (`DeleteInv`), and the number is still wrong: another
  delete could put it right only by removing an Ollama channel. That it does not
  rests on ids: they are given once, so that what a delete has listed as a Puter
  channel never becomes another one (`ChannelInv`). A listing that is still has
  returned each channel once and counted its Ollama ones (`ListingInv`), so that its
  last page gives the true number, for any size of the pages.
* Gateway and commands. A gateway step is a step of `PoolFlags` by the lemmas
  above, which do not use `SavedInv`, and a command step touches nothing of the
  gateway's but the file. So both invariants hold together (`SystemInvariance`),
  the composition implements `PoolCleanup`, and its properties carry over by the
  refinement, without being proved again.
* Scheduler. The list is in the order of time and a process holds an initial
  part of it that includes all its own registrations (`ProcessInv`), so the last
  entry it sees is no earlier than its own last. The limit rests on counting the
  processes whose copy still shows room on a day (`Blind`): a registration under
  way is by one of these, recording it opens that process's eyes, and once the day
  is full the registrations and the blind together do not become more
  (`LimitInv`). That counts processes, so there are finitely many
  (`ProcsAssumption`). The next slot is a case analysis along
  `next_available_slot`: it names an opening of the window, today's or tomorrow's,
  the present, or an interval after the last registration. It rests on lemmas about
  dates and times of day, and needs that the interval fits before the window and
  after it (`IntervalAssumption`: in the code it is half an hour, and the window is
  from 8 to 22).
* Sign-up. What is in hand and what is open is determined by the control point
  (`HeldInv`, `SessionInv`), an activation that is not in hand has ended or is
  lost (`ActivationInv`), the purchases so far do not outnumber the failed tries
  (`TriesInv`), a used activation is cancelled only if it is in `broken`
  (`HeldInv`, `ActivationInv`), and while a sign-up has strayed and not come back,
  the exit is not the first address, which the last check notices (`ExitInv`).
* Rate limit. The recent entries are counted together with the processes that
  have passed the check and are not recorded yet (`BoundInv`): to pass, a process
  must not be among these itself, and the entries it sees are below the limit. The
  entries are in the order of time but for the wait at the lock (`OrderInv`), so
  a distance from the last one is a distance, less the wait, from each of them.
* Breaker. Every copy and the file are sound for the results that led to them
  (`BreakerCounts`, with `Dated`), by one lemma per rule of `RecordResult`; a
  tripped file is the copy of every process that has seen the trip (`SeenInv`).
* Legacy registration. An attempt is in `pending.jsonl`, under the name it will
  give Puter, from its first step on (`AttemptInv`), and nothing removes a line.
  What any copy of `puter_accounts.json` has, on file, in a batch or in the
  confirmation, is an account that exists (`SavedInv`); so writing an old copy back
  loses records and never invents one, and the statuses that stop later batches
  from trying again are justified by the account and its token (`StatusInv`).
* Recovery. An account on the list, or in a quarantine no promotion is about to
  take it from, is safe; a promotion makes its account unsafe only after it has
  been put on the list, so that the save of the quarantine that follows takes out
  nothing that is not there or has been taken off by somebody else's write; a
  rebuild that is `calm` has, at each of its points, made the files so far what
  the log says (`RebuildOnCourse`).

Every invariant and action property of a passing run and both refinements are
proved. Only model-checked are the liveness properties `BannedRetired`,
`RequestsAnswered` and `SignupEnds`, which rest on fairness, beyond the prover.

## 6. Not modelled

See `PROJECT.json` for every component. The mailbox pool: no program registers a
provider with it, so that every acquisition fails, which is one of the ways
`PuterRegister` may raise. The registries of usernames, profiles and
fingerprints: random values, read at start and rewritten whole. The Puter
adapter, the temp-mail server, the capsolver shim and the integration scripts: services
or one-shot calls without state of their own. Page scripts, fingerprints,
simulated gestures, configuration, logging, preflight and the diagnostic scripts have
no state that a property could be about. `get_daily_slots` of the scheduler has
no caller.

Disk writes a process lives to finish are taken to succeed, an append is one step
except where a torn line matters (`PuterRegister`, `PuterRecovery`), and
`os.replace` swaps a file as a whole. Closing a browser is taken to succeed, a
temporary address that is not used expires, and HeroSMS' own expiry of an
activation, which could only settle more, is left out. A token that an account
file lists twice is outside `PoolGateway`; both registration programs list a key
once.

## 7. Plan

Done, in this order: `OllamaAccounts`, `PuterRegister` with `PuterLedger`,
`PoolGateway`, `Scheduler`, `OllamaSignup`; then `OllamaRateLimit`,
`CircuitBreaker`, `PuterRecovery`, `PoolFlags` with `PoolCleanup`,
`LegacyRegister`; then `PoolSystem`, and the proofs of what only runs had shown.

Left:

1. An abstract life cycle of an account (quarantined, exportable or failed, never
   backwards), once the quarantine manager has a caller that logs its
   transitions: with the present code a rebuild goes backwards.
2. The composition of `OllamaSignup` with `OllamaAccounts`, whose `Signup` stands
   for it: that what reaches the store was not filed while the proxy had strayed.
