# Verification of the Korea public data backend

TLA+ models, TLC runs and TLAPS proofs for the FastAPI backend under `src/`.
The backend serves announcements, businesses and contents collected from public
APIs, lets users register, subscribe to alerts and ask for new data, and carries
a framework for plugins and data sources.

Run everything from this directory:

    tlc -workers 2 -config board_single.cfg MCDataRequests
    tlc -workers 2 -config accounts.cfg MCAccounts
    tlc -workers 2 -config services.cfg MCServices
    tlapm DataRequests_proofs.tla
    tlapm PluginLifecycle_proofs.tla

and likewise for the other modules `*_proofs`: every module with theorems has
that suffix.

`PROJECT.json` lists components, runs, mutants, the map from definitions to
source lines, findings, hazards and theorems.

## 1. Inventory

All HTTP handlers are `async` functions. Those of the domains call `pymongo`,
a synchronous driver, so inside one server process a handler is never
interleaved with another between its database calls; several processes are
(`Dockerfile:80` starts gunicorn with four workers), and Celery workers run the
same services. The alerts domain uses an asynchronous driver, and the framework
under `app/core` awaits for real: there operations interleave inside one
process, at every `await`. Dependencies of the routes are synchronous functions,
which FastAPI runs in threads.

| Component (source) | State | Operations | Hard behaviour | What makes it correct | Module |
|---|---|---|---|---|---|
| Data requests (`domains/data_requests`) | collections `data_requests`, `votes` | create, edit, delete, set status, vote, cancel vote | look-up and write in separate round trips, documents written back whole, exceptions caught in the repository | one active vote per user, stored totals = tally, replies true, only the owner edits and deletes | `DataRequests`, `BallotBox` |
| Users (`domains/users`) | `users`, `user_settings` | register, log in, link and unlink Google, settings, delete | check then insert; Google look-ups by id, then by e-mail, which Google may change; upserts of single parts | one account per Google identity and e-mail, settings not lost while the account stands | `Accounts` |
| OAuth state (`core/security.py`) | Redis, else process memory | store, consume | read then delete; fallback per process; Redis comes and goes, or stores and does not answer | a consumed state is gone | `OAuthState` |
| Tokens (`core/security.py`, `users/service.py`) | blacklist in Redis | issue, verify, rotate, log out | rotation verifies first and revokes last; lifetimes in truncated seconds; Redis down | one exchange, revoked means refused | `TokenRotation` |
| HTTP rate limit (`core/rate_limit.py`, `core/middleware.py`) | Redis counters, else history per process | count a request | clock windows; restarts; open when Redis fails | a bound for every stretch of time | `RequestLimits` |
| Preferences (`domains/alerts`) | `notification_preferences` | read, change, reset | find then insert under a unique index | an answered change stays | `Preferences` |
| Plugin manager and registry (`core/plugins`) | plugins, metadata state | load, activate, deactivate, unload, reload, shut down | awaits between checks and changes; recursive activation | an active plugin has active dependencies | `PluginLifecycle`, `ServiceOrder` |
| Data source manager (`core/data_sources`) | registry, monitor, client cache, loops | initialize, discover, activate, deactivate, reload, validate, unregister, check, shut down | two background loops; awaits and a sleep inside transitions | registry, monitor and cache agree; no loop outlives the manager | `DataSources` |
| API gateway: pipeline (`core/api_integration`) | middleware list per phase | register, unregister, process | iterates over the live list, suspending in every middleware | every middleware due runs, in order, once | `Pipeline` |
| API gateway: limits (`rate_limiting.py`) | counters and logs in memory or Redis | check a limit, check a quota | read, await, write; keys expire meanwhile | a bound on what overlapping checks admit, although keys expire | `GatewayLimits` |
| API gateway: requests (`gateway.py`) | routes, response cache, statistics | route, serve from the cache, transform, cache | a request is looked up by the query as sent and kept by the query as transformed; requests suspend in between | a cached answer fits its request; the statistics add up | `GatewayRequests` |
| API gateway: versions (`versioning.py`) | versions, migrations between them, the default | register, set the default, migrate a request or a response | the path is found before its steps are awaited | the shortest way; the version tells the last migration passed | `ApiVersions` |
| Command and query buses (`shared/cqrs/bus.py`) | middleware list, query cache | execute a command or a query | any step may raise, the middleware and the cache included | every middleware that began is told the end | `MessageBus` |
| API processors (`core/interfaces/api_processor.py`) | cached response, shared client | fetch with retries, cache, fall back | threads share one client and one cache; a cached response stands in for a failure | what stands in is fresh; no fetch alone loses its client | `ApiProcessor` |
| Batch collection (announcements, businesses) | chunk, semaphore, report | collect all pages | pages fail and finish in any order; seams of chunks | every page once, report true but for unconfirmed insertions, it ends | `BatchCollection` |
| Announcements (`domains/announcements`) | collection | fetch, insert, edit, delete, clean up | duplicate check then insert; removal after a query; edits that replace the embedded document | fetched once, the last document with a number is kept | `Collection` |
| Lists of announcements | rows, Redis cache of pages | walk pages | count and find in two queries, whose failure is an empty page; cache never invalidated | an undisturbed walk misses nothing; the cache catches up | `Listing` |
| API clients (`core/interfaces`, `shared/clients`) | `self.client`, attempts | call, retry, synchronous call | swaps a shared attribute; nested retries | no call alone is lost; attempts bounded | `ApiClient` |
| Event bus (`shared/events`) | handlers, queue, loops, failures | subscribe, publish, process | handler lists change; loops overlap | failures put down to who failed; the queue attended | `EventBus` |
| Dependency container (`core/container.py`) | resolution stack, singletons | resolve | the stack is shared by threads | a refusal has a cause, the stack recovers | `Container` |
| Categories, contents, businesses, statistics, keys, usage, alert matching, token bucket, event store, pagination, classification, scheduler, validation, logging | see `PROJECT.json` | | | | not modelled (section 6) |

How they interact: routers resolve services from the container, services call
repositories, and repositories the driver; log-ins go through the OAuth state,
the accounts and the tokens in this order; the batch collector and the fetches
call the public APIs through the API clients and store what `Listing` serves.
Celery tasks (`*/tasks.py`) call the same services from another process, so
every domain meets itself across processes. The plugin manager, the data source
manager, the gateway, the CQRS buses and the event bus are used by no router.

The hazards of every component, with the line at which each bites and the
properties about it, are in `PROJECT.json`.

## 2. Plan

Done, in this order: `DataRequests` with `BallotBox` and its proofs;
`PluginLifecycle` with `ServiceOrder`; then the users' side (`Accounts`,
`OAuthState`, `TokenRotation`, `RequestLimits`, `Preferences`) composed in
`MCAccounts`, and the services' side (`BatchCollection`, `Collection`,
`Listing`, `ApiClient`, `DataSources`, `EventBus`, `Pipeline`, `GatewayLimits`,
`Container`, `MessageBus`, `ApiProcessor`, `GatewayRequests`, `ApiVersions`)
composed in `MCServices`; then the proofs:

| Proof module | About |
|---|---|
| `DataRequests_proofs` | `DataRequests` and the safety part of its refinement of `BallotBox` |
| `PluginLifecycle_proofs` | `PluginLifecycle` and its refinement of `ServiceOrder` |
| `Promises_proofs` | `BallotBox` and `ServiceOrder` themselves |
| `Accounts_proofs` | `Accounts`, `OAuthState`, `Preferences`, `TokenRotation` |
| `Limits_proofs` | `RequestLimits`, `GatewayLimits`, the sums of `Sums` |
| `Services_proofs` | `DataSources`, `ApiClient`, `Listing`, `Collection`, `Container`, `BatchCollection` |
| `Gateway_proofs` | `EventBus`, `GatewayRequests`, `Pipeline` |
| `Buses_proofs` | `ApiProcessor`, `MessageBus`, `ApiVersions` |

The modules are written to be proved about: constants with assumptions, no
RECURSIVE operator, one action per step. Every safety property a run checks is
proved for all values of the constants, but for those of the last paragraph of
section 5's proofs. What is left: the scheduler, validation and the limiter of
notifications (section 6), once they run.

## 3. Data requests

### Modules

`DataRequests` models `service.py`, `repository.py` and the vote, delete and
cancel routes of `router.py`. A **worker** is a server process. It is idle or
inside one handler; an action is the code from one database round trip to the
next, so actions of different workers interleave exactly where processes may.

| State | Code |
|---|---|
| `requests` | the collection `data_requests`, with the fields the operations read or write: `is_active`, owner, status, the two counts (`vote_count` is always written as their sum) and the content, abstracted to a value of `Titles` |
| `votes` | the collection `votes` in insertion order: `find_one` and `update_one` on (request, user) take the first match |
| `handler` | per worker, the next step and the local variables that live until then |
| `reply` | per worker, the last response it sent |
| `faults` | failed database calls and killed workers so far |

| Action | Code |
|---|---|
| `CreateRequest` | `create_data_request`; the category look-up and the insertion are one step, since categories never change here |
| `VoteFindRequest`, `FindVote`, `CreateVote` / `WithdrawVote` / `SwitchVote`, `CountVotes`, `WriteCounts` | `vote_data_request`, one round trip each |
| the same with `op = "cancel"` | the DELETE route, which calls it with a fixed like |
| `EditFindRequest`, `WriteEdit`, `RereadEdit` | `update_data_request`; the document read first is written back whole |
| `DeleteFindRequest`, `WriteDelete` | `delete_data_request` and the router's unconditional success |
| `StatusFindRequest`, `WriteStatus`, `RereadStatus` | `update_request_status` |
| `Abort` | an exception nobody catches before the router, or a killed process |

A call that fails is a choice (`raised`, `Finds`): repository methods that catch
the exception report "not found" or False, and a write may have been applied
before it failed.

The router passes a fixed user id (`get_current_user_id` returns a stub), so
several users are a property of the service, which takes the id as an argument.

MongoDB is external: single-document writes are atomic, `find_one` returns the
oldest match of a small collection without a matching index.

`BallotBox` is the abstract specification of voting: a user has one ballot on a
request, the published totals change only by a count of the ballots, and a
changed ballot is eventually counted. `DataRequests` refines it with one server
process and no faults (`RefinesBallotBox`): the ballot of a user is the type of
the user's active vote.

### Runs

Passing runs, module `MCDataRequests`:

| Run | Instance | Distinct states | Shows |
|---|---|---|---|
| `board_single` | 1 worker, 2 users, 1 request, all operations, 4 votes, no fault | 79,613 | types; stored counts agree with the votes outside a count; a reply "you like this" is true; voting implements `BallotBox`, liveness included |
| `board_faults` | 1 worker, 1 user, 2 requests, all operations but status, 3 votes, 2 faults | 87,143 | a vote whose final write is applied leaves exact counts, whatever failed before |
| `board_workers` | 2 workers, 2 users, 1 request, votes, edits to null and deletions, 3 votes, no fault | 1,494,608 (up to symmetry) | at most as many active votes as workers; only the owner's handlers change content or delete |

Runs that must find a violation; each is a disagreement between the code and what
its documentation says, described in `PROJECT.json` "findings":

| Run | Property | Behaviour |
|---|---|---|
| `second_cancel` | `WithdrawnMeansGone` | like, withdraw, like, withdraw: the second withdrawal hits the old document and the vote stays |
| `stale_counts` | `CountsAgree` | two processes write their totals in the opposite order |

The model has further behaviours that differ from what the code says of itself;
no run is spent on them:

- the DELETE route of a vote calls the toggle with a fixed like (`router.py:285`):
  a user who has no vote is recorded as liking the request, a dislike becomes a
  like;
- the router reports a deletion as successful whatever the service returns
  (`router.py:235`), a failed write included;
- an edit writes the whole document it read before (`repository.py:42`): one that
  overlaps a deletion in another process brings the request back;
- a vote that another process accepted before a deletion is still stored after it
  (`service.py:194`, `214-227`);
- an edit may set a required text to null (`service.py:159`), and the document
  can no longer be parsed: every later look-up reports it missing.

**Bounds.** `MaxVoteDocs` bounds the documents of `votes` (a call that could
exceed it is not accepted, so a vote once begun always completes) and
`MaxFaults` the failures. Three documents are
enough for an old inactive vote next to an active one, which is what every
behaviour of withdrawals depends on, and for two racing workers to exceed the
bound of two active votes if they could; four let each of two users reach that
situation. Two workers are the pair every race needs; the theorems
`VotesBounded` and `OwnerOnly` cover any number, and faults. Two faults let a second
failure follow an unrepaired first. Symmetry is used on workers only, and only in runs without liveness.
Deadlock is checked in every run.

**Fairness.** `WF_vars(HandlerStep(w))` for every worker: a process that began
a handler keeps executing it, as an operating system schedules it. Clients owe
no calls, and there is no fairness on failures. The only liveness checked is that
of `BallotBox`, in `RefinesBallotBox`.

### Proofs

All hold for every value of the constants under `DataRequestsAssumption`
(finitely many workers, the null content distinct, the statuses contain
"pending", and the like).

All theorems of this section but the last are in `DataRequests_proofs`.

| Theorem | Argument |
|---|---|
| `TypeCorrect`: `Spec => []TypeOK` | `TypeInv` = `TypeOK` and `InFlightStored`: a handler past its look-up acts on a stored request. Without the second part a write to a request that was never stored could produce an untyped document |
| `OwnerOnly`: `Spec => OnlyOwnerChangesRequest` | a handler about to write an edit holds a document with the stored owner, and it serves that owner; so does a handler about to delete |
| `VotesBounded`: `Spec => []ActiveVotesBoundedByWorkers` | `HeldBound`: per (request, user), the votes active or about to be written back by a switch, plus the handlers about to insert one, stay within the number of workers. The bound alone is not inductive, since such handlers are about to add to it. The sum grows only when a handler finds no active vote, and then every member of it is due to a different worker |
| `CountsCorrect`: `Spec => []CountsAgree`, assuming `OneWorker` and `MaxFaults = 0` | `CountInv` adds that counts about to be stored are the tally, that a document about to be written back by an edit holds the stored counts, and that a request not stored has no votes, so that a new one may start at zero |
| `RepliesAreTruthful`: `Spec => []ReplyVotedTruthful`, assuming `OneWorker` | `LoneInv`: a handler withdraws the last reply when it begins (`BusySilent`), and while it recounts there is an active vote of the type it is going to answer (`VotedStands`). Faults are allowed: what fails answers without a vote |
| `VotesRepairCounts`: `Spec => VoteRepairsCounts`, assuming `OneWorker` | the same invariant: counts about to be written are the tally, since nobody else votes in between (`CountedExact`) |
| `RunsAnHonestBallotBox`: `Spec => Box!Init /\ [][Box!Next]_(Box!boxVars)`, assuming `OneWorker` and `MaxFaults = 0` | step by step under `CountInv`: writing a vote is a `Cast`, storing the counts a `Publish`, all else a stutter. `Publish` needs that the tally of the votes is the tally of the ballots: one worker leaves a user at most one active vote (`HeldBound`), so votes of a type and their users correspond one to one |

The assumptions are those of the runs: `OneWorker` is a deployment of one process
(uvicorn), and `stale_counts` shows that two workers break `CountsAgree`.

`TotalsHonest` (module `Promises_proofs`) proves what the refinement buys:
`BallotBox` implies that the totals are the tally of the ballots whenever the
request is not being counted. `Honest` alone is not inductive; `BoxInv` adds that
only one request is counted at a time.

Only model-checked: the liveness of `BallotBox`, that a cast ballot is counted in
the end. Liveness and ENABLED, induction over data and RECURSIVE operators are
beyond the proof system's installed backends and stay with TLC.

### Not modelled

Listings, filters and statistics (read only), categories and their creation,
wording of messages, tags, priority and notes (part of the abstract content),
`created_at` / `updated_at`, and authentication, which the router stubs out.

## 4. Plugin manager

### Modules

`PluginLifecycle` models `manager.py`, `registry.py` and the parts of `loader.py`
and `base.py` they call. All of it runs on one asyncio event loop. A coroutine
suspends only while a plugin's own `initialize` or `cleanup` is awaited (an
external method that takes its time and may fail); awaiting another method of the
manager runs it at once. So the model keeps, for every task, the stack of its
nested coroutines, and a baton `current`: while a task holds it no other moves.
An action is the code of one coroutine from one call or return to the next.

| State | Code |
|---|---|
| `instances` | the plugin objects in order of creation, with the state of their metadata and `is_initialized` |
| `registered` | `_plugins` and `_metadata`: the object registered under a name, 0 if none. `_dependencies` and `_dependents` follow from it and from `Requires`, `Optional` |
| `stack` | per task, its frames: operation, where it stands, the plugin's name, the object fetched, the rest of its loop |
| `returned` | what the nested call just ended returned |
| `current` | the task the loop runs |
| `answer` | per task, the outcome of its last operation |

| Action | Code |
|---|---|
| `Load` | `load_plugin`, which never suspends |
| `Call` | a task calls activate, deactivate, unload, reload or shutdown |
| `EnterActivate`, `VisitDependency`, `DependencyActivated`, `DependencyFailed`, `StartInitialize`, `FinishInitialize` | `activate_plugin`, which calls itself for its dependencies |
| `EnterDeactivate`, `FinishCleanup` | `deactivate_plugin` |
| `EnterUnload`, `FinishUnload` | `unload_plugin`, `reload_plugin`, `PluginRegistry.unregister` |
| `EnterShutdown`, `VisitActive` | `shutdown` |

The order in which dependencies are visited is `LoadOrders`: Kahn's algorithm
with a first-in first-out queue, whose ties the iteration of sets decides, stated
by what it produces rather than by its loop.

Three behaviours follow from details that are easy to miss and are in the model:
`unregister` calls `.get` on a metadata object (`registry.py:93`), so any registered
dependent, active or not, makes unloading fail; `reload_plugin` unregisters the
plugin and then calls `asyncio.run` inside the running loop (`loader.py:417`), so it
always fails and the plugin is gone; `initialize()` reads
`PluginConfig.auto_discover` (`manager.py:74`), which does not exist, so nothing is
loaded or activated automatically and plugins come from `load_plugin`. An unload
after a failed cleanup drops the plugin with its resources, because the state is
INACTIVE already (`manager.py:297`), and an activation that ends after its plugin
was unloaded and loaded again marks the new object ACTIVE (`manager.py:238`).

`ServiceOrder` is the abstract specification: one plugin goes up or down at a
time, up after everything it requires, down when nothing up requires it. One task
implements it (`RefinesServiceOrder`); two do not.

### Runs

| Run | Instance | Distinct states | Shows |
|---|---|---|---|
| `plugins_single` | 1 task, 3 plugins with a required, two optional edges, a cycle, an outdated version; initializations may fail; 4 objects | 677,579 | types; a plugin holds resources exactly while active or cleaning up; `ServiceOrder` |
| `plugins_tasks` | 2 tasks, 2 plugins, all operations, both methods may fail, 2 objects | 310,582 | no registered plugin stays INITIALIZING without a task activating it; every operation ends |
| `plugins_overlap` (violation) | 2 tasks, activate and deactivate | | `DependenciesHeld`: the dependency is deactivated while its dependent is still INITIALIZING |
| `plugins_shutdown` (violation) | 1 task | | `ShutdownStopsAll`: a plugin registered before its dependent refuses to stop and stays active, and shutdown reports success |

**Bounds.** `MaxLoads` bounds plugin objects, a load beyond it is a load that
fails. Four objects let each of three plugins be loaded and one loaded again; two
with two tasks allow a dependency pair, or load, unload, load of one name under
another task's activation. Cleanup does not fail in `plugins_single`: then an
object keeps its resources by design (`FinishCleanup`), and `ResourcesTracked`
describes the rest. Deadlock is checked in every run.

**Fairness.** `WF_vars(\E t : Run(t))`: the coroutine that holds the event loop
runs on. `SF_vars(Resume(t))`: a plugin's `initialize` or `cleanup` ends, and the
loop's ready queue is first in, first out, so a task that is ready again and
again does resume; weak fairness would not say so, as the other task takes the
baton in between. Callers owe no calls.

### Proofs

`PluginLifecycle_proofs`, for every finite set of plugins, every relation of
dependencies (cycles and outdated versions included), and whatever fails:

| Theorem | Argument |
|---|---|
| `TypeCorrect`: `Spec => []TypeOK`, any number of tasks | `TypesInv` adds that a frame stands only where its operation can stand, with a plugin if it is about one, and that objects stay within `MaxLoads` |
| `InitializingAttended`: `Spec => []InitializingIsAttended`, any number of tasks | `AttendedInv`: the same, and whoever is initializing has a frame of an activation past its entry. An activation leaves that frame only after it wrote ACTIVE or ERROR to whatever object is registered under the name by then |
| `ServicesGoInOrder`: `Spec => RefinesServiceOrder`, one task | `SingleInv`, below: an activation that marks its plugin active has everything it requires up, a deactivation that marks its plugin inactive has nothing up that requires it, every other step leaves the plugins that are up alone |
| `DependenciesHeldAlone`: `Spec => []DependenciesHeld`, one task | from the moves above; `plugins_overlap` shows that two tasks break it |
| `ResourcesTrackedAlone`: `Spec => []ResourcesTracked`, one task and `"cleanup" \notin Faulty` | the property is inductive together with `SingleInv`, which says that the object an operation fetched at its start is still the one registered |

`SingleInv` describes the one stack there is. `Nested`: activations wait for
activations of plugins that come strictly before them in the order of dependencies
(`Before`: reached from the one and not back), any other operation for a
deactivation. `Starting`: the plugin of an activation past its entry is
initializing, is the object fetched, has everything it requires registered, and
has only plugins before it left to visit; so a nested activation never meets a
plugin that is initializing already. `NeedsMet`: of what it needs, each plugin
is up, still to be visited, being activated by the frame above, or has just failed.
`Stopping`: what cleans up is inactive. `LoneInvariant` proves it inductive.
The hypothesis on clean-ups is that of `plugins_single`: after a failed one an
object keeps its resources by design.

`RequiredAreUp` (module `Promises_proofs`): `ServiceOrder` implies that whatever
a plugin that is up requires is up, for any set of plugins and dependencies.

Only model-checked: `EveryCallAnswered`, which is liveness.

### Not modelled

Discovery and configuration files, startup and shutdown hooks, state-change
listeners, plugin events and statistics, cancellation of a task, and exceptions
of listeners.

## 5. Accounts and services

### Composition

Eighteen modules would mean as many runs. Instead two harness modules hold small
instances of all parts: `MCAccounts` those about clients and their accounts,
`MCServices` those that collect, keep and serve data. They extend the modules of
the parts, so that a run and a theorem name one definition. The parts share no
state in the code either (or only through values one part hands to another), so a
behaviour of a harness is a behaviour of one part, chosen in its initial state by
the variable `part`, while the other variables stand still. The states of a run are
the union of those of its parts, every property is checked in the part it is
about, and holds elsewhere of an unchanging state. `CHECK_DEADLOCK FALSE`: parts with a bound on
insertions, writes or time end there. Server processes `p1`, `p2` of `accounts`
are interchangeable (symmetry); that run has no liveness property.

### Accounts and their clients (`accounts`, module `MCAccounts`)

| Part, module | State and code | Actions and code | Instance |
|---|---|---|---|
| `users`, `settings`, `Accounts` | `users`, `settings`: the two collections; `usedIds`: ids once inserted; `call`: per process, the next step and its locals; `answer`; `failures`; `reported`, history: the e-mails Google gave for an identity | one per database round trip of `register`, `login`, the Google callback (`GoogleByExternalId`, `GoogleByEmail`, `LinkGoogleAccount`, `CreateGoogleUser`, `RereadUser`), the profile, settings, unlinking and deletion. Every call may fail; the repository then reports None or False, applied or not | 2 processes, 2 ids, 2 e-mails, 1 Google identity, 1 failure; the settings of one account as a part of their own, 2 parts |
| `login`, `OAuthState` | `inRedis`, `inMemory`: where a state is kept, in both if a `setex` was applied and not answered (`twice`, history); `redisAnswers`; `callback`: per process, between read and deletion | `GoogleLogin` (`store_oauth_state`), `GetState`, `DeleteState` (`verify_oauth_state`), `FromMemory`, the fallback, `ExpireState`, `RedisToggles`, `Restart` | 3 processes, 2 states |
| `race`, `clock`, `TokenRotation` | `pairs`: pairs issued, with the pair each was rotated from; `blacklist`: token to expiry of its Redis entry; `now` in fractions of a second, of which the code's clock has a million | `SignIn`, `RefreshToken`, `RefreshIssues`, `RefreshRevokes`, `Logout` and its two revocations, `Use`, `UseFindsUser`, `RedisFails`, `Tick` | 2 processes, thirds of a second, lives of 1 and 2 seconds; race: Redis up, 4 pairs, the first two instants; clock: Redis failing, 2 pairs, time to 2 seconds |
| `limits`, `RequestLimits` | `mode`: what `main.py` installed in each process; `counts`: the Redis keys of this minute and hour; `history`: the deques of the memory limiter | `RedisDispatch`, `RedisLetsThrough` (Redis fails), `MemoryDispatch`, `LimiterRestarts`, `TickOn` | 2 processes, 3 arrivals a tick, 2 a minute, 3 an hour, a minute of 2 ticks, an hour of 4 |
| `preferences`, `Preferences` | `prefs`: the user's document, by the fields changed; `asking`; `replied` | `GetPreferences`, `InsertDefaults`, `PutNothing`, `UpdatePreferences`, `InsertChanged`, `Reread`, `DeletePreferences`, `Aborts` | 3 requests, 2 fields |

1,258,856 distinct states. What it shows:

- `OneAccountPerIdentity`: however callbacks, registrations and deletions
  interleave, a Google identity has no more accounts than Google gave e-mails for
  it; one, as long as its e-mail does not change. This rests on the unique
  index on the e-mail, which the code creates but does not insist on
  (`repository.py:69`): the instance sets `EmailIndexed`.
- `SettingsKept`: a first read that inserts defaults
  and updates of other parts never reset a stored part of an account that stands
  (deletion is no concern of it), and a read shows at least
  what was stored when its call began, while no database call fails.
- `NoLateUse`, `UsesBounded`: of a state some callback was answered with nothing
  is left, so that no later one is answered with it, unless it was stored in Redis
  and in memory; overlapping ones are at most as many as processes, and one more
  if it was stored twice.
- `ExchangesBounded`: a refresh token is exchanged at most once per process while
  Redis is up. `RevocationHolds`: a logout that answered success revoked both
  tokens, if Redis never failed, and a token with a
  blacklist entry is refused. Neither speaks of the last moments of a token
  (`AlmostExpired`): from a second before the whole second of its expiry on its
  entry, whose life was truncated, may be gone, and the token is
  accepted to the end of that second.
- `AdmissionsBounded`: in any stretch as long as a minute or an hour a client
  gets at most twice the limit from the processes that count in Redis, whose clock
  windows do not slide, and the limit once for every life of a process that counts in memory.
- `UpdatesKept`: racing first requests never undo an answered change, and an
  update answered 200 shows all it changed unless a deletion came between.

### Services (`services`, module `MCServices`)

| Part, module | State and code | Actions and code | Instance |
|---|---|---|---|
| `batch`, `BatchCollection` | `step`, `current`, `waiting`, `asking`: the chunk and its semaphore; `report`; `stored`, `unconfirmed`, history: what was inserted, and what of it was answered as failed | `FirstRequest`, `RequestPage`, `PageFails`, `PageAnswers`, `FinishChunk` (`batch_service.py` of both domains) | 9 estimated items in pages of 2, chunks of 3, 2 at a time |
| `fetch`, `clean`, `Collection` | `doc`, `byUpdate`: the collection and its order by `updated_at`; `fetching`, `cleaning`: processes in a fetch or a clean-up; `renumbered`, history: numbers edits gave or took since the clean-up looked | `FetchPage`, `CheckDuplicate`, `InsertFetched`, `InsertFromBatch`, `CreateAnnouncement`, `UpdateAnnouncement`, `DeleteAnnouncement`, `FindDuplicates`, `RemoveDuplicate` | fetch: 2 fetchers, an announcement that comes twice on a page, editors who take a copy away and give it back; clean: 1 clean-up, documents of the batch that editors renumber and deactivate; both 3 documents, 1 failure, 1 edit that yields a copy |
| `listing`, `Listing` | `rows`; `listed`: the Redis list cache; `reader`: a client and what it has seen | `StartWalk`, `ServeCached`, `CountRows`, `FindRows`, `QueryFails`, `StoreAndServe`, `Expire`, `Insert`, `DeactivateRow` | 1 reader, 3 announcements, pages of 1, two writes and failed queries, of these at most one |
| `api`, `sync`, `ApiClient` | `client`, `endpoint`: `self.client`, `self._current_endpoint`; `open`; `call`; `sync` | `EnterClient`, `Answered`, `FailsForNow`, `FailsForGood`, `Retry`, `Close`; `SyncStart`, `SyncAttempt` for the nested executors, explored as a part of its own | 2 calls, 2 attempts |
| `sources`, `DataSources` | `status`, `monitored`, `cached`: registry, monitor, factory; `running`, `owned`: loops alive and remembered; `op`: coroutines inside an operation | `Initialize` to `InitializeEnds`, `Discover`, `Activate`, `Deactivate`, `Reload`, `Validate`, `Unregister`, `CheckHealth`, `Shutdown` to `ShutdownEnds` | 3 callers, 1 source, 2 loops |
| `bus`, `EventBus` | `handlers`, `queue`, `processing`; `runner`: loops and waiting publishers; `recorded`; `misreported`, history: failures lost or put down to another | `Subscribe`, `Unsubscribe`, `Publish`, `PublishAndWait`, `StartProcessing`, `StopProcessing`, `TakeEvent`, `TimesOut`, `BeforeHandle`, `HandlingEnds`, `ClearFailedEvents` | 2 events, 3 handlers, 2 of them accepting, 2 runners |
| `gateway`, `Pipeline` | `line`: the list of each phase; `pass`: per request, phase and iterator | `RegisterMiddleware`, `UnregisterMiddleware`, `ProcessRequest`, `ProcessResponse`, `RunMiddleware`, `EndPhase`, `BreakOff` | 2 requests, 3 middlewares, 4 changes |
| `gateway_limits`, `GatewayLimits` | `counters`, `log`: what the storage holds; `due`, `logDue`: when Redis lets it expire; `checking`: per caller, the next Redis command | `CheckInMemory` in one step; `Begin`, `ReadCounter`, `ReadPrevious`, `CleanupExpired`, `GetTimestamps`, `Decide` over Redis; `CounterExpires`, `LogExpires`, `StampAdvances` | 2 callers, limit 1, windows of 2 stamps, stamps 0 to 3 |
| `container`, `Container` | `resolving`: `_resolution_stack`; `singletons`; `frames`: per thread its nested `resolve` calls | `Resolve`, `CheckCycle`, `Push`, `LookUp`, `ResolveNeed`, `Construct`, `Store`, `RemoveType` | 2 threads, 2 services, their repositories, 2 unregistered parameters, an unregistered service |
| `messages`, `MessageBus` | `chain`: the middleware; `handled`: a handler is registered; `caching`, `inCache`: the query cache; `exec`: per caller, the step, the middleware that began and that learned of the end | `Execute`, `CacheFails`, `BeforeExecute`, `Handle`, `StoreInCache`, `AfterExecute`, `OnError`, `AppendMiddleware`, `RegisterHandler`, `UnregisterHandler`, `CacheExpires` | 2 callers, 2 middlewares |
| `processor`, `ApiProcessor` | `entry`: the cached response; `sweeping`; `clientOpen`: the shared client; `work`: per thread, the context of its processing | `Look`, `Read`, `Enter`, `Ask`, `Answer`, `Finish`, `ClearEntries`, `FindExpired`, `DeleteExpired`, `Tick` | 2 threads, a life of 2, 1 retry, time to 3 |
| `requests`, `GatewayRequests` | `routes`, `responses` (the cache), `stats`, `underway`: requests in progress | `Arrive`, `CheckCache`, `RouteRequest`, `Respond`, `Interrupted`, `RegisterRoute`, `ClearResponses`, `InstantPasses` | 2 callers, the path of a list and of an item, a transformer that renames, a life of 2, time to 2, 3 requests |
| `versions`, `ApiVersions` | `supported`, `migrations`, `default`: the registries; `migrating`: a migration under way, with the path it found | `RegisterVersion`, `SetDefaultVersion`, `RegisterMigration`, `MigrateRequest`, `MigrateResponse`, `RequestMigrates`, `ResponseMigrates`, `MigrationFails` | 5 versions, one not active, a way of two migrations and one of three |

782,283 distinct states. What it shows:

- `BatchReportTrue`, `CollectionEnds`: chunks neither overlap nor leave a page
  out (`EveryPageOnce`); the report counts what was inserted, but for the insertions
  that were carried out and answered as failed; the collection ends.
- `FetchedOnce`: check and insertion are two calls, yet every second active copy of
  an announcement is accounted for by an overlapping fetch, a failed check or an
  edit that yields a copy: one that makes a deleted copy active again, or gives a
  document that business. `NumberedKept`: one clean-up at a time never removes
  the last document with a number, unless an edit since its query gave or took that
  number.
- `WalkComplete`: a walk answered from the database, undisturbed by deactivations,
  by writes between a count and its find and by failed queries, misses nothing.
  `ListCatchesUp`: when writing and failing come to an end the cache agrees with the
  rows for good, although the empty page of a failed query is cached like any other.
- `ClientCallsKept`: a call no other overlapped is never lost or misread, whatever
  earlier calls left in `self.client` (`UndisturbedAlone` of `ApiClient`), and the
  synchronous path sends at most the square of the attempts (`SyncCallsBounded`).
- `ManagerInCharge` (`StatusTellsTheRest`, `LoopsEndWithManager`): registry, monitor and factory
  agree; no loop survives the manager, except where an initialization overlapped.
- `FailuresRecorded`: a failure is recorded, and put down to the handler that failed
  where all subscribed ones accept the event, although it is looked up by its index
  in a list others join meanwhile; not so when one was unsubscribed.
  `QueueAttended`: while the bus says it is running a loop takes events off its
  queue, also when it was restarted within the second a loop takes to stop.
- `PhaseRunsAll`: a completed phase ran every middleware registered at its start
  unless one was unregistered, in order and once unless one was registered.
- `OvershootBounded`: in memory a window gets the limit; over Redis with n callers at
  most 2n - 1 more. Checks that read at the same time all pass, one more for each
  caller but the first; and once the counter or the log of a window has expired, or
  a check with a later stamp has cleaned the log, each check of that window still
  out may pass once more. The counter of a quota lives a period from its last
  writing, that of a sliding window two, and the list a clean-up rewrites has no
  life time at all (`rate_limiting.py:191`, `205`, `214-219`). Two callers reach the
  bound in the quota and the log; the expiry of a sliding window's counter lies two
  windows on, beyond the last stamp of the instance, and is covered by the proof.
- `ResolutionsKeepTrack`: the stack holds a type once for every call resolving it,
  a refused request has another thread resolving the type, and singletons
  are constructed at most once per thread.
- `MiddlewareClosed`: whatever raises, every middleware whose `before_execute` ran
  learns of the end, by `after_execute` or `on_error`, unless an `on_error` raised.
- `FallbackIsFresh`: a cached response that stands in for a failed call is
  within its life time, however threads store and sweep. `UndisturbedAlone` of
  `ApiProcessor`: a processing no other thread overlapped never finds the client
  closed.
- `CachedAnswersFit`: an answer of the gateway's cache was given to this path and
  query within its life time, although it is looked up by the sent query and
  kept by the transformed one; every request is counted under one end.
- `MigratesByTheShortestWay`: whatever is registered while a migration is under
  way, a request goes by as few registered migrations as there were to the version
  asked for, and its version is that of the last migration it passed, until the first
  the one it was sent with; a response that passes the
  path backward ends at the version it came with (`versioning.py:475`, although
  line 446 says "to target version").

`shared_client` (violation, module `MCServices`, part `api` only): `ClientRestored`
quotes `base_api_client.py:143`; two overlapping calls leave a closed client in
`self.client` (`businesses/service.py:178-193` shares one client between
concurrent calls).

**Bounds.** Two actors suffice for every race that is modelled, since each has one
check and one write; the state parameter of a log-in has three so that `UsesBounded`
is not met by pairs alone, and the data source manager has three so that a shutdown
may overlap a reload and an initialization. A second has three fractions, the
least that tells a truncated life time from a rounded one and from the whole second
before and after. Chunk sizes and totals put a full chunk, a
seam and a short last chunk into one run; times are long enough for a token
to outlive its blacklist entry, for a quota's counter to expire under a slow check and
for a second hour to begin. Three arrivals a tick let both processes together exceed a
minute's limit over Redis and the seam of two clock minutes show.

**Fairness** (`FairSpec` of `MCServices`). Weak fairness of the batch: its requests
end, with an answer or the client's time-out. Weak fairness of `Serve`, since an
accepted request is answered, and on `Expire` of each page: Redis drops a key
whose TTL is over. Clients and writers owe nothing.

### Proofs

Theorems are about the modules of the parts, which the harness modules extend.
`IsFiniteSet` of the actors is assumed where they are counted
(processes in `OAuthState` and `TokenRotation`, handlers of `EventBus`, callers
of `GatewayRequests` and `GatewayLimits`, fetchers, documents of a list, threads of
the container); `Layered` says that the constructors' parameters have no cycle, as
services are built from repositories and these from the database; other assumptions on the constants are that bounds and life
times are natural numbers and the like, and are named in each module.

| Theorem | Module | Argument |
|---|---|---|
| `IdentitiesReachOneAccount` [`OneAccountPerIdentity`], assuming `EmailIndexed` | `Accounts_proofs` | `IdentityInv`: e-mails are unique, a linked account has an e-mail Google gave for its identity (`LinkedByEmail`), and so has the account a log-in is about to link, if it still exists (`LinksMatch`), because an account keeps its e-mail and ids are not used again. So the accounts of an identity map one to one into the e-mails reported for it. Without the index the look-up by e-mail and the insertion race |
| `SettingsAreKept` [`SettingsKept`] | `Accounts_proofs` | `SettingsInv`: what was stored when a read began is still stored, and nothing was stored if the read is about to insert the defaults |
| `NoLateUseHolds`, `UsesBoundedHolds` [`NoLateUse`, `UsesBounded`] | `Accounts_proofs` | `OAuthInv`: a state is in one memory at most (`OneMemory`); one kept in memory alone was never used and is held by nobody (`MemoryCopy`); the copy in Redis leaves room for the uses so far and the one in memory, none unless it was stored twice (`RedisCopy`), so that a used state is gone from wherever a later callback looks; and uses, callbacks that hold the state and the copy in memory stay within the processes and the one spare use (`UsesAndHolds`) |
| `RevocationsHold` [`RevocationHolds`] | `Accounts_proofs` | `LogoutsKeepTheirWord`: what the steps of a logout have stored so far is still on the blacklist or almost expired; `Outlives`: an entry ends less than a second before the whole second of its token's expiry (`Truncated`) |
| `ExchangesAreBounded` [`ExchangesBounded`] | `Accounts_proofs` | `Exchanges`: pairs made from a token count together with the processes that have verified it and may still exchange it; while the token is not revoked every such pair belongs to a process that has yet to revoke it, so whoever verifies it now finds the sum below the number of processes |
| `UpdatesAreKept` [`UpdatesKept`] | `Accounts_proofs` | at most one document, by the unique index; an update that is about to re-read knows that its changes are stored unless a deletion came between |
| `ManagerStaysInCharge` [`ManagerInCharge`] | `Services_proofs` | `LoopsInv`: as long as nothing raced, a loop is alive exactly if it is remembered, a manager not started runs none, and whoever initializes or stops is the only one |
| `AdmissionsAreBounded` [`AdmissionsBounded`] | `Limits_proofs` | `AdmissionInv`: in Redis, what was admitted in a window of the clock is within its count, or within the limit once the count has passed it, and any stretch meets two windows (`ClockWindows`); in memory, what was admitted in a stretch and the room the processes that are alive have left for it are together the limit for every life (`Lives`) |
| `GatewayOvershootIsBounded` [`OvershootBounded`] | `Limits_proofs` | `OvershootInv`, for each window, that of a counter or one of the log: while the storage still has all it admitted (`Intact`, certainly as long as the window lasts, by `Stored`), what it admitted and the checks about to pass are within one more per caller but the first; after something of it has expired or was cleaned, what it admitted and all its checks still out are within 2n - 1 more (`Bounded`) |
| `ClientCallsAreKept` [`ClientCallsKept`] | `Services_proofs` | `ClientInv`: a call that nothing overlapped finds in the shared client and endpoint what it set, and its client is open; the two counters of the nested loops say how many requests were sent |
| `WalksAreComplete` [`WalkComplete`] | `Services_proofs` | `WalkInv`: of what a walk owes, the rows before the page it asks for have been seen, unless it was disturbed. An insertion moves rows only back, so that what was yet to come still is (`Owing`, for each step a walk can be at) |
| `FetchesAreAccountedFor` [`FetchedOnce`] | `Services_proofs` | `FetchInv`: the copies that fetching stored and the fetches about to store another are together no more than the fetchers, failed checks and edits that yield a copy: a check that answers "new" saw no copy, so that only the fetches out at that moment count |
| `NumberedAreKept` [`NumberedKept`], assuming one cleaner; `CollectionTyped` | `Services_proofs` | `OrderInv`: every stored document has one place in the order of updates. `KeptInv`: of the documents with a number that no edit gave or took since the clean-up looked, one is not on its list, since the one updated last when it looked is not outdated |
| `ResolutionsAreTracked` [`ResolutionsKeepTrack`] | `Services_proofs` | `NestInv`: the types of one thread's nested calls go down the layers, so that a thread never meets itself. `TrackInv`: per type, the entries of the shared stack are the calls past `Push`, although `remove` takes the first entry of the type, whoever appended it. `MadeInv`: instances constructed and threads about to construct one are no more than the threads |
| `BatchReportsTruly` [`BatchReportTrue`] | `Services_proofs` | `BatchInv`: waiting, asked and answered pages are the chunk, every page before it was asked for once, and what is stored is what the report will count when the outcomes of this chunk are added, and what is unconfirmed. The sum is a recursive function of the page: it exists, is typed and grows by each outcome, by induction on the pages |
| `PhasesRunAll` [`PhaseRunsAll`] | `Gateway_proofs` | `PipeInv`: unless something was unregistered, each middleware the phase began with has run or is at or after the iterator, as an arrival moves the others only back; unless something was registered, what ran is in order and belongs before everything that is still ahead. The lists are injective and in order, wherever `Placed` inserts |
| `FailuresAreRecorded`, `QueuesAreAttended` [`FailuresRecorded`, `QueueAttended`] | `Gateway_proofs` | `EventBusInv`: unless one was unsubscribed meanwhile, a handling has at most as many tasks as there are handlers in the list it looks failures up in, and that list still begins with those it asked (`Fits`); while the bus is running some coroutine is a loop, which ends only where it finds the bus stopped |
| `CachedAnswersAlwaysFit` [`CachedAnswersFit`] | `Gateway_proofs` | `KeptUnderItsKey`: a response is kept under the path and query it answers, although it was looked up before the transformation; requests counted but not ended are those under way (`Busy`) |
| `CachedAnswersAreFresh`, `AloneIsUndisturbed` [`FallbackIsFresh`, `UndisturbedAlone` of `ApiProcessor`] | `Buses_proofs` | `StampsAgree`: the stamp of an entry is the time its answer was first stored; `ClientHeld`: a processing nobody overlapped has the client for itself |
| `EveryMiddlewareCloses` [`MiddlewareClosed`] | `Buses_proofs` | `Owes`: what an execution has closed and what it has still to close is all it has opened, while the list of the middleware only grows, unless an `on_error` raised |
| `MigrationsTakeTheShortestWay` [`MigratesByTheShortestWay`] | `Buses_proofs` | `Looking`: while the search has found nothing, what is nearer than the path in hand leads to is visited, the paths in the queue are as long as it or longer by one and in that order, and what is visited leads to what is visited but for what is still to be looked at; each path is a shortest one to its end. So the first path to the target is shortest, and a search that is over without one has visited all there is; `LooksAllowed` shows that it is over in time. `MigrationsInv`: migrations are never taken back, so a call stays on its path |

Each of the properties alone fails to be inductive for the reason its row gives;
the theorems named `...Invariant` state the inductive invariants as results of
their own. The types of every part are proved with them.

The library's induction theorems cannot be instantiated, but minimal
counterexamples can be taken: a statement about all natural numbers, or all subsets
of a finite set, that fails for one fails for a least one (`LeastNumber`,
`LeastSubset`, both from the library's well-foundedness facts). This is how the sums
of `Limits_proofs` and `Services_proofs` (a fold over sets, a recursive
function) are shown to exist and to be additive, how the loop of
`_find_migration_path`, a recursive function of its turns, is shown to keep its
invariant (`AppliedForAll`, `SearchEnds`), and how the first occurrence in a
list and the place of an insertion are found. `SelectSeq` has no definition the
provers can use; the models that are proved about say which element is removed
instead (`Without`, `Cleared`).

Only model-checked in this section: `CollectionEnds` and `ListCatchesUp`, which are
liveness. The invariants `TypeOK` of the two harness modules are the types of the
parts; these are proved for each part, as a conjunct of one of the theorems above
or, for `Accounts` and `OAuthState`, of the inductive invariant.

### Behaviours worth knowing

The models contain these; they differ from what the code says of itself, or may
surprise, and no run is spent on them:

- a state of a Google log-in whose `setex` timed out after Redis had applied it is kept
  twice and may open one more log-in, and overlapping callbacks with one state may all
  be answered, against "Use once only" (`security.py:204`);
- a local account that was linked to Google is looked up by its e-mail only: after
  Google reports another one, the next log-in creates a second account with the same
  identity (`users/service.py:148`, `157-173`);
- a revoked token may pass again for up to two seconds before it expires, since its entry
  lives for the truncated remainder (`security.py:148`);
- the report of a batch leaves out what was inserted although the insertion, or the
  look-up after it, failed (`base_repository.py:185-196`);
- a failed query of the list of announcements is an empty page with status 200, cached for
  sixty seconds (`announcements/service.py:468`, `router.py:317-330`);
- a PUT of an announcement with part of `announcement_data` replaces the whole of it
  (`announcements/repository.py:40-48`): a number or a business id it does not send
  is lost, and the clean-up takes the document for a duplicate of any other without;
- over Redis a check may be so slow that the counter of its period has expired when it
  reads it, or the log was cleaned, and is then let through once more
  (`rate_limiting.py:442-445`);
- deleting an account leaves its settings, against "all associated data"
  (`users/router.py:601`);
- two overlapping clean-ups, with an edit between their queries, each remove what
  the other keeps; announcements without a number are one group, of which all
  but one are removed (`announcements/tasks.py:383-394`);
- `initialize` of the data source manager that overlaps another leaks loops; a
  validation makes a source active without monitoring (`manager.py`), a source in
  ERROR stays monitored after `deactivate_data_source` returned True, a reload
  asleep during a shutdown activates its source afterwards;
- two loops of the event bus run after a quick restart; a failure is put down to the
  handler at its index in the list of all, another one when a handler did not accept
  the event or was unsubscribed; and an event whose middleware raises is dropped;
- `_current_endpoint` is shared: overlapping calls parse each other's responses;
- when the first request of a batch fails, `total_pages` is unbound and the task
  ends without a report;
- the first requests for preferences race to an uncaught `DuplicateKeyError`: the
  loser answers 500 and its change is not stored;
- threads that resolve services at the same time may be refused with "Circular
  dependency detected" although there is none; `Optional` parameters shared by
  services make it more likely, as they are never registered. A singleton may
  be constructed once per thread;
- a request to the gateway that names its method always fails: the model holds the
  method's string (`use_enum_values`), and the gateway asks for its `.value`;
  its limiter refuses nothing (`gateway.py:446`);
- a transformer that renames a parameter is not idempotent, so that a request sent
  in the transformed form is answered from the cache with the answer to the
  original (`gateway.py`, look-up before and storing after the transformation);
- a middleware of the buses may get `after_execute` and then `on_error`; an answer
  from the query cache passes no middleware; a query that failed afterwards may
  have left its result in the cache;
- a request keeps the unsupported version it was sent with when it is taken for
  another, until the first migration, and for good if there is none
  (`versioning.py:420-429`);
- a cached API processor calls the API on every fetch and uses the cache only after a
  failure, against "reduce API calls"; an HTTP client that another thread replaces
  while it is open is never closed.

## 6. Not modelled

Read and left out, with the reasons in `PROJECT.json`:

- code that cannot run in this commit: `core/cache.py` defines no `cache_manager`,
  which `core/rate_limiter.py`, `core/lifecycle.py`, `core/health.py`,
  `core/validation.py` and `alerts/tasks.py` import; the batch services are not
  registered in `di_config.py`, so that their routes answer 500 (their modules
  are modelled); the Celery tasks of announcements and businesses await
  synchronous functions; `link-google` passes an argument its callee does not take
  (`users/router.py:554`); the version middleware skips every path, since its list
  holds "/" and is compared with `startswith` (`version_middleware.py:58`);
- single reads and writes without an order: keys, statistics, usage, the routes of
  data sources, categories (no mounted router), views and likes of contents. The
  default fetch of contents transforms and never stores
  (`contents/service.py:208-298`); `keys` compares an `_id` with a string
  (`keys/router.py:71`);
- the token bucket (`rate_limiting.py:241-290`): it starts without tokens and loses
  fractions at every check; the gateway takes the result of its limiter for a truth
  value (`gateway.py:446`), so that it refuses nothing;
- stateless code: transformers, the versions of routes (`shared/version*.py`),
  validation, pagination, codes of
  classification (whose search cuts each list to a page before it skips to the
  page asked for, `classification/services.py:345`), schemas, responses;
- configuration and reporting: Celery, scheduler, metrics, logging, scripts;
- businesses' fetch and service, the same design as announcements';
- the event stores and the handlers across domains: `MongoEventStore` raises when
  it is given a database (`if database:` of a pymongo object), and nothing
  publishes through the others.

Within modelled components: passwords and token contents, back-off delays, circuit
breaker and adaptive retries, cancellation of a coroutine (which the buses of
`bus.py` would not tell their middleware, lines 85 and 206, and nothing in the source
does to a loop of the event bus), health metrics and alert rules, searches and
statistics of announcements, caches of routes other than the list, transient and
scoped lifetimes of the container.
