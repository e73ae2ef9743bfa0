# A TLA+ model of Stevedores Dashboard 3.0

Stevedores Dashboard is an offline-first web application for port operations: a
Flask application behind gunicorn, a database, and a page that goes on working
without a network and synchronises later. This directory models the parts in
which several actors touch the same state, checks them with TLC and proves the
most important results with TLAPS.

Paths are relative to the root of the repository.

## 1. Inventory

### The system

```
 browser tab ── CargoTallyWidget ──► ClientSyncManager ── localStorage['syncQueue'] ── other tabs
      │  GET data, POST cargo-tally    │ POST /sync/queue    (static/js/sync-manager.js)
      ▼                                │
 service worker ── runtime cache       │
      │                                ▼
 gunicorn worker ── SyncManager, BackgroundSyncScheduler, OfflineDataManager, Redis client
      │              (globals; routes/sync_routes.py, routes/offline_dashboard.py, utils/)
      │  one commit per record                          │ breaker, retries, fallback cache
      ▼                                                 ▼
  database: vessels, cargo_tallies ◄── POST cargo-tally, update-progress, wizard     Redis
```

gunicorn runs several `sync` workers (`gunicorn_production.conf.py:12-18`): a
worker serves one request at a time, keeps its globals to itself and is replaced
after `max_requests` requests. What a worker holds in memory is therefore neither
shared with the other workers nor durable.

| Component | State | Operations | What is hard | What makes it correct |
|---|---|---|---|---|
| Browser sync queue, `static/js/sync-manager.js` | `syncQueue`, `isOnline`, `syncInProgress`, status and `retryCount` of each record; a copy in localStorage | `addToSyncQueue`, `triggerSync`, `processSyncBatch`, `clearSyncedRecords`, `forceSync`, `resolveConflict`, timer and network events | handlers run while a batch awaits an answer; lost and late answers; pages killed; tabs sharing localStorage | nothing is lost; `synced` means received; retries are bounded; a record is sent in the end |
| Server sync queue, `utils/sync_manager.py`, `routes/sync_routes.py` | per worker: `sync_queue`, `sync_in_progress`, `last_sync`, `is_online` | `/queue`, `/process`, `/force-sync`, `/resolve-conflict`, `/network-status`, `/cleanup` | rows edited meanwhile; conflicts resolved against an old row; a failed flush poisons the session; workers recycled | a resolved conflict reaches the row; an outcome stands; every record reaches one |
| Tallies and progress, `app.py:237-285`, `models/vessel.py:115-123`, `models/cargo_tally.py`, `routes/offline_dashboard.py:220-325` | rows of `vessels` and `cargo_tallies` | POST cargo-tally, POST update-progress | two transactions per tally without a lock; only changed columns are written; a worker killed in between | progress follows the tallies |
| Redis client, `utils/redis_client.py` | breaker state and counters, `_client`, `_initialized`, metrics, fallback cache | `call`, `_on_success`, `_on_failure`, `force_open`, `force_close`, requests with retries, `check_rate_limit`, `reconnect`, `close`, `ping` | calls admitted in one state end in another; commands whose reply is lost; a connection taken away between two attempts | it opens on failures, closes only after successes, recovers; every request is counted once; the rate limit is overshot by no more than the threads at once |
| Rate limiter, `utils/rate_limiter.py` | per key: timestamps and a lock | `is_allowed`, `_cleanup_old_entries` | cleanup removes a lock another thread holds | no more than `limit` per window |
| Offline data manager, `utils/offline_data_manager.py`, `routes/offline_dashboard.py` | per process: cached vessels, offline vessels, tallies | cache, read, update, clear, refresh | a cache per process; stale rows answered as a success | what is answered is a past of the database |
| Secure sync, `utils/secure_sync.py` | encrypted transactions with a status | queue, process, resolve, expire | retries, conflicts, expiry in the middle | every transaction ends in one outcome |
| Tally widget, `static/js/cargo-tally-widgets.js` | `tallies`, `isLoading` | `addTally`, `loadTallies`, timer and buttons | a POST that fails after its commit; a refresh over optimistic rows; answers that overtake each other | no tally is lost silently, messages are true, the display is a past of the table and settles |
| Wizard, `static/js/wizard.js`, `routes/wizard.py` | form, session | save step, submit | offline submit | a vessel is created once |
| Service worker, PWA manager, `templates/service-worker.js`, `static/js/pwa-manager.js` | request cache | fetch, activate, reload on a new worker | stale answers as a success; puts that are not awaited; a reload under a request | as for the widget |
| Authentication, configuration, documents, logging, database set-up, compliance, phase 5-8 prototypes | - | - | library calls, start-up code, pure functions, simulated data | - |

The list with the reason for each part that is left out is `components` in
`PROJECT.json`; the hazards, each at its line, are `hazards`.

### How the components interact

- The page posts one record at a time to `/sync/queue` and takes the answer of
  that request, and no later one, for the outcome: `synced` in the page means
  "in a worker's queue", not "in the database".
- Nobody in the repository's client code calls `/sync/process`, `/sync/force-sync`,
  `resolveConflict`, `clearSyncedRecords`, `forceSync`, `syncVesselUpdate` or
  `update-progress`; they are public operations and are modelled as such.
- `/sync/queue` never answers with a conflict, so the page's conflict branch
  (`sync-manager.js:125-128, 212-287`) cannot be entered through it.
- Tallies normally go straight to the database; the widget puts them in the
  queue only when that fails, or when the browser is offline.
- Every same-origin GET of the page passes the service worker, which asks the
  network first and stands in with its copy; POSTs do not.
- The Redis client is used by a process on its own; nothing else modelled here
  reads what it keeps.

## 2. The modules and how they build on each other

| Module | Contents | State |
|---|---|---|
| `DurableOutbox` | what the browser's queue promises | model-checked as a property, proved |
| `ClientSync` | the browser's queue, implements `DurableOutbox` | model-checked, proved |
| `ServerSync` | the worker's queue, its routes and the database | model-checked, proved |
| `CargoTally` | tallies and progress in several workers | model-checked, proved |
| `Breaker` | what a circuit breaker promises its callers | model-checked as a property, proved |
| `CircuitBreaker` | `AdvancedCircuitBreaker` with its counters, implements `Breaker` | model-checked, proved |
| `FallbackCache` | `InMemoryFallbackCache` as operators | checked through `RedisClient`, its operators proved about |
| `RedisClient` | the client on top of `Breaker` and `FallbackCache` | model-checked, all invariants and action properties proved |
| `TallyWidget` | the widget with the service worker, the data routes and a process's cache | model-checked, safety proved |

Two abstract specifications carry the composition: `RedisClient` EXTENDS `Breaker`
instead of `CircuitBreaker`, so it sees a breaker without counters, and what it
shows holds for every breaker `CircuitBreaker` can be; `TallyWidget` and
`ClientSync` meet at the sync queue, which the widget only fills (`queued`) and
whose promise is `DurableOutbox`.

The theorems about a module `M` are in `MProofs`, which EXTENDS it (those about the
operators of `Breaker` are in `CircuitBreakerProofs`). Two proof modules use another:
`RedisClientProofs` EXTENDS `FallbackCacheProofs`, the lemmas about the cache's
operators, and `ClientSyncProofs` takes the theorem of `DurableOutboxProofs` by
INSTANCE, under the refinement mapping.

## 3. The modules

### DurableOutbox

Records are numbered in the order they are made. `Put` makes one and replaces
its namesake, `Receive` is the server's side, `Drop` may remove what was received.
There is no action for a page that is closed or killed: whatever implements the
outbox must survive that.

### ClientSync

One copy of `ClientSyncManager` per tab. JavaScript runs a handler without
interruption up to its next `await`, and the only `await` that matters is the
`fetch` of `syncRecordToServer`; so a step is a handler up to its next fetch.

| TLA+ | Code |
|---|---|
| `queue[t]`, `rec[t][o]` | `this.syncQueue` and the objects it refers to. `rec` keeps objects that have left the queue, because a running batch still holds them |
| `disk` | `localStorage['syncQueue']` |
| `cur[t]`, `todo[t]`, `sent[t]` | the local variables of the running `triggerSync`: the record whose fetch is awaited, `pendingRecords` not yet begun, the position in the batch of five. `syncInProgress` is `cur[t] # NoObj` |
| `wire`, `answered`, `received` | requests under way; tabs with an answer to take; what a worker has received |
| `addToSyncQueue`, `Trigger`, `GoOnline`, `GoOffline`, `clearSyncedRecords` | the methods and the event handlers; the call to `triggerSync` at their end is part of the step |
| `Succeed`, `Fail` | the code after the `await`, up to the next fetch: mark the record, save at the end of a batch, begin the next |
| `Reload`, `Crash` | a page left with `beforeunload`, or killed without it; then the constructor over what localStorage holds |

A queue is filtered and pushed to at its end only, so its order is the order in
which the objects were made and a set of object numbers stands for it.
`StorageMayFail` lets `setItem` throw (the code swallows the error).

Abstractions: the payload of a record is left out (nothing in this half looks
at it); two requests of the same tab for the same object that are under way at the same
time count as one, as receiving twice changes nothing here; the answer
`{success: true}` is the only answer with status 200 (`sync_routes.py:67-71`).
`clearSyncedRecords` saves even when it has removed nothing, and so replaces another
tab's copy; the model does too. `updateNetworkStatus` only sends a message to the server and is in `ServerSync`.

### ServerSync

One queue and scheduler per worker, one database. Each route is one step, but
a batch is one step per record: every record commits on its own and other
workers run in between. Reading a row and committing it are one step. For vessels
this is exact: a record only succeeds when its data equal the row, and then no
column changes. For tallies it leaves out an interleaving of single columns.

| TLA+ | Code |
|---|---|
| `sync_queue[w]` | `SyncManager.sync_queue`, a set of `SyncRecord`s numbered by their arrival (`at`): the list is filtered and appended to only, so its order is that of arrival |
| `batch[w]`, `forced[w]`, `poisoned[w]` | the loop of `process_sync_batch`: the ids of the records to come, whether `/force-sync` runs it, whether a failed flush awaits a rollback |
| `in_progress`, `rested`, `is_online` | `sync_in_progress`, the comparison of `last_sync` with `sync_interval`, `NetworkStatus.is_online` |
| `row[k]` | the row of a vessel or a tally, reduced to the operational and the other fields, which the merge treats differently |
| `tagged` | the record's keys are not those of `to_dict()`; the route adds `user_id` to whatever is posted |

What the code does in detail and the model follows:

- A create never succeeds: the classes take neither `user_id` nor the computed
  keys of `to_dict()`. A delete returns `None`, and indexing it raises.
- The hash compared with the server's row is that of the client's new data
  (`sync_routes.py:321-322`), so an update succeeds only when it changes nothing;
  every other update is a conflict, and a conflict resolved as `client_wins` is a
  conflict again.
- An update that gets as far as its commit, of a vessel or a tally, succeeds or fails when
  it is flushed (`Outcomes`). Which one depends on the data and the database: `to_dict()`
  has turned dates into strings, which SQLite refuses and PostgreSQL takes; a JSON
  column or a tally's count may be refused too. After a failed flush the session raises
  for the rest of the request (`poisoned`).
- `force_sync` evaluates `response[1]` on a response object when the batch went
  well, which raises, so `complete_sync(False)` is what always happens.

### CargoTally

Two transactions per tally: `AddTally` commits the tally, `SumTallies` reads the
total, `LoadVessel` reads the expired row again, `UpdateProgress` writes. SQLAlchemy
puts a column in the UPDATE only if its value differs from the one that was read
(`Written`); so two requests may each write one column of a row. `SetProgress` is
the online branch of `update-progress` (`_is_online()` is always true), up to its read;
it shares `UpdateProgress`. `BreakOff` is a database error or a killed worker.
Progress is counted in cargo instead of percent, so that the arithmetic stays
in the integers: `Full(v)` is 100 %.

The route takes `int(cargo_count)` as it comes, so counts may be negative and a total may
sink, below zero too; `update-progress` takes any number, and `update_progress` cuts both
off at 0 and 100 % (`NewProgress`). A progress that is not a number (NaN) is left out.

`alone` and `past` are history variables: the worker whose request no other has
overlapped, and the totals each vessel has had.
Statuses that only other routes set (arrived, berthed, departed) are represented by `expected`.

### Breaker and CircuitBreaker

`call` holds the breaker's lock while it decides whether to let a caller in, and
again while it notes the outcome; the function runs in between without it. So
a call is three steps, and its outcome meets whatever state others have led to.
`Breaker` has only the state and where each call is. `CircuitBreaker` adds the
counters, the history with its failure rate, the recovery timeout (`cooled`) and
the operator's `force_open` and `force_close`.

| TLA+ | Code |
|---|---|
| `Admit`, `Refuse` | `call` up to the function, with `_should_attempt_reset` and `_clean_request_history` |
| `Execute` | the function, without the lock |
| `OnSuccess`, `OnFailure` | the two methods, under the lock |
| `CoolDown`, `Toggle` | `recovery_timeout` goes by; Redis comes and goes |

A counter is only compared with thresholds, so it stops at the highest value the
code tells apart. `streak`, the successes since the last failure, is a history variable.

### FallbackCache and RedisClient

The cache is the `OrderedDict` as a set of entries numbered by their last use: the
number is the entry's place in the order, the lowest the one that is evicted. Each
method runs under the cache's lock and is an operator. An entry may expire at any moment
and stays until something removes it.

| TLA+ | Code |
|---|---|
| `Enter`, `Attempt`, `Execute`, `Note`, `Succeed`, `GiveUp` | `_execute_with_fallback` around `RetryStrategy.execute` around the breaker's `call`: each is a step, as other threads run in between |
| `Fallback`, `FallbackSecond`, `FallbackThird` | `_fallback_operation`; `incr` and `expire` are two and three accesses to the cache |
| `BeginCheck`, `ContinueCheck` | `check_rate_limit`: get, compare, incr, and expire for the first |
| `PingAlone`, `AskPing`, `RunPing`, `NotePing` | `ping`, called for itself or by `reconnect` (lines 983, 1000): one call through the breaker, without retries, metrics or cache |
| `Reconnect`, `Close`, `Reset`, `Initialize`, `Connect`, `Ping`, `Connected` | `reconnect`, with `close` and `_initialize_client` (its lock, its own first ping); `Reset` also closes the breaker of a forced one |
| `CloseAlone` | `close` called for itself, at any moment: a context that ends, `reset_redis_client` |

`Execute` may do the command and lose only the reply: the retry then does it again.
`allowed`, `fellBack` and `torn` are history variables; `torn` says that the client was
closed after its first ping was answered and before `_initialized = True`. Values are
numbers, as only the counter's matters. One window of the rate limit is modelled, that
of `RateKey`.

`Connect` may fail before there is a client. With the pinned redis-py 4.6.0 it always
does: line 548 calls `redis.Retry(retries=..., supported_errors=...)`, a name that version
does not export and arguments its class does not take, and lines 578-582 turn that into a
client without Redis. With a version that has it `Connect` goes on to its ping. Both are in the
model, and what is shown holds for either.

### TallyWidget

One vessel's page at a time. A step of the page is a handler up to its next
`await`. Tallies are numbered in the order they are entered, and the table holds
this page's tallies.

| TLA+ | Code |
|---|---|
| `shown`, `isLoading` | `this.tallies`, `this.isLoading` |
| `awaiting`, `post[t]`, `told[t]`, `queued` | the POSTs whose answer the page awaits, what has become of each, the message shown, what `syncCargoTally` was given |
| `load[s]`, `rows[s]` | the calls of `loadTallies` under way: the timer starts one only when none is, the refresh button always does |
| `runtimeCache`, `puts` | the service worker's copy of the answer, and the `cache.put`s it did not wait for |
| `cache[w]`, `known` | a process's `cargo_tallies_<id>`, and whether its cached vessel list has the vessel |
| `RecordTally` | the POST's handler; it may fail before its commit, or after it in the transaction of the progress, and then answers 500 |
| `AnswerLoad`, `LoseLoad` | the data route with its fallback; the network fails and the service worker stands in |
| `LeavePage` | the user leaves, or `controllerchange` reloads the page; what it awaited is abandoned |
| `DashboardData`, `RefreshCache`, `ClearVessels`, `ClearCache` | the routes that fill and empty a process's cache; the last also stands for a restarted process |

`loadFromCache` calls `getCachedCargoTallies`, which the page's data manager does not
have, so a load that fails shows nothing new. `base` and `abandoned` are history
variables. Sessions that expire are left out: the login page that a followed
redirect brings is then taken for a failed load.

## 4. What is checked

| Run | Configuration | Result |
|---|---|---|
| `client_one_tab` | 1 tab, 2 ids, 3 records, 4 failures, 2 page losses, 2 retries, batches of 2 | holds |
| `client_two_tabs` | 2 tabs, 2 records, batches of 1, 1 failure, 1 page loss, storage may fail; fairness | holds |
| `client_stuck` | 1 tab, no failure, 1 page loss; fairness | **violated** |
| `server_queue` | 1 worker, 1 vessel, 1 tally, 2 ids, 2 posted updates, 2 attempts, 1 resolution, 1 edit, 1 restart; fairness | holds |
| `server_create` | 1 worker, 1 post; fairness | **violated** |
| `server_force` | 1 worker, 1 post; fairness | **violated** |
| `server_merge` | 1 worker, 1 post, 1 resolution; fairness | **violated** |
| `tally_rows` | 2 workers, a vessel with a capacity of 2 and one without, counts of -2, 0 and 1, settings of -1 and 4, 1 setting by hand, 1 broken request | holds |
| `tally_race` | 2 workers, 1 vessel, nothing fails | **violated** |
| `redis_breaker` | 3 callers, thresholds 2, history of at most 3 calls; fairness | holds |
| `redis_client` | 2 threads, 2 keys, a cache of 1, limit 1, 2 attempts, 2 requests, 2 uses of reconnect, close or ping, 3 of all these together | holds |
| `tally_widget` | 1 process, 2 tallies, 2 loads, a history of 1, answers of 2 rows, 1 fault, 1 refresh or page change; fairness | holds |

### Properties that hold

- `SyncedWasReceived`: no tab and no saved queue shows a record as synced that the
  server has not received. It would break if an answer were credited to
  another record than the one awaited, for instance after the record was replaced.
- `OnePerId`: a replaced record never comes back beside its replacement, not even
  when two tabs overwrite each other's copy and one is reloaded.
- `RetryBudget`, `RunIsSound`: the counters, and the batch that goes on with objects
  picked before the queue changed.
- `ImplementsOutbox`: with one tab the browser's queue is a `DurableOutbox`. (With
  two tabs it is not: a tab overwrites localStorage with its own queue, and the
  records of the other are gone once that one is killed. The refinement is
  therefore stated for one tab.)
- `SyncsWhileOpen`: every record made is received or replaced, if no page dies and
  fewer than `maxRetries` requests fail. Both exceptions are necessary: see
  `client_stuck`, and a record that has failed `maxRetries` times is given up.
- `StillDue`: what `SyncsWhileOpen` needs at every moment: as long as no page dies, every
  record neither received nor replaced stands in some tab's queue, pending or being
  sent, unless so many requests have failed that it may have been given up.
- `OneRecordPerId`, `ServerRetryBudget`, `ConflictHasTwoSides`: the worker's queue, also
  after conflicts, resolutions, later batches and cleanups. The retry counter is
  deliberately not reset by a resolution; the property says that it stays below
  the limit all the same.
- `OutcomesStand`: a record is touched only in its own turn of a batch, while it is
  pending, and then gets an outcome or uses up an attempt; or in conflict, by its
  resolution, which gives no attempt back. So whatever is posted, processed and
  cleaned up in between, an outcome stands, and only a resolution starts a record again.
  It would break if a batch picked up records in conflict, as a filter on
  everything that is not synced would.
- `PendingIsSettled`: a pending record is tried until it has an outcome, also when
  an earlier record of its batch has poisoned the session.
- `WasCalledFor`: without settings by hand, the progress and the status shown were called
  for by some total the vessel has had, however stale the total a request writes and
  whatever corrections with negative counts come in between. (They need not be
  what the present total calls for, nor be below it: that is `tally_race`, and a request
  that breaks off between its commits.)
- `SoloPostRepairs`: a tally that no other request overlaps leaves the row exactly as
  the tallies call for, whatever earlier races, failures or settings left there.

- `ClosedBelowThresholds`, `ClosesOnStreak`: results that arrive late, in another
  state than the one that admitted the call, neither leave a breaker closed that has
  reached a threshold nor close it without enough successes since the last failure.
- `OverrideHolds`: calls under way when an operator forces the breaker open do not
  undo it.
- `ImplementsBreaker`: the counters only decide what `Breaker` leaves open.
- `BreakerRecovers`: if Redis stays up and nobody forces the breaker, it closes for
  good, although every late failure restarts the timeout.
- `MetricsBalance`: every request ends as one success or one fallback, also when a
  reconnection takes the connection away between two of its attempts.
- `EveryAllowedIsCounted`, `LimitOvershoot`: as long as Redis answers every check,
  nobody is let through without being counted, lost replies and retries included,
  and n threads exceed the limit by at most n - 1. (With the fallback neither
  holds: `incr` on the cache is a get and a set.)
- `CacheIsSound`: expiry, eviction and replacement leave no second entry of a key and
  keep the size.
- `CacheNeverOvercounts`: no count in the fallback cache exceeds the requests the cache was
  given, although `incr` is a get and a set and an old value may be put back after a
  newer one. It is an upper bound only: increments may be lost (`redis_client.py:703`), and
  nothing in the repository says they may not.
- `LiveEntriesStay`: an entry that has not expired leaves the cache only when it is deleted,
  or when the cache is full, a new key comes in and it is the one used least recently.
- `OneInitializer`: `_initializing` is set exactly while one thread connects, so no way
  out, a client that cannot be made included, leaves the others turned away.
- `InitializedHasClient`: whichever threads connect, close and fail meanwhile, a client
  that says it is initialized has a connection, unless the last close came while a thread
  stood between the answer to its first ping and `_initialized = True` (`torn`). In that
  case it has none: every request then goes to the cache and every ping
  answers no, until the next connection or close. The run contains that case; the property says
  it is the only one.
- `KeepsToBreaker`: with retries, reconnections and results that arrive after them, the client
  drives its breaker in `Breaker` steps only (pings and forced resets included), the precondition of everything
  `CircuitBreaker` shows.
- `ToldIsTrue`, `NoSilentLoss`: "Tally added successfully" is said only of a
  recorded tally; one whose answer is lost, late or an error is queued. Only a page
  left while it awaits the POST can take a tally with it: `addTally` queues in its
  catch block, which a page that is gone does not run.
- `ShowsAPast`: copies that stand in (the service worker's, a process's) and loads
  that overtake each other never make the widget show a mixture of two states of
  the table. It may show an old one, and it drops tallies entered before the answer
  that it does not hold; the next load brings them back.
- `LoadingIsUnderWay`: `isLoading`, which holds the timer back, is never set without a load
  that will clear it, however many loads overlap or fail.
- `DisplaySettles`: in the end it shows the newest rows. It would fail if any way
  out of a load left `isLoading` set, as the timer then loads nothing more.

### Disagreements with the documentation

1. `WillSyncWhenOnline` ("Vessel saved offline. Will sync when online.",
   `static/js/wizard.js:766`). A page left while a record is being sent saves it as
   `syncing` (`sync-manager.js:47-48, 117`); the next page loads it as `syncing`, and
   `triggerSync` sends `pending` records only (line 85).
2. `OfflineVesselIsCreated` (same message). The route adds `user_id`
   (`sync_routes.py:57`) and `Vessel(**vessel_data)` (line 306) refuses it.
3. `SyncIsCompleted` (`# Try immediate sync if online`, `sync_routes.py:62`; "Mark sync
   operation as complete", `sync_manager.py:327`). `/queue` starts a sync that nothing
   completes, and `/force-sync` is refused until the worker is recycled.
4. `ProgressFollowsTallies` ("Update vessel progress based on cargo tallies",
   `models/cargo_tally.py:114`; `# Update vessel progress`, `app.py:271`). Worker 1
   sums, worker 2 commits a tally, sums and writes, worker 1 writes the older total.
5. `MergeIsApplied` ("Client wins for operational fields", `sync_manager.py:211`;
   "Last-writer-wins with merge options", `README.md:314`; `# Update vessel`,
   `sync_routes.py:329`). The hash of the row is compared with that of the client's new
   data (`sync_routes.py:321-322`), so an update that changes anything is a conflict, and is one
   again after any resolution that leaves a change in it. No offline edit of a vessel ever reaches its
   row, resolved or not; the theorem `ServerQueueWritesNoVessel` is the general form.

### Bounds, and why they are enough

`MaxRecords` = 3 with two ids lets a record be replaced while it is sent and a second
one wait behind it. Two retries give one `pending` after a failure and one `error`; the
code's limit is 3. Four failures can exhaust two records. A batch of two ends between two of three records. Two page
losses let a page be lost, reloaded and lost again. Server: two posts over two ids
give both a replacement (same id) and a two-record batch; one resolution makes a
record go round through a conflict; one edit is what a conflict needs; two attempts are
one that comes back and one that gives up. A create fails in one way whatever the row, so
`server_queue` posts updates, and creates are in the other server runs
and in the theorems. Tallies: two requests in flight are what a race needs, totals run from
three below nothing to three, one more than the capacity of two, and a second vessel
has no capacity at all; the settings lie below 0 and above 100 %. Breaker: three callers let two
late results of opposite kinds meet a third call, and thresholds of two are reached
by them. Client: two threads are what a race on the counter, the cache and the
connection needs, and two uses of reconnect, close and ping let a close fall into a
reconnection, beside a request; two requests each fit a check and a request beside it; a cache of one entry
evicts at every second key. The threads of `redis_client` are interchangeable
(symmetry), which its invariants do not tell apart. Widget: two loads can overtake
each other; two tallies make rows old and new; one fault is a lost answer, a
database failure or a disconnection, and while the browser is offline every load is lost
without counting as a fault; a history of one cuts the display off below an answer of two. Every bound is a constant
named Max..., and the theorems hold for all their values.

### Fairness

- Browser: `SF(Trigger)`, because `setInterval` fires for as long as the page lives and
  the guard (online, nothing running, something pending) may come and go with the
  network; `WF(GoOnline)`, connectivity returns; `WF(Succeed)` and `WF(ServerAccept)`,
  a request that does not fail is received and its answer taken. `Fail` has no
  fairness and is bounded.
- Server: `WF(ProcessSyncBatch)` and `SF(ForceSync)`, somebody keeps asking; the code
  itself asks nobody, so this is an assumption about the callers. Without it nothing
  on the server would ever happen. `WF(ProcessRecord)`: a request runs to its end.
  `WF(Rest)`: time passes.

- Breaker: `WF(CoolDown)`, time passes; `WF(CallStep(c))`, callers keep calling and a
  call comes to its end. `Toggle` and the overrides have none.
- Widget: `SF(AutoRefresh)`, `setInterval` fires while the page is visible, and its
  guard comes and goes with the network and other loads; `WF(Reconnected)`; a
  request that was sent ends in an answer or a failure, and the page takes it.

The counterexamples 1 to 3 and 5 are found under this fairness; 5 is a safety property and
does not need it.

Deadlock is checked in every run but one: the models end only where a bound leaves an
action to repeat (timers, network changes, requests). In `redis_client` the threads
stop when their requests are used up, so the check is off there.

## 5. What is proved

All theorems hold for every value of the constants, under the assumptions named in
the modules (`MaxRetries`, `BatchSize`, thresholds, cache size and display limits positive, bounds natural
numbers, `Capacity` a function into the naturals, counts and settings any integers, finitely many threads).

| Module | Theorem | Argument |
|---|---|---|
| `DurableOutboxProofs` | `OutboxNothingLost`, `OutboxOnePerId` | both are inductive with the type invariant; the only step that removes an unreceived record is `Put`, and then it is no longer the newest |
| `ClientSyncProofs` (1) | `ClientTypeOK`, `ClientSyncedWasReceived`, `ClientOnePerId`, `ClientRetryBudget`, `ClientRunIsSound` | one inductive invariant `IInv`: the properties for each tab, and the same for the saved queue, which a new page takes over. One lemma per handler; the two helpers that every handler shares (`StartFetch`, `Proceed`) have lemmas of their own |
| `ClientSyncProofs` (2) | `ClientImplementsOutbox`, `ClientLosesNothing` | one tab `u`, storage does not fail. The additional invariant is that localStorage holds exactly the objects of the queue; hence a new page, left or killed, starts with the same queue. `addToSyncQueue` maps to `Put`, `ServerAccept` to `Receive`, `clearSyncedRecords` to `Drop` (it needs `SyncedWasReceived`), every other step to a stutter. What the outbox promises then holds of the queue: the theorem of `DurableOutboxProofs` is instantiated with the mapping and cited |
| `ClientSyncProofs` (3) | `ClientStillDue` | `DueInv` adds that no record has failed more often than requests have, so one given up means `MaxRetries` failures |
| `CargoTallyProofs` | `TallyTypeOK`, `TallyWasCalledFor`, `TallySoloPostRepairs`, `OneWorkerFollowsTallies` | `Inv` adds `TargetOK`, what a request is going to set is called for by one of the totals in `past`, which only grows, and `SoloOK`, what a request that nothing overlaps has read is still true. With one worker every request is such a one, so `ProgressFollowsTallies`, which `tally_race` refutes for two, holds: the overlap is its only cause |
| `ServerSyncProofs` | `ServerTypeOK`, `ServerOneRecordPerId`, `ServerKeepsRetryBudget`, `ServerConflictHasTwoSides`, `ServerQueueWritesNoVessel`, `ServerOutcomesStand` | one inductive invariant: every queue holds one record per id, each of them sound (retries, status and conflict data fit), and those a batch has left are pending. One lemma per operator on a queue, one per route. `QueueWritesNoVessel`, which says that the queue neither overwrites an edit nor brings one in, needs only that a successful record's data equal the row. For `OutcomesStand`, `QueueSteps` says what a step may do to a queue (lose records, add one at the end, try one, reopen one), and `PlaceInv` that a record's place is its own |
| `CircuitBreakerProofs` | `TypeCorrect`, `NotClosedAboveThreshold`, `StreakBeforeClosing`, `OverrideIsKept`, `CircuitBreakerImplementsBreaker` | `Inv` adds `consecutive_successes <= streak`: every failure resets both, whatever state it arrives in. The refinement needs only that `Inv` types the state |
| `RedisClientProofs` (1) | `MetricsAddUp`, `AllowedIsCounted`, `OvershootIsBounded`, `TypesHold` | the invariant counts threads: `Raised`, checks that have incremented the counter but not ended, and `Passed`, checks that have read a count below the limit. allowed + Raised never exceeds the counter, and allowed + Passed never exceeds the limit by more than the other threads |
| `RedisClientProofs` (2), `FallbackCacheProofs` | `CacheStaysSound`, `CacheUndercounts`, `LiveEntriesLeaveInOrder` | `CacheInv`: every count in the cache, and every count a thread has read there, leaves `Room` for the increments under way. The lemmas about the cache's methods rest on there being an oldest and a newest entry of a finite set, by the least-number principle |
| `RedisClientProofs` (3) | `InitializesAlone`, `OnlyATornCloseMisleads`, `UsesBreakerAsMeant` | `ConnectInv`: one thread at most is between setting `_initializing` and resetting it, the client is not initialized meanwhile, and one whose first ping was answered still has its client unless `torn`; it holds for any number of threads, reconnections and closes. The last theorem is a step-by-step refinement: every step of the client is one of `Breaker` or a stutter |
| `TallyWidgetProofs` | `WidgetTypeCorrect`, `MessagesAreTrue`, `NoTallyIsLost`, `DisplayIsAPast`, `WidgetNeverStuckLoading` | `TallyInv`: a POST answered with success has its row, and a tally not yet entered has nothing. `PastInv`: every copy (a process's, the service worker's, one still to be stored, an answer under way) is the newest of some first n rows; rows are only appended, so it stays one. `LoadInv` types the loads, as `isLoading` outlives whichever of them ends first only if it is reset there |

Every invariant and every action property of the passing runs is proved. Only
model-checked: all liveness (`SyncsWhileOpen`, `PendingIsSettled`, `BreakerRecovers`,
`DisplaySettles`), as fairness and ENABLED are out of the proof system's reach here. Of three of
them a part that is safety is proved: `StillDue` says that a record to be sent is
never forgotten, `OutcomesStand` that a server's record only moves on, towards an outcome,
and `LoadingIsUnderWay` that the timer never waits for nothing. What is missing is that the
fair steps come. The five disagreements are counterexamples and need no proof.

`ClientLosesNothing` and `ClientImplementsOutbox` assume one tab and a storage that does
not fail, and `OneWorkerFollowsTallies` one worker: without these hypotheses they are
false (`tally_race` shows it for the last).

## 6. What is not modelled

- Authentication, HTML and wording, document parsing, monitoring, compliance modules
  and the phase 5-8 prototypes, for the reasons given in `PROJECT.json`: library
  calls, pure functions of one text, or code the application does not run. The
  alert system cannot even be constructed: its default rules pass
  `acknowledgment_required` to `AlertRule`, which has no such field.
- The rate limiter (`utils/rate_limiter.py`) and the production Redis client: no
  request of the application passes them; the sliding window is exercised by tests only.
- `SecureSyncManager`: its conflict check returns `None` and its operations
  always succeed, so the branches worth checking cannot be reached.
- Offline vessels: nothing calls `add_offline_vessel`, and the page of an `offline_` id
  is answered with 'not found'. The branches behind `_is_online()`, which returns `True`.
- The composition of the browser's queue with the workers' queues. What it would
  add is known from the parts: `synced` in the page means "in the memory of one
  worker", `Restart` loses that, and no document promises more.
- The wizard's form; what it queues is an input of `ClientSync` and `ServerSync`.
- In the Redis client: hash operations, `ttl`, `nx` and `xx`; `get_info`,
  whose one call through the breaker is like that of `ping`; `health_check`, which asks
  Redis past the breaker; and `cleanup_fallback_cache`, which nothing calls.
- The hash and merge functions are modelled by the equalities they decide, not by
  their bytes; ages of cached data only label an answer and are left out.

The modules cover the parts of the code that keep state several actors share. Most
of the repository's lines are elsewhere (prototypes, validators, reports, templates), so
the share of lines that are modelled is small.

## 7. Running it

```
tlc -workers 2 -config MCClientSync.cfg ClientSync        # likewise the other .cfg files
tlapm ClientSyncProofs.tla                                # and the other *Proofs modules
```

The comment on the first line of a `.cfg` says what it is for. `MCServerSync` and
`MCCargoTally` give constants their values that a `.cfg` cannot write, `MCRedisClient` the symmetry. Operators
named after another with a suffix (`Failed_OneMore`) are mutants: the definition as
a plausible bug would have it, one for every property of the passing runs; with
it in the place of the original TLC finds the property violated.
