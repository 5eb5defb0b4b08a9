# Relay Desk in TLA+

Relay Desk (`src/`) is one Go process in front of a SQLite database. It offers an OpenAI-compatible
gateway whose requests leave through a pool of proxies (the *builtin* engine) or through an external
Resin gateway, and a console that configures it. This directory holds TLA+ models of the parts of it
where goroutines meet: state in memory, rows in the database, and the order in which the two change.

A step of a model is one SQL statement (or one transaction), one atomic access to shared memory, or
what happens under a mutex when nothing in it blocks. SQLite runs the statements of its four
connections one after the other; everything between two steps may interleave.

## The system

| Component | State | Operations | Meets |
| --- | --- | --- | --- |
| Proxy pool (`proxy_runtime.go`, `main.go` 3100-3900) | table `proxies`, the snapshot behind an atomic pointer, `loadMu` | load, invalidate, patch health, console CRUD, janitor | chat attempts, probes, console |
| Runtime caches (`runtime_cache.go`) | a copy, a flag and an RWMutex for each of upstream, engine, client keys, models, routing limit | load, invalidate | every request, every console write |
| Session routing, builtin (`main.go` 3258-3314) | table `session_proxy_routes`, 64 mutexes | pick, drop, janitor | chat attempts, pool, request limit |
| Session routing, Resin (`resin.go` 540-606) | table `resin_session_routes`, the same mutexes | next account, advance, janitor | chat attempts |
| Resin scores and health (`resin.go` 414-507, 608-753) | score map; settings `resin_*` | observe, decay, probe, fail, recover | chat attempts, engine settings |
| Gateway chat (`main.go` 1989-2511) | semaphore; the locals of a request | admission, attempts, helper calls, answer, record | nearly all of the above |
| Client keys (`client_keys.go`) | table `client_keys`, setting `client_key` | authenticate, CRUD, rotate, Legacy migration | key cache, requests |
| Key limiter (`client_keys.go` 31-125) | sliding windows per key, 64 shards | allow, record tokens | requests |
| Proxy client cache (`proxy_runtime.go` 115-180) | map of HTTP clients | get or build, evict | forwards, probes |
| Probe jobs (`proxy_runtime.go` 215-533) | tables `proxy_probe_jobs`, `proxy_probe_results` | create, append result, expire, interrupt at restart | pool verdicts |
| Alerts (`alerts.go`) | outbox table `alert_events` | emit with deduplication, deliver, retry | requests, janitor |
| Model catalog (`main.go` 1553-1899, `model_policies.go`) | tables `models`, `model_policies`, `model_aliases` | refresh, classify, policy, alias, resolve | model cache, requests |
| Encryption key migration (`main.go` 4273-4375) | every encrypted value | one transaction at start | all settings |
| Admin sessions (`main.go` 779-1139) | session rows, login throttle | login, logout, change password | console |
| Usage, statistics, status | table `usage_requests` | insert, retention, aggregate | requests |
| Agent shaping (`agent_shape.go`), console (`web/`), Bun bridge | none shared | | |

What is hard in it: caches that are filled while the database changes; verdicts on an exit that reach
the table and the snapshot in different orders; read-then-write pairs of statements in no
transaction; a janitor that takes no lock; some thirty ways out of one handler that holds a slot;
clients that leave at any time; a process that stops between an effect and its mark.
`PROJECT.json` lists each of these at its line, with the property that covers it.

What makes each component correct: the pool routes by what the table says and withholds nothing
usable; a cache never answers older than what was acknowledged, but for settings whose failed read
the code passes over; a session keeps to its exit and to its quota; a chat request is answered once,
handed over for recording once by one engine, and gives its slot back; the limiter admits no more
than the limit in any window and refuses only at it; a probe job ends and counts each proxy once; an
alert is delivered at least once or given up after four attempts; a key works from its answer until
it is removed; a request does not go back to the Resin account it has left; a model that is switched off
serves nobody; a migration leaves no value behind.

## Modules

| Module | What it is |
| --- | --- |
| `ProxyPool`, `MCProxyPool` | the table, the snapshot and everybody who touches them |
| `ProxyPoolProofs` | its safety, proved |
| `ConfigRegister` | what a configuration cache promises its readers |
| `RuntimeCache`, `MCRuntimeCache` | the caches as the code has them, shown to implement `ConfigRegister` |
| `RuntimeCacheProofs` | its coherence and the refinement, and the safety of `ModelCatalog`, proved |
| `SessionRouting`, `MCSessionRouting` | session affinity of the builtin engine |
| `SessionRoutingProofs` | its safety, proved |
| `GatewayPromise` | what a chat request is promised |
| `GatewayChat`, `MCGatewayChat` | the handler, shown to implement `GatewayPromise` |
| `GatewayChatProofs` | its safety and the refinement, proved |
| `KeyLimiter`, `MCKeyLimiter` | the sliding windows of client keys |
| `ClientKeys`, `MCClientKeys` | the rows of client keys, the console's handlers, the Legacy key |
| `ClientKeysProofs` | that keys take effect and patches lose only races, and the promises of `KeyLimiter`, proved |
| `ResinRouting`, `MCResinRouting` | accounts and their generations, the request limit and its cache, the scores |
| `ResinRoutingProofs` | its quota and that no account comes twice, proved |
| `ProbeJobs`, `MCProbeJobs` | probe jobs, their goroutines, reports, expiry and restart |
| `ProbeJobsProofs` | its safety, proved |
| `AlertOutbox`, `MCAlertOutbox` | the queue of alerts and its delivery |
| `AlertOutboxProofs` | that the table tells what was sent and bursts are bounded, proved |
| `ModelCatalog`, `MCModelCatalog` | refresh, policies, aliases and the resolution of a model's name |

**ProxyPool.** `db` is table `proxies` (the columns that decide on routing), `snap` the snapshot,
`loadMu` its mutex, `pc` where each goroutine is. A request goes through `LoadNil`, `LockHit` or
`LockMiss`, `LoadPurge`, `LoadSelect`, `LoadStore`; a console handler or the janitor changes rows and
then does `Invalidate`; a prober does `FailRead`, `FailWrite` or `Success` and then the
compare-and-swap loop `PatchLoad`, `PatchSwap`, `PatchRetry`. A failure is a read and a write, as in
the code. Two races are real and stay: a row written between a loader's SELECT and its Store, and two
verdicts on one proxy that reach the snapshot in the wrong order. The history variables `missed` and
`late` see them happen and `racy` remembers the rows concerned until they are published afresh; the
properties hold for all other rows. `RoutedIsCurrent`: a listed row is the table's row once those who
changed it have published. `UsableIsRouted`: a usable row is offered, except while it was cooling at
the last load (`skipped`).

**RuntimeCache.** The same code five times (`runtime_cache.go`, `loadUpstream`, `loadProxyEngine`), so
one module with `NParts`, the number of statements of a load. A value is represented by the number of
writes before it. A statement of a load fails in one of two ways. `LoadError` ends the load and publishes
nothing. `SkipPart` goes on with the default (version 0), and the copy is published as loaded: so
`loadUpstreamFromDB` treats the custom headers (`main.go:1397`), whether their SELECT fails or finds
what does not parse. Which parts may be skipped is the constant `Optional`; `defaulted` remembers which
of a copy's parts were. `Abandon` is the path of `refreshModels` that answers 500 after its commit and
drops no copy; `lost` remembers what it wrote. `CoherentAtRest`: at rest a copy agrees with the database
in every part, except what is in `lost`, and parts in `defaulted`, which are at their default and
nothing else. `ConfigRegister` is a register whose answers never lag behind an acknowledged write or an
earlier answer; it may lose sight of an optional part and answers its default from then on, until a
write is acknowledged. The mapping renames `db` and takes `loaded` for "an answer was given since the
last acknowledged write".

**SessionRouting.** One action per statement of `pickSessionProxy` (`Lock`, `Select`, then `Keep` or
`Assign`), `Clear` for `clearSessionProxy`, `Janitor`, `PutRouting`, `DeleteProxy`. The hash that
assigns a key to one of 64 locks is the constant `LockOf`. Round robin and the upstream's answers are
choices.

**GatewayChat.** A request is a record whose `pc` is its place in `gatewayChat`; every `return`,
`break` and `continue` of the loop is an action or a disjunct. Statuses are grouped by what the loop
tells apart. A request holds its slot from `Admit` to `Release`. Exits are counted, not named. A usage
record is handed over for storing where the handler calls `recordGatewayUsage`; its INSERT may fail,
which is only logged (`client_keys.go:535`), so a request counts its `records` and those it has `missed`.
`GatewayPromise` promises one or the other, once, and no second try; that every answered request has a
row in `usage_requests` the code does not promise, and neither do we.

**KeyLimiter.** A window has the fields of `keyWindow`. `Ask` and `Book` read the clock, `Admit`,
`Refuse` and `RecordTokens` are what happens under the lock. Since the clock is read before the lock
is taken, stamps enter out of order; `Skew` bounds by how much, and the properties say what is left
of "at most n a minute": no window shorter than a minute by `Skew` has more than the limit, and a
refusal has as many in a window longer by `Skew`. A sum counts units, pairs of a place and a number up to
what is there, so that it can be reasoned about with the theorems on cardinalities. Keys without limits are
admitted before any window is looked at and are left out; their token lists are never pruned (see the
hazards).

**ClientKeys.** `rows` is table `client_keys`, `setting` the hash of the one key of older versions, `copy`
the hashes that are cached. Each handler of the console is the sequence of its statements, and `task`
says which comes next: `PatchRead`, `PatchWrite`; `DeleteCount`, `DeleteRow`; `RotateLoad`,
`RotateWrite`, `DropAndGoOn`, `WriteSetting`; every one ends in `Drop`, which drops the cached rows and
answers. A client's request is `Lookup`, then `Compare`, `Restore` and `Insert` if its key is in no row
but is the setting's. `known`, `retired`, `gone`, `void` and `former` remember what has become of each
key. A rotation that finds its row gone still answers with a new key, which is nobody's (`void`). A key
the setting has held is left out of `KeysTakeEffect`: as long as the setting holds it, it comes back.

**ResinRouting.** One session and requests with or without it. `SelectRow`, `CachedLimit` (or `LoadLimit`,
`LoadFails`) and `WriteRow` are `nextResinAccount` under the routing lock; `Pick` is
`resinScoreStore.pick`; `Fails`, `HelperRefused`, `HelperUnread` and `Finish` are what the loop of
`gatewayChat` does with an attempt, `AdvanceRow` and its variants the new generation. Of the scores there is
the set of accounts whose score is positive. An attempt that kept its generation (`kept`: a helper answer
that could not be read, an advance that failed) or whose row the janitor has deleted (`lost`) may meet an
account again; so may a request that picks an account which has outlived its row (`Outlived`: the scores
stay when a row goes, and a request that held it can still earn one); no other may. The limits in force while a request looks are remembered in `valid`; the
default is one of them after a failed read.

**ProbeJobs.** `jobs` and `results` are the two tables, `worker` the goroutine of each proxy of a job: it
waits for a slot, probes, and adds its result in the transaction of `appendResult` (`Append`), which may
fail (`AppendFails`, remembered in `lost`). A report is read in three statements, the janitor is two. A
`Restart` loses the goroutines and interrupts what is running, as `migrate` does.

**AlertOutbox.** `events` is table `alert_events`; `Notice`, `Count`, `Insert` are `emitAlert`; `Select`,
`Post` and `Mark` are `deliverDue` under its mutex `mu`, which a ticker and each new alert start. A row
keeps what is left of its delay and its age. A post ends in one of three ways (`Outcomes`): the receiver
accepts the event and the dispatcher hears so; it accepts, but the client's five seconds are over or the
answer is lost (`unheard`); it does not accept. The last two are both refusals to `deliverDue`, which posts
the event again. `MarkFails` and a crash lose the mark of a post (`unmarked`). So a receiver may accept an
event as often as it was unheard or unmarked, and once more; and an event marked as failed may have been
accepted. Attempts and delays are shorter than the code's four.

**ModelCatalog.** `models`, `disabled` and `aliases` are the three tables, `view` the cached view of them.
A refresh is `Fetch`, one `Classify` for each model (the extra free models may change in between),
`Commit` or `RollBack`, `Metadata`, `Drop`; where the metadata cannot be saved it ends before `Drop`
(`missed`). A request loads the view in two statements under its lock and resolves its name with what it
has loaded. `off` remembers which models were switched off, and that was answered, with nobody switching
them on since.

## Runs

All bounds are constants in the `.cfg` files.

| Run | Instance | Shows |
| --- | --- | --- |
| `pool` | see `MCProxyPool.cfg` | types, one loader, both directions of table against snapshot, who may publish, every request is answered |
| `pool_probe_restores` | the same | a violation: see *Findings* |
| `cache` | 2 parts, one of them optional, 2 readers, 2 writers (one a refresh), 1 write per part | coherence at rest, the register, every read is answered |
| `session` | 1 session, 2 exits, 2 requests of 2 attempts, limits 0 and 2 | quota, count, an exit left at each attempt, moves and drops for cause, locks released |
| `gateway` | 2 requests, 1 slot, up to 4 exits, 3 builtin and 4 Resin attempts | slots, retries, the record's attempts, leaving is no fault, the promise, every request ends |
| `keys` | 2 handlers and 1 client at a time, 3 console requests, 4 rows, 4 keys, 1 restart | keys count from their answer until they are removed; patches lose nothing but races |
| `keys_last` | the same | a violation: see *Findings* |
| `resin` | 2 requests of 3 attempts, a limit of 0, 1 or (default) 2, 1 change of it, 1 failing statement, 4 generations | types, the row counts its requests, the quota of a generation, no account twice |
| `jobs` | 1 job, 3 proxies, 2 slots, 1 reader, 1 restart, 1 failing transaction | counts, running jobs are attended, whole reports; jobs end and leave no results behind |
| `alerts` | 1 type, 3 events, 2 emitters, 2 deliverers, 2 attempts, batches of 1, 1 fault or lost answer | attempts and marks tell what was sent, bursts are bounded, every event settles |
| `models` | 2 names, 1 of them an alias's too, 2 handlers with 4 requests, 1 client | the view agrees with the tables, free models are kept, a model that is off stays off |
| `limiter` | 1 key, 2 calls, limits 2 and 3, window 3, skew 1, time 0 to 6 | totals, both limits, no refusal without cause |

Why these bounds are enough for the cases that matter: two of each actor give every race the code
has between two parties (a loader and a writer, two probers, two picks of one session, the janitor and
a pick); two parts of a configuration give a mixed load; the limit 2 lets a quota be used up and 0 is
"no limit"; four exits exceed three attempts and one is fewer than them; one slot makes the second
request find none. Ten Resin attempts are four here: the loop treats the first, the middle and the last
attempt differently and no other. The clock of the limiter runs over two windows. Stored lists are
compacted at once (`Threshold` 0 for 128), which is the code's case taken as often as possible. Three
console requests are a patch, a rotation and a deletion of one key in any interleaving of two, with a
Legacy key and another to begin with; four are a refresh, a switching off, and two refreshes in which
the model vanishes and comes back. Three proxies in two slots make a goroutine wait; batches of one row
make a second deliverer find rows left. Three attempts are one with a fresh account, one with a picked
account and one after both. Requests of the console are interchangeable where only safety is checked,
and are declared symmetric there. One crash, failing UPDATE or lost answer is enough for an alert to be
accepted twice; that several of them add up and no more is proved.

Fairness. Liveness is checked under weak fairness of the steps of one goroutine at a time, which is what
Go's scheduler gives, and strong fairness of taking a mutex that is free again and again (`sync.Mutex`
and `sync.RWMutex` hand over to waiters). A forward ends because the transport has a
`ResponseHeaderTimeout` and a body ends or its client leaves. Of the
goroutines that `main` starts and that loop over a ticker, `ProbeJobs` assumes that the janitor runs its
two statements again and again (`main.go:3212`), and `AlertOutbox` that the delivery ticker does
(`alerts.go:193`) and that time passes; neither loop has a way out. `EventsSettle` holds if alerts are
enabled from some time on, as a disabled dispatcher posts nothing. Nothing is assumed of the console,
clients or upstreams, nor of the janitor elsewhere: they may never act.

Deadlock is not checked where a run has none to find: bounded counters, or requests that are done, leave
the models with nothing to do; that nobody waits for ever is what the liveness properties say.

## Findings

- `pool_probe_restores`: the comment at `main.go:3158` calls a successful probe "the signal that clears
  their cooldown". It clears the row; but a proxy that was cooling when the snapshot was loaded is not in
  it, `replaceHealth` patches only what is there, and nothing invalidates. The proxy stays unrouted until
  some other change invalidates the snapshot.

- `keys_last`: `deleteClientKey` counts the keys in one statement and deletes in another; two deletions at
  once, of the last two keys, both pass the check that answers "at least one client key must remain"
  (`client_keys.go:429`), and none remains.

Also met while modelling, with no text to hold them against: deleting the Legacy key while the setting
still holds it is undone by the next request that uses it; a rotation of a key that is deleted
meanwhile hands out a key of no row; with two rows named Legacy the fallback's UPDATE may fail, and its
missing result is asked for the rows it has changed; two changes of the extra free models may leave
the set in memory and the setting different until the next start; `cachedRoutingLimit` keeps the default 50
after a failed SELECT; `loadUpstreamFromDB` keeps the default headers after one, and a put that names no
headers writes them, or those before a concurrent put, back over the stored ones (`main.go:1319`);
the limiter books tokens for keys without limits, which nothing prunes, and its sweep deletes no window, as a window always has a live entry; the last Resin attempt is scored twice; a
stream that fails while it is collapsed is answered 502 and recorded 200.

## Proofs

Each proof module states an inductive invariant `IInv`, proves `Init => IInv` and
`IInv /\ [Next]_vars => IInv'` with a lemma for each action or kind of action, and draws the theorems from
it. All of them hold for any sets of goroutines and any bounds. TLC checked every `IInv` on its run's
instance before it was proved. Two proof modules hold the proofs of two components each; the second of
them has names of its own (`CatalogSpec` and `catalog`, `LimiterSpec` and `limiter`), so that one module
can extend both.

| Module | Proved | Of the run |
| --- | --- | --- |
| `ProxyPoolProofs` | `TypeOK`, `FillOnlyWhenEmpty`, `RoutedIsCurrent`, `UsableIsRouted`, `OnlyLoadersPublish` | `pool` |
| `RuntimeCacheProofs` | `TypeOK`, `CoherentAtRest`, `ImplementsRegister` | `cache` |
| | `CatalogHolds`, `DisabledStaysOff` | `models` |
| `SessionRoutingProofs` | `TypeOK`, `QuotaRespected`, `CountsEveryRequest`, `AlwaysAnExitLeft`, `RoutesChangeForCause` | `session` |
| `GatewayChatProofs` | `TypeOK`, `SlotsBalanced`, `KeepsTrying`, `RecordsTellAttempts`, `LeavingIsNoFault`, `KeepsPromise` | `gateway` |
| `ClientKeysProofs` | `KeysHold`, `PatchesLoseOnlyRaces` | `keys` |
| | `LimiterTypeOK`, `TotalIsSum`, `AtMostRpm`, `AdmitsBelowTpm`, `RefusesAtLimit` | `limiter` |
| `ResinRoutingProofs` | `RoutesHold`, `NoAccountTwice` | `resin` |
| `ProbeJobsProofs` | `JobsAgree`, `ReportsWhole` | `jobs` |
| `AlertOutboxProofs` | `SendsAreTold`, `BurstsBounded` | `alerts` |

**ProxyPool.** `RoutedIsCurrent` and `UsableIsRouted` are not inductive: they say nothing while there is no
snapshot, or while a writer or a prober has yet to publish. `IInv` adds

- `RowsOK`: what a loader has read is still what the table says, for rows not in `missed`;
- `VerdictOK`: a prober that is not `late` carries what its row holds;
- `SeenOK`, `UsedOK`: a compare-and-swap has seen a snapshot that lists its proxy; ids are handed out
  before they are used;
- `SnapOK`: a stored row agrees with the table but for its health while the latest verdict on it is on
  its way.

`PoolAssumption`: goroutines of different kinds are different, `NoRow` and the like are no rows.

**RuntimeCache.** `CoherentAtRest` is not inductive: it says nothing while a writer has still to drop the
copy or a reader loads. `IInv` adds

- `BoundsOK`: nothing is acknowledged, answered or remembered that the database does not hold;
- `NeedOK`: a reader under way remembers no more than what is acknowledged by now;
- `CopyOK`: each part of a copy in force is a default that a load went on with, or lies between what was
  acknowledged or answered and the database; and where it differs from the database then, a writer has
  still to drop it or a refresh has lost the part;
- `BufOK`: the same of the parts a loader has read so far, because no writer gets past the lock.

Every step of the cache is then a step of the register or leaves it alone (`RegisterStep`).
`CacheAssumption`: at least one part, the optional ones are among them, readers and writers are different.

**SessionRouting.** The quota says nothing of a request between its SELECT and its write. `HeldOK` says that
what it has read is what was served, and that the row is that or gone: the routing lock keeps every
other request out, and the janitor, which takes no lock, can only delete. `LimitOK` says that the limit it
works with has been in force since its session moved; `Budget` counts the exits it has not tried against
the attempts it has left, from which an exit is always found. `RoutingAssumption`: every key has a lock,
exits are finitely many, limits are numbers, `NoRoute` is no route and no session's name.

**GatewayChat.** No request looks at another's record, so `IInv` says of each place in the handler what the
record holds there: `PlaceOK` (attempts are given out with an engine and not exceeded), `BookOK` (answers
made, records stored or missed so far), `TallyOK` (attempts listed and counted, where a helper call may end one
early) and `FaultOK` (an attempt the client has left is noticed before its exit is blamed). The slots are
the records between `Admit` and `Release`. From it every step is one of `GatewayPromise` or a stutter.
`ChatAssumption`: requests are finitely many, there is a slot, an attempt for each engine.

**ClientKeys.** `KeysTakeEffect` says nothing of a handler between its UPDATE and its answer, and nothing of
rows that were read before. `IInv` adds

- `Tables`: hashes in the rows, removed, or held by the setting were made already, so a new key is in no
  row;
- `Removals`: a removed hash is in no row unless the setting has held it, and the cached rows do not have
  it once its removal is answered;
- `Handed`: a key that was handed out is in the rows, and in the cached ones if there are any, until it is
  removed; because nobody is told of a key before the cached rows without it are dropped;
- `Tasks`: what each handler is about to do. A patch that was not overtaken has read its row as it is. The
  hash a rotation has removed is not in rows cached since it dropped them, although its setting is
  still to be written.

That a patch ends by its own UPDATE only is `OnlyItsUpdate`. `KeysAssumption`: handlers and clients are
different, two keys fit, `NoRow` is no row and `NoCopy` no set of hashes.

**KeyLimiter.** `AtMostRpm` speaks of what was admitted, the code of the list of a window; `LimiterInv` ties
the two. Of each of a window's two lists `BookOK` says

- `InOrder`: no entry has a stamp later than one that follows it by more than `Skew`;
- `Agrees`: for every set of times, what the list holds of them behind its head is at most what was
  booked then, and exactly that if all of them are less than a window old.

Pruning passes expired entries only, which no such set holds; an entry that expires behind a live one
stays, which `Agrees` allows. A copy of the list shifts its places and no more. So an admission, after which
the list is within the limit, bounds the ledger of every window that has the new stamp in it; and a
refusal, which follows a pruning, has behind the head only entries that `InOrder` puts in the last window
and `Skew`. `InUse` says that a window which is kept has an entry behind a head: the pruned list of a
refusal is what refuses, and everything else appends. With it `LimiterSweepsNothing`, which no run checks,
says that the sweep of idle windows never deletes one: nothing prunes the window of a key that is idle, so
it is not empty. `LimiterAssumption`: keys are finitely many and have a limit, what calls may wait is less
than a window; `NoWindowAssumption`: `NoWindow` is no window.

**ModelCatalog.** `CatalogHolds` says nothing of a view that is half loaded, nor of the time between a change of
the tables and its drop. `CatalogInv` adds that such a view agrees with the tables in what it has read
unless somebody has still to drop it or its drop was missed, and that what is promised off is off in
the tables, in the view, in a half-loaded one and in what requests resolve with, and nobody is about to
switch it on. `CatalogAssumption`: aliases are names and `NoRow` is none, handlers and clients are different,
`Nobody` is no client.

**ResinRouting.** `HoldOK` and `CountOK` are the argument of the builtin engine again. `NoAccountTwice` needs to
know which generations a request has behind it: `SessionOK` says that those it has used are not beyond the
row's, and below it while it asks for the next; `Earned` says that nobody's score is for a generation
a request without a session has not reached. Looking for this invariant refuted an earlier form of the
property, which three requests violate and two do not: an account of a row the janitor has
deleted, scored afterwards by a request that held it, is picked by a request of the recreated row, and
comes up again when that row's generations reach it. The property now leaves such accounts out
(`Outlived`). `ResinAssumption`: limits are numbers and the default is none of "no limit", `Session` and
`Nobody` are no requests, `NoRow` is no row and `NoLimit` no number.

**ProbeJobs.** `JobsAgree` needs `WorkOK`: a goroutine that has not yet added its result has none in the table,
so that no result is counted twice, and one that has ended has, or its transaction was lost. A report
compares two reads; `ReportOK` says that results only grow between them, or the job is gone, and that no
other job takes its id. `JobsAssumption`: there are proxies, finitely many, and a slot; `NoJob` is no job.

**AlertOutbox.** `SendsAreTold` needs `DeliveryOK`: only the goroutine that has the mutex has rows, and they are
as it has read them, whatever is emitted, pruned or configured meanwhile; and `RowOK`, which tells the
posts of a row from its attempts, the outcomes that were lost and the one that is to be written down. It
speaks of the acceptances that were heard (`heard`), as the code knows no others; `HeardOK` adds the rest.
`BurstsBounded` counts events by who raised them, which the model does not remember; `Bursts` says that they
can be given to emitters (`by`) so that two of one emitter and type are more than a window apart, and that
an emitter about to insert has none of its own in the window. A step extends `by` by the event it inserts.
`OutboxAssumption`: attempts, batches and delays are positive, emitters and deliverers are finitely many.

Only model-checked, and why:

- Liveness (every property with `~>` or `<>`): fairness and ENABLED are beyond the prover.
- The two runs that expect a violation: they are not true.

## Plan

Done: the modules above and the proofs of all that their runs check, liveness apart. Left, in this order:

1. The Resin health probe (`resin.go` 608-753), which saves its verdict over newer settings.
2. The cache of proxy clients and the console's sessions.

## Not modelled

- The Resin health probe and its recheck, the cache of proxy clients, admin sessions: see the plan.
- The migration to a new encryption key (`main.go` 4273-4375): one transaction before anything else runs.
- Usage records beyond their number, statistics and status: SQL aggregation with no state of its own.
- Agent shaping and stream collapse: rewriting of bodies, data without control.
- The web console and the Bun bridge: no state of the server.
- In modelled parts: expiry, limits and the time of last use of a client key; names, prices and metadata of
  models; the texts of alerts and of errors; what a version of a setting contains, and so what a console
  handler copies into a new version from an older one; failing statements where the handler only answers
  500 and changes nothing.
