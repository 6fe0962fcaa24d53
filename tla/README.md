# Fleetsweeper: formal models

Fleetsweeper scans a fleet of Kubernetes clusters, keeps every scan in a SQL
store, derives a report (score, findings, outliers, cohorts) from it, and acts
on what it finds: it notifies Slack and webhooks, admits or denies pods by the
norms of the fleet, and drives scans from `ClusterScan` resources.

This directory models the server, in which concurrency, failure and time make
correctness hard to test, and the pipeline from an API read to a finding, in
which partial data must never look like good news. TLC checks every module on
small instances; TLAPS proves, for every size, the safety properties of the
server's parts (scan pipeline, controller, notifiers, admission webhook, access
control, report handlers, event stream, paged list, migrations, rate limiter),
and of the report pipeline that a scan with failed reads raises nothing a
complete one would not, and that the collapse of findings hides no severity.

## Inventory

| Component | State it keeps | Operations | Interacts with |
| --- | --- | --- | --- |
| ClusterScan controller (`internal/controller`) | informer cache, work queue, `inflight`, `next`; the status in the API server | reconcile, forget, requeue, patch status | API server (watch, patches), scan pipeline (`ScanOnce`), leadership term |
| Scan pipeline (`server/scan_once.go`, `handlers.go`, `inbound_webhook.go`) | `scanMu`, `scanBusy`, `dispatchSem`, `bg` | trigger, scheduled scan, controller scan, save, emit, dispatch | store, notifiers, event bus |
| Scheduler, process lifetime (`server/server.go`, `cmd/cmd_serve.go`, `internal/leader`) | `schedulerSlot`, contexts, the lease | start and end of a term, signal, Shutdown | pipeline, controller |
| Notifiers (`server/slack.go`, `internal/webhooks`) | `slackNotifiedKeys`, `notified` | filter, dedup, post, send, withdraw | acks in the store, Slack, subscribers |
| Acknowledgements (`store/acks.go`) | `finding_acks` | ack, snooze, un-ack, expiry | notifiers, report |
| Admission webhook (`internal/admission`) | `cached`, `cachedAt`, singleflight | current baseline, recompute, decide | store (scans), API server |
| Store (`internal/store`) | scans, results, clusters, groups, tags, alerts, keys, audit, schema version | saves, lists, prunes, migrations | everything |
| Access control (`server/auth.go`, `oidc.go`, admin keys) | API keys, `keysSeen`, `keyCheckedAt` | authenticate, authorise, create, revoke | every handler |
| Event bus (`server/events.go`) | subscribers and their buffers | publish, subscribe, unsubscribe | pipeline, streams |
| Report cache and read endpoints (`server/report_cache.go`, handlers) | cached reports, their order | get, put, list scans, rebuild | store, report builder |
| Rate limiter (`server/ratelimit.go`) | two buckets per client | allow, sweep | every request |
| Report builder, cohorts (`internal/report`, `cohort`) | none | norms, rules, collapse, score, trends, forecast | handlers, CLI |
| Scanners, kube client (`internal/scanner`, `kube`) | none | paged reads, coverage, measures | pipeline, report builder |
| Comparison, seal, what-if, explanation, CLI | none | pure functions, printing | handlers |

Hard behaviours and the properties that answer them:

* *stale copies*: the controller decides from an informer cache that may predate
  its own last write, and patches minutes later what it decided then
  (`ScheduleHonoured`, `StatusNeverRegresses`, `NeverMarksStoppedResource`);
* *lost calls*: a patch, a Slack post, a webhook send or an ack lookup fails,
  before or after the other side acted (`RunningResolved`, `ConditionsCoherent`,
  `WebhookRemembersDelivered`, `WebhookDelivered`);
* *several drivers of one pipeline*, each with a context of its own that can end
  at any moment (`OneScanAtATime`, `SavesInTimestampOrder`, `TriggerSlotExact`);
* *leadership and shutdown*: a term ends inside a scan and begins again, the
  process is told to stop while scans and deliveries run (`OneScheduler`,
  `BackgroundCounted`, `TriggersDrained`, `ShutdownReturns`,
  `NewTermIsScheduled`);
* *shared memory of what was notified*, read and written by concurrent
  deliveries (`SlackOncePerWindow`, `WebhookOncePerWindow`, `AckQuiets`);
* *a cache recomputed by one caller for all*, from rows that are saved and
  pruned meanwhile (`StalenessBounded`, `CacheNeverGoesBack`,
  `WaitersHaveFlight`, `DenyNeedsStableNorm`);
* *several processes opening one database*, with crashes between the
  transactions of a migration (`MigratedOnce`);
* *authorisation that is checked once and used later*, while keys are revoked,
  expire or are created by another process (`OnlyAuthorisedChanges`,
  `AnonymousWindow`);
* *a publisher that must neither block nor send on a closed channel* while its
  clients come and go (`StreamsFaithful`);
* *state that is thrown away when idle* and must not be missed
  (`ImplementsTokenBucket`);
* *a report rebuilt from several reads*, and cached between them, while rows are
  saved, pruned, tagged and regrouped (`ReportsFaithful`), and a list read in
  pages from a server that changes (`ListIsSnapshot`);
* *reads that fail*: a forbidden, timed out or canceled read leaves numbers that
  are too small, which no rule may take for the truth
  (`FindingsRestOnObservations`, `ReportIsHonest`);
* *findings that restate one another* and are collapsed in two passes
  (`CollapseKeepsStatus`), and statistics at their thresholds: ties, zero
  spread, gaps, one transient bump, and a finding that the
  collapse takes away in some scans of its streak (`SeriesSound`).

`PROJECT.json` lists every hazard at its line, with the properties that cover it
or the reason none does.

## Modules

### ClusterScanController

One record per key for the API server's object (`api`), the informer's copy
(`cache`) and the worker's copy (`obj`, `st`); the watch stream (`watch`), the
notifications the handlers have not seen (`note`), the queue (`dirty`, `timer`)
and the controller's own maps (`inflight`, `next`). `pc[k]` is where the worker
that holds key `k` stands: the work queue never gives one key to two workers.

`reconcile` is split where the code blocks or another goroutine can act: the
decision (`markInvalid`, `markPaused`, `notDue`, `startScan`), each status patch
(`patchApplies`, `patchNotFound`, `patchConflict`, `patchFails`), the
registration of the scan (`runScan`), its return (`scanReturns`) and the
recording of the outcome (`recordFailure`, `recordSuccess`). API server, watch
and work queue are external and modelled from their use.

Abstractions: messages are kept as their kind and conditions as whether they
are True; the backoff of a failed reconcile is a delayed add that may fire at
once; consecutive notifications that only enqueue a key are one; a change of
leadership discards the old term's workers, whose last patch is then one that
fails in transport before the change.

### ScanServer

`pc` of every goroutine: handlers of triggers and streams, one scheduler per
leadership term, reconcile workers. `executeScan` is split at the lock, at the
test of the context, around the scan, the save, the report files, the outcome
and the wait for a delivery slot. `overtaken` is a history variable for the
order of saves. A delivery is a token of `sem`; the third kind of goroutine that
`bg` counts, the write of an API key's last use that authentication starts, is
a key in `touching` (one write per key at a time: it gives up after two seconds
and `keyTouchInterval` is a minute). `Shutdown` is split at the
cancellation, the HTTP drain with its deadline, and `bg.Wait`.

`bg.Add` is one step with what it follows, the swap of `scanBusy` or the taking of
a delivery slot. In the code they are two, but `bg` is read only by `bg.Wait`
and nobody learns from a taken slot that the `Add` is still to come, so every
order of the two steps with the others is one the model has, with the joint step
where the `Add` was. `BackgroundCounted` is about the states outside the pair.

### Notifications

The two dedup maps, the acks, and for each delivery goroutine the lookups,
posts and sends it has before it. A finding stands for its fingerprint. `quiet`,
`slackGot` and `hookGot` are history variables: what was acked ever since a
lookup began, and when Slack or a subscriber last received something. Each
delivery ends within the TTL of its clock reading (`InTime`): a post takes at
most 8 s and a send 6 s, the TTL is six hours.

### Admission

`StoreBaselineProvider.Current` (read of the cache, singleflight, wait or give
up), `recompute` (one listing, one read per scan) and `evaluateDecision` with
the stability gate, against a store in which scans are saved and pruned. What a
scan says of a check is whether its fraction reaches the threshold. Times are
ages that saturate where they cease to matter, so the clock needs no bound.
The baseline is the store provider's, for which `Pinned` is never set, so the
branch of `heldScans` for a pinned one is left out with the pinned provider.
Assumed: the provider's depth is the handler's window (`newAdmissionProvider`),
and at most one scan is saved per second (ties are broken by a random id).

### Migrations

The `runMigrations` call of every process that opens the store: creation of
`schema_migrations`, list of the applied versions, and one transaction per
missing version (`begin`, check again, run, commit). Postgres takes an advisory
lock first; SQLite's transaction begins with a read, and its first write fails
when another process committed since, or holds the lock beyond `busy_timeout`.
A process may crash anywhere, which rolls its transaction back, and start again.
`executed` counts how often the SQL of a version was committed.

### Access

A request is three steps: `authMiddleware` resolves an actor, the handler looks
up the clusters its scope reaches, and it writes. Between them keys are created,
revoked and expire (by handlers and by the CLI in another process, which the
server only sees at its next recheck), the group is edited, the server restarts.
Routes carry the class their handler belongs to (cluster-scoped, admin, read).
An OIDC session is a credential that resolves to an actor with any of the roles
and the wildcard scope; the browser flow that issues it is not modelled.
`holdsCredential` lists the keys and then notes the time; both are one step here,
so the window of `AnonymousWindow` is exact for a lookup shorter than a second of
the clock and otherwise longer by the time the lookup took.

### EventBus

`publish` is one critical section over all listed channels; `subscribe`, the
handler's writes, a client's disconnect and `unsubscribe` (which takes the
channel off the list and closes it) are steps of their own. `panicked` is set by
a send on a closed channel.

### TokenBucket, RateLimiter

`TokenBucket` is the promise of the limiter's comments: buckets that exist for
ever and fill with every second. `RateLimiter` is the code: a map entry made on
first use, refilled lazily, evicted by a sweep when idle. The refinement mapping
sends a map to the levels its entries would have if refilled now, and an absent
entry to a full bucket. It needs `BucketIdleTTL >= Minute`, which the code's
constants satisfy. Tokens are exact, in `1/Minute`; the code uses `float64`.

### ReportService

Scans with their results, the cohort tags and the groups in the store; saves,
prunes and edits; and per request the program counter of its handler: list of
scans, tags, groups, the look into the cache, the read of a scan's results, the
put into the cache, the answer. Each endpoint differs in which of these it
makes. Cache lookup and put are two critical sections. A report is the record of
what it was built from, so that two reports are equal exactly when their inputs
are. Timestamps are whole seconds and ties are ordered by id. A cluster's
`first_seen` and `last_seen` are left out: no report reads them.

The key of a report is the text the code joins (`optionsKey`): names of clusters
and groups and values of tags are sequences of character codes, sorted and joined
with `=`, `+`, `,` and `;` as they are. Different options can therefore have one key,
and the code serves the report of the one to the other: the assumption
`KeysCollide` of `MCService` exhibits two pairs, and the run reaches one, with a
group that lists a cluster called `a+b`. `ReportsFaithful` claims what is left: a served report is of the
requested scan under options *of the requested key* (`ServedFaithfully`), hence of
the requested options where no name holds a separator (`PlainNamesTold`).

### Listing

`ListAll`: pages of one list behind a continue token that pins the server's
state; when the token has expired the list starts over, once.

### Scanners, Rules, Scanning

`Scanners` has, for every scanner, its reads in order (required or merely
observed), how their outcomes fold into a `Coverage` (ok, degraded, errored), and
what it measures from the lists it got. An object is a record whose field `is`
holds the traits the scanners test. `Rules` has `observe.go` and the absolute
rules of `findings_*.go`, each with the observation it asks for. `Scanning` runs
a battery of scanners over `RunScanners`' semaphore: each read succeeds, fails
in one of the ways `ClassifyError` tells apart, or ends with the context.

Left out: the caps on the lists of a payload (`TopN`), which the instances stay
below; the geo scanner and the registry probe of the image scanner. The rule on
deprecated APIs is not held to `FindingsRestOnObservations`, because the scanner
counts a list it was refused as in use (see Observations).

### Norms, Cohorts, FleetReport

`Norms` has the declared fields, majorities, the modified z-score and its
severities, and the bounds put on a degraded value; `Cohorts` the partition by
tag or by average-linkage clustering; `FleetReport` composes both with the rules into
`Build`: outliers, findings, the two collapsing passes, statuses and scores. A
result carries `truth`, what a run without failed reads would have said, so that
a report can be compared with the one it should be no kinder than. The iteration order
of a Go map, where it decides, is a nondeterministic choice.

Everything is an integer: medians are doubled, MADs fourfold, linkages scaled by
5040 and score points by 2520, a common multiple of the divisors that occur, so
thresholds are compared exactly. A cluster's profile has one varying feature.

### Series

Trend, self-drift, persistence, drift ledger and forecast over a history that
grows scan by scan. What a scan adds is an observation: the value of one metric of
a cluster, whether it is flagged (`flagged`, `drift.go`), whether the finding on it is
in the report, which needs the flag but may have been dropped by `dropRedundant`,
and the score of the fleet, where it was graded. Trend and self-drift read the
values, the ledger the flags, persistence the findings, and the forecast the
scores, as their handlers do. Least squares are done on integers: a slope is a
quotient whose sign and thresholds are compared by cross-multiplication.

### MCService, MCReports

The small models that share no state with one another are checked together:
`Init` picks a `part`, and only its actions move. A behaviour is that of
one component; nothing is shared, so nothing is lost by not interleaving them.

## Runs

| Run | Question | Bounds |
| --- | --- | --- |
| `controller` | Can a stale copy, a lost patch or a new term re-run a scan early, overwrite a newer status, or mark a stopped resource Running? Do the conditions agree with the phase? | one key, two specs (active, paused), three user actions, one lost call or new term, three instants with two to a second |
| `controller_live` | Is a due resource scanned, a pause shown, a Running status resolved? | one key, three specs (active, paused, invalid), two user actions, one fault |
| `scanning_condition` | Does Scanning=True mean a scan is running? **No** | as `controller` |
| `deleted_scan` | Is the scan of a deleted resource always canceled? **No** | as `controller` |
| `scan_server` | Do scans exclude each other, keep their order, and does the accounting of slots and goroutines hold? | two triggers, one stream, one key, two terms, one worker, one delivery slot |
| `scan_server_live` | Do slot, shutdown and a new term ever hang? | one trigger, one stream, no key, two terms, one delivery slot |
| `shutdown_drain` | Has every delivery ended when Shutdown returns? **No** | as `scan_server` |
| `notifications` | Is a finding notified once per window, never when acked, and in the end for certain? | one finding and subscriber, acked before or not, two deliveries, three instants, one ack action, one lookup failure or restart |
| `slack_memory` | Is only what was posted remembered? **No** | two findings, one per post |
| `admission` | Is the baseline fresh enough, and does a denial rest on consecutive scans? | two requests, one check, window of two, two scans, one failed recompute |
| `service` | Does every migration apply once? Does a request write only what its credential allows, and do anonymous reads end? Are streams, buckets, reports and lists what they promise? | two processes and versions, both dialects; two keys (admin, operator of a group), one request slot, two instants; two streams, buffer of one, three events; two clients, a minute of two seconds, eight seconds; two scans, one cluster and tag, one group of `a` and `b` or of `a+b`, two requests, a cache of one, one edit or failing query; three objects, pages of one, two writes |
| `reports` | Does partial data ever claim more, or look better, than complete data? Does collapsing hide anything? Do trend, self-drift, streak and forecast follow from what the scans saw? | every scanner alone and three batteries that share rules, up to three objects of a resource, two workers; ten families of fleets of one to eight clusters; histories of seven scans, each a value of 0, 1 or 4 with or without a flag and its finding and a score of 40 to 100, or neither, in two cadences |

Why the bounds suffice: every race in these components is between two actors
over one key, lock, slot or map entry, so two of each kind and one fault between
them reach it; the controller's keys share only the worker pool, and one key
with three edits covers create, edit, delete and re-create. Clocks run past one
interval, or one TTL, and the deadline after it. In `service` a buffer, a cache
and a page of one are full with the first element, so that drops, evictions and
second pages all happen; eight seconds let a bucket be drained, refilled, swept
and made again. In `reports` a rule reads at most four lists of one or two
scanners, so each battery covers a rule with all outcomes of its reads; the
fleets reach both sample thresholds (three for a majority, eight for a z-score)
from either side, and seven scans every minimum of the series.

The runs turn deadlock checking off because their components do stop: a
migration, a list, a scan or a report ends, requests and edits are bounded.

Four runs are expected to fail; each states what a document or comment of the
repository says, and is listed under `findings` in `PROJECT.json`.

* `scanning_condition`: the patch of an outcome conflicts with an annotation;
  the retry finds the remembered schedule ahead of the status and leaves the
  status alone, so it says Running until the next scan.
* `deleted_scan`: the deletion is handled after the Running patch and before
  the scan registers its cancel function.
* `shutdown_drain`: a scheduled scan, which `bg` does not count, takes a
  delivery slot after the wait, although the server context is canceled.
* `slack_memory`: findings are recorded before the post, and stay recorded when
  it fails or shows only the first few.

### Fairness

Goroutines that can run do run: every scanner, patch, post and send has a
timeout in the code. Strong fairness is assumed where Go's mutex, channels and
the work queue serve their waiters in turn (`lockScan`, delivery slots, the
scheduler slot, `processNext`), and for a subscriber that is tried again and
again (`WebhookDelivered` says what the retry is worth, not that subscribers
answer). Users, clients, the clock, the lease and signals are under no
fairness, nor are the steps that fail. An open stream need never close.

## Refinement

`ImplementsTokenBucket` (run `service`) is `TB!BucketSpec` with
`TB == INSTANCE TokenBucket WITH level <- levelNow`: every step of the lazily
refilled, swept map is a step of the promised buckets or changes nothing they
show. An eviction is such a stutter only because an entry idle for the TTL has
refilled; with an earlier sweep the run fails. `Middleware_proofs` proves it for
every instance.

## Proofs

Every safety invariant and action property that the runs check of the server's
parts is proved, and of the report pipeline what does not rest on statistics, for
every value of the constants that satisfies the assumption of its module. In
each proof an inductive invariant is stated first, one lemma per action shows
that it is preserved, a theorem says that the specification implies it
(`ServerInvariant`, `ControllerInvariant`, ...), and the properties follow from
it; an action property is proved from it action by action.

### The ClusterScan controller

`ClusterScanController_proofs` proves the type invariant, `ConditionsCoherent`
and the three action properties of run `controller`, for any keys, specs, number
of workers and bounds (`ControllerAssumption`: a valid spec has a positive
interval). The argument is the optimistic lock of the API server. `IInv` says of
every copy of a resource, in the informer's store or on its way there, that it
is no newer than the API server's and equal to it when their resource versions
are (`Copied`); and of a worker, that as long as its copy has the current
version it decided on the current spec and its status is no older than the
stored one (`UpToDate`). A patch is accepted only with the current version, so
`StatusNeverRegresses` and `NeverMarksStoppedResource` follow. The last scan of
a stored status is in whole seconds (`Written`), without which the rounding of a
patch could take it back. `ScheduleHonoured` needs that the controller's memory
is the last schedule recorded (`MemoryOK`).

### Notifications

`Notifications_proofs` proves the type invariant and the four invariants of run
`notifications` for any findings, subscribers and deliveries
(`NotificationsAssumption`: the TTL is positive). That a finding is sent once
per window is not inductive: it depends on what the maps remember. `IInv` adds
that the entry of a finding that is being posted or sent is the delivery's own
(`SlackInv`, `HookInv`), that whatever was received is still remembered or its
window is over, and that a delivery acts within the TTL of the clock it read
(`Stamped`, from the assumption `InTime` of the model). `QuietInv` says that
what the history calls acked is acked and has not passed a filter.

### Admission

`Admission_proofs` proves the type invariant, the three invariants and
`CacheNeverGoesBack` for any requests, checks, window, TTL and timeout. The
scans the store holds are a segment of those saved (`StoreOK`); a recompute that
listed them when `top` was the newest has read, and has left to read, one chain
downwards from `top` (`Listed`), so every baseline in use is of consecutive scans
(`Consecutive`) and says no more than its scans do (`Truthful`): that is
`DenyNeedsStableNorm`. For `StalenessBounded`, a fresh cache knows every scan
that was older than a recompute takes when it was filled, and what a recompute
does not know is younger than the recompute.

### Access

`Middleware_proofs` proves `OnlyAuthorisedChanges` and `AnonymousWindow` for any
keys, roles, scopes, clusters and requests (`AccessAssumption`: a key's id is no
other kind of credential). `Vouched` records for each request what the
middleware and then the handler have established, with the members the group
had at any moment of the request. `CheckedBefore` says that every key is younger
than the last check that found none, which bounds the window.

### Reports, events, lists

`Service_proofs` proves two of the three parts of `ReportsFaithful` (`CacheSound` and
`ServedFaithfully`, theorem `ServedReports`), `StreamsFaithful` and `ListIsSnapshot`,
and the type invariant of the report service.

* `ReportInv` says what is known of each request by where it stands: how many of
  the scans of its list it has read and built (`Progress`), and that each result
  and report is of the scan at its place, with the options the request has read,
  and complete unless the scan was pruned (`Faithful`, `Known`). A result read
  after the prune is empty, so `Known` must survive a prune and may not be
  forgotten by a save: an id is saved once. The entries of the cache are complete
  in the same sense. A hit is a report of the requested scan under options with
  the requested key, and no more: the key tells the scan and the key of the options
  (`KeyTells`), which nobody assumes to tell the options. It rests on `Absent` being
  no tag and no set of clusters, on ids that are numbers, and on a cache of at least
  one entry, so that what was inserted is there to be returned (`QueueTakes`).
* `BusInv`: a channel is closed only when it is off the list, and a listed stream
  has what was published since it opened, in order.
* `ListInv`: what was appended is a part, without duplicates, of the content the
  token pins, which the server had during the call. The server's objects are
  finitely many (`ListingAssumption`).

The order of the rows of a query is defined by the place of each row
(`newestFirst`; `ListScans` of `Admission` likewise), since the provers know
nothing of the library's sort; that every place is taken is `NewestFirstLists`.

### The scan pipeline

`ScanServer_proofs` proves, for any number of requests, streams, terms, workers
and delivery slots (`ServerAssumption`: the kinds of goroutines are disjoint,
requests are finite, there is at least one slot), that `Spec` implies the type
invariant and all six safety invariants of run `scan_server`.

None of them is inductive alone. The invariant `IInv` adds:

* `Placed`: a goroutine is only at the labels of its kind, so that a stream
  never scans and a request never waits for the scheduler slot;
* `LockInv`: who is in a locked section holds `scanMu`, which gives
  `OneScanAtATime`, and with it `SavesInTimestampOrder`, since nobody else can
  save between timestamp and save;
* `SlotInv`: who is in the scheduler loop holds the slot, which gives
  `OneScheduler`;
* `CountInv`: `bg` is the deliveries plus the key touches, plus one while the
  trigger slot is taken; with `TriggerSlotExact` this is `BackgroundCounted`, the step from the flag to
  the cardinality of a set with at most one element;
* `DrainInv`: once the HTTP drain has met its deadline no request is being
  handled, and once the wait is over `scanBusy` is false and no key touch is left, whence
  `TriggersDrained`.

Each action has a lemma that it preserves the conjuncts it touches, and
`ServerInvariant` combines them.

### Migrations

`Migrations_proofs` proves `MigratedOnce` for any number of processes and
migrations (`MigrationsAssumption`: the number is a natural one). It is not
inductive: that a commit finds its version missing depends on what
happened since the check inside the transaction. `MigInv` adds

* `Locked`: a Postgres process between lock and commit, and an SQLite process
  between its first write and commit, is the holder of the one lock;
* `Progress`: a call has every earlier version recorded, and what it read as
  applied still is;
* `Missing`: at `run` the version is missing in the snapshot of the transaction,
  which under the Postgres lock is what is recorded; at `commit` it is missing in
  what is recorded, since SQLite's write was refused unless the snapshot was
  current;
* `Once`: the log has no gap and each version in it was executed once.

`NextVersion` needs the least element of a set of naturals (`Least`, from the
library's well-founded induction).

### The rate limiter

`Middleware_proofs` proves `RateSpec => ImplementsTokenBucket` for any clients,
any integer budgets and any intervals with `BucketIdleTTL >= Minute`. The type
invariant is all it needs. The argument is in two lemmas on arithmetic: a second
of the clock adds one second's rate to an accumulated refill (`SecondAdds`), and a
bucket idle for longer than a minute would be full (`IdleIsFull`), so that
forgetting it changes no level (`SweepKeeps`). Each call of `allow` is then a
`Request` (`AllowRequests`), each tick a `Refill` (`TickRefills`).

### From reads to reports

`Reports_proofs` proves, about the modules of run `reports`:

* `FindingsRestOnObservations` (`ScanSafe`), for any objects, batteries and
  number of workers. `ScannersAssumption` says that every read is of a resource
  of the cluster, of which it holds finitely many objects. The invariant
  `ScanInv` places each scanner of the battery in one stage and says of a kept
  result that it is the errored one or the `Result` of outcomes that ended the
  scanner's reads (`Ran`), in which only a type without objects was not served.
  The step from there to the property compares two maps of runs: `Compared`
  relates the runs kept to those of a scan whose reads all succeed. A scanner
  with one list either has all of it or has erred (`SingleData`), so its rules
  see equal payloads. A scanner with several lists may be degraded: its lists are
  part of the complete ones (`ListsOf`), its required ones are whole, and each
  rule is shown to fire on the larger lists too, as severe and with everything it
  named (`Dominated`, one lemma per rule). A rule that claims an absence is where
  this could fail; it asks for the observed list (`CoverageRule`,
  `AdmissionRule`).
* `CollapseKeepsStatus` (`CollapseSafe`), for any scan, cohorts and groups. A
  dropped finding points to one no weaker, which may be dropped itself; the chain
  ends because the restated field is always nearer to the end of its own chain
  (`Depth`, `DepthFalls`), a fact about the table in `fields.go`. Findings that
  mark clusters are not norm findings and are never dropped (`GeneratedUnmarked`).
* two of the three parts of `ReportIsHonest`. `LossNeverGrades`
  (`LossGradesNothing`) is a comparison of cardinalities: the observed runs of
  the fleet without one run are among those of the fleet (`LostRun`).
  `ScoresAreEarned` (`TopBandEarned`) is arithmetic on the ledger: no term is
  negative, a critical finding or a critical or unknown status costs six points
  or more, and six points round to less than 95 (`ScoreRange`).
  `FleetAssumption` says that a stored scan has at least one cluster, finitely
  many runs, each with its state, and node counts that are natural numbers.
  `TopBandEarned` is stated of reports with finitely many findings
  (`FindingsFinite`): `Build` returns a slice, but the auto cohorts, which say
  how many cohort findings there can be, are computed by a fold about which the
  prover knows nothing.
* one of the three parts of `SeriesSound`, for histories of any length and any
  window of the ledger: `StreakWithinFlag` (`LedgerSafe`). Flag and finding are
  separate; the proof needs only that a finding comes with a flag (`SeriesInv`,
  from `SeriesAssumption`): the last scan of the window without the flag is the one
  before the last flip, and the streak begins after it.

The resources of `Scanners` have names without spaces and maps grow with `Put`,
since the provers know neither spaces in strings nor `@@`.

### Only model-checked

Liveness under fairness (`DueIsScanned`, `PauseIsShown`, `WebhookDelivered` and
the properties of `scan_server_live`) is outside the prover's reach. So are the
parts of run `reports` that speak of medians and sums over data, on which the
prover has no induction: `PartialDeviationsHold` of `ReportIsHonest`,
`QuietSeriesStayQuiet` and `ForecastFollowsScores` of `SeriesSound`; and that plain
names are told apart by a key joined of them (`PlainNamesTold` of `ReportsFaithful`). `ServiceTypeOK` stays
with TLC because it only says of the part of run `service` that is explored what
the theorems say of each part alone.

## Observations

Met while modelling, by reading or in a counterexample to a stronger property;
no run states them. A maintainer may want to look at each.

* Two sets of options can have one key in the report cache
  (`server/report_cache.go:37`, `:45`): cluster `a` tagged `x,b=x` and the clusters
  `a` and `b` both tagged `x`, or a group of `a` and `b` and a group of the one cluster
  `a+b`. Until the entry is evicted the report of the first is served for the second,
  while `report_cache.go:18-19` says that "new cohort tags or groups change the key".
  Escaping the separators, or `%q`, would do.
* A forecast is the value of a fitted line, so it can lie well below the last score
  after scores that never fell (0, 0, 0, 0, 100), and the headline then speaks of a
  decline (`report/forecast.go`); `ForecastFollowsScores` claims the mean instead.
* Reports of one scan are not always equal: the order of a Go map decides which
  small cohort is merged first (`cohort/agglomerate.go:240`) and which of two
  equal groups a capacity finding names (`report/capacity.go:94`, `:128`). A
  sealed report may therefore not match one rebuilt from the same scan, while
  `server/seal_handler.go:29` says that the bundle is deterministic.
* `scanner/certs.go:123` uses -1 for "no days yet", which is also a certificate
  that expired a day ago: a later, healthier one then replaces it as the lowest.
* The finding on images without a fixed tag looks for `latest-tag` among tags
  called `latest-or-no-tag`, so it names no image.
* The scanner of deprecated APIs counts a list it was forbidden to read as use.
* In a small tagged cohort whose values are all different a deviation from the
  fleet can be dropped as within the cohort's norm.
* `GetScansByTimeRange` formats its bounds without converting them to UTC.
* The audit row is written with the request's context
  (`server/audit_middleware.go:45`) and lost when the client disconnects.
* `last_seen` of a cluster is overwritten by any save (`store/sqlstore.go:219`):
  a late one moves it back.
* The network policy scanner counts from two lists read at different moments.

## What is not modelled, and the plan

Not modelled at all: text generation (remediation, explanation, templates),
CLI printing, metrics and tracing, TLS and flag parsing, the Helm chart, the
browser code and the generated demo fleet. They keep no state that anything
reads back, or are layout. Of modelled components, these are left out: alert
rows and the retention of alerts and audit rows, the browser flow of OIDC, the
geo scanner and the registry probe, the two-dimensional map of the fleet.

Still to come, most important first:

1. Composition: two replicas with one lease, each with `ScanServer` and
   `ClusterScanController`, over one store; an abstract "one scan at a time per
   fleet" that the composition implements as long as the lease is exclusive.
2. Comparison and baselines, seal and verify, what-if.
