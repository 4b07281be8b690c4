# A formal model of jevernetes

jevernetes collects Kubernetes logs, assembles and redacts events, groups them
by template, asks a model provider how important each group is, and, as a
controller, keeps a durable record of incidents and sends notifications. This
directory holds TLA+ modules of the parts whose correctness depends on the order
of things, the TLC configurations that check them on small instances, and
TLAPS proofs of what holds for every instance.

    tlc -workers 2 -config store_delivery.cfg MCControllerStore.tla
    tlapm ControllerStore_proofs.tla

`PROJECT.json` names, for every definition, the source lines it stands for, for
every run what it checks, and for every property a wrong form of a definition
under which the run must fail. Those wrong forms stand beside the right ones,
marked "Variant".

## 1. Inventory

Paths are under `src/internal/`.

| Part | State | Operations | Talks to |
|---|---|---|---|
| Controller store, `controller/store.go`, `capacity.go` | SQLite tables: verdicts, seen occurrences, incidents, outbox, a durable sequence, counters of evictions | Open, Apply, PutVerdict, deleteVerdict, Lookup, makeRoom, Metrics | analysis lane (Apply), cached judge (verdicts), delivery worker (outbox) |
| Delivery, `controller/sink.go` | outbox rows, one attempt in flight | Pending, Send, Delivered, Deliver | store, stdout or a webhook |
| Policy, `controller/policy.go` | none | Validate, Decide | Apply |
| Cached judge, `controller/judge.go` | durable verdicts | Judge (delete, look up, dispatch, put) | store, provider |
| Grouper and engine, `analysis/group.go`, `engine.go` | partitions with tickets and generations, verdicts in memory, rollback high water | Observe, Publish, Invalidate, Batch, Run | judge, emit callback |
| Learning and rules, `analysis/learning.go`, `rules.go` | learned template candidates | teach, match | engine, provider |
| Provider client, `provider/provider.go` | cumulative usage, breaker | reserve, record, send | HTTP |
| Worker pool, `provider/parallel.go` | jobs, output slice | Judge | client |
| Run-time of a scan, `cli/run.go` | queue, admission counters, contexts, result | admit, emit, waitForState, shutdown | all of the above |
| Live collection, `kube/live.go`, `cursor.go` | follower slots, replay cursor | follow, accept, finalize | admission |
| Parser, `event/event.go` | bytes of the current event | Push, Flush, Finish | collection |
| State volume, `controller/volume.go` | files of the database | prepareVolume, normalizeVolumeState | store (Open) |
| Search, `search/search.go` | frozen groups, cache, budget | Execute, stop | provider |
| Investigation, `investigation/server.go`, `reviews.go`, `reviewer.go` | slots of a scan job and a search, live and saved reports, rules file | start, stop, review, search, Close | scan, search |
| Terminal, `tui/tui.go`, `cli/tui.go` | a channel of windows, the model, searches | keys, update, search, leave | scan, search |
| Inspection, reports, Kubernetes access, browser pages | presentation or I/O | | |

**How they interact.** Collection goroutines admit events under one mutex into a
queue. One analysis goroutine takes them, judges a batch (through the cached
judge and the provider pool), and calls the emit callback for each event; in
controller mode the callback applies the event to the store and waits while the
outbox is full. A second goroutine, the delivery worker, claims due outbox rows,
sends them outside of any lock, and settles them. Cancelling the intake stops
collection but not the two workers, cancelling the process stops both. Nothing
in memory survives a stop; the tables do.

**What is hard.** The delivery worker and the analysis lane touch the same
outbox, one to settle a row and one to evict rows; the process may stop between
recording an attempt and settling it; answers are lost; the wall clock that
cooldowns, leases and lifetimes are computed from can be set back; tables are
capped; provider calls overlap on one budget; workers share an output slice
without a lock.

**What makes each part correct.**

* Store and delivery: each decision to notify commits exactly one intent under an
  identity never used before, in the transaction that records the occurrence; an
  intent is sent at least once or dies after its attempts; only an acknowledged
  send settles it as delivered; the row being sent is never evicted; caps hold;
  evictions are counted; backpressure loses nothing and ends.
* Policy: cooldown and escalation bound what one incident can send, and never
  swallow its first notify.
* Provider: no interleaving passes a limit; every attempt is accounted for; cost is
  called complete only when it is covered; the breaker latches; each group gets
  its own judgment or none; an assessment ends.
* Verdict cache: no verdict is served past its lifetime on either clock, after a
  newer reassessment, or for a stale generation.
* Scan run-time: an admitted event is reported exactly once or counted as dropped;
  shutdown ends and reports the first error.
* Live collection: a replayed line is dropped once, a new one never; slots bound
  the streams and are not reused while a reader runs.
* State volume: a stop between renames is never taken for a complete move.
* Search: what was not evaluated makes a search partial; a cached decision is
  reused on the same evidence and in time only.
* Investigation: one scan and one search at a time, and a stop reaches them; no
  review is lost, none reaches another report; a view never shows a judgment that
  nobody made.
* Terminal: the newest window is shown, the selection and an open detail survive
  what is evicted, leaving the view ends everything it started.

## 2. Modules

| Module | Models | Role |
|---|---|---|
| `Policy` | `policy.go`, the window and escalation arithmetic of `Apply` | operators, used by the store |
| `ControllerStore` | store, caps, delivery, the emit callback with its wait, stops | component composition of two lanes over shared tables |
| `NotificationContract` | what `docs/controller.md:16` promises of a notification | abstract specification |
| `ProviderBudget` | `Client.send`, reserve, record and `ParallelJudge` | pool and client together |
| `VerdictCache` | grouper, `Engine.Batch`, cached judge, verdicts table and lifetimes | the lane and its caches together, over two clocks |
| `ScanRuntime` | `cli/run.go`, `Engine.Run`, how `live.go` hands over events | collection, lane, workers and main goroutine together |
| `ScanContract` | what a scan promises about the events of its sources | abstract specification |
| `LogStream` | one followed log: `live.go`'s stream, `cursor.go`, the framer of `event.go` | reader, stream and container together |
| `Collector` | `Follow` and `Snapshot` of `live.go` and `kube.go` | discovery, slots, readers and workers together |
| `StateVolume` | `volume.go`, and what the controller does beside it | preparation, controller and machine together |
| `SearchRun` | `search.go`, `provider/search.go` | one search after the other over one cache |
| `Investigation` | `server.go`, `reviews.go`, `reviewer.go`, `cli/investigation.go` | requests and the goroutine of each job together |
| `Terminal` | `tui/tui.go`, `cli/tui.go` | interface loop, collection and searches together |
| `MC...` | | constants for TLC |
| `ControllerStore_proofs`, `ProviderBudget_proofs`, `VerdictCache_proofs`, `ScanRuntime_proofs`, `StateVolume_proofs`, `Investigation_proofs` | | theorems about the module of that name |
| `LogStream_proofs` | | theorems about `LogStream`, and about `Collector`, which starts the streams |
| `SearchView_proofs` | | theorems about `SearchRun`, and about `Terminal`, the view that starts searches |

The seams between them: a reader of `Collector` is a `LogStream`; the events
of a stream enter `ScanRuntime` through `admit`; its emit callback is `Apply` and
the wait of `ControllerStore`; the judge of its lane is `VerdictCache`, whose provider is
`ProviderBudget`; `StateVolume` ends where `Open` of `ControllerStore` begins; a job of
`Investigation` and the collection of `Terminal` are a scan, and a search of either is
`SearchRun`. `ControllerStore` composes store, lane and worker; the other seams are
crossed by a free choice of what the far side may answer.

### ControllerStore

*State.* `seen`, `incidents`, `outbox`, `sequence` and `evicted` are the tables,
as functions from keys to rows (`store.go:127`). `lane` is the event inside the
emit callback and `worker` the phase of `Deliver`. `process`, `intake` and
`analysing` stand for the contexts and for the analysis goroutine. `now` is the
wall clock. `issued`, `received` and `acked` are history: what became of every
identity ever committed, and what the consumer saw.

*Actions.* `Apply(e)` is the whole SQL transaction of `Store.Apply`: duplicate,
recorded without intent, enqueued, or rolled back for want of room
(`ErrBackpressure`), with the trims of all three tables. `FailApply` is a storage
error, `AbandonApply` the wait that ends with the context. `RecordAttempt` and
`MarkDead` are `Pending`, which commits the attempt before anything is sent;
`SendOutcome` lets the consumer receive the notification and the answer be lost
independently; `SettleAttempt` is `Delivered`. `Crash` may come between any two of
them; `Open` repairs the sequence as `installCapacity` does. `Tick` and
`SetClockBack` move the clock, which stands still at its bound.

*Left out.* What a notification says; digests and JSON; the verdicts table, which
is in `VerdictCache` and shares no row with these; schema migration, which is one
transaction.

### ProviderBudget

*State.* The fields of `Usage` under the client's mutex; the channel of starts
(`next`), the shared output (`out`, a judgment being named by its group) and one
record per pool worker.

*Actions.* Each critical section of the client is one action (`CountBatch`,
`Reserve` or `ReserveRefused`, and `Record` inside the three outcomes of an
exchange); the context check (`CheckContext`), the exchange and the pause
(`WaitEnds`) lie between them, so that workers interleave there. A batch count
precedes the size check, as in the code; a refused reservation sets the breaker.
`Return` writes the worker's range. A single batch, which the code judges in the
caller, is the case of one worker.

*Left out.* Tokens: a metered answer has a charge from a small set. The bytes of
a request, on which its reservation depends, are represented by the number of its
groups. Judgment contents and schema checks: an answer that does not decode is an
exchange that ends without a judgment.

### VerdictCache

*State.* `verdicts` is the table, `lifetimes` the registry beside it
(`store.go:33`), `durable` whether the judge is a
`CachedJudge`, `entries` the grouper's partitions with their generation,
`groups` the groups of the batch that is under way, `phase` and `index` how far it
has come. `wall` and `elapsed` are the two readings of a `time.Time`: the first can
be set, the second belongs to the process. A verdict is named by the assessment it
came from, which is all that the properties ask about it; `last`, `born` and
`since` remember the assessments, and `reuse` is the reuse the last step made.

*Actions.* `Observe` is one event of a batch: `Grouper.Observe` with eviction,
rollback, expiry and audit, then the reuse or the group of `Engine.Batch`.
`CloseBatch` marks the groups whose ticket went stale within the batch. The judge
prepares one group per step (`PrepareFresh` deletes, `PrepareMiss` and `PrepareHit`
are `Lookup`), sends the others (`Dispatch`), hears which answers are usable
(`Respond`) or fails with the whole batch (`JudgeFails`), and stores (`Keep`, with
`PutVerdict`'s trim). `Publish` is the loop at the end of `Engine.Batch`. `Restart`
may come between any two steps and may change lifetime, vetoes and `--rescore`.

*A reduction.* The clocks pass only outside the phases `prepare` and `answer`
(`Passing`). Nothing reads a clock between `CloseBatch` and `Keep`, so that every
run has an equivalent one in which that time passes after `Respond`; provider
latency is in it.

*Left out.* Events that are not eligible (they have no ticket and are never
cached), reviewed rules, which give a family another identity, and the copy of a
verdict to the siblings of its group. Fractions of a second: `created` and
`expires` are stored in whole seconds, the readings of the model are too.

### ScanRuntime

*State.* `cancelled` is the set of contexts cancelled as such: `command` (the
operator), `process` (a worker) and `intake`; a context is done when it or one it
derives from is cancelled (`ProcessDone`, `IntakeDone`). `position` and `reading` are the
streams, `admission` the stream that waits inside `admit` with the lock held,
`queue` the channel, `lane` and `batch` where `Engine.Run` is, `main` where `runWith`
is after it started the others. `collection`, `analysisErr` and `background` are the three
errors that meet at the end. `admitted`, `reported` and `workerFailed` are history.

*Actions.* `Admit`, `Drop`, `WaitForRoom`, `RoomMade` and `AbandonAdmission` are the outcomes
of `admit`; `Enters` says who passes its checks, and a live stream does so even
after the intake is over, since a refused event goes to the finalizer
(`live.go:277`). `Stop`, `Exhausted`, `SourceFails` and `DiscoveryFails` end streams.
`Take` to `DrainEnds` are `Engine.Run`; `OutboxFull`, `Retry`, `AbandonWait`, `StateFails` and
`Emit` the emit callback, whose `Report` is everything from the report to the budget
test. `Collected`, the hold, `Join` and `Exit` follow `run.go:486-597`.

*Contract.* `Promised` maps the scan to `ScanContract`: `admitted` is what it was given,
`reported` what it told, `result` its answer; streams, queue, batch, contexts and
workers are hidden.

*Abstractions.* The workers (delivery and up to two servers) are one: the first
that fails decides. What a batch's judgment leaves `unknown` or `spent` is chosen
freely; `unknown` also stands for the other events that make a report partial. When
the process is cancelled while the input ends, the lane may still pass through
`CancelAnalysis`: `Engine.Run` remembers that the channel was closed, the model does
not, and allows both errors. Gaps that only describe the input are left out, as
is the bounded-history gap that every Kubernetes scan has: such a scan is never
complete anyway.

### LogStream

*State.* What the container writes is fixed in `log`; `written` of it can be read.
`read`, `reader` and `queue` are the connection, its reader goroutine and the channel
of one with the piece that waits for it; `pc` and `stage` the stream goroutine,
`parser` the framer with its cursor and the events that came out of it. A line has
two halves, so that a connection can break inside one.

*Actions.* `Validate`, `Open` and `Wait` are the outer loop of the stream, `Take` feeds a
piece, `Deliver` and `Delivered` hand events on and act on the end of a piece, `Drain` is the
way out after a cancellation, with the finalizer. `Accept` is the cursor, `FinishLine`,
`Flush` and `Finish` the framer. What a connection has to say is a set, `Wire`, and `Line`
gives it in the order of the log; a second line of the same time and text is another
member of it. `tail` (history) is the first line of the tail that the last request without
a time asked for.

*What the properties except, and why.* Lines before the tail were never asked for, so
that nothing is promised of them; they may still come after a break, when the request
names a time and their second is repeated. A line with the time of one before the
tail then cannot be told from it, which is why `Placed` excludes it. Lines without
a time, or older than one before them, have a coverage gap instead of a place.

*Left out.* Redaction, byte limits and the text itself: a line starts an event,
continues one or is blank, and two lines with the same second and kind have the
same digest.

### Collector

`mode` tells `Follow` from `Snapshot`. In the first, `List` and `Discover` are a tick,
`ReaderEnds` and `ReaderJoins` a reader on its way out, `TakeDone` and `FollowLeaves` the cases of
the select. A stream that vanishes keeps its slot until its reader has joined.
In the second, `Dispatch`, `StreamEnds` and `Dispatched` are the worker pool. `Joined` is
the end of both. Left out are selectors, paging, metrics and texts.

### StateVolume

*State.* `mem` is the volume as processes see it and `disk` what of it was synced: which
directory each name denotes and where each file is. `prep` is the preparation,
`control` the controller, `user` whoever still holds the old lock.

*Actions.* One for each step of `prepareVolume` between two of which it can be
killed: `Look`, `MakePrivate`, `Normalize`, `TakeLock`, `MakeStage`, `SyncMove`, `Move`, `Publish`,
`Sync`, `Succeed`, and `Fail`. `Reset` is the machine going down, after which each
change that was not synced may be there or not. `Open`, `OpenLock` and `Transaction`
are what a controller does to the same files. The contents of the files are
left out, and owners and modes, which only make a preparation fail.

### SearchRun

`Start` freezes a window; `Scan` takes a group from the cache, decides it literally or
leaves it pending; `Select` cuts at the budget; `Call`, `Return`, `Record` and `BatchEnds` are a
batch, recorded answer by answer under the lock that readers share; `Cancel` comes
at any moment and `End` tells the outcome. Ranking is left out: any groups may rank
first.

### Investigation

*State.* What the server keeps under `s.mu`: `job`, `stop`, `live`, the slot of the
search, and the files of rules and reports. `reviewing` and `searching` are requests
between their two critical sections, `scan` the goroutines of the jobs. Two variables are
history: `seen` holds the judgment made of each event when it was collected, and `wanted`
the rules files that the answers allow. A review answered as saved is in all of them; one
answered with an error may have been done or not, so that it is in some.

*Actions.* Requests: `Start`, `StopScan`, `ReviewReads` and `ReviewWrites`, between which the
review holds the mutex while it reads and writes files, `SearchReads` and
`SearchStarts`, between which it does not. The goroutine of a job: `Collect` (an event is
judged, skipped by the reviewer, or drained as unknown once the scan is cancelled), `Publish`,
`Return`, `Finish`. A write of a report or of the rules (`Writes`) replaces the whole file or
leaves it; answered as done it has replaced it, answered with an error it may have, as the
directory is synced after the rename (`report.go:189-199`). `Outcomes` is `scanDashboard`: a report,
an error or both, or neither when the options of the scan were not understood. `Close` and `Closed` are the end
of the server. `Project` is the projection of a report through the rules, with the
judgments it moves between the counts of the summary.

*Left out.* The checks of requests and of stored files, uploads, context lookups,
the removal of reports.

### Terminal

`Send` puts a window into the channel, in place of one that was not taken. `Frame`,
`KeyPressed`, `StopSearch`, `Submit`, `InputEnds` and `Quit` are the interface loop over the model `m`,
whose operators (`Update`, `Refresh`, `Render`, `Move`, `Enter`, ...) are the methods of
`Model`; `SearchFinds` and `SearchReturns` the search goroutines; `Exit` the join. Left out are
widths, wording and the text of a query that is edited; while it is, a click still moves the selection.

## 3. Runs

| Run | Shows | Bounds |
|---|---|---|
| `store_delivery` | refinement of `NotificationContract`: at least once, and no intent lost while it is pending or being sent; every intent settles, backpressure resolves | two incidents, two attempts, two stops, one clock set back, capacity 1 |
| `store_capacity` | caps, one intent per occurrence, incident rows agreeing with the intents they announce, first notifies kept, evictions counted; the same notice only a cooldown apart | events of three occurrences and two incidents, capacity 1, cooldown of one, four arrivals in two instants, one stop |
| `budget_limits` | limits, cost coverage, an answer for each group, the breaker; an assessment ends | two workers, batches of two, three groups, two assessments, 3 batches, 5 attempts, 12 units of money |
| `cache_reuse` | only the latest assessment is reused, never past its lifetime on either clock, within a process and across a restart; what was refused is kept nowhere | two families, one partition, three events in batches of up to two, lifetimes of one and two seconds, with and without the durable cache and a veto, one restart, the wall clock set once to any value |
| `scan_stops` | refinement of `ScanContract`: each event once and in order; complete drain, exact cap, the meaning of exit 0; every stop ends | scans of files, snapshots and controllers, two streams of two events, queue of one, batches of two, no cap and a cap of one, a hold |
| `scan_failure` | a violation: see Findings | one stream of one event |
| `stream_replay` | no line lost or silently repeated over reconnections, gaps told, no event spliced | twenty-one logs of four lines over two seconds with equal, late and missing times, also across the start of the tail, tail of two, cursor of two digests, three connections |
| `collect_slots` | slots neither shared nor leaked, the end told as it was; a stopped collection ends | three streams, two slots, two workers, three readers |
| `volume_prepare` | no controller sees part of a database, success survives, what was refused is kept | none: all volumes of the five files |
| `search_partial` | what was not judged is told, reuse is sound; a search ends | three events in two groups, batches of one, budgets of one and two, two searches, lifetime of two ticks |
| `investigation_jobs` | slots and reviews true, views honest, complete means saved; stops and the close of the server end | two jobs, two reviews, two searches; three events, of which each job reads one and the report on file keeps two |
| `terminal_view` | newest window and details shown, one search at a time, selection kept; leaving ends | two windows of two events, two searches, one key between frames |

Why these bounds are enough to be interesting. In the store a capacity of one
makes every insertion an eviction or backpressure, and two attempts separate the
first, the retried and the exhausted attempt; a second stop lets the first be
followed by a recovery that is interrupted as well. The shortest
cooldown there is lets a notice be repeated within it and after it, and four arrivals
of events that are judged now to be reviewed and now to notify, and that a full table of
occurrences has forgotten, let an incident turn twice. The next window of
recurrence and higher levels are left to the theorems. In the budget five attempts
of up to three units against twelve units let the money, the attempts and the
batches each be the limit that ends a run, and charges of one and three lie on
either side of the smaller reservation. In the cache one partition for two families
makes every change of family an eviction, so that a partition comes back with a new
generation while the row of its family is still in the table, and a batch of two
can evict what it has just grouped. Three events are enough to store a verdict,
lose its partition or reassess it in vain, and ask again. The intervals between
audits are one and two instead of 16, 32 and up. There are as many lifetime slots
as families; section 5 says what happens with fewer.

In the scan four events over a queue of one and batches of two let the queue be full
while the lane holds a batch that is not reported yet, and a cap of one is reached
with two streams about to admit. A `follow` scan of the model (`Kinds`) is a controller
without store, hold and workers and is not run. In a stream four lines and half-line
pieces let a connection break inside each of them, before and after an equal, a
late and an undated one; a tail of two leaves two lines before it, one of which may
share its time; and a cursor of two digests overflows in a second with three. Three streams over two slots let one wait for the slot of another that
is being removed. Two jobs let a review, a search or a stop that was meant for the
first meet the second. Two events share a text, so that a rule made on one is also
about the other. In the terminal the two windows differ by the eviction of one of two equal events
and by the judgment of others, while a detail of the evicted one may be open.

All bounds are constants with the comment "(bound)" or "bound on"; runs in which
every bound has been used up, or which came to their end, stop, hence
`CHECK_DEADLOCK FALSE`; `volume_prepare` never stops.

**Fairness.** The store's `FairSpec` assumes that the two goroutines take steps
while the process runs, that a send ends (both sinks have a timeout), that the
clock advances and that a stopped process is started again. It does not assume
that a send ever succeeds. The client's `FairSpec` assumes that each worker takes
its next step, which `http.Client.Timeout` justifies for the exchange, and that
Judge joins its workers; cancellation and good answers are never assumed.
The scan's `FairSpec` assumes that each stream, the collector, the lane, the main
goroutine and the workers go on: reads and providers are bounded or end with their
context. It assumes nothing of the operator, the deadline, failures or outbox room.
The collector's assumes that the API answers, that goroutines go on, that a reader
that was stopped ends (its requests carry the context), and strong fairness of two
cases of a select, between which Go chooses at random. The search's assumes that
`Execute` goes on, its calls being bounded as above. The investigation's assumes
that a request goes on, that a search ends and that a scan which was cancelled
returns, which is `StopEnds` of the scan; a scan that nobody stops may run on. The
terminal's assumes that searches come to their end and that a cancelled collection
returns; nothing is asked of the person at the keys.

## 4. Proofs

Every theorem holds for all values of the constants that the named assumption of its
module allows, which are the ranges of the configuration, finiteness of the sets
involved, and a wall clock past the length of a window (it counts seconds since 1970):
`PolicyAssumption`, `StoreAssumption`, `BudgetAssumption`, `CacheAssumption`,
`ScanAssumption`, `StreamAssumption`, `CollectorAssumption`, `SearchAssumption`,
`InvestigationAssumption`, `TerminalAssumption`. Bounds such as `MaxOpens` or `MaxKeys` are
constants too, so that the theorems hold for any number of steps. The one theorem
that asks more says so in its statement: `LatestUnlessLeft`.

`ControllerStore_proofs` proves for all keys, events, capacities, attempts, leases,
backoffs and clocks:

* `TypeCorrect`, `Invariant`: `StoreInv` is inductive. It says that identities are issued
  below the durable sequence (so that an incident evicted and seen again cannot
  reuse one), that the row the worker holds is in the outbox with the attempts the
  worker knows, that sends never exceed recorded attempts, and that a settlement
  repeats what its send reported. The wanted properties are not inductive
  without these: eviction is harmless for the row in flight only because that row
  is pending, and it is pending only because nothing but the worker settles rows.
* `InFlight`, `Attempts`: the two safety properties of delivery.
* `Contract`: every step of the store is a step of `NotificationContract` or a
  stutter, under the mapping in `ControllerStore`.
* `Agreement`: `TablesAgree`, which is inductive together with `StoreInv`. A table stays
  within its capacity because `Put` removes a row before it adds one to a full table; the
  eviction count balances because an intent leaves the outbox only through `makeRoom`.
* `Cooldowns`: `NoticesCoolDown`, for any policy. It follows from `CooldownInv`: while no
  incident was evicted and nobody set the clock back, the row of an incident remembers
  its notices (`RowRemembers`). Its window and level never fall behind one of theirs, and a
  review after a notification on the same level came a cooldown later, so that
  the one case that bypasses the cooldown, from review to notify, happens once a level.
* `Bursts`: what that bounds. Within one cooldown and one window of recurrence an incident has
  at most `2 * (MaxEscalation + 1)` intents, counted through an injection into
  decisions and levels.

`ProviderBudget_proofs` proves for any number of workers, batch size and limits:

* `Invariant`, `TypeCorrect`: `BudgetInv` is inductive. Besides limits and accounting it
  says that starts handed out lie a batch apart and before `next` (`HandedOut`), and
  that every group is not yet handed out, in some worker's range, or written
  (`NoneLost`). Disjoint ranges and complete output follow from those and not from
  each other.
* `Budget`, `Recorded`, `Disjoint`, `Answered`, and the action property `Latch`.
* `CostCovered`: a cost that is called complete is within what was reserved. What
  the overlapping exchanges still owe must be counted in, and a sum over workers is
  a recursive function, which these provers cannot reason about. `Covered` says the same without
  one: there is a level that starts at the cost, ends no higher than the reservations,
  and rises past each worker by what it owes. An exchange that ends lowers it for the
  workers after it and raises its start by the same amount.

`VerdictCache_proofs` proves for any families, capacities, lifetimes, batches, restarts
and settings of the clock:

* `RefusedNeverKept`, from `CacheInv`: generations grow, so that the group of the current
  partition is the last of its family in the batch (`OrderInv`); a group has a key, or a
  verdict it did not ask for, only if it is current and safe (`GroupInv`); and a number of an
  assessment is held in one row, one partition and one group only (`IdsInv`).
* `LatestUnlessLeft`: with `LatestInv`, by which each row, partition and current group holds
  the latest assessment of its family, every reuse is of that one unless a step was
  `LeavesRow`: a lookup that finds the registry of lifetimes full leaves the row it did not
  read. So that is the only cause of a stale reuse; section 5 tells how it comes to one.
* `ReuseAlwaysEnds`, which needs no such hypothesis. `LifeInv` carries, with every
  verdict, that it ends within `ttl` of when it was sent for or found, and, unless the wall
  clock was set since, within `ttl` of its assessment; `ClockInv` that readings taken earlier
  agree with the clocks until one is set.

`ScanRuntime_proofs` proves for any number of streams and events and any sizes and caps:

* `Invariant`: `ScanInv` is inductive. The exact cap needs that the cap is not reached
  while a stream waits inside `admit`, which holds because it keeps the lock; the
  complete drain needs that nothing is read once the channel is closed, and that a
  lane which ended without failing and without outbox pressure ended on an empty, closed channel.
* `AdmissionOrder`, `ExactCap`, `EverythingReported`, and `OrderlyHold`, which adds that the main
  goroutine goes on only when collection and lane have ended (`HoldInv`).
* `OkIsComplete`: exit 0 of a scan of files means that every event was reported with a
  judgment. `FilesInv` says that what was admitted is exactly what the streams handed
  over, each once (`AdmittedOnce`), and that a stream which is not at its end is being read or
  was told of: as a failure, or as a gap. The number of events reported then follows from
  a bijection, not from a sum over streams.
* `Contract`: `KeepsContract`, by which every step is a step of `ScanContract` or a stutter.
  That nothing is taken in twice needs that what was admitted lies before the position of
  its stream and what waits for room after it (`OnceInv`); that the answer comes last
  needs that it is given by a scan whose lane and collection have ended (`HoldInv`,
  `DoneInv`); what an "ok" promises comes from `FilesInv`.

`LogStream_proofs` proves for any log, tail, cursor capacity, piece size and number of
connections, wherever they break:

* `LinesReached`, `ReplayTold`, `LinesDelivered` and `FramesTrue`, all from `StreamInv`. Its
  parts are these. `CursorInv`: the time of the cursor is the newest accepted; its counts
  are the acceptances at that time, except for digests it had no room for, whose
  lines have a gap; lines of older times were accepted once each or have a gap. `OpenInv`,
  while a connection is open: for each digest the count is what is still expected again plus
  what this connection already sent of it (`SeenTrue`), and what it sent and has a place
  was accepted (`FedTaken`). That is why the cursor may drop a line by its digest alone: it has
  dropped as many as it counted before the break only when the connection has sent as
  many. `FramesInv` and `PendingOpen`: frames have no holes, and the pending one ends where
  the connection is. `Held`: each acceptance is handed over or in the parser. `Flow`: what was read and
  not yet fed is in the queue. `TailOK`: once anything was accepted, the tail goes back
  at least `TailLines` lines.
* How one piece is fed is a function over the lines it completes. What it
  yields is proved from the least line at which it would fail, which the theorem
  about minimal elements provides without an induction rule.
* `SlotsSafe` and `CollectionEndTold`, of `Collector`, for any streams, slots, workers and readers.
  The first needs that a slot and a reader at work name each other (`SlotOfReader`), and that
  the word of an end is in the channel at most once for each slot (`WordOfEnd`). The second
  needs that a cancellation has its cause (`CauseOfCancel`), and that a stream being read has
  its worker (`ReadTrue`).

`StateVolume_proofs` proves `DatabaseWhole`, `SuccessSurvives` and `RefusalKept` from `VolumeInv`; the model
has no constants, and the invariant is there to say why the run finds nothing. What was
synced is behind what processes see by at most one step of the migration (`SyncInv`); each
point of a preparation has the layouts it can meet (`PrepInv`), a controller has
one that is settled (`ControlInv`), and a refused layout is refused again (`RefusedInv`).

`SearchView_proofs` proves for any window, queries, budgets, capacity and lifetime of
`SearchRun`, and for any windows and keys of `Terminal`:

* `HonestSearch`: a group of the run is in one place and the candidates count them
  (`GroupsKept`). `SoundReuse`: what the cache holds was answered when it says (`CacheSound`).
* `WholeView`, `OneSearch` and the action property `SelectionStays`, from `ViewInv`: the view shows the
  search started last, each one before it is cancelled, and a view that was
  left waits for all of them.

`Investigation_proofs` proves for any number of jobs, reviews, searches and events:

* `Invariant`: `SlotsInv`, `ReportsInv` and `ReviewsInv` are inductive together. A review is
  lost to no other because what it read is still the file (`ReviewsInv`), as it holds
  the mutex over its files, so that the file stays among those that the answers allow
  whichever writes fail; and it reaches no other report because the live report, the
  one a goroutine fills and the one in the file hold events of their own job only
  (`ReportsInv`), which in turn needs that the goroutine that publishes is the one
  the slot names (`SlotsInv`).
* `Slots` and `Reviews`, two of the properties the run checks.
* `CompleteSavedAlways`, an action property: a job that ends complete left the report it shows
  in its file (`SavedInv`), or has no report and collected nothing.
* `HonestViews`: each event of a stored report keeps, beside what the rules made of it, the
  judgment made when it was collected, and the summary counts at least the events that are kept
  (`ViewInv`), so that a judgment that moves leaves the summary in agreement with them.

`StoreInv`, `BudgetInv`, `ScanInv`, the row in flight, accounting of attempts, disjoint ranges,
recorded attempts, the order inside the scan and the orderly hold are proved and not checked
again by a run. A row in flight that was evicted, or an event lost inside the scan, would break
the refinement of the contract, which a run checks. All safety and action properties that the
passing runs check are proved.

**Only model-checked.** Liveness under fairness, which is out of the prover's reach:
`EveryIntentSettles`, `BackpressureResolves`, `JudgeReturns`, `StopEnds`, `SearchEnds`, `QuitEnds`, `ServerEnds`
and `CollectEnds`. A theorem says nothing about whether the states it speaks of are
reached; that the interesting ones are is what the runs show, each of whose properties
fails under a wrong form of some definition.


## 5. Findings

`scan_failure`: `docs/usage.md:25` gives exit code 1 to runtime failures and 2 to partial
coverage. A failing worker cancels the process, so that the lane usually ends as
cancelled; `run.go:504` takes the worker's error only if there is no other, and
`run.go:587` passes over a cancellation. The command then exits with 2 and the
worker's error is not told. During a hold the error is kept (`run.go:497`).

Observations made while modelling, which no run of this directory shows:

* `docs/controller.md:16` says eight *failed attempts* mark an item dead. `Pending` counts
  the attempts it has recorded (`sink.go:106`), and records before it sends. A process that
  stops in between uses an attempt up: a row can be dead after fewer failures than
  the limit, or without ever having been sent. The contract still holds, since a
  dead row is one whose attempts are all recorded.
* `docs/adaptive-log-learning.md:3` says that failed, uncertain and unsafe observations
  invalidate reusable state. A lookup that finds every lifetime slot taken misses
  (`store.go:318`) and leaves the row of its family. The assessment that follows may
  fail; nothing deletes the row then, and when a slot becomes free the next lookup
  reuses the verdict from before the failed assessment, within its lifetime.
  `LatestUnlessLeft` proves that a stale reuse has no other cause. An instance of `VerdictCache`
  with three families, `StateCapacity` 2, `GroupCapacity` 1, `BatchSize` 1, seven events, one stop,
  no veto and both clocks standing still reaches one after 35 steps.
* `run.go:464-465` says that after a failed evidence write every admitted event is still
  persisted and reported. The failure cancels the intake, and the wait for outbox
  room ends with the intake (`run.go:688`): an event admitted before that finds the outbox
  full ends the lane there. Without outbox pressure the comment holds
  (`AdmittedReported`).
* A dashboard job can end complete with a `report_id` whose file was never written, although
  nobody stopped it. `scanDashboard` turns every exit code 2 into success
  (`cli/investigation.go:57-62`), and options that are not understood exit with 2 as well
  (`cli.go:101`), before there is a report. A `tail` that is a string passes the checks of
  requests, since it counts as zero there (`server.go:348-354`), and fails as an option. The job
  is then set complete with an identity (`server.go:466-468`); `server_test.go:134-137`
  expects the file of a complete job to exist. `CompleteIsSaved` therefore speaks of jobs that
  have a report or collected anything.
* A review, or a final report, is answered with an error although its file was replaced
  when the directory cannot be opened or synced after the rename (`report.go:189-199`,
  `reviews.go:388-392`, `server.go:455-458`). The review then is in force, and a job that says
  error may have left its whole report. `ReviewsKept` says what remains true: such a
  review is there as a whole or not at all, and no other one is lost with it.
* `volume.go` lists the old files (line 45) before it takes their lock (line 99). A user of the old
  files that ends in between may remove its journal, which the preparation
  then fails to move. Its comment requires that they are not in use, and so does the
  model.

## 6. Plan and limits

What is left, in order of use:

1. `TemplateLearning`: candidates, their expiry and escalation.
2. The byte limits of `LineParser` against a reference definition of splitting.

**Not modelled.** Inspection reads the store in single queries and changes nothing. Reports and safe files
replace one file by one rename: that a file holds the old or the new as a whole is what
`Investigation` assumes of them. Their answer is not all or nothing: an error may come after
the rename (section 2), and a loss of power that undoes an unsynced rename is modelled for
the state volume only. Kubernetes client configuration, credential plugins and stream
upgrade are validation and I/O with the outside; a failing connection is in
`LogStream` and `Collector`. The checks of an open file (`secure_open.go`) keep no state.
Rendering and flags change no shared state. `third_party/` is not the program's own logic.
