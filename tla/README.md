# Network Atlas: a verification of the backend in TLA+

Network Atlas (`src/`) manages servers over SSH: it registers hosts, discovers
what runs on them, lets the owner arrange the findings on a canvas, collects
resource metrics on a schedule, and derives health from them. The backend is one
Rust process (Axum on Tokio, `backend/src`, about 38,000 lines) over one SQLite
database in WAL mode; the frontend (`frontend/`) is a client without a build step
of its own. There is no second server process, so what is hard is the interleaving
of tasks inside the process, SQLite transactions that start after their inputs were
read, and what a restart finds in the database.

This directory holds modules that model that behaviour, configurations that check
them with TLC, and proofs that TLAPS checks.

| module | what it is |
|---|---|
| `HostSlot` | what the observation subsystem promises about one host, abstractly |
| `Observation` | admission, execution, shutdown, restart and deletion of observations |
| `ObservationProofs` | the proofs about `Observation`, with its refinement of `HostSlot` |
| `HostConnection` | the row, host key file and secrets of one host under concurrent requests |
| `HostConnectionProofs` | the proofs about `HostConnection` |
| `DeploymentCatalog` | a discovery session, what it proves of deployments, and evidence retention |
| `DeploymentCatalogProofs` | the proofs about `DeploymentCatalog` |
| `ProjectionDraft` | drafts, versions, ignore rules and agent proposals of one host |
| `OnboardingSession` | `ProjectionDraft` with the agent, the owner's page and the model configuration |
| `OnboardingSessionProofs` | the proofs about `ProjectionDraft` and `OnboardingSession` |
| `MonitorSchedule` | the schedule of one host, its ledger of versions and its claims |
| `HealthEvaluation` | policies, receipts, debounce, current health and health bands of one host |
| `HealthEvaluationProofs` | the proofs about `HealthEvaluation` |
| `HistoryRollup` | the compactor of one host's metric history, its receipts and retention |
| `HistoryRollupProofs` | the proofs about `HistoryRollup` |
| `CounterRollup` | what the rollups of one cumulative counter say, before and after retention |
| `MonitoringProofs` | the proofs about `MonitorSchedule` and about `CounterRollup` |
| `MutationLog` | what a mutation with an Idempotency-Key promises, abstractly |
| `EventStream` | change events, the stream that sends them, and the page that refreshes after them |
| `CatalogMutations` | `EventStream` with the catalog's handlers, their receipts and their events |
| `CatalogMutationsProofs` | the proofs about `EventStream` and `CatalogMutations`, with the refinement of `MutationLog` |
| `MC...` | the values TLC instantiates each of them with |

`OnboardingSession` extends `ProjectionDraft`, and `CatalogMutations` extends `EventStream`:
they run together. `Observation` and `CatalogMutations` are shown to implement `HostSlot` and `MutationLog`. The other
modules are separate views of the same process; what connects them is named in
their sections.

## 1. The system

### Components, state, operations

| component | source | state | operations | status |
|---|---|---|---|---|
| Observation execution | `monitoring_api.rs`, `m1.rs`, `monitoring_scheduler.rs`, `main.rs` | `monitor_runs`, `discovery_runs`; semaphore `observation_permits`; RwLock `observation_admission`; `shutdown_requested` | manual run, discovery, scheduler claim, session, terminal write, interrupt, drain, recovery | `Observation` |
| Scoped deletion | `data_management.rs` | backups on disk, the rows of a scope, secrets, receipts | fence, barrier, backup, cascade, secret cleanup, receipt | all but the receipt |
| Hosts | `m1.rs`, `ssh.rs`, `secrets.rs` | hosts, `known_hosts` files, secret files and their descriptors | edit, test, confirm a key, store a secret | `HostConnection` |
| Discovery and catalog | `discovery.rs`, `catalog.rs`, `m1.rs` | evidence, deployments, observations, resource links | session, coverage, merge, prune | `DeploymentCatalog` |
| Projection | `projection.rs` | `projection_drafts`, `projection_versions`, `canvas_layouts`, `ignore_rules` | patch, layout, ignore, confirm, draft from a rescan | `ProjectionDraft` |
| Onboarding agent | `onboarding.rs` | sessions, proposals, questions | create session (a model call), adopt, modify, reject, undo, answer | `OnboardingSession` |
| Model provider | `model_provider.rs` | one configuration row, test runs | put, call, test | `OnboardingSession`, but for the test |
| Monitor schedules | `monitoring_scheduler.rs` | `monitor_schedules`, `monitor_schedule_versions` | create, update, pause, archive, scan, claim | `MonitorSchedule` |
| Health | `monitoring_health.rs` | policies and their versions, receipts | put policy, evaluate a run, debounce, current and window health | `HealthEvaluation` |
| History | `monitoring_history.rs`, `monitoring_rollup.rs` | samples, hour and day rollups, maintenance receipts | compact, retain, repair, query | `HistoryRollup`, `CounterRollup`, but for queries |
| Business catalog | `api/catalog_api.rs` | projects, targets, businesses, links, receipts | create, update, archive, link, unlink | `CatalogMutations`, `DeploymentCatalog` |
| Project agents | `project_agent.rs` | bindings, tool calls | bind, invoke a read-only tool | the binding, in `CatalogMutations` |
| Events | `events.rs`, `auth.rs` | `change_events` | publish, prune, stream | `EventStream` |
| Owner session | `auth.rs` | sessions, attempts, audit | login, logout, protect a request | not modelled |
| Diff, metric parsing | `discovery_diff.rs`, `monitoring.rs` | none | compare two snapshots, parse `/proc` | not modelled |
| Storage, contracts, fixtures | `storage.rs`, `contracts.rs`, `fixtures.rs`, migrations | the schema | connect, migrate | constraints appear in guards |
| Frontend | `frontend/app.js`, `frontend/data-source.js` | what the page shows | refresh after an event, decide on a proposal | those two: `EventStream`, `OnboardingSession` |
| Deployment, scripts | `deploy/`, `scripts/` | none | | not modelled |

### How they interact

* Everything that opens an SSH session goes through two objects of `AppState`
  (`api.rs:115`): requests and scheduler ticks hold the read side of
  `observation_admission` while they insert a run; its worker then holds one of
  `observation_permits`. A deletion takes the write side, then every permit, then
  backs up and deletes. The scheduler takes every permit once more when it stops.
* The database decides who owns a host: unique partial indexes and triggers
  (`migrations/0010`) refuse a second active run of whatever kind.
* A discovery that succeeds creates a draft in its own transaction, from the
  latest confirmed version. Drafts change by compare-and-set on their revision,
  which is the ETag clients send back in If-Match.
* The onboarding agent reads a draft, awaits an external model, and stores
  proposals; adopting one edits the draft inside one transaction.
* Each update of a schedule closes one row of the version ledger and opens
  another; health windows later read the ledger to tell which observations were
  expected (`monitoring_health.rs:2404`), and runs are pinned to their version.
* The compactor holds the read side of `observation_admission` for its whole tick,
  so it never writes inside a deletion's window; workers write samples at any time.
* A handler reads the host's row once and later writes it by its id alone; the SSH
  clients read the `known_hosts` file of the host, which confirmations replace and
  edits remove. Nothing locks the host between the two.
* A discovery's evidence says which providers answered; from that, one transaction
  derives what is stale in the catalog, in targets and in links.
* A run is pinned to the policy in force at its admission; every way in which it can
  end leaves a receipt, and an alarm depends on the receipts before.
* A catalog handler looks for a receipt, then writes row, receipt and event in one
  transaction; the middleware publishes a second event afterwards, for some paths.
  After an event of a kind it has a listener for, the page reads its snapshots again,
  whatever else the event says.
* Start (`main.rs:51-91`): recover discoveries, recover monitor runs, clear leases,
  recover compactions, then spawn the scheduler. Stop (`main.rs:94-110`): set
  `shutdown_requested`, drain handlers, join the scheduler, then the compactor.

### What is hard, and the properties that answer it

`PROJECT.json` lists each hazard at its line. In short: permits that a path could
leak or return twice; a deletion between queued workers, ticks and a shutdown; a
crash at any point; handlers that read a draft or a schedule before they write it;
a claim racing with an update; half-open boundaries between two due grids; samples
that commit while their bucket is being compacted, sealed or deleted; receipts whose
times do not follow their commits; a session that fails half-way; a retry beside the
request it repeats; a page that is behind.

## 2. Observation

### State and actions

`row[r]` is the durable state of a run in `monitor_runs` or `discovery_runs`
(a discovery's `accepted` is `queued`, its `discovery_timeout` is `interrupted`).
`task[r]` is where the code working on the run is, first the request handler
(`checked`, `admitted`, `inserted`, `spawned`), then the worker (`waiting` for a
permit, `starting`, `resolving` its target, in `session`, `persisting`, `closing`).
`permits` and `gate` are the Tokio semaphore with its first-come-first-served
queue; `fence` is the queue of writers of the RwLock, whose readers are the tasks
in `Readers` and a ticking scheduler. `del[d]` is where a deletion is, `backup[d]`
what its verified snapshot says; `sched` and `due` are the scheduler task;
`life`, `shutdown` and `restarts` the process.

An action is one stretch of code between two awaits that other tasks can observe:
a transaction, a lock or permit operation, the end of a session. Points that
mattered:

* `tokio::sync::Semaphore` is fair, and `try_acquire_owned` does not overtake a
  queued waiter: `TryPermit` requires an empty `gate`.
* A worker that is granted its permit after shutdown began drops the permit and
  only then closes its row (`monitoring_api.rs:162-164`): `Yield`, `Interrupt`.
* Monitor results are written under `WHERE state = 'running'`; discovery results
  under the run id alone (`m1.rs:2608`). `MayFinish` keeps the difference, so
  `TerminalStable` is a statement about who else can write, not about a guard.
* A discovery whose host cannot be loaded returns without a receipt
  (`m1.rs:3087-3093`): `ResolveError`, enabled by the `"storage"` fault.
* A request handler is dropped by the HTTP server when its client disconnects:
  `DropHandler` and `Abandon`, enabled by the `"disconnect"` fault.
* A crash loses everything volatile; recovery is two transactions, and the process
  can die between them.

### Runs

| run | what it asks | result |
|---|---|---|
| `observation_safety` | safety and refinement with two permits, every fault, one restart | holds |
| `observation_live` | ownership of runs and liveness without faults | holds |

*Bounds.* Two hosts with two manual runs, one scheduled run and one discovery. Three
runs of different kinds compete for the first host, so every pair of kinds races;
the run on the other host competes for permits and is outside the deletion's
scope. One deletion suffices for the barrier; `PermitsConserved` and its proof
cover several. Two permits are the least with which a barrier has to wait for more
than one. `MaxRestarts = 1` permits a crash, a recovery and a crash in the
recovery; runs are not reused, as their ids are UUIDs. The live run has one permit,
which is the contended case, and three runs.

*Fairness.* `LiveSpec` assumes weak fairness of each run's handler and worker, of the
scheduler task and of each deletion. Tokio polls every woken task; each SSH
command has a timeout, so `SessionEnds` cannot be put off forever; the semaphore
and the RwLock queue their waiters, which the model has as sequences, so no strong
fairness is needed. Requests, shutdown, crash and restart are not fair. The live
run leaves out the faults because the properties are false with them: after a
storage error or a dropped handler an active row waits for the next restart. The
hazard is documented; it is what `ActiveRunOwned` would report.

### What is proved

`ObservationProofs` proves, for any finite set of runs, any hosts, deletions, number of
permits, restarts and faults:

| theorem | statement |
|---|---|
| `InductiveInvariant` | `Spec => []IInv` |
| `TypeCorrect` | `Spec => []TypeOK` |
| `PermitConservation` | `Spec => []PermitsConserved` |
| `SessionExclusion` | `Spec => []OneSessionPerHost` |
| `BarrierQuiescence` | `Spec => []QuiescentUnderBarrier` |
| `SnapshotFrozen` | `Spec => []FrozenSnapshot` |
| `DrainComplete` | `Spec => []DrainedWhenStopped` |
| `FinishedStaysFinished` | `Spec => TerminalStable` |
| `ActiveRunsOwned` | `Fault = {} => (Spec => []ActiveRunOwned)` |
| `ObservationImplementsHostSlot` | `Spec => ImplementsHostSlot` |

The assumptions are those named in `Observation`: the kinds of run are disjoint, there are
finitely many runs, each has a host, deletions and the scheduler are no runs,
and there is at least one permit.

*The argument.* None of the safety properties is inductive. One session per host needs
that a worker in its session has a row that is `running` (`WorkingRowsRun`) and that
rows exclude each other (`OneActiveRun`). `WorkingRowsRun` is what makes the
unguarded discovery writes harmless; it needs that nobody else writes a row whose
worker is active: recovery does not, because nothing runs while the process
recovers (`NothingRuns`); a cascade does not, because it owns every permit and a
worker would own one (`PermitsConserved`, by counting). `FrozenSnapshot` needs, in
addition, that the deletion heads the queue of the admission lock and has it to
itself (`FenceHeld`), so that no insert and no tick happens, and that a worker that
drops its permit does so in a shutdown (`DrainFollowsShutdown`). `PermitsConserved`
itself needs `RowsFollowTasks`: a claim gives its permit to a run that has no worker
yet. `IInv` conjoins these, and each conjunct has a lemma with one step per action.
Counting is isolated in five lemmas on holders of permits (taken, returned, moved,
reset, bounded). The refinement maps the slot to the active rows and the open
sessions to the tasks in `session`; only six actions touch either (`RowWriters`), and
each is a step or a stutter of `HostSlot` under `IInv`.

`ActiveRunOwned` has an invariant of its own beside `IInv`, `OwnedInv`, because it holds only
without storage faults and disconnections: a worker that has not yet gone through
`MarkRunning` has no `running` row, one that is closing has left its row terminal, and
after the first half of a recovery no discovery is active.

Liveness (`RunsEnd`, `DeletionEnds`, `DrainEnds`) is model-checked only.

### A divergence

The comment at `data_management.rs:376-377` says that both fences leave no write
window between the verified snapshot and the deletion. A worker that was granted a
permit during shutdown gives it back before it writes `interrupted`
(`monitoring_api.rs:162`), so it can write in that window. `FrozenSnapshot` states what
holds instead, and is proved.

## 3. ProjectionDraft and OnboardingSession

### State and actions

A snapshot is abstracted to the set of decisions it shows. A decision is named by
the request or proposal that made it, so losing somebody's change is visible as a
missing element. Handlers read the draft before their transaction, so a request is
`Load` and then a commit or a refusal; agent actions, the removal of a project and
the draft of a rescan are one transaction each. `contents` is a history variable:
what each revision of each draft has shown.

`OnboardingSession` adds the agent. `session[c]` is a row of `onboarding_sessions` with
the handler that makes it: it looks for a ready session (`Ask`), loads the draft
(`LoadDraft`), loads the configuration and calls the model (`CallModel`), takes what
comes back and compares the draft's revision (`Recheck`), and stores session,
proposals and questions (`StoreSession`); each of these is a statement of its own,
and any edit may come in between. `page` is the draft as the owner's page has last
read it (`refreshM2Draft`), and a message carries that revision as `base_revision`
(`mutateM3Proposal`). A message is one transaction (`Handle`), with a refusal for every
guard. `PutLoad` and `PutStore` are the two halves of PUT `/model-provider`.

### Properties

* `EtagNamesOneContent`: a revision of a draft never names two contents, whichever of
  its six kinds of writers raced for it;
* `VersionsWereShown`: a published version is what its draft showed under the revision
  the owner confirmed, but for a project removed since;
* `EditsSurvive`: no accepted decision is lost by somebody else's change;
* `SessionFitsItsRevision`: what a ready session offers was made from the content that
  its revision names, though the draft may be written during the call, and by a
  configuration stored under the revision its invocation records;
* `OwnerSawTheDraft`: an adoption or an undo changes exactly the content that the
  owner's page showed.

### Run and bounds

`onboarding_session` checks all five on two drafts with a patch that creates a project,
an ignore request, two confirmations, one session with one proposal and one
question, two messages, two configurations and the removal of the project, of which at
most five requests happen in one behaviour. Two confirmations are the least that
race with each other; two drafts the least that a rescan relates; two messages the
least for an adoption and its undo. Five requests are enough for: ask, adopt, a
patch and a confirmation that race with it, and a removal. With two sessions and
four requests (881,390 states) or five (8.8 million) the properties hold as well; then
a ready session is found and reused, which the small instance does not show. A
layout change takes the same steps as an ignore request that leaves the rules as they
are, so the configuration has none.

### What is proved

`OnboardingSessionProofs` proves, for any drafts, requests, proposals, sessions,
questions, messages and configurations and any number of requests:

| theorem | statement |
|---|---|
| `OnboardingInvariant` | `Spec => []IInv` |
| `OnboardingTypes` | `Spec => []TypeOK` |
| `EtagInvariant` | `Spec => []EtagNamesOneContent` |
| `VersionsInvariant` | `Spec => []VersionsWereShown` |
| `EditsAreKept` | `Spec => EditsSurvive` |
| `SessionsInvariant` | `Spec => []SessionFitsItsRevision` |
| `OwnerSaw` | `Spec => OwnerSawTheDraft` |

*The argument.* No content exists above the revision of its draft, and at that revision it
is the draft's (`Below`): a write that takes the next revision can name nothing twice.
Everything else that holds a revision holds one with the content that the draft showed
under it (`Shown`): a request that has loaded, a session that has shown the draft to its
model, an adoption, the owner's page, a message. Where the code compares its revision
with the row's, equal revisions then mean equal contents. That is what makes an edit
start from the decisions it was meant for, a confirmation publish what was confirmed, a
session ready only for what its model saw, and an undo restore what the owner reads.
Two facts are needed beside it: a version that was published has a latest one to reread
(`LatestExists`), and a proposal appears only when its session ends, hence once
(`Suggested`). Beside the assumption that requests are distinct, the proofs use only that
`Draft` is not empty (`DraftsAssumption`).

### What the model shows beside the properties

* A patch that read its draft before a confirmation of the same revision committed
  still matches the revision, which a confirmation does not change, and edits the
  published draft, which becomes a draft again (`projection.rs:1952`). The published
  version is not affected. A second confirmation of the unedited revision is
  refused by the unique index on (draft, revision).
* A draft's `base_revision` is never compared when it is confirmed
  (`projection.rs:2011`): confirming an older draft last publishes a latest version
  without the decisions of the newer one, and the next rescan starts from it.
* The re-check after a model call compares the revision only, outside the transaction
  that stores the session. A session may so be ready on a draft that was edited or
  confirmed between the check and the INSERT. Its response names the revision it was
  made from, and adopting compares again, so nothing is applied to content its owner
  did not see.
* A ready session is answered again whatever its draft shows by then. Two requests that
  both find none store two ready sessions.
* Two PUTs in flight may store two configurations under one revision
  (`model_provider.rs:547`); `stored` holds both. That is why
  `SessionFitsItsRevision` says that the configuration was stored, not that it is the
  only one of that revision.

* Which relations a confirmed version has removed, a rescan can only tell from the
  evidence behind that version (`projection.rs:1219`), and only the three latest
  complete runs of a host keep theirs (`m1.rs:2647`). After that the removed relations
  are in the new draft again (`Overlay`). `EditsSurvive` is about one draft and does not
  speak of it.
* The content of a revision is the set of its decisions. The states of nodes that a
  confirmation rewrites under the same revision are not part of it.

Left out: replays (see `CatalogMutations`), the contents of nodes and edges, the
test of a configuration, the deletion of a host or of the workspace during a call.
`modified` is an adoption whose operations the owner has changed.

## 4. MonitorSchedule

The row of one schedule, its ledger of versions, the scheduled runs, the due row
the scheduler has read, and the PATCHes in flight. `ExpectedSlots` is the ledger as
health windows read it; the properties relate it to the runs:

* `SlotHasOneVersion`: half-open due grids of successive versions never overlap;
* `RunsAnswerExpectedSlots`: a run answers a slot of the version it is pinned to;
* `MissedSlotsAccounted`: each slot expected of a version up to its last claim is
  claimed by exactly one run or counted in the `missed_due_count` of exactly one;
* `CatchUpIsOneRun`: a claim leaves no slot behind that was due when its tick began.

A claim's transaction is one action (the lease it takes is released in the same
transaction); an update is `LoadUpdate`, outside the transaction, and
`CommitUpdate`. Whether a claimed run is queued or skipped depends on `Observation` and
is a nondeterministic input here. The clock is monotone: the properties do not
cover a wall clock that is set back. One schedule is modelled: the schema allows one
that is not archived per host, and schedules of different hosts share nothing.

`monitor_schedule` checks all four. *Bounds.* Intervals of 2 and 3 and a jitter of 0 or 1 over eight instants: a slot can
be missed, two can, and a grid can be cut before, at and after a slot. Two updates are
the least that race; each may keep or change the grid (2,793,199 states).

### What is proved

`MonitoringProofs` proves, for any intervals, jitters and updates and however long the
clock runs:

| theorem | statement |
|---|---|
| `ScheduleInvariant` | `Spec => []IInv` |
| `ScheduleTypes` | `Spec => []TypeOK` |
| `DisjointGrids` | `Spec => []SlotHasOneVersion` |
| `AnsweredSlots` | `Spec => []RunsAnswerExpectedSlots` |
| `EverySlotAccounted` | `Spec => []MissedSlotsAccounted` |
| `OneRunCatchesUp` | `Spec => CatchUpIsOneRun` |

*The argument.* The ledger has one version per revision and the open one is the row's
(`LedgerInv`); the due time is on the open version's grid, its first slot or at most an
interval ahead of the clock (`DueInv`). So when a version is closed, each of its slots has come and the next
version begins behind all of them (`SettledInv`), which is why grids share no slot
(`DisjointInv`). A run answers slots that end at its own: the slots of the open version
before the due time are answered once each (`AnswerInv`), and a claim answers exactly
those from the due time to the last that its tick found due. What the scheduler and the
updates have read is never newer than the row (`TickInv`, `UpdateInv`), and a claim with an old
copy is refused by its compare on revision and due time. The arithmetic is in lemmas on
grids: two slots of one grid are an interval apart, and the quotient of the claim is the
number of slots it passes.

## 5. HistoryRollup

### State and actions

`sample[s]` is a row of `metric_samples` from the end of its session (`inflight`, in
the hands of a worker) to its commit (`raw`) and its end: `deleted` by retention,
`erased` with the host, `lost` with a worker. `at` is `observed_at`, `created` the
time of its transaction. `partition` is `metric_rollup_partitions`; its `inputs` are
the samples counted, `pruned` says that its rows in `metric_rollups` are gone. `run`
is the state of the latest row of `monitoring_compaction_runs`, `maintenance` that of
the singleton. `compactor.pc` is the statement of the tick that comes next.

Each transaction of a tick is an action; between any two a worker may commit a
sample, the process may die, a shutdown may begin. `WorkError` and the second
disjuncts of the actions of `mark_failed` are a failing statement, bounded by
`MaxFaults`. Points that mattered:

* The selection of partitions and their compaction are separate transactions; a
  sample committed in between makes `compact_partition` skip the partition.
* `sealed_at` is taken before the transaction of the retention and `created_at`
  inside the worker's, and both have millisecond precision: a sample with
  `created_at = sealed_at` counts as late. A tick of the model's clock is long against
  a transaction, so equality is frequent in the model.
* A sample is deleted only if it was created before the seal of both its
  partitions; a late one stays, and every tick reports it (`CountLate`).
* `recover_interrupted_compactions` is two statements; `repair_orphaned_maintenance`
  runs again at the begin of every tick.

### Properties and runs

* `RetentionHonoured`: a committed sample is raw until it is old enough to go and counted
  at each resolution as long as that is kept, however late it was committed;
* `RawNotStranded`: no partition is pruned while a raw sample it has counted needs it
  as the proof that it may be deleted (the comment on `hour_retention_days`);
* `BackupIsBoundary`: samples and partitions do not change between the verified
  backup of a deletion and its cascade;
* `EventuallyCompacted`, `CompactorRecovers`: every sample of a closed day is compacted;
  the compactor succeeds again whichever statements fail, those of `mark_failed` and of
  its fallback included, and after the next start. Both except one end, `Stranded`: the
  receipt of a tick that is over is still `running`, after three failures.

| run | what it asks | result |
|---|---|---|
| `history_safety` | safety with one failing statement and one stop or crash | holds |
| `history_live` | compaction in the end and recovery, with three failing statements and one stop or crash | holds |

*Bounds.* One sample with a value and one without, which expire at different times;
both may fall into one hour, into two hours of a day or into two days. Days have
two hours, retention is 1, 2, 2 and 3 days, and at most one partition is compacted
and one sample deleted per tick, so every limit is reached. `MaxDelay` is the whole
run in `history_safety`: a worker may be suspended until its partition is sealed. One
host: partitions, samples and receipts of different hosts share only the limits per
tick. The clock is monotone; were the wall clock set back, `created_at < sealed_at`
would not order the commits any more.

In `history_live` three statements may fail (786,804 states): that is the least with which
the work of a tick, the closing of its receipt and the fallback fail in one tick, so
each branch of `mark_failed` is taken, with one restart after it. With a fallback that
does nothing (the defect `Fallback_Missing`) two failures strand the compactor.

*Fairness.* The compactor's interval always fires again and each of its statements ends;
the clock runs; a worker's transaction and a cascade end. Failures are bounded. There
is no fairness on a sample to be observed, on a shutdown or on a start: the liveness
properties are about a process that is up.

*A divergence.* The comment in `mark_failed` (`monitoring_rollup.rs:1012-1014`) says that "a
trigger, transient constraint, or partial terminal-write error must not strand
either durable state as `running`". When the statement of a tick, the
update of its receipt and the fallback all fail, as in an error of the storage that
lasts, the receipt stays `running`; the unique index then makes each later tick end
with `AlreadyRunning`, which is not logged, until the next start. This is `Stranded`;
`CompactorRecovers` shows that any two failing statements are recovered from. (Where a
late sample makes the tick fail, which is no failing statement, two are enough; in
`history_live` workers are prompt and no sample is late.)

### What is proved

`HistoryRollupProofs` proves, for any finite set of samples, any widths, retentions and batch
sizes that the schema admits and any number of faults and restarts:

| theorem | statement |
|---|---|
| `HistoryInvariant` | `Spec => []IInv` |
| `HistoryTypes` | `Spec => []TypeOK` |
| `RetentionInvariant` | `Spec => []RetentionHonoured` |
| `StrandedInvariant` | `Spec => []RawNotStranded` |
| `BoundaryInvariant` | `Spec => []BackupIsBoundary` |

*The argument.* A sealed partition has counted every sample committed before it was sealed
(`PartitionInv`): sealing asks in its own transaction that no raw sample is missing among its
inputs, and one that commits later is not older than the seal. Retention deletes a sample only if
it was created before the seals of both its partitions, so what is gone was counted at
each resolution (`SampleInv`). A sample may commit between the selection of a partition
and its compaction, but nobody seals it there, for the sealer is the same task
(`CompactorInv`). While a deletion holds the fence the compactor is in no statement and no
worker has a sample in hand (`FenceInv`). `IInv` was checked with TLC on both
instances (8,568,161 and 46,667 states).

Left out: retention disabled, which is the default (then `EnforceRetention` never
happens, and the properties hold trivially for what is deleted), storage counts, the
history queries.

## 6. CounterRollup

The same partitions, with what they say of one cumulative counter. A sample has a
value and the boot id of its run; neither, when the boot id could not be read
(`capture_cpu_counters`); or a boot without a value, when the counter of the machine, an
unsigned integer, is above the largest signed one that a sample can hold. `device` is the machine: its counter grows, or begins anew
with another boot. `history` keeps every sample ever committed, as the reference that
rollups are compared with. Compaction, retention and lookup of the boundary are
`Compact`, `EnforceRetention` and `LoadCounterBoundary`. The loop of `aggregate_counter` is
a function of the samples it has passed, in the order of their times (`Totals`): what it has
got to after a set of samples is one `Accumulate` more than after the set without its newest.
Its names begin with `Counter` or `Clock` where `MonitorSchedule` has the same, because the
two modules share a module of proofs: `CounterInit`, `CounterNext`, `CounterSpec`, `ClockTick`.

* `RollupsExact`: `delta` and `resets` of each rollup are exactly those of the pairs of
  successive observed samples whose second is one of its inputs, whatever part of
  them had been deleted when it was computed, or was computed again after a late
  commit; no delta where it would overflow or nothing was added.

`counter_rollup` checks it. *Exceptions, stated in the property.* A silence longer than the
retention of days leaves nothing to start from (`Forgotten`). It is reckoned from the last
sample of the rollup, not from the second of the pair, and with the delay of a commit: a
sample committed late at the end of a day makes the whole day count again, and by then the
rollup of the day before the silence may be pruned, although the pair itself was young enough
when the day was first counted. Samples at instants 3, 9 and 11 of the instance show it. A
reboot behind an unreadable sample (`Hidden`) is the divergence below.

*Bounds.* Four samples at six instants chosen at both ends of an hour, in successive
days and after an empty one; samples hold counters up to 2, so that three increments
overflow a delta, and the machine counts up to 3; one reboot (2,909,100 states). `MaxDelay` is less than an hour, as a worker's transaction is:
with a longer one a sample may be late for a sealed partition, which is
`HistoryRollup`'s subject. Compaction takes the oldest bucket first, as
`load_partition_candidates` orders them, at either resolution at any time.

### What is proved

`MonitoringProofs` proves, for any widths and retentions that are whole days, any readings,
boots, instants and number of samples:

| theorem | statement |
|---|---|
| `CounterInvariant` | `CounterSpec => []CounterIInv` |
| `CounterTypes` | `CounterSpec => []CounterTypeOK` |
| `CountersAreExact` | `CounterSpec => []RollupsExact` |

*The argument.* Two parts, the loop and its boundary. `LoopCounts` says what the loop has
counted after any set of samples: the resets and the increments of its successive pairs.
The prover has no induction, so the lemma looks at a smallest set for which it fails; that set has
a newest sample, without which it holds, and the new sample adds exactly one pair
(`NextPair`). For the boundary, `RollupInv` says of each rollup that its inputs are the
samples of its bucket up to its last, and that its last value is that of its newest observed
input. Of what is deleted, its bucket is sealed and all of its day compacted
(`DeletedInv`); a pruned day lies so far back that each sample still to be counted may forget it
(`PrunedInv`). Hence, of the observed samples before a bucket, the latest is raw or the
last value of a rollup that is there (`AnchorExists`), and an anchor has the value of the
sample it stands for, though perhaps not its boot (`AnchorHasValue`). The first pair of the
bucket and the pair that the loop begins with then count alike (`SameCounts`), unless the
exceptions apply. A sample commits late only into a bucket that is not sealed, since a
seal is a retention old and a commit less than an hour late (`SealedIsPast`), and retention
runs only without a backlog, so what it seals has counted all its samples (`NoBacklog`).
`CounterIInv` was checked with TLC on the instance with three samples (601,324 states).

*A divergence.* A comment says that the run's "boot_id is therefore the reset boundary"
(`monitoring.rs:844`). But `load_counter_boundary` (`monitoring_rollup.rs:1322`) joins a rollup with the run of its *last* sample, not
of its last *valid* one. When that sample could not read the boot id, the boundary
has a value without a boot, and it even takes precedence over the raw sample the
value came from. If the host then reboots and its counter has passed the old value
before the next observed sample, the bucket counts the difference as growth.

## 7. HostConnection

### State and actions

`row` is the row of the host, `file` and `tmp` are its controlled `known_hosts` file and
the temporary file that a confirmation renames, `secrets` the credential files and `desc`
the table that lists them; `other` is a second host that shares a credential. `w[p]` is
a request with the copy of the row it loaded, `run` the discovery worker of the host,
`remote` the key each address presents. No handler keeps a lock or a transaction
between its statements, so each statement and each file operation is an action, and
each may be the last one (`Drop`: a storage error, or the client hangs up).

### Properties, run and bounds

* `TrustIsConfirmed`: whatever overlaps, the file only ever names a key the owner has
  confirmed;
* `RunningHasRun`: the row says `discovery_running` only while there is a run;
* `SerialIsTrustworthy`: as long as requests do not overlap, a host shown as verified has
  its key in the file, and one shown as connected has been logged in to at its present
  address with its present credential, whatever keys rotate, handlers are dropped and
  processes restarted;
* `SecretsAccounted`: no file without a descriptor but for a creation cut short, no
  descriptor without a file before a host is deleted.

`host_connection`: two addresses with a key each, two credentials of which one is a
password, two requests in flight of at most five, one rotation, one restart (1.8 million
states). Five requests are a test, a confirmation, a second test, an edit and whatever
races with them. OpenSSH looks a key up by address and `russh` compares the fingerprint
only; instances with two key files or two passwords hold as well.

### What is proved

`HostConnectionProofs` proves, for any addresses, keys, credentials, number of requests
and bounds:

| theorem | statement |
|---|---|
| `HostInvariant` | `Spec => []IInv` |
| `TrustInvariant` | `Spec => []TrustIsConfirmed` |
| `RunningInvariant` | `Spec => []RunningHasRun` |
| `SecretsInvariant` | `Spec => []SecretsAccounted` |
| `SerialInvariant` | `Spec => []SerialIsTrustworthy` |

*The argument.* `RunningHasRun` is inductive beside the types; the others are not.
`TrustIsConfirmed` needs that a confirmation on its way to the file carries a key its
owner has named (`ConfirmationsAreNamed`). `SecretsAccounted` needs that a creation in
flight has a credential of its own (`CreationsAreFresh`) and that each credential the row
or a copy names is listed (`CredentialsListed`) and has its file until a deletion
(`SecretsStay`). `SerialIsTrustworthy` says nothing of what a request does half-way;
`Serial` does: while requests did not overlap there is at most one at work and none
beside a discovery (`Alone`), its copy agrees with the row in everything that is
trusted, and each statement it has reached says what the file, the candidate and the
row hold by then (`RequestInOrder`).

### What the model shows beside the properties

* `SerialIsTrustworthy` needs its condition. "An edit clears the old result"
  (`README.md:22`, `docs/09:543`) is not so when a test or a discovery is in flight: both
  write `hosts.status` by the host's id, with what they found at the old address.
* Two edits in flight: the second writes the fields its request left out from the copy it
  loaded, and undoes the first.
* A test whose handler is dropped leaves `fingerprint_fetching`; only another test
  replaces it.
* Recovery sets `connection_ready` for every host with an active run (`m1.rs:62`), also for
  one whose row was edited while the discovery ran.
* The deletion of a host removes the secret its row names (`data_management.rs:350`) without
  asking whether another host names it too; hence the condition in `SecretsAccounted`.

Left out: the contents of secrets, receipts (see `CatalogMutations`), the session itself
(see `DeploymentCatalog`), SSH timeouts other than as a failed login.

## 8. DeploymentCatalog

### State and actions

`world` is what exists on the host, `session` the discovery in flight with what it has
listed and where it failed, `run` the rows of `discovery_runs` with their evidence,
`catalog`, `target` and `link` what is derived. A command of the session is an action
(`DockerStep`), and so is its failure; each failure may be recorded with exit code 0 where
the code asks for it. `Ready` is the coverage that is computed from failure and audit.
`PersistSuccess` is the whole transaction: what was listed is fresh, what a ready
provider did not list is stale, with its targets and links; what belongs to a provider
that is not ready is unavailable. `prune_complete_runs` is a task of its own that any
later discovery may overtake.

### Properties and runs

* `TargetsFollowDiscovery`: a target its owner has not set since agrees with the last
  conclusive observation of its deployment;
* `EvidenceKept`: the newest successful runs keep their evidence whole;
* `FailedProviderProvesNothing`: a provider whose own command failed, could not be parsed or
  was not run makes nothing stale.

| run | what it asks | result |
|---|---|---|
| `deployment_catalog` | the three properties | holds |
| `catalog_missing` | `MissingIsProven`, the comment on `persist_discovery_success_in` | violated |

*Bounds.* One deployment of each provider, one link whose readiness is another
provider's than its deployment's, one target; three discoveries, since the third prunes
behind the second with `Retained = 1`; one change on the host, two writes of the owner,
one restart (3,755,592 states). Every command of a session that decides readiness
may fail in each discovery.

### What is proved

`DeploymentCatalogProofs` proves, for any deployments, links and targets and any bounds:

| theorem | statement |
|---|---|
| `DiscoveryInvariant` | `Spec => []IInv` |
| `DiscoveryTypes` | `Spec => []TypeOK` |
| `EvidenceInvariant` | `Spec => []EvidenceKept` |
| `TargetsInvariant` | `Spec => []TargetsFollowDiscovery` |
| `FailuresProveNothing` | `Spec => FailedProviderProvesNothing` |

*The argument.* A session is at one of its six commands, and what it failed at is one of
them (`SessionInv`). From the position of the failed command follows which lists had
been read, and so that readiness never includes a provider that is unproven
(`ReadyIsProven`); only what a ready provider lists can become stale. For the targets,
a deployment with fresh evidence is not stale (`CatalogInv`), and the transaction of a run
moves each target together with its deployment. For the evidence, a run that is pruned is old
for good: runs are only appended, end, or lose their evidence when `Retained` newer ones
have succeeded (`Ages`), so the successes newer than a run only grow. What a pruner still has
to do is therefore always among the old runs, however many discoveries overtake it, and
the run whose items it deletes is a summary already (`PrunersInv`). A pruner takes the
runs of its list newest first; the model keeps the list as a set.

### Finding

A docker session that fails drops all its evidence, the lists it had read included, yet
a provider whose own command had succeeded before is called ready
(`coverage_for_failure`). A failed `compose ls` therefore makes every standalone container
stale, and a failed listing of containers or images every compose project, though both
are still running: an empty list is taken as the proof of absence it would be after a
success (`docs/09:596`: ready with no observations is an empty success). The next complete
discovery brings the rows back.

### What the model shows beside the properties

* A deployment that was stale and is seen again becomes `unassigned` even if it is bound to a
  project, and the default view leaves it out (`catalog_api.rs:1749`, `docs/13:119`).
* The state `ignored` of deployments and the link states `confirmed` and `user_declared` exist
  in the schema; nothing in the code writes them.
* An observation of an unknown deployment has no `observed_at`, and sorts behind all others
  (`m1.rs:2795`).
* A failing prune is logged and not repeated before the next successful run.

Left out: the draft of a rescan, which is in `ProjectionDraft`; the contents of evidence;
the names of the run states that count as success.

## 9. HealthEvaluation

### State and actions

`policies` are the versions of the host's policy, `run` the monitor runs with the version
they are pinned to, `receipts` the rows of `health_evaluations` per version of the policy, in the
order in which they are read. `Finish` is the transaction that ends a run and records its receipt; its time
`at` was taken before. `Claim` may be of an earlier tick than the present, and skips an
occupied host with a receipt of the tick's time. So a receipt may be committed behind a
later one. `Debounced` translates `debounced_status` and its helpers: how many receipts
before call for an alarm, or for its release, until a gap.

### Properties, run and bounds

* `OneReceipt`: a run has one receipt once it ended, however it ended, and under the policy it
  was admitted with;
* `HealthyIsCurrent`: a host is healthy only on the word of the last receipt under the policy
  in force, by a run that saw all that is required and has not expired;
* `GreenBandHidesNothing`: a band is green only if each slot due in it was observed on
  time; slots passed over stay gaps. A window ends at the present or, at a boundary of
  its bands, there, and leaves out the receipts of that very instant: then it may
  count a gap too many, never one too few;
* `AlarmsAreDebounced`: no alarm without `enter_count` successive observations that call for
  it, no release without `recover_count`, each of them valid when the next is made. The
  run that finds slots passed over raises nothing; it releases at once.

`health_evaluation`: three runs, two versions out of three policies (an alarm that takes
two observations, a release that takes two, a disabled one) and a fourth that is refused
because its streak is over ten, three instants, seven
samples (3,356,592 states). Three runs are the least with which a streak of two can
have a receipt between, before or behind it. An evaluation reads the last twenty receipts;
the model reads all, which is the same because `PutHealthPolicy` stores a policy only if its
counts are at most ten (`Valid`).

### What is proved

`HealthEvaluationProofs` proves, for any policies, conditions, required conditions, samples,
runs, intervals and validity:

| theorem | statement |
|---|---|
| `HealthInvariant` | `Spec => []IInv` |
| `HealthTypes` | `Spec => []TypeOK` |
| `EndedRunsHaveOneReceipt` | `Spec => []OneReceipt` |
| `HealthyHostWasSeen` | `Spec => []HealthyIsCurrent` |
| `GreenBandsHaveNoHole` | `Spec => []GreenBandHidesNothing` |
| `AlarmsFollowTheirPolicy` | `Spec => AlarmsAreDebounced` |

*The argument.* Runs answer different slots, all on the grid and before the due time
(`RunInv`). The receipts of a version are ordered by their times, are of different runs that
ended and were pinned to that version, say what their runs saw and nothing when they saw
nothing, and miss no run that ended (`ReceiptInv`, `Faithful`). Inserting one behind later
ones keeps all of that, though it may change what they follow. A band is green only
through as many receipts as it has slots; as they answer different slots, no slot is left
over, by counting. For the alarms, the streak that `Debounced` counts is a run of adjacent
receipts, of whatever length: it ends before the first receipt that breaks it, which is the
minimum of a set of positions, so no induction over receipts is needed.

### What the model shows beside the properties

* `docs/14:597` says that a gap interrupts a streak, and the comment on a run that caught
  up says that it is "a fresh observation, not continuity across the unobserved due
  slots" (`monitoring_health.rs:923`). The code keeps to that for this one run. The next
  run looks at the receipts before the missed slots as well, as long as each is valid
  when the next is made (`monitoring_health.rs:1046-1066`), and no receipt records that
  slots were missed before it: with `stale_after_seconds` longer than the interval,
  observations on both sides of missed slots are one streak. So an alarm that takes three
  observations may be raised by one before the missed slots, the catch-up, and one
  after. `AlarmsAreDebounced` says what the code does and not what the document says:
  only a receipt that has expired parts the observations before and after it.
* An older receipt has kept the ratio of a filesystem and not its available bytes, so the
  limit in bytes counts for the present observation of a release only.
* A receipt that commits behind that of a skip, which is valid at no time, has no history.

Left out: the difference between queued and running, which is in `Observation`; the
numbers behind the thresholds, of which the model has the bands.

## 10. EventStream, CatalogMutations and MutationLog

### State and actions

`EventStream` is the way of a change to the page. `Publish` inserts an event and prunes
the oldest; `Notify` stands for the publishers outside this module. The stream reads
events in batches from its cursor (`Poll`); a browser that reconnects names the last
event it has seen, or nothing (`Connect`), and is sent a reset if that is too old. An
event sets the page's timer if the page has a listener for its kind (`Deliver`,
`app.js:519-522`); when the timer runs out and nothing is loading, a refresh begins
(`Fire`), which reads the snapshots the view is drawn from (`Read`), or fails to, and
shows them (`EndRefresh`). Meanwhile the owner may enter a view that asks for a refresh
of its own (`Visit`), or go to a route that does not (`Move`). An event is published
with the commit it is about or after it, so the model keeps of a snapshot the cursor
that was the newest when it was read, and not what it says. `passed` is a history
variable: the events that were pruned before the reader was sent them.

`CatalogMutations` adds publishers. A catalog handler goes through `Replay` (the
receipt, outside the transaction), `Check` for a binding, and `Commit` or `Refuse`;
`Finish` is the middleware behind it, which may publish a second event. A client that is
not answered sends the request again, with the same key and the same body, and
`If-Match` may be any revision that a client was ever shown. This frontend sends no
catalog mutation, and its snapshots show no row of the catalog: handlers and page have
nothing but the events in common.

`MutationLog` is the abstract specification: a mutation takes effect at most once, on
the revision that its resource has, and each success answered is that effect.

### Properties, run and bounds

* `ImplementsMutationLog`: the handlers refine `MutationLog`;
* `CaughtUpIsCurrent`: a page that was sent the last event and has nothing left to read
  shows what was read after the commit of every event it listens to, or that it could
  not be read; events come while it reads, are pruned, and are lost with connections,
  and requests overtake each other;
* `StreamCatchesUp`: in the end it does, unless the owner left the route of a refresh or
  the browser has given up on the stream.

`catalog_mutations` has two kinds of behaviours (597,014 states). In one, an update, a
creation, a link, an unlink and a binding are sent three times in all, retries included,
to two handlers; three sends are the least for a mutation, its retry and a mutation
between. In the other, up to five events of a kind with a listener and of one without
are published, two are retained and one is sent at a time, a connection breaks or is
refused, and the owner goes elsewhere once: with two retained, a cursor falls out of the
range while it waits, and five outrun both the page and its refresh. `Apart` keeps the
two from being multiplied with each other. Nothing is lost by it: a handler's steps read
nothing of the stream or the page, and all they do there is publish, which `Notify` does
at any time. The proofs are about all behaviours. `StreamCatchesUp` is examined on the
second kind.

*Fairness.* The browser reconnects, the stream's timer and the page's run out, the
page's requests end. There is none on requests, handlers, publishers, breaking
connections or the owner.

### What is proved

`CatalogMutationsProofs` proves, for any projects, businesses, links and agents, any
requests, handlers, retention, batch and number of events:

| theorem | statement |
|---|---|
| `CatalogInvariant` | `Spec => []IInv` |
| `CatalogTypes` | `Spec => []TypeOK` |
| `CatalogImplementsMutationLog` | `Spec => ImplementsMutationLog` |
| `CaughtUpInvariant` | `Spec => []CaughtUpIsCurrent` |

The assumptions are those named in the two modules; `CreationsAssumption` says that a
creation makes a row of its own, as its id is a new UUID.

*The argument.* The abstract revision of a resource is the number of its entries in the
log, while the code writes the `If-Match` revision plus one, or one, or the revision of
the archived link plus one. They agree because the row counts the entries
(`RevisionsCount`), because the transaction compares the base with the row, and because
a creation without a receipt finds no row (`CreationsPending`). At most once follows
from receipts and log naming the same requests (`ReceiptsLogged`), and what is answered
is a receipt (`AnswersReceipts`), also when it was read outside the transaction, since a
receipt is never replaced.

For the page, take an event it listens to and that was not passed over. If the page has
been told of it, then the page shows it, or is about to read it: the timer is set, or
the refresh under way will read, or has read, after it (`ToldIsDue`). If it has not been
told, the event is behind the cursor of a connection that is open and will be sent
(`Connected`), or the page's last id lets the next connection send it or a reset instead
(`PassedBefore`). A reset is as good as each of the events it stands for, as the page
reads its snapshots again after one. So an event that is pruned while the connection is
closed is not passed over, unless the page has no id to come back with
(`NewPageMisses`).

### What the model shows beside the properties

* The page has no listener for `project_agent.changed` and for the events of monitoring
  (`app.js:519-522`), so a binding, or the end of a monitor run, refreshes nothing
  although the view of the hosts shows monitoring.
* `docs/09:214` says that a missed notification is made good by reconnecting, by
  refreshing, or by the next event, and `docs/09:348` that the snapshots are read again
  after a disconnection. A connection that is made again refreshes nothing by itself:
  the page is sent what is behind its cursor, or a reset. A reader that is connected and
  more than 2000 events behind, or that has seen no event yet, is not sent the events
  pruned meanwhile, nor a reset (`events.rs:224`); the next event of a kind it listens
  to makes that good.
* A refresh whose route has changed, without a new request, shows what it has read and
  returns with the page still loading (`app.js:922-996`). While it is loading an event
  only sets the timer again (`app.js:536-548`), so from then on no event starts a
  refresh, until the owner enters a global view or asks for one.
* A browser does not come back by itself when its request for the stream is refused, as
  it is when the session has expired.
* The middleware has no event for the paths of businesses and their links
  (`events.rs:162-205`), so for them the event in the transaction is the only one; a
  replay of another mutation publishes once more. An event whose publication fails
  behind a commit is lost, as `docs/09:212` says.
* A binding looks at the project before its transaction: a project archived in between
  gets an agent, though `docs/16:83` says that it cannot.

Left out: the first projects of a new business (`initial_project_ids`), deployment
targets (see `DeploymentCatalog`), audits, sessions and limits on requests, and the
deletion of a workspace, which deletes its events. A snapshot that fails while the one
the view is drawn from is read is not reported to the owner.

## 11. What is proved, and what is not

Proved for all values of the constants: every safety and action property of the modules of
sections 2 to 10, their types, and both refinements. `ActiveRunOwned` is proved
for the faults it is stated for, that is none. Each inductive invariant was checked with
TLC on the instances above before it was proved. The proofs rest on the assumptions that
the modules name, which TLC evaluates for each instance.

Model-checked only: liveness under fairness (`RunsEnd`, `DeletionEnds`, `DrainEnds`,
`EventuallyCompacted`, `CompactorRecovers`, `StreamCatchesUp`), which needs `ENABLED`, and the
prover does not have that.

## 12. Not modelled

* Owner session, throttling, audit, CSRF and origin checks (`auth.rs`): each decides one
  request from rows it reads in that request. Worth a module next: attempts are counted
  and the limit is compared in separate statements, and an audit record is written after
  the handler has committed.
* The test of a model configuration (`model_provider.rs`) and the tools of a project agent
  (`project_agent.rs`): they read, await and record. The first calls the provider as
  `OnboardingSession` does.
* The receipt of a deletion, which is stored after the cascade, and gauge rollups, which
  are folds without state between partitions.
* History queries, snapshots' differences, the parsers of `/proc` and of provider output: pure
  functions of one input without interleaving; a model of them would be a second
  implementation.
* Storage, migrations, contracts and fixtures: the schema's constraints appear as guards.
* The frontend but for its refreshes after events and its decisions on proposals; deployment, scripts.

## 13. Plan

1. `OwnerSession`: attempts, lockout, expiry, and the audit behind a commit.
2. The receipt of a deletion beside `Observation`: a retry after a crash in the cascade.

## 14. Conventions

A definition named `X_Y` is `X` with the defect `Y`, beside the definition it spoils;
nothing refers to it. It serves to see that a property fails when the code is wrong in
that way. `CHECK_DEADLOCK FALSE` is in every configuration: requests, updates and
restarts are bounded, so each instance may come to rest.

To repeat a check: `tlc -config ObservationSafety.cfg MCObservation`, and
`tlapm ObservationProofs.tla`; the same for the other modules whose names end in `Proofs`.
