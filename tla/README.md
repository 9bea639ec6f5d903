# SceneWorks: formal model of the job system

SceneWorks generates and trains images, video and audio on local GPUs. A web or
desktop client posts jobs to the API process (`apps/rust-api`). The API keeps
them in a durable SQLite queue (`crates/sceneworks-core/src/jobs_store.rs`).
Worker processes (`crates/sceneworks-worker`) poll the API over HTTP, claim one
job at a time, heartbeat while they run it and report its outcome. The API
streams the state of the queue to the browser, scans dataset catalogs in the
background, and shares a cache of resolved model bundles with the workers. Any
of these processes can crash, restart or stall at any point. This directory
models the queue and the parts around it in TLA+, checks the models with TLC and
proves their central properties with TLAPS.

## Inventory

| Part | Code | Here |
| --- | --- | --- |
| Status vocabulary | `contracts.rs` | `JobStatus` |
| Claim routing and dispatch | `jobs_store.rs` (claim, deferral, scoring) | `ClaimRouting` |
| Durable job queue | `jobs_store.rs` | `JobsStore`, implementing `JobLifecycle`; `JobsStoreProofs`, `JobsRankProofs` |
| Job and worker HTTP handlers | `rust-api/src/jobs.rs`, `workers.rs` | their store calls in `JobsStore`, their publications in `JobEvents` |
| API startup recovery | `rust-api/src/lib.rs` | `JobsStore!Startup`, `VectorWorkflow!RestartApi` and `Recover`, `JobEvents!ApiRestart` |
| Worker loop, keepalives, dispatch | `worker_loop.rs`, `lib.rs`, `progress.rs`, `utility_dispatch.rs` | `JobsSystem`, `JobsSystemProofs` |
| MLX worker recovery | `mlx_worker_recovery.rs` | `JobsSystem` |
| Worker supervisor | `supervisor.rs` | crash reports and restarts in `JobsSystem` |
| Prompt-to-vector workflow | `rust-api/src/generation.rs` | `VectorWorkflow`, `VectorWorkflowProofs` |
| Terminal side effects and their recovery | `rust-api/src/jobs.rs` | handoff bit in `JobsStore`, turn-taking in `JobEvents` |
| Live event stream and the browser's job list | `events.rs`, `useJobEvents.js`, `App.jsx`, `appHelpers.js`, `sorters.js` | `JobEvents`, `JobEventsProofs`, `JobUpdatesProofs` |
| Catalog scan supervisor and scanner | `catalog_scan_supervisor.rs`, `catalogs.rs`, `catalog_parquet_scanner.rs`, `catalog_store.rs` | `CatalogScan`, `CatalogScanProofs` |
| Resolved model cache | `resolved_cache.rs`, `resolved_cache/` | `ResolvedCache`, `ResolvedCacheProofs` |
| Caption watcher | `rust-api/src/ideogram.rs` | its store steps in `JobsStore` |
| Downloads and receipts, generator cache thread, film harness, tickets | | not modelled |
| Document stores, media pipelines, desktop shell, MCP server | | not modelled |

The interaction that carries the correctness of the system is the one between
the queue, the workers and the API's background tasks: all of them write the
same two tables, through separate transactions. The other three parts are
protocols of the same kind, over other shared state: publications and snapshots
over a browser's list, passes and requests over a catalog's lease, processes over
a cache entry's files. `PROJECT.json` lists every part, the ones left out
included, each with the reason, and the hazards of the code with the properties
that cover them.

## How the store is modelled

Every store method takes the process-wide store lock and runs in one
`BEGIN IMMEDIATE` transaction. A method is therefore one atomic action. A
request handler that makes several store calls (a claim request makes seven) is
several actions, and steps of any other caller may fall between them.

`jobs` and `workers` are functions from the rowids and worker ids present to
rows. A job row keeps the columns the control flow depends on: status, requested
and assigned GPU, queue rank, worker, whether it was ever heartbeated, the cancel
flag, attempts, the side-effect handoff bit, `cleared_at`, and whether the
projected routing facts are current. Type, project, model and eligibility are
abstracted to the job's *shape*, a constant the routing constants classify:
`MlxShapes` are the MLX-eligible ones and `DeferredShapes` those of them that one of
the five `should_defer_*` rules keeps for the mlx worker (video upscales have no
such rule). Time
is one bit per worker: `seen` turns false when `last_seen_at` falls behind the
stale-worker timeout. Progress figures, messages, results and metrics are left
out.

The callers are left open. Any worker may send any heartbeat or report its
binary can send, at any time, in any order. What holds here holds under crashes,
retries, duplicated or delayed requests and zombie workers alike, because each
of those is some interleaving of store calls.

### Store methods and actions

| Code (`jobs_store.rs`) | Action |
| --- | --- |
| `create_job`, `retry_job`, `duplicate_job` | `CreateJob`, `RetryJob`, `DuplicateJob` (all through `Insert`) |
| `promote_pending_caption_job` | `PromoteCaption`, `DegradeCaption` |
| `update_pending_workflow_payload`, `promote_pending_workflow_job`, `terminate_pending_workflow_job` | `UpdateWorkflowPayload`, `EnqueueWorkflow`, `TerminateWorkflow` |
| `cancel_job`, `cancel_pending_jobs` | `CancelJob`, `CancelPendingJobs` |
| `prioritize_jobs` | `PrioritizeJobs` |
| `clear_job`, `clear_terminal_jobs` | `ClearJob`, `ClearTerminalJobs` |
| `register_worker`, `heartbeat_worker` | `RegisterWorker`, `HeartbeatWorker` |
| `mark_stale_workers_interrupted`, `fail_worker_job_terminated` | `SweepStaleWorkers`, `FailWorkerJobTerminated` |
| the five `fail_*_jobs` sweeps | `FailStrandedMlxJobs`, `FailUnsupportedMlxJobs`, ... |
| `claim_next_job_routed` | `ClaimNextJob`, with the operators of `ClaimRouting` |
| `update_job_progress_internal` | `UpdateJobProgress` |
| `replace_job_result_after_progress` | `FinishSideEffects` |
| `initialize`, retention purge, `mark_interrupted_on_startup` | `Startup` (one action: no request is served before it ends) |

A call that is refused (a terminal row, a foreign owner, the attempt limit)
changes nothing and is a disabled action. A promotion of a workflow parent is two
transactions in the code and two actions here.

### What the store promises: `JobLifecycle`

`JobLifecycle` is the queue without routing, heartbeats or a database: a
submitted job waits, is started at most once, by one worker, on a device nobody
else holds, settles once with an outcome that never changes, and may then be
purged. `JobsStore!RefinesLifecycle` maps a row to its `life`: the pending
statuses are `waiting`, the active ones `running` with the row's worker and
physical device, the terminal ones `settled`. A batch sweep or a restart settles
many jobs in one transaction, which is why `Settle` speaks of all jobs at once.

## The worker processes: `JobsSystem`

`JobsSystem` extends the store with one process per worker id. `pc[w]` is where
the process is (`down`, `crashed`, `start`, `poll`, `run`, `done`, `stopping`,
`stopped`, `leaving`, `overrun`, `lingering`) and `held[w]` the job it executes,
which may well differ from what the tables say; `begun` remembers every job some
process began. Its actions follow `run_worker_loop` and
`run_utility_job`: register, idle heartbeat, claim, busy heartbeats and progress,
the final report, the closing idle heartbeat; shutdown with its grace period,
the `canceled` report and the offline heartbeat; crashes, with a supervisor that
reports them (`Supervised`) or without one. A job function that has not returned
when the grace period ends is dropped, but the GPU work it put on a blocking thread
is not: the process goes on computing (`overrun`) while it reports the job canceled
and itself offline, and exits only when that work returns (`lingering`,
`LingerEnds`).

An MLX process may be poisoned by a job of `PoisonShapes` (a Metal fault the
runtime cannot recover from). It then computes nothing more: it repeats the
failure report of its job until the API has it on record (`PersistFailure`,
`PersistAnswerLost`, `PersistRetry`), and only then exits for its supervisor to
replace it (`Recycle`); a shutdown ends the loop (`PersistStop`).

`Lossy` names the kinds of calls that may be lost: the claim's answer, the final
report (and the failure report after it), periodic heartbeats, closing heartbeats.
`EarlyLoss` says whether a job can be lost between its claim and its first
heartbeat. The two are parameters because the answers differ: what
a process executes is checked with everything allowed, device sharing with
heartbeats that arrive, settlement with `EarlyLoss = FALSE` as well, and the
findings show what early loss does.

## The composed workflow: `VectorWorkflow`

A prompt-to-vector request makes a parent that waits (`pending_workflow`) for the
image of an ordinary raster child. `creator`, `coord` and `cascade` are the places
of the request handler, the coordinator and the cancel handler of a parent;
`asset` is the hidden intermediate image. A parent's payload is `bare`, `linked`
(child id attached) or `resolved` (image attached), which is all the coordinator
and the cleanups look at. An image is written by a progress report that carries it
(`Report`, `PublishTick`), by the terminal side effects (`PublishAsset`), or by both;
`named` says that the child's result has its id, and a copy written after a purge is
`restored`.

`RestartApi` ends all tasks and runs the store's startup. `Recover` is the task that
`spawn_vector_prompt_workflow_recovery` starts: it runs beside the request handlers,
and may list a parent created since. Such a parent has two coordinators, one per
member of `Spawners`; `doubled` remembers it.

## The live view: `JobEvents`

One job, one browser. `row` is the job's row with its revision, `pubs` the
publications that handlers have still to make (a handler commits first and
publishes later, so two handlers may publish in either order), `hub` the broadcast
buffer, `conn` the event-stream handler, `client` the browser. A slow browser
falls behind a full buffer and its stream is closed. The handler of a new stream
subscribes, reads the barrier, lists recent jobs, the jobs the browser named, and
the cleared ones: five steps between which anything may happen. The browser's
state is what it shows, the last revision whose effects (toasts, gallery
refreshes) it applied, the tombstone of a clear, and the revision of its last
snapshot.

`settling` says whose turn it is to apply the side effects of a terminal report:
the request that accepted it, or the recovery loop. Not every commit is published.
`Heartbeat` and `EffectsDeferred` raise the row's revision in silence, and in
`UpdateUnpublished` a handler commits and returns before it publishes: the asset
writes of a progress tick fail (`jobs.rs:2186`), a claim fails after its sweeps
settled the job (`jobs.rs:193`), a cancel's cascade fails (`jobs.rs:427`), or a
workflow cancels the child it could not link (`generation.rs:1345`). `owed` is the
revision that the open stream owes its browser: the row's at the subscription, and
that of every later commit whose handler goes on to publish.
`crowded` says that newer terminal jobs have pushed this one out of the recent
list; it is off while a handler has yet to list.

## The catalog scan: `CatalogScan`

One catalog. `control` is what the user wants, `progress` what is published,
`ckpt` the durable checkpoint, `lease` the cross-process processing lease, `task`
the scan task (at most one: the catalog id is a single-flight key, and a request
that finds a live task leaves `restart` with it), `sup` the supervisor, `pend`
the requests between their commit and their spawn. A batch commits rows,
checkpoint and progress in one transaction and is one step. Faults are crashes,
graceful shutdowns with their drain, foreign lease holders, contention, errors
and panics of a pass.

## The model cache: `ResolvedCache`

One entry and any number of processes. On disk: two journal slots and which of
them is the newer, the tombstone of an eviction, the bundle directory, the
complete receipt, and whether a content receipt (an earlier verdict on the bytes,
redeemable while the files' stat identity stands) spares a load the hash. Each
process has one maintenance operation and one load under way. Operations are
split at their durable writes, so a process may die between any two: reserve,
clear, copy, publish, receipt, complete; verify and lease; scan, hash, prove and
decide of the automatic retention; removal file by file, in any order. The metadata
and artifact locks are predicates over the operations under way and vanish with
their process, as advisory file locks do. The source library is attached or not
and takes versions. `Faults` damages the entry once: the bundle is written to
(`Alter`, which voids the content receipt), its bytes decay without a write (`Decay`,
which does not), a journal slot or the tombstone rots.

## Runs

| Run | Instance | States | Shows |
| --- | --- | --- | --- |
| `store` | 2 jobs, mlx and mps workers, all store methods | 349 thousand | `GpuExclusive`, `Ownership`, `NoResurrection`, `RefinesLifecycle` |
| `store_mlx` | 1 job of any shape and pending status on an MLX-required Mac, every heartbeat | 221 thousand | `MlxRunsOnMlx` |
| `store_offmac` | 2 jobs on a CUDA host; promotions, retries, duplicates, off-Mac sweeps | 816 thousand | `PromotedRanksDistinct`, `PrioritizeKeepsOrder` |
| `system` | 2 processes, 2 jobs, 1 stop, every call lossy, poison | 1.4 million | `ExecutesOwnJob`, `ExecutedOnce`, `RecycleAfterFailure` |
| `system_live` | 2 processes of which one may never return, 1 stop, lossy reports and closing heartbeats, poison, health deferral | 204 thousand | `DeviceSharedByNone`, `EveryJobSettles`, `PoisonedRecycles` |
| `workflow` | 2 rows, 1 worker, 2 API restarts anywhere, a recovery task after each start | 248 thousand | `PromotedWhole`, `SourceImageKept`, `WorkflowTended`, `CancelIsFinal`, `WorkflowSettles` |
| `cache` | 2 processes, 2 source versions, 1 interruption, 1 piece of damage | 1.6 million | `CacheTypeOK`, `ServedWhole`, `LeaseProtected`, `OwnerUndisturbed`, `PinHonoured`, `ReceiptBacksComplete`, `SoleCopyKept` |
| `cache_live` | 2 processes, 1 interruption, 1 detach, fairness | 439 thousand | `PendingEvictionFinishes` |
| `events` | buffer of 1, one heartbeat, update (published or not) or foreign publication, 1 fault | 2.6 million | `EffectsOnce`, `KnownClearsHold`, `NoUpdateLost`, `NeverRegresses`, `TransitionRuns`, `Converges` |
| `catalog_scan` | 2 batches, 1 retry, 3 faults | 180 thousand | `LeaseFollowsDriver`, `AcceptedResumeHeld`, `CompletedBacked`, `ShutdownPublishes`, `CheckpointKept`, `FailureStays`, `ScanSettles`, `PauseSettles` |

Two further runs, `abandoned_claim` and `workflow_facts`, are expected to fail:
each states what a comment of the code says and shows a behaviour of the code
that contradicts it; see Findings. Deadlock is not checked: clients may stop
asking, every bound ends, and a process may be stopped for good.

`DeviceSharedByNone` needs the periodic heartbeats to arrive: a process whose
heartbeats are lost for the whole timeout is swept while it still computes, and
the device is handed out again. That is the timeout's meaning, and why the
property is checked in the run without lost heartbeats. It excepts by name a process
that is past the grace period of its shutdown: the device is free in the table then,
and its blocking work still runs.

`ExecutedOnce` is an action property over `begun`: a step that puts a job into the
hands of a process is the first such step for that job, also when the process that
began it has died and another runs under its id. An interrupted job is never
executed again; a retry is a new row.

`MlxRunsOnMlx` speaks of the shapes in `DeferredShapes`. `SourceImageKept` excepts a
parent that ever had two coordinators, and `WorkflowTended` an image that was purged
and written again. `ServedWhole` lets a load hand out other bytes than the recorded
ones in one case: they decayed without a write after they were hashed, by this load
or by the pass whose content receipt it redeems. The code bounds the age of that
receipt to a day (`resolved_cache.rs:60`); the model has no clock and lets it expire
at any time or never.

`EveryJobSettles` and `PoisonedRecycles` except a *wedged* process: a poisoned one
whose job was settled behind its back. An API restart after its unhealthy
heartbeat interrupts the job; every failure report is then refused, and the code
retries a refusal as it does a lost report, until the process is shut down.

`Converges` says that the browser comes to have what it is owed for good: that a job
is over, and of a live job every announced revision. It may lag behind heartbeats
and behind commits that nobody published, until the next publication about the job
or the next snapshot. `NoUpdateLost` is its safety half: at every moment a browser
whose stream is open has what it is owed, or an update that has it is queued for it,
or is due when the side effects of the job's end have been run. Likewise
`WorkflowTended` is the safety half of `WorkflowSettles`: a task is at work for
whatever of a workflow is unfinished, the image of a parent that ended without
using it included. It speaks of images attached to their parent; a child that
completes after its parent was canceled publishes an image that no task knows of
(see Observations).

### Bounds

Two jobs and two workers are the least with which two claims compete for one
device, a job waits behind another, and a sweep of one worker meets a report of
the other; rules about single rows need one job only, which is why the many
shapes, statuses and heartbeats of `store_mlx` are explored with one. `MaxAttempts`
is 1 in `store`, so the limit is met at once. `MaxRank` bounds promotions, `MaxStops`
crashes and shutdowns, `MaxRestarts` API restarts; one stop lets a process die at
any point and return under its id while the other takes over. In `store` the jobs
are created within one second and random ids sort against insertion, the worst
case for every tie-break; in `store_offmac` they are created in different seconds,
which `PrioritizeKeepsOrder` requires (see Observations). Two rows are one
complete workflow, or two parents without a child; tasks of different workflows
share no state but the queue. The safety properties of `workflow` (not
`WorkflowSettles`) also held with three rows, in 7.5 million states.

In `cache`, two versions tell a rewritten source from the recorded one, one
interruption is a death or a failed removal at any point, and one piece of damage
is enough because what the code promises under damage is stated for one. The
two processes are interchangeable (symmetry; not used with liveness).
`MaxDetaches` is 0 there and 1 in `cache_live`: a detach only matters to the
reading of unfinished records, which is what `PendingEvictionFinishes` is about.

In `events` a buffer of one is full after every publication, so that each of them
can be the one that is lost; a create, a terminal report with its side effects, a
clear, and one more heartbeat, update or publication about another job make every
pair of publications overtake each other; the fault is a broken stream, an API
restart or a deferral of the side effects. In
`catalog_scan` two batches put a pause or a crash between two commits, one retry
has both a retry and its exhaustion, and three faults let a crash, a contention
and a foreign holder meet.

The theorems do not depend on these bounds.

### Fairness

`SystemFairness`: a process that is up goes on with its loop, polls and idle
heartbeats (timers in the code); every job function returns, and so does its
blocking work; a report that is
repeated gets through unless it is refused; a worker in `Restarted` is started
again (the supervisor, or the container's restart policy); one that stays down
has been silent for the timeout at some point; the stale sweep runs, as every
claim, queue read and worker listing calls it. `WorkflowFairness`: tasks make
their next call, workers poll and report, the side-effect recovery loop finishes,
and the recovery task of a started process gets to list the parents.
`ResolvedCache!FairSpec`: an operation that was begun runs to its end, a load is
released, a dead worker is started again and opens the store (which runs
recovery), and the retention checkpoint of an idle worker comes round.
`JobEvents!FairSpec`: handlers run to their end, the recovery loop comes round, the
stream is read, and `EventSource` reconnects. `CatalogScan!FairSpec`: tasks and
supervisor run on the API's executor, a foreign holder gives the lease back, a
client keeps asking for the status (the catalog screen polls while it is shown), and
the application is started again. Nothing is assumed of other requests, crashes,
losses or damage.

## Proofs

Each proof module proves its theorems for every value of the constants, from the
named assumptions on their types (`RoutingAssumption`, `StoreAssumption`,
`SystemAssumption`, `WorkflowAssumption`, `CacheAssumption`, `EventsAssumption`,
`CatalogAssumption`), by an inductive invariant with one step per action.

`JobsStoreProofs`, for any number of jobs, workers, GPUs and shapes and for any
behaviour of the callers:

- `TypeCorrect`, `DeviceExclusion`, `OwnershipHolds`, `MlxOnly`: `TypeOK`,
  `GpuExclusive`, `Ownership` and `MlxRunsOnMlx` always hold;
- `LifeCycle`: every step satisfies `NoResurrection`;
- `Refinement`: the store implements `JobLifecycle`;
- `NoCircularDeferral`: two GPUs whose readings are in the healthy range do not
  both defer one job to each other, unless their memory usage is exactly ten points
  apart.

The inductive invariant is `IInv == TypeOK /\ Ownership /\ GpuExclusive /\
MlxRunsOnMlx`. `GpuExclusive` is not inductive alone: a claim adds a holder of a
device, which is harmless because the claimed row was queued and
`ActiveGpuJobExists` found no holder, and a report may only move a row that is
active already, which needs `Ownership` (a pending row has no worker, so no report
is accepted on it). `LifeCycle` and `Refinement` need the same fact to exclude a
pending row that a report would activate or complete, and `Refinement` needs
`GpuExclusive` to start a job only on a free device. Facts about single rows are
lemmas stated once for an arbitrary row, and every method ends in `StepOK`, which
is all that the modules below need to know of the store.

`JobsRankProofs` proves `PromotedRanksDistinct` and `PrioritizeKeepsOrder`
(`RanksDistinct`, `PromotionKeepsOrder`). `RankInv` adds that ranks lie in
`0 .. MaxRank`, so that the greatest one exists. A bulk promotion gives a row the
greatest rank plus the number of selected rows that go after it or are it; that
two rows get different ranks, and that the order is kept, rest on a strict
inclusion of finite sets having the smaller cardinality.

`JobsSystemProofs`, for any number of workers and every choice of `Lossy`,
`EarlyLoss`, `Supervised`, `PoisonShapes` and `MaxStops`:

- `ProcessOwnsItsJob`, `NoJobTwice`, `FailureRecordedFirst`: `ExecutesOwnJob`,
  `ExecutedOnce` and `RecycleAfterFailure` always hold. The invariant `SystemInv`
  is `IInv`, `ExecutesOwnJob` and `RecycleAfterFailure`, that no two processes hold
  one job, that a process has a job in its hands exactly at the places where it
  should, and that a job some process began is pending no more (`BegunLeft`), which
  is why no claim finds it again;
- `DevicesNotShared`: `DeviceSharedByNone` holds if `"beat" \notin Lossy`, which is
  what the run assumes too. `DeviceInv` adds that the tables prove what every
  computing process does (`ComputesProven`: its worker row is fresh and names the
  job, and the job is active and its own; blocking work past a grace period is proven
  by nothing, which is why the property excepts it), and that a worker row names no job that
  could become somebody else's (`CurrentOwned`). `GpuExclusive` of the tables then
  carries over to the processes;
- `SystemRefinement`: the processes, the supervisor and the API implement
  `JobLifecycle`, lost answers included.

`VectorWorkflowProofs`, for any number of workflows, workers and restarts, proves
`PromotedWhole`, `SourceImageKept`, `CancelIsFinal` and `WorkflowTended`
(`OnlyWholeParentsRun`, `SourceImageSafe`, `CancelsAreFinal`, `WorkflowsAreTended`) and that the workflow implements
`JobLifecycle` (`WorkflowRefinement`). The invariant `FlowInv` is local to a parent:
`FlowOK(p)` says what each of p's tasks knows at its place. `SourceImageKept` is
not inductive alone: a coordinator that is about to promote must find the parent
settled or the image still there (`Promotable`), and a cancel that is about to
purge must know that the parent is doomed. A parent has one coordinator or is
counted in `doubled` (`Single`). No two parents share a child (`OwnChild`), so that
no other parent's tasks touch the image.

`WorkflowTended` has an invariant of its own on top of `FlowInv`. `DutyOK(p)` follows
the duty from the handler to the coordinator: a waiting parent without a child has
not been given up by its handler, one with a child has a coordinator, and a parent
that runs or left its image has one too, or the recovery task is going to start it.
A coordinator ends only with a parent that is over, after purging what the parent's
payload names. That the first copy of an image never comes back after a purge
(`ImageSteps`: what is written again is `restored`) makes the purge final for what
the property speaks of.

`ResolvedCacheProofs` proves `LeaseProtected` (`LeasesProtected`), for any number
of processes, versions, interruptions, detaches and kinds of damage. The invariant
`CacheInv` is the lock protocol: at most one process is inside an exclusive
operation, none while a load is out, and a load that is out has a bundle of the
recorded sizes and no tombstone. The last part alone is not inductive: that nobody
unlinks it follows from the first two.

It also proves the other safety properties of the entry, for the same constants:
`CacheTypeOK`, `ServedWhole`, `OwnerUndisturbed`,
`ReceiptBacksComplete`, `PinHonoured` and `SoleCopyKept` (`CacheTypeCorrect`,
`LoadsServeRecordedBytes`, `OwnersUndisturbed`, `ReceiptsBackCompleteRecords`,
`PinsHonoured`, `SoleCopiesKept`). None is inductive, and they need each other: a pin
survives because of what the two slots may hold, the slots hold that because of
what an operation in progress knows. The invariant `EntryInv` is stated over the
record of the higher generation and the other one, and has five parts: what an
operation in progress knows of the entry (`Ground`), which records may stand beside
each other (`JournalInv`), where the pin that was asked for is kept (`Pinned`), that
no version in play is ahead of the source and the receipt not behind the journal
(`Ages`), and that none is behind what a running eviction scanned (`Scans`). `Vouched` stands
beside it: a redeemable content receipt has files to match, and no bundle or copy is
behind the complete receipt. Recovery needs it, since it may redeem a verdict in place
of a hash before it pins what it found. Most steps are settled by one lemma, since
only the process that holds both locks moves most of this.

Five of these properties speak of an entry whose source has never been detached
(`Attached`; of `OwnerUndisturbed` only the part about the journal). Without the
qualification they are false of the code, as looking for the invariant showed; TLC
refutes each with at most two detaches and two interruptions, `ServedWhole` with one
detach, five interruptions and a rotten tombstone. While a detach hides the newest
record, a recovery or a pin writes beside it, and a complete record that an
interrupted removal left behind comes to light again, of another version than the
bundle. `CacheTypeOK` and `LeaseProtected` are proved with detaches.

`JobEventsProofs` proves `EffectsOnce`, `NeverRegresses`, `TransitionRuns` and
`KnownClearsHold` (`EffectsRunOnce`, `DisplayNeverRegresses`, `TransitionsRun`,
`KnownClearsKept`), for any buffer and any number of updates, heartbeats,
publications and faults. The invariant
`EventsInv` collects every version of the row that is stored, about to be
published, buffered, read into a snapshot or on display. None is ahead of the
store, and every live version is older than every terminal one; what the browser
recorded covers the terminal row it shows and every revision whose effects ran.
The steps of the browser are lemmas on its handlers (`Moves`); the steps of the
rest only add versions of the current row (`Keeps`). `KnownClearsHold` needs
`ClearsInv`: from the moment the cleared ids are read, the snapshot names the
cleared job or the clear is still to come with a revision above the barrier, and
from the snapshot on there is a tombstone or it is still to come. The barrier
being no later than the hub's revision makes every later publication pass it.

`JobUpdatesProofs` proves `NoUpdateLost` (`UpdatesReachBrowser`) on top of these two
invariants. A row is *upheld* from a revision on if a browser that shows it and
hears the events after that revision gets what it is owed: the row has it, or an
update that has it is on its way, or the side effects of the job's
end are still to be run and published. `UpdatesInv` follows a stream from its
subscription on: the summary read first is current, or the row has changed since
and will be among the recent ones (`SummaryInv`); the snapshot put together from
the four reads is upheld from its barrier on (`SnapshotInv`); and the display is
from the snapshot on (`DisplayInv`). The property is not inductive without the
first two, because an event published below the barrier is never delivered and the
snapshot has to make up for it. A job that newer ones crowd out of the list needs
`CrowdInv`: it is over and no live version of it is on its way, so that a browser
which drops it is right.

`CatalogScanProofs` proves the safety properties of `CatalogScan`
(`CatalogTypeCorrect`, `LeaseDiscipline`, `ResumeNeverLost`, `CompletionHonest`, `DrainPublishes`,
`CheckpointNeverMovesBack`, `FailureIsTerminal`), for any number of batches,
retries and faults. `AcceptedResumeHeld` needs `ResumeStands` (what an
accepted resume committed stands until a pass reads it), and
`ShutdownPublishes` needs `RunningAnswered`: whoever leaves "running" published is
about to answer for it.

Every safety property of a passing run is proved; the type invariants of the queue
and of the scan (`TypeOK`, `CatalogTypeOK`) are part of the inductive invariants and
no run repeats them. Only model-checked are the
liveness properties (`EveryJobSettles`, `PoisonedRecycles`, `WorkflowSettles`,
`PendingEvictionFinishes`, `Converges`, `ScanSettles`, `PauseSettles`), since fairness
and `ENABLED` are outside the prover's reach. `NoUpdateLost` and `WorkflowTended` are
as much of `Converges` and `WorkflowSettles` as can be said without them. The two findings are counterexamples
and are TLC's by nature.

## Findings

- `abandoned_claim`: a job whose claim answer is lost, or whose worker restarts
  before the first heartbeat, is not reclaimed by the stale sweep: idle heartbeats
  keep the worker fresh and leave the job alone. A shutdown that drops a claim
  request under way (`ShutdownDropsClaim`) ends in the same kind of job.
- `workflow_facts`: a restart between the two transactions of a promotion ends in a
  queued row with stale routing facts, which fails every claim.

### Observations

Behaviour met while modelling that the properties except by name, or that a
reader of the comments would not expect. No run of its own shows them.

- Queue. A bulk promotion breaks ties within a second on the random id
  (`jobs_store.rs:2035`), a claim on the rowid. Two idle GPUs other than mlx, one
  loaded and one short of memory, defer the same job to each other while their
  readings last (`jobs_store.rs:5428`). A workflow parent that was never linked to
  its child waits for ever (`generation.rs:1617`). Video upscales count as
  MLX-eligible (`routing/gaps.rs:32`) but no `should_defer` rule keeps them for the
  mlx worker, so another worker may claim one on a deployment that requires MLX.
- Workflow. The recovery task runs beside the handlers (`generation.rs:1459`) and may
  give a parent created meanwhile a second coordinator; the one that promotes second
  finds nothing changed, takes the parent for canceled and purges the image of the
  parent the other has queued (`generation.rs:1668`). Terminal side effects, or their
  retry, write an image again that a cleanup purged (`jobs.rs:2186`), and nobody
  looks after that copy. A late cancel purges the image of a completed workflow
  (`generation.rs:1439`). The image of a child that completes after its parent was
  canceled is published and stays.
- Shutdown. Past the grace period the job is reported canceled and the device is
  handed out while the blocking GPU work goes on (worker `lib.rs:1780`), so that two
  processes may compute on it until that work returns.
- MLX recovery. A wedged process, as above. The terminal report itself sets the
  worker's row idle until the unhealthy heartbeat follows.
- Cache. Bytes that decay without a write are served for as long as a content
  receipt is redeemable (`resolved_cache.rs:417`); recovery may pin them too. A removal unlinks in directory order, so the tombstone may go before the
  rest and what is left reads as an entry again; loads still refuse it. If the
  source detaches between the receipt and the journal record, a fallback to
  generation 1 can be outranked by the older slot, and a pin with it; what else a
  detach brings to light is under Proofs. The properties of the journal are stated
  for an attached source. An unreadable tombstone without a complete
  receipt leaves an entry that no operation repairs.
- Events. A heartbeat and a deferral raise the revision without a publication, and
  so does a handler that fails between its commit and its publication
  (`UpdateUnpublished`): an open stream learns of it only with the next event of the
  job, a job that ended this way stays live on display until the next snapshot. A
  delayed `job.updated` that passes its clear shows the cleared job in a browser
  that connected after the clear; `KnownClearsHold` speaks of jobs the browser
  knew when it connected.
- Catalog. A shutdown that cancels the validation of the source, with which every
  pass begins, publishes "canceled" (`catalog_parquet_scanner.rs:1176`), an interruption
  without the word that `persisted_scan_recovery` looks for (`catalogs.rs:1866`). The
  scan was wanted, and it waits for a resume of the operator, although the comments at
  `catalogs.rs:1873` and `catalog_parquet_scanner.rs:298` would have the next process
  take it up; `ScanSettles` names it (`Stranded`). A status request made before the live task takes its lease leaves a
  successor that runs after a real failure, so `FailureStays` speaks of a failure
  at rest. A panicking pass is restarted at once and without a limit
  (`catalogs.rs:2418`); the model bounds panics.

## Not modelled

Numerical work, rendering, request validation, the wording of messages, metrics,
and platform I/O: the bulk of the repository is media pipelines, model adapters
and user interface, sequential code without shared state. Of the modelled parts:

- `JobsSystem`: delayed (rather than lost) calls, non-GPU jobs, the periodic GPU
  health probe, the supervisor's backoff schedule;
- `VectorWorkflow`: errors of single store calls (one ends a coordinator or the
  recovery task for good), replay validation, deletion of
  the image by the user;
- `ResolvedCache`: staging directories, the corrupt marker, derived and cancellable
  publications, audit records, the choice of what to promote;
- `JobEvents`: queue summaries and worker events, the list fetched at page start,
  the replies to the browser's own requests, the caps on tombstones and on the list
  (only their effect, `crowded`), the purge of rows, the work the side effects do;
- `CatalogScan`: detaching and deleting a catalog, invalid plans, work slots that
  several catalogs share, facets and analysis.

Parts without a module: the caption watcher, downloads and receipts, the generator
cache thread, the film harness, tickets, document stores, the desktop shell, the
MCP server.

## Next

1. The caption watcher, and delayed delivery and non-GPU jobs in `JobsSystem`.
2. Terminal side effects with the retention purge in one module.
3. Downloads with their receipts; the generator cache thread.
4. What a detached source still guarantees: the weakest forms of the cache
   properties that hold with any number of detaches.
