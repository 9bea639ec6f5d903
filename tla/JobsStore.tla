------------------------------ MODULE JobsStore ------------------------------
(***************************************************************************)
(* The durable job queue (crates/sceneworks-core/src/jobs_store.rs): the   *)
(* jobs and workers tables and every store method that changes a job's     *)
(* life cycle.  Each method runs under the process-wide store lock in one  *)
(* BEGIN IMMEDIATE transaction, so each is one action; a request handler   *)
(* that makes several store calls is several actions, and any other        *)
(* caller's may fall between them.                                         *)
(*                                                                         *)
(* The callers are left open: any worker may post any heartbeat or report  *)
(* it could ever post, at any time.  What is shown here therefore holds    *)
(* whatever the workers, the network and the API handlers do; JobsSystem   *)
(* closes the model with the worker loop.                                  *)
(*                                                                         *)
(* Time is abstracted to one bit per worker row: seen is FALSE once        *)
(* last_seen_at is older than the stale-worker timeout.                    *)
(***************************************************************************)
EXTENDS ClaimRouting

CONSTANTS
    Projects,          \* project ids
    ProjectOf,         \* shape -> project of the request
    CandleShapes,      \* job_is_any_candle_eligible
    CandleWorkers,     \* workers advertising the candle marker capability
    MacSupported,      \* mac_rust_supported is Ok
    CandleSupported,   \* candle_supported is Ok
    VideoShapes,       \* the four video job types
    MlxEnforce, CandleRequired, CandleEnforce, HostIsMac,
    InitialStatuses,   \* statuses jobs are created in
    Requests,          \* requested_gpu values
    Reports,           \* statuses the worker binary posts as progress
    Heartbeats,        \* <<status, names a job>> of the worker binary's heartbeats
    LoadedSets,        \* loaded_models a worker may report
    Utils,             \* utilization readings
    UtilsOf,           \* worker -> readings it may report, NoUtil if it reports none
    Payloads, NewPayload, \* payloads, and the one a job is created with
    MaxAttempts,       \* MAX_JOB_ATTEMPTS
    MaxRank,           \* bound on queue_rank
    MaxClock           \* bound on the wall clock, in whole seconds

VARIABLES
    jobs,     \* table jobs: rowid -> row, over the rows present
    workers,  \* table workers: worker id -> row, over the rows present
    nextRow   \* the next rowid to be inserted

vars == <<jobs, workers, nextRow>>

ASSUME StoreAssumption ==
    /\ ProjectOf \in [Shapes -> Projects]
    /\ InitialStatuses \subseteq PendingStatuses
    /\ Requests \subseteq Gpus \cup {AutoGpu}
    /\ Reports \subseteq ActiveStatuses \cup TerminalStatuses
    /\ Heartbeats \subseteq WorkerStatuses \X BOOLEAN
    /\ UtilsOf \in [Workers -> SUBSET (Utils \cup {NoUtil})]
    /\ NewPayload \in Payloads
    /\ MaxAttempts \in Nat \ {0}
    /\ MaxRank \in Nat
    /\ {MlxEnforce, CandleRequired, CandleEnforce, HostIsMac} \subseteq BOOLEAN

Row ==
    [status : JobStatuses,
     shape : Shapes,
     requested : Gpus \cup {AutoGpu},
     rank : Nat,
     worker : Workers \cup {NoWorker},
     gpu : Gpus \cup {NoGpu},
     beat : BOOLEAN,          \* last_heartbeat_at is set
     cancel : BOOLEAN,        \* cancel_requested
     attempts : 1 .. MaxAttempts,
     effects : BOOLEAN,       \* progress_side_effects_pending
     cleared : BOOLEAN,       \* cleared_at is set: hidden from the queue
     payload : Payloads,
     facts : BOOLEAN]         \* claim_payload_revision = payload_revision

WorkerRow ==
    [status : WorkerStatuses,
     current : JobIds \cup {NoJob},
     seen : BOOLEAN,
     loaded : LoadedSets,
     util : Utils \cup {NoUtil}]

TypeOK ==
    /\ nextRow \in 1 .. (MaxJobs + 1)
    /\ DOMAIN jobs \subseteq 1 .. (nextRow - 1)
    /\ jobs \in [DOMAIN jobs -> Row]
    /\ DOMAIN workers \subseteq Workers
    /\ workers \in [DOMAIN workers -> WorkerRow]

Init ==
    /\ jobs = [j \in {} |-> NoJob]
    /\ workers = [w \in {} |-> NoWorker]
    /\ nextRow = 1

-----------------------------------------------------------------------------
(* Rows and set-wide updates *)

Rows == DOMAIN jobs
Registered == DOMAIN workers

\* An UPDATE that applies F to every row of S.
UpdateRows(S, F(_)) == [j \in Rows |-> IF j \in S THEN F(jobs[j]) ELSE jobs[j]]
UpdateWorkers(S, F(_)) ==
    [w \in Registered |-> IF w \in S THEN F(workers[w]) ELSE workers[w]]

RequeuedInterrupted(r) == [r EXCEPT !.status = "queued", !.worker = NoWorker]

\* status = 'interrupted', completed_at = now, worker_id = null
Interrupted(r) == [r EXCEPT !.status = "interrupted", !.worker = NoWorker]

\* status = 'failed', completed_at = now, worker_id = null
Failed(r) == [r EXCEPT !.status = "failed", !.worker = NoWorker]

\* status = 'canceled', cancel_requested = 1 (worker_id untouched)
CanceledPending(r) == [r EXCEPT !.status = "canceled", !.cancel = TRUE]

\* status = 'queued'
Enqueued(r) == [r EXCEPT !.status = "queued"]

\* status = 'offline', current_job_id = null
Offline(wr) == [wr EXCEPT !.status = "offline", !.current = NoJob]

\* status = 'offline', current_job_id = null, last_seen_at = now
OfflineNow(wr) ==
    [wr EXCEPT !.status = "offline", !.current = NoJob, !.seen = TRUE]

QueuedRows == {j \in Rows : IsQueued(jobs[j])}

CurrentMaxQueuedRank ==
    LET ranks == {0} \cup {jobs[j].rank : j \in QueuedRows}
    IN  CHOOSE m \in ranks : \A n \in ranks : n <= m

\* select coalesce(max(queue_rank), 0) from jobs
CurrentMaxRank ==
    LET ranks == {0} \cup {jobs[j].rank : j \in Rows}
    IN  CHOOSE m \in ranks : \A n \in ranks : n <= m

-----------------------------------------------------------------------------
(* Creating jobs *)

\* create_job_on_connection: a GPU-required job cannot target the cpu; prompt
\* refinement jumps to the front of the queue.
Insert(shape, requested, status, attempts, payload) ==
    /\ nextRow <= MaxJobs
    /\ ~(shape \in GpuRequired /\ requested = CpuGpu)
    /\ LET rank == IF shape \in JumpShapes THEN CurrentMaxRank + 1 ELSE 0
           row == [status |-> status, shape |-> shape, requested |-> requested,
                   rank |-> rank, worker |-> NoWorker, gpu |-> NoGpu,
                   beat |-> FALSE, cancel |-> FALSE, attempts |-> attempts,
                   effects |-> FALSE, cleared |-> FALSE, payload |-> payload,
                   facts |-> TRUE]
       IN  /\ rank \in 0 .. MaxRank
           /\ jobs' = [j \in Rows \cup {nextRow} |-> IF j = nextRow THEN row ELSE jobs[j]]
    /\ nextRow' = nextRow + 1
    /\ UNCHANGED workers

CreateJob(shape, requested, status) == Insert(shape, requested, status, 1, NewPayload)

\* Any existing job can be retried, whatever its status; attempts are capped
\* along the chain of retries.
RetryJob(j) ==
    /\ jobs[j].attempts < MaxAttempts
    /\ Insert(jobs[j].shape, jobs[j].requested, "queued", jobs[j].attempts + 1,
              jobs[j].payload)

DuplicateJob(j, requested) ==
    Insert(jobs[j].shape, requested, "queued", 1, jobs[j].payload)

-----------------------------------------------------------------------------
(* Pending jobs: promotion, payload rewrites, cancellation, priority *)

\* Storing payload p together with claim_payload_revision = payload_revision + 1:
\* the revision trigger advances payload_revision only if the payload changed.
Rewritten(r, p) == [r EXCEPT !.payload = p, !.facts = (p # r.payload)]

\* promote_pending_caption_job with a rewritten payload.
PromoteCaption(j, p) ==
    /\ jobs[j].status = "pending_caption"
    /\ jobs' = UpdateRows({j}, LAMBDA r : Enqueued(Rewritten(r, p)))
    /\ UNCHANGED <<workers, nextRow>>

\* promote_pending_caption_job with no payload: degrade to the plain prompt.
DegradeCaption(j) ==
    /\ jobs[j].status = "pending_caption"
    /\ jobs' = UpdateRows({j}, Enqueued)
    /\ UNCHANGED <<workers, nextRow>>

\* update_pending_workflow_payload; also the first of the two transactions of
\* promote_pending_workflow_job.
UpdateWorkflowPayload(j, p) ==
    /\ jobs[j].status = "pending_workflow"
    /\ jobs' = UpdateRows({j}, LAMBDA r : Rewritten(r, p))
    /\ UNCHANGED <<workers, nextRow>>

\* The second transaction of promote_pending_workflow_job.
EnqueueWorkflow(j) ==
    /\ jobs[j].status = "pending_workflow"
    /\ jobs' = UpdateRows({j}, Enqueued)
    /\ UNCHANGED <<workers, nextRow>>

TerminateWorkflow(j, status) ==
    /\ jobs[j].status = "pending_workflow"
    /\ jobs' = UpdateRows({j}, LAMBDA r : [r EXCEPT !.status = status])
    /\ UNCHANGED <<workers, nextRow>>

CancelJobCooperatively(j) ==
    /\ ~IsTerminal(jobs[j])
    /\ jobs' = UpdateRows({j}, LAMBDA r : [r EXCEPT !.cancel = TRUE])
    /\ UNCHANGED <<workers, nextRow>>

\* A pending job is canceled at once, an active one is only asked to stop, a
\* terminal one is left alone.
CancelJob(j) ==
    /\ ~IsTerminal(jobs[j])
    /\ jobs' = UpdateRows({j}, LAMBDA r : IF IsPending(r) THEN CanceledPending(r)
                                          ELSE [r EXCEPT !.cancel = TRUE])
    /\ UNCHANGED <<workers, nextRow>>

\* cancel_pending_jobs, over the projects of P (all of them when unscoped).
CancelPendingJobs(P) ==
    LET S == {j \in Rows : IsPending(jobs[j]) /\ ProjectOf[jobs[j].shape] \in P}
    IN  /\ S # {}
        /\ jobs' = UpdateRows(S, CanceledPending)
        /\ UNCHANGED <<workers, nextRow>>

\* Mutated: ties of rank are broken on the id alone.
PriorityBeforeById(i, j) ==
    \/ jobs[i].rank > jobs[j].rank
    \/ jobs[i].rank = jobs[j].rank /\ IdRank[i] < IdRank[j]

\* prioritize_jobs orders its selection by queue_rank desc, created_at, id.
PriorityBefore(i, j) ==
    \/ jobs[i].rank > jobs[j].rank
    \/ jobs[i].rank = jobs[j].rank /\ CreatedAt[i] < CreatedAt[j]
    \/ /\ jobs[i].rank = jobs[j].rank
       /\ CreatedAt[i] = CreatedAt[j]
       /\ IdRank[i] < IdRank[j]

\* The selected pending jobs go above every rank in the table; the job at
\* index k of n gets max + n - k.
PrioritizeJobs(S) ==
    LET sel == {j \in S \cap Rows : IsPending(jobs[j])}
        notBefore(j) == {i \in sel : i = j \/ PriorityBefore(j, i)}
        rank == [j \in sel |-> CurrentMaxRank + Cardinality(notBefore(j))]
    IN  /\ sel # {}
        /\ rank \in [sel -> 0 .. MaxRank]
        /\ jobs' = [j \in Rows |-> IF j \in sel THEN [jobs[j] EXCEPT !.rank = rank[j]]
                                   ELSE jobs[j]]
        /\ UNCHANGED <<workers, nextRow>>

\* cleared_at = now
Cleared(r) == [r EXCEPT !.cleared = TRUE]

\* clear_job: only a terminal job can be hidden from the queue.
ClearJob(j) ==
    /\ IsTerminal(jobs[j])
    /\ ~jobs[j].cleared
    /\ jobs' = UpdateRows({j}, Cleared)
    /\ UNCHANGED <<workers, nextRow>>

\* clear_terminal_jobs, over the projects of P.
ClearTerminalJobs(P) ==
    LET S == {j \in Rows : /\ IsTerminal(jobs[j]) /\ ~jobs[j].cleared
                           /\ ProjectOf[jobs[j].shape] \in P}
    IN  /\ S # {}
        /\ jobs' = UpdateRows(S, Cleared)
        /\ UNCHANGED <<workers, nextRow>>

-----------------------------------------------------------------------------
(* Workers *)

\* A new row is idle; a row that still names a job keeps its status.
RegisterWorker(w) ==
    /\ \E loaded \in LoadedSets, util \in UtilsOf[w] :
        LET old == w \in Registered
            keep == old /\ workers[w].current # NoJob
            row == [status |-> IF keep THEN workers[w].status ELSE "idle",
                    current |-> IF keep THEN workers[w].current ELSE NoJob,
                    seen |-> TRUE, loaded |-> loaded, util |-> util]
        IN  workers' = [v \in Registered \cup {w} |-> IF v = w THEN row ELSE workers[v]]
    /\ UNCHANGED <<jobs, nextRow>>

\* The heartbeat's job lookups: an idle heartbeat reads the previous job's row,
\* and fails as a whole if that row has been purged.
HeartbeatAccepted(w, current) ==
    /\ w \in Registered
    /\ current = NoJob /\ workers[w].current # NoJob => workers[w].current \in Rows

HeartbeatJobsForgetting(w, current) ==
    UpdateRows({j \in Rows \cap {current} : jobs[j].worker = w},
               LAMBDA r : [r EXCEPT !.beat = TRUE])

\* An idle heartbeat interrupts the job the worker row named, if that job is
\* active and was heartbeated at least once; a busy one refreshes the liveness
\* of a job the worker owns.
HeartbeatJobs(w, current) ==
    LET prev == workers[w].current
    IN  IF current = NoJob
        THEN UpdateRows({j \in Rows \cap {prev} : IsActive(jobs[j]) /\ jobs[j].beat},
                        Interrupted)
        ELSE UpdateRows({j \in Rows \cap {current} : jobs[j].worker = w},
                        LAMBDA r : [r EXCEPT !.beat = TRUE])

HeartbeatWorker(w, status, current) ==
    /\ HeartbeatAccepted(w, current)
    /\ jobs' = HeartbeatJobs(w, current)
    /\ \E loaded \in LoadedSets, util \in UtilsOf[w] :
        workers' = [workers EXCEPT ![w] =
            [status |-> status, current |-> current, seen |-> TRUE,
             loaded |-> loaded, util |-> util]]
    /\ UNCHANGED nextRow

\* The worker stays silent past the timeout.
SilencePasses(w) ==
    /\ w \in Registered
    /\ workers' = [workers EXCEPT ![w].seen = FALSE]
    /\ UNCHANGED <<jobs, nextRow>>

StaleWorkers == {w \in Registered : workers[w].status # "offline" /\ ~workers[w].seen}

\* mark_stale_workers_interrupted
SweepStaleWorkers ==
    /\ StaleWorkers # {}
    /\ jobs' = UpdateRows({j \in Rows : IsActive(jobs[j]) /\ jobs[j].worker \in StaleWorkers},
                          Interrupted)
    /\ workers' = UpdateWorkers(StaleWorkers, OfflineNow)
    /\ UNCHANGED nextRow

\* fail_worker_job_terminated: only the first active job of the worker (in the
\* table's unspecified order) is failed.
FailWorkerJobTerminated(w) ==
    LET active == {j \in Rows : IsActive(jobs[j]) /\ jobs[j].worker = w}
    IN  /\ IF active = {} THEN UNCHANGED jobs
           ELSE \E j \in active : jobs' = UpdateRows({j}, Failed)
        /\ workers' = UpdateWorkers({w}, OfflineNow)
        /\ UNCHANGED nextRow

-----------------------------------------------------------------------------
(* Sweeps over the queue: five ways to fail a job no worker will run *)

\* fail_queued_jobs
FailQueued(S) ==
    /\ S # {}
    /\ jobs' = UpdateRows(S, Failed)
    /\ UNCHANGED <<workers, nextRow>>

OlderThan(cutoff) == {j \in QueuedRows : CreatedAt[j] < cutoff}
Live(w) == workers[w].status # "offline" /\ workers[w].seen

StrandedMlx(cutoff) == {j \in OlderThan(cutoff) : jobs[j].shape \in MlxShapes}
StrandedCandle(cutoff) == {j \in OlderThan(cutoff) : jobs[j].shape \in CandleShapes}
UnsupportedMlx == {j \in QueuedRows : jobs[j].shape \notin MacSupported}
UnsupportedCandle == {j \in QueuedRows : jobs[j].shape \notin CandleSupported}
PlatformUnreachable ==
    {j \in QueuedRows : jobs[j].facts /\ jobs[j].shape \in VideoShapes \ CandleShapes}

FailStrandedMlxJobs(cutoff) ==
    /\ MlxRequired
    /\ ~\E w \in Registered : GpuOf[w] = MlxGpu /\ Live(w)
    /\ FailQueued(StrandedMlx(cutoff))

FailUnsupportedMlxJobs == MlxRequired /\ MlxEnforce /\ FailQueued(UnsupportedMlx)

FailStrandedCandleJobs(cutoff) ==
    /\ CandleRequired
    /\ ~\E w \in Registered : w \in CandleWorkers /\ Live(w)
    /\ FailQueued(StrandedCandle(cutoff))

FailUnsupportedCandleJobs ==
    CandleRequired /\ CandleEnforce /\ FailQueued(UnsupportedCandle)

FailPlatformUnreachableJobs == ~HostIsMac /\ FailQueued(PlatformUnreachable)
-----------------------------------------------------------------------------
(* Claiming and running *)

StaleFacts == {j \in QueuedRows : ~jobs[j].facts}

\* claim_next_job_routed: one queued row with stale routing facts fails every
\* claim; a deferral hands out nothing at all.  The row's last_heartbeat_at is
\* not reset, and the worker row is pointed at the new job whatever it named.
ClaimNextJob(w) ==
    /\ w \in Registered
    /\ StaleFacts = {}
    /\ \E j \in Claimable(jobs, workers, w) :
        /\ j = ChooseClaimable(jobs, workers, w)
        /\ ~Defers(jobs, workers, w, j)
        /\ jobs' = [jobs EXCEPT ![j].status = "preparing", ![j].worker = w,
                                ![j].gpu = IF NonGpu(jobs[j]) THEN CpuGpu ELSE GpuOf[w]]
        /\ workers' = [workers EXCEPT ![w].status = "busy", ![w].current = j,
                                      ![w].seen = TRUE]
    /\ UNCHANGED nextRow

UpdateJobProgressOfZombie(w, j, status) ==
    /\ jobs[j].worker = w
    /\ jobs' = UpdateRows({j}, LAMBDA r : [r EXCEPT !.status = status])
    /\ UNCHANGED <<workers, nextRow>>

\* update_job_progress_with_outcome, accepted: only the owner of a job that is
\* not terminal may report.  A terminal report hands the API its side effects
\* and frees the worker row, whatever job that row names.
UpdateJobProgress(w, j, status) ==
    /\ ~IsTerminal(jobs[j])
    /\ jobs[j].worker = w
    /\ jobs' = UpdateRows({j}, LAMBDA r :
        [r EXCEPT !.status = status, !.effects = (status \in TerminalStatuses)])
    /\ workers' = IF status \in TerminalStatuses
                  THEN UpdateWorkers({w}, LAMBDA wr :
                        [wr EXCEPT !.status = "idle", !.current = NoJob, !.seen = TRUE])
                  ELSE workers
    /\ UNCHANGED nextRow

\* replace_job_result_after_progress, which clears the handoff bit.
FinishSideEffects(j) ==
    /\ jobs[j].effects
    /\ jobs' = UpdateRows({j}, LAMBDA r : [r EXCEPT !.effects = FALSE])
    /\ UNCHANGED <<workers, nextRow>>

-----------------------------------------------------------------------------
(* Startup of the API process *)

ProvenOwnerNever(j) == FALSE

\* The durable worker row still proves exact ownership of the active job.
ProvenOwner(j) ==
    /\ jobs[j].worker \in Registered
    /\ workers[jobs[j].worker].status = "busy"
    /\ workers[jobs[j].worker].current = j

\* initialize backfills the routing facts, the retention purge deletes a set of
\* terminal jobs, and mark_interrupted_on_startup settles what is left: before
\* the server accepts its first request.
Startup(purged) ==
    /\ purged \subseteq {j \in Rows : IsTerminal(jobs[j])}
    /\ LET settle(j) ==
             LET r == [jobs[j] EXCEPT !.facts = TRUE]
             IN  IF IsActive(r) /\ ~ProvenOwner(j) THEN Interrupted(r)
                 ELSE IF r.status = "pending_caption" THEN Enqueued(r)
                 ELSE r
           exact(w) == \E j \in Rows : /\ workers[w].current = j
                                       /\ jobs[j].worker = w
                                       /\ IsActive(jobs[j])
                                       /\ ProvenOwner(j)
       IN  /\ jobs' = [j \in Rows \ purged |-> settle(j)]
           /\ workers' = UpdateWorkers(
                {w \in Registered : workers[w].status # "offline" /\ ~exact(w)}, Offline)
    /\ UNCHANGED nextRow

-----------------------------------------------------------------------------
AnyWorker(w) ==
    \/ RegisterWorker(w)
    \/ SilencePasses(w)
    \/ ClaimNextJob(w)
    \/ FailWorkerJobTerminated(w)
    \/ \E h \in Heartbeats :
        \E current \in IF h[2] THEN 1 .. (nextRow - 1) ELSE {NoJob} :
            HeartbeatWorker(w, h[1], current)
    \/ \E j \in Rows, status \in Reports : UpdateJobProgress(w, j, status)

AnyJob(j) ==
    \/ RetryJob(j)
    \/ \E requested \in Requests : DuplicateJob(j, requested)
    \/ CancelJob(j)
    \/ \E p \in Payloads : PromoteCaption(j, p) \/ UpdateWorkflowPayload(j, p)
    \/ DegradeCaption(j)
    \/ EnqueueWorkflow(j)
    \/ \E status \in TerminalStatuses \ {"completed"} : TerminateWorkflow(j, status)
    \/ FinishSideEffects(j)
    \/ ClearJob(j)

Sweeps ==
    \/ SweepStaleWorkers
    \/ FailUnsupportedMlxJobs
    \/ FailUnsupportedCandleJobs
    \/ FailPlatformUnreachableJobs
    \/ \E cutoff \in 0 .. MaxClock :
            FailStrandedMlxJobs(cutoff) \/ FailStrandedCandleJobs(cutoff)

Next ==
    \/ \E shape \in Shapes, requested \in Requests, status \in InitialStatuses :
            CreateJob(shape, requested, status)
    \/ \E j \in Rows : AnyJob(j)
    \/ \E P \in {{p} : p \in Projects} \cup {Projects} :
            CancelPendingJobs(P) \/ ClearTerminalJobs(P)
    \/ \E S \in SUBSET Rows : PrioritizeJobs(S)
    \/ \E w \in Workers : AnyWorker(w)
    \/ Sweeps
    \/ \E purged \in SUBSET Rows : Startup(purged)

Spec == Init /\ [][Next]_vars
-----------------------------------------------------------------------------
(* Properties *)

\* At most one active GPU job per physical device, mlx and mps counting as one:
\* what active_gpu_job_exists protects, over every interleaving of claims,
\* sweeps, restarts and late reports.
GpuExclusive ==
    \A i, j \in Rows : \A d \in Gpus :
        Holds(jobs[i], d) /\ Holds(jobs[j], d) => i = j

Owned(r) ==
    /\ IsPending(r) => r.worker = NoWorker /\ ~r.cancel
    /\ IsActive(r) => r.worker # NoWorker /\ r.gpu # NoGpu
    /\ r.effects => IsTerminal(r) /\ r.worker # NoWorker
    /\ r.cleared => IsTerminal(r)

\* A pending job has no worker and no cancel request on record, so a cancel
\* accepted before the claim is final; an active job always names the worker
\* that may report on it; a job that awaits its API side effects is terminal
\* and still names the worker that may re-send its last report; and no job that
\* is still to run is ever hidden from the operator's queue.
Ownership == \A j \in Rows : Owned(jobs[j])

Kept(old, new) ==
    /\ IsTerminal(old) => /\ new.status = old.status
                          /\ new.effects => old.effects
    /\ ~IsPending(old) => ~IsPending(new) /\ new.worker \in {old.worker, NoWorker}
    /\ old.cancel => new.cancel

\* The life cycle of a row.  Nothing resurrects a terminal job (the guard of
\* update_job_progress_internal against zombie workers) or hands its side
\* effects out again; a job that left the queue never returns to it nor passes
\* to another worker; a cancel request is never forgotten; and retention
\* deletes nothing but terminal rows.
NoResurrection ==
    [][/\ \A j \in Rows \ Rows' : IsTerminal(jobs[j])
       /\ \A j \in Rows \cap Rows' : Kept(jobs[j], jobs'[j])]_vars

LifeRow(phase, runner, device, outcome) ==
    [phase |-> phase, runner |-> runner, device |-> device, outcome |-> outcome]

\* The refinement mapping: how the life of a job is read off its row.
RowLife(r) ==
    IF IsPending(r) THEN LifeRow("waiting", NoWorker, NoGpu, NoJob)
    ELSE IF IsTerminal(r) THEN LifeRow("settled", NoWorker, NoGpu, r.status)
    ELSE LifeRow("running", r.worker, IF NonGpu(r) THEN NoGpu ELSE Device(r.gpu), NoJob)

LifeOf(j) ==
    IF j \in Rows THEN RowLife(jobs[j])
    ELSE LifeRow(IF j < nextRow THEN "purged" ELSE "absent", NoWorker, NoGpu, NoJob)

Life == INSTANCE JobLifecycle WITH
    Jobs <- JobIds, Runners <- Workers, Devices <- Gpus,
    Outcomes <- TerminalStatuses, Success <- "completed",
    NoRunner <- NoWorker, NoDevice <- NoGpu, NoOutcome <- NoJob,
    life <- [j \in JobIds |-> LifeOf(j)]

\* The store implements the life cycle of JobLifecycle: every method, sweep and
\* restart is a submission, a start on a free device, the end of some jobs, or
\* invisible.  In particular a job starts at most once, only a job that ran is
\* ever recorded as completed, and no status or worker field changes its meaning
\* between the two.
RefinesLifecycle == Life!Spec

\* The MLX-eligible shapes that are kept for mlx workers, by a deferral or by what
\* the registered workers are capable of ("video_upscale is candle/mlx-only by
\* capability").
KeptForMlx ==
    {s \in MlxShapes :
        \/ s \in DeferredShapes
        \/ \A w \in Workers : s \in Supports[w] => GpuOf[w] = MlxGpu}

\* On a deployment that requires MLX, a job of such a shape is only ever run by an
\* mlx worker, whichever GPU its request pinned ("a synthetic non-mlx descriptor
\* NEVER claims an MLX-eligible job").  A worker of another GPU that did advertise
\* video upscaling would be handed one.
MlxRunsOnMlx ==
    MlxRequired =>
        \A j \in Rows : IsActive(jobs[j]) /\ jobs[j].shape \in KeptForMlx
                            => GpuOf[jobs[j].worker] = MlxGpu

\* No two promotions ever get the same rank, by hand or automatically, whatever
\* became of the jobs promoted earlier: "every invocation really does jump to
\* top", so the order of promoted jobs never falls back to the clock.
PromotedRanksDistinct ==
    \A i, j \in Rows : i # j /\ jobs[i].rank = jobs[j].rank => jobs[i].rank = 0

\* The jobs a bulk promotion selects keep the order in which they would have been
\* claimed (rank, created_at, rowid), whatever their ranks, if they were created in
\* different seconds; ties within a second are broken on the random id.
PrioritizeKeepsOrder ==
    [][\A S \in SUBSET Rows : PrioritizeJobs(S) =>
        \A i, j \in {k \in S : IsPending(jobs[k])} :
            CreatedAt[i] # CreatedAt[j] /\ ClaimBefore(jobs, i, j)
                => ClaimBefore(jobs', i, j)]_vars
=============================================================================
