----------------------------- MODULE JobsSystem ------------------------------
(***************************************************************************)
(* The queue together with the processes that drive it: worker processes   *)
(* (worker_loop.rs, utility_dispatch.rs) that register, poll, run a job    *)
(* under heartbeats and report its outcome, the supervisor that attributes *)
(* their crashes (supervisor.rs), clients that submit and cancel, and an   *)
(* API process that may restart at any time.                               *)
(*                                                                         *)
(* A worker's HTTP call is the store action it triggers.  A call of a kind *)
(* in Lossy may also fail: the worker carries on as after a transport      *)
(* error, while the API executed the request or never saw it.              *)
(***************************************************************************)
EXTENDS JobsStore

CONSTANTS
    Supervised,   \* workers whose supervisor reports an abnormal exit
    Restarted,    \* workers whose process is always started again
    Lossy,        \* kinds of calls that may fail in transport: the claim, the
                  \* final report, the periodic and the closing heartbeats
    EarlyLoss,    \* a job may be lost between its claim and its first heartbeat
    PoisonShapes, \* jobs whose failure on an mlx worker may be the Metal
                  \* watchdog's, which poisons the process (mlx_worker_recovery.rs)
    MaxStops      \* bound on crashes and shutdowns

VARIABLES
    pc,      \* worker -> where its process is (below)
    held,    \* worker -> the job its process executes
    poisoned, \* the workers whose process is quarantined
    stops,   \* crashes and shutdowns so far
    begun    \* history: the jobs some process began to execute

\* down: no process.  crashed: exited abnormally, not yet noticed.  start:
\* registered, its first idle heartbeat due.  poll: the claim loop.  run:
\* executing held.  done: the job function returned.  stopping, stopped: the
\* same two after shutdown tripped the job.  leaving: about to say it goes
\* offline.  overrun: the same while the blocking work of held goes on, for which
\* nobody waits any more; lingering: offline, the runtime waits for that work
\* before the process exits.  recycle: poisoned, its job's failure recorded, about
\* to exit.

procVars == <<pc, held, poisoned, stops, begun>>
sysVars == <<jobs, workers, nextRow, pc, held, poisoned, stops, begun>>

ASSUME SystemAssumption ==
    /\ Supervised \subseteq Workers
    /\ Restarted \subseteq Workers
    /\ Lossy \subseteq {"claim", "report", "beat", "end"}
    /\ EarlyLoss \in BOOLEAN
    /\ PoisonShapes \subseteq Shapes
    /\ MaxStops \in Nat

SystemInit ==
    /\ Init
    /\ pc = [w \in Workers |-> "down"]
    /\ held = [w \in Workers |-> NoJob]
    /\ poisoned = {}
    /\ stops = 0
    /\ begun = {}

Goto(w, place) == pc' = [pc EXCEPT ![w] = place]
KeepProcs == UNCHANGED procVars

\* A crash or shutdown of w, which leaves it at place.
Dies(w, place) ==
    /\ stops < MaxStops
    /\ stops' = stops + 1
    /\ Goto(w, place)

\* The process of w may lose its job without the queue being told.
MayLose(w) ==
    EarlyLoss \/ \A j \in Rows : IsActive(jobs[j]) /\ jobs[j].worker = w => jobs[j].beat

-----------------------------------------------------------------------------
(* The worker process *)

\* register_worker_with_retry, then the loop.
StartWorker(w) ==
    /\ pc[w] = "down"
    /\ RegisterWorker(w)
    /\ Goto(w, "start")
    /\ UNCHANGED <<held, poisoned, stops, begun>>

\* poll_once, idle heartbeat due: always before the first claim of a process.
\* A transport error is swallowed.
IdleHeartbeat(w) ==
    /\ pc[w] \in {"start", "poll"}
    /\ \/ HeartbeatWorker(w, "idle", NoJob)
       \/ "beat" \in Lossy /\ UNCHANGED vars
    /\ Goto(w, "poll")
    /\ UNCHANGED <<held, poisoned, stops, begun>>

\* poll_once, claim answered with a job.
PollClaims(w) ==
    /\ pc[w] = "poll"
    /\ ClaimNextJob(w)
    /\ held' = [held EXCEPT ![w] = workers'[w].current]
    /\ begun' = begun \cup {workers'[w].current}
    /\ Goto(w, "run")
    /\ UNCHANGED <<poisoned, stops>>

\* poll_once, claim executed but its answer lost: the loop just polls again.
PollClaimLost(w) ==
    /\ "claim" \in Lossy
    /\ pc[w] = "poll"
    /\ ClaimNextJob(w)
    /\ KeepProcs

\* Shutdown drops poll_once while its claim is under way: the API still
\* executes it.
ShutdownDropsClaim(w) ==
    /\ EarlyLoss
    /\ pc[w] = "poll"
    /\ ClaimNextJob(w)
    /\ Dies(w, "leaving")
    /\ UNCHANGED <<held, poisoned, begun>>

Computes(w) == pc[w] \in {"run", "stopping"} /\ w \notin poisoned

\* The keepalives of progress.rs.
RunHeartbeat(w) ==
    /\ Computes(w)
    /\ HeartbeatWorker(w, "busy", held[w])
    /\ KeepProcs

RunProgress(w) ==
    /\ Computes(w)
    /\ UpdateJobProgress(w, held[w], "running")
    /\ KeepProcs

\* The statuses a job function ends with; check_cancel must have seen the request.
Outcomes(w) ==
    {"completed", "failed"} \cup
    (IF jobs[held[w]].cancel \/ pc[w] = "stopping" THEN {"canceled"} ELSE {})

\* The job function returns; under shutdown run_job_with_shutdown goes on.
Returned(w) == Goto(w, IF pc[w] = "run" THEN "done" ELSE "stopped")

ReportOutcome(w) ==
    /\ Computes(w)
    /\ \E status \in Outcomes(w) : UpdateJobProgress(w, held[w], status)
    /\ Returned(w)
    /\ UNCHANGED <<held, poisoned, stops, begun>>

Refused(w) == IsTerminal(jobs[held[w]]) \/ jobs[held[w]].worker # w

\* A report is answered with 409: the job function unwinds.
ReportRefused(w) ==
    /\ Computes(w)
    /\ Refused(w)
    /\ Returned(w)
    /\ UNCHANGED <<vars, held, poisoned, stops, begun>>

\* The final report never arrives, nor does the failure report after it.
ReportLost(w) ==
    /\ "report" \in Lossy
    /\ Computes(w)
    /\ MayLose(w)
    /\ Returned(w)
    /\ UNCHANGED <<vars, held, poisoned, stops, begun>>

\* run_utility_job's closing idle heartbeat; a failure is ignored.
FinalHeartbeat(w) ==
    /\ pc[w] = "done"
    /\ \/ HeartbeatWorker(w, "idle", NoJob)
       \/ "end" \in Lossy /\ UNCHANGED vars
    /\ Goto(w, "poll")
    /\ held' = [held EXCEPT ![w] = NoJob]
    /\ UNCHANGED <<poisoned, stops, begun>>

-----------------------------------------------------------------------------
(* Crashes and shutdown *)

Crash(w) ==
    /\ pc[w] \notin {"down", "crashed"}
    /\ w \in Supervised \/ MayLose(w)
    /\ Dies(w, IF w \in Supervised THEN "crashed" ELSE "down")
    /\ held' = [held EXCEPT ![w] = NoJob]
    /\ poisoned' = poisoned \ {w}
    /\ UNCHANGED <<vars, begun>>

\* restart_exited_children reports the exit, best effort, before it respawns the
\* child.
ReportTerminated(w) ==
    /\ pc[w] = "crashed"
    /\ \/ FailWorkerJobTerminated(w)
       \/ "report" \in Lossy /\ MayLose(w) /\ UNCHANGED vars
    /\ Goto(w, "down")
    /\ UNCHANGED <<held, poisoned, stops, begun>>

Shutdown(w) ==
    /\ pc[w] \in {"start", "poll", "run"}
    /\ Dies(w, IF pc[w] = "run" THEN "stopping" ELSE "leaving")
    /\ UNCHANGED <<vars, held, poisoned, begun>>

\* A job function that returns within the grace period sends its closing
\* heartbeat, unless the process is poisoned.
StoppedHeartbeat(w) ==
    /\ pc[w] = "stopped"
    /\ w \notin poisoned
    /\ HeartbeatWorker(w, "idle", NoJob)
    /\ KeepProcs

\* The job's blocking work goes on although its function is dropped.
Overruns(w) == pc[w] \in {"overrun", "lingering"}

\* run_job_with_shutdown: after the grace period the job is reported canceled,
\* whether its function returned or not.  The function of a job that did not return
\* is dropped; the GPU work it put on a blocking thread is not.
ShutdownCancels(w) ==
    LET returned == pc[w] = "stopped" \/ w \in poisoned
    IN  /\ pc[w] \in {"stopping", "stopped"}
        /\ \/ UpdateJobProgress(w, held[w], "canceled")
           \/ Refused(w) /\ UNCHANGED vars
           \/ "report" \in Lossy /\ MayLose(w) /\ UNCHANGED vars
        /\ Goto(w, IF returned THEN "leaving" ELSE "overrun")
        /\ held' = IF returned THEN [held EXCEPT ![w] = NoJob] ELSE held
        /\ UNCHANGED <<poisoned, stops, begun>>

OfflineHeartbeat(w) ==
    /\ pc[w] \in {"leaving", "overrun"}
    /\ \/ HeartbeatWorker(w, "offline", NoJob)
       \/ "end" \in Lossy /\ UNCHANGED vars
    /\ Goto(w, IF pc[w] = "leaving" THEN "down" ELSE "lingering")
    /\ poisoned' = poisoned \ {w}
    /\ UNCHANGED <<held, stops, begun>>

\* run_on_worker_entry_thread drops the runtime, which returns once the blocking
\* work has.
LingerEnds(w) ==
    /\ pc[w] = "lingering"
    /\ Goto(w, "down")
    /\ held' = [held EXCEPT ![w] = NoJob]
    /\ UNCHANGED <<vars, poisoned, stops, begun>>

-----------------------------------------------------------------------------
(* A poisoned MLX process *)

\* handle_job_failure: the job function failed with an error that
\* MlxWorkerRecovery::observe classifies.  From here on the process is
\* quarantined.
Poison(w) ==
    /\ GpuOf[w] = MlxGpu
    /\ Computes(w)
    /\ jobs[held[w]].shape \in PoisonShapes
    /\ poisoned' = poisoned \cup {w}
    /\ UNCHANGED <<vars, pc, held, stops, begun>>

\* The process has its job's failure still to record.
Persists(w) == pc[w] \in {"run", "stopping"} /\ w \in poisoned

\* The failure is on record already, by an attempt whose answer was lost.
Recorded(w) == jobs[held[w]].status = "failed" /\ jobs[held[w]].worker = w

\* fail_job answers with an error.
AttemptFails(w) == (Refused(w) /\ ~Recorded(w)) \/ "report" \in Lossy

\* Mutated: one attempt, whatever comes of it, arms recycling.
PersistFailureOnce(w) ==
    /\ Persists(w)
    /\ \/ UpdateJobProgress(w, held[w], "failed")
       \/ AttemptFails(w) /\ UNCHANGED vars
    /\ Goto(w, IF pc[w] = "run" THEN "recycle" ELSE "stopped")
    /\ UNCHANGED <<held, poisoned, stops, begun>>

\* Mutated: the accepted attempt does not arm recycling.
PersistFailureUnarmed(w) ==
    /\ Persists(w)
    /\ pc[w] = "run"
    /\ UpdateJobProgress(w, held[w], "failed")
    /\ KeepProcs

\* persist_terminal_failure_with, attempt accepted: recycling is armed, and no
\* closing heartbeat is sent.
PersistFailure(w) ==
    /\ Persists(w)
    /\ \/ UpdateJobProgress(w, held[w], "failed")
       \/ Recorded(w) /\ UNCHANGED vars
    /\ Goto(w, IF pc[w] = "run" THEN "recycle" ELSE "stopped")
    /\ UNCHANGED <<held, poisoned, stops, begun>>

\* The attempt was executed but its answer is lost.
PersistAnswerLost(w) ==
    /\ "report" \in Lossy
    /\ Persists(w)
    /\ UpdateJobProgress(w, held[w], "failed")
    /\ KeepProcs

\* Attempt refused or lost: heartbeat unhealthy, naming the job, and try again.
PersistRetry(w) ==
    /\ Persists(w)
    /\ pc[w] = "run"
    /\ AttemptFails(w)
    /\ \/ HeartbeatWorker(w, "unhealthy", held[w])
       \/ "beat" \in Lossy /\ UNCHANGED vars
    /\ KeepProcs

\* After a shutdown a failed attempt is the last.
PersistStop(w) ==
    /\ Persists(w)
    /\ pc[w] = "stopping"
    /\ AttemptFails(w)
    /\ Goto(w, "stopped")
    /\ UNCHANGED <<vars, held, poisoned, stops, begun>>

\* begin_recycle at the head of the loop: a last heartbeat and a clean exit,
\* which the supervisor does not report.
Recycle(w) ==
    /\ pc[w] = "recycle"
    /\ \/ HeartbeatWorker(w, "unhealthy", NoJob)
       \/ "end" \in Lossy /\ UNCHANGED vars
    /\ Goto(w, "down")
    /\ held' = [held EXCEPT ![w] = NoJob]
    /\ poisoned' = poisoned \ {w}
    /\ UNCHANGED <<stops, begun>>

-----------------------------------------------------------------------------
(* The API side *)

\* A live worker is only silent while its heartbeats get lost.
Silence(w) ==
    /\ pc[w] \in {"down", "crashed", "lingering"} \/ "beat" \in Lossy
    /\ SilencePasses(w)
    /\ KeepProcs

Sweep == SweepStaleWorkers /\ KeepProcs

RestartApi == Startup({}) /\ KeepProcs

Client ==
    /\ \/ \E shape \in Shapes, requested \in Requests : CreateJob(shape, requested, "queued")
       \/ \E j \in Rows : CancelJob(j)
    /\ KeepProcs

WorkerStep(w) ==
    \/ StartWorker(w) \/ IdleHeartbeat(w) \/ PollClaims(w) \/ PollClaimLost(w)
    \/ ShutdownDropsClaim(w) \/ StoppedHeartbeat(w)
    \/ RunHeartbeat(w) \/ RunProgress(w) \/ ReportOutcome(w) \/ ReportRefused(w)
    \/ ReportLost(w) \/ FinalHeartbeat(w) \/ Crash(w) \/ ReportTerminated(w)
    \/ Shutdown(w) \/ ShutdownCancels(w) \/ OfflineHeartbeat(w) \/ LingerEnds(w)
    \/ Silence(w)
    \/ Poison(w) \/ PersistFailure(w) \/ PersistAnswerLost(w) \/ PersistRetry(w)
    \/ PersistStop(w) \/ Recycle(w)

SystemNext ==
    \/ \E w \in Workers : WorkerStep(w)
    \/ Sweep
    \/ RestartApi
    \/ Client

\* The steps that move a process on from a place where nothing holds it back.
Proceed(w) ==
    \/ ReportOutcome(w) \/ ReportRefused(w) \/ ReportLost(w)
    \/ FinalHeartbeat(w) \/ ReportTerminated(w)
    \/ ShutdownCancels(w) \/ OfflineHeartbeat(w) \/ LingerEnds(w)
    \/ PersistFailure(w) \/ PersistStop(w) \/ Recycle(w)

\* A process that is up keeps taking the steps of its loop, every job function
\* returns, and a report that is repeated gets through unless it is refused; a
\* worker of Restarted is started again by its supervisor or container; a process
\* that stays down has been silent for the timeout at some point, and the sweep
\* runs: every claim poll, queue read and worker listing does it.
SystemFairness ==
    /\ \A w \in Workers :
        /\ w \in Restarted => WF_sysVars(StartWorker(w))
        /\ WF_sysVars(IdleHeartbeat(w))
        /\ WF_sysVars(PollClaims(w))
        /\ WF_sysVars(Proceed(w))
        /\ WF_sysVars(PersistRetry(w))
        /\ WF_sysVars(pc[w] = "down" /\ Silence(w))
    /\ WF_sysVars(Sweep)

SystemSpec == SystemInit /\ [][SystemNext]_sysVars /\ SystemFairness

-----------------------------------------------------------------------------
(* Properties *)

\* What a worker process executes is its own: the row it works on was claimed
\* for it and is still its to report on, or is already settled.  No late sweep,
\* restart or second claim hands a job that is being executed to another worker
\* or back to the queue.
ExecutesOwnJob ==
    \A w \in Workers : held[w] # NoJob =>
        /\ held[w] \in Rows
        /\ \/ IsTerminal(jobs[held[w]])
           \/ IsActive(jobs[held[w]]) /\ jobs[held[w]].worker = w

\* A job's execution begins at most once ever: a process takes into its hands only
\* a job that none had before, itself under an earlier start of the same id
\* included, through crashes, shutdowns, sweeps, lost calls and API restarts.  In
\* particular no two processes ever have the same job.
ExecutedOnce ==
    [][\A w \in Workers : held'[w] \notin {held[w], NoJob} => held'[w] \notin begun]_sysVars

\* As long as heartbeats get through, two processes never compute on the same
\* device at the same time, mlx and mps counting as one, unless one of them is past
\* the grace period of its shutdown: neither a crash nor an API restart nor a
\* shutdown within its grace period frees in the table a device on which a process
\* still works.  A shutdown past it does: its job is reported canceled, and the
\* device handed out, while the blocking GPU work runs to its end.
DeviceSharedByNone ==
    LET onGpu(w) == (Computes(w) \/ Overruns(w)) /\ ~NonGpu(jobs[held[w]])
    IN  \A v, w \in Workers :
            v # w /\ onGpu(v) /\ onGpu(w) /\ Device(GpuOf[v]) = Device(GpuOf[w])
                => Overruns(v) \/ Overruns(w)

\* A poisoned process exits cleanly, so that nobody attributes its end, only
\* after the failure of its job is on record ("a transient terminal-write
\* failure must never turn into a clean child exit"), whatever reports, answers
\* and heartbeats were lost and whoever else settled the job meanwhile.
RecycleAfterFailure ==
    \A w \in Workers : pc[w] = "recycle" => jobs[held[w]].status = "failed"

\* A poisoned process whose failure report is refused: its job was settled
\* otherwise.
Wedged(w) == Persists(w) /\ Refused(w) /\ ~Recorded(w)

\* Every job that is submitted is eventually settled, whatever crashes, stalls,
\* restarts, lost reports and poisoned processes occur on the way: none is left
\* queued forever, and none stays active after its process is gone.  Excepted is
\* only the queue behind a wedged process.
EveryJobSettles ==
    \A j \in JobIds :
        j \in Rows ~> \/ j \in Rows /\ IsTerminal(jobs[j])
                      \/ \E w \in Workers : Wedged(w)

\* A poisoned process makes way for a fresh one ("exits cleanly for the existing
\* auto-worker supervisor to replace it"), however many reports of its failure
\* are lost and whenever it is shut down, unless it is wedged: an API restart
\* after its unhealthy heartbeat interrupts the job, every further report is
\* refused, and a refusal is retried like a lost report.
PoisonedRecycles ==
    \A w \in {v \in Workers : GpuOf[v] = MlxGpu} :
        w \in poisoned ~> (w \notin poisoned \/ Wedged(w))

\* An active job that no process executes and that was never heartbeated.
Abandoned(j) ==
    /\ j \in Rows
    /\ IsActive(jobs[j]) /\ ~jobs[j].beat
    /\ \A w \in Workers : held[w] # j

\* The comment in heartbeat_worker: "The time-based stale sweep still reclaims a
\* job abandoned before its first heartbeat."
SweepReclaimsAbandoned ==
    \A j \in JobIds : Abandoned(j) ~> (j \in Rows /\ IsTerminal(jobs[j]))
=============================================================================
