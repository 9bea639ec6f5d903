----------------------------- MODULE CatalogScan -----------------------------
(***************************************************************************)
(* The background Parquet scan of one dataset catalog.                     *)
(*                                                                         *)
(* A catalog's scan runs as a task owned by the API process's              *)
(* CatalogScanSupervisor (apps/rust-api/src/catalog_scan_supervisor.rs):   *)
(* the catalog id is a single-flight key, a request that finds a live task *)
(* leaves one successor with it, shutdown cancels and drains.  The task    *)
(* (run_catalog_scan, apps/rust-api/src/catalogs.rs) takes the catalog's   *)
(* cross-process processing lease, runs bounded passes that commit a batch *)
(* of rows, the checkpoint and the progress in one transaction             *)
(* (catalog_parquet_scanner.rs), and reads the user's pause between        *)
(* batches.  Pause, resume, status and list requests run beside it and     *)
(* take the same lease for one step; status requests restart what an       *)
(* interruption left behind.                                               *)
(*                                                                         *)
(* A request that holds the lease from its check to its commit is one      *)
(* step.  What is not atomic in the code is split here: the commit of a    *)
(* resume and its spawn, the check and the commit of a pause, the release  *)
(* of a lease and the reconciliation after it, the end of a task and its   *)
(* removal from the registry.                                              *)
(***************************************************************************)
EXTENDS Naturals

CONSTANTS
    Batches,      \* durable batches in the source
    MaxRetries,   \* CATALOG_SCAN_MAX_CONTENTION_RETRIES
    MaxFaults     \* crashes, shutdowns, errors and foreign leases per behaviour

ASSUME CatalogAssumption == Batches \in Nat /\ MaxRetries \in Nat /\ MaxFaults \in Nat

VARIABLES
    control,    \* the desired state the user asked for
    progress,   \* the published processing state, and the message of a failure
    ckpt,       \* the durable checkpoint: batches committed, and its complete flag
    lease,      \* the holder of the processing lease
    task,       \* the live generation of the scan task
    sup,        \* the API process: "up", "draining" (shutdown has begun), "down"
    pend,       \* requests between their check or commit and the step that follows
    ghost,      \* what the properties remember
    faults

vars == <<control, progress, ckpt, lease, task, sup, pend, ghost, faults>>

(* A failure's message matters for one thing: whether it contains the word *)
(* "interrupted".  "canceled" is the message of a validation that shutdown *)
(* cancels (preflight_interrupted): an interruption that lacks the word.   *)
Causes == {"none", "interrupted", "canceled", "contention", "error"}
At(state) == [state |-> state, cause |-> "none"]
Failed(cause) == [state |-> "failed", cause |-> cause]

Progresses == {At(s) : s \in {"idle", "running", "paused", "completed"}}
              \cup {Failed(c) : c \in Causes \ {"none"}}

(* The program counter of a task: "head" (top of the session loop),        *)
(* "start" (waiting to open the catalog and take its lease), "busy",       *)
(* "backoff", "driver" (lease held, waiting for a work slot), "pass",      *)
(* "leaving" (lease dropped after a report), "cancelling" (about to        *)
(* reconcile), "ended" (returned, not yet reaped by its wrapper).          *)
Holding == {"driver", "pass"}
PCs == {"none", "head", "start", "busy", "backoff", "leaving", "cancelling", "ended"} \cup Holding

Tasks == [pc : PCs, retries : 0..MaxRetries, before : Progresses, from : 0..Batches,
          flags : SUBSET {"cancelled", "restart", "registered"}]
NoTask == [pc |-> "none", retries |-> 0, before |-> At("idle"), from |-> 0,
           flags |-> {}]
Fresh == [NoTask EXCEPT !.pc = "head", !.flags = {"registered"}]

(* Requests on their way to the supervisor. *)
Schedules == {"create", "resume", "poll"}

Live == task.pc # "none"
Cancelled == "cancelled" \in task.flags

(***************************************************************************)
(* A catalog that create_catalog has just written, its scan not yet        *)
(* scheduled.                                                              *)
(***************************************************************************)
Init ==
    /\ control = "running"
    /\ progress = At("idle")
    /\ ckpt = [done |-> 0, mark |-> "open"]
    /\ lease = "free"
    /\ task = NoTask
    /\ sup = "up"
    /\ pend = {"create"}
    /\ ghost = {}
    /\ faults = 0

Fault == faults < MaxFaults /\ faults' = faults + 1

(* reconcile_interrupted_processing: under the lease a published "running" *)
(* has no processor behind it.                                             *)
Orphaned == IF progress.state = "running" THEN Failed("interrupted") ELSE progress

----------------------------------------------------------------------------
(* The supervisor *)

(* Mutated: a request that finds a live generation relies on it. *)
SpawnSingleFlight(k) ==
    /\ k \in Schedules \cap pend /\ sup # "down"
    /\ \/ /\ sup = "draining"
          /\ pend' = (pend \ {k}) \cup {"rejected"}
          /\ UNCHANGED task
       \/ /\ sup = "up"
          /\ pend' = pend \ {k}
          /\ task' = IF Live THEN task ELSE Fresh
    /\ UNCHANGED <<control, progress, ckpt, lease, sup, ghost, faults>>

(***************************************************************************)
(* enqueue_catalog_scan and CatalogScanSupervisor::spawn: rejected while   *)
(* shutting down, a successor of the live generation, or a new one.        *)
(***************************************************************************)
Spawn(k) ==
    /\ k \in Schedules \cap pend /\ sup # "down"
    /\ \/ /\ sup = "draining"
          /\ pend' = (pend \ {k}) \cup {"rejected"}
          /\ UNCHANGED task
       \/ /\ sup = "up"
          /\ pend' = pend \ {k}
          /\ task' = IF Live THEN [task EXCEPT !.flags = @ \cup {"restart"}] ELSE Fresh
    /\ UNCHANGED <<control, progress, ckpt, lease, sup, ghost, faults>>

(* The wrapper removes its own generation and starts the successor, if one *)
(* was left and shutdown has not taken the registry.                       *)
Reap ==
    /\ task.pc = "ended"
    /\ task' = IF {"registered", "restart"} \subseteq task.flags THEN Fresh ELSE NoTask
    /\ UNCHANGED <<control, progress, ckpt, lease, sup, pend, ghost, faults>>

(* shutdown: close the registry, take every task out of it, cancel it.     *)
Shutdown ==
    /\ sup = "up" /\ Fault
    /\ sup' = "draining"
    /\ task' = IF Live THEN [task EXCEPT !.flags = {"cancelled"}]
                       ELSE task
    /\ ghost' = ghost \ {"asked"}
    /\ UNCHANGED <<control, progress, ckpt, lease, pend>>

(* shutdown returns once every drained handle has been awaited.            *)
Exit ==
    /\ sup = "draining" /\ ~Live
    /\ sup' = "down" /\ pend' = {}
    /\ UNCHANGED <<control, progress, ckpt, lease, task, ghost, faults>>

(* The process dies: the lease's file lock goes with it.                   *)
Crash ==
    /\ sup # "down" /\ Fault
    /\ sup' = "down" /\ pend' = {}
    /\ task' = NoTask
    /\ lease' = IF lease = "scanner" THEN "free" ELSE lease
    /\ ghost' = (ghost \ {"asked"}) \cup {"lost"}
    /\ UNCHANGED <<control, progress, ckpt>>

Boot ==
    /\ sup = "down" /\ sup' = "up"
    /\ UNCHANGED <<control, progress, ckpt, lease, task, pend, ghost, faults>>

----------------------------------------------------------------------------
(* The task: run_catalog_scan *)

(* The locals of a pass go out of scope with it. *)
Jumped(pc, retries) == [task EXCEPT !.pc = pc, !.retries = retries, !.before = At("idle"), !.from = 0]
Goto(pc) == task' = Jumped(pc, task.retries)

(* What publishing writes, or the write that fails and is only logged.     *)
Publish(p) ==
    \/ /\ progress' = p
       /\ ghost' = ghost \ (IF p.state = progress.state THEN {"resumed"} ELSE {"lost", "resumed"})
       /\ UNCHANGED faults
    \/ /\ Fault /\ UNCHANGED progress
       /\ ghost' = ghost \cup {"lost"}

(* reconcile_cancelled_catalog_scan.                                       *)
CanReconcile == lease = "free" /\ control = "running" /\ progress.state \in {"idle", "running"}

(* Mutated: a cancelled scan leaves its progress to the next reader.       *)
ReconcileNothing == UNCHANGED <<progress, ghost, faults>>

Reconcile ==
    \/ CanReconcile /\ Publish(Failed("interrupted"))
    \/ /\ ~CanReconcile
       /\ ghost' = IF lease = "free" THEN ghost ELSE ghost \cup {"lost"}
       /\ UNCHANGED <<progress, faults>>

ReconcileCancelled ==
    /\ task.pc = "cancelling" /\ Goto("ended") /\ Reconcile
    /\ UNCHANGED <<control, ckpt, lease, sup, pend>>

ReconcileRejected ==
    /\ "rejected" \in pend /\ pend' = pend \ {"rejected"} /\ Reconcile
    /\ UNCHANGED <<control, ckpt, lease, task, sup>>

Head ==
    /\ task.pc = "head"
    /\ Goto(IF Cancelled THEN "cancelling" ELSE "start")
    /\ UNCHANGED <<control, progress, ckpt, lease, sup, pend, ghost, faults>>

(* A wait for a work slot, or for the next attempt, that cancellation ends. *)
(* The driver a waiting pass owns is dropped with its closure.             *)
CancelledWaiting ==
    /\ Cancelled /\ task.pc \in {"start", "busy", "backoff", "driver"}
    /\ Goto("cancelling")
    /\ lease' = IF task.pc = "driver" THEN "free" ELSE lease
    /\ UNCHANGED <<control, progress, ckpt, sup, pend, ghost, faults>>

(* AttachedCatalogParquetScanDriver::try_start.                            *)
TryStart ==
    /\ task.pc = "start"
    /\ \/ lease = "free" /\ lease' = "scanner" /\ Goto("driver")
       \/ lease # "free" /\ UNCHANGED lease /\ Goto("busy")
    /\ UNCHANGED <<control, progress, ckpt, sup, pend, ghost, faults>>

(* Contention at the start: retried, or published under a lease of its own. *)
StartContended ==
    /\ task.pc = "start" /\ Fault
    /\ \/ /\ task.retries < MaxRetries
          /\ task' = Jumped("backoff", task.retries + 1)
          /\ UNCHANGED <<progress, ghost>>
       \/ /\ task.retries = MaxRetries
          /\ Goto("ended")
          /\ progress' = IF lease = "free" THEN Failed("contention") ELSE progress
          /\ ghost' = (ghost \ (IF lease = "free" THEN {"asked", "resumed"} ELSE {"asked"})) \cup {"lost"}
    /\ UNCHANGED <<control, ckpt, lease, sup, pend>>

(* Any other error at the start, or in the check after a busy lease, ends  *)
(* the task and publishes nothing.                                         *)
StartFails ==
    /\ task.pc \in {"start", "busy"} /\ Fault
    /\ Goto("ended")
    /\ ghost' = (ghost \ {"asked"}) \cup {"lost"}
    /\ UNCHANGED <<control, progress, ckpt, lease, sup, pend>>

(* The lease was held: retry only while the user still wants the scan.     *)
RetryCheck ==
    /\ task.pc = "busy"
    /\ Goto(IF control = "running" /\ progress.state # "completed" THEN "backoff" ELSE "leaving")
    /\ UNCHANGED <<control, progress, ckpt, lease, sup, pend, ghost, faults>>

Backoff ==
    /\ task.pc = "backoff" /\ Goto("head")
    /\ UNCHANGED <<control, progress, ckpt, lease, sup, pend, ghost, faults>>

(* After a report that ends the scan: a cancellation is reconciled.        *)
Leave ==
    /\ task.pc = "leaving"
    /\ Goto(IF Cancelled THEN "cancelling" ELSE "ended")
    /\ UNCHANGED <<control, progress, ckpt, lease, sup, pend, ghost, faults>>

----------------------------------------------------------------------------
(* A pass: scan_pass_with_cancel *)

Served == ghost \ {"asked"}

(* The pass is interrupted.  A pass that started from a clean pause and has *)
(* committed nothing since puts the pause back (publish_scan_failure).     *)
PassStart == IF task.pc = "driver" THEN [before |-> progress, from |-> ckpt.done]
                                   ELSE [before |-> task.before, from |-> task.from]
InterruptedAs(cause) ==
    IF PassStart.before.state = "paused" /\ ckpt.done = PassStart.from THEN PassStart.before
                                                                      ELSE Failed(cause)

(* Mutated: a session does not load the checkpoint of the previous one. *)
BeginPassAfresh ==
    /\ task.pc = "driver"
    /\ ckpt' = [done |-> 0, mark |-> "open"]
    /\ progress' = At("running")
    /\ task' = [task EXCEPT !.pc = "pass"]
    /\ UNCHANGED <<control, lease, sup, pend, ghost, faults>>

(* Mutated: a finished report keeps the driver. *)
BeginPassKeepingLease ==
    /\ task.pc = "driver"
    /\ UNCHANGED <<control, ckpt, sup, pend, faults>>
    /\ \/ /\ ckpt.mark = "complete" \/ control = "paused"
          /\ progress' = At(IF ckpt.mark = "complete" THEN "completed" ELSE "paused")
          /\ Goto("leaving") /\ UNCHANGED lease
          /\ ghost' = Served
       \/ /\ ckpt.mark = "open" /\ control = "running"
          /\ progress' = IF progress.state = "paused" THEN progress ELSE At("running")
          /\ task' = [task EXCEPT !.pc = "pass", !.before = progress, !.from = ckpt.done]
          /\ ghost' = Served \ {"lost"}
          /\ UNCHANGED lease

(* The pass's first reads: whether it is complete, paused, or cancelled;   *)
(* a new pass publishes "running", one that resumes a pause does not yet.  *)
BeginPass ==
    /\ task.pc = "driver"
    /\ UNCHANGED <<control, ckpt, sup, pend, faults>>
    /\ \/ /\ ckpt.mark = "complete"
          /\ progress' = At("completed") /\ lease' = "free" /\ Goto("leaving")
          /\ ghost' = Served
       \/ /\ ckpt.mark = "open" /\ control = "paused"
          /\ progress' = At("paused") /\ lease' = "free" /\ Goto("leaving")
          /\ ghost' = Served \ {"lost"}
       \/ /\ ckpt.mark = "open" /\ control = "running"
          /\ progress' = IF progress.state = "paused" THEN progress ELSE At("running")
          /\ task' = [task EXCEPT !.pc = "pass", !.before = progress, !.from = ckpt.done]
          /\ ghost' = Served \ {"lost"}
          /\ UNCHANGED lease

(* Cancellation seen while the source is listed and verified, or by the    *)
(* check that follows.                                                     *)
BeginInterrupted ==
    /\ task.pc = "driver" /\ Cancelled
    /\ \E cause \in {"canceled", "interrupted"} :
          /\ cause = "interrupted" => ckpt.mark = "open" /\ control = "running"
          /\ Publish(InterruptedAs(cause))
    /\ lease' = "free" /\ Goto("ended")
    /\ UNCHANGED <<control, ckpt, sup, pend>>

(* One durable batch (flush_batch): rows, checkpoint and progress commit   *)
(* together.  The row budget may end the pass here and keep the driver.    *)
Committed(state) == ckpt' = [ckpt EXCEPT !.done = @ + 1] /\ progress' = At(state)

Batch ==
    /\ task.pc = "pass" /\ ckpt.done < Batches
    /\ UNCHANGED <<control, sup, pend, faults>>
    /\ \/ /\ control = "paused"
          /\ Committed("paused") /\ lease' = "free"
          /\ task' = Jumped("leaving", 0)
          /\ UNCHANGED ghost
       \/ /\ control = "running" /\ ~Cancelled
          /\ Committed("running")
          /\ \/ task' = task
             \/ task' = Jumped("driver", 0)
          /\ ghost' = ghost \ {"lost"}
          /\ UNCHANGED lease

(* A cancelled pass commits its pending rows, then publishes.              *)
BatchCancelled ==
    /\ task.pc = "pass" /\ control = "running" /\ Cancelled /\ ckpt.done < Batches
    /\ ckpt' = [ckpt EXCEPT !.done = @ + 1]
    /\ \/ /\ progress' = Failed("interrupted")
          /\ ghost' = ghost \ {"lost", "resumed"}
          /\ UNCHANGED faults
       \/ /\ Fault /\ progress' = At("running")
          /\ ghost' = ghost \cup {"lost"}
    /\ lease' = "free" /\ Goto("ended")
    /\ UNCHANGED <<control, sup, pend>>

(* Mutated: the last batch is taken for flushed. *)
CompleteEarly ==
    /\ task.pc = "pass" /\ ckpt.done + 1 >= Batches
    /\ ckpt' = [ckpt EXCEPT !.mark = "complete"]
    /\ progress' = At("completed") /\ lease' = "free"
    /\ task' = Jumped("leaving", 0)
    /\ UNCHANGED <<control, sup, pend, ghost, faults>>

(* The last flush marks the checkpoint complete and publishes completion.  *)
Complete ==
    /\ task.pc = "pass" /\ ckpt.done = Batches
    /\ ckpt' = [ckpt EXCEPT !.mark = "complete"]
    /\ progress' = At("completed") /\ lease' = "free"
    /\ task' = Jumped("leaving", 0)
    /\ UNCHANGED <<control, sup, pend, ghost, faults>>

(* Contention in a pass publishes nothing; the session is retried after    *)
(* the driver is dropped, or its end is published under the lease.         *)
PassContended ==
    /\ task.pc \in Holding /\ Fault
    /\ lease' = "free"
    /\ \/ /\ task.retries < MaxRetries
          /\ task' = Jumped("backoff", task.retries + 1)
          /\ UNCHANGED <<progress, ghost>>
       \/ /\ task.retries = MaxRetries
          /\ Goto("ended") /\ progress' = Failed("contention")
          /\ ghost' = ghost \ {"asked", "resumed"}
    /\ UNCHANGED <<control, ckpt, sup, pend>>

(* Any other error; one that races a cancellation is an interruption.  The *)
(* write that publishes it may fail as well.                               *)
PassFails ==
    /\ task.pc \in Holding /\ Fault
    /\ LET outcome == IF Cancelled THEN InterruptedAs("interrupted") ELSE Failed("error")
       IN  \/ /\ progress' = outcome
              /\ ghost' = ghost \ {"asked", "resumed"}
           \/ /\ UNCHANGED progress
              /\ ghost' = (ghost \ {"asked"}) \cup {"lost"}
    /\ lease' = "free" /\ Goto("ended")
    /\ UNCHANGED <<control, ckpt, sup, pend>>

(* The blocking task of a pass panics: its driver is dropped and the       *)
(* session loop starts again.                                              *)
PassPanics ==
    /\ task.pc \in Holding /\ Fault
    /\ lease' = "free" /\ Goto("head")
    /\ UNCHANGED <<control, progress, ckpt, sup, pend, ghost>>

----------------------------------------------------------------------------
(* Requests, and other holders of the lease *)

(* pause_catalog: the lease must be held, by whoever, and the published    *)
(* state must be "running"; the control is committed in a second step,     *)
(* which fails if another request committed first (its revision moved).    *)
PauseCheck ==
    /\ sup = "up" /\ "pause" \notin pend
    /\ lease # "free" /\ control = "running" /\ progress.state = "running"
    /\ pend' = pend \cup {"pause"}
    /\ UNCHANGED <<control, progress, ckpt, lease, task, sup, ghost, faults>>

PauseCommit ==
    /\ "pause" \in pend /\ pend' = pend \ {"pause"} /\ control' = "paused"
    /\ UNCHANGED <<progress, ckpt, lease, task, sup, ghost, faults>>

(* resume_catalog: under the lease, after an orphaned "running" has been   *)
(* reconciled, a clean pause or a failure may be resumed.                  *)
ResumeValid == (control = "paused" /\ progress.state = "paused") \/ Orphaned.state = "failed"

Resume ==
    /\ sup = "up" /\ lease = "free" /\ "resume" \notin pend
    /\ ResumeValid
    /\ control' = "running"
    /\ progress' = Orphaned
    /\ pend' = (pend \ {"pause"}) \cup {"resume"}
    /\ ghost' = ghost \cup {"asked", "resumed"}
    /\ UNCHANGED <<ckpt, lease, task, sup, faults>>

(* Mutated: a failure is a failure. *)
RestartableUnfailed(p) == p.state \notin {"completed", "failed"}

(* Mutated: any failure is taken up again. *)
RestartableFailed(p) == p.state # "completed"

(* persisted_scan_recovery, called by every status request: what the       *)
(* previous process left unfinished, and the user still wants, is          *)
(* scheduled again.  A failure is taken up again only when its message     *)
(* contains "interrupted".                                                 *)
Restartable(p) == p.state # "completed" /\ (p.state = "failed" => p.cause = "interrupted")

(* Mutated: a paused catalog needs no recovery. *)
PollOfWanted ==
    /\ sup = "up" /\ lease = "free" /\ "poll" \notin pend
    /\ control = "running" /\ Restartable(progress)
    /\ pend' = pend \cup {"poll"}
    /\ UNCHANGED <<control, progress, ckpt, lease, task, sup, ghost, faults>>

Poll ==
    /\ sup = "up" /\ lease = "free" /\ "poll" \notin pend
    /\ \/ /\ control = "paused" /\ progress' = Orphaned /\ UNCHANGED pend
       \/ /\ control = "running" /\ Restartable(progress)
          /\ pend' = pend \cup {"poll"} /\ UNCHANGED progress
    /\ UNCHANGED <<control, ckpt, lease, task, sup, ghost, faults>>

(* list_catalogs and attach_catalog reconcile what they show.              *)
List ==
    /\ sup = "up" /\ lease = "free" /\ progress' = Orphaned
    /\ UNCHANGED <<control, ckpt, lease, task, sup, pend, ghost, faults>>

(* Analysis jobs, image fetches and dataset materialisation take the same  *)
(* lease, in this process or a worker's.                                   *)
OtherTakes ==
    /\ lease = "free" /\ lease' = "other" /\ Fault
    /\ UNCHANGED <<control, progress, ckpt, task, sup, pend, ghost>>

OtherDrops ==
    /\ lease = "other" /\ lease' = "free"
    /\ UNCHANGED <<control, progress, ckpt, task, sup, pend, ghost, faults>>

----------------------------------------------------------------------------
TaskStep ==
    \/ Head \/ CancelledWaiting \/ TryStart \/ RetryCheck \/ Backoff \/ Leave
    \/ BeginPass \/ BeginInterrupted \/ Batch \/ BatchCancelled \/ Complete
    \/ ReconcileCancelled \/ Reap

SupervisorStep == (\E k \in pend : Spawn(k)) \/ ReconcileRejected \/ Exit \/ Boot

Faulty ==
    \/ StartContended \/ StartFails \/ PassContended \/ PassFails \/ PassPanics
    \/ Shutdown \/ Crash \/ OtherTakes

Request == PauseCheck \/ Resume \/ List

Next == TaskStep \/ SupervisorStep \/ Faulty \/ Request \/ PauseCommit \/ Poll \/ OtherDrops

Spec == Init /\ [][Next]_vars

(* The task and the supervisor run on the API's executor; a foreign holder *)
(* gives the lease back; a client keeps asking for the status; the         *)
(* application is started again.                                           *)
FairSpec ==
    /\ Spec
    /\ WF_vars(TaskStep) /\ WF_vars(SupervisorStep)
    /\ WF_vars(PauseCommit) /\ WF_vars(Poll) /\ WF_vars(OtherDrops)

----------------------------------------------------------------------------
(* Properties *)

(* Every variable stays in its domain; a pause in flight and pending       *)
(* requests belong to a process that is running.                           *)
CatalogTypeOK ==
    /\ control \in {"running", "paused"}
    /\ progress \in Progresses
    /\ ckpt \in [done : 0..Batches, mark : {"open", "complete"}]
    /\ lease \in {"free", "scanner", "other"}
    /\ task \in Tasks
    /\ sup \in {"up", "draining", "down"}
    /\ pend \subseteq Schedules \cup {"pause", "rejected"}
    /\ ghost \subseteq {"asked", "lost", "resumed"}
    /\ faults \in 0..MaxFaults
    /\ sup = "down" => pend = {} /\ ~Live

(* The scanner's lease lives exactly as long as its driver: a task that    *)
(* waits, backs off, leaves or has ended does not hold the catalog against *)
(* other processors, or against its own next attempt, and a task in a pass *)
(* does hold it.                                                           *)
LeaseFollowsDriver == lease = "scanner" <=> task.pc \in Holding

(* A resume the API accepted is not lost in the teardown of the previous   *)
(* generation: until a pass has read it, or an error ends the attempt, the *)
(* request is on its way to the supervisor, or the live task will still    *)
(* read the control, or a successor has been left with the live task.      *)
AcceptedResumeHeld ==
    "asked" \in ghost =>
        \/ "resume" \in pend
        \/ task.pc \in {"head", "start", "busy", "backoff"} \cup Holding
        \/ "restart" \in task.flags

(* "Completed" is only ever published over a complete checkpoint, and a    *)
(* complete checkpoint has every batch.                                    *)
CompletedBacked ==
    /\ progress.state = "completed" => ckpt.mark = "complete"
    /\ ckpt.mark = "complete" => ckpt.done = Batches

(* A graceful shutdown does not leave a catalog that claims to be running: *)
(* once the drained task is gone, the interruption has been published,     *)
(* unless the write failed or someone else held the lease at that moment,  *)
(* or the process had crashed or a start failed since the last publication. *)
ShutdownPublishes ==
    sup = "draining" /\ ~Live /\ control = "running" /\ "lost" \notin ghost
        => progress.state # "running"

(* No step of scan, recovery, resume or crash takes committed batches back *)
(* or re-opens a complete checkpoint.                                      *)
CheckpointKept == [][ckpt'.done >= ckpt.done /\ (ckpt.mark = "complete" => ckpt'.mark = "complete")]_vars

(* A failure that status requests leave alone, its message without the     *)
(* word "interrupted": a real one, or the interruption that lacks it.      *)
Final(p) == p.state = "failed" /\ p.cause # "interrupted"

RealFailure(p) == p \in {Failed("contention"), Failed("error")}

(* A shutdown cancelled the validation of the source with which a pass     *)
(* begins: the scan was wanted and interrupted, and nothing but a resume   *)
(* of the operator takes it up again.                                      *)
Stranded(p) == p = Failed("canceled")

(* While the user wants the scan, it is carried through crashes, restarts, *)
(* lost publications and foreign leases to completion, unless a real       *)
(* failure is published, the user pauses it, or it is stranded by a        *)
(* shutdown during validation, which is the one interruption that is not   *)
(* made up for.                                                            *)
ScanSettles ==
    control = "running" ~>
        \/ control = "paused"
        \/ progress.state = "completed" \/ RealFailure(progress) \/ Stranded(progress)

(* An accepted pause ends the scan: the scanner lets go of the catalog and *)
(* a state that is not "running" is published, unless the user resumes.    *)
PauseSettles ==
    control = "paused" ~> (control = "running" \/ (lease # "scanner" /\ progress.state # "running"))

(* Such a failure, its driver gone and no request that was made before it  *)
(* still on its way.                                                       *)
FailureRests == Final(progress) /\ ~Live /\ pend \cap Schedules = {}

(* A failure whose message does not say "interrupted", the stranded scan   *)
(* included, is terminal until the operator resumes it: no status request, *)
(* listing, crash or restart of the API takes the scan up again            *)
(* (persisted_scan_recovery).                                              *)
FailureStays == [][FailureRests => FailureRests' \/ "resumed" \in ghost']_vars
==============================================================================
