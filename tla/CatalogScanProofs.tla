-------------------------- MODULE CatalogScanProofs --------------------------
(***************************************************************************)
(* Proofs about CatalogScan, for every number of batches, retries and      *)
(* faults.                                                                 *)
(*                                                                         *)
(* None of the safety invariants is inductive alone.  That an accepted     *)
(* resume is held needs to know that no step but a pass can undo what the  *)
(* resume committed; that needs the supervisor's own discipline (a task is *)
(* cancelled only by shutdown, a rejection exists only while draining).    *)
(* That a drained scan has published needs to know, of every earlier step, *)
(* which program points may still owe a publication.                       *)
(***************************************************************************)
EXTENDS CatalogScan, TLAPS

(* The supervisor's discipline. *)
Supervised ==
    /\ sup = "up" => ~Cancelled /\ "rejected" \notin pend
    /\ sup = "up" /\ Live => "registered" \in task.flags
    /\ ~Live => ~Cancelled

(* What an accepted resume committed stands until a pass reads it. *)
ResumeStands ==
    "asked" \in ghost =>
        /\ sup = "up" /\ control = "running" /\ "pause" \notin pend
        /\ progress.state \in {"paused", "failed"}
        /\ task.pc # "pass"

(* Where a published "running" that nobody asked to pause may still be     *)
(* answered for.                                                           *)
RunningAnswered ==
    progress.state = "running" /\ control = "running" /\ "lost" \notin ghost
        => task.pc \in {"head", "start", "busy", "backoff", "cancelling"} \cup Holding

(* The inductive invariant. *)
CatalogInv ==
    /\ CatalogTypeOK /\ Supervised /\ LeaseFollowsDriver /\ CompletedBacked
    /\ ResumeStands /\ AcceptedResumeHeld /\ RunningAnswered

(* The published values are well formed and tell their state. *)
LEMMA PublishedValues ==
    /\ \A st \in {"idle", "running", "paused", "completed"} :
          At(st) \in Progresses /\ At(st).state = st
    /\ \A c \in Causes \ {"none"} : Failed(c) \in Progresses /\ Failed(c).state = "failed"
BY ZenonT(30) DEF Progresses, At, Failed, Causes

(* Tasks stay well formed as their program counter moves. *)
LEMMA NewTasks ==
    /\ NoTask \in Tasks /\ NoTask.pc = "none" /\ NoTask.flags = {}
    /\ Fresh \in Tasks /\ Fresh.pc = "head" /\ Fresh.flags = {"registered"}
<1>1. NoTask \in Tasks /\ NoTask.pc = "none" /\ NoTask.flags = {}
  BY CatalogAssumption, PublishedValues DEF NoTask, Tasks, PCs
<1>2. Fresh = [NoTask EXCEPT !.pc = "head", !.flags = {"registered"}]
  BY DEF Fresh
<1> QED BY ZenonT(30), <1>1, <1>2 DEF Tasks, PCs

LEMMA MovedTasks ==
    ASSUME task \in Tasks, NEW pc \in PCs, NEW n \in 0..MaxRetries
    PROVE  /\ Jumped(pc, n) \in Tasks
           /\ Jumped(pc, n).pc = pc /\ Jumped(pc, n).flags = task.flags
<1>1. At("idle") \in Progresses /\ 0 \in 0..Batches
  BY CatalogAssumption, PublishedValues
<1> QED BY ZenonT(30), <1>1 DEF Jumped, Tasks

(* What an interrupted pass publishes is a failure or the pause it began from. *)
LEMMA InterruptedValues ==
    ASSUME task \in Tasks, progress \in Progresses, NEW c \in Causes \ {"none"}
    PROVE  InterruptedAs(c) \in Progresses /\ InterruptedAs(c).state \in {"paused", "failed"}
BY PublishedValues DEF InterruptedAs, PassStart, Tasks

(* A step does not disturb the invariant, and keeps the checkpoint. *)
StepKeeps == CatalogInv' /\ ckpt'.done >= ckpt.done /\ (ckpt.mark = "complete" => ckpt'.mark = "complete")

LEMMA InitHolds == Init => CatalogInv
BY CatalogAssumption, PublishedValues, NewTasks
   DEF Init, CatalogInv, CatalogTypeOK, Supervised, LeaseFollowsDriver, CompletedBacked,
       ResumeStands, AcceptedResumeHeld, RunningAnswered, Live, Cancelled, Schedules, Holding, PCs, Causes

LEMMA StepHolds == ASSUME CatalogInv, [Next]_vars PROVE StepKeeps
<1>t. task \in Tasks
  BY DEF CatalogInv, CatalogTypeOK
<1>m. task.retries \in 0..MaxRetries /\ task.from \in 0..Batches /\ task.pc \in PCs
      /\ task.flags \subseteq {"cancelled", "restart", "registered"} /\ task.before \in Progresses
  BY <1>t DEF Tasks
<1>j. \A pc \in PCs, n \in 0..MaxRetries :
          /\ Jumped(pc, n) \in Tasks
          /\ Jumped(pc, n).pc = pc /\ Jumped(pc, n).flags = task.flags
  BY <1>t, MovedTasks
<1>i. \A c \in Causes \ {"none"} :
          InterruptedAs(c) \in Progresses /\ InterruptedAs(c).state \in {"paused", "failed"}
  BY <1>t, InterruptedValues DEF CatalogInv, CatalogTypeOK
<1> USE CatalogAssumption, PublishedValues, NewTasks, <1>m, <1>j
    DEF StepKeeps, CatalogInv, CatalogTypeOK, Supervised, LeaseFollowsDriver, CompletedBacked,
        ResumeStands, AcceptedResumeHeld, RunningAnswered, Live, Cancelled, Schedules, Holding, PCs, Causes
<1>s. ASSUME NEW k \in pend, Spawn(k) PROVE StepKeeps
  <2>1. CASE task' = [task EXCEPT !.flags = @ \cup {"restart"}]
    <3>1. task' \in Tasks /\ task'.pc = task.pc /\ task'.flags = task.flags \cup {"restart"}
      BY <1>t, <2>1 DEF Tasks
    <3> QED BY <1>s, <3>1 DEF Spawn
  <2>2. CASE ~Live \/ sup = "draining"
    BY <1>s, <2>2 DEF Spawn
  <2> QED BY <1>s, <2>1, <2>2 DEF Spawn
<1>1. CASE Head
  BY <1>1 DEF Head, Goto
<1>2. CASE CancelledWaiting
  BY <1>2 DEF CancelledWaiting, Goto
<1>3. CASE TryStart
  BY <1>3 DEF TryStart, Goto
<1>4. CASE RetryCheck
  BY <1>4 DEF RetryCheck, Goto
<1>5. CASE Backoff
  BY <1>5 DEF Backoff, Goto
<1>6. CASE Leave
  BY <1>6 DEF Leave, Goto
<1>7. CASE BeginPass
  <2>1. CASE control = "running" /\ ckpt.mark = "open"
    <3>0. task' = [task EXCEPT !.pc = "pass", !.before = progress, !.from = ckpt.done]
      BY <1>7, <2>1 DEF BeginPass
    <3>1. task' \in Tasks /\ task'.pc = "pass" /\ task'.flags = task.flags
      BY ZenonT(30), <1>t, <3>0 DEF Tasks
    <3> QED BY <1>7, <2>1, <3>1 DEF BeginPass, Served
  <2>2. CASE ~(control = "running" /\ ckpt.mark = "open")
    BY <1>7, <2>2 DEF BeginPass, Goto, Served
  <2> QED BY <2>1, <2>2
<1>8. CASE BeginInterrupted
  <2>1. PICK c \in {"canceled", "interrupted"} : Publish(InterruptedAs(c))
    BY <1>8 DEF BeginInterrupted
  <2>2. CASE progress' = InterruptedAs(c) /\ UNCHANGED faults /\ ghost' \subseteq ghost
    BY <1>8, <1>i, <2>2 DEF BeginInterrupted, Goto
  <2>3. CASE UNCHANGED progress /\ Fault /\ ghost' = ghost \cup {"lost"}
    BY <1>8, <2>3 DEF BeginInterrupted, Goto, Fault
  <2> QED BY <2>1, <2>2, <2>3 DEF Publish
<1>9. CASE Batch
  BY <1>9 DEF Batch, Committed
<1>10. CASE BatchCancelled
  BY <1>10 DEF BatchCancelled, Goto, Fault
<1>11. CASE Complete
  BY <1>11 DEF Complete
<1>12. CASE ReconcileCancelled
  <2>1. CASE CanReconcile /\ progress' = Failed("interrupted") /\ UNCHANGED faults
                /\ ghost' \subseteq ghost
    BY <1>12, <2>1 DEF ReconcileCancelled, Goto, CanReconcile
  <2>2. CASE CanReconcile /\ UNCHANGED progress /\ Fault /\ ghost' = ghost \cup {"lost"}
    BY <1>12, <2>2 DEF ReconcileCancelled, Goto, CanReconcile, Fault
  <2>3. CASE ~CanReconcile /\ UNCHANGED <<progress, faults>>
    <3>1. /\ task.pc = "cancelling" /\ task' = Jumped("ended", task.retries) /\ UNCHANGED pend
          /\ UNCHANGED <<control, progress, ckpt, lease, sup, faults>>
          /\ ghost' = IF lease = "free" THEN ghost ELSE ghost \cup {"lost"}
      BY <1>12, <2>3 DEF ReconcileCancelled, Goto, Reconcile
    <3>2. "asked" \in ghost' => "asked" \in ghost
      BY <3>1
    <3>3. "lost" \notin ghost' => "lost" \notin ghost /\ lease = "free"
      BY <3>1
    <3>4. ghost' \subseteq {"asked", "lost", "resumed"}
      BY <3>1
    <3> QED BY <2>3, <3>1, <3>2, <3>3, <3>4 DEF CanReconcile
  <2> QED BY <1>12, <2>1, <2>2, <2>3 DEF ReconcileCancelled, Reconcile, Publish
<1>13. CASE Reap
  BY <1>13 DEF Reap
<1>14. CASE ReconcileRejected
  <2>1. CASE CanReconcile /\ progress' = Failed("interrupted") /\ UNCHANGED faults
                /\ ghost' \subseteq ghost
    BY <1>14, <2>1 DEF ReconcileRejected, CanReconcile
  <2>2. CASE CanReconcile /\ UNCHANGED progress /\ Fault /\ ghost' = ghost \cup {"lost"}
    BY <1>14, <2>2 DEF ReconcileRejected, CanReconcile, Fault
  <2>3. CASE ~CanReconcile /\ UNCHANGED <<progress, faults>>
    <3>1. /\ UNCHANGED task /\ pend' = pend \ {"rejected"} /\ "rejected" \in pend
          /\ UNCHANGED <<control, progress, ckpt, lease, sup, faults>>
          /\ ghost' = IF lease = "free" THEN ghost ELSE ghost \cup {"lost"}
      BY <1>14, <2>3 DEF ReconcileRejected, Reconcile
    <3>2. "asked" \in ghost' => "asked" \in ghost
      BY <3>1
    <3>3. "lost" \notin ghost' => "lost" \notin ghost /\ lease = "free"
      BY <3>1
    <3>4. ghost' \subseteq {"asked", "lost", "resumed"}
      BY <3>1
    <3> QED BY <2>3, <3>1, <3>2, <3>3, <3>4 DEF CanReconcile
  <2> QED BY <1>14, <2>1, <2>2, <2>3 DEF ReconcileRejected, Reconcile, Publish
<1>15. CASE Exit
  BY <1>15 DEF Exit
<1>16. CASE Boot
  BY <1>16 DEF Boot
<1>17. CASE StartContended
  <2>1. CASE task.retries < MaxRetries
    <3>1. /\ task.pc = "start" /\ task' = Jumped("backoff", task.retries + 1)
          /\ UNCHANGED <<control, progress, ckpt, lease, sup, pend, ghost>>
      BY <1>17, <2>1 DEF StartContended
    <3>2. faults' \in 0..MaxFaults
      BY <1>17 DEF StartContended, Fault
    <3>3. task.retries + 1 \in 0..MaxRetries
      BY <2>1
    <3>4. task' \in Tasks /\ task'.pc = "backoff" /\ task'.flags = task.flags
      BY <3>1, <3>3
    <3> QED BY <3>1, <3>2, <3>4
  <2>2. CASE task.retries = MaxRetries
    <3>1. /\ task.pc = "start" /\ task' = Jumped("ended", task.retries)
          /\ progress' \in {progress, Failed("contention")}
          /\ "lost" \in ghost' /\ "asked" \notin ghost' /\ ghost' \subseteq ghost \cup {"lost"}
          /\ UNCHANGED <<control, ckpt, lease, sup, pend>>
      BY <1>17, <2>2 DEF StartContended, Goto
    <3>2. faults' \in 0..MaxFaults
      BY <1>17 DEF StartContended, Fault
    <3> QED BY <3>1, <3>2
  <2> QED BY <1>17, <2>1, <2>2 DEF StartContended
<1>18. CASE StartFails
  BY <1>18 DEF StartFails, Goto, Fault
<1>19. CASE PassContended
  <2>1. CASE task.retries < MaxRetries
    <3>1. /\ task.pc \in Holding /\ lease' = "free" /\ task' = Jumped("backoff", task.retries + 1)
          /\ UNCHANGED <<control, progress, ckpt, sup, pend, ghost>>
      BY <1>19, <2>1 DEF PassContended
    <3>2. faults' \in 0..MaxFaults
      BY <1>19 DEF PassContended, Fault
    <3>3. task.retries + 1 \in 0..MaxRetries
      BY <2>1
    <3>4. task' \in Tasks /\ task'.pc = "backoff" /\ task'.flags = task.flags
      BY <3>1, <3>3
    <3> QED BY <3>1, <3>2, <3>4
  <2>2. CASE task.retries = MaxRetries
    <3>1. /\ task.pc \in Holding /\ lease' = "free" /\ task' = Jumped("ended", task.retries)
          /\ progress' = Failed("contention") /\ ghost' = ghost \ {"asked", "resumed"}
          /\ UNCHANGED <<control, ckpt, sup, pend>>
      BY <1>19, <2>2 DEF PassContended, Goto
    <3>2. faults' \in 0..MaxFaults
      BY <1>19 DEF PassContended, Fault
    <3> QED BY <3>1, <3>2
  <2> QED BY <1>19, <2>1, <2>2 DEF PassContended
<1>20. CASE PassFails
  <2>1. CASE UNCHANGED progress /\ ghost' = (ghost \ {"asked"}) \cup {"lost"}
    BY <1>20, <2>1 DEF PassFails, Goto, Fault
  <2>2. CASE progress' = Failed("error") /\ ghost' = ghost \ {"asked", "resumed"}
    BY <1>20, <2>2 DEF PassFails, Goto, Fault
  <2>3. CASE progress' = InterruptedAs("interrupted") /\ ghost' = ghost \ {"asked", "resumed"}
    BY <1>20, <1>i, <2>3 DEF PassFails, Goto, Fault
  <2> QED BY <1>20, <2>1, <2>2, <2>3 DEF PassFails
<1>21. CASE PassPanics
  BY <1>21 DEF PassPanics, Goto, Fault
<1>22. CASE Shutdown
  <2>1. Live => task' \in Tasks /\ task'.pc = task.pc /\ task'.flags = {"cancelled"}
    BY <1>22, <1>t DEF Shutdown, Tasks
  <2> QED BY <1>22, <2>1 DEF Shutdown, Fault
<1>23. CASE Crash
  BY <1>23 DEF Crash, Fault
<1>24. CASE OtherTakes
  BY <1>24 DEF OtherTakes, Fault
<1>25. CASE PauseCheck
  BY <1>25 DEF PauseCheck
<1>26. CASE Resume
  BY <1>26 DEF Resume, ResumeValid, Orphaned
<1>27. CASE List
  BY <1>27 DEF List, Orphaned
<1>28. CASE PauseCommit
  BY <1>28 DEF PauseCommit
<1>29. CASE Poll
  <2>1. CASE control = "paused"
    <3>1. progress' = Orphaned /\ UNCHANGED <<control, ckpt, lease, task, sup, pend, ghost, faults>>
      BY <1>29, <2>1 DEF Poll
    <3> QED BY <1>29, <2>1, <3>1 DEF Orphaned
  <2>2. CASE control = "running"
    <3>1. pend' = pend \cup {"poll"} /\ sup = "up"
          /\ UNCHANGED <<control, progress, ckpt, lease, task, sup, ghost, faults>>
      BY <1>29, <2>2 DEF Poll
    <3> QED BY <2>2, <3>1
  <2> QED BY <2>1, <2>2
<1>30. CASE OtherDrops
  BY <1>30 DEF OtherDrops
<1>u. CASE UNCHANGED vars
  BY <1>u DEF vars
<1> QED
  BY ZenonT(30), <1>s, <1>1, <1>2, <1>3, <1>4, <1>5, <1>6, <1>7, <1>8, <1>9, <1>10, <1>11, <1>12, <1>13, <1>14, <1>15, <1>16, <1>17, <1>18, <1>19, <1>20, <1>21, <1>22, <1>23, <1>24, <1>25, <1>26, <1>27, <1>28, <1>29, <1>30, <1>u
     DEF Next, TaskStep, SupervisorStep, Faulty, Request

(* The invariant holds in every reachable state. *)
LEMMA CatalogInvHolds == Spec => []CatalogInv
<1>1. CatalogInv /\ [Next]_vars => CatalogInv'
  BY StepHolds DEF StepKeeps
<1> QED BY InitHolds, <1>1, PTL DEF Spec

(* The checkpoint never counts more batches than the catalog has, the      *)
(* progress and the task are ones the code has names for, and a supervisor *)
(* that is down leaves neither a request in progress nor a live task.      *)
THEOREM CatalogTypeCorrect == Spec => []CatalogTypeOK
<1>1. CatalogInv => CatalogTypeOK
  BY DEF CatalogInv
<1> QED BY CatalogInvHolds, <1>1, PTL

(* The scan task holds the catalog's processing lease exactly while it has *)
(* a driver, whatever cancels, retries, panics or crashes it.              *)
THEOREM LeaseDiscipline == Spec => []LeaseFollowsDriver
<1>1. CatalogInv => LeaseFollowsDriver
  BY DEF CatalogInv
<1> QED BY CatalogInvHolds, <1>1, PTL

(* No interleaving of requests, teardown and restart loses a resume the    *)
(* API accepted.                                                           *)
THEOREM ResumeNeverLost == Spec => []AcceptedResumeHeld
<1>1. CatalogInv => AcceptedResumeHeld
  BY DEF CatalogInv
<1> QED BY CatalogInvHolds, <1>1, PTL

(* A published completion has a complete checkpoint with every batch in it. *)
THEOREM CompletionHonest == Spec => []CompletedBacked
<1>1. CatalogInv => CompletedBacked
  BY DEF CatalogInv
<1> QED BY CatalogInvHolds, <1>1, PTL

(* A drained scan has published its interruption. *)
THEOREM DrainPublishes == Spec => []ShutdownPublishes
<1>1. CatalogInv => ShutdownPublishes
  BY DEF CatalogInv, CatalogTypeOK, RunningAnswered, ShutdownPublishes, Live, Holding
<1> QED BY CatalogInvHolds, <1>1, PTL

(* No step takes committed batches back. *)
THEOREM CheckpointNeverMovesBack == Spec => CheckpointKept
<1>1. CatalogInv /\ [Next]_vars
        => [ckpt'.done >= ckpt.done /\ (ckpt.mark = "complete" => ckpt'.mark = "complete")]_vars
  BY StepHolds DEF StepKeeps
<1> QED BY CatalogInvHolds, <1>1, PTL DEF Spec, CheckpointKept

(* A failure whose driver is gone is left alone by everything but a resume. *)
LEMMA RestHolds ==
    ASSUME FailureRests, [Next]_vars PROVE FailureRests' \/ "resumed" \in ghost'
<1>1. /\ progress.state = "failed" /\ progress.cause # "interrupted"
      /\ task.pc = "none" /\ pend \cap Schedules = {}
  BY DEF FailureRests, Final, Live
<1>2. ASSUME task' = task, progress' = progress, pend' \cap Schedules = {}
      PROVE FailureRests'
  BY <1>1, <1>2 DEF FailureRests, Final, Live
<1>3. ~TaskStep
  BY <1>1 DEF TaskStep, Head, CancelledWaiting, TryStart, RetryCheck, Backoff, Leave,
              BeginPass, BeginInterrupted, Batch, BatchCancelled, Complete,
              ReconcileCancelled, Reap
<1>4. ~(\E k \in pend : Spawn(k))
  BY <1>1 DEF Spawn
<1>5. ~StartContended /\ ~StartFails /\ ~PassContended /\ ~PassFails /\ ~PassPanics
  BY <1>1 DEF StartContended, StartFails, PassContended, PassFails, PassPanics, Holding
<1>6. CASE ReconcileRejected
  BY <1>1, <1>2, <1>6 DEF ReconcileRejected, Reconcile, CanReconcile
<1>7. CASE Crash
  <2>1. progress' = progress /\ task' = NoTask /\ pend' = {}
    BY <1>7 DEF Crash
  <2> QED BY <1>1, <2>1, NewTasks DEF FailureRests, Final, Live
<1>8. CASE Shutdown
  BY <1>1, <1>2, <1>8 DEF Shutdown, Live
<1>9. CASE Resume
  BY <1>9 DEF Resume
<1>10. CASE Poll \/ List
  BY <1>1, <1>2, <1>10 DEF Poll, List, Orphaned, Restartable
<1>11. CASE Exit \/ Boot \/ OtherTakes \/ OtherDrops \/ UNCHANGED vars
  BY <1>1, <1>2, <1>11 DEF Exit, Boot, OtherTakes, OtherDrops, vars
<1>12. CASE PauseCheck \/ PauseCommit
  BY <1>1, <1>2, <1>12 DEF PauseCheck, PauseCommit, Schedules
<1> QED BY <1>3, <1>4, <1>5, <1>6, <1>7, <1>8, <1>9, <1>10, <1>11, <1>12
        DEF Next, SupervisorStep, Faulty, Request

(* A real scan failure that has come to rest stays until the operator      *)
(* resumes it, whatever polls, lists, shuts down or restarts.              *)
THEOREM FailureIsTerminal == Spec => FailureStays
<1>1. [Next]_vars => [FailureRests => FailureRests' \/ "resumed" \in ghost']_vars
  BY RestHolds
<1> QED BY <1>1, PTL DEF Spec, FailureStays
==============================================================================
