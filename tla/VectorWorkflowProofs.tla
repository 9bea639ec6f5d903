------------------------ MODULE VectorWorkflowProofs -------------------------
(***************************************************************************)
(* Proofs about VectorWorkflow, for every number of workflows and workers  *)
(* and every bound on the API restarts.                                    *)
(*                                                                         *)
(* The argument is local to a parent.  FlowOK(p) says what the tasks of p  *)
(* know of its row, of its child and of the child's image; a step either   *)
(* leaves p's tasks alone, and then it may only move p's row forward, or   *)
(* it is a step of one of them.                                            *)
(*                                                                         *)
(* A parent that ever had two coordinators is exempt from what is said of  *)
(* its image; the others have one at a time.                               *)
(*                                                                         *)
(* DutyOK(p), on top of it, says who still works for p: as long as p waits *)
(* or runs, or has left an image behind, one of its tasks is there.        *)
(***************************************************************************)
EXTENDS VectorWorkflow, JobsStoreProofs

Places == {"none", "watch", "prepared", "promoting", "abandoning", "ending", "cleaning"}

FlowTypes ==
    /\ creator \in [JobIds -> {"none", "created", "linking", "unlinking"}]
    /\ childOf \in [JobIds -> JobIds \cup {NoJob}]
    /\ coord \in [JobIds -> [Spawners -> Places]]
    /\ cascade \in [JobIds -> [at : {"none", "child", "purge"}, seen : Payloads]]
    /\ asset \in [JobIds -> {"none", "published", "purged", "restored"}]
    /\ doubled \subseteq JobIds

\* What is not the row of a parent has no task and no child.
Fresh ==
    \A p \in JobIds \ Parents :
        creator[p] = "none" /\ childOf[p] = NoJob /\ coord[p] = NoCoords /\ cascade[p] = NoCascade

\* No job of a workflow waits for a caption.
NoCaption == \A j \in Rows : jobs[j].status # "pending_caption"

\* No two parents share a child.
OwnChild ==
    \A p, q \in JobIds : childOf[p] = childOf[q] /\ childOf[p] # NoJob => p = q

\* A cancel of p has been answered: nobody relies on its image any more.
Doomed(p) == IsTerminal(jobs[p]) \/ jobs[p].cancel

\* A coordinator that is about to promote p: the child is done, and p still waits
\* with its image at hand, or has been settled meanwhile.
Promotable(p, k) ==
    /\ childOf[p] # NoJob /\ Child(p).status = "completed" /\ asset[childOf[p]] # "none"
    /\ p \in doubled \/ IsTerminal(jobs[p]) \/ (Waiting(p) /\ HasImage(childOf[p]))
    /\ coord[p][k] = "promoting" => jobs[p].payload = "resolved"

\* p has one coordinator at most, or is counted among those that had two.
Single(p) ==
    \/ p \in doubled
    \/ \A k, l \in Spawners : k # l => coord[p][k] = "none" \/ coord[p][l] = "none"

\* What the coordinator of p spawned by k knows at its place.
CoordOK(p, k) ==
    /\ jobs[p].payload = "bare" => coord[p][k] \in {"none", "watch", "cleaning"}
    /\ coord[p][k] \in {"prepared", "promoting"} => Promotable(p, k)
    /\ coord[p][k] = "ending" => p \in doubled \/ Waiting(p) \/ IsTerminal(jobs[p])
    /\ coord[p][k] \in {"abandoning", "cleaning"} =>
            ~Waiting(p) /\ (p \in doubled \/ IsTerminal(jobs[p]))

FlowOK(p) ==
    /\ childOf[p] # NoJob => childOf[p] \in Rows
    /\ childOf[p] = NoJob => jobs[p].payload = "bare"
    /\ creator[p] # "none" => jobs[p].payload = "bare"
    /\ creator[p] = "created" => childOf[p] = NoJob
    /\ creator[p] \in {"linking", "unlinking"} => childOf[p] # NoJob
    /\ Single(p) /\ \A k \in Spawners : CoordOK(p, k)
    /\ cascade[p].at # "none" => childOf[p] # NoJob /\ Doomed(p)
    /\ Dispatched(p) \/ jobs[p].status = "completed" =>
           jobs[p].payload = "resolved" /\ Child(p).status = "completed"
    /\ Dispatched(p) /\ ~jobs[p].cancel /\ p \notin doubled => HasImage(childOf[p])

\* The inductive invariant.
FlowInv == IInv /\ FlowTypes /\ Fresh /\ NoCaption /\ OwnChild /\ \A p \in Parents : FlowOK(p)

\* What a step may do to the row of a parent that it does not promote.
Moves(p) ==
    /\ jobs'[p].shape = jobs[p].shape /\ jobs'[p].payload = jobs[p].payload
    /\ jobs'[p].status # "pending_caption"
    /\ Waiting(p)' => Waiting(p)
    /\ Dispatched(p)' => Dispatched(p)
    /\ jobs'[p].status = "completed" => Dispatched(p) \/ jobs[p].status = "completed"

\* First-order leaves go to Zenon; the others name the SMT solver.
USE ZenonT(30)
USE DEF ActiveStatuses, TerminalStatuses, PendingStatuses, JobStatuses, WorkerStatuses

-----------------------------------------------------------------------------
(* The store's part of a step *)

\* Rewrites of a row that move it forward, and the row as it is.
LEMMA RowForward ==
    ASSUME NEW r \in Row, r.status # "pending_caption", NEW n \in Row,
           n.shape = r.shape, n.payload = r.payload,
           \/ n.status = r.status
           \/ n.status \in TerminalStatuses \ {"completed"}
           \/ IsActive(n) /\ (IsActive(r) \/ IsQueued(r))
           \/ n.status = "completed" /\ IsActive(r)
    PROVE  /\ n.status # "pending_caption"
           /\ n.status = "pending_workflow" => r.status = "pending_workflow"
           /\ IsQueued(n) \/ IsActive(n) => IsQueued(r) \/ IsActive(r)
           /\ n.status = "completed" => IsQueued(r) \/ IsActive(r) \/ r.status = "completed"
BY DEF Row, IsQueued, IsActive

\* A cancel, a termination and the end of the side effects of one row.
LEMMA RowCalls ==
    ASSUME IInv, NEW j \in Rows,
           \/ CancelJob(j) \/ FinishSideEffects(j)
           \/ \E status \in TerminalStatuses \ {"completed"} : TerminateWorkflow(j, status)
    PROVE  /\ StoreStep
           /\ Rows' = Rows
           /\ \A p \in Rows : jobs[p].status # "pending_caption" => Moves(p)
           /\ \A p \in Rows \ {j} : jobs'[p] = jobs[p]
<1>0. \A p \in Rows : jobs[p] \in Row
  BY RowFacts
<1>1. AnyJob(j)
  BY DEF AnyJob
<1>2. Rows' = Rows /\ \A p \in Rows \ {j} : jobs'[p] = jobs[p]
  BY DEF CancelJob, FinishSideEffects, TerminateWorkflow, UpdateRows, Rows
<1>3. StoreStep
  BY <1>1, <1>2, JobStep DEF StoreStep
<1>4. \A p \in Rows : jobs'[p] \in Row
  BY <1>2, <1>3 DEF StoreStep, StepOK, IInv, TypeOK, Rows
<1>5. /\ jobs'[j].shape = jobs[j].shape /\ jobs'[j].payload = jobs[j].payload
      /\ \/ jobs'[j].status = jobs[j].status
         \/ jobs'[j].status \in TerminalStatuses \ {"completed"}
  <2>1. CASE CancelJob(j)
    BY <1>0, <2>1 DEF CancelJob, UpdateRows, CanceledPending, Row
  <2>2. CASE FinishSideEffects(j)
    BY SMTT(30), <1>0, <2>2 DEF FinishSideEffects, UpdateRows, Row
  <2>3. ASSUME NEW status \in TerminalStatuses \ {"completed"}, TerminateWorkflow(j, status)
        PROVE  /\ jobs'[j].shape = jobs[j].shape /\ jobs'[j].payload = jobs[j].payload
               /\ jobs'[j].status = status
    BY SMTT(30), <1>0, <2>3 DEF TerminateWorkflow, UpdateRows, Row
  <2> QED BY <2>1, <2>2, <2>3
<1>6. ASSUME NEW p \in Rows, jobs[p].status # "pending_caption" PROVE Moves(p)
  <2>1. /\ jobs'[p].shape = jobs[p].shape /\ jobs'[p].payload = jobs[p].payload
        /\ \/ jobs'[p].status = jobs[p].status
           \/ jobs'[p].status \in TerminalStatuses \ {"completed"}
    BY <1>2, <1>5
  <2> QED BY <1>0, <1>4, <1>6, <2>1, RowForward DEF Moves, Waiting, Dispatched
<1> QED BY <1>2, <1>3, <1>6

\* What the workers, their supervisors and the startup of the API call.
LEMMA WorkerSide ==
    ASSUME IInv,
           \/ \E w \in Workers : \/ RegisterWorker(w) \/ ClaimNextJob(w)
                                 \/ FailWorkerJobTerminated(w)
           \/ \E w \in Workers, j \in Rows, status \in Reports : UpdateJobProgress(w, j, status)
           \/ Startup({})
           \/ UNCHANGED vars
    PROVE  /\ StoreStep
           /\ Rows' = Rows
           /\ \A p \in Rows : jobs[p].status # "pending_caption" => Moves(p)
<1>0. \A p \in Rows : jobs[p] \in Row /\ Owned(jobs[p])
  BY RowFacts
<1> DEFINE Forward(p) ==
             /\ jobs'[p].shape = jobs[p].shape /\ jobs'[p].payload = jobs[p].payload
             /\ \/ jobs'[p].status = jobs[p].status
                \/ jobs'[p].status \in TerminalStatuses \ {"completed"}
                \/ IsActive(jobs'[p]) /\ (IsActive(jobs[p]) \/ IsQueued(jobs[p]))
                \/ jobs'[p].status = "completed" /\ IsActive(jobs[p])
           Goal == /\ StoreStep /\ Rows' = Rows
                   /\ \A p \in Rows : jobs[p].status # "pending_caption" => Forward(p)
<1>1. ASSUME NEW w \in Workers, RegisterWorker(w) PROVE Goal
  <2>1. jobs' = jobs
    BY <1>1 DEF RegisterWorker
  <2> QED BY <1>1, <2>1, WorkerRowStep DEF StoreStep, Rows
<1>2. ASSUME NEW w \in Workers, ClaimNextJob(w) PROVE Goal
  <2>1. PICK j \in Rows :
        /\ IsQueued(jobs[j])
        /\ jobs' = [jobs EXCEPT ![j].status = "preparing", ![j].worker = w,
                                ![j].gpu = IF NonGpu(jobs[j]) THEN CpuGpu ELSE GpuOf[w]]
    BY <1>2 DEF ClaimNextJob, Claimable, Rows
  <2>2. Rows' = Rows
    BY <2>1 DEF Rows
  <2>3. ASSUME NEW p \in Rows PROVE Forward(p)
    BY SMTT(30), <1>0, <2>1 DEF Row, Rows, IsActive
  <2> QED BY <1>2, <2>2, <2>3, ClaimStep DEF StoreStep
<1>3. ASSUME NEW w \in Workers, FailWorkerJobTerminated(w) PROVE Goal
  <2>1. Rows' = Rows
    BY <1>3 DEF FailWorkerJobTerminated, UpdateRows, Rows
  <2>2. ASSUME NEW p \in Rows PROVE jobs'[p] = jobs[p] \/ jobs'[p] = Failed(jobs[p])
    BY <1>3 DEF FailWorkerJobTerminated, UpdateRows
  <2>3. ASSUME NEW p \in Rows PROVE Forward(p)
    <3>1. /\ Failed(jobs[p]).shape = jobs[p].shape /\ Failed(jobs[p]).payload = jobs[p].payload
          /\ Failed(jobs[p]).status = "failed"
      BY <1>0 DEF Failed, Row
    <3> QED BY <2>2, <3>1
  <2> QED BY <1>3, <2>1, <2>3, WorkerRowStep DEF StoreStep
<1>4. ASSUME NEW w \in Workers, NEW j \in Rows, NEW status \in Reports,
             UpdateJobProgress(w, j, status)
      PROVE  Goal
  <2>1. Rows' = Rows
    BY <1>4 DEF UpdateJobProgress, UpdateRows, Rows
  <2>2. status \in ActiveStatuses \cup TerminalStatuses
    BY StoreAssumption
  <2>3. IsActive(jobs[j])
    BY <1>0, <1>4, RoutingAssumption
       DEF UpdateJobProgress, Owned, Row, IsTerminal, IsPending, IsActive
  <2>4. /\ jobs'[j].shape = jobs[j].shape /\ jobs'[j].payload = jobs[j].payload
        /\ jobs'[j].status = status
    BY <1>0, <1>4 DEF UpdateJobProgress, UpdateRows, Row
  <2>5. \A p \in Rows \ {j} : jobs'[p] = jobs[p]
    BY <1>4 DEF UpdateJobProgress, UpdateRows
  <2>6. ASSUME NEW p \in Rows PROVE Forward(p)
    BY <2>2, <2>3, <2>4, <2>5 DEF IsActive
  <2> QED BY <1>4, <2>1, <2>2, <2>6, ReportStep DEF StoreStep
<1>5. ASSUME Startup({}) PROVE Goal
  <2>1. Rows' = Rows
    BY <1>5 DEF Startup, Rows
  <2>2. {} \in SUBSET Rows
    OBVIOUS
  <2>3. ASSUME NEW p \in Rows, jobs[p].status # "pending_caption"
        PROVE  Forward(p)
    <3> DEFINE r == [jobs[p] EXCEPT !.facts = TRUE]
    <3>1. /\ r \in Row /\ r.status = jobs[p].status /\ r.shape = jobs[p].shape
          /\ r.payload = jobs[p].payload
      BY <1>0 DEF Row
    <3>2. jobs'[p] = r \/ jobs'[p] = Interrupted(r)
      <4>1. jobs'[p] = IF IsActive(r) /\ ~ProvenOwner(p) THEN Interrupted(r)
                       ELSE IF r.status = "pending_caption" THEN Enqueued(r) ELSE r
        BY <1>5 DEF Startup
      <4> HIDE DEF r
      <4> QED BY <2>3, <3>1, <4>1
    <3> HIDE DEF r
    <3> QED BY <3>1, <3>2 DEF Interrupted, Row
  <2>4. StepOK
    BY <1>5, <2>2, StartupStep
  <2> HIDE DEF Forward
  <2> QED BY <2>1, <2>3, <2>4 DEF StoreStep
<1>6. ASSUME UNCHANGED vars PROVE Goal
  <2>1. StepOK
    BY <1>6, NextInv
  <2>2. jobs' = jobs /\ Rows' = Rows
    BY <1>6 DEF vars, Rows
  <2> QED BY <2>1, <2>2 DEF StoreStep
<1>7. Goal
  <2> HIDE DEF Goal
  <2> QED BY <1>1, <1>2, <1>3, <1>4, <1>5, <1>6
<1>8. \A p \in Rows : jobs'[p] \in Row
  BY <1>7 DEF StoreStep, StepOK, IInv, TypeOK, Rows
<1>9. ASSUME NEW p \in Rows, jobs[p].status # "pending_caption" PROVE Moves(p)
  <2>1. Forward(p)
    BY <1>7, <1>9
  <2> QED BY <1>0, <1>8, <1>9, <2>1, RowForward DEF Moves, Waiting, Dispatched
<1> QED BY <1>7, <1>9

\* Creating a parent or a child leaves every other row as it is.
LEMMA Creates ==
    ASSUME IInv, NEW shape \in {"vector", "image"},
           NEW status \in {"queued", "pending_workflow"}, CreateJob(shape, AutoGpu, status)
    PROVE  /\ StoreStep
           /\ nextRow \in JobIds \ Rows /\ Rows' = Rows \cup {nextRow}
           /\ \A p \in Rows : jobs'[p] = jobs[p]
           /\ jobs'[nextRow].shape = shape /\ jobs'[nextRow].status = status
           /\ jobs'[nextRow].payload = "bare"
<1>1. Insert(shape, AutoGpu, status, 1, NewPayload)
  BY DEF CreateJob
<1>2. /\ shape \in Shapes /\ AutoGpu \in Gpus \cup {AutoGpu} /\ status \in PendingStatuses
      /\ NewPayload \in Payloads /\ NewPayload = "bare"
  BY WorkflowAssumption
<1>3. StepOK
  BY <1>1, <1>2, FirstAttempt, InsertStep
<1>4. nextRow \in JobIds \ Rows
  BY SMTT(30), <1>1, RoutingAssumption DEF Insert, IInv, TypeOK, Rows, JobIds
<1>5. /\ Rows' = Rows \cup {nextRow}
      /\ \A p \in Rows : jobs'[p] = jobs[p]
      /\ jobs'[nextRow].shape = shape /\ jobs'[nextRow].status = status
      /\ jobs'[nextRow].payload = "bare"
  BY <1>1, <1>2, <1>4 DEF Insert, Rows
<1> QED BY <1>3, <1>4, <1>5 DEF StoreStep

\* The two transactions of a promotion, and the one that links the child.
LEMMA Promotes ==
    ASSUME IInv, NEW p \in Rows,
           EnqueueWorkflow(p) \/ \E new \in Payloads : UpdateWorkflowPayload(p, new)
    PROVE  /\ StoreStep
           /\ Rows' = Rows
           /\ \A q \in Rows \ {p} : jobs'[q] = jobs[q]
           /\ jobs'[p].shape = jobs[p].shape /\ jobs'[p].cancel = jobs[p].cancel
           /\ EnqueueWorkflow(p) =>
                jobs'[p].status = "queued" /\ jobs'[p].payload = jobs[p].payload
           /\ \A new \in Payloads : UpdateWorkflowPayload(p, new) =>
                jobs'[p].status = jobs[p].status /\ jobs'[p].payload = new
<1>0. jobs[p] \in Row
  BY RowFacts
<1>1. AnyJob(p)
  BY DEF AnyJob
<1>2. Rows' = Rows /\ \A q \in Rows \ {p} : jobs'[q] = jobs[q]
  BY DEF EnqueueWorkflow, UpdateWorkflowPayload, UpdateRows, Rows
<1>3. StoreStep
  BY <1>1, <1>2, JobStep DEF StoreStep
<1>4. ASSUME EnqueueWorkflow(p)
      PROVE  /\ jobs'[p].shape = jobs[p].shape /\ jobs'[p].cancel = jobs[p].cancel
             /\ jobs'[p].status = "queued" /\ jobs'[p].payload = jobs[p].payload
  <2>1. jobs'[p] = Enqueued(jobs[p])
    BY <1>4 DEF EnqueueWorkflow, UpdateRows
  <2> QED BY <1>0, <2>1 DEF Enqueued, Row
<1>5. ASSUME NEW new \in Payloads, UpdateWorkflowPayload(p, new)
      PROVE  /\ jobs'[p].shape = jobs[p].shape /\ jobs'[p].cancel = jobs[p].cancel
             /\ jobs'[p].status = jobs[p].status /\ jobs'[p].payload = new
  <2>1. jobs'[p] = Rewritten(jobs[p], new)
    BY <1>5 DEF UpdateWorkflowPayload, UpdateRows
  <2> QED BY <1>0, <2>1 DEF Rewritten, Row
<1> QED BY <1>2, <1>3, <1>4, <1>5

-----------------------------------------------------------------------------
(* The tasks of a parent *)

\* What a legal step preserves of any row: a settled status, and a cancel request.
LEMMA Settled ==
    ASSUME IInv, StoreStep, NEW j \in Rows
    PROVE  /\ j \in Rows' /\ jobs'[j] \in Row
           /\ IsTerminal(jobs[j]) => IsTerminal(jobs'[j]) /\ jobs'[j].status = jobs[j].status
           /\ jobs[j].cancel => jobs'[j].cancel
<1>1. j \in Rows' /\ Kept(jobs[j], jobs'[j])
  BY DEF StoreStep, StepOK, HistoryKept
<1>2. jobs'[j] \in Row
  BY <1>1 DEF StoreStep, StepOK, IInv, TypeOK, Rows
<1> QED BY <1>1, <1>2 DEF Kept, IsTerminal

\* A coordinator of p stays where it is, ends, watches on, or cleans up after a
\* parent that waits no more.
CoordMove(p, k) ==
    \/ coord'[p][k] \in {coord[p][k], "none", "watch"}
    \/ coord'[p][k] = "ending" /\ Waiting(p)' /\ jobs'[p].payload # "bare"
    \/ /\ coord'[p][k] = "abandoning" /\ jobs'[p].payload # "bare"
       /\ ~Waiting(p)' /\ (p \in doubled' \/ IsTerminal(jobs'[p]))
    \/ /\ coord'[p][k] = "cleaning"
       /\ ~Waiting(p)' /\ (p \in doubled' \/ IsTerminal(jobs'[p]))

\* The image of c stays as it is or is there after the step.
Grows(c) == asset'[c] \in {asset[c], "published", "restored"}

\* A step keeps what is known of p if it moves p's row forward, keeps the image of
\* p unless p is settled, to be canceled or doubled, and lets p's tasks end, watch or
\* clean up.
LEMMA Stays ==
    ASSUME FlowInv, StoreStep, NEW p \in Parents, Moves(p), childOf'[p] = childOf[p],
           doubled \subseteq doubled', Single(p)',
           \/ creator'[p] \in {creator[p], "none"}
           \/ creator'[p] = "unlinking" /\ creator[p] = "linking",
           \A k \in Spawners : CoordMove(p, k),
           \/ cascade'[p].at = "none"
           \/ cascade[p].at # "none"
           \/ jobs[p].payload # "bare" /\ Doomed(p)',
           childOf[p] # NoJob =>
                \/ Grows(childOf[p])
                \/ /\ Doomed(p) \/ p \in doubled
                   /\ asset[childOf[p]] # "none" => asset'[childOf[p]] # "none"
    PROVE  FlowOK(p)'
<1>0. /\ p \in Rows /\ FlowOK(p) /\ jobs[p] \in Row /\ Owned(jobs[p])
      /\ childOf[p] # NoJob => childOf[p] \in Rows
  BY RowFacts DEF FlowInv, Parents, FlowOK
<1>1. /\ p \in Rows' /\ jobs'[p] \in Row
      /\ IsTerminal(jobs[p]) => IsTerminal(jobs'[p]) /\ jobs'[p].status = jobs[p].status
      /\ jobs[p].cancel => jobs'[p].cancel
  BY <1>0, Settled DEF FlowInv
<1>2. ASSUME childOf[p] # NoJob
      PROVE  /\ childOf[p] \in Rows'
             /\ Child(p).status = "completed" => Child(p)'.status = "completed"
             /\ asset[childOf[p]] # "none" => asset'[childOf[p]] # "none"
             /\ HasImage(childOf[p]) => HasImage(childOf[p])' \/ Doomed(p) \/ p \in doubled
  <2>1. childOf[p] \in Rows
    BY <1>0, <1>2
  <2>2. /\ asset[childOf[p]] # "none" => asset'[childOf[p]] # "none"
        /\ HasImage(childOf[p]) => HasImage(childOf[p])' \/ Doomed(p) \/ p \in doubled
    BY <1>2 DEF Grows, HasImage
  <2> QED BY <2>1, <2>2, Settled DEF FlowInv, Child, IsTerminal
<1>3. /\ Dispatched(p) => ~IsTerminal(jobs[p]) /\ ~Waiting(p)
      /\ Waiting(p) => ~IsTerminal(jobs[p]) /\ ~jobs[p].cancel
      /\ IsTerminal(jobs'[p]) => ~Dispatched(p)' /\ ~Waiting(p)'
      /\ Waiting(p) => Waiting(p)' \/ IsTerminal(jobs'[p])
  <2>1. Waiting(p) => Waiting(p)' \/ IsTerminal(jobs'[p])
    BY <1>1 DEF Moves, Row, Waiting, Dispatched, IsTerminal, IsQueued, IsActive
  <2> QED BY <1>0, <2>1
          DEF Dispatched, Waiting, IsQueued, IsActive, IsTerminal, IsPending, Owned
<1>4. Doomed(p) => Doomed(p)'
  BY <1>1 DEF Doomed
<1>5. ASSUME NEW k \in Spawners PROVE CoordOK(p, k)'
  <2>0. CoordOK(p, k) /\ CoordMove(p, k) /\ jobs'[p].payload = jobs[p].payload
    BY <1>0 DEF FlowOK, Moves
  <2>1. ASSUME coord'[p][k] \in {"prepared", "promoting"} PROVE Promotable(p, k)'
    <3>1. coord'[p][k] = coord[p][k] /\ Promotable(p, k)
      BY <2>0, <2>1 DEF CoordOK, CoordMove
    <3>2. childOf[p] # NoJob /\ Child(p)'.status = "completed" /\ asset'[childOf[p]] # "none"
      BY <1>2, <3>1 DEF Promotable
    <3>3. CASE p \in doubled \/ IsTerminal(jobs[p])
      BY <1>1, <2>0, <3>1, <3>2, <3>3 DEF Promotable
    <3>4. CASE p \notin doubled /\ Waiting(p) /\ HasImage(childOf[p])
      <4>1. HasImage(childOf[p])'
        BY <1>2, <1>3, <3>2, <3>4 DEF Doomed
      <4>2. Waiting(p)' \/ IsTerminal(jobs'[p])
        BY <1>3, <3>4
      <4> QED BY <2>0, <3>1, <3>2, <4>1, <4>2 DEF Promotable
    <3> QED BY <3>1, <3>3, <3>4 DEF Promotable
  <2>2. coord'[p][k] = "ending" => p \in doubled' \/ Waiting(p)' \/ IsTerminal(jobs'[p])
    BY <1>1, <1>3, <2>0 DEF CoordOK, CoordMove
  <2>3. coord'[p][k] \in {"abandoning", "cleaning"} =>
            ~Waiting(p)' /\ (p \in doubled' \/ IsTerminal(jobs'[p]))
    BY <1>1, <2>0 DEF CoordOK, CoordMove, Moves
  <2>4. jobs'[p].payload = "bare" => coord'[p][k] \in {"none", "watch", "cleaning"}
    BY <2>0 DEF CoordOK, CoordMove
  <2> QED BY <2>1, <2>2, <2>3, <2>4 DEF CoordOK
<1>6. ASSUME Dispatched(p)' \/ jobs'[p].status = "completed"
      PROVE  jobs'[p].payload = "resolved" /\ Child(p)'.status = "completed"
  <2>1. jobs[p].payload = "resolved" /\ Child(p).status = "completed"
    BY <1>0, <1>6 DEF Moves, FlowOK
  <2> QED BY <1>0, <1>2, <2>1 DEF Moves, FlowOK
<1>7. ASSUME Dispatched(p)', ~jobs'[p].cancel, p \notin doubled'
      PROVE  HasImage(childOf[p])'
  <2>1. Dispatched(p) /\ ~jobs[p].cancel /\ p \notin doubled
    BY <1>1, <1>7 DEF Moves
  <2>2. /\ HasImage(childOf[p]) /\ jobs[p].payload = "resolved" /\ ~IsTerminal(jobs[p])
        /\ childOf[p] # NoJob
    BY <1>0, <1>3, <2>1 DEF FlowOK
  <2> QED BY <1>2, <2>1, <2>2 DEF Doomed
<1>8. cascade'[p].at # "none" => childOf'[p] # NoJob /\ Doomed(p)'
  BY <1>0, <1>4 DEF FlowOK
<1>9. /\ childOf'[p] # NoJob => childOf'[p] \in Rows'
      /\ childOf'[p] = NoJob => jobs'[p].payload = "bare"
      /\ creator'[p] # "none" => jobs'[p].payload = "bare"
      /\ creator'[p] = "created" => childOf'[p] = NoJob
      /\ creator'[p] \in {"linking", "unlinking"} => childOf'[p] # NoJob
  BY <1>0, <1>2 DEF FlowOK, Moves
<1> QED BY <1>5, <1>6, <1>7, <1>8, <1>9 DEF FlowOK

\* The coordinators of p are where they were, and p may be counted as doubled.
LEMMA SameCoords ==
    ASSUME FlowInv, NEW p \in Parents, coord'[p] = coord[p], doubled \subseteq doubled'
    PROVE  Single(p)' /\ \A k \in Spawners : CoordMove(p, k)
<1>1. Single(p)
  BY DEF FlowInv, FlowOK
<1>2. Single(p)'
  BY <1>1 DEF Single
<1> QED BY <1>2 DEF CoordMove

\* The invariant, assembled from the parents' parts, where no row is created.
LEMMA Assembled ==
    ASSUME FlowInv, StoreStep, Rows' = Rows, FlowTypes', childOf' = childOf, Fresh',
           \A j \in Rows : jobs'[j].shape = jobs[j].shape /\ jobs'[j].status # "pending_caption",
           \A q \in Parents : FlowOK(q)'
    PROVE  FlowInv'
<1>1. Parents' = Parents
  BY DEF Parents
<1>2. NoCaption' /\ OwnChild'
  BY DEF NoCaption, OwnChild, FlowInv
<1> QED BY <1>1, <1>2 DEF FlowInv, StoreStep, StepOK

\* A step of a task of p concerns p alone.
LEMMA Task ==
    ASSUME FlowInv, StoreStep, Rows' = Rows, FlowTypes', childOf' = childOf, NEW p \in Parents,
           \A q \in JobIds \ {p} :
                creator'[q] = creator[q] /\ coord'[q] = coord[q] /\ cascade'[q] = cascade[q],
           doubled \subseteq doubled',
           \A j \in Rows \ {p} : Moves(j),
           jobs'[p].shape = jobs[p].shape, jobs'[p].status # "pending_caption",
           \A q \in JobIds \ {p} : childOf[q] # NoJob => Grows(childOf[q]),
           FlowOK(p)'
    PROVE  FlowInv'
<1>1. p \in Rows /\ Parents \subseteq Rows /\ Rows \subseteq JobIds
  BY SMTT(30), RoutingAssumption DEF Parents, FlowInv, IInv, TypeOK, Rows, JobIds
<1>2. ASSUME NEW q \in Parents PROVE FlowOK(q)'
  <2>1. CASE q # p
    <3>1. Single(q)' /\ \A k \in Spawners : CoordMove(q, k)
      BY <1>1, <2>1, SameCoords
    <3> QED BY <1>1, <2>1, <3>1, Stays
  <2> QED BY <2>1
<1>3. \A j \in Rows : jobs'[j].shape = jobs[j].shape /\ jobs'[j].status # "pending_caption"
  BY DEF Moves
<1>4. Fresh'
  BY SMTT(30), <1>1, <1>3 DEF Fresh, FlowInv, Parents, NoCoords
<1> QED BY <1>2, <1>3, <1>4, Assembled

\* A step of no task: the rows move forward and images may be published.
LEMMA NoTask ==
    ASSUME FlowInv, StoreStep, Rows' = Rows, FlowTypes',
           UNCHANGED <<creator, childOf, coord, cascade, doubled>>, \A j \in Rows : Moves(j),
           \A c \in JobIds : Grows(c)
    PROVE  FlowInv'
<1>1. Parents \subseteq Rows /\ childOf \in [JobIds -> JobIds \cup {NoJob}] /\ Rows \subseteq JobIds
  BY SMTT(30), RoutingAssumption DEF Parents, FlowInv, FlowTypes, IInv, TypeOK, Rows, JobIds
<1>2. ASSUME NEW q \in Parents PROVE FlowOK(q)'
  <2>1. Single(q)' /\ \A k \in Spawners : CoordMove(q, k)
    BY SameCoords
  <2> QED BY <1>1, <2>1, Stays
<1>3. \A j \in Rows : jobs'[j].shape = jobs[j].shape /\ jobs'[j].status # "pending_caption"
  BY DEF Moves
<1>4. Fresh'
  BY <1>3 DEF Fresh, FlowInv, Parents
<1> QED BY <1>2, <1>3, <1>4, Assembled

\* Purging the image of p touches no other parent's.
LEMMA Purges ==
    ASSUME FlowInv, NEW p \in Parents, PurgeImage(p)
    PROVE  /\ asset' \in [JobIds -> {"none", "published", "purged", "restored"}]
           /\ \A q \in JobIds \ {p} : childOf[q] # NoJob => Grows(childOf[q])
           /\ \A c \in JobIds : asset[c] # "none" => asset'[c] # "none"
           /\ childOf[p] # NoJob => asset'[childOf[p]] \in {"none", "purged"}
<1>1. p \in JobIds
  BY SMTT(30), RoutingAssumption DEF Parents, FlowInv, IInv, TypeOK, Rows, JobIds
<1>2. \A q \in JobIds \ {p} : childOf[q] # NoJob => childOf[q] # childOf[p] /\ childOf[q] \in JobIds
  BY <1>1 DEF FlowInv, OwnChild, FlowTypes
<1>3. childOf[p] # NoJob => childOf[p] \in JobIds
  BY <1>1 DEF FlowInv, FlowTypes
<1> QED BY <1>2, <1>3 DEF PurgeImage, Grows, FlowInv, FlowTypes

\* A coordinator moves alone.
LEMMA CoordMoves ==
    ASSUME FlowTypes, NEW p \in JobIds, NEW k \in Spawners, NEW place \in Places,
           Goes(p, k, place)
    PROVE  /\ coord' \in [JobIds -> [Spawners -> Places]]
           /\ coord'[p][k] = place
           /\ \A l \in Spawners \ {k} : coord'[p][l] = coord[p][l]
           /\ \A q \in JobIds \ {p} : coord'[q] = coord[q]
BY SMTT(30) DEF FlowTypes, Goes

\* A coordinator of p that runs already moves on: p still has one at most.
LEMMA MovesOn ==
    ASSUME FlowInv, NEW p \in Parents, NEW k \in Spawners, NEW place \in Places,
           Goes(p, k, place), coord[p][k] # "none", doubled' = doubled
    PROVE  /\ Single(p)'
           /\ CoordMove(p, k) => \A l \in Spawners : CoordMove(p, l)
<1>1. p \in JobIds /\ Single(p)
  BY SMTT(30), RoutingAssumption DEF Parents, FlowInv, FlowOK, IInv, TypeOK, Rows, JobIds
<1>2. coord'[p][k] = place /\ \A l \in Spawners \ {k} : coord'[p][l] = coord[p][l]
  BY <1>1, CoordMoves DEF FlowInv
<1> QED BY <1>1, <1>2 DEF Single, CoordMove

\* Cancelling a row, or leaving it alone when it is settled.
LEMMA CancelRows ==
    ASSUME FlowInv, NEW j \in Rows, CancelRow(j)
    PROVE  /\ StoreStep /\ Rows' = Rows
           /\ \A p \in Rows : Moves(p)
           /\ IsTerminal(jobs'[j]) \/ jobs'[j].cancel
<1>1. IInv /\ \A p \in Rows : jobs[p].status # "pending_caption"
  BY DEF FlowInv, NoCaption
<1>2. CASE IsTerminal(jobs[j]) /\ UNCHANGED vars
  <2>1. StoreStep /\ Rows' = Rows /\ \A p \in Rows : Moves(p)
    BY <1>1, <1>2, WorkerSide
  <2> QED BY <1>2, <2>1 DEF vars
<1>3. CASE ~IsTerminal(jobs[j]) /\ CancelJob(j)
  <2>1. StoreStep /\ Rows' = Rows /\ \A p \in Rows : Moves(p)
    BY <1>1, <1>3, RowCalls
  <2>2. jobs[j] \in Row
    BY <1>1, RowFacts
  <2>3. jobs'[j] = IF IsPending(jobs[j]) THEN CanceledPending(jobs[j])
                   ELSE [jobs[j] EXCEPT !.cancel = TRUE]
    BY <1>3 DEF CancelJob, UpdateRows
  <2>4. IsTerminal(jobs'[j]) \/ jobs'[j].cancel
    BY <2>2, <2>3 DEF CanceledPending, IsTerminal, Row
  <2> QED BY <2>1, <2>4
<1> QED BY <1>2, <1>3 DEF CancelRow

-----------------------------------------------------------------------------
(* The actions *)

\* What every task of p starts from.
LEMMA TaskFacts ==
    ASSUME FlowInv, NEW p \in Parents
    PROVE  /\ p \in Rows /\ p \in JobIds /\ FlowOK(p) /\ IInv
           /\ jobs[p] \in Row /\ Owned(jobs[p])
           /\ \A j \in Rows : jobs[j].status # "pending_caption"
           /\ childOf[p] # NoJob => childOf[p] \in Rows
           /\ DOMAIN creator = JobIds /\ DOMAIN coord = JobIds /\ DOMAIN cascade = JobIds
<1>1. p \in Rows /\ p \in JobIds
  BY SMTT(30), RoutingAssumption DEF Parents, FlowInv, IInv, TypeOK, Rows, JobIds
<1>2. FlowOK(p) /\ IInv /\ \A j \in Rows : jobs[j].status # "pending_caption"
  BY DEF FlowInv, NoCaption
<1> QED BY <1>1, <1>2, RowFacts DEF FlowOK, FlowInv, FlowTypes

\* A row that does not change at all, or only its payload or status by a promotion
\* of another row, moves forward.
LEMMA SameRow ==
    ASSUME NEW j, jobs[j].status # "pending_caption", jobs'[j] = jobs[j]
    PROVE  Moves(j)
BY DEF Moves, Waiting, Dispatched

\* The handler that creates the workflow.
LEMMA CreatorStep ==
    ASSUME FlowInv, NEW p \in Parents,
           ChildRefused(p) \/ LinkChild(p) \/ CancelUnlinkedChild(p)
    PROVE  FlowInv' /\ StoreStep
<1> USE TaskFacts
<1>0. ASSUME UNCHANGED <<childOf, coord, cascade, asset, doubled>>,
             StoreStep, Rows' = Rows, \A j \in Rows : Moves(j),
             \/ creator' = [creator EXCEPT ![p] = "none"]
             \/ creator' = [creator EXCEPT ![p] = "unlinking"] /\ creator[p] = "linking"
      PROVE  FlowInv'
  <2>1. FlowTypes'
    BY <1>0 DEF FlowTypes, FlowInv
  <2>2. /\ creator'[p] = "none" \/ (creator'[p] = "unlinking" /\ creator[p] = "linking")
        /\ \A q \in JobIds \ {p} : creator'[q] = creator[q]
    BY <1>0
  <2>3. Single(p)' /\ \A k \in Spawners : CoordMove(p, k)
    BY <1>0, SameCoords
  <2>4. \A c \in JobIds \cup {childOf[p]} : Grows(c)
    BY <1>0 DEF Grows
  <2>5. FlowOK(p)'
    BY <1>0, <2>2, <2>3, <2>4, Stays DEF FlowOK
  <2>6. \A q \in JobIds : childOf[q] # NoJob => Grows(childOf[q])
    BY <1>0 DEF Grows
  <2> QED BY <1>0, <2>1, <2>2, <2>5, <2>6, Task DEF Moves
<1>1. CASE ChildRefused(p)
  <2>1. StoreStep /\ Rows' = Rows /\ \A j \in Rows : Moves(j)
    <3>1. CASE TerminateWorkflow(p, "failed")
      BY <3>1, RowCalls
    <3>2. CASE UNCHANGED vars
      BY <3>2, WorkerSide
    <3> QED BY <1>1, <3>1, <3>2 DEF ChildRefused
  <2>2. /\ creator' = [creator EXCEPT ![p] = "none"]
        /\ UNCHANGED <<childOf, coord, cascade, asset, doubled>>
    BY <1>1 DEF ChildRefused, imageVars, apiVars
  <2> QED BY <1>0, <2>1, <2>2
<1>2. CASE LinkChild(p) /\ Waiting(p)
  <2>1. /\ UpdateWorkflowPayload(p, "linked") /\ creator[p] = "linking"
        /\ creator' = [creator EXCEPT ![p] = "none"] /\ Goes(p, "handler", "watch")
        /\ doubled' = doubled \cup {q \in {p} : coord[q]["recovery"] # "none"}
        /\ UNCHANGED <<childOf, cascade, asset>>
    BY <1>2 DEF LinkChild, Goes, imageVars
  <2>2. "linked" \in Payloads
    BY WorkflowAssumption
  <2>3. /\ StoreStep /\ Rows' = Rows /\ \A q \in Rows \ {p} : jobs'[q] = jobs[q]
        /\ jobs'[p].shape = jobs[p].shape /\ jobs'[p].status = "pending_workflow"
        /\ jobs'[p].payload = "linked"
    BY <1>2, <2>1, <2>2, Promotes DEF Waiting
  <2>4. /\ coord' \in [JobIds -> [Spawners -> Places]]
        /\ coord'[p]["handler"] = "watch"
        /\ coord'[p]["recovery"] = coord[p]["recovery"]
        /\ \A q \in JobIds \ {p} : coord'[q] = coord[q]
    BY <2>1, CoordMoves DEF FlowInv, Spawners, Places
  <2>5. FlowTypes'
    BY <2>1, <2>4 DEF FlowTypes, FlowInv
  <2>6. childOf[p] # NoJob /\ cascade[p].at = "none" /\ jobs[p].payload = "bare"
    BY <1>2, <2>1 DEF FlowOK, Doomed, Waiting, IsTerminal, Owned, IsPending
  <2>7. ~Dispatched(p)' /\ jobs'[p].status # "completed"
    BY <2>3 DEF Dispatched, IsQueued, IsActive
  <2>8. \A k \in Spawners : coord'[p][k] \in {"none", "watch"}
    <3>1. "recovery" \in Spawners /\ \A k \in Spawners : k \in {"handler", "recovery"}
      BY DEF Spawners
    <3>2. coord[p]["recovery"] \in {"none", "watch"}
      BY <1>2, <2>6, <3>1 DEF FlowOK, CoordOK
    <3> QED BY <2>4, <3>1, <3>2
  <2>9. Single(p)'
    <3>1. CASE coord[p]["recovery"] # "none"
      BY <2>1, <3>1 DEF Single
    <3>2. CASE coord[p]["recovery"] = "none"
      BY <2>4, <3>2 DEF Single, Spawners
    <3> QED BY <3>1, <3>2
  <2>10. FlowOK(p)'
    <3>1. \A k \in Spawners : CoordOK(p, k)'
      BY <2>3, <2>8 DEF CoordOK
    <3>2. creator'[p] = "none" /\ childOf'[p] = childOf[p] /\ cascade'[p] = cascade[p]
      BY <2>1
    <3> QED BY <2>3, <2>6, <2>7, <2>9, <3>1, <3>2 DEF FlowOK
  <2>11. \A q \in JobIds : childOf[q] # NoJob => Grows(childOf[q])
    BY <2>1 DEF Grows
  <2>12. doubled \subseteq doubled' /\ \A q \in JobIds \ {p} : creator'[q] = creator[q]
    BY <2>1
  <2> QED BY <2>1, <2>3, <2>4, <2>5, <2>10, <2>11, <2>12, SameRow, Task
<1>3. CASE LinkChild(p) /\ ~Waiting(p)
  <2>1. /\ creator[p] = "linking" /\ creator' = [creator EXCEPT ![p] = "unlinking"]
        /\ UNCHANGED vars /\ UNCHANGED <<childOf, coord, cascade, asset, doubled>>
    BY <1>3 DEF LinkChild, imageVars
  <2>2. StoreStep /\ Rows' = Rows /\ \A j \in Rows : Moves(j)
    BY <2>1, WorkerSide
  <2> QED BY <1>0, <2>1, <2>2
<1>4. CASE CancelUnlinkedChild(p)
  <2>1. /\ CancelRow(childOf[p]) /\ creator' = [creator EXCEPT ![p] = "none"]
        /\ UNCHANGED <<childOf, coord, cascade, asset, doubled>> /\ childOf[p] \in Rows
    BY <1>4 DEF CancelUnlinkedChild, FlowOK, imageVars, apiVars
  <2>2. StoreStep /\ Rows' = Rows /\ \A j \in Rows : Moves(j)
    BY <2>1, CancelRows
  <2> QED BY <1>0, <2>1, <2>2
<1> QED BY <1>1, <1>2, <1>3, <1>4

\* A coordinator of p takes a step that moves the rows forward.
LEMMA CoordTask ==
    ASSUME FlowInv, StoreStep, Rows' = Rows, \A j \in Rows : Moves(j),
           NEW p \in Parents, NEW k \in Spawners, NEW place \in Places,
           Goes(p, k, place), coord[p][k] # "none",
           UNCHANGED <<creator, childOf, cascade, doubled>>,
           FlowOK(p)' \/ CoordMove(p, k),
           asset' = asset \/ (PurgeImage(p) /\ (Doomed(p) \/ p \in doubled))
    PROVE  FlowInv'
<1> USE TaskFacts
<1>1. /\ coord' \in [JobIds -> [Spawners -> Places]]
      /\ \A q \in JobIds \ {p} : coord'[q] = coord[q]
  BY CoordMoves DEF FlowInv
<1>2. /\ asset' \in [JobIds -> {"none", "published", "purged", "restored"}]
      /\ \A q \in JobIds \ {p} : childOf[q] # NoJob => Grows(childOf[q])
      /\ \A c \in JobIds : asset[c] # "none" => asset'[c] # "none"
  <2>1. CASE asset' = asset
    BY <2>1 DEF FlowInv, FlowTypes, Grows
  <2> QED BY <2>1, Purges
<1>3. FlowTypes'
  BY <1>1, <1>2 DEF FlowTypes, FlowInv
<1>4. FlowOK(p)'
  <2>1. CASE CoordMove(p, k)
    <3>1. Single(p)' /\ \A l \in Spawners : CoordMove(p, l)
      BY <2>1, MovesOn
    <3>2. childOf[p] # NoJob =>
                \/ Grows(childOf[p])
                \/ /\ Doomed(p) \/ p \in doubled
                   /\ asset[childOf[p]] # "none" => asset'[childOf[p]] # "none"
      BY <1>2 DEF Grows, FlowInv, FlowTypes
    <3> QED BY <3>1, <3>2, Stays DEF FlowOK
  <2> QED BY <2>1
<1> QED BY <1>1, <1>2, <1>3, <1>4, Task DEF Moves

\* The coordinator, but for the promotion itself.
LEMMA CoordinatorStep ==
    ASSUME FlowInv, NEW p \in Parents, NEW k \in Spawners,
           \/ Prepare(p, k) \/ AbandonImage(p, k)
           \/ GiveUp(p, k) \/ EndParent(p, k) \/ CleanUp(p, k) \/ FinishWatch(p, k)
    PROVE  FlowInv' /\ StoreStep
<1> USE TaskFacts
<1>0. UNCHANGED <<creator, childOf, cascade, doubled>>
  BY DEF Prepare, AbandonImage, GiveUp, EndParent, CleanUp, FinishWatch, imageVars, apiVars
<1>a. ASSUME UNCHANGED vars PROVE StoreStep /\ Rows' = Rows /\ \A j \in Rows : Moves(j)
  BY <1>a, WorkerSide
<1>b. CoordOK(p, k) /\ {"none", "prepared", "ending", "cleaning"} \subseteq Places
  BY DEF FlowOK, Places
<1>c. ASSUME NEW place \in Places, Goes(p, k, place) PROVE coord'[p][k] = place
  BY <1>c, CoordMoves DEF FlowInv
<1>1. CASE Prepare(p, k)
  <2>1. /\ UNCHANGED vars /\ asset' = asset /\ Goes(p, k, "prepared") /\ coord[p][k] = "watch"
        /\ Waiting(p) /\ jobs[p].payload # "bare" /\ HasImage(childOf[p])
        /\ Child(p).status = "completed"
    BY <1>1 DEF Prepare, Watches, imageVars
  <2>2. StoreStep /\ Rows' = Rows /\ \A j \in Rows : Moves(j)
    BY <1>a, <2>1
  <2>3. jobs' = jobs /\ coord'[p][k] = "prepared" /\ Single(p)'
        /\ \A l \in Spawners \ {k} : coord'[p][l] = coord[p][l]
    BY <1>0, <1>b, <2>1, CoordMoves, MovesOn DEF vars, FlowInv
  <2>4. ASSUME NEW l \in Spawners PROVE CoordOK(p, l)'
    <3>1. CASE l = k
      <4>1. childOf[p] # NoJob /\ asset[childOf[p]] # "none"
        BY <2>1 DEF FlowOK, HasImage
      <4> QED BY <1>0, <2>1, <2>3, <3>1, <4>1 DEF CoordOK, Promotable, Child, Waiting, HasImage
    <3>2. CASE l # k
      <4>1. CoordOK(p, l) /\ coord'[p][l] = coord[p][l]
        BY <2>3, <3>2 DEF FlowOK
      <4> QED BY <1>0, <2>1, <2>3, <4>1 DEF CoordOK, Promotable, Child, Waiting, HasImage
    <3> QED BY <3>1, <3>2
  <2>5. FlowOK(p)'
    BY <1>0, <2>1, <2>3, <2>4 DEF FlowOK, Child, Dispatched, Doomed, Rows, HasImage
  <2> QED BY <1>0, <1>b, <2>1, <2>2, <2>5, CoordTask
<1>2. CASE AbandonImage(p, k)
  <2>1. /\ UNCHANGED vars /\ PurgeImage(p) /\ Goes(p, k, "none") /\ coord[p][k] = "abandoning"
        /\ Doomed(p) \/ p \in doubled
    BY <1>2, <1>b DEF AbandonImage, CoordOK, Doomed
  <2>2. CoordMove(p, k)
    BY <1>b, <1>c, <2>1 DEF CoordMove
  <2> QED BY <1>0, <1>a, <1>b, <2>1, <2>2, CoordTask
<1>3. CASE GiveUp(p, k)
  <2>1. /\ UNCHANGED vars /\ asset' = asset /\ Goes(p, k, "ending") /\ coord[p][k] = "watch"
        /\ Waiting(p) /\ jobs[p].payload # "bare"
    BY <1>3 DEF GiveUp, Watches, imageVars
  <2>2. CoordMove(p, k)
    BY <1>b, <1>c, <2>1 DEF CoordMove, Waiting, vars
  <2> QED BY <1>0, <1>a, <1>b, <2>1, <2>2, CoordTask
<1>4. CASE EndParent(p, k)
  <2>1. asset' = asset /\ Goes(p, k, "cleaning") /\ coord[p][k] = "ending"
    BY <1>4 DEF EndParent, imageVars
  <2>2. CASE Waiting(p)
    <3>1. PICK status \in Verdict(p) : TerminateWorkflow(p, status)
      BY <1>4, <2>2 DEF EndParent
    <3>2. status \in TerminalStatuses \ {"completed"}
      BY <3>1 DEF Verdict
    <3>3. StoreStep /\ Rows' = Rows /\ \A j \in Rows : Moves(j)
      BY <3>1, <3>2, RowCalls
    <3>4. jobs'[p].status = status
      BY SMTT(30), <3>1 DEF TerminateWorkflow, UpdateRows, Row
    <3>5. IsTerminal(jobs'[p]) /\ ~Waiting(p)'
      BY <3>2, <3>4 DEF IsTerminal, Waiting
    <3>6. CoordMove(p, k)
      BY <1>b, <1>c, <2>1, <3>5 DEF CoordMove
    <3> QED BY <1>0, <1>b, <2>1, <3>3, <3>6, CoordTask
  <2>3. CASE ~Waiting(p)
    <3>1. UNCHANGED vars /\ (p \in doubled \/ IsTerminal(jobs[p]))
      BY <1>4, <1>b, <2>1, <2>3 DEF EndParent, CoordOK
    <3>2. CoordMove(p, k)
      BY <1>0, <1>b, <1>c, <2>1, <2>3, <3>1 DEF CoordMove, Waiting, vars
    <3> QED BY <1>0, <1>a, <1>b, <2>1, <3>1, <3>2, CoordTask
  <2> QED BY <2>2, <2>3
<1>5. CASE CleanUp(p, k)
  <2>1. /\ UNCHANGED vars /\ (PurgeImage(p) \/ asset' = asset)
        /\ Goes(p, k, "none") /\ coord[p][k] = "cleaning"
        /\ Doomed(p) \/ p \in doubled
    BY <1>5, <1>b DEF CleanUp, CoordOK, Doomed
  <2>2. CoordMove(p, k)
    BY <1>b, <1>c, <2>1 DEF CoordMove
  <2> QED BY <1>0, <1>a, <1>b, <2>1, <2>2, CoordTask
<1>6. CASE FinishWatch(p, k)
  <2>1. PICK place \in {"none", "cleaning"} : Goes(p, k, place)
    BY <1>6 DEF FinishWatch
  <2>2. /\ UNCHANGED vars /\ asset' = asset /\ coord[p][k] = "watch" /\ IsTerminal(jobs[p])
        /\ place \in Places /\ ~Waiting(p)
    BY <1>6, <1>b DEF FinishWatch, imageVars, IsTerminal, Waiting
  <2>3. CoordMove(p, k)
    BY <1>c, <2>1, <2>2 DEF CoordMove, Waiting, vars
  <2> QED BY <1>0, <1>a, <2>1, <2>2, <2>3, CoordTask
<1> QED BY <1>1, <1>2, <1>3, <1>4, <1>5, <1>6

\* The two transactions of a promotion.  Between them p still waits, or it is settled
\* or in the hands of its other coordinator; then neither transaction touches the row.
LEMMA PromotionStep ==
    ASSUME FlowInv, NEW p \in Parents, NEW k \in Spawners, PromotePayload(p, k) \/ Promote(p, k)
    PROVE  FlowInv' /\ StoreStep
<1> USE TaskFacts
<1>0. /\ Promotable(p, k) /\ UNCHANGED <<creator, childOf, cascade, asset, doubled>>
      /\ coord[p][k] # "none" /\ jobs[p].payload # "bare"
  BY DEF PromotePayload, Promote, FlowOK, CoordOK, imageVars, apiVars
<1>a. {"abandoning", "promoting", "watch"} \subseteq Places
  BY DEF Places
<1>b. ASSUME NEW place \in Places, Goes(p, k, place)
      PROVE  /\ coord' \in [JobIds -> [Spawners -> Places]] /\ coord'[p][k] = place
             /\ \A l \in Spawners \ {k} : coord'[p][l] = coord[p][l]
             /\ \A q \in JobIds \ {p} : coord'[q] = coord[q]
             /\ FlowTypes' /\ Single(p)'
  <2>1. /\ coord' \in [JobIds -> [Spawners -> Places]] /\ coord'[p][k] = place
        /\ \A l \in Spawners \ {k} : coord'[p][l] = coord[p][l]
        /\ \A q \in JobIds \ {p} : coord'[q] = coord[q]
    BY <1>b, CoordMoves DEF FlowInv
  <2> QED BY <1>0, <1>b, <2>1, MovesOn DEF FlowTypes, FlowInv
<1>c. \A q \in JobIds : childOf[q] # NoJob => Grows(childOf[q])
  BY <1>0 DEF Grows
<1>1. CASE ~Waiting(p)
  <2>1. /\ UNCHANGED vars /\ Goes(p, k, "abandoning")
        /\ p \in doubled \/ IsTerminal(jobs[p])
    BY <1>0, <1>1 DEF PromotePayload, Promote, Promotable
  <2>2. StoreStep /\ Rows' = Rows /\ \A j \in Rows : Moves(j)
    BY <2>1, WorkerSide
  <2>3. CoordMove(p, k)
    BY <1>0, <1>1, <1>a, <1>b, <2>1 DEF CoordMove, Waiting, vars
  <2> QED BY <1>0, <1>a, <2>1, <2>2, <2>3, CoordTask
<1>2. ASSUME Waiting(p)
      PROVE  /\ childOf[p] \in Rows /\ childOf[p] # p /\ cascade[p].at = "none"
             /\ Child(p).status = "completed" /\ asset[childOf[p]] # "none"
             /\ p \in doubled \/ HasImage(childOf[p])
  <2>1. /\ childOf[p] # NoJob /\ Child(p).status = "completed" /\ asset[childOf[p]] # "none"
        /\ p \in doubled \/ HasImage(childOf[p])
    BY <1>0, <1>2 DEF Promotable, Waiting, IsTerminal
  <2>2. childOf[p] # p
    BY <1>2, <2>1 DEF Child, Waiting
  <2>3. ~Doomed(p)
    BY <1>2 DEF Doomed, Waiting, IsTerminal, Owned, IsPending
  <2> QED BY <2>1, <2>2, <2>3 DEF FlowOK
\* What the other coordinator of a doubled parent knows stays true.
<1>3. ASSUME Waiting(p), Single(p)', NEW l \in Spawners \ {k}, coord'[p][l] = coord[p][l],
             jobs'[p].payload = "resolved", Child(p)'.status = "completed",
             jobs'[p].status \in {"pending_workflow", "queued"},
             coord'[p][k] # "none"
      PROVE  CoordOK(p, l)'
  <2>1. CASE coord[p][l] = "none"
    BY <1>3, <2>1 DEF CoordOK
  <2>2. CASE coord[p][l] # "none"
    <3>1. p \in doubled /\ p \in doubled' /\ CoordOK(p, l)
      BY <1>0, <1>3, <2>2 DEF FlowOK, Single
    <3>2. coord[p][l] \notin {"abandoning", "cleaning"}
      BY <1>3, <3>1 DEF CoordOK
    <3>3. childOf'[p] # NoJob /\ asset'[childOf'[p]] # "none"
      BY <1>0, <1>2, <1>3 DEF Promotable
    <3> QED BY <1>3, <3>1, <3>2, <3>3 DEF CoordOK, Promotable
  <2> QED BY <2>1, <2>2
<1>4. CASE PromotePayload(p, k) /\ Waiting(p)
  <2>1. UpdateWorkflowPayload(p, "resolved") /\ Goes(p, k, "promoting")
    BY <1>4 DEF PromotePayload
  <2>2. "resolved" \in Payloads
    BY WorkflowAssumption
  <2>3. /\ StoreStep /\ Rows' = Rows /\ \A q \in Rows \ {p} : jobs'[q] = jobs[q]
        /\ jobs'[p].shape = jobs[p].shape /\ jobs'[p].status = "pending_workflow"
        /\ jobs'[p].payload = "resolved"
    BY <1>4, <2>1, <2>2, Promotes DEF Waiting
  <2>4. ~Dispatched(p)' /\ jobs'[p].status # "completed" /\ Waiting(p)'
    BY <2>3 DEF Dispatched, Waiting, IsQueued, IsActive
  <2>5. childOf[p] \in Rows' /\ childOf[p] # NoJob /\ Child(p)'.status = "completed"
    BY <1>0, <1>2, <1>4, <2>3 DEF Child, Promotable
  <2>6. Single(p)' /\ coord'[p][k] = "promoting" /\ \A l \in Spawners \ {k} : coord'[p][l] = coord[p][l]
    BY <1>a, <1>b, <2>1
  <2>7. CoordOK(p, k)'
    <3>1. p \in doubled' \/ HasImage(childOf[p])'
      BY <1>0, <1>2, <1>4 DEF HasImage
    <3> QED BY <1>0, <1>2, <1>4, <2>3, <2>4, <2>5, <2>6, <3>1 DEF CoordOK, Promotable
  <2>8. ASSUME NEW l \in Spawners PROVE CoordOK(p, l)'
    BY <1>3, <1>4, <2>3, <2>5, <2>6, <2>7
  <2>9. FlowOK(p)'
    <3>1. creator'[p] = "none"
      BY <1>0 DEF FlowOK
    <3> QED BY <1>0, <1>2, <1>4, <2>3, <2>4, <2>5, <2>6, <2>8, <3>1 DEF FlowOK
  <2> QED BY <1>0, <1>a, <1>b, <1>c, <2>1, <2>3, <2>9, SameRow, Task
<1>5. CASE Promote(p, k) /\ Waiting(p)
  <2>1. EnqueueWorkflow(p) /\ Goes(p, k, "watch") /\ jobs[p].payload = "resolved"
    BY <1>0, <1>5 DEF Promote, Promotable
  <2>2. /\ StoreStep /\ Rows' = Rows /\ \A q \in Rows \ {p} : jobs'[q] = jobs[q]
        /\ jobs'[p].shape = jobs[p].shape /\ jobs'[p].status = "queued"
        /\ jobs'[p].payload = "resolved"
    BY <2>1, Promotes
  <2>3. childOf[p] \in Rows' /\ childOf[p] # NoJob /\ Child(p)'.status = "completed"
    BY <1>0, <1>2, <1>5, <2>2 DEF Child, Promotable
  <2>4. Single(p)' /\ coord'[p][k] = "watch" /\ \A l \in Spawners \ {k} : coord'[p][l] = coord[p][l]
    BY <1>a, <1>b, <2>1
  <2>5. CoordOK(p, k)'
    BY <2>4 DEF CoordOK
  <2>6. ASSUME NEW l \in Spawners PROVE CoordOK(p, l)'
    BY <1>3, <1>5, <2>2, <2>3, <2>4, <2>5
  <2>7. FlowOK(p)'
    <3>1. creator'[p] = "none"
      BY <1>0 DEF FlowOK
    <3>2. p \notin doubled' => HasImage(childOf[p])'
      BY <1>0, <1>2, <1>5 DEF HasImage
    <3> QED BY <1>0, <1>2, <1>5, <2>2, <2>3, <2>4, <2>6, <3>1, <3>2 DEF FlowOK
  <2> QED BY <1>0, <1>a, <1>b, <1>c, <2>1, <2>2, <2>7, SameRow, Task
<1> QED BY <1>1, <1>4, <1>5

\* The cancel handler.
LEMMA CancelStep ==
    ASSUME FlowInv, NEW p \in Parents, CancelParent(p) \/ CascadeToChild(p) \/ CascadePurge(p)
    PROVE  FlowInv' /\ StoreStep
<1> USE TaskFacts
<1>0. /\ UNCHANGED <<creator, childOf, coord, doubled>>
      /\ cascade[p] \in [at : {"none", "child", "purge"}, seen : Payloads]
      /\ NoCascade \in [at : {"none", "child", "purge"}, seen : Payloads]
      /\ NoCascade.at = "none"
  BY WorkflowAssumption
     DEF CancelParent, CascadeToChild, CascadePurge, FlowInv, FlowTypes, NoCascade, apiVars
<1>a. Single(p)' /\ \A k \in Spawners : CoordMove(p, k)
  BY <1>0, SameCoords
<1>b. ASSUME asset' = asset
      PROVE  \A q \in JobIds : childOf[q] # NoJob => Grows(childOf[q])
  BY <1>b DEF Grows
<1>1. CASE CancelParent(p)
  <2>1. /\ CancelRow(p) /\ asset' = asset
        /\ cascade' = [cascade EXCEPT ![p] =
                IF jobs[p].payload = "bare" THEN NoCascade
                ELSE [at |-> "child", seen |-> jobs[p].payload]]
    BY <1>1 DEF CancelParent, imageVars
  <2>2. StoreStep /\ Rows' = Rows /\ (\A j \in Rows : Moves(j)) /\ Doomed(p)'
    BY <2>1, CancelRows DEF Doomed
  <2>3. jobs[p].payload \in Payloads
    BY DEF Row
  <2>4. FlowTypes'
    BY <1>0, <2>1, <2>3 DEF FlowTypes, FlowInv
  <2>5. cascade'[p].at = "none" \/ jobs[p].payload # "bare"
    BY <1>0, <2>1
  <2>6. FlowOK(p)'
    BY <1>0, <1>a, <1>b, <2>1, <2>2, <2>5, Stays
  <2> QED BY <1>0, <1>b, <2>1, <2>2, <2>4, <2>6, Task DEF Moves
<1>2. CASE CascadeToChild(p)
  <2>1. /\ CancelRow(childOf[p]) /\ asset' = asset /\ childOf[p] \in Rows
        /\ cascade[p].at # "none"
        /\ cascade' = [cascade EXCEPT ![p] =
                IF @.seen = "resolved" THEN [@ EXCEPT !.at = "purge"] ELSE NoCascade]
    BY <1>2 DEF CascadeToChild, FlowOK, imageVars
  <2>2. StoreStep /\ Rows' = Rows /\ \A j \in Rows : Moves(j)
    BY <2>1, CancelRows
  <2>3. FlowTypes'
    BY <1>0, <2>1 DEF FlowTypes, FlowInv
  <2>4. FlowOK(p)'
    BY <1>0, <1>a, <1>b, <2>1, <2>2, Stays
  <2> QED BY <1>0, <1>b, <2>1, <2>2, <2>3, <2>4, Task DEF Moves
<1>3. CASE CascadePurge(p)
  <2>1. /\ UNCHANGED vars /\ PurgeImage(p) /\ Doomed(p)
        /\ cascade' = [cascade EXCEPT ![p] = NoCascade]
    BY <1>3 DEF CascadePurge, FlowOK
  <2>2. StoreStep /\ Rows' = Rows /\ \A j \in Rows : Moves(j)
    BY <2>1, WorkerSide
  <2>3. FlowTypes'
    BY <1>0, <2>1, Purges DEF FlowTypes, FlowInv
  <2>4. childOf[p] # NoJob => childOf[p] \in JobIds
    BY DEF FlowInv, FlowTypes
  <2>5. FlowOK(p)'
    BY <1>0, <1>a, <2>1, <2>2, <2>4, Purges, Stays
  <2> QED BY <1>0, <2>1, <2>2, <2>3, <2>5, Purges, Task DEF Moves
<1> QED BY <1>1, <1>2, <1>3

\* Creating a parent or a child adds a row without tasks of its own; the handler of
\* the parent learns the child's id.
LEMMA CreateStep ==
    ASSUME FlowInv, CreateParent \/ \E p \in Parents : CreateChild(p)
    PROVE  FlowInv' /\ StoreStep
<1>0. IInv /\ Rows \subseteq JobIds /\ Parents \subseteq Rows
  BY SMTT(30), RoutingAssumption DEF Parents, FlowInv, IInv, TypeOK, Rows, JobIds
<1>a. ASSUME StoreStep, \A j \in Rows : jobs'[j] = jobs[j],
             NEW q \in Parents,
             creator'[q] = creator[q], childOf'[q] = childOf[q], asset' = asset,
             coord' = coord, cascade'[q] = cascade[q], doubled' = doubled
      PROVE  FlowOK(q)'
  <2>1. Moves(q)
    BY <1>0, <1>a, SameRow DEF FlowInv, NoCaption
  <2>2. Single(q)' /\ \A k \in Spawners : CoordMove(q, k)
    BY <1>a, SameCoords
  <2>3. Grows(childOf[q])
    BY <1>a DEF Grows
  <2> QED BY <1>a, <2>1, <2>2, <2>3, Stays
<1>1. CASE CreateParent
  <2>1. /\ CreateJob("vector", AutoGpu, "pending_workflow")
        /\ creator' = [creator EXCEPT ![nextRow] = "created"]
        /\ UNCHANGED <<childOf, coord, cascade, asset, doubled>>
    BY <1>1 DEF CreateParent, imageVars, apiVars
  <2>2. /\ StoreStep /\ nextRow \in JobIds \ Rows /\ Rows' = Rows \cup {nextRow}
        /\ \A p \in Rows : jobs'[p] = jobs[p]
        /\ jobs'[nextRow].shape = "vector" /\ jobs'[nextRow].status = "pending_workflow"
        /\ jobs'[nextRow].payload = "bare"
    BY <1>0, <2>1, Creates
  <2>3. FlowTypes'
    BY <2>1 DEF FlowTypes, FlowInv
  <2>4. Parents' = Parents \cup {nextRow}
    BY <2>2 DEF Parents
  <2>5. Fresh' /\ NoCaption' /\ OwnChild'
    BY SMTT(30), <2>1, <2>2, <2>4 DEF FlowInv, FlowTypes, Fresh, NoCaption, OwnChild
  <2>6. ASSUME NEW q \in Parents PROVE FlowOK(q)'
    BY <1>0, <1>a, <2>1, <2>2 DEF FlowInv, FlowTypes
  <2>7. ASSUME NEW n \in JobIds, n = nextRow PROVE FlowOK(n)'
    <3>1. /\ creator'[n] = "created" /\ childOf'[n] = NoJob /\ coord'[n] = NoCoords
          /\ cascade'[n].at = "none"
      BY SMTT(30), <2>1, <2>2, <2>7 DEF FlowInv, FlowTypes, Fresh, NoCascade, Parents
    <3>3. Single(n)' /\ \A k \in Spawners : CoordOK(n, k)'
      <4>1. \A k \in Spawners : coord'[n][k] = "none"
        BY <3>1 DEF NoCoords
      <4> QED BY <4>1 DEF Single, CoordOK
    <3>2. ~Dispatched(n)' /\ jobs'[n].status # "completed"
      BY <2>2, <2>7 DEF Dispatched, IsQueued, IsActive
    <3> QED BY <2>2, <2>7, <3>1, <3>2, <3>3 DEF FlowOK
  <2>8. \A q \in Parents' : FlowOK(q)'
    BY <2>2, <2>4, <2>6, <2>7
  <2> QED BY <2>2, <2>3, <2>5, <2>8 DEF FlowInv, StoreStep, StepOK
<1>2. ASSUME NEW p \in Parents, CreateChild(p)
      PROVE  FlowInv' /\ StoreStep
  <2>1. /\ creator[p] = "created" /\ CreateJob("image", AutoGpu, "queued")
        /\ creator' = [creator EXCEPT ![p] = "linking"]
        /\ childOf' = [childOf EXCEPT ![p] = nextRow]
        /\ UNCHANGED <<coord, cascade, asset, doubled>>
    BY <1>2 DEF CreateChild, imageVars, apiVars
  <2>2. /\ StoreStep /\ nextRow \in JobIds \ Rows /\ Rows' = Rows \cup {nextRow}
        /\ \A q \in Rows : jobs'[q] = jobs[q]
        /\ jobs'[nextRow].shape = "image" /\ jobs'[nextRow].status = "queued"
    BY <1>0, <2>1, Creates
  <2>3. FlowTypes' /\ p \in JobIds /\ FlowOK(p)
    BY <1>0, <2>1, <2>2 DEF FlowTypes, FlowInv
  <2>4. Parents' = Parents
    BY <2>2 DEF Parents
  <2>5. Fresh' /\ NoCaption'
    <3>1. Fresh'
      BY <1>0, <2>1, <2>4 DEF FlowInv, FlowTypes, Fresh
    <3>2. NoCaption'
      BY <2>2 DEF FlowInv, NoCaption
    <3> QED BY <3>1, <3>2
  <2>6. NoJob # nextRow /\ \A q \in JobIds : childOf[q] # nextRow
    BY SMTT(30), <2>2, RoutingAssumption DEF FlowInv, FlowTypes, FlowOK, Fresh, Parents
  <2>7. OwnChild'
    BY SMTT(30), <2>1, <2>2, <2>3, <2>6 DEF FlowInv, FlowTypes, OwnChild
  <2>8. ASSUME NEW q \in Parents, q # p PROVE FlowOK(q)'
    BY <1>0, <1>a, <2>1, <2>2, <2>8 DEF FlowInv, FlowTypes
  <2>9. FlowOK(p)'
    <3>1. /\ childOf[p] = NoJob /\ jobs[p].payload = "bare"
          /\ ~Dispatched(p) /\ jobs[p].status # "completed" /\ cascade[p].at = "none"
      BY <2>1, <2>3 DEF FlowOK
    <3>2. /\ creator'[p] = "linking" /\ childOf'[p] = nextRow /\ nextRow \in Rows'
          /\ coord'[p] = coord[p] /\ cascade'[p] = cascade[p] /\ jobs'[p] = jobs[p]
      BY SMTT(30), <1>0, <2>1, <2>2, <2>3 DEF FlowInv, FlowTypes
    <3>3. Single(p)'
      BY <2>1, SameCoords
    <3>4. ASSUME NEW k \in Spawners PROVE CoordOK(p, k)'
      <4>1. CoordOK(p, k) /\ coord[p][k] \in {"none", "watch", "cleaning"}
        BY <2>3, <3>1 DEF FlowOK, CoordOK
      <4> QED BY <2>1, <3>2, <4>1 DEF CoordOK, Waiting
    <3> QED BY <2>3, <2>6, <3>1, <3>2, <3>3, <3>4 DEF FlowOK, Dispatched
  <2> QED BY <2>2, <2>3, <2>4, <2>5, <2>7, <2>8, <2>9 DEF FlowInv, StoreStep, StepOK
<1> QED BY <1>1, <1>2

\* The steps of workers, clients and side effects.
Outside ==
    \/ \E c \in Rows : CancelChild(c) \/ PublishTick(c) \/ PublishAsset(c)
    \/ \E w \in Workers : Register(w) \/ Claim(w) \/ Terminated(w)
    \/ \E w \in Workers, j \in Rows : Report(w, j)
    \/ UNCHANGED wfVars

\* What these, a restart and the recovery task call in the store moves the rows forward.
LEMMA OutsideMoves ==
    ASSUME FlowInv, Outside \/ RestartApi \/ Recover
    PROVE  StoreStep /\ Rows' = Rows /\ \A j \in Rows : Moves(j)
<1>0. IInv /\ \A j \in Rows : jobs[j].status # "pending_caption"
  BY DEF FlowInv, NoCaption
<1>1. CASE \E c \in Rows : CancelChild(c) \/ PublishAsset(c)
  <2>1. \E c \in Rows : CancelJob(c) \/ FinishSideEffects(c)
    BY <1>1 DEF CancelChild, PublishAsset
  <2> QED BY <1>0, <2>1, RowCalls
<1>2. CASE ~ \E c \in Rows : CancelChild(c) \/ PublishAsset(c)
  <2>1. \/ \E w \in Workers : RegisterWorker(w) \/ ClaimNextJob(w) \/ FailWorkerJobTerminated(w)
        \/ \E w \in Workers, j \in Rows, status \in Reports : UpdateJobProgress(w, j, status)
        \/ Startup({})
        \/ UNCHANGED vars
    BY <1>2 DEF Outside, Register, Claim, Terminated, Report, PublishTick, RestartApi, Recover,
                Resume, wfVars, vars
  <2> QED BY <1>0, <2>1, WorkerSide
<1> QED BY <1>1, <1>2

\* Writing an image.
LEMMA Writes ==
    ASSUME FlowTypes, NEW c \in JobIds, WriteImage(c)
    PROVE  /\ asset' \in [JobIds -> {"none", "published", "purged", "restored"}]
           /\ \A d \in JobIds :
                /\ Grows(d) /\ (asset[d] # "none" => asset'[d] # "none")
                /\ asset'[d] = "published" => asset[d] \in {"none", "published"}
BY DEF FlowTypes, WriteImage, Grows

\* The workers, the side effects of their reports, and a client that cancels a child.
LEMMA OtherStep ==
    ASSUME FlowInv, Outside
    PROVE  FlowInv' /\ StoreStep
<1>0. Rows \subseteq JobIds
  BY SMTT(30), RoutingAssumption DEF FlowInv, IInv, TypeOK, Rows, JobIds
<1>1. StoreStep /\ Rows' = Rows /\ \A j \in Rows : Moves(j)
  BY OutsideMoves
<1>2. /\ UNCHANGED <<creator, childOf, coord, cascade, doubled>>
      /\ asset' = asset \/ \E c \in Rows : WriteImage(c)
  BY DEF Outside, CancelChild, PublishTick, PublishAsset, Register, Claim, Terminated, Report,
         flowVars, wfVars, apiVars
<1>3. FlowTypes' /\ \A c \in JobIds : Grows(c)
  <2>1. CASE asset' = asset
    BY <1>2, <2>1 DEF FlowInv, FlowTypes, Grows
  <2>2. CASE \E c \in Rows : WriteImage(c)
    BY <1>0, <1>2, <2>2, Writes DEF FlowInv, FlowTypes
  <2> QED BY <1>2, <2>1, <2>2
<1> QED BY <1>1, <1>2, <1>3, NoTask

\* An API restart ends every task.
LEMMA RestartStep ==
    ASSUME FlowInv, RestartApi
    PROVE  FlowInv' /\ StoreStep
<1>0. Parents \subseteq Rows /\ Rows \subseteq JobIds
  BY SMTT(30), RoutingAssumption DEF FlowInv, IInv, TypeOK, Rows, JobIds, Parents
<1>1. StoreStep /\ Rows' = Rows /\ \A j \in Rows : Moves(j)
  BY OutsideMoves
<1>2. /\ creator' = [p \in JobIds |-> "none"]
      /\ cascade' = [p \in JobIds |-> NoCascade]
      /\ coord' = [p \in JobIds |-> NoCoords]
      /\ UNCHANGED <<childOf, asset, doubled>>
  BY DEF RestartApi
<1>3. /\ NoCascade \in [at : {"none", "child", "purge"}, seen : Payloads] /\ NoCascade.at = "none"
      /\ NoCoords \in [Spawners -> Places] /\ \A k \in Spawners : NoCoords[k] = "none"
  BY WorkflowAssumption DEF NoCascade, NoCoords, Places
<1>4. FlowTypes'
  BY <1>2, <1>3 DEF FlowInv, FlowTypes
<1>5. ASSUME NEW q \in Parents PROVE FlowOK(q)'
  <2>1. \A k \in Spawners : coord'[q][k] = "none"
    BY <1>0, <1>2, <1>3
  <2>2. Single(q)' /\ \A k \in Spawners : CoordMove(q, k)
    BY <2>1 DEF Single, CoordMove
  <2>3. Grows(childOf[q])
    BY <1>2 DEF Grows
  <2> QED BY <1>0, <1>1, <1>2, <1>3, <2>2, <2>3, Stays
<1>6. \A j \in Rows : jobs'[j].shape = jobs[j].shape /\ jobs'[j].status # "pending_caption"
  BY <1>1 DEF Moves
<1>7. Fresh'
  BY <1>1, <1>2, <1>6 DEF Fresh, FlowInv, Parents
<1> QED BY <1>1, <1>2, <1>4, <1>5, <1>6, <1>7, Assembled

\* What the recovery task does to the coordinators.
LEMMA Resumes ==
    ASSUME FlowInv, Recover, NEW q \in JobIds
    PROVE  /\ coord' \in [JobIds -> [Spawners -> Places]]
           /\ doubled \subseteq doubled' /\ doubled' \subseteq JobIds
           /\ coord'[q]["handler"] = coord[q]["handler"]
           /\ \/ coord'[q] = coord[q] /\ (q \in Parents => jobs[q].status = "completed")
              \/ /\ q \in Parents /\ coord'[q]["recovery"] = "watch"
                 /\ coord[q]["handler"] # "none" => q \in doubled'
<1> DEFINE listed == {p \in Parents : jobs[p].status # "completed"}
<1>1. /\ coord' = [p \in JobIds |->
            IF p \in listed THEN [coord[p] EXCEPT !["recovery"] = "watch"] ELSE coord[p]]
      /\ doubled' = doubled \cup {p \in listed : coord[p]["handler"] # "none"}
  BY DEF Recover, Resume
<1>2. listed \subseteq Parents /\ listed \subseteq JobIds
  BY SMTT(30), RoutingAssumption DEF Parents, FlowInv, IInv, TypeOK, Rows, JobIds
<1>3. coord \in [JobIds -> [Spawners -> Places]] /\ doubled \subseteq JobIds /\ "watch" \in Places
  BY DEF FlowInv, FlowTypes, Places
<1>4. q \in Parents /\ q \notin listed => jobs[q].status = "completed"
  OBVIOUS
<1> HIDE DEF listed
<1>5. coord' \in [JobIds -> [Spawners -> Places]]
  <2>1. ASSUME NEW p \in JobIds
        PROVE  coord[p] \in [Spawners -> Places]
               /\ [coord[p] EXCEPT !["recovery"] = "watch"] \in [Spawners -> Places]
    BY <1>3
  <2> QED BY <1>1, <2>1
<1>6. CASE q \in listed
  <2>1. coord'[q] = [coord[q] EXCEPT !["recovery"] = "watch"] /\ coord[q] \in [Spawners -> Places]
    BY <1>1, <1>3, <1>6
  <2>2. coord'[q]["recovery"] = "watch" /\ coord'[q]["handler"] = coord[q]["handler"]
    BY <2>1 DEF Spawners
  <2> QED BY <1>1, <1>2, <1>3, <1>5, <1>6, <2>2
<1>7. CASE q \notin listed
  BY <1>1, <1>2, <1>3, <1>4, <1>5, <1>7
<1> QED BY <1>6, <1>7

\* The recovery task starts coordinators, a second one for some parents.
LEMMA RecoverStep ==
    ASSUME FlowInv, Recover
    PROVE  FlowInv' /\ StoreStep
<1>0. Parents \subseteq Rows /\ Rows \subseteq JobIds /\ {1} # {}
  BY SMTT(30), RoutingAssumption DEF FlowInv, IInv, TypeOK, Rows, JobIds, Parents
<1>1. StoreStep /\ Rows' = Rows /\ \A j \in Rows : Moves(j)
  BY OutsideMoves
<1>2. UNCHANGED <<creator, childOf, cascade, asset>> /\ UNCHANGED vars
  BY DEF Recover, Resume, imageVars
<1>3. /\ coord' \in [JobIds -> [Spawners -> Places]] /\ doubled \subseteq doubled'
      /\ doubled' \subseteq JobIds
  <2>1. CASE JobIds = {}
    BY <2>1, <1>0 DEF Recover, Resume, FlowInv, FlowTypes
  <2>2. CASE JobIds # {}
    BY <2>2, Resumes
  <2> QED BY <2>1, <2>2
<1>4. FlowTypes'
  BY <1>2, <1>3 DEF FlowInv, FlowTypes
<1>5. ASSUME NEW q \in Parents PROVE FlowOK(q)'
  <2>0. q \in JobIds /\ FlowOK(q) /\ Single(q)
    BY <1>0 DEF FlowInv, FlowOK
  <2>1. CASE coord'[q] = coord[q]
    <3>1. Single(q)' /\ \A k \in Spawners : CoordMove(q, k)
      BY <1>3, <2>1, SameCoords
    <3>2. Grows(childOf[q])
      BY <1>2 DEF Grows
    <3> QED BY <1>0, <1>1, <1>2, <1>3, <3>1, <3>2, Stays
  <2>2. CASE coord'[q] # coord[q]
    <3>1. /\ coord'[q]["handler"] = coord[q]["handler"] /\ coord'[q]["recovery"] = "watch"
          /\ coord[q]["handler"] # "none" => q \in doubled'
      BY <2>0, <2>2, Resumes
    <3>2. Single(q)' /\ \A k \in Spawners : CoordMove(q, k)
      BY <3>1 DEF Single, CoordMove, Spawners
    <3>3. Grows(childOf[q])
      BY <1>2 DEF Grows
    <3> QED BY <1>0, <1>1, <1>2, <1>3, <3>2, <3>3, Stays
  <2> QED BY <2>1, <2>2
<1>6. \A j \in Rows : jobs'[j].shape = jobs[j].shape /\ jobs'[j].status # "pending_caption"
  BY <1>1 DEF Moves
<1>7. Fresh'
  <2>1. Parents' = Parents
    BY <1>1, <1>6 DEF Parents
  <2>2. ASSUME NEW q \in JobIds \ Parents PROVE coord'[q] = coord[q]
    BY <2>2, Resumes
  <2> QED BY <1>2, <2>1, <2>2 DEF Fresh, FlowInv
<1> QED BY <1>1, <1>2, <1>4, <1>5, <1>6, <1>7, Assembled

-----------------------------------------------------------------------------
(* The theorems *)

LEMMA FlowInitInv == WorkflowInit => FlowInv
<1> SUFFICES ASSUME WorkflowInit PROVE FlowInv
  OBVIOUS
<1>1. IInv /\ Rows = {} /\ Parents = {}
  BY InitInv DEF WorkflowInit, Init, Rows, Parents
<1>2. FlowTypes
  BY WorkflowAssumption DEF WorkflowInit, FlowTypes, NoCascade, NoCoords, Places
<1>3. Fresh /\ NoCaption /\ OwnChild
  BY <1>1 DEF WorkflowInit, Fresh, NoCaption, OwnChild
<1> QED BY <1>1, <1>2, <1>3 DEF FlowInv

\* The inductive step: also a legal step of the store that deletes no row.
LEMMA FlowNextInv == FlowInv /\ [WorkflowNext]_wfVars => FlowInv' /\ StoreStep
<1> SUFFICES ASSUME FlowInv, [WorkflowNext]_wfVars
             PROVE  FlowInv' /\ StoreStep
  OBVIOUS
<1>1. ASSUME NEW p \in Parents, TaskStep(p) \/ CancelParent(p)
      PROVE  FlowInv' /\ StoreStep
  BY <1>1, CreateStep, CreatorStep, CoordinatorStep, PromotionStep, CancelStep
     DEF TaskStep, CoordStep
<1> QED BY <1>1, CreateStep, OtherStep, RestartStep, RecoverStep DEF WorkflowNext, Outside

LEMMA FlowInvHolds == WorkflowSpec => []FlowInv
BY FlowInitInv, FlowNextInv, PTL DEF WorkflowSpec

\* A parent that is claimable, running or completed has its image resolved from a
\* child that completed, however the two transactions of its promotion interleave
\* with cancels, failures, reports and API restarts, for any number of workflows.
THEOREM OnlyWholeParentsRun == WorkflowSpec => []PromotedWhole
<1>1. FlowInv => PromotedWhole
  BY DEF FlowInv, FlowOK, PromotedWhole
<1> QED BY <1>1, FlowInvHolds, PTL

\* No coordinator and no cancel handler takes the source image away from a parent
\* that is still going to use it, unless the recovery task ever gave that parent a
\* second coordinator.
THEOREM SourceImageSafe == WorkflowSpec => []SourceImageKept
<1>1. FlowInv => SourceImageKept
  BY DEF FlowInv, FlowOK, SourceImageKept
<1> QED BY <1>1, FlowInvHolds, PTL

\* A parent that was canceled, failed or interrupted stays so, also against a
\* promotion that was prepared before.
THEOREM CancelsAreFinal == WorkflowSpec => CancelIsFinal
<1>1. FlowInv /\ [WorkflowNext]_wfVars =>
        [\A p \in Parents : IsTerminal(jobs[p]) => jobs'[p].status = jobs[p].status]_wfVars
  <2> SUFFICES ASSUME FlowInv, [WorkflowNext]_wfVars, NEW p \in Parents, IsTerminal(jobs[p])
               PROVE  jobs'[p].status = jobs[p].status
    OBVIOUS
  <2>1. StoreStep /\ IInv /\ p \in Rows
    BY FlowNextInv DEF FlowInv, Parents
  <2> QED BY <2>1, Settled
<1> QED BY <1>1, FlowInvHolds, PTL DEF WorkflowSpec, CancelIsFinal

\* The workflow's tasks, the workers and the API together implement JobLifecycle:
\* parents and children alike start at most once and on a free device, and only a
\* job that ran completes.
THEOREM WorkflowRefinement == WorkflowSpec => RefinesLifecycle
<1>1. WorkflowInit => Life!Init
  BY SMTT(30) DEF WorkflowInit, Init, Life!Init, Life!Idle, LifeOf, LifeRow, Rows, JobIds
<1>2. FlowInv /\ [WorkflowNext]_wfVars => [Life!Next]_([j \in JobIds |-> LifeOf(j)])
  BY FlowNextInv DEF StoreStep, StepOK
<1> QED BY <1>1, <1>2, FlowInvHolds, PTL DEF WorkflowSpec, RefinesLifecycle, Life!Spec

-----------------------------------------------------------------------------
(* Every workflow is tended *)

\* A coordinator watches p until it is over, or the recovery task will start one.
Watched(p) == recovering \/ \E k \in Spawners : coord[p][k] = "watch"

\* Somebody tends p as long as there is something to do for it.
DutyOK(p) ==
    /\ Waiting(p) /\ jobs[p].payload = "bare" => creator[p] # "unlinking"
    /\ Waiting(p) /\ jobs[p].payload # "bare" => Tended(p)
    /\ Dispatched(p) => Watched(p)
    /\ ImageHeld(p) => Tended(p)
    /\ jobs[p].payload = "resolved" => asset[childOf[p]] # "none"

DutyInv == \A p \in Parents : DutyOK(p)

\* What a step may do to an image: once made it leaves a trace, and the first copy
\* never comes back.
ImageSteps ==
    \A c \in JobIds :
        /\ asset[c] # "none" => asset'[c] # "none"
        /\ asset'[c] = "published" => asset[c] \in {"none", "published"}

\* The steps that promote, link or create nothing.
QuietTask(p) ==
    \/ ChildRefused(p) \/ CancelUnlinkedChild(p)
    \/ \E k \in Spawners :
        \/ Prepare(p, k) \/ AbandonImage(p, k) \/ GiveUp(p, k) \/ EndParent(p, k)
        \/ CleanUp(p, k) \/ FinishWatch(p, k)
        \/ ~Waiting(p) /\ (PromotePayload(p, k) \/ Promote(p, k))
    \/ ~Waiting(p) /\ LinkChild(p)
    \/ CancelParent(p) \/ CascadeToChild(p) \/ CascadePurge(p)

\* What these steps call in the store moves the rows forward.
LEMMA QuietMoves ==
    ASSUME FlowInv, NEW p \in Parents, QuietTask(p)
    PROVE  Rows' = Rows /\ \A j \in Rows : Moves(j)
<1> USE TaskFacts
<1>1. CASE UNCHANGED vars
  BY <1>1, WorkerSide
<1>2. CASE CancelRow(p)
  BY <1>2, CancelRows
<1>3. CASE childOf[p] # NoJob /\ CancelRow(childOf[p])
  BY <1>3, CancelRows
<1>4. CASE \E status \in TerminalStatuses \ {"completed"} : TerminateWorkflow(p, status)
  BY <1>4, RowCalls
<1>5. CASE CancelUnlinkedChild(p) \/ CascadeToChild(p)
  BY <1>3, <1>5 DEF CancelUnlinkedChild, CascadeToChild, FlowOK
<1>6. CASE ChildRefused(p)
  BY <1>1, <1>4, <1>6 DEF ChildRefused
<1>7. ASSUME NEW k \in Spawners, EndParent(p, k)
      PROVE  Rows' = Rows /\ \A j \in Rows : Moves(j)
  BY <1>1, <1>4, <1>7 DEF EndParent, Verdict
<1>8. CASE CancelParent(p)
  BY <1>2, <1>8 DEF CancelParent
<1>9. ASSUME NEW k \in Spawners,
             \/ Prepare(p, k) \/ AbandonImage(p, k) \/ GiveUp(p, k) \/ CleanUp(p, k)
             \/ FinishWatch(p, k) \/ (~Waiting(p) /\ (PromotePayload(p, k) \/ Promote(p, k)))
      PROVE  UNCHANGED vars
  BY <1>9 DEF Prepare, AbandonImage, GiveUp, CleanUp, FinishWatch, PromotePayload, Promote
<1>10. CASE CascadePurge(p) \/ (~Waiting(p) /\ LinkChild(p))
  BY <1>1, <1>10 DEF CascadePurge, LinkChild
<1> QED BY <1>1, <1>5, <1>6, <1>7, <1>8, <1>9, <1>10 DEF QuietTask

\* Images are written, and purged, and written again.
LEMMA ImagesStep ==
    ASSUME FlowInv, [WorkflowNext]_wfVars
    PROVE  ImageSteps
<1>0. Rows \subseteq JobIds /\ FlowTypes
  BY SMTT(30), RoutingAssumption DEF FlowInv, IInv, TypeOK, Rows, JobIds
<1>1. asset' = asset => ImageSteps
  BY DEF ImageSteps
<1>2. ASSUME NEW p \in Parents, PurgeImage(p) PROVE ImageSteps
  BY <1>0, <1>2 DEF PurgeImage, ImageSteps, FlowTypes
<1>3. ASSUME NEW c \in Rows, WriteImage(c) PROVE ImageSteps
  BY <1>0, <1>3, Writes DEF ImageSteps
<1>4. \/ asset' = asset \/ \E p \in Parents : PurgeImage(p)
      \/ \E c \in Rows : WriteImage(c)
  <2>1. ASSUME NEW p \in Parents, NEW k \in Spawners, CoordStep(p, k)
        PROVE  asset' = asset \/ PurgeImage(p)
    BY <2>1 DEF CoordStep, Prepare, PromotePayload, Promote, AbandonImage, GiveUp, EndParent,
                CleanUp, FinishWatch, imageVars
  <2>2. ASSUME NEW p \in Parents, TaskStep(p) \/ CancelParent(p)
        PROVE  asset' = asset \/ PurgeImage(p)
    BY <2>1, <2>2 DEF TaskStep, CreateChild, ChildRefused, LinkChild, CancelUnlinkedChild,
          CascadeToChild, CascadePurge, CancelParent, imageVars
  <2>3. CASE UNCHANGED wfVars
    BY <2>3 DEF wfVars, flowVars, imageVars
  <2> QED BY <2>2, <2>3
       DEF WorkflowNext, CreateParent, CancelChild, PublishTick, PublishAsset, Register, Claim,
           Terminated, Report, RestartApi, Recover, Resume, flowVars, imageVars
<1> QED BY <1>1, <1>2, <1>3, <1>4

\* A step that moves p's row forward and takes away none of its tasks leaves it tended.
LEMMA DutyStays ==
    ASSUME FlowInv, DutyInv, StoreStep, ImageSteps, NEW p \in Parents, Moves(p),
           childOf'[p] = childOf[p],
           Tended(p) => Tended(p)',
           Dispatched(p) /\ Watched(p) => Watched(p)',
           creator'[p] = "unlinking" => creator[p] = "unlinking" \/ ~Waiting(p)
    PROVE  DutyOK(p)'
<1>0. /\ p \in Rows /\ FlowOK(p) /\ DutyOK(p) /\ jobs[p] \in Row /\ IInv
      /\ childOf[p] # NoJob => childOf[p] \in JobIds
      /\ jobs[p].status # "pending_caption"
  BY SMTT(30), TaskFacts, RoutingAssumption DEF DutyInv, FlowInv, FlowTypes, Parents
<1>1. /\ jobs'[p] \in Row
      /\ IsTerminal(jobs[p]) => IsTerminal(jobs'[p]) /\ jobs'[p].status = jobs[p].status
  BY <1>0, Settled
<1>2. jobs[p].payload = "resolved" => /\ asset'[childOf[p]] # "none"
                                      /\ asset'[childOf[p]] = "published" =>
                                            asset[childOf[p]] = "published"
  <2>1. ASSUME jobs[p].payload = "resolved"
        PROVE  childOf[p] \in JobIds /\ asset[childOf[p]] # "none"
    BY <1>0, <2>1 DEF FlowOK, DutyOK
  <2> QED BY <2>1 DEF ImageSteps
<1>3. Waiting(p) \/ Dispatched(p) \/ IsTerminal(jobs[p])
  BY <1>0 DEF Row, Waiting, Dispatched, IsQueued, IsActive, IsTerminal
<1>a. Watched(p) => Tended(p)
  BY DEF Watched, Tended
<1>4. ASSUME ImageHeld(p)' PROVE Tended(p)'
  <2>1. /\ IsTerminal(jobs'[p]) /\ jobs'[p].status # "completed"
        /\ jobs[p].payload = "resolved" /\ asset[childOf[p]] = "published"
    BY <1>2, <1>4 DEF ImageHeld, Moves
  <2>2. CASE IsTerminal(jobs[p])
    BY <1>0, <1>1, <2>1, <2>2 DEF ImageHeld, DutyOK
  <2> QED BY <1>0, <1>3, <1>a, <2>1, <2>2 DEF DutyOK
<1> QED BY <1>0, <1>2, <1>4 DEF DutyOK, Moves

\* What a parent's tasks do to the coordinators of others: nothing.
LEMMA Untouched ==
    ASSUME FlowInv, recovering' = recovering, NEW q \in JobIds, coord'[q] = coord[q]
    PROVE  (Tended(q) => Tended(q)') /\ (Watched(q) => Watched(q)')
BY DEF Tended, Watched

\* A step of a task of p leaves the other parents tended.
LEMMA DutyTask ==
    ASSUME FlowInv, DutyInv, StoreStep, ImageSteps, NEW p \in Parents, Parents' = Parents,
           recovering' = recovering,
           \A q \in JobIds \ {p} : /\ creator'[q] = creator[q] /\ coord'[q] = coord[q]
                                   /\ childOf'[q] = childOf[q],
           \A j \in Rows \ {p} : Moves(j),
           DutyOK(p)'
    PROVE  \A q \in Parents' : DutyOK(q)'
<1>1. \A q \in Parents \ {p} : q \in JobIds \ {p} /\ q \in Rows \ {p}
  BY TaskFacts
<1>2. ASSUME NEW q \in Parents \ {p} PROVE DutyOK(q)'
  <2>1. (Tended(q) => Tended(q)') /\ (Watched(q) => Watched(q)')
    BY <1>1, Untouched
  <2> QED BY <1>1, <2>1, DutyStays
<1> QED BY <1>2

\* The handler links the child to a waiting parent, or a coordinator promotes it.
LEMMA DutyPromotes ==
    ASSUME FlowInv, DutyInv, StoreStep, ImageSteps, NEW p \in Parents, Waiting(p),
           LinkChild(p) \/ \E k \in Spawners : PromotePayload(p, k) \/ Promote(p, k)
    PROVE  \A q \in Parents' : DutyOK(q)'
<1> USE TaskFacts
<1>0. /\ "linked" \in Payloads /\ "resolved" \in Payloads /\ "handler" \in Spawners
      /\ {"watch", "promoting"} \subseteq Places
  BY WorkflowAssumption DEF Spawners, Places
<1>1. PICK k \in Spawners :
        /\ UNCHANGED <<childOf, asset, recovering>>
        /\ Goes(p, k, "watch") \/ (UpdateWorkflowPayload(p, "resolved") /\ Goes(p, k, "promoting"))
        /\ \E a \in {creator[p], "none"} : creator' = [creator EXCEPT ![p] = a]
        /\ EnqueueWorkflow(p) \/ \E new \in Payloads : UpdateWorkflowPayload(p, new)
        /\ \/ UpdateWorkflowPayload(p, "linked") /\ creator[p] = "linking"
           \/ Promotable(p, k)
  <2>1. CASE LinkChild(p)
    <3>1. /\ UpdateWorkflowPayload(p, "linked") /\ creator[p] = "linking"
          /\ creator' = [creator EXCEPT ![p] = "none"]
          /\ Goes(p, "handler", "watch") /\ UNCHANGED <<childOf, asset, recovering>>
      BY <2>1 DEF LinkChild, Goes, imageVars
    <3> QED BY <1>0, <3>1
  <2>2. ASSUME NEW k \in Spawners, PromotePayload(p, k) \/ Promote(p, k)
        PROVE  /\ UNCHANGED <<childOf, asset, recovering, creator>>
               /\ \/ EnqueueWorkflow(p) /\ Goes(p, k, "watch")
                  \/ UpdateWorkflowPayload(p, "resolved") /\ Goes(p, k, "promoting")
               /\ Promotable(p, k)
    BY <2>2 DEF PromotePayload, Promote, FlowOK, CoordOK, imageVars, apiVars
  <2>3. creator = [creator EXCEPT ![p] = creator[p]]
    BY DEF FlowInv, FlowTypes
  <2> QED BY <1>0, <2>1, <2>2, <2>3
<1>2. /\ Rows' = Rows /\ \A q \in Rows \ {p} : jobs'[q] = jobs[q]
      /\ jobs'[p].shape = jobs[p].shape
  BY <1>1, Promotes
<1>3. /\ coord'[p][k] \in {"watch", "promoting"} /\ \A q \in JobIds \ {p} : coord'[q] = coord[q]
      /\ coord'[p][k] = "promoting" => UpdateWorkflowPayload(p, "resolved")
      /\ creator'[p] \in {creator[p], "none"}
      /\ \A q \in JobIds \ {p} : creator'[q] = creator[q]
  <2>1. /\ coord'[p][k] \in {"watch", "promoting"}
        /\ \A q \in JobIds \ {p} : coord'[q] = coord[q]
        /\ coord'[p][k] = "promoting" => UpdateWorkflowPayload(p, "resolved")
    <3>1. CASE Goes(p, k, "watch")
      <4>1. coord'[p][k] = "watch" /\ \A q \in JobIds \ {p} : coord'[q] = coord[q]
        BY <1>0, <3>1, CoordMoves DEF FlowInv
      <4> QED BY <4>1
    <3>2. CASE UpdateWorkflowPayload(p, "resolved") /\ Goes(p, k, "promoting")
      BY <1>0, <3>2, CoordMoves DEF FlowInv
    <3> QED BY <1>1, <3>1, <3>2
  <2>2. /\ creator'[p] \in {creator[p], "none"}
        /\ \A q \in JobIds \ {p} : creator'[q] = creator[q]
    BY <1>1 DEF FlowInv, FlowTypes
  <2> QED BY <2>1, <2>2
<1>4. jobs'[p].payload = "resolved" => asset'[childOf'[p]] # "none"
  <2>1. CASE UpdateWorkflowPayload(p, "linked")
    BY <1>0, <2>1, Promotes
  <2>2. CASE Promotable(p, k)
    BY <1>1, <2>2 DEF Promotable, Waiting, IsTerminal
  <2> QED BY <1>1, <2>1, <2>2
<1>5. Waiting(p)' /\ jobs'[p].payload = "bare" => creator[p] # "unlinking"
  <2>1. jobs[p].payload = "bare" => creator[p] # "unlinking"
    BY DEF DutyInv, DutyOK
  <2>2. CASE EnqueueWorkflow(p)
    BY <2>1, <2>2, Promotes
  <2>3. CASE UpdateWorkflowPayload(p, "linked") \/ Promotable(p, k)
    BY <1>0, <2>1, <2>3, Promotes, <1>1 DEF Promotable, Waiting, IsTerminal, FlowOK
  <2> QED BY <1>1, <2>2, <2>3
<1>6. DutyOK(p)'
  <2>1. Tended(p)'
    BY <1>3 DEF Tended
  <2>2. Dispatched(p)' => Watched(p)'
    <3>1. CASE coord'[p][k] = "watch"
      BY <3>1 DEF Watched
    <3>2. CASE UpdateWorkflowPayload(p, "resolved")
      <4>1. jobs'[p].status = jobs[p].status
        BY <1>0, <3>2, Promotes
      <4> QED BY <4>1 DEF Dispatched, IsQueued, IsActive, Waiting
    <3> QED BY <1>3, <3>1, <3>2
  <2> QED BY <1>3, <1>4, <1>5, <2>1, <2>2 DEF DutyOK
<1>7. Parents' = Parents
  BY <1>2 DEF Parents
<1>8. \A j \in Rows \ {p} : Moves(j)
  BY <1>2, SameRow
<1> QED BY <1>1, <1>3, <1>6, <1>7, <1>8, DutyTask

\* The other steps of the tasks.  A coordinator ends only with a parent that is over,
\* and leaves no image of it behind, or leaves a parent that another one has promoted
\* to that other one.
LEMMA DutyQuiet ==
    ASSUME FlowInv, DutyInv, StoreStep, ImageSteps, NEW p \in Parents, QuietTask(p)
    PROVE  \A q \in Parents' : DutyOK(q)'
<1> USE TaskFacts
<1>1. Rows' = Rows /\ \A j \in Rows : Moves(j)
  BY QuietMoves
<1>2. Parents' = Parents
  BY <1>1 DEF Parents, Moves
<1> DEFINE Ends(k) == /\ AbandonImage(p, k) \/ CleanUp(p, k) \/ FinishWatch(p, k)
                      /\ Goes(p, k, "none")
           Turns(k, a) ==
                      /\ Goes(p, k, a)
                      /\ a \in {"prepared", "abandoning", "ending", "cleaning"}
                      /\ Dispatched(p) => coord[p][k] # "watch"
<1>3. /\ childOf' = childOf /\ recovering' = recovering
      /\ \/ creator' = creator \/ creator' = [creator EXCEPT ![p] = "none"]
         \/ creator' = [creator EXCEPT ![p] = "unlinking"] /\ ~Waiting(p)
      /\ \/ coord' = coord
         \/ \E k \in Spawners, a \in Places : Turns(k, a)
         \/ \E k \in Spawners : Ends(k)
  <2>1. CASE \/ ChildRefused(p) \/ CancelUnlinkedChild(p) \/ (~Waiting(p) /\ LinkChild(p))
             \/ CancelParent(p) \/ CascadeToChild(p) \/ CascadePurge(p)
    BY <2>1 DEF ChildRefused, CancelUnlinkedChild, LinkChild, CancelParent, CascadeToChild,
                CascadePurge, apiVars
  <2>2. ASSUME NEW k \in Spawners,
               \/ Prepare(p, k) \/ AbandonImage(p, k) \/ GiveUp(p, k) \/ EndParent(p, k)
               \/ CleanUp(p, k) \/ FinishWatch(p, k)
               \/ ~Waiting(p) /\ (PromotePayload(p, k) \/ Promote(p, k))
        PROVE  /\ childOf' = childOf /\ recovering' = recovering /\ creator' = creator
               /\ Ends(k) \/ \E a \in Places : Turns(k, a)
    <3>1. childOf' = childOf /\ recovering' = recovering /\ creator' = creator
      BY <2>2 DEF Prepare, AbandonImage, GiveUp, EndParent, CleanUp, FinishWatch,
                  PromotePayload, Promote, apiVars
    <3>2. {"prepared", "abandoning", "ending", "cleaning"} \subseteq Places
      BY DEF Places
    <3>3. CASE Prepare(p, k) \/ GiveUp(p, k)
      <4>1. ~Dispatched(p)
        BY <3>3 DEF Prepare, GiveUp, Watches, Waiting, Dispatched, IsQueued, IsActive
      <4> QED BY <3>1, <3>2, <3>3, <4>1 DEF Prepare, GiveUp
    <3>4. CASE EndParent(p, k) \/ (~Waiting(p) /\ (PromotePayload(p, k) \/ Promote(p, k)))
      BY <3>1, <3>2, <3>4 DEF EndParent, PromotePayload, Promote
    <3>5. CASE FinishWatch(p, k)
      <4>1. ~Dispatched(p)
        BY <3>5 DEF FinishWatch, Dispatched, IsQueued, IsActive, IsTerminal
      <4> QED BY <3>1, <3>2, <3>5, <4>1 DEF FinishWatch
    <3>6. CASE AbandonImage(p, k) \/ CleanUp(p, k)
      BY <3>1, <3>6 DEF AbandonImage, CleanUp
    <3> QED BY <2>2, <3>3, <3>4, <3>5, <3>6
  <2> QED BY <2>1, <2>2 DEF QuietTask
<1>4. \A q \in JobIds \ {p} : /\ creator'[q] = creator[q] /\ coord'[q] = coord[q]
                              /\ childOf'[q] = childOf[q]
  <2>1. \A q \in JobIds \ {p} : coord'[q] = coord[q]
    BY <1>3 DEF FlowInv, FlowTypes, Goes
  <2> QED BY <1>3, <2>1
<1>5. creator'[p] = "unlinking" => creator[p] = "unlinking" \/ ~Waiting(p)
  BY <1>3 DEF FlowInv, FlowTypes
<1>6. ASSUME NEW k \in Spawners, Ends(k)
      PROVE  DutyOK(p)'
  <2>0. /\ coord'[p][k] = "none" /\ \A l \in Spawners \ {k} : coord'[p][l] = coord[p][l]
        /\ "none" \in Places
    <3>1. "none" \in Places
      BY DEF Places
    <3> QED BY <1>6, <3>1, CoordMoves DEF FlowInv
  <2>1. jobs' = jobs /\ ~Waiting(p) /\ (Dispatched(p) => coord[p][k] # "watch") /\ DutyOK(p)
    <3>1. jobs' = jobs /\ DutyOK(p)
      BY <1>6 DEF AbandonImage, CleanUp, FinishWatch, vars, DutyInv
    <3>2. CASE AbandonImage(p, k) \/ CleanUp(p, k)
      BY <3>1, <3>2 DEF AbandonImage, CleanUp, FlowOK, CoordOK
    <3>3. CASE FinishWatch(p, k)
      BY <3>1, <3>3 DEF FinishWatch, Waiting, Dispatched, IsQueued, IsActive, IsTerminal
    <3> QED BY <1>6, <3>2, <3>3
  <2>2. ~Waiting(p)'
    BY <2>1 DEF Waiting
  <2>3. ASSUME jobs[p].payload = "resolved"
        PROVE  childOf[p] \in JobIds /\ asset[childOf[p]] # "none"
    BY SMTT(30), <2>3, RoutingAssumption DEF FlowInv, FlowTypes, FlowOK, DutyInv, DutyOK
  <2>4. jobs[p].payload = "resolved" => asset'[childOf[p]] # "none"
    BY <2>3 DEF ImageSteps
  <2>5. ~ImageHeld(p)'
    <3>1. ASSUME jobs[p].payload = "resolved", PurgeImage(p)
          PROVE  asset'[childOf[p]] # "published"
      BY <2>3, <3>1 DEF PurgeImage, FlowInv, FlowTypes
    <3>2. jobs[p].payload = "resolved" /\ jobs[p].status # "completed" => PurgeImage(p)
      <4>1. CASE FinishWatch(p, k)
        <5>1. coord'[p][k] = IF jobs[p].status = "completed" THEN "none" ELSE "cleaning"
          BY <4>1, CoordMoves DEF FinishWatch, FlowInv, Places
        <5> QED BY <2>0, <5>1
      <4> QED BY <1>6, <4>1 DEF AbandonImage, CleanUp
    <3> QED BY <1>3, <2>1, <3>1, <3>2 DEF ImageHeld
  <2>6. Dispatched(p)' => Watched(p)'
    <3>1. Dispatched(p)' => Dispatched(p)
      BY <2>1 DEF Dispatched
    <3>2. Dispatched(p) => recovering \/ \E l \in Spawners \ {k} : coord[p][l] = "watch"
      BY <2>1 DEF DutyOK, Watched
    <3> QED BY <1>3, <2>0, <3>1, <3>2 DEF Watched
  <2> QED BY <1>3, <2>1, <2>2, <2>4, <2>5, <2>6 DEF DutyOK
<1>7. ASSUME NEW k \in Spawners, NEW a \in Places, Turns(k, a)
      PROVE  DutyOK(p)'
  <2>1. coord'[p][k] = a /\ a # "none" /\ \A l \in Spawners \ {k} : coord'[p][l] = coord[p][l]
    BY <1>7, CoordMoves DEF FlowInv
  <2>2. Tended(p)'
    BY <2>1 DEF Tended
  <2>3. Dispatched(p) /\ Watched(p) => Watched(p)'
    BY <1>3, <1>7, <2>1 DEF Watched
  <2> QED BY <1>1, <1>3, <1>5, <2>2, <2>3, DutyStays
<1>8. CASE coord' = coord
  <2>1. (Tended(p) => Tended(p)') /\ (Watched(p) => Watched(p)')
    BY <1>3, <1>8, Untouched
  <2> QED BY <1>1, <1>2, <1>3, <1>4, <1>5, <2>1, DutyStays, DutyTask
<1>9. DutyOK(p)'
  BY <1>1, <1>3, <1>5, <1>6, <1>7, <1>8, Untouched, DutyStays
<1> HIDE DEF Ends, Turns
<1> QED BY <1>1, <1>2, <1>3, <1>4, <1>9, DutyTask

\* Steps of no task; a restart, after which the recovery task is still to run; and
\* that task, which starts a coordinator for every parent that has not completed.
LEMMA DutyOutside ==
    ASSUME FlowInv, DutyInv, StoreStep, ImageSteps, Outside \/ RestartApi \/ Recover
    PROVE  \A q \in Parents' : DutyOK(q)'
<1>1. Rows' = Rows /\ \A j \in Rows : Moves(j)
  BY OutsideMoves
<1>2. Parents' = Parents /\ Parents \subseteq Rows
  BY <1>1 DEF Parents, Moves
<1>3. ASSUME Outside, NEW q \in Parents PROVE DutyOK(q)'
  <2>1. UNCHANGED <<creator, childOf, coord, recovering>>
    BY <1>3 DEF Outside, CancelChild, PublishTick, PublishAsset, Register, Claim, Terminated,
                Report, flowVars, wfVars, apiVars
  <2>2. (Tended(q) => Tended(q)') /\ (Watched(q) => Watched(q)')
    BY <2>1, Untouched, TaskFacts
  <2> QED BY <1>1, <1>2, <2>1, <2>2, DutyStays
<1>4. ASSUME RestartApi, NEW q \in Parents PROVE DutyOK(q)'
  <2>1. creator'[q] = "none" /\ childOf' = childOf /\ recovering'
    BY <1>4, TaskFacts DEF RestartApi
  <2>2. Tended(q)' /\ Watched(q)'
    BY <2>1 DEF Tended, Watched
  <2> QED BY <1>1, <1>2, <2>1, <2>2, DutyStays
<1>5. ASSUME Recover, NEW q \in Parents PROVE DutyOK(q)'
  <2>1. /\ creator' = creator /\ childOf' = childOf /\ asset' = asset /\ jobs' = jobs
        /\ q \in JobIds
    BY <1>5, TaskFacts DEF Recover, Resume, imageVars, vars
  <2>2. CASE coord'[q]["recovery"] = "watch"
    <3>1. Tended(q)' /\ Watched(q)'
      BY <2>2 DEF Tended, Watched, Spawners
    <3> QED BY <1>1, <1>2, <2>1, <3>1, DutyStays
  <2>3. CASE coord'[q] = coord[q] /\ jobs[q].status = "completed"
    <3>1. jobs'[q].status = "completed" /\ DutyOK(q) /\ jobs'[q].payload = jobs[q].payload
      BY <2>1, <2>3 DEF DutyInv
    <3>2. ~Waiting(q)' /\ ~Dispatched(q)' /\ ~ImageHeld(q)'
      BY <3>1 DEF Waiting, Dispatched, IsQueued, IsActive, ImageHeld
    <3> QED BY <2>1, <3>1, <3>2 DEF DutyOK
  <2> QED BY <1>5, <2>1, <2>2, <2>3, Resumes
<1> QED BY <1>2, <1>3, <1>4, <1>5

\* A new parent is in the hands of the handler that creates it.
LEMMA DutyCreates ==
    ASSUME FlowInv, DutyInv, StoreStep, ImageSteps,
           CreateParent \/ \E p \in Parents : CreateChild(p)
    PROVE  \A q \in Parents' : DutyOK(q)'
<1>0. IInv /\ Parents \subseteq Rows /\ \A j \in Rows : jobs[j].status # "pending_caption"
  BY DEF FlowInv, NoCaption, Parents
<1>1. CASE CreateParent
  <2>1. /\ CreateJob("vector", AutoGpu, "pending_workflow")
        /\ creator' = [creator EXCEPT ![nextRow] = "created"]
        /\ UNCHANGED <<childOf, coord, recovering>>
    BY <1>1 DEF CreateParent, apiVars
  <2>2. /\ nextRow \in JobIds \ Rows /\ Rows' = Rows \cup {nextRow}
        /\ \A p \in Rows : jobs'[p] = jobs[p]
        /\ jobs'[nextRow].shape = "vector" /\ jobs'[nextRow].status = "pending_workflow"
        /\ jobs'[nextRow].payload = "bare"
    BY <1>0, <2>1, Creates
  <2>3. Parents' = Parents \cup {nextRow}
    BY <2>2 DEF Parents
  <2>4. ASSUME NEW q \in Parents PROVE DutyOK(q)'
    <3>1. q # nextRow /\ q \in JobIds /\ Moves(q)
      BY <1>0, <2>2, SameRow, TaskFacts
    <3>2. creator'[q] = creator[q]
      BY <2>1, <3>1, TaskFacts
    <3>3. (Tended(q) => Tended(q)') /\ (Watched(q) => Watched(q)')
      BY <2>1, <3>1, Untouched
    <3> QED BY <2>1, <3>1, <3>2, <3>3, DutyStays
  <2>5. creator'[nextRow] = "created"
    BY <2>1, <2>2 DEF FlowInv, FlowTypes
  <2>6. ASSUME NEW n \in JobIds, n = nextRow PROVE DutyOK(n)'
    BY <2>2, <2>5, <2>6 DEF DutyOK, Dispatched, IsQueued, IsActive, ImageHeld
  <2> QED BY <2>2, <2>3, <2>4, <2>6
<1>2. ASSUME NEW p \in Parents, CreateChild(p)
      PROVE  \A q \in Parents' : DutyOK(q)'
  <2> USE TaskFacts
  <2>1. /\ creator[p] = "created" /\ CreateJob("image", AutoGpu, "queued")
        /\ creator' = [creator EXCEPT ![p] = "linking"]
        /\ childOf' = [childOf EXCEPT ![p] = nextRow]
        /\ UNCHANGED <<coord, recovering>>
    BY <1>2 DEF CreateChild, apiVars
  <2>2. /\ nextRow \in JobIds \ Rows /\ Rows' = Rows \cup {nextRow}
        /\ \A q \in Rows : jobs'[q] = jobs[q]
        /\ jobs'[nextRow].shape = "image"
    BY <1>0, <2>1, Creates
  <2>3. Parents' = Parents
    BY <2>2 DEF Parents
  <2>4. \A j \in Rows \ {p} : Moves(j)
    BY <1>0, <2>2, SameRow
  <2>5. /\ creator'[p] = "linking" /\ coord' = coord
        /\ \A q \in JobIds \ {p} : creator'[q] = creator[q] /\ childOf'[q] = childOf[q]
    BY <2>1 DEF FlowInv, FlowTypes
  <2>6. jobs'[p] = jobs[p] /\ jobs[p].payload = "bare"
    BY <2>1, <2>2 DEF FlowOK
  <2>7. DutyOK(p)'
    <3>1. (Dispatched(p)' => Dispatched(p)) /\ DutyOK(p)
      BY <2>6 DEF Dispatched, DutyInv
    <3>2. Watched(p) => Watched(p)'
      BY <2>1, Untouched
    <3> QED BY <2>5, <2>6, <3>1, <3>2 DEF DutyOK, ImageHeld
  <2> QED BY <2>1, <2>3, <2>4, <2>5, <2>7, DutyTask
<1> QED BY <1>1, <1>2

\* The inductive invariant holds, on top of FlowInv.
LEMMA DutyInit == WorkflowInit => DutyInv
BY DEF WorkflowInit, Init, DutyInv, Parents, Rows

LEMMA DutyNext == FlowInv /\ DutyInv /\ [WorkflowNext]_wfVars => DutyInv'
<1> SUFFICES ASSUME FlowInv, DutyInv, [WorkflowNext]_wfVars PROVE DutyInv'
  OBVIOUS
<1>1. StoreStep /\ ImageSteps
  BY FlowNextInv, ImagesStep
<1>2. ASSUME NEW p \in Parents, TaskStep(p) \/ CancelParent(p)
      PROVE  \A q \in Parents' : DutyOK(q)'
  BY <1>1, <1>2, DutyPromotes, DutyQuiet, DutyCreates DEF TaskStep, CoordStep, QuietTask
<1>3. \A q \in Parents' : DutyOK(q)'
  BY <1>1, <1>2, DutyCreates, DutyOutside DEF WorkflowNext, Outside
<1> QED BY <1>1, <1>3 DEF DutyInv

\* Whatever order cancels, failures, the transactions of a promotion, two coordinators
\* of one parent and API restarts come in, a handler, a coordinator or the recovery
\* task is there for every unfinished parent that a restart has not cut off from its
\* child, and for the image of every parent that ended without it.  An image written
\* again after its purge is excepted, as in WorkflowTended.
THEOREM WorkflowsAreTended == WorkflowSpec => []WorkflowTended
<1>1. ASSUME FlowInv, DutyInv, NEW p \in Parents
      PROVE  /\ ~IsTerminal(jobs[p]) =>
                    Unlinked(p) \/ creator[p] \in {"created", "linking"} \/ Tended(p)
             /\ ImageHeld(p) => Tended(p)
  <2>1. DutyOK(p) /\ jobs[p] \in Row /\ jobs[p].status # "pending_caption"
    BY <1>1, TaskFacts DEF DutyInv
  <2>2. Waiting(p) \/ Dispatched(p) \/ IsTerminal(jobs[p])
    BY <2>1 DEF Row, Waiting, Dispatched, IsQueued, IsActive, IsTerminal
  <2>3. creator[p] \in {"none", "created", "linking", "unlinking"}
    BY <1>1, TaskFacts DEF FlowInv, FlowTypes
  <2> QED BY <2>1, <2>2, <2>3 DEF DutyOK, Unlinked, Watched, Tended
<1>2. FlowInv /\ DutyInv => WorkflowTended
  BY <1>1 DEF WorkflowTended
<1> QED BY <1>2, FlowInvHolds, DutyInit, DutyNext, PTL DEF WorkflowSpec
=============================================================================
