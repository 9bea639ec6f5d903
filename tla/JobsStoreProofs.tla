--------------------------- MODULE JobsStoreProofs ---------------------------
(***************************************************************************)
(* Proofs about JobsStore, for every number of jobs, workers and GPUs and  *)
(* every routing configuration.                                            *)
(***************************************************************************)
EXTENDS JobsStore, TLAPS

\* An active GPU job occupies the GPU its owner registered with.
Placed ==
    \A j \in Rows : IsActive(jobs[j]) /\ ~NonGpu(jobs[j])
                        => jobs[j].gpu = GpuOf[jobs[j].worker]

\* The inductive invariant: types, ownership, device exclusion and the placement
\* of GPU and of MLX jobs support each other (a report can only activate a job that
\* is active already because a pending job has no owner).
IInv == TypeOK /\ Ownership /\ GpuExclusive /\ MlxRunsOnMlx /\ Placed

\* What one statement may do to a row: keep it well formed and owned, take no
\* device it did not hold, and respect the row's history.
RowStep(old, new) ==
    /\ new \in Row
    /\ Owned(new)
    /\ \A d \in Gpus : Holds(new, d) => Holds(old, d)
    /\ Kept(old, new)
    /\ new.shape = old.shape
    /\ IsActive(new) => IsActive(old) /\ new.worker = old.worker /\ new.gpu = old.gpu
    /\ IsPending(old) => new.status # "completed"

WorkersOK ==
    /\ DOMAIN workers \subseteq Workers
    /\ workers \in [DOMAIN workers -> WorkerRow]

\* The step condition of NoResurrection.
HistoryKept ==
    /\ \A j \in Rows \ Rows' : IsTerminal(jobs[j])
    /\ \A j \in Rows \cap Rows' : Kept(jobs[j], jobs'[j])

\* What every step of the store does: it preserves the invariant, respects the
\* rows' history and is a step of JobLifecycle.
StepOK ==
    /\ IInv'
    /\ HistoryKept
    /\ Life!Next

\* What a call does to the tables: a legal step of the store that deletes no row.
StoreStep == StepOK /\ Rows \subseteq Rows'

\* First-order leaves go to Zenon; the others name the SMT solver.
USE ZenonT(30)
USE DEF ActiveStatuses, TerminalStatuses, PendingStatuses, JobStatuses, WorkerStatuses

\* A rewrite that keeps a row's status, owner and device is legal if it withdraws
\* no cancel request and hands out no side effects.
LEMMA SameLife ==
    ASSUME NEW r \in Row, Owned(r), NEW n \in Row,
           n.status = r.status, n.shape = r.shape, n.worker = r.worker, n.gpu = r.gpu,
           IsPending(r) => n.cancel = r.cancel,
           r.cancel => n.cancel, n.effects => r.effects, n.cleared = r.cleared
    PROVE  RowStep(r, n)
<1> USE DEF IsActive, IsTerminal, IsPending
<1>1. Owned(n)
  BY Zenon DEF Owned
<1>2. \A d \in Gpus : Holds(n, d) => Holds(r, d)
  BY DEF Holds, NonGpu
<1>3. Kept(r, n)
  BY Zenon DEF Kept
<1>4. /\ IsActive(n) => IsActive(r)
      /\ IsPending(r) => n.status # "completed"
  OBVIOUS
<1> QED BY <1>1, <1>2, <1>3, <1>4 DEF RowStep

\* Seen from JobLifecycle, a legal rewrite leaves the job alone or ends it.
LEMMA RowEnds ==
    ASSUME NEW r \in Row, NEW n, RowStep(r, n)
    PROVE  Life!Ends(RowLife(r), RowLife(n))
<1> USE DEF RowStep, Kept, IsPending, IsTerminal, IsActive, Row
<1>1. CASE IsPending(r)
  <2>1. CASE IsPending(n)
    BY <1>1, <2>1 DEF RowLife, Life!Ends
  <2>2. CASE IsTerminal(n)
    BY <1>1, <2>2 DEF RowLife, Life!Ends, Life!Settled, LifeRow
  <2> QED BY <1>1, <2>1, <2>2
<1>2. CASE IsTerminal(r)
  BY <1>2 DEF RowLife, Life!Ends
<1>3. CASE IsActive(r)
  <2>1. CASE IsActive(n)
    BY <1>3, <2>1 DEF RowLife, Life!Ends, NonGpu
  <2>2. CASE IsTerminal(n)
    BY <1>3, <2>2 DEF RowLife, Life!Ends, Life!Settled, LifeRow
  <2> QED BY <1>3, <2>1, <2>2
<1> QED BY <1>1, <1>2, <1>3

\* The row rewrites of the sweeps, the idle heartbeat, the cancel and the clear
\* endpoints are legal on the rows those operations select.
LEMMA RowRewrites ==
    ASSUME NEW r \in Row, Owned(r)
    PROVE  /\ RowStep(r, r)
           /\ IsActive(r) => RowStep(r, Interrupted(r)) /\ RowStep(r, Failed(r))
           /\ IsQueued(r) => RowStep(r, Failed(r))
           /\ IsPending(r) => RowStep(r, CanceledPending(r)) /\ RowStep(r, Enqueued(r))
           /\ IsTerminal(r) => RowStep(r, Cleared(r))
           /\ ~IsTerminal(r) /\ ~IsPending(r) => RowStep(r, [r EXCEPT !.cancel = TRUE])
           /\ RowStep(r, [r EXCEPT !.effects = FALSE])
           /\ RowStep(r, [r EXCEPT !.beat = TRUE])
<1> USE DEF Row, Owned, IsActive, IsTerminal, IsPending, IsQueued, Holds, Kept
<1>1. RowStep(r, r)
  BY DEF RowStep
<1>2. IsActive(r) => RowStep(r, Interrupted(r))
  BY DEF RowStep, Interrupted
<1>3. IsActive(r) \/ IsQueued(r) => RowStep(r, Failed(r))
  BY DEF RowStep, Failed
<1>4. IsPending(r) => RowStep(r, CanceledPending(r))
  BY DEF RowStep, CanceledPending
<1>5. IsPending(r) => RowStep(r, Enqueued(r))
  BY DEF RowStep, Enqueued
<1>6. IsTerminal(r) => RowStep(r, Cleared(r))
  BY DEF RowStep, Cleared
<1>7. ~IsTerminal(r) /\ ~IsPending(r) => RowStep(r, [r EXCEPT !.cancel = TRUE])
  <2> DEFINE n == [r EXCEPT !.cancel = TRUE]
  <2>1. /\ n \in Row
        /\ n.status = r.status /\ n.shape = r.shape /\ n.worker = r.worker /\ n.gpu = r.gpu
    OBVIOUS
  <2>2. n.cancel = TRUE /\ n.effects = r.effects /\ n.cleared = r.cleared
    OBVIOUS
  <2> HIDE DEF n, Row, Owned, IsActive, IsTerminal, IsPending, Holds, Kept
  <2>3. ASSUME ~IsTerminal(r), ~IsPending(r)
        PROVE  RowStep(r, n)
    <3>1. /\ IsPending(r) => n.cancel = r.cancel
          /\ r.cancel => n.cancel
          /\ n.effects => r.effects
      BY <2>2, <2>3, Zenon
    <3> QED BY <2>1, <2>2, <3>1, SameLife
  <2> QED BY <2>3 DEF n
<1>8. RowStep(r, [r EXCEPT !.effects = FALSE])
  <2> DEFINE n == [r EXCEPT !.effects = FALSE]
  <2>1. /\ n \in Row
        /\ n.status = r.status /\ n.shape = r.shape /\ n.worker = r.worker /\ n.gpu = r.gpu
    OBVIOUS
  <2>2. n.cancel = r.cancel /\ n.effects = FALSE /\ n.cleared = r.cleared
    OBVIOUS
  <2> HIDE DEF n, Row, Owned, IsActive, IsTerminal, IsPending, Holds, Kept
  <2>3. RowStep(r, n)
    <3>1. /\ IsPending(r) => n.cancel = r.cancel
          /\ r.cancel => n.cancel
          /\ n.effects => r.effects
      BY <2>2, Zenon
    <3> QED BY <2>1, <2>2, <3>1, SameLife
  <2> QED BY <2>3 DEF n
<1>9. RowStep(r, [r EXCEPT !.beat = TRUE])
  <2> DEFINE n == [r EXCEPT !.beat = TRUE]
  <2>1. /\ n \in Row
        /\ n.status = r.status /\ n.shape = r.shape /\ n.worker = r.worker /\ n.gpu = r.gpu
    OBVIOUS
  <2>2. n.cancel = r.cancel /\ n.effects = r.effects /\ n.cleared = r.cleared
    OBVIOUS
  <2> HIDE DEF n, Row, Owned, IsActive, IsTerminal, IsPending, Holds, Kept
  <2>3. RowStep(r, n)
    <3>1. /\ IsPending(r) => n.cancel = r.cancel
          /\ r.cancel => n.cancel
          /\ n.effects => r.effects
      BY <2>2, Zenon
    <3> QED BY <2>1, <2>2, <3>1, SameLife
  <2> QED BY <2>3 DEF n
<1> QED BY <1>1, <1>2, <1>3, <1>4, <1>5, <1>6, <1>7, <1>8, <1>9

\* Legal rewrites compose.
LEMMA RowStepTrans ==
    ASSUME NEW a, NEW b, NEW c, RowStep(a, b), RowStep(b, c)
    PROVE  RowStep(a, c)
<1>1. Kept(a, c)
  BY DEF RowStep, Kept, IsTerminal, IsPending
<1>2. /\ IsActive(c) => IsActive(a) /\ c.worker = a.worker /\ c.gpu = a.gpu
      /\ IsPending(a) => c.status # "completed"
  BY DEF RowStep, Kept, IsTerminal, IsPending, IsActive, Row
<1> QED BY <1>1, <1>2 DEF RowStep

\* A new payload leaves everything else of a pending row alone.
LEMMA RewrittenStep ==
    ASSUME NEW r \in Row, Owned(r), IsPending(r), NEW p \in Payloads
    PROVE  RowStep(r, Rewritten(r, p)) /\ IsPending(Rewritten(r, p))
<1> DEFINE n == Rewritten(r, p)
<1>1. /\ n \in Row
      /\ n.status = r.status /\ n.shape = r.shape /\ n.worker = r.worker /\ n.gpu = r.gpu
      /\ n.cancel = r.cancel /\ n.effects = r.effects /\ n.cleared = r.cleared
  <2>1. n \in Row
    <3> DEFINE b == p # r.payload
    <3>1. b \in BOOLEAN /\ n = [r EXCEPT !.payload = p, !.facts = b]
      BY DEF Rewritten
    <3> HIDE DEF b, n
    <3>2. [r EXCEPT !.payload = p] \in Row
      BY DEF Row
    <3>3. \A s \in Row : [s EXCEPT !.facts = b] \in Row
      BY SMTT(30), <3>1 DEF Row
    <3>4. n = [[r EXCEPT !.payload = p] EXCEPT !.facts = b]
      BY <3>1 DEF Row
    <3> QED BY <3>2, <3>3, <3>4
  <2>2. n.status = r.status /\ n.shape = r.shape /\ n.worker = r.worker /\ n.gpu = r.gpu
    BY DEF Rewritten, Row
  <2>3. n.cancel = r.cancel /\ n.effects = r.effects /\ n.cleared = r.cleared
    BY DEF Rewritten, Row
  <2> HIDE DEF n
  <2> QED BY <2>1, <2>2, <2>3
<1> HIDE DEF n
<1>2. Owned(n) /\ Kept(r, n) /\ IsPending(n) /\ ~IsActive(n) /\ n.status # "completed"
  BY <1>1 DEF Owned, Kept, IsPending, IsTerminal, IsActive
<1>3. \A d \in Gpus : ~Holds(n, d)
  BY <1>2 DEF Holds
<1>4. RowStep(r, n)
  BY <1>1, <1>2, <1>3 DEF RowStep
<1> QED BY <1>2, <1>4 DEF n

\* A job can always be attempted once.
LEMMA FirstAttempt == 1 \in 1 .. MaxAttempts
  BY SMTT(30), StoreAssumption

\* The rewrites of a worker row keep it well formed.
LEMMA WorkerRewrites ==
    ASSUME NEW wr \in WorkerRow
    PROVE  /\ Offline(wr) \in WorkerRow
           /\ OfflineNow(wr) \in WorkerRow
           /\ [wr EXCEPT !.seen = FALSE] \in WorkerRow
           /\ [wr EXCEPT !.status = "idle", !.current = NoJob, !.seen = TRUE] \in WorkerRow
           /\ \A j \in JobIds :
                [wr EXCEPT !.status = "busy", !.current = j, !.seen = TRUE] \in WorkerRow
  BY DEF WorkerRow, Offline, OfflineNow

\* Under the invariant every row present is well formed and owned.
LEMMA RowFacts ==
    ASSUME IInv, NEW j \in Rows
    PROVE  jobs[j] \in Row /\ Owned(jobs[j]) /\ RowStep(jobs[j], jobs[j])
<1>1. jobs[j] \in Row /\ Owned(jobs[j])
  BY DEF IInv, TypeOK, Ownership, Rows
<1> QED BY <1>1, RowRewrites

\* A step that only rewrites or deletes rows, each rewrite legal and each deleted
\* row terminal, preserves the invariant and the history.
LEMMA RowsRewritten ==
    ASSUME IInv,
           NEW D \in SUBSET Rows, jobs' = [j \in D |-> jobs'[j]],
           \A j \in D : RowStep(jobs[j], jobs'[j]),
           \A j \in Rows \ D : IsTerminal(jobs[j]),
           WorkersOK', UNCHANGED nextRow
    PROVE  StepOK
<1>1. Rows' = D
  BY DEF Rows
<1>2. TypeOK'
  BY <1>1 DEF IInv, TypeOK, RowStep, Rows, WorkersOK
<1>3. Ownership'
  BY <1>1 DEF Ownership, RowStep
<1>4. GpuExclusive'
  <2> SUFFICES ASSUME NEW i \in D, NEW j \in D, NEW d \in Gpus,
                      Holds(jobs'[i], d), Holds(jobs'[j], d)
               PROVE  i = j
    BY <1>1 DEF GpuExclusive
  <2>1. Holds(jobs[i], d) /\ Holds(jobs[j], d)
    BY DEF RowStep
  <2> QED BY <2>1 DEF IInv, GpuExclusive
<1>5. HistoryKept
  BY <1>1 DEF HistoryKept, RowStep
<1>6. Life!Settle
  <2>1. ASSUME NEW j \in JobIds
        PROVE  Life!Ends(LifeOf(j), LifeOf(j)')
    <3>1. CASE j \in D
      <4>1. jobs[j] \in Row /\ RowStep(jobs[j], jobs'[j])
        BY <3>1, RowFacts
      <4>2. LifeOf(j) = RowLife(jobs[j]) /\ LifeOf(j)' = RowLife(jobs'[j])
        BY <1>1, <3>1 DEF LifeOf
      <4> QED BY <4>1, <4>2, RowEnds
    <3>2. CASE j \in Rows \ D
      <4>1. j < nextRow /\ jobs[j] \in Row
        BY SMTT(30), <3>2 DEF IInv, TypeOK, Rows
      <4>2. /\ LifeOf(j) = LifeRow("settled", NoWorker, NoGpu, jobs[j].status)
            /\ LifeOf(j)' = LifeRow("purged", NoWorker, NoGpu, NoJob)
        BY <1>1, <3>2, <4>1 DEF LifeOf, RowLife, IsTerminal, IsPending
      <4> QED BY SMTT(30), <4>2 DEF Life!Ends, Life!Idle, LifeRow
    <3>3. CASE j \notin Rows
      BY <1>1, <3>3 DEF LifeOf, Life!Ends
    <3> QED BY <3>1, <3>2, <3>3
  <2> QED BY <2>1 DEF Life!Settle
<1>7. MlxRunsOnMlx'
  BY <1>1 DEF IInv, MlxRunsOnMlx, RowStep
<1>8. Placed'
  BY <1>1 DEF IInv, Placed, RowStep, NonGpu
<1> QED BY <1>2, <1>3, <1>4, <1>5, <1>6, <1>7, <1>8 DEF IInv, StepOK, Life!Next

\* The same for a step that leaves the jobs table alone.
LEMMA RowsUnchanged ==
    ASSUME IInv, UNCHANGED <<jobs, nextRow>>, WorkersOK'
    PROVE  StepOK
<1>1. jobs' = [j \in Rows |-> jobs'[j]]
  BY DEF IInv, TypeOK, Rows
<1>2. \A j \in Rows : RowStep(jobs[j], jobs'[j])
  BY RowFacts
<1> QED BY <1>1, <1>2, RowsRewritten

\* Creating a job: the new row is pending and unowned, so it holds no device, and
\* every older row is untouched.
LEMMA InsertStep ==
    ASSUME IInv, NEW shape \in Shapes, NEW requested \in Gpus \cup {AutoGpu},
           NEW status \in PendingStatuses, NEW attempts \in 1 .. MaxAttempts,
           NEW payload \in Payloads,
           Insert(shape, requested, status, attempts, payload)
    PROVE  StepOK
<1> USE StoreAssumption, RoutingAssumption
<1> DEFINE rank == IF shape \in JumpShapes THEN CurrentMaxRank + 1 ELSE 0
           row == [status |-> status, shape |-> shape, requested |-> requested,
                   rank |-> rank, worker |-> NoWorker, gpu |-> NoGpu,
                   beat |-> FALSE, cancel |-> FALSE, attempts |-> attempts,
                   effects |-> FALSE, cleared |-> FALSE, payload |-> payload,
                   facts |-> TRUE]
<1>0. rank \in Nat
  BY SMTT(30) DEF Insert
<1> HIDE DEF rank
<1>1. /\ row \in Row
      /\ jobs' = [j \in Rows \cup {nextRow} |-> IF j = nextRow THEN row ELSE jobs[j]]
      /\ row.status = status /\ row.worker = NoWorker /\ ~row.cancel
      /\ ~row.effects /\ ~row.cleared
  <2>1. row \in Row
    BY <1>0 DEF Row
  <2> QED BY <2>1 DEF Insert, rank
<1> HIDE DEF row
<1>2. nextRow \notin Rows /\ nextRow \in Nat
  BY SMTT(30) DEF IInv, TypeOK, Rows
<1>3. Owned(row) /\ \A d \in Gpus : ~Holds(row, d)
  BY <1>1 DEF Owned, IsPending, IsActive, IsTerminal, Holds
<1>4. Rows' = Rows \cup {nextRow} /\ \A j \in Rows : jobs'[j] = jobs[j] /\ RowStep(jobs[j], jobs[j])
  BY <1>1, <1>2, RowFacts DEF Rows
<1>5. TypeOK'
  <2>1. nextRow <= MaxJobs /\ nextRow' = nextRow + 1 /\ UNCHANGED workers
    BY DEF Insert
  <2>2. jobs' \in [DOMAIN jobs' -> Row]
    BY <1>1, <1>4, RowFacts DEF Rows
  <2>3. DOMAIN jobs' \subseteq 1 .. (nextRow' - 1)
    BY SMTT(30), <1>4, <1>2, <2>1 DEF IInv, TypeOK, Rows
  <2> QED BY SMTT(30), <2>1, <2>2, <2>3 DEF IInv, TypeOK
<1>6. Ownership'
  BY <1>1, <1>3, <1>4 DEF IInv, Ownership
<1>7. GpuExclusive'
  BY <1>1, <1>3, <1>4 DEF IInv, GpuExclusive
<1>8. HistoryKept
  BY <1>4 DEF HistoryKept, RowStep
<1>9. nextRow \in JobIds /\ nextRow' = nextRow + 1
  BY SMTT(30), <1>2 DEF Insert, JobIds, IInv, TypeOK
<1>10. PICK k \in JobIds : k = nextRow
  BY <1>9
<1>11. Life!Submit(k)
  <2>1. LifeOf(k) = LifeRow("absent", NoWorker, NoGpu, NoJob)
    <3>1. k \notin Rows /\ ~(k < nextRow)
      BY SMTT(30), <1>2, <1>10
    <3> QED BY <3>1 DEF LifeOf
  <2>2. LifeOf(k)' = LifeRow("waiting", NoWorker, NoGpu, NoJob)
    <3>1. k \in Rows' /\ jobs'[k] = row
      BY <1>1, <1>4, <1>10
    <3> QED BY <1>1, <3>1 DEF LifeOf, RowLife, IsPending
  <2>3. ASSUME NEW j \in JobIds, j # k
        PROVE  LifeOf(j)' = LifeOf(j)
    <3>1. CASE j \in Rows
      BY <1>4, <3>1 DEF LifeOf
    <3>2. CASE j \notin Rows
      BY SMTT(30), <1>2, <1>4, <1>9, <1>10, <2>3, <3>2 DEF LifeOf, JobIds
    <3> QED BY <3>1, <3>2
  <2> QED BY <2>1, <2>2, <2>3 DEF Life!Submit, Life!Idle, LifeRow
<1>12. MlxRunsOnMlx' /\ Placed'
  <2>1. ~IsActive(row)
    BY <1>1 DEF IsActive
  <2>2. MlxRunsOnMlx'
    BY <1>1, <1>4, <2>1 DEF IInv, MlxRunsOnMlx
  <2>3. Placed'
    BY <1>1, <1>4, <2>1 DEF IInv, Placed
  <2> QED BY <2>2, <2>3
<1> QED BY <1>5, <1>6, <1>7, <1>8, <1>11, <1>12 DEF IInv, StepOK, Life!Next

\* The actions of one job row: retries, promotion, payload rewrites, termination,
\* cancellation, the end of the side effects, clearing.
LEMMA JobStep ==
    ASSUME IInv, NEW j \in Rows, AnyJob(j)
    PROVE  StepOK
<1> USE StoreAssumption
<1>0. jobs[j] \in Row /\ Owned(jobs[j])
  BY RowFacts
<1>1. CASE RetryJob(j)
  <2>1. jobs[j].attempts + 1 \in 1 .. MaxAttempts
    BY SMTT(30), <1>0, <1>1 DEF RetryJob, Row
  <2>2. /\ jobs[j].shape \in Shapes /\ jobs[j].requested \in Gpus \cup {AutoGpu}
        /\ jobs[j].payload \in Payloads /\ "queued" \in PendingStatuses
    BY <1>0 DEF Row
  <2>3. Insert(jobs[j].shape, jobs[j].requested, "queued", jobs[j].attempts + 1, jobs[j].payload)
    BY <1>1 DEF RetryJob
  <2> QED BY <2>1, <2>2, <2>3, InsertStep
<1>2. CASE \E requested \in Requests : DuplicateJob(j, requested)
  <2>1. PICK requested \in Requests : DuplicateJob(j, requested)
    BY <1>2
  <2>2. /\ jobs[j].shape \in Shapes /\ requested \in Gpus \cup {AutoGpu}
        /\ jobs[j].payload \in Payloads /\ "queued" \in PendingStatuses /\ 1 \in 1 .. MaxAttempts
    BY SMTT(30), <1>0 DEF Row
  <2>3. Insert(jobs[j].shape, requested, "queued", 1, jobs[j].payload)
    BY <2>1 DEF DuplicateJob
  <2> QED BY <2>2, <2>3, InsertStep
<1>3. ASSUME NEW new, RowStep(jobs[j], new), UNCHANGED <<workers, nextRow>>,
             jobs' = [i \in Rows |-> IF i \in {j} THEN new ELSE jobs[i]]
      PROVE  StepOK
  <2>1. \A i \in Rows : RowStep(jobs[i], jobs'[i])
    BY <1>3, RowFacts
  <2>2. WorkersOK'
    BY <1>3 DEF IInv, TypeOK, WorkersOK
  <2> QED BY <1>3, <2>1, <2>2, RowsRewritten
<1>4. CASE CancelJob(j)
  BY <1>0, <1>3, <1>4, RowRewrites DEF CancelJob, UpdateRows
<1>5. CASE \E p \in Payloads : PromoteCaption(j, p)
  <2>1. PICK p \in Payloads : PromoteCaption(j, p)
    BY <1>5
  <2>2. RowStep(jobs[j], Enqueued(Rewritten(jobs[j], p)))
    <3>1. RowStep(jobs[j], Rewritten(jobs[j], p)) /\ IsPending(Rewritten(jobs[j], p))
      BY <1>0, <2>1, RewrittenStep DEF PromoteCaption, IsPending
    <3>2. RowStep(Rewritten(jobs[j], p), Enqueued(Rewritten(jobs[j], p)))
      BY <3>1, RowRewrites DEF RowStep
    <3> QED BY <3>1, <3>2, RowStepTrans
  <2> QED BY <1>3, <2>1, <2>2 DEF PromoteCaption, UpdateRows
<1>6. CASE \E p \in Payloads : UpdateWorkflowPayload(j, p)
  <2>1. PICK p \in Payloads : UpdateWorkflowPayload(j, p)
    BY <1>6
  <2>2. RowStep(jobs[j], Rewritten(jobs[j], p))
    BY <1>0, <2>1, RewrittenStep DEF UpdateWorkflowPayload, IsPending
  <2> QED BY <1>3, <2>1, <2>2 DEF UpdateWorkflowPayload, UpdateRows
<1>7. CASE DegradeCaption(j) \/ EnqueueWorkflow(j)
  <2>1. IsPending(jobs[j])
    BY <1>7 DEF DegradeCaption, EnqueueWorkflow, IsPending
  <2>2. RowStep(jobs[j], Enqueued(jobs[j]))
    BY <1>0, <2>1, RowRewrites
  <2>3. /\ jobs' = [i \in Rows |-> IF i \in {j} THEN Enqueued(jobs[i]) ELSE jobs[i]]
        /\ UNCHANGED <<workers, nextRow>>
    BY <1>7 DEF DegradeCaption, EnqueueWorkflow, UpdateRows
  <2>4. jobs' = [i \in Rows |-> IF i \in {j} THEN Enqueued(jobs[j]) ELSE jobs[i]]
    BY <2>3
  <2> QED BY <1>3, <2>2, <2>3, <2>4
<1>8. CASE \E status \in TerminalStatuses \ {"completed"} : TerminateWorkflow(j, status)
  <2>1. PICK status \in TerminalStatuses \ {"completed"} : TerminateWorkflow(j, status)
    BY <1>8
  <2>2. RowStep(jobs[j], [jobs[j] EXCEPT !.status = status])
    BY <1>0, <2>1 DEF TerminateWorkflow, RowStep, Row, Owned, IsActive, IsTerminal,
                      IsPending, Holds, Kept
  <2> QED BY <1>3, <2>1, <2>2 DEF TerminateWorkflow, UpdateRows
<1>9. CASE FinishSideEffects(j)
  BY <1>0, <1>3, <1>9, RowRewrites DEF FinishSideEffects, UpdateRows
<1>10. CASE ClearJob(j)
  BY <1>0, <1>3, <1>10, RowRewrites DEF ClearJob, UpdateRows
<1> QED BY <1>1, <1>2, <1>4, <1>5, <1>6, <1>7, <1>8, <1>9, <1>10 DEF AnyJob

\* A set-wide UPDATE that leaves the workers table alone: legal if it is legal on
\* every row it selects.
LEMMA BulkStep ==
    ASSUME IInv, NEW S \in SUBSET Rows, UNCHANGED <<workers, nextRow>>,
           jobs' = [j \in Rows |-> jobs'[j]],
           \A j \in S : RowStep(jobs[j], jobs'[j]),
           \A j \in Rows \ S : jobs'[j] = jobs[j]
    PROVE  StepOK
<1>1. \A j \in Rows : RowStep(jobs[j], jobs'[j])
  BY RowFacts
<1>2. WorkersOK'
  BY DEF IInv, TypeOK, WorkersOK
<1> QED BY <1>1, <1>2, RowsRewritten

\* The two bulk operations of the queue screen.
LEMMA ProjectStep ==
    ASSUME IInv, NEW P, CancelPendingJobs(P) \/ ClearTerminalJobs(P)
    PROVE  StepOK
<1>1. CASE CancelPendingJobs(P)
  <2> DEFINE S == {j \in Rows : IsPending(jobs[j]) /\ ProjectOf[jobs[j].shape] \in P}
  <2>1. \A j \in S : RowStep(jobs[j], CanceledPending(jobs[j]))
    BY RowFacts, RowRewrites
  <2> QED BY <1>1, <2>1, BulkStep DEF CancelPendingJobs, UpdateRows
<1>2. CASE ClearTerminalJobs(P)
  <2> DEFINE S == {j \in Rows : /\ IsTerminal(jobs[j]) /\ ~jobs[j].cleared
                                /\ ProjectOf[jobs[j].shape] \in P}
  <2>1. \A j \in S : RowStep(jobs[j], Cleared(jobs[j]))
    BY RowFacts, RowRewrites
  <2> QED BY <1>2, <2>1, BulkStep DEF ClearTerminalJobs, UpdateRows
<1> QED BY <1>1, <1>2

\* Moving pending jobs to the front changes nothing but their rank.
LEMMA PrioritizeStep ==
    ASSUME IInv, NEW S \in SUBSET Rows, PrioritizeJobs(S)
    PROVE  StepOK
<1> USE StoreAssumption
<1> DEFINE sel == {j \in S \cap Rows : IsPending(jobs[j])}
           notBefore(j) == {i \in sel : i = j \/ PriorityBefore(j, i)}
           rank == [j \in sel |-> CurrentMaxRank + Cardinality(notBefore(j))]
<1>1. /\ sel \in SUBSET Rows /\ rank \in [sel -> 0 .. MaxRank]
      /\ jobs' = [j \in Rows |-> IF j \in sel THEN [jobs[j] EXCEPT !.rank = rank[j]]
                                 ELSE jobs[j]]
  BY DEF PrioritizeJobs
<1> HIDE DEF rank, sel
<1>2. ASSUME NEW j \in sel
      PROVE  RowStep(jobs[j], [jobs[j] EXCEPT !.rank = rank[j]])
  <2>1. jobs[j] \in Row /\ Owned(jobs[j]) /\ rank[j] \in Nat
    BY SMTT(30), RowFacts, <1>1
  <2> DEFINE n == [jobs[j] EXCEPT !.rank = rank[j]]
  <2>2. /\ n \in Row
        /\ n.status = jobs[j].status /\ n.shape = jobs[j].shape
        /\ n.worker = jobs[j].worker /\ n.gpu = jobs[j].gpu
        /\ n.cancel = jobs[j].cancel /\ n.effects = jobs[j].effects
        /\ n.cleared = jobs[j].cleared
    BY <2>1 DEF Row
  <2> HIDE DEF n
  <2>3. (jobs[j].cancel => n.cancel) /\ (n.effects => jobs[j].effects)
    BY <2>2, Zenon
  <2>4. RowStep(jobs[j], n)
    BY <2>1, <2>2, <2>3, SameLife
  <2> QED BY <2>4 DEF n
<1>3. UNCHANGED <<workers, nextRow>>
  BY DEF PrioritizeJobs
<1> QED BY <1>1, <1>2, <1>3, BulkStep

\* The five sweeps that fail queued jobs, and the stale-worker sweep.
LEMMA SweepStep ==
    ASSUME IInv, Sweeps
    PROVE  StepOK
<1>1. ASSUME NEW S \in SUBSET QueuedRows, FailQueued(S)
      PROVE  StepOK
  <2>1. S \in SUBSET Rows /\ \A j \in S : RowStep(jobs[j], Failed(jobs[j]))
    BY <1>1, RowFacts, RowRewrites DEF QueuedRows
  <2> QED BY <1>1, <2>1, BulkStep DEF FailQueued, UpdateRows
<1>2. CASE SweepStaleWorkers
  <2> DEFINE S == {j \in Rows : IsActive(jobs[j]) /\ jobs[j].worker \in StaleWorkers}
  <2>1. \A j \in S : RowStep(jobs[j], Interrupted(jobs[j]))
    BY RowFacts, RowRewrites
  <2>2. jobs' = [j \in Rows |-> jobs'[j]] /\ \A j \in Rows : RowStep(jobs[j], jobs'[j])
    BY <1>2, <2>1, RowFacts DEF SweepStaleWorkers, UpdateRows
  <2>3. WorkersOK'
    BY <1>2, WorkerRewrites DEF SweepStaleWorkers, UpdateWorkers, IInv, TypeOK, WorkersOK,
                                Registered
  <2>4. UNCHANGED nextRow
    BY <1>2 DEF SweepStaleWorkers
  <2> QED BY <2>2, <2>3, <2>4, RowsRewritten
<1>3. CASE \E cutoff \in 0 .. MaxClock :
             FailStrandedMlxJobs(cutoff) \/ FailStrandedCandleJobs(cutoff)
  BY <1>1, <1>3 DEF FailStrandedMlxJobs, FailStrandedCandleJobs, StrandedMlx,
                    StrandedCandle, OlderThan
<1>4. CASE FailUnsupportedMlxJobs \/ FailUnsupportedCandleJobs \/ FailPlatformUnreachableJobs
  BY <1>1, <1>4 DEF FailUnsupportedMlxJobs, FailUnsupportedCandleJobs,
                    FailPlatformUnreachableJobs, UnsupportedMlx, UnsupportedCandle,
                    PlatformUnreachable
<1> QED BY <1>2, <1>3, <1>4 DEF Sweeps

\* Registrations, silence and the supervisor's death report.
LEMMA WorkerRowStep ==
    ASSUME IInv, NEW w \in Workers,
           RegisterWorker(w) \/ SilencePasses(w) \/ FailWorkerJobTerminated(w)
    PROVE  StepOK
<1> USE StoreAssumption, RoutingAssumption
<1>0. WorkersOK
  BY DEF IInv, TypeOK, WorkersOK
<1>1. CASE RegisterWorker(w)
  <2>1. WorkersOK'
    <3> DEFINE keep == w \in Registered /\ workers[w].current # NoJob
               st == IF keep THEN workers[w].status ELSE "idle"
               cur == IF keep THEN workers[w].current ELSE NoJob
    <3>1. PICK loaded \in LoadedSets, util \in UtilsOf[w] :
            workers' = [v \in Registered \cup {w} |->
                 IF v = w THEN [status |-> st, current |-> cur, seen |-> TRUE,
                                loaded |-> loaded, util |-> util]
                          ELSE workers[v]]
      BY <1>1 DEF RegisterWorker
    <3>0. st \in WorkerStatuses /\ cur \in JobIds \cup {NoJob}
      BY <1>0 DEF WorkersOK, Registered, WorkerRow, WorkerStatuses
    <3> HIDE DEF keep, st, cur
    <3> DEFINE row == [status |-> st, current |-> cur, seen |-> TRUE,
                       loaded |-> loaded, util |-> util]
    <3>2. util \in Utils \cup {NoUtil}
      BY <3>1
    <3>3. row \in WorkerRow
      BY <3>0, <3>2 DEF WorkerRow
    <3> HIDE DEF row
    <3>4. DOMAIN workers' = Registered \cup {w}
          /\ \A v \in DOMAIN workers' : workers'[v] = IF v = w THEN row ELSE workers[v]
      BY <3>1 DEF row
    <3>5. \A v \in DOMAIN workers' : workers'[v] \in WorkerRow
      BY <1>0, <3>3, <3>4 DEF WorkersOK, Registered
    <3>6. workers' = [v \in DOMAIN workers' |-> workers'[v]]
      BY <3>1
    <3> QED BY <1>0, <3>4, <3>5, <3>6 DEF WorkersOK, Registered
  <2> QED BY <1>1, <2>1, RowsUnchanged DEF RegisterWorker
<1>2. CASE SilencePasses(w)
  <2>1. WorkersOK'
    BY <1>0, <1>2, WorkerRewrites DEF SilencePasses, WorkersOK, Registered
  <2> QED BY <1>2, <2>1, RowsUnchanged DEF SilencePasses
<1>3. CASE FailWorkerJobTerminated(w)
  <2>1. WorkersOK'
    BY <1>0, <1>3, WorkerRewrites DEF FailWorkerJobTerminated, UpdateWorkers, WorkersOK,
                                      Registered
  <2>2. jobs' = [j \in Rows |-> jobs'[j]] /\ \A j \in Rows : RowStep(jobs[j], jobs'[j])
    <3>1. CASE UNCHANGED jobs
      BY <3>1, RowFacts DEF IInv, TypeOK, Rows
    <3>2. CASE \E j \in Rows : IsActive(jobs[j]) /\ jobs' = UpdateRows({j}, Failed)
      <4>1. PICK j \in Rows : IsActive(jobs[j]) /\ jobs' = UpdateRows({j}, Failed)
        BY <3>2
      <4>2. RowStep(jobs[j], Failed(jobs[j]))
        BY <4>1, RowFacts, RowRewrites
      <4> QED BY <4>1, <4>2, RowFacts DEF UpdateRows
    <3> QED BY <1>3, <3>1, <3>2 DEF FailWorkerJobTerminated
  <2>3. UNCHANGED nextRow
    BY <1>3 DEF FailWorkerJobTerminated
  <2> QED BY <2>1, <2>2, <2>3, RowsRewritten
<1> QED BY <1>1, <1>2, <1>3

\* A heartbeat of whatever status, naming any job or none: an idle one may interrupt
\* the job the worker row named, a busy one refreshes a job its sender owns.
LEMMA HeartbeatStep ==
    ASSUME IInv, NEW w \in Workers, NEW status \in WorkerStatuses,
           NEW current \in JobIds \cup {NoJob}, HeartbeatWorker(w, status, current)
    PROVE  StepOK
<1> USE StoreAssumption, RoutingAssumption
<1>0. WorkersOK /\ w \in Registered
  BY DEF IInv, TypeOK, WorkersOK, HeartbeatWorker, HeartbeatAccepted
<1>1. WorkersOK'
  <2>1. PICK loaded \in LoadedSets, util \in UtilsOf[w] :
          workers' = [workers EXCEPT ![w] =
              [status |-> status, current |-> current, seen |-> TRUE,
               loaded |-> loaded, util |-> util]]
    BY DEF HeartbeatWorker
  <2>2. util \in Utils \cup {NoUtil}
    BY <2>1
  <2> DEFINE row == [status |-> status, current |-> current, seen |-> TRUE,
                     loaded |-> loaded, util |-> util]
  <2>3. row \in WorkerRow
    BY <2>2 DEF WorkerRow
  <2> HIDE DEF row
  <2>4. workers' = [workers EXCEPT ![w] = row]
    BY <2>1 DEF row
  <2> QED BY <1>0, <2>3, <2>4 DEF WorkersOK, Registered
<1>2. jobs' = [j \in Rows |-> jobs'[j]] /\ \A j \in Rows : RowStep(jobs[j], jobs'[j])
  <2>1. \A j \in Rows : /\ RowStep(jobs[j], [jobs[j] EXCEPT !.beat = TRUE])
                        /\ IsActive(jobs[j]) => RowStep(jobs[j], Interrupted(jobs[j]))
    BY RowFacts, RowRewrites
  <2> QED BY <2>1, RowFacts DEF HeartbeatWorker, HeartbeatJobs, UpdateRows
<1>3. UNCHANGED nextRow
  BY DEF HeartbeatWorker
<1> QED BY <1>1, <1>2, <1>3, RowsRewritten

\* A report changes the status of a job its sender owns.  Such a job is active,
\* because a pending job has no owner, so no new device is taken.
LEMMA ReportStep ==
    ASSUME IInv, NEW w \in Workers, NEW j \in Rows,
           NEW status \in ActiveStatuses \cup TerminalStatuses,
           UpdateJobProgress(w, j, status)
    PROVE  StepOK
<1> USE StoreAssumption, RoutingAssumption
<1>0. jobs[j] \in Row /\ Owned(jobs[j])
  BY RowFacts
<1>1. IsActive(jobs[j]) /\ jobs[j].worker = w
  BY <1>0 DEF UpdateJobProgress, Owned, Row, IsActive, IsPending, IsTerminal
<1> DEFINE e == status \in TerminalStatuses
           n == [jobs[j] EXCEPT !.status = status, !.effects = e]
<1>2. RowStep(jobs[j], n)
  <2>1. n \in Row
    <3>1. e \in BOOLEAN /\ status \in JobStatuses
      BY SMTT(30)
    <3> HIDE DEF e
    <3> QED BY <1>0, <3>1 DEF Row
  <2>2. /\ n.status = status /\ n.shape = jobs[j].shape /\ n.worker = w
        /\ n.gpu = jobs[j].gpu /\ n.cancel = jobs[j].cancel
        /\ n.effects = (status \in TerminalStatuses) /\ n.cleared = jobs[j].cleared
    BY <1>0, <1>1 DEF Row
  <2>3. status \in ActiveStatuses \cup TerminalStatuses /\ ~IsTerminal(jobs[j]) /\ ~jobs[j].cleared
    BY <1>0, <1>1 DEF Owned, IsActive, IsTerminal
  <2> HIDE DEF n
  <2>4. Owned(n)
    BY <1>0, <1>1, <2>2, <2>3 DEF Owned, IsActive, IsTerminal, IsPending
  <2>5. \A d \in Gpus : Holds(n, d) => Holds(jobs[j], d)
    BY <1>1, <2>2 DEF Holds, NonGpu
  <2>6. Kept(jobs[j], n)
    BY <1>1, <2>2, <2>3 DEF Kept, IsActive, IsTerminal, IsPending
  <2>7. ~IsPending(jobs[j])
    BY <1>1 DEF IsActive, IsPending
  <2> QED BY <1>1, <2>1, <2>2, <2>4, <2>5, <2>6, <2>7 DEF RowStep
<1>3. jobs' = [i \in Rows |-> IF i \in {j} THEN n ELSE jobs[i]]
  BY DEF UpdateJobProgress, UpdateRows
<1>4. jobs' = [i \in Rows |-> jobs'[i]] /\ \A i \in Rows : RowStep(jobs[i], jobs'[i])
  <2> HIDE DEF n
  <2> QED BY <1>2, <1>3, RowFacts
<1>5. WorkersOK' /\ UNCHANGED nextRow
  BY WorkerRewrites DEF UpdateJobProgress, UpdateWorkers, IInv, TypeOK, WorkersOK, Registered
<1> QED BY <1>4, <1>5, RowsRewritten

\* A claim is the only step that takes a device, and it takes one no row holds
\* (active_gpu_job_exists); the queued row it takes had no owner.
LEMMA ClaimStep ==
    ASSUME IInv, NEW w \in Workers, ClaimNextJob(w)
    PROVE  StepOK
<1> USE StoreAssumption, RoutingAssumption
<1>1. PICK j \in Claimable(jobs, workers, w) :
        /\ jobs' = [jobs EXCEPT ![j].status = "preparing", ![j].worker = w,
                                ![j].gpu = IF NonGpu(jobs[j]) THEN CpuGpu ELSE GpuOf[w]]
        /\ workers' = [workers EXCEPT ![w].status = "busy", ![w].current = j,
                                      ![w].seen = TRUE]
        /\ w \in Registered /\ UNCHANGED nextRow
        /\ ~Defers(jobs, workers, w, j)
  BY DEF ClaimNextJob
<1>2. /\ j \in Rows /\ IsQueued(jobs[j])
      /\ NonGpu(jobs[j]) \/ ~\E i \in Rows : Holds(jobs[i], Device(GpuOf[w]))
  BY DEF Claimable, ActiveGpuJobExists, Rows
<1>3. jobs[j] \in Row /\ Owned(jobs[j])
  BY <1>2, RowFacts
<1> DEFINE g == IF NonGpu(jobs[j]) THEN CpuGpu ELSE GpuOf[w]
           n == [jobs[j] EXCEPT !.status = "preparing", !.worker = w, !.gpu = g]
<1>4. g \in Gpus /\ g # NoGpu /\ w # NoWorker
  BY DEF Gpus
<1>5. jobs' = [i \in Rows |-> IF i = j THEN n ELSE jobs[i]]
  BY <1>1, <1>2 DEF IInv, TypeOK, Rows
<1>6. /\ n \in Row /\ n.status = "preparing" /\ n.worker = w /\ n.gpu = g
      /\ n.shape = jobs[j].shape /\ n.effects = jobs[j].effects
      /\ n.cancel = jobs[j].cancel /\ n.cleared = jobs[j].cleared
  <2> HIDE DEF g
  <2> QED BY <1>3, <1>4 DEF Row
<1>7. ~jobs[j].effects /\ ~jobs[j].cleared
  BY <1>2, <1>3 DEF Owned, IsQueued, IsTerminal
<1> HIDE DEF n
<1>8. Owned(n)
  BY <1>4, <1>6, <1>7 DEF Owned, IsActive, IsTerminal, IsPending
<1>9. Kept(jobs[j], n)
  BY <1>2, <1>6, Zenon DEF Kept, IsQueued, IsTerminal, IsPending
<1>10. \A d \in Gpus : Holds(n, d) => \A i \in Rows : ~Holds(jobs[i], d)
  BY <1>2, <1>6 DEF Holds, NonGpu
<1>11. Rows' = Rows /\ jobs'[j] = n /\ \A i \in Rows \ {j} : jobs'[i] = jobs[i]
  BY <1>2, <1>5 DEF Rows
<1>12. TypeOK'
  <2>1. jobs' \in [DOMAIN jobs' -> Row]
    BY <1>5, <1>6, RowFacts
  <2>2. WorkersOK'
    <3>1. j \in JobIds
      BY SMTT(30), <1>2 DEF IInv, TypeOK, Rows, JobIds
    <3>2. /\ w \in DOMAIN workers /\ workers[w] \in WorkerRow
          /\ workers \in [DOMAIN workers -> WorkerRow] /\ DOMAIN workers \subseteq Workers
      BY <1>1 DEF IInv, TypeOK, Registered
    <3>3. [workers[w] EXCEPT !.status = "busy", !.current = j, !.seen = TRUE] \in WorkerRow
      BY <3>1, <3>2, WorkerRewrites
    <3>4. workers' = [workers EXCEPT ![w] =
                        [workers[w] EXCEPT !.status = "busy", !.current = j, !.seen = TRUE]]
      BY <1>1, <3>2
    <3> QED BY <3>2, <3>3, <3>4 DEF WorkersOK
  <2> QED BY <1>1, <1>11, <2>1, <2>2 DEF IInv, TypeOK, WorkersOK, Rows
<1>13. Ownership'
  BY <1>8, <1>11 DEF IInv, Ownership
<1>14. GpuExclusive'
  BY <1>10, <1>11 DEF IInv, GpuExclusive
<1>15. HistoryKept
  BY <1>9, <1>11, RowFacts DEF HistoryKept, RowStep
<1> DEFINE d == IF NonGpu(jobs[j]) THEN NoGpu ELSE Device(g)
<1>16. Life!Start(j, w, d)
  <2>1. LifeOf(j) = LifeRow("waiting", NoWorker, NoGpu, NoJob)
    BY <1>2 DEF LifeOf, RowLife, IsQueued, IsPending
  <2>2. LifeOf(j)' = LifeRow("running", w, d, NoJob)
    BY <1>2, <1>6, <1>11 DEF LifeOf, RowLife, IsPending, IsTerminal, NonGpu
  <2>3. ASSUME NEW i \in JobIds \ {j}
        PROVE  LifeOf(i)' = LifeOf(i)
    <3>1. CASE i \in Rows
      BY <1>11, <3>1 DEF LifeOf
    <3>2. CASE i \notin Rows
      BY <1>1, <1>11, <3>2 DEF LifeOf
    <3> QED BY <3>1, <3>2
  <2>4. ASSUME d # NoGpu, NEW i \in JobIds
        PROVE  LifeOf(i).device # d
    <3>1. ~NonGpu(jobs[j]) /\ d = Device(GpuOf[w]) /\ (i \in Rows => ~Holds(jobs[i], d))
      BY <1>2, <2>4
    <3>2. CASE i \in Rows
      <4>1. jobs[i] \in Row /\ Owned(jobs[i])
        BY <3>2, RowFacts
      <4> QED BY <2>4, <3>1, <3>2, <4>1 DEF LifeOf, RowLife, LifeRow, Holds, Owned, IsActive,
                   IsTerminal, IsPending, Row
    <3>3. CASE i \notin Rows
      BY <2>4, <3>3 DEF LifeOf, LifeRow
    <3> QED BY <3>2, <3>3
  <2>5. j \in JobIds
    BY SMTT(30), <1>2 DEF IInv, TypeOK, Rows, JobIds
  <2> HIDE DEF d
  <2> QED BY <2>1, <2>2, <2>3, <2>4, <2>5 DEF Life!Start, Life!Idle, Life!Running, LifeRow
<1>17. d \in Gpus \cup {NoGpu} /\ j \in JobIds
  <2>1. d \in Gpus \cup {NoGpu}
    BY <1>2, <1>4 DEF Device, Gpus
  <2>2. j \in JobIds
    BY SMTT(30), <1>2 DEF IInv, TypeOK, Rows, JobIds
  <2> QED BY <2>1, <2>2
<1> HIDE DEF d
<1>18. MlxRunsOnMlx'
  <2>1. MlxRequired /\ jobs[j].shape \in KeptForMlx => GpuOf[w] = MlxGpu
    <3>1. jobs[j].shape \in Supports[w] /\ w \in Workers
      BY <1>1 DEF IInv, TypeOK, Registered, Claimable, WorkerSupports
    <3>2. MlxRequired /\ jobs[j].shape \in DeferredShapes => GpuOf[w] = MlxGpu
      BY <1>1 DEF Defers, DeferToMlx
    <3> QED BY <3>1, <3>2 DEF KeptForMlx
  <2>2. ASSUME NEW i \in Rows', MlxRequired, IsActive(jobs'[i]), jobs'[i].shape \in KeptForMlx
        PROVE  GpuOf[jobs'[i].worker] = MlxGpu
    <3>1. CASE i = j
      <4>1. jobs'[i].shape = jobs[j].shape /\ jobs'[i].worker = w
        BY <1>6, <1>11, <3>1
      <4> QED BY <2>1, <2>2, <4>1
    <3>2. CASE i # j
      <4>1. i \in Rows /\ jobs'[i] = jobs[i]
        BY <1>11, <2>2, <3>2
      <4> QED BY <2>2, <4>1 DEF IInv, MlxRunsOnMlx
    <3> QED BY <3>1, <3>2
  <2> QED BY <2>2 DEF MlxRunsOnMlx, IsActive
<1>19. Placed'
  <2>1. ~NonGpu(n) => n.gpu = GpuOf[n.worker]
    BY <1>6 DEF NonGpu
  <2> QED BY <1>11, <2>1 DEF IInv, Placed
<1> QED BY <1>12, <1>13, <1>14, <1>15, <1>16, <1>17, <1>18, <1>19 DEF IInv, StepOK, Life!Next

\* Startup backfills the routing facts, interrupts the jobs nobody provably runs,
\* queues the stranded captions, and deletes only terminal rows.
LEMMA StartupStep ==
    ASSUME IInv, NEW purged \in SUBSET Rows, Startup(purged)
    PROVE  StepOK
<1> DEFINE fresh(j) == [jobs[j] EXCEPT !.facts = TRUE]
<1>1. ASSUME NEW j \in Rows
      PROVE  /\ RowStep(jobs[j], fresh(j))
             /\ IsActive(fresh(j)) => RowStep(jobs[j], Interrupted(fresh(j)))
             /\ fresh(j).status = "pending_caption" => RowStep(jobs[j], Enqueued(fresh(j)))
  <2>1. jobs[j] \in Row /\ Owned(jobs[j])
    BY RowFacts
  <2> DEFINE n == fresh(j)
  <2>2. /\ n \in Row
        /\ n.status = jobs[j].status /\ n.shape = jobs[j].shape
        /\ n.worker = jobs[j].worker /\ n.gpu = jobs[j].gpu
        /\ n.cancel = jobs[j].cancel /\ n.effects = jobs[j].effects
        /\ n.cleared = jobs[j].cleared
    BY <2>1 DEF Row
  <2> HIDE DEF n
  <2>3. (jobs[j].cancel => n.cancel) /\ (n.effects => jobs[j].effects)
    BY <2>2, Zenon
  <2>4. RowStep(jobs[j], n)
    BY <2>1, <2>2, <2>3, SameLife
  <2>5. n \in Row /\ Owned(n)
    BY <2>4 DEF RowStep
  <2>6. /\ IsActive(n) => RowStep(n, Interrupted(n))
        /\ n.status = "pending_caption" => RowStep(n, Enqueued(n))
    BY <2>5, RowRewrites DEF IsPending
  <2>7. /\ IsActive(n) => RowStep(jobs[j], Interrupted(n))
        /\ n.status = "pending_caption" => RowStep(jobs[j], Enqueued(n))
    BY <2>4, <2>6, RowStepTrans
  <2> QED BY <2>4, <2>7 DEF n
<1>2. /\ jobs' = [j \in Rows \ purged |->
                    IF IsActive(fresh(j)) /\ ~ProvenOwner(j) THEN Interrupted(fresh(j))
                    ELSE IF fresh(j).status = "pending_caption" THEN Enqueued(fresh(j))
                    ELSE fresh(j)]
      /\ \A j \in purged : IsTerminal(jobs[j])
      /\ UNCHANGED nextRow
  BY DEF Startup
<1>3. WorkersOK'
  BY WorkerRewrites DEF Startup, UpdateWorkers, IInv, TypeOK, WorkersOK, Registered
<1> HIDE DEF fresh
<1> DEFINE D == Rows \ purged
<1>4. jobs' = [j \in D |-> jobs'[j]] /\ \A j \in D : RowStep(jobs[j], jobs'[j])
  BY <1>1, <1>2
<1> QED BY <1>2, <1>3, <1>4, RowsRewritten

\* The empty database satisfies the inductive invariant.
LEMMA InitInv ==
    Init => IInv
<1> SUFFICES ASSUME Init PROVE IInv
  OBVIOUS
<1>1. DOMAIN jobs = {} /\ DOMAIN workers = {} /\ nextRow = 1
  BY DEF Init
<1>2. jobs \in [DOMAIN jobs -> Row] /\ workers \in [DOMAIN workers -> WorkerRow]
  BY <1>1 DEF Init
<1>3. TypeOK
  BY SMTT(30), <1>1, <1>2, RoutingAssumption DEF TypeOK
<1>4. Ownership /\ GpuExclusive /\ MlxRunsOnMlx /\ Placed
  BY <1>1 DEF Ownership, GpuExclusive, MlxRunsOnMlx, Placed, Rows
<1> QED BY <1>3, <1>4 DEF IInv

\* The inductive step: one lemma per kind of operation.
LEMMA NextInv ==
    IInv /\ [Next]_vars => StepOK
<1> SUFFICES ASSUME IInv, [Next]_vars
             PROVE  StepOK
  OBVIOUS
<1> USE StoreAssumption
<1>1. ASSUME NEW shape \in Shapes, NEW requested \in Requests, NEW status \in InitialStatuses,
             CreateJob(shape, requested, status)
      PROVE  StepOK
  <2>1. /\ requested \in Gpus \cup {AutoGpu} /\ status \in PendingStatuses
        /\ NewPayload \in Payloads
    BY <1>1, Zenon
  <2>2. 1 \in 1 .. MaxAttempts
    BY FirstAttempt
  <2>3. Insert(shape, requested, status, 1, NewPayload)
    BY <1>1 DEF CreateJob
  <2> QED BY <2>1, <2>2, <2>3, InsertStep
<1>2. ASSUME NEW w \in Workers, AnyWorker(w)
      PROVE  StepOK
  <2>1. ASSUME NEW h \in Heartbeats,
               NEW current \in IF h[2] THEN 1 .. (nextRow - 1) ELSE {NoJob},
               HeartbeatWorker(w, h[1], current)
        PROVE  StepOK
    <3>1. h[1] \in WorkerStatuses
      BY <2>1, Zenon
    <3>2. 1 .. (nextRow - 1) \subseteq JobIds
      BY SMTT(30), RoutingAssumption DEF IInv, TypeOK, JobIds
    <3>3. current \in JobIds \cup {NoJob}
      BY <2>1, <3>2, Zenon
    <3> QED BY <2>1, <3>1, <3>3, HeartbeatStep
  <2>2. ASSUME NEW j \in Rows, NEW status \in Reports, UpdateJobProgress(w, j, status)
        PROVE  StepOK
    <3>1. status \in ActiveStatuses \cup TerminalStatuses
      BY <2>2, Zenon
    <3> QED BY <2>2, <3>1, ReportStep
  <2> QED BY <1>2, <2>1, <2>2, WorkerRowStep, ClaimStep DEF AnyWorker
<1>3. CASE UNCHANGED vars
  <2>1. WorkersOK' /\ UNCHANGED <<jobs, nextRow>>
    BY <1>3 DEF vars, IInv, TypeOK, WorkersOK
  <2> QED BY <1>3, <2>1, RowsUnchanged
<1> QED BY <1>1, <1>2, <1>3, JobStep, ProjectStep, PrioritizeStep, SweepStep, StartupStep
        DEF Next

\* The inductive invariant holds in every reachable state.
LEMMA InvHolds ==
    Spec => []IInv
<1>1. IInv /\ [Next]_vars => IInv'
  BY NextInv DEF StepOK
<1> QED BY <1>1, InitInv, PTL DEF Spec

\* Every reachable state of the store is well typed, whatever the callers do: in
\* particular no retry chain exceeds MAX_JOB_ATTEMPTS and no row or worker holds
\* a status outside the vocabulary.
THEOREM TypeCorrect == Spec => []TypeOK
<1>1. IInv => TypeOK
  BY DEF IInv
<1> QED BY <1>1, InvHolds, PTL

\* One active GPU job per physical device, for any number of jobs, workers and
\* GPUs: active_gpu_job_exists, read and acted on in the claim's transaction, is
\* enough.
THEOREM DeviceExclusion == Spec => []GpuExclusive
<1>1. IInv => GpuExclusive
  BY DEF IInv
<1> QED BY <1>1, InvHolds, PTL

\* Pending jobs are unowned, active jobs are owned, and only terminal jobs await
\* side effects or are hidden.
THEOREM OwnershipHolds == Spec => []Ownership
<1>1. IInv => Ownership
  BY DEF IInv
<1> QED BY <1>1, InvHolds, PTL

\* On a deployment that requires MLX only an mlx worker ever runs a job of a shape
\* kept for mlx: the deferral in the claim or the workers' capabilities decide, and
\* no later step changes the owner.
THEOREM MlxOnly == Spec => []MlxRunsOnMlx
<1>1. IInv => MlxRunsOnMlx
  BY DEF IInv
<1> QED BY <1>1, InvHolds, PTL

\* No store operation resurrects a terminal job, requeues or reassigns a claimed
\* one, forgets a cancel request or deletes a job that is not terminal.
THEOREM LifeCycle == Spec => NoResurrection
<1>1. IInv /\ [Next]_vars => [HistoryKept]_vars
  BY NextInv DEF StepOK
<1> QED BY <1>1, InvHolds, PTL DEF Spec, NoResurrection, HistoryKept

\* The store implements JobLifecycle: read through the rows, every method, sweep
\* and restart submits one job, starts one job on a device nobody holds, or ends
\* and forgets jobs, for any number of jobs, workers and GPUs.
THEOREM Refinement == Spec => RefinesLifecycle
<1>1. Init => Life!Init
  BY SMTT(30) DEF Init, Life!Init, Life!Idle, LifeOf, LifeRow, Rows, JobIds
<1>2. IInv /\ [Next]_vars => [Life!Next]_([j \in JobIds |-> LifeOf(j)])
  BY NextInv DEF StepOK
<1> QED BY <1>1, <1>2, InvHolds, PTL DEF Spec, RefinesLifecycle, Life!Spec

-----------------------------------------------------------------------------
(* Deferral to a healthier worker *)

Reading == [free : Int, load : Int, usage : Int]

\* Below the healthy range on some count: the escape clauses of
\* dispatch_score_is_better.
Pressed(u) == u.free < 2048 \/ u.load >= 85 \/ u.usage >= 90

\* dispatch_score_is_better never holds in both directions between two GPUs in
\* the healthy range, warm models included ("two similarly healthy GPUs do not
\* trade claims back and forth"), so two such workers do not yield the same job to
\* each other at every poll; the one exception is a memory usage exactly ten
\* points apart, where tolerance and relief meet.
THEOREM NoCircularDeferral ==
    ASSUME NEW a \in Reading, NEW b \in Reading, NEW wa, NEW wb,
           ~Pressed(a), ~Pressed(b),
           a.usage # b.usage + 10, b.usage # a.usage + 10,
           ScoreIsBetter(a, wa, b, wb)
    PROVE  ~ScoreIsBetter(b, wb, a, wa)
<1>1. /\ a.free \in Int /\ a.load \in Int /\ a.usage \in Int
      /\ b.free \in Int /\ b.load \in Int /\ b.usage \in Int
  BY DEF Reading
<1> QED BY SMTT(30), <1>1 DEF ScoreIsBetter, Pressed
=============================================================================
