-------------------------- MODULE JobsSystemProofs ---------------------------
(***************************************************************************)
(* Proofs about JobsSystem: the queue driven by worker processes that      *)
(* crash, lose calls, are shut down and start again, beside an API process *)
(* that restarts.  They hold for every number of jobs and workers, every   *)
(* choice of the calls that may be lost and every bound on the crashes.    *)
(*                                                                         *)
(* The store's part of a step is taken from JobsStoreProofs: whatever call *)
(* a process makes, StepOK holds of it.  What is left is to relate the     *)
(* places of the processes to the rows.                                    *)
(***************************************************************************)
EXTENDS JobsSystem, JobsStoreProofs

Places == {"down", "crashed", "start", "poll", "run", "done", "stopping", "stopped",
           "leaving", "overrun", "lingering", "recycle"}

\* Where a process has a job in its hands.
Holding == {"run", "done", "stopping", "stopped", "overrun", "lingering", "recycle"}

ProcsOK ==
    /\ pc \in [Workers -> Places]
    /\ held \in [Workers -> JobIds \cup {NoJob}]
    /\ \A w \in Workers : held[w] # NoJob <=> pc[w] \in Holding

\* No two processes have the same job.
HeldOnce == \A v, w \in Workers : held[v] = held[w] /\ held[v] # NoJob => v = w

\* A job whose execution began has left the queue, for good.
BegunLeft == \A j \in begun : j \in Rows /\ ~IsPending(jobs[j])

\* The inductive invariant.
SystemInv == IInv /\ ProcsOK /\ ExecutesOwnJob /\ HeldOnce /\ RecycleAfterFailure /\ BegunLeft

\* A worker row names only a job of its own: one that was claimed for it and that
\* nobody else can own any more.
CurrentOwned ==
    \A v \in Registered : workers[v].current # NoJob =>
        /\ workers[v].current \in Rows
        /\ ~IsPending(jobs[workers[v].current])
        /\ IsActive(jobs[workers[v].current]) => jobs[workers[v].current].worker = v

\* The tables prove what a computing process does: its worker row is fresh and
\* names the job, and the job is active and its own.
Proven(w) ==
    /\ w \in Registered
    /\ workers[w].status = "busy" /\ workers[w].current = held[w] /\ workers[w].seen
    /\ IsActive(jobs[held[w]]) /\ jobs[held[w]].worker = w

ComputesProven == \A w \in Workers : Computes(w) => Proven(w)

\* The inductive invariant where no periodic heartbeat is lost.
DeviceInv == SystemInv /\ CurrentOwned /\ ComputesProven

\* The calls a worker process or its supervisor makes for w.
WorkerCall(w) ==
    \/ RegisterWorker(w) \/ SilencePasses(w) \/ ClaimNextJob(w) \/ FailWorkerJobTerminated(w)
    \/ \E status \in WorkerStatuses, current \in {NoJob, held[w]} :
            HeartbeatWorker(w, status, current)
    \/ \E status \in ActiveStatuses \cup TerminalStatuses :
            held[w] # NoJob /\ UpdateJobProgress(w, held[w], status)
    \/ UNCHANGED vars

\* First-order leaves go to Zenon; the others name the SMT solver.
USE ZenonT(30)
USE DEF ActiveStatuses, TerminalStatuses, PendingStatuses, JobStatuses, WorkerStatuses

\* A registration, a heartbeat, a claim or a report is a legal step of the store,
\* because a process only ever names a row that exists.
LEMMA WorkerCalls ==
    ASSUME SystemInv, NEW w \in Workers, WorkerCall(w)
    PROVE  StoreStep
<1> USE DEF SystemInv
<1>0. held[w] \in JobIds \cup {NoJob} /\ (held[w] # NoJob => held[w] \in Rows)
  BY DEF ProcsOK, ExecutesOwnJob
<1>1. CASE RegisterWorker(w) \/ SilencePasses(w)
  <2>1. jobs' = jobs
    BY <1>1 DEF RegisterWorker, SilencePasses
  <2> QED BY <1>1, <2>1, WorkerRowStep DEF StoreStep, Rows
<1>2. CASE ClaimNextJob(w)
  <2>1. Rows' = Rows
    BY <1>2 DEF ClaimNextJob, Rows
  <2> QED BY <1>2, <2>1, ClaimStep DEF StoreStep
<1>3. CASE FailWorkerJobTerminated(w)
  <2>1. Rows' = Rows
    BY <1>3 DEF FailWorkerJobTerminated, UpdateRows, Rows
  <2> QED BY <1>3, <2>1, WorkerRowStep DEF StoreStep
<1>4. ASSUME NEW status \in WorkerStatuses, NEW current \in {NoJob, held[w]},
             HeartbeatWorker(w, status, current)
      PROVE  StoreStep
  <2>1. Rows' = Rows
    BY <1>4 DEF HeartbeatWorker, HeartbeatJobs, UpdateRows, Rows
  <2>2. current \in JobIds \cup {NoJob}
    BY <1>0
  <2> QED BY <1>4, <2>1, <2>2, HeartbeatStep DEF StoreStep
<1>5. ASSUME NEW status \in ActiveStatuses \cup TerminalStatuses, held[w] # NoJob,
             UpdateJobProgress(w, held[w], status)
      PROVE  StoreStep
  <2>1. Rows' = Rows
    BY <1>5 DEF UpdateJobProgress, UpdateRows, Rows
  <2> QED BY <1>0, <1>5, <2>1, ReportStep DEF StoreStep
<1>6. CASE UNCHANGED vars
  <2>1. StepOK
    BY <1>6, NextInv
  <2> QED BY <1>6, <2>1 DEF StoreStep, vars, Rows
<1> QED BY <1>1, <1>2, <1>3, <1>4, <1>5, <1>6 DEF WorkerCall

\* The same for the API's own steps and its clients' requests.
ApiCall ==
    \/ SweepStaleWorkers
    \/ Startup({})
    \/ \E shape \in Shapes, requested \in Requests : CreateJob(shape, requested, "queued")
    \/ \E j \in Rows : CancelJob(j)
    \/ UNCHANGED vars

LEMMA ApiCalls ==
    ASSUME SystemInv, ApiCall
    PROVE  StoreStep
<1> USE DEF SystemInv
<1>1. CASE SweepStaleWorkers
  <2>1. Rows' = Rows
    BY <1>1 DEF SweepStaleWorkers, UpdateRows, Rows
  <2> QED BY <1>1, <2>1, SweepStep DEF Sweeps, StoreStep
<1>2. CASE Startup({})
  <2>1. Rows' = Rows
    BY <1>2 DEF Startup, Rows
  <2>2. {} \in SUBSET Rows
    OBVIOUS
  <2> QED BY <1>2, <2>1, <2>2, StartupStep DEF StoreStep
<1>3. ASSUME NEW shape \in Shapes, NEW requested \in Requests,
             CreateJob(shape, requested, "queued")
      PROVE  StoreStep
  <2>1. Insert(shape, requested, "queued", 1, NewPayload)
    BY <1>3 DEF CreateJob
  <2>2. Rows \subseteq Rows'
    BY <2>1 DEF Insert, Rows
  <2>3. requested \in Gpus \cup {AutoGpu} /\ NewPayload \in Payloads
    BY StoreAssumption, Zenon
  <2>4. "queued" \in PendingStatuses
    OBVIOUS
  <2> QED BY <2>1, <2>2, <2>3, <2>4, FirstAttempt, InsertStep DEF StoreStep
<1>4. ASSUME NEW j \in Rows, CancelJob(j)
      PROVE  StoreStep
  <2>1. Rows' = Rows
    BY <1>4 DEF CancelJob, UpdateRows, Rows
  <2> QED BY <1>4, <2>1, JobStep DEF AnyJob, StoreStep
<1>5. CASE UNCHANGED vars
  <2>1. StepOK
    BY <1>5, NextInv
  <2> QED BY <1>5, <2>1 DEF StoreStep, vars, Rows
<1> QED BY <1>1, <1>2, <1>3, <1>4, <1>5 DEF ApiCall

\* What is executed stays its executor's: a step of the store leaves a row that was
\* claimed with its owner or settles it, and a settled row keeps its status.
LEMMA OwnKept ==
    ASSUME IInv, StoreStep, NEW w \in Workers, NEW j \in Rows,
           IsTerminal(jobs[j]) \/ (IsActive(jobs[j]) /\ jobs[j].worker = w)
    PROVE  /\ j \in Rows'
           /\ IsTerminal(jobs'[j]) \/ (IsActive(jobs'[j]) /\ jobs'[j].worker = w)
           /\ IsTerminal(jobs[j]) => jobs'[j].status = jobs[j].status
<1>1. j \in Rows' /\ Kept(jobs[j], jobs'[j])
  BY DEF StoreStep, StepOK, HistoryKept
<1>2. jobs[j] \in Row
  BY RowFacts
<1>3. jobs'[j] \in Row /\ Owned(jobs'[j])
  BY <1>1 DEF StoreStep, StepOK, IInv, TypeOK, Ownership, Rows
<1>4. CASE IsTerminal(jobs[j])
  BY <1>1, <1>4 DEF Kept, IsTerminal
<1>5. CASE IsActive(jobs[j]) /\ jobs[j].worker = w
  <2>1. ~IsPending(jobs[j]) /\ ~IsTerminal(jobs[j])
    BY <1>5 DEF IsActive, IsPending, IsTerminal
  <2>2. ~IsPending(jobs'[j]) /\ jobs'[j].worker \in {w, NoWorker}
    BY <1>1, <1>5, <2>1 DEF Kept
  <2>3. IsTerminal(jobs'[j]) \/ IsActive(jobs'[j])
    BY <1>3, <2>2 DEF Row, IsActive, IsPending, IsTerminal
  <2>4. IsActive(jobs'[j]) => jobs'[j].worker # NoWorker
    BY <1>3 DEF Owned
  <2> QED BY <1>1, <2>1, <2>2, <2>3, <2>4
<1> QED BY <1>1, <1>4, <1>5

-----------------------------------------------------------------------------
(* The processes *)

\* A process whose place and job do not change keeps its part of the invariant,
\* whatever legal step the store takes.
LEMMA Bystander ==
    ASSUME SystemInv, StoreStep, NEW v \in Workers, pc'[v] = pc[v], held'[v] = held[v]
    PROVE  /\ held'[v] \in JobIds \cup {NoJob} /\ pc'[v] \in Places
           /\ held'[v] # NoJob <=> pc'[v] \in Holding
           /\ held'[v] # NoJob =>
                /\ held'[v] \in Rows'
                /\ \/ IsTerminal(jobs'[held'[v]])
                   \/ IsActive(jobs'[held'[v]]) /\ jobs'[held'[v]].worker = v
           /\ pc'[v] = "recycle" => jobs'[held'[v]].status = "failed"
<1>1. /\ held[v] \in JobIds \cup {NoJob} /\ pc[v] \in Places
      /\ held[v] # NoJob <=> pc[v] \in Holding
  BY DEF SystemInv, ProcsOK
<1>2. ASSUME held[v] # NoJob
      PROVE  /\ held[v] \in Rows'
             /\ \/ IsTerminal(jobs'[held[v]])
                \/ IsActive(jobs'[held[v]]) /\ jobs'[held[v]].worker = v
             /\ IsTerminal(jobs[held[v]]) => jobs'[held[v]].status = jobs[held[v]].status
  <2>1. /\ held[v] \in Rows
        /\ IsTerminal(jobs[held[v]]) \/ (IsActive(jobs[held[v]]) /\ jobs[held[v]].worker = v)
    BY <1>2 DEF SystemInv, ExecutesOwnJob
  <2> QED BY <2>1, OwnKept DEF SystemInv
<1>3. ASSUME pc[v] = "recycle" PROVE jobs'[held[v]].status = "failed"
  <2>1. jobs[held[v]].status = "failed" /\ held[v] # NoJob
    BY <1>1, <1>3 DEF SystemInv, RecycleAfterFailure, Holding
  <2> QED BY <1>2, <2>1 DEF IsTerminal
<1> QED BY <1>1, <1>2, <1>3

\* What was begun stays out of the queue.
LEMMA BegunKept ==
    ASSUME SystemInv, StoreStep, NEW j \in begun
    PROVE  j \in Rows' /\ ~IsPending(jobs'[j])
BY DEF SystemInv, BegunLeft, StoreStep, StepOK, HistoryKept, Kept

\* The invariant, assembled from its parts for each process.
LEMMA Assembled ==
    ASSUME IInv', pc' = [v \in Workers |-> pc'[v]], held' = [v \in Workers |-> held'[v]],
           \A v \in Workers :
             /\ held'[v] \in JobIds \cup {NoJob} /\ pc'[v] \in Places
             /\ held'[v] # NoJob <=> pc'[v] \in Holding
             /\ held'[v] # NoJob =>
                  /\ held'[v] \in Rows'
                  /\ \/ IsTerminal(jobs'[held'[v]])
                     \/ IsActive(jobs'[held'[v]]) /\ jobs'[held'[v]].worker = v
             /\ pc'[v] = "recycle" => jobs'[held'[v]].status = "failed",
           \A u, v \in Workers : held'[u] = held'[v] /\ held'[u] # NoJob => u = v,
           BegunLeft'
    PROVE  SystemInv'
<1>1. ProcsOK'
  <2>1. pc' \in [Workers -> Places] /\ held' \in [Workers -> JobIds \cup {NoJob}]
    OBVIOUS
  <2> QED BY <2>1 DEF ProcsOK
<1>2. ExecutesOwnJob'
  BY DEF ExecutesOwnJob
<1>3. HeldOnce'
  BY DEF HeldOnce
<1>4. RecycleAfterFailure'
  BY DEF RecycleAfterFailure
<1> QED BY <1>1, <1>2, <1>3, <1>4 DEF SystemInv

\* Steps that move no process.
LEMMA ProcsStay ==
    ASSUME SystemInv, StoreStep, UNCHANGED <<pc, held, begun>>
    PROVE  SystemInv'
<1>1. IInv'
  BY DEF StoreStep, StepOK
<1>2. pc' = [v \in Workers |-> pc'[v]] /\ held' = [v \in Workers |-> held'[v]]
  BY DEF SystemInv, ProcsOK
<1>3. \A u, v \in Workers : held'[u] = held'[v] /\ held'[u] # NoJob => u = v
  BY DEF SystemInv, HeldOnce
<1>4. BegunLeft'
  BY BegunKept DEF BegunLeft
<1> QED BY <1>1, <1>2, <1>3, <1>4, Bystander, Assembled

\* A process that goes on with the job it has, or lets go of it.
LEMMA ProcMoves ==
    ASSUME SystemInv, StoreStep, NEW w \in Workers, NEW x \in Places, NEW h,
           h = held[w] \/ h = NoJob, h # NoJob <=> x \in Holding,
           x = "recycle" => jobs'[h].status = "failed",
           pc' = [pc EXCEPT ![w] = x], held' = [held EXCEPT ![w] = h], begun' = begun
    PROVE  SystemInv'
<1>1. IInv'
  BY DEF StoreStep, StepOK
<1>2. /\ pc' = [v \in Workers |-> pc'[v]] /\ held' = [v \in Workers |-> held'[v]]
      /\ pc'[w] = x /\ held'[w] = h
      /\ \A v \in Workers \ {w} : pc'[v] = pc[v] /\ held'[v] = held[v]
  BY DEF SystemInv, ProcsOK
<1>3. \A u, v \in Workers : held'[u] = held'[v] /\ held'[u] # NoJob => u = v
  BY SMTT(30), <1>2 DEF SystemInv, HeldOnce
<1>4. /\ h \in JobIds \cup {NoJob}
      /\ h # NoJob => /\ h \in Rows'
                      /\ IsTerminal(jobs'[h]) \/ (IsActive(jobs'[h]) /\ jobs'[h].worker = w)
  <2>1. h \in JobIds \cup {NoJob}
    BY DEF SystemInv, ProcsOK
  <2>2. ASSUME h # NoJob
        PROVE  /\ h \in Rows
               /\ IsTerminal(jobs[h]) \/ (IsActive(jobs[h]) /\ jobs[h].worker = w)
    BY <2>2 DEF SystemInv, ExecutesOwnJob
  <2> QED BY <2>1, <2>2, OwnKept DEF SystemInv
<1>5. BegunLeft'
  BY BegunKept DEF BegunLeft
<1> QED BY SMTT(30), <1>1, <1>2, <1>3, <1>4, <1>5, Bystander, Assembled

\* A process takes a job into its hands only if no process had it before.
BeginsFresh ==
    \A w \in Workers : held'[w] \notin {held[w], NoJob} => held'[w] \notin begun

\* What every step of the system does: it preserves the invariant, it is a legal
\* step of the store, and it begins no job a second time.
SystemOK == SystemInv' /\ StepOK /\ BeginsFresh

\* A claim that is answered: the row it takes was queued, so that no process had
\* it, and is now owned by the claimant.
LEMMA Claims ==
    ASSUME SystemInv, NEW w \in Workers, PollClaims(w)
    PROVE  SystemOK
<1>1. StoreStep
  BY WorkerCalls DEF PollClaims, WorkerCall
<1>2. PICK j \in Rows :
        /\ IsQueued(jobs[j]) /\ w \in Registered
        /\ jobs' = [jobs EXCEPT ![j].status = "preparing", ![j].worker = w,
                                ![j].gpu = IF NonGpu(jobs[j]) THEN CpuGpu ELSE GpuOf[w]]
        /\ workers' = [workers EXCEPT ![w].status = "busy", ![w].current = j,
                                      ![w].seen = TRUE]
  BY DEF PollClaims, ClaimNextJob, Claimable, Rows
<1>3. workers'[w].current = j
  <2>1. workers[w] \in WorkerRow
    BY <1>2 DEF SystemInv, IInv, TypeOK, Registered
  <2> QED BY <1>2, <2>1 DEF Registered, WorkerRow
<1>4. IsActive(jobs'[j]) /\ jobs'[j].worker = w
  <2>1. jobs[j] \in Row
    BY RowFacts DEF SystemInv
  <2> QED BY <1>2, <2>1 DEF Rows, Row, IsActive
<1>5. j \in JobIds /\ j # NoJob /\ j \in Rows'
  BY SMTT(30), <1>1, RoutingAssumption DEF SystemInv, IInv, TypeOK, Rows, JobIds, StoreStep
<1>6. /\ pc' = [v \in Workers |-> pc'[v]] /\ held' = [v \in Workers |-> held'[v]]
      /\ pc'[w] = "run" /\ held'[w] = j
      /\ \A v \in Workers \ {w} : pc'[v] = pc[v] /\ held'[v] = held[v]
  BY <1>3 DEF PollClaims, Goto, SystemInv, ProcsOK
<1>7. \A v \in Workers : held[v] # j
  BY <1>2, <1>5 DEF SystemInv, ExecutesOwnJob, IsTerminal, IsActive, IsQueued
<1>8. \A u, v \in Workers : held'[u] = held'[v] /\ held'[u] # NoJob => u = v
  BY SMTT(30), <1>6, <1>7 DEF SystemInv, HeldOnce
<1>9. IInv' /\ "run" \in Holding /\ "run" \in Places /\ "run" # "recycle"
  BY <1>1 DEF StoreStep, StepOK, Holding, Places
<1>a. BegunLeft'
  <2>1. \A i \in begun' : i \in begun \/ i = j
    BY <1>3 DEF PollClaims
  <2>2. ~IsPending(jobs'[j])
    BY <1>4 DEF IsActive, IsPending
  <2> QED BY <1>1, <1>5, <2>1, <2>2, BegunKept DEF BegunLeft
<1>b. BeginsFresh
  <2>1. j \notin begun
    BY <1>2 DEF SystemInv, BegunLeft, IsQueued, IsPending
  <2> QED BY <1>6, <2>1 DEF BeginsFresh
<1>10. SystemInv'
  BY SMTT(30), <1>1, <1>4, <1>5, <1>6, <1>8, <1>9, <1>a, Bystander, Assembled
<1> QED BY <1>1, <1>10, <1>b DEF SystemOK, StoreStep

\* Every step of a worker process, its supervisor or its silence makes at most one
\* call, for that worker and about the job in its hands.
LEMMA StepCalls ==
    ASSUME SystemInv, NEW w \in Workers, WorkerStep(w)
    PROVE  WorkerCall(w)
<1>0. pc[w] \in {"run", "stopping", "stopped"} => held[w] # NoJob
  BY DEF SystemInv, ProcsOK, Holding
<1>1. CASE StartWorker(w) \/ PollClaims(w) \/ PollClaimLost(w) \/ ShutdownDropsClaim(w)
  BY <1>1 DEF StartWorker, PollClaims, PollClaimLost, ShutdownDropsClaim, WorkerCall
<1>2. CASE IdleHeartbeat(w) \/ FinalHeartbeat(w) \/ StoppedHeartbeat(w) \/ OfflineHeartbeat(w)
  BY <1>2 DEF IdleHeartbeat, FinalHeartbeat, StoppedHeartbeat, OfflineHeartbeat, WorkerCall
<1>3. CASE RunHeartbeat(w) \/ PersistRetry(w) \/ Recycle(w)
  BY <1>3 DEF RunHeartbeat, PersistRetry, Recycle, WorkerCall
<1>4. CASE RunProgress(w) \/ ReportOutcome(w)
  BY <1>0, <1>4 DEF RunProgress, ReportOutcome, Outcomes, Computes, WorkerCall
<1>5. CASE PersistFailure(w) \/ PersistAnswerLost(w)
  BY <1>0, <1>5 DEF PersistFailure, PersistAnswerLost, Persists, WorkerCall
<1>6. CASE ShutdownCancels(w)
  BY <1>0, <1>6 DEF ShutdownCancels, WorkerCall
<1>7. CASE ReportRefused(w) \/ ReportLost(w) \/ Crash(w) \/ Shutdown(w) \/ Poison(w)
           \/ PersistStop(w) \/ LingerEnds(w)
  BY <1>7 DEF ReportRefused, ReportLost, Crash, Shutdown, Poison, PersistStop, LingerEnds,
              WorkerCall
<1>8. CASE ReportTerminated(w) \/ Silence(w)
  BY <1>8 DEF ReportTerminated, Silence, WorkerCall
<1> QED BY <1>1, <1>2, <1>3, <1>4, <1>5, <1>6, <1>7, <1>8 DEF WorkerStep

\* It moves no other process.
LEMMA StepFrame ==
    ASSUME SystemInv, NEW w \in Workers, WorkerStep(w), NEW v \in Workers \ {w}
    PROVE  pc'[v] = pc[v] /\ held'[v] = held[v] /\ (v \in poisoned' <=> v \in poisoned)
<1> USE DEF Goto, Dies, Returned, KeepProcs, procVars
<1>0. DOMAIN pc = Workers /\ DOMAIN held = Workers
  BY DEF SystemInv, ProcsOK
<1>1. CASE StartWorker(w) \/ PollClaims(w) \/ PollClaimLost(w) \/ ShutdownDropsClaim(w)
  BY <1>0, <1>1 DEF StartWorker, PollClaims, PollClaimLost, ShutdownDropsClaim
<1>2. CASE IdleHeartbeat(w) \/ FinalHeartbeat(w) \/ StoppedHeartbeat(w) \/ OfflineHeartbeat(w)
  BY <1>0, <1>2 DEF IdleHeartbeat, FinalHeartbeat, StoppedHeartbeat, OfflineHeartbeat
<1>3. CASE RunHeartbeat(w) \/ PersistRetry(w) \/ Recycle(w)
  BY <1>0, <1>3 DEF RunHeartbeat, PersistRetry, Recycle
<1>4. CASE RunProgress(w) \/ ReportOutcome(w) \/ ShutdownCancels(w)
  BY <1>0, <1>4 DEF RunProgress, ReportOutcome, ShutdownCancels
<1>5. CASE PersistFailure(w) \/ PersistAnswerLost(w) \/ PersistStop(w)
  BY <1>0, <1>5 DEF PersistFailure, PersistAnswerLost, PersistStop
<1>6. CASE ReportRefused(w) \/ ReportLost(w) \/ Crash(w) \/ Shutdown(w) \/ Poison(w)
  BY <1>0, <1>6 DEF ReportRefused, ReportLost, Crash, Shutdown, Poison
<1>7. CASE ReportTerminated(w) \/ Silence(w) \/ LingerEnds(w)
  BY <1>0, <1>7 DEF ReportTerminated, Silence, LingerEnds
<1> QED BY <1>1, <1>2, <1>3, <1>4, <1>5, <1>6, <1>7 DEF WorkerStep

\* Every step of a worker process preserves the invariant.
LEMMA WorkerStepInv ==
    ASSUME SystemInv, NEW w \in Workers, WorkerStep(w)
    PROVE  SystemOK
<1> USE DEF Goto, Dies, Returned, KeepProcs, procVars, Places, Holding
<1>0. /\ held[w] # NoJob <=> pc[w] \in Holding
      /\ pc[w] \in Places
      /\ held = [held EXCEPT ![w] = held[w]]
  BY DEF SystemInv, ProcsOK
<1>1. StoreStep
  BY StepCalls, WorkerCalls
<1>a. held' = held \/ held' = [held EXCEPT ![w] = NoJob] => BeginsFresh
  BY DEF BeginsFresh, SystemInv, ProcsOK
<1>2. ASSUME UNCHANGED <<pc, held, begun>>
      PROVE  SystemOK
  BY <1>1, <1>2, <1>a, ProcsStay DEF SystemOK, StoreStep
<1>3. ASSUME NEW x \in Places \ {"recycle"}, pc' = [pc EXCEPT ![w] = x], begun' = begun,
             \/ held' = held /\ (pc[w] \in Holding <=> x \in Holding)
             \/ held' = [held EXCEPT ![w] = NoJob] /\ x \notin Holding
      PROVE  SystemOK
  <2> HIDE DEF Places, Holding
  <2> QED BY <1>0, <1>1, <1>3, <1>a, ProcMoves DEF SystemOK, StoreStep
<1>4. CASE StartWorker(w) \/ IdleHeartbeat(w)
  BY <1>3, <1>4 DEF StartWorker, IdleHeartbeat
<1>5. CASE PollClaims(w)
  BY <1>5, Claims
<1>6. CASE ShutdownDropsClaim(w) \/ Shutdown(w)
  BY <1>3, <1>6 DEF ShutdownDropsClaim, Shutdown
<1>7. CASE PollClaimLost(w) \/ StoppedHeartbeat(w) \/ RunHeartbeat(w) \/ RunProgress(w)
           \/ Silence(w) \/ Poison(w) \/ PersistAnswerLost(w) \/ PersistRetry(w)
  BY <1>2, <1>7 DEF PollClaimLost, StoppedHeartbeat, RunHeartbeat, RunProgress, Silence,
                    Poison, PersistAnswerLost, PersistRetry
<1>8. CASE ReportOutcome(w) \/ ReportRefused(w) \/ ReportLost(w)
  BY <1>3, <1>8 DEF ReportOutcome, ReportRefused, ReportLost, Computes
<1>9. CASE FinalHeartbeat(w) \/ ReportTerminated(w)
  BY <1>3, <1>9 DEF FinalHeartbeat, ReportTerminated
<1>10. CASE Crash(w)
  BY <1>3, <1>10 DEF Crash
<1>11. CASE ShutdownCancels(w) \/ OfflineHeartbeat(w) \/ LingerEnds(w)
  <2>1. CASE ShutdownCancels(w)
    BY <1>3, <2>1 DEF ShutdownCancels
  <2>2. CASE OfflineHeartbeat(w) \/ LingerEnds(w)
    BY <1>0, <1>3, <2>2 DEF OfflineHeartbeat, LingerEnds
  <2> QED BY <1>11, <2>1, <2>2
<1>12. CASE PersistFailure(w)
  <2>1. CASE pc[w] = "run"
    <3>1. jobs'[held[w]].status = "failed"
      <4>1. held[w] \in Rows /\ jobs[held[w]] \in Row
        BY <1>0, <2>1, RowFacts DEF SystemInv, ExecutesOwnJob
      <4> QED BY <1>12, <4>1 DEF PersistFailure, UpdateJobProgress, UpdateRows, Recorded,
                                 vars, Row
    <3>2. /\ pc' = [pc EXCEPT ![w] = "recycle"] /\ held' = [held EXCEPT ![w] = held[w]]
          /\ held[w] # NoJob /\ "recycle" \in Places /\ "recycle" \in Holding
          /\ begun' = begun /\ held' = held
      BY <1>0, <1>12, <2>1 DEF PersistFailure
    <3> HIDE DEF Places, Holding
    <3> QED BY <1>1, <1>a, <3>1, <3>2, ProcMoves DEF SystemOK, StoreStep
  <2>2. CASE pc[w] = "stopping"
    BY <1>3, <1>12, <2>2 DEF PersistFailure
  <2> QED BY <1>12, <2>1, <2>2 DEF PersistFailure, Persists
<1>13. CASE PersistStop(w) \/ Recycle(w)
  BY <1>3, <1>13 DEF PersistStop, Recycle
<1> QED BY <1>4, <1>5, <1>6, <1>7, <1>8, <1>9, <1>10, <1>11, <1>12, <1>13 DEF WorkerStep

\* The steps of the API process and of the clients move no process.
LEMMA ApiStepInv ==
    ASSUME SystemInv, Sweep \/ RestartApi \/ Client \/ UNCHANGED sysVars
    PROVE  SystemOK
<1>1. ApiCall
  BY DEF Sweep, RestartApi, Client, ApiCall, sysVars, vars
<1>2. UNCHANGED <<pc, held, begun>>
  BY DEF Sweep, RestartApi, Client, KeepProcs, procVars, sysVars
<1> QED BY <1>1, <1>2, ApiCalls, ProcsStay DEF SystemOK, StoreStep, BeginsFresh

\* No process runs at first.
LEMMA SystemInitInv == SystemInit => SystemInv
<1> SUFFICES ASSUME SystemInit PROVE SystemInv
  OBVIOUS
<1>1. IInv
  BY InitInv DEF SystemInit
<1>2. /\ pc = [w \in Workers |-> "down"] /\ held = [w \in Workers |-> NoJob]
      /\ "down" \in Places /\ "down" \notin Holding /\ "down" # "recycle"
  BY DEF SystemInit, Places, Holding
<1>3. ProcsOK
  BY <1>2 DEF ProcsOK
<1>4. ExecutesOwnJob /\ HeldOnce /\ RecycleAfterFailure /\ BegunLeft
  BY <1>2 DEF ExecutesOwnJob, HeldOnce, RecycleAfterFailure, BegunLeft, SystemInit
<1> QED BY <1>1, <1>3, <1>4 DEF SystemInv

\* The inductive step, for the processes and for the store below them.
LEMMA SystemNextInv == SystemInv /\ [SystemNext]_sysVars => SystemOK
BY WorkerStepInv, ApiStepInv DEF SystemNext

\* The inductive invariant holds in every reachable state of the system.
LEMMA SystemInvHolds == SystemSpec => []SystemInv
<1>1. SystemInv /\ [SystemNext]_sysVars => SystemInv'
  BY SystemNextInv DEF SystemOK
<1> QED BY <1>1, SystemInitInv, PTL DEF SystemSpec

\* What a process executes was claimed for it and is still its own, or is settled:
\* no sweep, restart, cancel, lost answer or second claim hands a job that is being
\* executed to another worker or back to the queue, however many workers there are.
THEOREM ProcessOwnsItsJob == SystemSpec => []ExecutesOwnJob
<1>1. SystemInv => ExecutesOwnJob
  BY DEF SystemInv
<1> QED BY <1>1, SystemInvHolds, PTL

\* No job's execution ever begins a second time, in the same process, in a later one
\* of the same worker id or in another worker's: a job leaves the queue for good
\* when it is claimed, and only a claim puts a job into the hands of a process.
THEOREM NoJobTwice == SystemSpec => ExecutedOnce
<1>1. SystemInv /\ [SystemNext]_sysVars => [BeginsFresh]_sysVars
  BY SystemNextInv DEF SystemOK
<1> QED BY <1>1, SystemInvHolds, PTL DEF SystemSpec, ExecutedOnce, BeginsFresh

\* A poisoned process only recycles, which nobody reports, once the failure of its
\* job is on record, whatever reports and answers were lost before.
THEOREM FailureRecordedFirst == SystemSpec => []RecycleAfterFailure
<1>1. SystemInv => RecycleAfterFailure
  BY DEF SystemInv
<1> QED BY <1>1, SystemInvHolds, PTL

\* The processes, the supervisor and the API together implement JobLifecycle: every
\* step submits one job, starts one on a device nobody holds, or ends some, also
\* where a call is executed and its answer lost.
THEOREM SystemRefinement == SystemSpec => RefinesLifecycle
<1>1. SystemInit => Life!Init
  BY SMTT(30) DEF SystemInit, Init, Life!Init, Life!Idle, LifeOf, LifeRow, Rows, JobIds
<1>2. SystemInv /\ [SystemNext]_sysVars => [Life!Next]_([j \in JobIds |-> LifeOf(j)])
  BY SystemNextInv DEF SystemOK, StepOK
<1> QED BY <1>1, <1>2, SystemInvHolds, PTL DEF SystemSpec, RefinesLifecycle, Life!Spec

-----------------------------------------------------------------------------
(* Devices *)

\* A call for w leaves the rows of the other workers alone, and every active job
\* that is not w's: an idle heartbeat only interrupts what the row of w named.
LEMMA CallFrame ==
    ASSUME SystemInv, CurrentOwned, NEW w \in Workers, WorkerCall(w)
    PROVE  /\ \A v \in Registered \ {w} : v \in Registered' /\ workers'[v] = workers[v]
           /\ Registered' \subseteq Registered \cup {w}
           /\ \A j \in Rows : IsActive(jobs[j]) /\ jobs[j].worker # w => jobs'[j] = jobs[j]
<1>0. Registered = DOMAIN workers /\ Rows = DOMAIN jobs
  BY DEF Registered, Rows
<1>1. CASE RegisterWorker(w)
  BY <1>0, <1>1 DEF RegisterWorker, Registered
<1>2. CASE SilencePasses(w)
  BY <1>0, <1>2 DEF SilencePasses, Registered
<1>3. CASE ClaimNextJob(w)
  <2>1. PICK j \in Rows :
        /\ IsQueued(jobs[j])
        /\ jobs' = [jobs EXCEPT ![j].status = "preparing", ![j].worker = w,
                                ![j].gpu = IF NonGpu(jobs[j]) THEN CpuGpu ELSE GpuOf[w]]
        /\ workers' = [workers EXCEPT ![w].status = "busy", ![w].current = j,
                                      ![w].seen = TRUE]
    BY <1>3 DEF ClaimNextJob, Claimable, Rows
  <2>2. \A i \in Rows : IsActive(jobs[i]) => i # j
    BY <2>1 DEF IsActive, IsQueued
  <2> QED BY <1>0, <2>1, <2>2 DEF Registered
<1>4. CASE FailWorkerJobTerminated(w)
  BY <1>0, <1>4 DEF FailWorkerJobTerminated, UpdateRows, UpdateWorkers, Registered
<1>5. ASSUME NEW status \in WorkerStatuses, NEW current \in {NoJob, held[w]},
             HeartbeatWorker(w, status, current)
      PROVE  /\ \A v \in Registered \ {w} : v \in Registered' /\ workers'[v] = workers[v]
             /\ Registered' \subseteq Registered \cup {w}
             /\ \A j \in Rows : IsActive(jobs[j]) /\ jobs[j].worker # w => jobs'[j] = jobs[j]
  <2>1. /\ \A v \in Registered \ {w} : v \in Registered' /\ workers'[v] = workers[v]
        /\ Registered' \subseteq Registered \cup {w}
    BY <1>0, <1>5 DEF HeartbeatWorker, Registered
  <2>2. w \in Registered /\ jobs' = HeartbeatJobs(w, current)
    BY <1>5 DEF HeartbeatWorker, HeartbeatAccepted
  <2>3. ASSUME NEW j \in Rows, IsActive(jobs[j]), jobs[j].worker # w
        PROVE  jobs'[j] = jobs[j]
    <3>1. workers[w].current # NoJob => workers[w].current # j
      BY <2>2, <2>3 DEF CurrentOwned
    <3>2. j # NoJob
      BY SMTT(30), RoutingAssumption DEF SystemInv, IInv, TypeOK, Rows, JobIds
    <3> QED BY <2>2, <2>3, <3>1, <3>2 DEF HeartbeatJobs, UpdateRows
  <2> QED BY <2>1, <2>3
<1>6. ASSUME NEW status \in ActiveStatuses \cup TerminalStatuses, held[w] # NoJob,
             UpdateJobProgress(w, held[w], status)
      PROVE  /\ \A v \in Registered \ {w} : v \in Registered' /\ workers'[v] = workers[v]
             /\ Registered' \subseteq Registered \cup {w}
             /\ \A j \in Rows : IsActive(jobs[j]) /\ jobs[j].worker # w => jobs'[j] = jobs[j]
  BY <1>0, <1>6 DEF UpdateJobProgress, UpdateRows, UpdateWorkers, Registered
<1>7. CASE UNCHANGED vars
  BY <1>0, <1>7 DEF vars, Registered
<1> QED BY <1>1, <1>2, <1>3, <1>4, <1>5, <1>6, <1>7 DEF WorkerCall

\* The job a call leaves in the row of w: what it named before, none, what its
\* process executes, or what was just claimed for it.
LEMMA CallCurrent ==
    ASSUME SystemInv, NEW w \in Workers, WorkerCall(w), w \in Registered'
    PROVE  LET c == workers'[w].current
           IN  \/ c = NoJob \/ c = held[w]
               \/ w \in Registered /\ c = workers[w].current
               \/ c \in Rows' /\ IsActive(jobs'[c]) /\ jobs'[c].worker = w
<1> DEFINE c == workers'[w].current
<1>0. Registered = DOMAIN workers /\ Rows = DOMAIN jobs
  BY DEF Registered, Rows
<1>a. ASSUME w \in Registered PROVE workers[w] \in WorkerRow
  BY <1>a DEF SystemInv, IInv, TypeOK, Registered
<1>1. CASE RegisterWorker(w)
  BY SMTT(30), <1>0, <1>1 DEF RegisterWorker, Registered
<1>2. CASE SilencePasses(w)
  BY <1>0, <1>a, <1>2 DEF SilencePasses, Registered, WorkerRow
<1>3. CASE ClaimNextJob(w)
  <2>1. PICK j \in Rows :
        /\ w \in Registered
        /\ jobs' = [jobs EXCEPT ![j].status = "preparing", ![j].worker = w,
                                ![j].gpu = IF NonGpu(jobs[j]) THEN CpuGpu ELSE GpuOf[w]]
        /\ workers' = [workers EXCEPT ![w].status = "busy", ![w].current = j,
                                      ![w].seen = TRUE]
    BY <1>3 DEF ClaimNextJob, Claimable, Rows
  <2>2. c = j
    BY <1>0, <1>a, <2>1 DEF WorkerRow
  <2>3. jobs[j] \in Row
    BY RowFacts DEF SystemInv
  <2>4. j \in Rows' /\ IsActive(jobs'[j]) /\ jobs'[j].worker = w
    BY <2>1, <2>3 DEF Rows, Row, IsActive
  <2> QED BY <2>2, <2>4
<1>4. CASE FailWorkerJobTerminated(w)
  <2>1. w \in Registered /\ workers'[w] = OfflineNow(workers[w])
    BY <1>4 DEF FailWorkerJobTerminated, UpdateWorkers, Registered
  <2> QED BY <1>a, <2>1 DEF OfflineNow, WorkerRow
<1>5. ASSUME NEW status \in WorkerStatuses, NEW current \in {NoJob, held[w]},
             HeartbeatWorker(w, status, current)
      PROVE  c = NoJob \/ c = held[w]
  BY SMTT(30), <1>0, <1>5 DEF HeartbeatWorker, HeartbeatAccepted
<1>6. ASSUME NEW status \in ActiveStatuses \cup TerminalStatuses, held[w] # NoJob,
             UpdateJobProgress(w, held[w], status)
      PROVE  c = NoJob \/ (w \in Registered /\ c = workers[w].current)
  <2>1. w \in Registered
    BY <1>6 DEF UpdateJobProgress, UpdateWorkers, Registered
  <2> QED BY <1>a, <1>6, <2>1 DEF UpdateJobProgress, UpdateWorkers, WorkerRow
<1>7. CASE UNCHANGED vars
  BY <1>7 DEF vars, Registered
<1> QED BY <1>1, <1>2, <1>3, <1>4, <1>5, <1>6, <1>7 DEF WorkerCall

\* A row named by a worker row, or by a process, is still its own after a legal step.
LEMMA NamedKept ==
    ASSUME IInv, StoreStep, NEW v \in Workers, NEW c,
           c # NoJob => /\ c \in Rows /\ ~IsPending(jobs[c])
                        /\ IsActive(jobs[c]) => jobs[c].worker = v
    PROVE  c # NoJob => /\ c \in Rows' /\ ~IsPending(jobs'[c])
                        /\ IsActive(jobs'[c]) => jobs'[c].worker = v
<1> SUFFICES ASSUME c # NoJob
             PROVE  /\ c \in Rows' /\ ~IsPending(jobs'[c])
                    /\ IsActive(jobs'[c]) => jobs'[c].worker = v
  OBVIOUS
<1>1. jobs[c] \in Row
  BY RowFacts
<1>2. IsTerminal(jobs[c]) \/ (IsActive(jobs[c]) /\ jobs[c].worker = v)
  BY <1>1 DEF Row, IsActive, IsPending, IsTerminal
<1>3. /\ c \in Rows'
      /\ IsTerminal(jobs'[c]) \/ (IsActive(jobs'[c]) /\ jobs'[c].worker = v)
  BY <1>2, OwnKept
<1> QED BY <1>3 DEF IsActive, IsPending, IsTerminal

LEMMA CurrentKept ==
    ASSUME SystemInv, CurrentOwned, NEW w \in Workers, WorkerCall(w)
    PROVE  CurrentOwned'
<1>0. StoreStep /\ IInv
  BY WorkerCalls DEF SystemInv
<1>a. \A v \in Registered : v \in Workers
  BY DEF SystemInv, IInv, TypeOK, Registered
<1>1. ASSUME NEW v \in Registered', workers'[v].current # NoJob
      PROVE  /\ workers'[v].current \in Rows' /\ ~IsPending(jobs'[workers'[v].current])
             /\ IsActive(jobs'[workers'[v].current]) => jobs'[workers'[v].current].worker = v
  <2> DEFINE c == workers'[v].current
  <2>1. ASSUME v \in Registered, c = workers[v].current
        PROVE  /\ c \in Rows' /\ ~IsPending(jobs'[c])
               /\ IsActive(jobs'[c]) => jobs'[c].worker = v
    <3>1. /\ c \in Rows /\ ~IsPending(jobs[c])
          /\ IsActive(jobs[c]) => jobs[c].worker = v
      BY <1>1, <2>1 DEF CurrentOwned
    <3> HIDE DEF c
    <3> QED BY <1>0, <1>1, <1>a, <2>1, <3>1, NamedKept DEF c
  <2>2. CASE v # w
    BY <1>1, <2>1, <2>2, CallFrame
  <2>3. CASE v = w
    <3>1. CASE c = held[w]
      <4>1. /\ c \in Rows /\ ~IsPending(jobs[c])
            /\ IsActive(jobs[c]) => jobs[c].worker = v
        BY <1>1, <2>3, <3>1 DEF SystemInv, ExecutesOwnJob, IsTerminal, IsPending, IsActive
      <4> HIDE DEF c
      <4> QED BY <1>0, <1>1, <2>3, <4>1, NamedKept DEF c
    <3>2. CASE c \in Rows' /\ IsActive(jobs'[c]) /\ jobs'[c].worker = w
      BY <2>3, <3>2 DEF IsActive, IsPending
    <3> QED BY <1>1, <2>1, <2>3, <3>1, <3>2, CallCurrent
  <2> QED BY <2>2, <2>3
<1> QED BY <1>1 DEF CurrentOwned

\* A process that computes, and that has no part in a call, is proven still.
LEMMA OtherProven ==
    ASSUME SystemInv, CurrentOwned, NEW w \in Workers, WorkerCall(w),
           NEW v \in Workers \ {w}, Computes(v), Proven(v), held'[v] = held[v]
    PROVE  Proven(v)'
<1>1. held[v] \in Rows
  BY DEF Computes, SystemInv, ProcsOK, ExecutesOwnJob, Holding
<1>2. v \in Registered' /\ workers'[v] = workers[v] /\ jobs'[held[v]] = jobs[held[v]]
  BY <1>1, CallFrame DEF Proven
<1> QED BY <1>2 DEF Proven

\* A step of w preserves the device invariant if it does so for w itself.
LEMMA DeviceMoves ==
    ASSUME DeviceInv, SystemInv', NEW w \in Workers, WorkerCall(w),
           \A v \in Workers \ {w} :
               pc'[v] = pc[v] /\ held'[v] = held[v] /\ (v \in poisoned' <=> v \in poisoned),
           Computes(w)' => Proven(w)'
    PROVE  DeviceInv'
<1>1. CurrentOwned'
  BY CurrentKept DEF DeviceInv
<1>2. ASSUME NEW v \in Workers, Computes(v)' PROVE Proven(v)'
  <2>1. CASE v = w
    BY <1>2, <2>1
  <2>2. CASE v # w
    <3>1. Computes(v)
      BY <1>2, <2>2 DEF Computes
    <3>2. Proven(v)
      BY <3>1 DEF DeviceInv, ComputesProven
    <3> QED BY <2>2, <3>1, <3>2, OtherProven DEF DeviceInv
  <2> QED BY <2>1, <2>2
<1> QED BY <1>1, <1>2 DEF DeviceInv, ComputesProven

\* After a step of w that lets it compute, the tables prove it: the claim, the
\* heartbeats and the progress reports of a job that is its own.
LEMMA OwnProven ==
    ASSUME DeviceInv, "beat" \notin Lossy, NEW w \in Workers, WorkerStep(w), Computes(w)'
    PROVE  Proven(w)'
<1> USE DEF Goto, Dies, Returned, KeepProcs, procVars
<1>0. /\ DOMAIN pc = Workers /\ DOMAIN held = Workers
      /\ Registered = DOMAIN workers /\ Rows = DOMAIN jobs
  BY DEF DeviceInv, SystemInv, ProcsOK, Registered, Rows
<1>a. ASSUME w \in Registered PROVE workers[w] \in WorkerRow
  BY <1>a DEF DeviceInv, SystemInv, IInv, TypeOK, Registered
<1>b. ASSUME Computes(w)
      PROVE  Proven(w) /\ held[w] \in Rows /\ held[w] # NoJob /\ jobs[held[w]] \in Row
  <2>1. held[w] # NoJob /\ held[w] \in Rows
    BY <1>b DEF DeviceInv, SystemInv, ProcsOK, Holding, Computes, ExecutesOwnJob
  <2> QED BY <1>b, <2>1, RowFacts DEF DeviceInv, SystemInv, ComputesProven
<1>1. CASE PollClaims(w)
  <2>1. PICK j \in Rows :
        /\ w \in Registered
        /\ jobs' = [jobs EXCEPT ![j].status = "preparing", ![j].worker = w,
                                ![j].gpu = IF NonGpu(jobs[j]) THEN CpuGpu ELSE GpuOf[w]]
        /\ workers' = [workers EXCEPT ![w].status = "busy", ![w].current = j,
                                      ![w].seen = TRUE]
    BY <1>1 DEF PollClaims, ClaimNextJob, Claimable, Rows
  <2>2. jobs[j] \in Row
    BY RowFacts DEF DeviceInv, SystemInv
  <2>3. /\ w \in Registered' /\ workers'[w].status = "busy" /\ workers'[w].current = j
        /\ workers'[w].seen
    BY <1>0, <1>a, <2>1 DEF WorkerRow, Registered
  <2>4. held'[w] = j
    BY <1>0, <1>1, <2>3 DEF PollClaims
  <2>5. IsActive(jobs'[j]) /\ jobs'[j].worker = w
    BY <2>1, <2>2 DEF Rows, Row, IsActive
  <2> QED BY <2>3, <2>4, <2>5 DEF Proven
<1>2. CASE RunHeartbeat(w)
  <2>1. /\ Proven(w) /\ held[w] \in Rows /\ held[w] # NoJob /\ jobs[held[w]] \in Row
        /\ HeartbeatWorker(w, "busy", held[w]) /\ held' = held
    BY <1>2, <1>b DEF RunHeartbeat
  <2>2. jobs'[held[w]] = [jobs[held[w]] EXCEPT !.beat = TRUE]
    BY <2>1 DEF HeartbeatWorker, HeartbeatJobs, UpdateRows, Proven
  <2>3. /\ w \in Registered' /\ workers'[w].status = "busy" /\ workers'[w].current = held[w]
        /\ workers'[w].seen
    BY SMTT(30), <1>0, <2>1 DEF HeartbeatWorker, HeartbeatAccepted, Registered
  <2>4. IsActive(jobs'[held[w]]) /\ jobs'[held[w]].worker = w
    BY SMTT(30), <2>1, <2>2 DEF Proven, Row, IsActive
  <2> QED BY <2>1, <2>3, <2>4 DEF Proven
<1>3. CASE RunProgress(w)
  <2>1. /\ Proven(w) /\ held[w] \in Rows /\ jobs[held[w]] \in Row
        /\ UpdateJobProgress(w, held[w], "running") /\ held' = held
    BY <1>3, <1>b DEF RunProgress
  <2>2. workers' = workers
    BY <2>1 DEF UpdateJobProgress
  <2>3. IsActive(jobs'[held[w]]) /\ jobs'[held[w]].worker = w
    BY <2>1 DEF UpdateJobProgress, UpdateRows, Row, IsActive
  <2> QED BY <2>1, <2>2, <2>3 DEF Proven, Registered
<1>4. CASE Shutdown(w)
  <2>1. Computes(w) /\ UNCHANGED <<vars, held>>
    BY <1>0, <1>4 DEF Shutdown, Computes
  <2> QED BY <1>b, <2>1 DEF Proven, vars, Registered
<1>5. CASE StartWorker(w) \/ PollClaimLost(w) \/ ShutdownDropsClaim(w) \/ IdleHeartbeat(w)
           \/ FinalHeartbeat(w) \/ StoppedHeartbeat(w) \/ OfflineHeartbeat(w)
  BY <1>0, <1>5 DEF StartWorker, PollClaimLost, ShutdownDropsClaim, IdleHeartbeat,
                    FinalHeartbeat, StoppedHeartbeat, OfflineHeartbeat, Computes
<1>6. CASE ReportOutcome(w) \/ ReportRefused(w) \/ ReportLost(w) \/ Crash(w)
           \/ ReportTerminated(w) \/ ShutdownCancels(w) \/ LingerEnds(w) \/ Silence(w)
  BY <1>0, <1>6 DEF ReportOutcome, ReportRefused, ReportLost, Crash, ReportTerminated,
                    ShutdownCancels, LingerEnds, Silence, Computes
<1>7. CASE Poison(w) \/ PersistFailure(w) \/ PersistAnswerLost(w) \/ PersistRetry(w)
           \/ PersistStop(w) \/ Recycle(w)
  BY <1>0, <1>7 DEF Poison, PersistFailure, PersistAnswerLost, PersistRetry, PersistStop,
                    Recycle, Persists, Computes
<1> QED BY <1>1, <1>2, <1>3, <1>4, <1>5, <1>6, <1>7 DEF WorkerStep

LEMMA WorkerStepDevice ==
    ASSUME DeviceInv, "beat" \notin Lossy, NEW w \in Workers, WorkerStep(w)
    PROVE  DeviceInv'
<1>1. SystemInv' /\ WorkerCall(w)
  BY WorkerStepInv, StepCalls DEF SystemOK, DeviceInv
<1>2. \A v \in Workers \ {w} :
            pc'[v] = pc[v] /\ held'[v] = held[v] /\ (v \in poisoned' <=> v \in poisoned)
  BY StepFrame DEF DeviceInv
<1> QED BY <1>1, <1>2, OwnProven, DeviceMoves

\* The API's own steps and the clients' requests leave alone the worker row and the
\* job of a process the tables prove, but for the job's cancel flag and routing
\* facts; and they only ever clear the job another worker row names.
LEMMA ApiFrame ==
    ASSUME IInv, ApiCall
    PROVE  /\ Registered' = Registered
           /\ \A v \in Registered :
                \/ workers'[v] = workers[v]
                \/ workers'[v].current = NoJob
           /\ \A v \in Workers : held[v] \in Rows /\ Proven(v) =>
                /\ workers'[v] = workers[v]
                /\ IsActive(jobs'[held[v]]) /\ jobs'[held[v]].worker = v
<1>0. /\ \A v \in Registered : workers[v] \in WorkerRow
      /\ \A j \in Rows : jobs[j] \in Row
  BY RowFacts DEF IInv, TypeOK, Registered
<1>1. CASE SweepStaleWorkers
  <2>1. /\ workers' = UpdateWorkers(StaleWorkers, OfflineNow)
        /\ jobs' = UpdateRows({j \in Rows : IsActive(jobs[j]) /\ jobs[j].worker \in StaleWorkers},
                              Interrupted)
    BY <1>1 DEF SweepStaleWorkers
  <2>2. \A v \in Registered : OfflineNow(workers[v]).current = NoJob
    BY <1>0 DEF OfflineNow, WorkerRow
  <2>3. \A v \in Workers : Proven(v) => v \in Registered /\ v \notin StaleWorkers
    BY DEF Proven, StaleWorkers
  <2>4. Registered' = Registered
    BY <2>1 DEF UpdateWorkers, Registered
  <2>5. \A v \in Registered : workers'[v] = workers[v] \/ workers'[v].current = NoJob
    BY <2>1, <2>2 DEF UpdateWorkers
  <2>6. ASSUME NEW v \in Workers, held[v] \in Rows, Proven(v)
        PROVE  workers'[v] = workers[v] /\ jobs'[held[v]] = jobs[held[v]]
    BY <2>1, <2>3, <2>6 DEF UpdateWorkers, UpdateRows, Proven
  <2> QED BY <2>4, <2>5, <2>6 DEF Proven
<1>2. CASE Startup({})
  <2> DEFINE settle(j) ==
               LET r == [jobs[j] EXCEPT !.facts = TRUE]
               IN  IF IsActive(r) /\ ~ProvenOwner(j) THEN Interrupted(r)
                   ELSE IF r.status = "pending_caption" THEN Enqueued(r)
                   ELSE r
             exact(w) == \E j \in Rows : /\ workers[w].current = j
                                         /\ jobs[j].worker = w
                                         /\ IsActive(jobs[j])
                                         /\ ProvenOwner(j)
             lost == {w \in Registered : workers[w].status # "offline" /\ ~exact(w)}
  <2>1. jobs' = [j \in Rows \ {} |-> settle(j)] /\ workers' = UpdateWorkers(lost, Offline)
    BY <1>2 DEF Startup
  <2>2. \A v \in Registered : Offline(workers[v]).current = NoJob
    BY <1>0 DEF Offline, WorkerRow
  <2>3. ASSUME NEW v \in Workers, held[v] \in Rows, Proven(v)
        PROVE  v \in Registered /\ v \notin lost /\ ProvenOwner(held[v])
    BY <2>3 DEF Proven, ProvenOwner
  <2>4. ASSUME NEW v \in Workers, held[v] \in Rows, Proven(v)
        PROVE  settle(held[v]) = [jobs[held[v]] EXCEPT !.facts = TRUE]
    BY SMTT(30), <1>0, <2>3, <2>4 DEF Proven, IsActive, Row
  <2> HIDE DEF settle, lost
  <2>5. Registered' = Registered
    BY <2>1 DEF UpdateWorkers, Registered
  <2>6. \A v \in Registered : workers'[v] = workers[v] \/ workers'[v].current = NoJob
    BY <2>1, <2>2 DEF UpdateWorkers
  <2>7. ASSUME NEW v \in Workers, held[v] \in Rows, Proven(v)
        PROVE  /\ workers'[v] = workers[v]
               /\ IsActive(jobs'[held[v]]) /\ jobs'[held[v]].worker = v
    <3>1. workers'[v] = workers[v] /\ jobs'[held[v]] = [jobs[held[v]] EXCEPT !.facts = TRUE]
      BY <2>1, <2>3, <2>4, <2>7 DEF UpdateWorkers
    <3> QED BY <1>0, <2>7, <3>1 DEF Proven, Row, IsActive
  <2> QED BY <2>5, <2>6, <2>7
<1>3. ASSUME NEW shape \in Shapes, NEW requested \in Requests,
             CreateJob(shape, requested, "queued")
      PROVE  workers' = workers /\ \A j \in Rows : jobs'[j] = jobs[j]
  <2>1. \A j \in Rows : j # nextRow
    BY SMTT(30) DEF IInv, TypeOK, Rows
  <2> QED BY <1>3, <2>1 DEF CreateJob, Insert
<1>4. ASSUME NEW j \in Rows, CancelJob(j)
      PROVE  /\ workers' = workers
             /\ \A i \in Rows : IsActive(jobs[i]) =>
                    IsActive(jobs'[i]) /\ jobs'[i].worker = jobs[i].worker
  <2>1. jobs' = UpdateRows({j}, LAMBDA r : IF IsPending(r) THEN CanceledPending(r)
                                           ELSE [r EXCEPT !.cancel = TRUE])
    BY <1>4 DEF CancelJob
  <2>2. ASSUME NEW i \in Rows, IsActive(jobs[i])
        PROVE  IsActive(jobs'[i]) /\ jobs'[i].worker = jobs[i].worker
    <3>1. jobs'[i] = [jobs[i] EXCEPT !.cancel = TRUE] \/ jobs'[i] = jobs[i]
      BY <2>1, <2>2 DEF UpdateRows, IsActive, IsPending
    <3> QED BY <1>0, <2>2, <3>1 DEF Row, IsActive
  <2> QED BY <1>4, <2>2 DEF CancelJob
<1>5. CASE UNCHANGED vars
  BY <1>5 DEF vars, Registered, Proven
<1> QED BY <1>1, <1>2, <1>3, <1>4, <1>5 DEF ApiCall, Registered, Proven

LEMMA ApiStepDevice ==
    ASSUME DeviceInv, Sweep \/ RestartApi \/ Client \/ UNCHANGED sysVars
    PROVE  DeviceInv'
<1>0. /\ ApiCall /\ UNCHANGED <<pc, held, poisoned>>
      /\ SystemInv /\ IInv /\ CurrentOwned /\ ComputesProven
  BY DEF Sweep, RestartApi, Client, ApiCall, sysVars, vars, KeepProcs, procVars, DeviceInv,
         SystemInv
<1>1. SystemInv'
  BY <1>0, ApiStepInv DEF SystemOK
<1>2. StoreStep
  BY <1>0, ApiCalls
<1>3. ASSUME NEW v \in Registered', workers'[v].current # NoJob
      PROVE  /\ workers'[v].current \in Rows' /\ ~IsPending(jobs'[workers'[v].current])
             /\ IsActive(jobs'[workers'[v].current]) => jobs'[workers'[v].current].worker = v
  <2>1. v \in Registered /\ workers'[v] = workers[v] /\ v \in Workers
    BY <1>0, <1>3, ApiFrame DEF IInv, TypeOK, Registered
  <2> DEFINE c == workers[v].current
  <2>2. /\ c \in Rows /\ ~IsPending(jobs[c])
        /\ IsActive(jobs[c]) => jobs[c].worker = v
    BY <1>0, <1>3, <2>1 DEF CurrentOwned
  <2>3. c # NoJob /\ c = workers'[v].current
    BY <1>3, <2>1
  <2> HIDE DEF c
  <2> QED BY <1>0, <1>2, <2>1, <2>2, <2>3, NamedKept
<1>4. ASSUME NEW v \in Workers, Computes(v)'
      PROVE  Proven(v)'
  <2>1. Computes(v) /\ Proven(v) /\ held'[v] = held[v]
    BY <1>0, <1>4 DEF Computes, ComputesProven
  <2>2. held[v] \in Rows
    BY <1>0, <2>1 DEF Computes, SystemInv, ProcsOK, Holding, ExecutesOwnJob
  <2> QED BY <1>0, <2>1, <2>2, ApiFrame DEF Proven
<1> QED BY <1>1, <1>3, <1>4 DEF DeviceInv, CurrentOwned, ComputesProven

\* A process computes only on what the tables say it owns, until the grace period of
\* its shutdown is over, and the table admits one owner per device.
LEMMA DeviceInvShares == DeviceInv => DeviceSharedByNone
<1> SUFFICES ASSUME DeviceInv, NEW v \in Workers, NEW w \in Workers, v # w,
                    Computes(v), Computes(w), ~NonGpu(jobs[held[v]]), ~NonGpu(jobs[held[w]]),
                    Device(GpuOf[v]) = Device(GpuOf[w])
             PROVE  FALSE
  BY DEF DeviceSharedByNone
<1>1. ASSUME NEW u \in {v, w}
      PROVE  held[u] # NoJob /\ held[u] \in Rows /\ Holds(jobs[held[u]], Device(GpuOf[u]))
  <2>1. held[u] # NoJob /\ held[u] \in Rows /\ Proven(u) /\ u \in Workers
    BY <1>1 DEF Computes, DeviceInv, ComputesProven, SystemInv, ProcsOK, Holding,
                ExecutesOwnJob
  <2>2. jobs[held[u]].gpu = GpuOf[u] /\ ~NonGpu(jobs[held[u]])
    BY <1>1, <2>1 DEF Proven, DeviceInv, SystemInv, IInv, Placed
  <2>3. GpuOf[u] # NoGpu
    BY <2>1, RoutingAssumption DEF Gpus
  <2> QED BY <2>1, <2>2, <2>3 DEF Holds, Proven
<1>2. Device(GpuOf[v]) \in Gpus
  BY DEF Device, Gpus
<1>3. held[v] = held[w]
  BY <1>1, <1>2 DEF DeviceInv, SystemInv, IInv, GpuExclusive
<1> QED BY <1>1, <1>3 DEF DeviceInv, SystemInv, HeldOnce

\* Two processes never compute on the same device, mlx and mps counting as one, as
\* long as periodic heartbeats get through and unless one of them is past the grace
\* period of its shutdown: neither a crash, a shutdown within its grace period, a
\* lost claim or report nor an API restart frees in the table a device on which a
\* process still works.
THEOREM DevicesNotShared ==
    ASSUME "beat" \notin Lossy
    PROVE  SystemSpec => []DeviceSharedByNone
<1>1. SystemInit => DeviceInv
  <2> SUFFICES ASSUME SystemInit PROVE CurrentOwned /\ ComputesProven
    BY SystemInitInv DEF DeviceInv
  <2>1. Registered = {} /\ \A w \in Workers : ~Computes(w)
    BY DEF SystemInit, Init, Registered, Computes
  <2> QED BY <2>1 DEF CurrentOwned, ComputesProven
<1>2. DeviceInv /\ [SystemNext]_sysVars => DeviceInv'
  BY WorkerStepDevice, ApiStepDevice DEF SystemNext
<1> QED BY <1>1, <1>2, DeviceInvShares, PTL DEF SystemSpec
=============================================================================
