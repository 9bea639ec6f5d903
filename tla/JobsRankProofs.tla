--------------------------- MODULE JobsRankProofs ----------------------------
(***************************************************************************)
(* Proofs about the queue ranks of JobsStore: every promotion, by hand or  *)
(* automatic, gets ranks of its own above all others, and a bulk promotion *)
(* keeps the order of what it promotes.                                    *)
(***************************************************************************)
EXTENDS JobsStoreProofs, FiniteSetTheorems

\* Ranks are bounded, so that the greatest exists.
Ranked == \A j \in Rows : jobs[j].rank \in 0 .. MaxRank

\* The inductive invariant.
RankInv == IInv /\ Ranked /\ PromotedRanksDistinct

USE DEF ActiveStatuses, TerminalStatuses, PendingStatuses, JobStatuses, WorkerStatuses

\* A bounded set of naturals has a greatest element: its least upper bound.
LEMMA Greatest ==
    ASSUME NEW n \in Nat, NEW S \in SUBSET (0 .. n), S # {}
    PROVE  \E m \in S : \A k \in S : k <= m
<1> DEFINE B == {b \in Nat : \A k \in S : k <= b}
<1>1. PICK x \in B : \A y \in B : ~(<<y, x>> \in OpToRel(<, Nat))
  <2>1. n \in B /\ B \subseteq Nat
    OBVIOUS
  <2> HIDE DEF B
  <2> QED BY ZenonT(30), <2>1, WFMin, NatLessThanWellFounded
<1>2. \A y \in B : ~(y < x)
  BY ZenonT(30), <1>1 DEF OpToRel
<1>3. CASE x \in S
  BY <1>3
<1>4. CASE x \notin S
  <2>1. \A k \in S : k \in Nat /\ k <= x - 1
    BY <1>4
  <2>2. PICK k \in S : TRUE
    BY ZenonT(30)
  <2>3. x - 1 \in Nat
    BY <2>1, <2>2
  <2>4. x - 1 \in B
    BY <2>1, <2>3
  <2> QED BY SMTT(30), <1>2, <2>4
<1> QED BY <1>3, <1>4

\* select coalesce(max(queue_rank), 0) bounds the rank of every row.
LEMMA MaxRankFacts ==
    ASSUME RankInv
    PROVE  CurrentMaxRank \in Nat /\ \A j \in Rows : jobs[j].rank <= CurrentMaxRank
<1> DEFINE ranks == {0} \cup {jobs[j].rank : j \in Rows}
<1>1. ranks \in SUBSET (0 .. MaxRank) /\ ranks # {} /\ MaxRank \in Nat
  BY StoreAssumption DEF RankInv, Ranked
<1>2. \A j \in Rows : jobs[j].rank \in ranks
  OBVIOUS
<1>3. CurrentMaxRank = CHOOSE m \in ranks : \A n \in ranks : n <= m
  BY DEF CurrentMaxRank
<1> HIDE DEF ranks
<1>4. \E m \in ranks : \A n \in ranks : n <= m
  BY ZenonT(30), <1>1, Greatest
<1>5. CurrentMaxRank \in ranks /\ \A n \in ranks : n <= CurrentMaxRank
  BY <1>3, <1>4
<1>6. CurrentMaxRank \in Nat
  BY <1>1, <1>5
<1> QED BY ZenonT(30), <1>2, <1>5, <1>6

-----------------------------------------------------------------------------
(* Bulk promotion *)

\* The order of prioritize_jobs is total and strict, because ids are unique.
LEMMA PriorityOrder ==
    ASSUME RankInv
    PROVE  /\ \A i, j \in Rows : i # j => PriorityBefore(i, j) \/ PriorityBefore(j, i)
           /\ \A i, j \in Rows : ~(PriorityBefore(i, j) /\ PriorityBefore(j, i))
           /\ \A i, j, k \in Rows :
                PriorityBefore(i, j) /\ PriorityBefore(j, k) => PriorityBefore(i, k)
<1>1. /\ \A j \in Rows : jobs[j].rank \in Nat /\ CreatedAt[j] \in Nat /\ IdRank[j] \in Nat
      /\ \A i, j \in Rows : IdRank[i] = IdRank[j] => i = j
  BY RoutingAssumption DEF RankInv, Ranked, IInv, TypeOK, Rows, JobIds
<1> QED BY <1>1 DEF PriorityBefore

\* Every selected row gets a rank above all ranks of the table, and of two selected
\* rows the one that came first the higher.
LEMMA PriorityRanks ==
    ASSUME RankInv, NEW S \in SUBSET Rows, PrioritizeJobs(S),
           NEW sel, sel = {j \in S : IsPending(jobs[j])}
    PROVE  /\ Rows' = Rows
           /\ \A j \in Rows \ sel : jobs'[j] = jobs[j]
           /\ \A j \in sel : jobs'[j].rank \in 0 .. MaxRank /\ jobs'[j].rank > CurrentMaxRank
           /\ \A i, j \in sel : PriorityBefore(i, j) => jobs'[i].rank > jobs'[j].rank
<1> DEFINE notBefore(j) == {i \in sel : i = j \/ PriorityBefore(j, i)}
           rank == [j \in sel |-> CurrentMaxRank + Cardinality(notBefore(j))]
<1>1. /\ sel \in SUBSET Rows /\ rank \in [sel -> 0 .. MaxRank]
      /\ jobs' = [j \in Rows |-> IF j \in sel THEN [jobs[j] EXCEPT !.rank = rank[j]]
                                 ELSE jobs[j]]
  <2>1. sel = {j \in S \cap Rows : IsPending(jobs[j])}
    OBVIOUS
  <2> QED BY <2>1 DEF PrioritizeJobs
<1>2. \A j \in sel : jobs'[j].rank = CurrentMaxRank + Cardinality(notBefore(j))
  <2>1. \A j \in sel : jobs[j] \in Row
    BY <1>1, RowFacts DEF RankInv
  <2>2. \A j \in sel : rank[j] = CurrentMaxRank + Cardinality(notBefore(j))
    OBVIOUS
  <2> HIDE DEF rank, notBefore
  <2> QED BY <1>1, <2>1, <2>2 DEF Row
<1>3. IsFiniteSet(sel)
  <2>1. Rows \in SUBSET (1 .. MaxJobs) /\ MaxJobs \in Int /\ 1 \in Int
    BY RoutingAssumption DEF RankInv, IInv, TypeOK, Rows
  <2>2. IsFiniteSet(1 .. MaxJobs)
    BY <2>1, FS_Interval
  <2> QED BY <1>1, <2>1, <2>2, FS_Subset
<1>4. \A j \in sel : IsFiniteSet(notBefore(j)) /\ Cardinality(notBefore(j)) \in Nat
  <2>1. \A j \in sel : notBefore(j) \in SUBSET sel
    OBVIOUS
  <2> HIDE DEF notBefore
  <2> QED BY <1>3, <2>1, FS_Subset, FS_CardinalityType
<1>5. \A j \in sel : Cardinality(notBefore(j)) # 0
  <2>1. \A j \in sel : notBefore(j) # {}
    OBVIOUS
  <2> HIDE DEF notBefore
  <2> QED BY <1>4, <2>1, FS_EmptySet
<1>6. ASSUME NEW i \in sel, NEW j \in sel, PriorityBefore(i, j)
      PROVE  Cardinality(notBefore(i)) > Cardinality(notBefore(j))
  <2>1. ~PriorityBefore(j, i) /\ \A k \in sel : PriorityBefore(j, k) => PriorityBefore(i, k)
    BY <1>1, <1>6, PriorityOrder
  <2>2. i # j
    BY <1>6, <2>1
  <2>3. notBefore(j) \in SUBSET notBefore(i) /\ notBefore(j) # notBefore(i)
    BY <1>6, <2>1, <2>2
  <2> HIDE DEF notBefore
  <2>4. /\ Cardinality(notBefore(j)) <= Cardinality(notBefore(i))
        /\ Cardinality(notBefore(i)) # Cardinality(notBefore(j))
    BY <1>4, <2>3, FS_Subset
  <2> QED BY <1>4, <2>4
<1> HIDE DEF notBefore
<1>7. \A j \in sel : jobs'[j].rank \in 0 .. MaxRank
  <2>1. \A j \in sel : jobs[j] \in Row
    BY <1>1, RowFacts DEF RankInv
  <2> HIDE DEF rank
  <2> QED BY <1>1, <2>1 DEF Row
<1>8. Rows' = Rows /\ \A j \in Rows \ sel : jobs'[j] = jobs[j]
  BY <1>1 DEF Rows
<1>9. CurrentMaxRank \in Nat
  BY MaxRankFacts
<1> QED BY <1>2, <1>4, <1>5, <1>6, <1>7, <1>8, <1>9

LEMMA PrioritizeRanks ==
    ASSUME RankInv, NEW S \in SUBSET Rows, PrioritizeJobs(S)
    PROVE  RankInv'
<1>1. IInv'
  BY PrioritizeStep DEF RankInv, StepOK
<1>2. PICK sel : sel = {j \in S : IsPending(jobs[j])}
  BY ZenonT(30)
<1>3. /\ Rows' = Rows /\ sel \in SUBSET Rows
      /\ \A j \in Rows \ sel : jobs'[j] = jobs[j]
      /\ \A j \in sel : jobs'[j].rank \in 0 .. MaxRank /\ jobs'[j].rank > CurrentMaxRank
      /\ \A i, j \in sel : PriorityBefore(i, j) => jobs'[i].rank > jobs'[j].rank
  BY <1>2, PriorityRanks
<1>4. Ranked'
  BY <1>3 DEF RankInv, Ranked
<1>5. ASSUME NEW i \in Rows, NEW j \in Rows, i # j, jobs'[i].rank = jobs'[j].rank
      PROVE  jobs'[i].rank = 0
  <2>0. CurrentMaxRank \in Nat /\ \A k \in Rows : jobs[k].rank \in Nat /\ jobs[k].rank <= CurrentMaxRank
    BY MaxRankFacts DEF RankInv, Ranked
  <2>1. CASE i \in sel /\ j \in sel
    BY <1>3, <1>5, <2>1, PriorityOrder
  <2>2. CASE i \notin sel /\ j \notin sel
    BY <1>3, <1>5, <2>2 DEF RankInv, PromotedRanksDistinct
  <2>3. CASE (i \in sel) # (j \in sel)
    BY <1>3, <1>5, <2>0, <2>3
  <2> QED BY <2>1, <2>2, <2>3
<1>6. PromotedRanksDistinct'
  BY <1>3, <1>5 DEF PromotedRanksDistinct
<1> QED BY <1>1, <1>4, <1>6 DEF RankInv

-----------------------------------------------------------------------------
(* Every other step *)

\* A step that ranks nothing: rows disappear or keep their rank.
SameRanks == Rows' \subseteq Rows /\ \A j \in Rows' : jobs'[j].rank = jobs[j].rank

LEMMA RanksKept ==
    ASSUME RankInv, StepOK, SameRanks
    PROVE  RankInv'
<1>1. Ranked' /\ PromotedRanksDistinct'
  BY DEF RankInv, SameRanks, Ranked, PromotedRanksDistinct
<1> QED BY <1>1 DEF RankInv, StepOK

\* A new row gets rank 0, or one above all others.
LEMMA InsertRanks ==
    ASSUME RankInv, IInv', NEW shape, NEW requested, NEW status, NEW attempts, NEW payload,
           Insert(shape, requested, status, attempts, payload)
    PROVE  RankInv'
<1> DEFINE rank == IF shape \in JumpShapes THEN CurrentMaxRank + 1 ELSE 0
<1>0. CurrentMaxRank \in Nat /\ \A k \in Rows : jobs[k].rank \in Nat /\ jobs[k].rank <= CurrentMaxRank
  BY MaxRankFacts DEF RankInv, Ranked
<1>1. nextRow \notin Rows
  BY DEF RankInv, IInv, TypeOK, Rows
<1>2. /\ Rows' = Rows \cup {nextRow} /\ \A j \in Rows : jobs'[j] = jobs[j]
      /\ jobs'[nextRow].rank = rank /\ rank \in 0 .. MaxRank
  BY <1>1 DEF Insert, Rows
<1>3. rank = 0 \/ \A k \in Rows : jobs[k].rank # rank
  BY <1>0
<1> HIDE DEF rank
<1>4. Ranked'
  BY <1>2 DEF RankInv, Ranked
<1>5. PromotedRanksDistinct'
  BY <1>1, <1>2, <1>3 DEF RankInv, PromotedRanksDistinct
<1> QED BY <1>4, <1>5 DEF RankInv

\* No rewrite of a row but a promotion touches its rank.
LEMMA SameRank ==
    ASSUME NEW r \in Row
    PROVE  /\ Interrupted(r).rank = r.rank /\ Failed(r).rank = r.rank
           /\ CanceledPending(r).rank = r.rank /\ Enqueued(r).rank = r.rank
           /\ Cleared(r).rank = r.rank /\ [r EXCEPT !.cancel = TRUE].rank = r.rank
           /\ [r EXCEPT !.effects = FALSE].rank = r.rank
           /\ [r EXCEPT !.beat = TRUE].rank = r.rank
           /\ \A p \in Payloads :
                Rewritten(r, p).rank = r.rank /\ Enqueued(Rewritten(r, p)).rank = r.rank
           /\ \A status : [r EXCEPT !.status = status].rank = r.rank
BY DEF Row, Interrupted, Failed, CanceledPending, Enqueued, Cleared, Rewritten

\* The statements that rewrite one row.
LEMMA JobRanks ==
    ASSUME RankInv, NEW j \in Rows, AnyJob(j)
    PROVE  RankInv'
<1>0. StepOK /\ \A i \in Rows : jobs[i] \in Row
  BY JobStep, RowFacts DEF RankInv
<1>1. CASE RetryJob(j) \/ \E requested \in Requests : DuplicateJob(j, requested)
  BY <1>0, <1>1, InsertRanks DEF RetryJob, DuplicateJob, StepOK
<1>2. CASE CancelJob(j) \/ FinishSideEffects(j) \/ ClearJob(j) \/ DegradeCaption(j)
           \/ EnqueueWorkflow(j)
  <2>1. Rows' = Rows /\ \A i \in Rows \ {j} : jobs'[i] = jobs[i]
    BY <1>2 DEF CancelJob, FinishSideEffects, ClearJob, DegradeCaption, EnqueueWorkflow,
                UpdateRows, Rows
  <2>2. jobs'[j] \in {CanceledPending(jobs[j]), [jobs[j] EXCEPT !.cancel = TRUE],
                      [jobs[j] EXCEPT !.effects = FALSE], Cleared(jobs[j]), Enqueued(jobs[j])}
    BY <1>2 DEF CancelJob, FinishSideEffects, ClearJob, DegradeCaption, EnqueueWorkflow,
                UpdateRows
  <2>3. jobs'[j].rank = jobs[j].rank
    BY ZenonT(30), <1>0, <2>2, SameRank
  <2>4. SameRanks
    BY <2>1, <2>3 DEF SameRanks
  <2> QED BY <1>0, <2>4, RanksKept
<1>3. ASSUME NEW p \in Payloads, PromoteCaption(j, p) \/ UpdateWorkflowPayload(j, p)
      PROVE  RankInv'
  <2>1. SameRanks
    BY <1>0, <1>3, SameRank DEF PromoteCaption, UpdateWorkflowPayload, UpdateRows, SameRanks, Rows
  <2> QED BY <1>0, <2>1, RanksKept
<1>4. ASSUME NEW status \in TerminalStatuses \ {"completed"}, TerminateWorkflow(j, status)
      PROVE  RankInv'
  <2>1. SameRanks
    BY <1>0, <1>4, SameRank DEF TerminateWorkflow, UpdateRows, SameRanks, Rows
  <2> QED BY <1>0, <2>1, RanksKept
<1> QED BY <1>1, <1>2, <1>3, <1>4 DEF AnyJob

\* What workers and their supervisors call.
LEMMA WorkerRanks ==
    ASSUME RankInv, StepOK, NEW w \in Workers, AnyWorker(w)
    PROVE  RankInv'
<1>0. \A i \in Rows : jobs[i] \in Row
  BY RowFacts DEF RankInv
<1>1. CASE RegisterWorker(w) \/ SilencePasses(w)
  <2>1. SameRanks
    BY <1>1 DEF RegisterWorker, SilencePasses, SameRanks, Rows
  <2> QED BY <2>1, RanksKept
<1>2. CASE ClaimNextJob(w)
  <2>1. PICK j \in Rows :
            jobs' = [jobs EXCEPT ![j].status = "preparing", ![j].worker = w,
                                 ![j].gpu = IF NonGpu(jobs[j]) THEN CpuGpu ELSE GpuOf[w]]
    BY ZenonT(30), <1>2 DEF ClaimNextJob, Claimable, Rows
  <2>2. SameRanks
    BY <1>0, <2>1 DEF SameRanks, Rows, Row
  <2> QED BY ZenonT(30), <2>2, RanksKept
<1>3. CASE FailWorkerJobTerminated(w)
  <2>1. SameRanks
    BY <1>0, <1>3, SameRank DEF FailWorkerJobTerminated, UpdateRows, SameRanks, Rows
  <2> QED BY <2>1, RanksKept
<1>4. ASSUME NEW status, NEW current, HeartbeatWorker(w, status, current)
      PROVE  RankInv'
  <2>1. SameRanks
    BY <1>0, <1>4, SameRank DEF HeartbeatWorker, HeartbeatJobs, UpdateRows, SameRanks, Rows
  <2> QED BY <2>1, RanksKept
<1>5. ASSUME NEW j \in Rows, NEW status \in Reports, UpdateJobProgress(w, j, status)
      PROVE  RankInv'
  <2>1. jobs' = UpdateRows({j}, LAMBDA r :
            [r EXCEPT !.status = status, !.effects = (status \in TerminalStatuses)])
    BY <1>5 DEF UpdateJobProgress
  <2>2. \A r \in Row : \A b \in BOOLEAN :
            [r EXCEPT !.status = status, !.effects = b].rank = r.rank
    BY DEF Row
  <2>3. (status \in TerminalStatuses) \in BOOLEAN
    OBVIOUS
  <2>4. SameRanks
    BY ZenonT(30), <1>0, <2>1, <2>2, <2>3 DEF UpdateRows, SameRanks, Rows
  <2> QED BY <2>4, RanksKept
<1> QED BY <1>1, <1>2, <1>3, <1>4, <1>5 DEF AnyWorker

\* The set-wide statements: cancels, clears, sweeps and the startup.
LEMMA BulkRanks ==
    ASSUME RankInv, StepOK,
           \/ \E P : CancelPendingJobs(P) \/ ClearTerminalJobs(P)
           \/ Sweeps
           \/ \E purged \in SUBSET Rows : Startup(purged)
           \/ UNCHANGED vars
    PROVE  RankInv'
<1>0. \A i \in Rows : jobs[i] \in Row
  BY RowFacts DEF RankInv
<1>1. ASSUME NEW P, CancelPendingJobs(P) \/ ClearTerminalJobs(P)
      PROVE  SameRanks
  BY <1>0, <1>1, SameRank DEF CancelPendingJobs, ClearTerminalJobs, UpdateRows, SameRanks, Rows
<1>2. CASE Sweeps
  <2>1. CASE SweepStaleWorkers
    <3>1. SameRanks
      BY <1>0, <2>1, SameRank DEF SweepStaleWorkers, UpdateRows, SameRanks, Rows
    <3> QED BY <3>1, RanksKept
  <2>2. ASSUME NEW S, FailQueued(S) PROVE SameRanks
    BY <1>0, <2>2, SameRank DEF FailQueued, UpdateRows, SameRanks, Rows
  <2>3. CASE ~SweepStaleWorkers
    <3>1. \E S : FailQueued(S)
      BY <1>2, <2>3 DEF Sweeps, FailUnsupportedMlxJobs, FailUnsupportedCandleJobs,
         FailPlatformUnreachableJobs, FailStrandedMlxJobs, FailStrandedCandleJobs
    <3> QED BY <2>2, <3>1, RanksKept
  <2> QED BY <2>1, <2>3
<1>3. ASSUME NEW purged \in SUBSET Rows, Startup(purged)
      PROVE  SameRanks
  <2> DEFINE fresh(j) == [jobs[j] EXCEPT !.facts = TRUE]
  <2>1. ASSUME NEW j \in Rows
        PROVE  fresh(j) \in Row /\ fresh(j).rank = jobs[j].rank
    BY ZenonT(60), <1>0 DEF Row
  <2>2. /\ Rows' = Rows \ purged
        /\ \A j \in Rows \ purged :
             jobs'[j] \in {Interrupted(fresh(j)), Enqueued(fresh(j)), fresh(j)}
    BY <1>3 DEF Startup, Rows
  <2> HIDE DEF fresh
  <2> QED BY <2>1, <2>2, SameRank DEF SameRanks
<1>4. CASE UNCHANGED vars
  <2>1. SameRanks
    BY <1>4 DEF vars, SameRanks, Rows
  <2> QED BY <2>1, RanksKept
<1> QED BY <1>1, <1>2, <1>3, <1>4, RanksKept

-----------------------------------------------------------------------------
(* The theorems *)

LEMMA RankNextInv == RankInv /\ [Next]_vars => RankInv'
<1> SUFFICES ASSUME RankInv, [Next]_vars PROVE RankInv'
  OBVIOUS
<1>0. StepOK
  BY NextInv DEF RankInv
<1>1. ASSUME NEW shape, NEW requested, NEW status, CreateJob(shape, requested, status)
      PROVE  RankInv'
  BY <1>0, <1>1, InsertRanks DEF CreateJob, StepOK
<1>2. ASSUME NEW P \in {{p} : p \in Projects} \cup {Projects},
             CancelPendingJobs(P) \/ ClearTerminalJobs(P)
      PROVE  RankInv'
  BY <1>0, <1>2, BulkRanks
<1> QED BY <1>0, <1>1, <1>2, JobRanks, PrioritizeRanks, WorkerRanks, BulkRanks DEF Next

LEMMA RankInvHolds == Spec => []RankInv
<1>1. Init => RankInv
  BY InitInv DEF Init, RankInv, Ranked, PromotedRanksDistinct, Rows
<1> QED BY <1>1, RankNextInv, PTL DEF Spec

\* No two promotions ever share a rank, by hand or automatic, whatever was retried,
\* settled, purged or promoted before: the order of promoted jobs never falls back
\* to the clock, for any number of jobs and any selections.
THEOREM RanksDistinct == Spec => []PromotedRanksDistinct
<1>1. RankInv => PromotedRanksDistinct
  BY DEF RankInv
<1> QED BY <1>1, RankInvHolds, PTL

\* A bulk promotion keeps the claim order of the jobs it selects, if they were
\* created in different seconds, whatever ranks they had.
THEOREM PromotionKeepsOrder == Spec => PrioritizeKeepsOrder
<1>1. RankInv =>
        [\A S \in SUBSET Rows : PrioritizeJobs(S) =>
            \A i, j \in {k \in S : IsPending(jobs[k])} :
                CreatedAt[i] # CreatedAt[j] /\ ClaimBefore(jobs, i, j)
                    => ClaimBefore(jobs', i, j)]_vars
  <2> SUFFICES ASSUME RankInv, NEW S \in SUBSET Rows, PrioritizeJobs(S),
                      NEW i \in {k \in S : IsPending(jobs[k])},
                      NEW j \in {k \in S : IsPending(jobs[k])},
                      CreatedAt[i] # CreatedAt[j], ClaimBefore(jobs, i, j)
               PROVE  ClaimBefore(jobs', i, j)
    OBVIOUS
  <2>1. PriorityBefore(i, j)
    BY DEF ClaimBefore, PriorityBefore
  <2>2. jobs'[i].rank > jobs'[j].rank
    BY ZenonT(30), <2>1, PriorityRanks
  <2> QED BY <2>2 DEF ClaimBefore
<1> QED BY <1>1, RankInvHolds, PTL DEF PrioritizeKeepsOrder
=============================================================================
