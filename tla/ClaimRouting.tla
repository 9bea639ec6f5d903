----------------------------- MODULE ClaimRouting ----------------------------
(***************************************************************************)
(* Which queued job a polling worker is handed: the candidate query, the   *)
(* affinity order inside the highest compatible rank, and the deferrals    *)
(* that make a worker yield a job to a better placed one.  Pure operators  *)
(* over the jobs table J and the workers table W, each a function whose    *)
(* domain is the set of rows present; JobsStore!ClaimNextJob is their only *)
(* caller.                                                                 *)
(*                                                                         *)
(* A job's immutable attributes (type, routing facts of its payload,       *)
(* project, model) are abstracted to its shape.  Rowids are 1..MaxJobs, in *)
(* insertion order; created_at has whole-second resolution, so CreatedAt   *)
(* need not be injective; IdRank is the order of the random string ids.    *)
(***************************************************************************)
EXTENDS Integers, FiniteSets, JobStatus

CONSTANTS
    MaxJobs,         \* bound on the rows ever inserted
    CreatedAt,       \* rowid -> created_at, in whole seconds
    IdRank,          \* rowid -> position of its random id in string order
    Shapes,          \* classes of job requests
    NonGpuShapes,    \* type in NON_GPU_JOB_TYPES
    GpuRequired,     \* job_requires_gpu
    JumpShapes,      \* job_type_automatically_jumps_queue (prompt_refine)
    MlxShapes,       \* an mlx worker could run it (job_is_any_mlx_eligible)
    DeferredShapes,  \* those with a deferral of their own: all but video upscales
    ModelKeys,       \* shape -> model keys of its payload
    Workers,         \* worker ids
    GpuOf,           \* worker -> gpu_id it registers with
    Supports,        \* worker -> shapes its capabilities cover
    AppleGpus,       \* gpu ids naming the one unified Apple GPU (mlx, mps)
    MlxGpu,          \* the gpu id "mlx"
    CpuGpu,          \* the gpu id "cpu"
    AutoGpu,         \* requested_gpu = "auto"
    MlxRequired,     \* the macOS MLX-required deployment flag
    NoWorker, NoJob, NoGpu, NoUtil

JobIds == 1 .. MaxJobs

Gpus == {GpuOf[w] : w \in Workers} \cup AppleGpus \cup {MlxGpu, CpuGpu}

ASSUME RoutingAssumption ==
    /\ MaxJobs \in Nat
    /\ CreatedAt \in [JobIds -> Nat]
    /\ IdRank \in [JobIds -> Nat]
    /\ \A i, j \in JobIds : IdRank[i] = IdRank[j] => i = j
    /\ NonGpuShapes \subseteq Shapes
    /\ GpuRequired \subseteq Shapes
    /\ NonGpuShapes \cap GpuRequired = {}
    /\ JumpShapes \subseteq Shapes
    /\ MlxShapes \subseteq Shapes
    /\ DeferredShapes \subseteq MlxShapes
    /\ Supports \in [Workers -> SUBSET Shapes]
    /\ AutoGpu \notin Gpus
    /\ NoGpu \notin Gpus
    /\ NoWorker \notin Workers
    /\ NoJob \notin JobIds
    /\ MlxRequired \in BOOLEAN

-----------------------------------------------------------------------------
IsActive(r) == r.status \in ActiveStatuses
IsTerminal(r) == r.status \in TerminalStatuses
IsPending(r) == r.status \in PendingStatuses
IsQueued(r) == r.status = "queued"
NonGpu(r) == r.shape \in NonGpuShapes

\* mlx and mps are two names of the one Apple GPU (is_apple_unified_gpu_id).
Device(g) == IF g \in AppleGpus THEN MlxGpu ELSE g

\* The job occupies device d.
Holds(r, d) ==
    /\ IsActive(r)
    /\ ~NonGpu(r)
    /\ r.gpu # NoGpu
    /\ Device(r.gpu) = d

ActiveGpuJobByName(J, g) ==
    \E j \in DOMAIN J : IsActive(J[j]) /\ ~NonGpu(J[j]) /\ J[j].gpu = g

ActiveGpuJobExists(J, g) == \E j \in DOMAIN J : Holds(J[j], Device(g))

\* order by queue_rank desc, created_at asc, rowid asc
ClaimBefore(J, i, j) ==
    \/ J[i].rank > J[j].rank
    \/ J[i].rank = J[j].rank /\ CreatedAt[i] < CreatedAt[j]
    \/ J[i].rank = J[j].rank /\ CreatedAt[i] = CreatedAt[j] /\ i < j

FirstOf(J, S) == CHOOSE i \in S : \A j \in S \ {i} : ClaimBefore(J, i, j)

\* An unhealthy worker is handed nothing, and a cpu worker no GPU work.
WorkerSupports(W, w, shape) ==
    /\ W[w].status # "unhealthy"
    /\ ~(shape \in GpuRequired /\ GpuOf[w] = CpuGpu)
    /\ shape \in Supports[w]

\* The rows the candidate query returns and the worker is able to run.
Claimable(J, W, w) ==
    {j \in DOMAIN J :
        /\ IsQueued(J[j])
        /\ NonGpu(J[j]) \/ J[j].requested \in {AutoGpu, GpuOf[w]}
        /\ NonGpu(J[j]) \/ ~ActiveGpuJobExists(J, GpuOf[w])
        /\ WorkerSupports(W, w, J[j].shape)}

\* The scan stops below the first compatible rank.
Compatible(J, W, w) ==
    LET C == Claimable(J, W, w)
    IN  {j \in C : \A i \in C : J[i].rank <= J[j].rank}

\* candidate_matches_loaded_model / job_matches_loaded_model
Warm(J, W, w, j) ==
    /\ J[j].requested = AutoGpu
    /\ ~NonGpu(J[j])
    /\ ModelKeys[J[j].shape] \cap W[w].loaded # {}

\* Oldest explicit-GPU match, then oldest warm auto job, then FIFO.
ChooseClaimable(J, W, w) ==
    LET C == Compatible(J, W, w)
        first == FirstOf(J, C)
        explicit == {j \in C : ~NonGpu(J[j]) /\ J[j].requested # AutoGpu}
        warm == {j \in C : Warm(J, W, w, j)}
    IN  CASE NonGpu(J[first]) \/ J[first].requested # AutoGpu -> first
          [] OTHER -> IF explicit # {} THEN FirstOf(J, explicit)
                      ELSE IF warm # {} THEN FirstOf(J, warm)
                      ELSE first

-----------------------------------------------------------------------------
(***************************************************************************)
(* Health based deferral of auto jobs.  A utilization report carries free  *)
(* memory (MB), GPU load and memory usage (percent); NoUtil is a worker    *)
(* that reports none.                                                      *)
(***************************************************************************)
ScoreIsBetter(cand, candWarm, cur, curWarm) ==
    LET notWorse ==
            /\ cand.free + 512 >= cur.free
            /\ cand.load <= cur.load + 10
            /\ cand.usage <= cur.usage + 10
        relief ==
            \/ cand.free - cur.free >= 1024
            \/ cur.load - cand.load >= 15
            \/ cur.usage - cand.usage >= 10
    IN  \/ notWorse /\ relief
        \/ notWorse /\ candWarm /\ ~curWarm
        \/ cur.free < 2048 /\ cand.free >= 4096
        \/ cur.load >= 85 /\ cand.load <= 75
        \/ cur.usage >= 90 /\ cand.usage <= 80

IdleOther(W, w, c) == c # w /\ W[c].status = "idle"

DeferToHealthier(J, W, w, j) ==
    /\ J[j].requested = AutoGpu
    /\ ~NonGpu(J[j])
    /\ GpuOf[w] \notin {CpuGpu, MlxGpu}
    /\ W[w].util # NoUtil
    /\ \E c \in DOMAIN W :
        /\ IdleOther(W, w, c)
        /\ GpuOf[c] # CpuGpu
        /\ WorkerSupports(W, c, J[j].shape)
        /\ ~ActiveGpuJobExists(J, GpuOf[c])
        /\ W[c].util # NoUtil
        /\ ScoreIsBetter(W[c].util, Warm(J, W, c, j), W[w].util, Warm(J, W, w, j))

DeferToMlxOfAuto(J, W, w, j) ==
    /\ GpuOf[w] # MlxGpu
    /\ J[j].shape \in DeferredShapes
    /\ J[j].requested = AutoGpu
    /\ \/ MlxRequired
       \/ \E c \in DOMAIN W :
            /\ IdleOther(W, w, c)
            /\ GpuOf[c] = MlxGpu
            /\ WorkerSupports(W, c, J[j].shape)
            /\ ~ActiveGpuJobExists(J, MlxGpu)

\* The image, video, training, caption and understanding deferrals: the five
\* functions differ only in the eligibility predicate, whose union is
\* DeferredShapes.  A video upscale has no such function: only the capabilities of
\* the other workers keep it for the mlx worker.
DeferToMlx(J, W, w, j) ==
    /\ GpuOf[w] # MlxGpu
    /\ J[j].shape \in DeferredShapes
    /\ \/ MlxRequired
       \/ /\ J[j].requested = AutoGpu
          /\ \E c \in DOMAIN W :
                /\ IdleOther(W, w, c)
                /\ GpuOf[c] = MlxGpu
                /\ WorkerSupports(W, c, J[j].shape)
                /\ ~ActiveGpuJobExists(J, MlxGpu)

Defers(J, W, w, j) == DeferToHealthier(J, W, w, j) \/ DeferToMlx(J, W, w, j)
=============================================================================
