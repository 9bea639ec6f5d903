SPECIFICATION WorkflowSpec
CONSTANTS
  w1 = w1
  Workers = {w1}
  MaxJobs = 2
  CreatedAt <- MCCreatedAt
  IdRank <- MCIdRank
  Shapes <- MCShapes
  NonGpuShapes <- MCNone
  GpuRequired <- MCShapes
  JumpShapes <- MCNone
  MlxShapes <- MCNone
  DeferredShapes <- MCNone
  ModelKeys <- MCModelKeys
  GpuOf <- MCGpuCuda
  Supports <- MCSupportsAll
  AppleGpus <- MCApple
  MlxGpu = "mlx"
  CpuGpu = "cpu"
  AutoGpu = "auto"
  MlxRequired = FALSE
  NoWorker = NoWorker
  NoJob = NoJob
  NoGpu = NoGpu
  NoUtil = NoUtil
  Projects <- MCProjects
  ProjectOf <- MCProjectOf
  CandleShapes <- MCNone
  CandleWorkers <- MCNone
  MacSupported <- MCShapes
  CandleSupported <- MCShapes
  VideoShapes <- MCNone
  MlxEnforce = FALSE
  CandleRequired = FALSE
  CandleEnforce = FALSE
  HostIsMac = TRUE
  InitialStatuses = {"queued", "pending_workflow"}
  Requests = {"auto"}
  Reports = {"running", "completed", "failed", "canceled"}
  Heartbeats <- MCHeartbeats
  LoadedSets <- MCNoLoaded
  Utils <- MCNone
  UtilsOf <- MCNoUtil
  Payloads = {"bare", "linked", "resolved"}
  NewPayload = "bare"
  MaxAttempts = 1
  MaxRank = 0
  MaxClock = 2
  MaxRestarts = 2
INVARIANTS PromotedWhole SourceImageKept WorkflowTended
PROPERTIES CancelIsFinal WorkflowSettles
CHECK_DEADLOCK FALSE
