SPECIFICATION Spec
CONSTANTS
  w1 = w1
  w2 = w2
  Workers = {w1, w2}
  MaxJobs = 2
  CreatedAt <- MCCreatedAt
  IdRank <- MCIdRank
  Shapes <- MCImage
  NonGpuShapes <- MCNone
  GpuRequired <- MCImage
  JumpShapes <- MCNone
  MlxShapes <- MCNone
  DeferredShapes <- MCNone
  ModelKeys <- MCModelKeys
  GpuOf <- MCGpuApple
  Supports <- MCSupportsAll
  AppleGpus <- MCApple
  MlxGpu = "mlx"
  CpuGpu = "cpu"
  AutoGpu = "auto"
  MlxRequired = FALSE
  NoWorker = NoWorker
  NoJob = NoJob
  NoGpu = NoGpu
  NoUtil = NoUtil
  Projects <- MCImage
  ProjectOf <- MCProjectOf
  CandleShapes <- MCNone
  CandleWorkers <- MCNone
  MacSupported <- MCImage
  CandleSupported <- MCImage
  VideoShapes <- MCNone
  MlxEnforce = FALSE
  CandleRequired = FALSE
  CandleEnforce = FALSE
  HostIsMac = TRUE
  InitialStatuses = {"queued"}
  Requests = {"auto"}
  Reports = {"running", "completed"}
  Heartbeats <- MCHeartbeats
  LoadedSets <- MCNoLoaded
  Utils <- MCNone
  UtilsOf <- MCNoUtil
  Payloads = {"prompt"}
  NewPayload = "prompt"
  MaxAttempts = 1
  MaxRank = 0
  MaxClock = 2
INVARIANTS GpuExclusive Ownership
PROPERTIES NoResurrection RefinesLifecycle
CHECK_DEADLOCK FALSE
