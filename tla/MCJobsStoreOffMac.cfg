SPECIFICATION Spec
CONSTANTS
  w1 = w1
  w2 = w2
  Workers = {w1}
  MaxJobs = 2
  CreatedAt <- MCCreatedApart
  IdRank <- MCIdRank
  Shapes <- MCRefineImageVideo
  NonGpuShapes <- MCNone
  GpuRequired <- MCImageVideo
  JumpShapes <- MCRefine
  MlxShapes <- MCNone
  DeferredShapes <- MCNone
  ModelKeys <- MCModelKeys
  GpuOf <- MCGpuCuda
  Supports <- MCSupportsAll
  AppleGpus <- MCApple
  MlxGpu = "mlx"
  CpuGpu = "cpu"
  AutoGpu = "auto"
  MlxRequired = FALSE
  NoWorker = NoWorker
  NoJob = NoJob
  NoGpu = NoGpu
  NoUtil = NoUtil
  Projects <- MCRefineImageVideo
  ProjectOf <- MCProjectOf
  CandleShapes <- MCImage
  CandleWorkers = {w1}
  MacSupported <- MCRefineImageVideo
  CandleSupported <- MCRefineImage
  VideoShapes <- MCVideo
  MlxEnforce = FALSE
  CandleRequired = TRUE
  CandleEnforce = TRUE
  HostIsMac = FALSE
  InitialStatuses = {"queued", "pending_caption"}
  Requests = {"auto"}
  Reports = {"completed"}
  Heartbeats <- MCIdleBusy
  LoadedSets <- MCNoLoaded
  Utils <- MCNone
  UtilsOf <- MCNoUtil
  Payloads = {"prompt"}
  NewPayload = "prompt"
  MaxAttempts = 2
  MaxRank = 2
  MaxClock = 2
INVARIANTS PromotedRanksDistinct
PROPERTIES PrioritizeKeepsOrder
CHECK_DEADLOCK FALSE
