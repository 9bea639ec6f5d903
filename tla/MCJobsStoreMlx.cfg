SPECIFICATION Spec
CONSTANTS
  w1 = w1
  w2 = w2
  Workers = {w1, w2}
  MaxJobs = 1
  CreatedAt <- MCCreatedAt
  IdRank <- MCIdRank
  Shapes <- MCAppleShapes
  NonGpuShapes <- MCDownload
  GpuRequired <- MCImageVideoUpscale
  JumpShapes <- MCRefine
  MlxShapes <- MCImageUpscale
  DeferredShapes <- MCImage
  ModelKeys <- MCModelKeys
  GpuOf <- MCGpuApple
  Supports <- MCSupportsApple
  AppleGpus <- MCApple
  MlxGpu = "mlx"
  CpuGpu = "cpu"
  AutoGpu = "auto"
  MlxRequired = TRUE
  NoWorker = NoWorker
  NoJob = NoJob
  NoGpu = NoGpu
  NoUtil = NoUtil
  Projects <- MCAppleShapes
  ProjectOf <- MCProjectOf
  CandleShapes <- MCNone
  CandleWorkers <- MCNone
  MacSupported <- MCAppleButVideo
  CandleSupported <- MCAppleShapes
  VideoShapes <- MCNone
  MlxEnforce = TRUE
  CandleRequired = FALSE
  CandleEnforce = FALSE
  HostIsMac = TRUE
  InitialStatuses = {"queued", "pending_caption", "pending_workflow"}
  Requests = {"auto", "mps"}
  Reports = {"completed"}
  Heartbeats <- MCAllHeartbeats
  LoadedSets <- MCNoLoaded
  Utils <- MCNone
  UtilsOf <- MCNoUtil
  Payloads = {"prompt", "caption"}
  NewPayload = "prompt"
  MaxAttempts = 1
  MaxRank = 1
  MaxClock = 2
INVARIANTS MlxRunsOnMlx
CHECK_DEADLOCK FALSE
