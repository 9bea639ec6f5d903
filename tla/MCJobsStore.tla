----------------------------- MODULE MCJobsStore -----------------------------
(***************************************************************************)
(* Constants for checking JobsStore.  Request shapes: an image job, a      *)
(* video job, a video upscale, a model download (no GPU) and a prompt      *)
(* refinement (jumps the queue).  Jobs are created within the same second, *)
(* or in a second each, and the random ids sort against insertion order.   *)
(***************************************************************************)
EXTENDS JobsStore, TLC

CONSTANTS w1, w2

MCCreatedAt == [j \in JobIds |-> 1]
MCCreatedApart == [j \in JobIds |-> j]
MCIdRank == [j \in JobIds |-> MaxJobs - j]
MCModelKeys == [s \in Shapes |-> {s}]
MCProjectOf == [s \in Shapes |-> s]
MCSupportsAll == [w \in Workers |-> Shapes]

MCNone == {}
MCImage == {"image"}
MCVideo == {"video"}
MCDownload == {"download"}
MCRefine == {"refine"}
MCRefineImage == {"refine", "image"}
MCRefineImageVideo == {"refine", "image", "video"}
MCImageVideo == {"image", "video"}
MCAllButVideo == {"image", "download", "refine"}
MCAllShapes == {"image", "video", "download", "refine"}
MCImageUpscale == {"image", "upscale"}
MCImageVideoUpscale == {"image", "video", "upscale"}
MCAppleShapes == MCAllShapes \cup {"upscale"}
MCAppleButVideo == MCAppleShapes \ {"video"}

MCApple == {"mlx", "mps"}
MCGpuApple == (w1 :> "mlx") @@ (w2 :> "mps")
MCSupportsApple == (w1 :> Shapes) @@ (w2 :> Shapes \ {"upscale"})
MCGpuCuda == (w1 :> "cuda0")

MCHeartbeats == {<<"idle", FALSE>>, <<"busy", TRUE>>, <<"offline", FALSE>>}
MCIdleBusy == {<<"idle", FALSE>>, <<"busy", TRUE>>}
MCAllHeartbeats == MCHeartbeats \cup {<<"unhealthy", FALSE>>, <<"unhealthy", TRUE>>}
MCNoLoaded == {{}}
MCNoUtil == [w \in Workers |-> {NoUtil}]
=============================================================================
