-------------------------- MODULE MCVectorWorkflow ---------------------------
(***************************************************************************)
(* Constants for checking VectorWorkflow: one workflow, its parent and its *)
(* raster child on one GPU worker.                                         *)
(***************************************************************************)
EXTENDS VectorWorkflow, TLC

CONSTANTS w1

MCCreatedAt == [j \in JobIds |-> 1]
MCIdRank == [j \in JobIds |-> MaxJobs - j]
MCModelKeys == [s \in Shapes |-> {s}]
MCProjectOf == [s \in Shapes |-> "project"]
MCSupportsAll == [w \in Workers |-> Shapes]

MCNone == {}
MCShapes == {"vector", "image"}
MCProjects == {"project"}
MCApple == {"mlx", "mps"}
MCGpuCuda == (w1 :> "cuda0")
MCHeartbeats == {<<"idle", FALSE>>}
MCNoLoaded == {{}}
MCNoUtil == [w \in Workers |-> {NoUtil}]
=============================================================================
