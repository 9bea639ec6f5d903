---------------------------- MODULE MCJobsSystem -----------------------------
(***************************************************************************)
(* Constants for checking JobsSystem: image jobs on two workers that share *)
(* the one Apple GPU.                                                      *)
(***************************************************************************)
EXTENDS JobsSystem, TLC

CONSTANTS w1, w2

MCCreatedAt == [j \in JobIds |-> 1]
MCIdRank == [j \in JobIds |-> MaxJobs - j]
MCModelKeys == [s \in Shapes |-> {s}]
MCProjectOf == [s \in Shapes |-> s]
MCSupportsAll == [w \in Workers |-> Shapes]

MCNone == {}
MCImage == {"image"}
MCApple == {"mlx", "mps"}
MCGpuApple == (w1 :> "mlx") @@ (w2 :> "mps")
MCHeartbeats == {<<"idle", FALSE>>, <<"busy", TRUE>>, <<"offline", FALSE>>}
MCNoLoaded == {{}}
MCUtils == {[free |-> 8000, load |-> 20, usage |-> 50],
            [free |-> 1500, load |-> 50, usage |-> 85]}
MCUtilsApart == (w1 :> {[free |-> 8000, load |-> 20, usage |-> 50]})
                    @@ (w2 :> {[free |-> 1500, load |-> 50, usage |-> 85]})
MCNoUtil == [w \in Workers |-> {NoUtil}]
=============================================================================
