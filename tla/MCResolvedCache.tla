-------------------------- MODULE MCResolvedCache --------------------------
(***************************************************************************)
(* Constants for checking ResolvedCache: two interchangeable processes on   *)
(* one entry.                                                               *)
(***************************************************************************)
EXTENDS ResolvedCache, TLC

CONSTANTS p1, p2

MCSymmetry == Permutations({p1, p2})
=============================================================================
