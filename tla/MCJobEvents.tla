---------------------------- MODULE MCJobEvents ----------------------------
(* Model-checking instances of JobEvents: see the .cfg files.             *)
EXTENDS JobEvents
=============================================================================
