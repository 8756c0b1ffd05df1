---------------------------- MODULE MCModelStore ----------------------------
(***************************************************************************)
(* Instances of ModelStore for TLC.  A few trainings and a Keep below      *)
(* their number make prune overtake an API that is loading.                *)
(***************************************************************************)
EXTENDS ModelStore
=============================================================================
