--------------------- MODULE MCLiveSegmentStoreProgress ---------------------
(***************************************************************************)
(* LiveSegmentStoreProgress on a small instance: consecutive fragments.    *)
(***************************************************************************)
EXTENDS LiveSegmentStoreProgress, TLC

CONSTANTS a, b, c

MCMfhd == a :> 1 @@ b :> 2 @@ c :> 3
=============================================================================
