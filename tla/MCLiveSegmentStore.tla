------------------------- MODULE MCLiveSegmentStore -------------------------
(***************************************************************************)
(* LiveSegmentStore on a small instance: three consecutive fragments.      *)
(***************************************************************************)
EXTENDS LiveSegmentStore, TLC

CONSTANTS a, b, c

MCMfhd == a :> 1 @@ b :> 2 @@ c :> 3

FileSymmetry == Permutations(Files)
=============================================================================
