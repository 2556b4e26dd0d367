------------------------ MODULE MCLiveProtectedAppend ------------------------
(* LiveProtectedAppend on small instances: three consecutive fragments, and *)
(* one that comes in another's place under the other's key.                *)
EXTENDS LiveProtectedAppend, TLC

CONSTANTS a, b, c, k1, k2

MCMfhd == a :> 1 @@ b :> 2 @@ c :> 3

Offer(s, f, k) == [sequence |-> s, source |-> f, key |-> k]

MCOffers ==
  {Offer(0, a, k1), Offer(0, b, k1), Offer(1, b, k2), Offer(2, c, k1)}
=============================================================================
