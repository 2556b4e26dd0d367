-------------------------- MODULE MCLiveSessionEnd --------------------------
(* Instances of LiveSessionEnd for TLC.  Stop requests, cleanup requests    *)
(* and calls are model values; no symmetry, because liveness is checked.    *)
EXTENDS LiveSessionEnd, TLC
=============================================================================
