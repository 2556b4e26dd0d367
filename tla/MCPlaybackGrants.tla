-------------------------- MODULE MCPlaybackGrants --------------------------
(* Small instances of PlaybackGrants for TLC.  Sessions, tokens and grants  *)
(* are interchangeable; no liveness property is checked.                    *)
EXTENDS PlaybackGrants, TLC

Interchangeable == Permutations(Grants) \cup Permutations(Tokens)
                     \cup Permutations(Sessions)
=============================================================================
