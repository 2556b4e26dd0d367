--------------------------- MODULE PlaybackAccess ---------------------------
(***************************************************************************)
(* What playback access promises: a token lets one viewer in, once, and    *)
(* after a token has been barred (its grant, its session or the whole      *)
(* epoch revoked, and the revocation answered) nobody comes in or watches  *)
(* with it.                                                                *)
(***************************************************************************)
CONSTANTS
  Tokens,   \* exchange tokens
  Grants,   \* what a viewer holds after the exchange
  Nobody    \* nobody was served in this step

VARIABLES
  admitted,  \* pairs of a grant and the token it was exchanged for
  barred,    \* tokens whose revocation has been answered
  served     \* the grant served in the last step

vars == <<admitted, barred, served>>

Init == admitted = {} /\ barred = {} /\ served = Nobody

Admit(g, t) ==
  /\ t \notin barred
  /\ \A a \in admitted : a[1] # g /\ a[2] # t
  /\ admitted' = admitted \cup {<<g, t>>}
  /\ served' = Nobody
  /\ UNCHANGED barred

Bar(revoked) ==
  /\ barred' = barred \cup revoked
  /\ served' = Nobody
  /\ UNCHANGED admitted

Watch(g) ==
  /\ \E t \in Tokens \ barred : <<g, t>> \in admitted
  /\ served' = g
  /\ UNCHANGED <<admitted, barred>>

Next == \/ \E g \in Grants, t \in Tokens : Admit(g, t)
        \/ \E revoked \in SUBSET Tokens : Bar(revoked)
        \/ \E g \in Grants : Watch(g)

Spec == Init /\ [][Next]_vars
=============================================================================
