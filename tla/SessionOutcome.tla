--------------------------- MODULE SessionOutcome ---------------------------
(***************************************************************************)
(* What the end of a live session promises, whatever crashes, full disks   *)
(* and repeated requests come in between.  A session that was stopped has  *)
(* one receipt for ever, can be watched until a cleanup starts, and then   *)
(* only moves on to purged.  A session without a receipt may fail; a       *)
(* cleanup of it may be overtaken by the repeated stop it had refused, and *)
(* only a stop that overtook a cleanup may leave nothing to watch.         *)
(***************************************************************************)
CONSTANTS
  StopRequests,  \* the stop requests a caller may send
  Unstopped      \* no receipt yet

VARIABLES
  phase,         \* what can be done with the session
  receipt,       \* the stop request that was answered
  watchable      \* the recording and everything it is made of are on disk

outcome == <<phase, receipt, watchable>>

Init ==
  /\ phase = "live"
  /\ receipt = Unstopped
  /\ watchable = FALSE

Move(from, to) ==
  /\ phase = from
  /\ phase' = to
  /\ UNCHANGED receipt

Ending == Move("live", "ending") /\ UNCHANGED watchable

Failing ==
  /\ \E from \in {"live", "ending", "overtaken"} : Move(from, "failed")
  /\ UNCHANGED watchable

\* The artifacts of an unfinished session come and go; a cleanup removes them.
Working ==
  /\ \/ phase \in {"ending", "overtaken"} /\ watchable' \in BOOLEAN
     \/ phase = "cleaning" /\ watchable' = FALSE
  /\ UNCHANGED <<phase, receipt>>

Stopping(k) ==
  /\ phase \in {"ending", "overtaken"} /\ phase' = "stopped"
  /\ watchable' = watchable
  /\ phase = "ending" => watchable
  /\ receipt = Unstopped /\ receipt' = k

Cleaning ==
  /\ Move("stopped", "cleaning") \/ Move("failed", "cleaning")
  /\ UNCHANGED watchable

Overtaken ==
  /\ Move("cleaning", "overtaken")
  /\ receipt = Unstopped
  /\ UNCHANGED watchable

Purging == Move("cleaning", "purged") /\ ~ watchable /\ UNCHANGED watchable

Next ==
  \/ Ending \/ Failing \/ Working \/ Cleaning \/ Overtaken \/ Purging
  \/ \E k \in StopRequests : Stopping(k)

Spec == Init /\ [][Next]_outcome
=============================================================================
