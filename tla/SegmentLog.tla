----------------------------- MODULE SegmentLog -----------------------------
(***************************************************************************)
(* What the segment append of a live session promises its clients: an      *)
(* append-only log without gaps.  Each position is filled once, in order,  *)
(* by one request; a request is answered with success only while the log   *)
(* holds it; a closed log takes nothing more.  Crashes and retries are     *)
(* invisible.  LiveSegmentStore implements it with files and a journal.    *)
(***************************************************************************)
EXTENDS Naturals

CONSTANTS
  Fragments,    \* fragment contents
  Mfhd,         \* their place in the source timeline
  Keys,         \* idempotency keys
  MaxSegments,  \* the capacity of a session
  Absent        \* an empty position

VARIABLES
  log,          \* what each position holds
  answered,     \* the requests answered with success
  open          \* the session takes segments

Positions == 0 .. MaxSegments
Entry     == [sequence : Positions, fragment : Fragments, key : Keys]

Init == /\ log = [s \in Positions |-> Absent]
        /\ answered = {}
        /\ open = TRUE

Commit(e) ==
  /\ open
  /\ e.sequence < MaxSegments
  /\ log[e.sequence] = Absent
  /\ \A s \in Positions : s < e.sequence => log[s] # Absent
  /\ e.sequence > 0 => Mfhd[e.fragment] = Mfhd[log[e.sequence - 1].fragment] + 1
  /\ log' = [log EXCEPT ![e.sequence] = e]
  /\ UNCHANGED <<answered, open>>

Answer(e) ==
  /\ log[e.sequence] = e
  /\ answered' = answered \cup {e}
  /\ UNCHANGED <<log, open>>

Close == open /\ open' = FALSE /\ UNCHANGED <<log, answered>>

Next == (\E e \in Entry : Commit(e) \/ Answer(e)) \/ Close

Spec == Init /\ [][Next]_<<log, answered, open>>

-----------------------------------------------------------------------------
(***************************************************************************)
(* What follows for whoever implements it                                  *)
(***************************************************************************)

(* The entries fill the positions from the first on, each the place its    *)
(* fragment has in the source timeline after the one before, and leave the *)
(* position of the capacity free (acceptance tests of appendSegment).      *)
Continuous ==
  \A s \in Positions : log[s] # Absent =>
    /\ log[s] \in Entry /\ log[s].sequence = s /\ s < MaxSegments
    /\ s > 0 => /\ log[s - 1] # Absent
                /\ Mfhd[log[s].fragment] = Mfhd[log[s - 1].fragment] + 1

(* A position was answered to one request only, the one it holds.          *)
AnswersHeld == \A e \in answered : e \in Entry /\ log[e.sequence] = e

(* An entry stays what it is, and a closed log as it is.                   *)
Kept == /\ \A s \in Positions : log[s] # Absent => log'[s] = log[s]
        /\ ~ open => log' = log /\ ~ open'
EntriesAreFinal == [][Kept]_<<log, answered, open>>
=============================================================================
