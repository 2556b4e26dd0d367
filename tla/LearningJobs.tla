---------------------------- MODULE LearningJobs ----------------------------
(***************************************************************************)
(* What the learning queue promises: a job that was submitted is attempted *)
(* at most as often as its limit allows and ends at most once, completed   *)
(* or, when its attempts are used up, dead.  A queue that is resumed from  *)
(* a snapshot goes back to what it was when the snapshot was taken.        *)
(***************************************************************************)
EXTENDS Naturals

CONSTANTS Ids, Limits

VARIABLES
  board,  \* the jobs
  saved   \* the snapshot

Job  == [outcome : {"none", "open", "completed", "dead"}, attempts : Nat,
         limit : Limits \cup {0}]
None == [outcome |-> "none", attempts |-> 0, limit |-> 0]

Init == board = [i \in Ids |-> None] /\ saved = [i \in Ids |-> None]

Change(i, job) == board' = [board EXCEPT ![i] = job] /\ UNCHANGED saved

Submit(i, n) ==
  /\ board[i] = None
  /\ Change(i, [outcome |-> "open", attempts |-> 0, limit |-> n])

Attempt(i) ==
  /\ board[i].outcome = "open" /\ board[i].attempts < board[i].limit
  /\ Change(i, [board[i] EXCEPT !.attempts = @ + 1])

Complete(i) ==
  /\ board[i].outcome = "open" /\ board[i].attempts > 0
  /\ Change(i, [board[i] EXCEPT !.outcome = "completed"])

Bury(i) ==
  /\ board[i].outcome = "open" /\ board[i].attempts = board[i].limit
  /\ Change(i, [board[i] EXCEPT !.outcome = "dead"])

Save    == saved' = board /\ UNCHANGED board
Restore == board' = saved /\ UNCHANGED saved

Next ==
  \/ \E i \in Ids : (\E n \in Limits : Submit(i, n)) \/ Attempt(i) \/ Complete(i) \/ Bury(i)
  \/ Save \/ Restore

Spec == Init /\ [][Next]_<<board, saved>>
=============================================================================
