---------------------- MODULE LiveSegmentStoreProgress ----------------------
(***************************************************************************)
(* Progress of the segment store.  A process may die as often as it likes, *)
(* but not for ever: calm says that it will not die again.                 *)
(***************************************************************************)
EXTENDS LiveSegmentStore

VARIABLE calm

\* From now on the process lives.
CalmDown == ~ calm /\ calm' = TRUE /\ UNCHANGED vars

Work(A) == A /\ UNCHANGED calm

CalmNext == \/ Work(Call) \/ Work(Reconcile) \/ Work(AppendSegment) \/ Work(Stop)
            \/ ~ calm /\ Work(Crash)
            \/ CalmDown

(***************************************************************************)
(* The store is synchronous: once called it runs to its end unless it      *)
(* dies.  Encoders, health checks or operators keep calling it.            *)
(***************************************************************************)
LiveSpec == /\ Init /\ calm = FALSE
            /\ [][CalmNext]_<<vars, calm>>
            /\ WF_<<vars, calm>>(Work(Call))
            /\ WF_<<vars, calm>>(Work(Reconcile))
            /\ WF_<<vars, calm>>(Work(AppendSegment))
            /\ WF_<<vars, calm>>(Work(Stop))

(* Once the process has stopped dying, an interrupted append is settled:   *)
(* its journal is removed by the append that wrote it or by the reconcile  *)
(* of a later call (liveProductStore.ts, reconcileSegmentJournal).         *)
JournalSettles == calm /\ journal # Absent ~> journal = Absent
=============================================================================
