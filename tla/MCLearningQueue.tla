--------------------------- MODULE MCLearningQueue ---------------------------
(* LearningQueue on small instances.                                       *)
EXTENDS LearningQueue
=============================================================================
