---------------------------- MODULE MCDemoServer ----------------------------
(* DemoServer for TLC. *)
EXTENDS DemoServer, TLC

\* Browsers, requests and demos are told apart by their values only.
Symmetry == Permutations(Browsers) \cup Permutations(Requests) \cup Permutations(Demos)
=============================================================================
