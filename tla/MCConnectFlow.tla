-------------------------- MODULE MCConnectFlow --------------------------
(***************************************************************************)
(* TLC instances of ConnectFlow.  Tasks and clients are interchangeable.   *)
(***************************************************************************)
EXTENDS ConnectFlow, TLC

TaskSymmetry == Permutations(Tasks)
Symmetry == TaskSymmetry \cup Permutations(Clients)
=============================================================================
