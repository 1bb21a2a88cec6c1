---------------------------- MODULE MCRealtime ----------------------------
(***************************************************************************)
(* A TLC instance of Realtime: a user with two Mini Apps and one without.  *)
(***************************************************************************)
EXTENDS Realtime

CONSTANTS u, v, d1, d2

MCOwner == [d \in {d1, d2} |-> u]
=============================================================================
