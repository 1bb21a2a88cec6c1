------------------------------ MODULE MCPushes ------------------------------
(***************************************************************************)
(* A TLC instance of Pushes, with the people of MCMembership.              *)
(***************************************************************************)
EXTENDS Pushes, MCMembership

MCPair == {lead, guest}
MCPairRoles == [u \in MCPair |-> IF u = lead THEN Lead ELSE NoUser]
=============================================================================
