----------------------------- MODULE MCMiniApp -----------------------------
(***************************************************************************)
(* A TLC instance of MiniApp: a user in two groups who may be in a third.  *)
(***************************************************************************)
EXTENDS MiniApp, TLC

CONSTANTS g1, g2, g3

MCGroups == {g1, g2, g3}
MCSymmetry == Permutations({g1, g2})
MCFirstGroups == {g1, g2}
=============================================================================
