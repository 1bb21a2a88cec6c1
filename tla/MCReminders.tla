--------------------------- MODULE MCReminders ---------------------------
(***************************************************************************)
(* TLC instances of Reminders.  The handler tasks are interchangeable: no  *)
(* action or property names one of them; a run with liveness does without  *)
(* the symmetry.                                                           *)
(***************************************************************************)
EXTENDS Reminders, TLC

HandlerSymmetry == Permutations(Handlers)
=============================================================================
