---------------------------- MODULE MCScheduler ----------------------------
(* Small instances of Scheduler for TLC; the .cfg files give the bounds.       *)
EXTENDS Scheduler, TLC

Symmetry == Permutations(Runs)
=============================================================================
