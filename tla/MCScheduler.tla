----------------------------- MODULE MCScheduler -----------------------------
(* Small instances of Scheduler for TLC.                                     *)
EXTENDS Scheduler, TLC

Symmetric == Permutations(CPU) \cup Permutations(Work)
=============================================================================
