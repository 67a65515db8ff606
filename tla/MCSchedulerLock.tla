-------------------------- MODULE MCSchedulerLock --------------------------
(* Small instances of SchedulerLock for TLC. *)
EXTENDS SchedulerLock, TLC

Interchangeable == Permutations(Runs)
=============================================================================
