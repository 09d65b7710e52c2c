------------------------------- MODULE MCTasks -------------------------------
(* Instances of Tasks for TLC. *)
EXTENDS Tasks, TLC

FrameSymmetry ==
  Permutations(Lookups) \cup Permutations(References) \cup Permutations(Acquisitions)
===============================================================================
