--------------------------- MODULE MCDiskScheduler ---------------------------
(* Instances of DiskScheduler for TLC. *)
EXTENDS DiskScheduler, TLC
===============================================================================
