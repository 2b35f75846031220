------------------------------ MODULE CronQueueMC ------------------------------
(* Instances of CronQueue for TLC. *)
EXTENDS CronQueue, TLC

CONSTANTS r1, r2
================================================================================
