---------------------------- MODULE DatabaseLockMC ----------------------------
(* Instances of DatabaseLock for TLC. *)
EXTENDS DatabaseLock, TLC

(* Requests are interchangeable: no definition names one of them. *)
RequestSymmetry == Permutations(Requests)
================================================================================
