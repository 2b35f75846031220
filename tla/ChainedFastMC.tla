----------------------------- MODULE ChainedFastMC -----------------------------
(* One request on each of two nodes. *)
EXTENDS ChainedFast, TLC

CONSTANTS r1, r2, n1, n2

TwoNodes == r1 :> n1 @@ r2 :> n2
================================================================================
