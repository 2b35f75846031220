---------------------------- MODULE MachineNameMC ----------------------------
(* Two labels, each in a form of its own, or both in one. *)
EXTENDS MachineName, TLC
CONSTANTS f1, f2
TwoForms == (1 :> f1) @@ (2 :> f2)
OneForm  == (1 :> f1) @@ (2 :> f1)
=============================================================================
