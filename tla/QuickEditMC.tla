----------------------------- MODULE QuickEditMC -----------------------------
EXTENDS QuickEdit
CONSTANTS title, body
OneEntity == (title :> 1) @@ (body :> 1)
TwoEntities == (title :> 1) @@ (body :> 2)
=============================================================================
