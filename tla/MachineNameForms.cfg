\* Two labels in two forms, first empty or with a text that the site has to
\* transliterate.
SPECIFICATION FairSpec
CONSTANTS
  None = None
  f1 = f1
  f2 = f2
  Sources = {1, 2}
  Forms = {f1, f2}
  FormOf <- TwoForms
  MaxEdits = 2
  MaxFailures = 1
  FirstKinds = {"empty", "other"}
  TypedKinds = {"plain", "other"}
INVARIANT TypeOK
PROPERTIES NeverBack TypedKept CatchesUp
CHECK_DEADLOCK FALSE
