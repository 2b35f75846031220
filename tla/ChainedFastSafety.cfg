\* Two nodes, one request on each: a copy outlives its writer on the other node.
SPECIFICATION Spec
CONSTANTS
  r1 = r1
  r2 = r2
  n1 = n1
  n2 = n2
  Requests = {r1, r2}
  Nodes = {n1, n2}
  NodeOf <- TwoNodes
  Nothing = Nothing
  Unknown = Unknown
  MaxVersion = 2
  MaxTime = 3
INVARIANTS TypeOK StaleHasCause
