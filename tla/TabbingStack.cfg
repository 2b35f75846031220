\* Two elements and three requests, nested or one after the other and released in
\* any order, while the page changes once.
SPECIFICATION Spec
CONSTANTS
  None = None
  Zero = Zero
  MinusOne = MinusOne
  NotSaved = NotSaved
  Elements <- MCElements
  Indices <- MCIndices
  Unreachable = MinusOne
  MaxCalls = 3
  MaxChanges = 1
INVARIANTS TypeOK NothingLost Constrained TrapsInForce
PROPERTY ImplementsPromise
CHECK_DEADLOCK FALSE
