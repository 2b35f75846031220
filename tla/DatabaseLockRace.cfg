\* Two requests, one name, leases of none, two or three ticks, an epsilon as
\* long as a tick.
CONSTANTS
  p1 = p1
  p2 = p2
  Requests = {p1, p2}
  n1 = n1
  Names = {n1}
  NoRow = NoRow
  Timeouts = {0, 2, 3}
  Delays = {3}
  MinTimeout = 2
  Epsilon = 1
  SleepStep = 1
  MaxSleep = 2
  MaxClock = 5
SPECIFICATION FairSpec
INVARIANTS TypeOK LeaseHonoured MutualExclusion NoStrayRow
PROPERTIES CallReturns ImplementsPromise
CHECK_DEADLOCK FALSE
