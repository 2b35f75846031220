\* Two overlapping runs and one item, whether its worker declares a time or not.
CONSTANTS
  r1 = r1
  r2 = r2
  Runs = {r1, r2}
  ItemCount = 1
  TimeDeclared = {TRUE, FALSE}
  CronTime = 2
  CronLease = 1
  Delays = {1}
  NoOne = NoOne
  Dead = Dead
  MaxTime = 4
SPECIFICATION FairSpec
INVARIANTS TypeOK AtLeastOnce SharedOnlyIfLate HandlersExclusive
PROPERTIES DelayRespected AbandonedReturns
