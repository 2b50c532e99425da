\* Relative timeouts off the tick and an absolute one.
SPECIFICATION FairSpec
CONSTANTS
  t1 = t1
  t2 = t2
  t3 = t3
  Threads = {t1, t2, t3}
  AbsoluteHead = AbsoluteHead
  RelativeHead = RelativeHead
  NULL = NULL
  Values <- MCValues
  Times <- MCTimes
  KeMaximumIncrement = 2
  MaxElapsed = 4
INVARIANTS
  TimedWaitsAccounted
PROPERTIES
  ExpiresOnTime
  RelativeWaitEnds
