\* Waits for one and two objects, WaitAll and WaitAny, timed and untimed.
CONSTANTS
  t1 = t1
  t2 = t2
  t3 = t3
  s1 = s1
  m1 = m1
  Threads = {t1, t2}
  Semaphores = {s1}
  Mutexes = {m1}
  NULL = NULL
  Hung = Hung
  GlobalLock = GlobalLock
  Clock = Clock
  Dpc = Dpc
  Limit <- MCLimit
  ULongMax = 3
  WaitArrays <- MCPairArrays
  WaitTypes = {"WaitAll", "WaitAny"}
  TimedWaits = {TRUE, FALSE}
SPECIFICATION LocksSpec
INVARIANTS
  LocksHeldInOrder
\* The rundowns may stop the system.
CHECK_DEADLOCK FALSE
