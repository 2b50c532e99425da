\* Waits for one and for two objects, with and without timeouts.
SPECIFICATION Spec
CONSTANTS
  t1 = t1
  t2 = t2
  t3 = t3
  s1 = s1
  m1 = m1
  Threads = {t1, t2, t3}
  Semaphores = {s1}
  Mutexes = {m1}
  NULL = NULL
  Hung = Hung
  Limit <- MCLimit
  ULongMax = 3
  WaitArrays <- MCWaitArrays
SYMMETRY MCSymmetry
INVARIANTS
  WaitBookkeeping
  NoLostWakeup
  MutexAccounted
  SemaphoreWithinLimit
\* All threads may be asleep or gone, and a WaitAny may hang the system.
CHECK_DEADLOCK FALSE
