\* Waits for one object at a time: the refinement of FifoSignals, liveness.
SPECIFICATION FairSpec
CONSTANTS
  t1 = t1
  t2 = t2
  t3 = t3
  s1 = s1
  m1 = m1
  Threads = {t1, t2, t3}
  Semaphores = {s1}
  Mutexes = {m1}
  NULL = NULL
  Hung = Hung
  Limit <- MCLimit
  ULongMax = 3
  WaitArrays <- MCJoinWaitArrays
PROPERTIES
  RefinesFifoSignals
  
  ExitWakesWaiters
\* All threads may be asleep or gone.
CHECK_DEADLOCK FALSE
