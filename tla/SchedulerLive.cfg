\* Two cores and three threads of the same priority: liveness.
SPECIFICATION FairSpec
CONSTANTS
  c1 = c1
  c2 = c2
  t1 = t1
  t2 = t2
  t3 = t3
  idle1 = idle1
  idle2 = idle2
  Cores = {c1, c2}
  BootCore = c1
  Threads = {t1, t2, t3}
  IdleThread <- MCIdleThread
  Priority <- MCEqualPriority
  AffinityMask <- MCAffinityMask
  SystemAffinity <- MCNoSystemAffinity
  QuantumReset = 1
  LateWakes = FALSE
  NULL = NULL

PROPERTY ReadyThreadsRun
