\* Two cores and three threads of two priorities, whose affinities change.
SPECIFICATION Spec
CONSTANTS
  c1 = c1
  c2 = c2
  t1 = t1
  t2 = t2
  t3 = t3
  idle1 = idle1
  idle2 = idle2
  Cores = {c1, c2}
  BootCore = c1
  Threads = {t1, t2, t3}
  IdleThread <- MCIdleThread
  Priority <- MCPriority
  AffinityMask <- MCPinned
  SystemAffinity <- MCSystemAffinity
  QuantumReset = 1
  LateWakes = FALSE
  NULL = NULL
INVARIANTS
  ThreadsInPlace
  
PROPERTIES
  
  AffinityHonoured
