---------------------------- MODULE MCScheduler ----------------------------
(***************************************************************************)
(* Instances of Scheduler for TLC.                                         *)
(***************************************************************************)
EXTENDS Scheduler, TLC

CONSTANTS c1, c2, t1, t2, t3, idle1, idle2

MCIdleThread == [c \in Cores |-> IF c = c1 THEN idle1 ELSE idle2]

\* t3 is more urgent than the other two.
MCPriority ==
  [t \in AllThreads |-> IF t \in IdleThreads THEN 0 ELSE IF t = t3 THEN 2 ELSE 1]

MCEqualPriority == [t \in AllThreads |-> IF t \in IdleThreads THEN 0 ELSE 1]

\* t2 may run on the first core only, t1 and t3 on both.
MCAffinityMask == [t \in Threads |-> IF t = t2 THEN {c1} ELSE Cores]

\* Only the most urgent thread may run on both cores, until the others move
\* themselves.
MCPinned ==
  [t \in Threads |-> CASE t = t1 -> {c2} [] t = t2 -> {c1} [] OTHER -> Cores]

\* The second thread moves itself to the second core and back.
MCSystemAffinity == [t \in Threads |-> IF t = t2 THEN {{c2}} ELSE {}]

MCNoSystemAffinity == [t \in Threads |-> {}]
=============================================================================
