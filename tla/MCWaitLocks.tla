---------------------------- MODULE MCWaitLocks ----------------------------
(***************************************************************************)
(* Instances of WaitLocks for TLC.                                         *)
(***************************************************************************)
EXTENDS WaitLocks, TLC

CONSTANTS t1, t2, t3, s1, m1

MCLimit == [s \in Semaphores |-> 1]

\* Arrays that agree on the order of the objects: t2, m1, s1.
MCPairArrays == {<<m1>>, <<t2, s1>>, <<m1, s1>>}

MCSingleArrays == {<<s1>>}
=============================================================================
