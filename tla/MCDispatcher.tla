---------------------------- MODULE MCDispatcher ----------------------------
(***************************************************************************)
(* Instances of Dispatcher for TLC.                                        *)
(***************************************************************************)
EXTENDS DispatcherRefinement, TLC

CONSTANTS t1, t2, t3, s1, m1

MCLimit == [s \in Semaphores |-> 1]

\* Waits for one object of each kind and for pairs; t1 and t2 can be
\* exchanged, t3 is the thread that the others wait for.
MCWaitArrays == {<<s1>>, <<t3>>, <<m1, s1>>, <<t3, m1>>}

MCSingleWaitArrays == {<<s1>>, <<m1>>, <<t3>>}

MCJoinWaitArrays == {<<m1>>, <<t3>>}

MCSymmetry == Permutations({t1, t2})
=============================================================================
