------------------------------- MODULE MCFat -------------------------------
(***************************************************************************)
(* A small volume for TLC.                                                 *)
(***************************************************************************)
EXTENDS Fat

CONSTANTS n1, n2, dir, x, y

\* The root has the cluster 2, the directory dir the cluster 3 and the file n1
\* the clusters 4 and 6; the others are free.
MCVolume ==
  [fat |-> [c \in 0 .. LastCluster |->
              CASE c = 4 -> 6 [] c \in {0, 1, 2, 3, 6} -> Eof [] OTHER -> 0],
   data |-> [c \in Clusters |->
               CASE c = 2 -> [Blank EXCEPT
                                ![1] = [NoEntry EXCEPT !.name = dir, !.dir = TRUE, !.cluster = 3],
                                ![2] = [NoEntry EXCEPT !.name = n1, !.cluster = 4, !.size = 3]]
                 [] c \in {4, 6} -> [i \in 1 .. Cells |-> x]
                 [] OTHER -> Blank],
   boot |-> TRUE]

MCStored == <<n1>> :> <<x, x, x>>

MCFiles == {<<n1>>, <<dir, n2>>, <<dir, n1, n2>>}
MCDirectories == {<<dir>>, <<dir, n1>>}
MCShadows == {<<n1, n2>>}
=============================================================================
