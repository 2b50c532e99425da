------------------------------- MODULE MCPool -------------------------------
(* A unit stands for 8 bytes: the header is 4 units, the descriptor 6, the *)
(* alignment 2.  A page is 8 units: its data may have to start in the block. *)
EXTENDS Pool, TLC
CONSTANTS t1, t2
CallersAreAlike == Permutations(Callers)
=============================================================================
