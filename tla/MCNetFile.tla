------------------------------ MODULE MCNetFile ------------------------------
(* One file of five bytes, in chunks of two, and a name the server lacks. *)
EXTENDS NetFile

MCContent == [url \in {<<"kernel">>} |-> <<1, 2, 3, 4, 5>>]
=============================================================================
