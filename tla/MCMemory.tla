------------------------------ MODULE MCMemory ------------------------------
(* Two processes with the same image: a header, code that starts in the     *)
(* middle of the file, and data.                                            *)
EXTENDS Memory

MCCoreList == <<"c1", "c2">>
MCSpans == <<32, 8>>
MCStackPages == <<1>>
MCImageSections ==
  <<[first |-> 0, pages |-> 1, offset |-> 0, write |-> FALSE],
    [first |-> 2, pages |-> 1, offset |-> 1, write |-> FALSE],
    [first |-> 3, pages |-> 1, offset |-> 2, write |-> TRUE]>>
=============================================================================
