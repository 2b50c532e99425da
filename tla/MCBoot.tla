------------------------------- MODULE MCBoot -------------------------------
(* The kernel and the HAL import each other; the HAL also needs a module    *)
(* that imports the kernel.                                                 *)
EXTENDS Boot

Section(first, pages, user, write) ==
  [first |-> first, pages |-> pages, user |-> user, write |-> write]
Import(from, name) == [from |-> from, name |-> name]

MCImages ==
  [krnl |-> [sections |-> <<Section(0, 1, FALSE, TRUE), Section(1, 1, TRUE, FALSE)>>,
             names |-> <<"KeBugCheck", "KeStall">>, ordinals |-> <<1, 2>>, functions |-> 3,
             imports |-> <<Import("hal", "HalInit")>>,
             preferred |-> 0, relocatable |-> FALSE],
   hal  |-> [sections |-> <<Section(0, 1, FALSE, FALSE)>>,
             names |-> <<"HalInit">>, ordinals |-> <<1>>, functions |-> 1,
             imports |-> <<Import("krnl", "KeStall"), Import("kd", "KdPrint")>>,
             preferred |-> 2, relocatable |-> TRUE],
   kd   |-> [sections |-> <<Section(0, 1, FALSE, TRUE)>>,
             names |-> <<"KdPrint">>, ordinals |-> <<1>>, functions |-> 1,
             imports |-> <<Import("krnl", "KeBugCheck")>>,
             preferred |-> 3, relocatable |-> TRUE]]
MCPreload == <<"smss", "ntdll">>
MCFileFrames == [smss |-> 1, ntdll |-> 2]
=============================================================================
