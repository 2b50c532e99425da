----------------------------- MODULE MCObjects -----------------------------
(***************************************************************************)
(* Two threads; one of them opens files, and both use their handles and    *)
(* create processes and threads.  Five objects besides the permanent ones  *)
(* are a file, two of its instances and a section for each, or a process   *)
(* with threads; seven handles are those of the two directories and what   *)
(* two calls of NtReferenceSectionFromFile need.                           *)
(***************************************************************************)
EXTENDS ObjectClients
=============================================================================
