---------------------------- MODULE FifoSignals ----------------------------
(***************************************************************************)
(* What waiting for one object at a time promises: an object is a count    *)
(* with a first-come, first-served queue, and a signal hands the count to  *)
(* the queue in one step, so that a positive count and a sleeping thread   *)
(* never meet.  Dispatcher implements it (module DispatcherRefinement).    *)
(***************************************************************************)
EXTENDS Integers, Sequences, SequencesExt

CONSTANTS
  Threads,    \* the threads
  Objects,    \* the objects they wait for
  ULongMax    \* counts are ULONGs: they wrap at ULongMax + 1

VARIABLES
  count,      \* signals not yet taken, of each object
  queue       \* the threads asleep for each object, oldest first

vars == <<count, queue>>

Asleep == UNION {ToSet(queue[o]) : o \in Objects}

Init ==
  /\ count \in [Objects -> 0 .. ULongMax]
  /\ queue = [o \in Objects |-> <<>>]

\* A signal is taken without sleeping.
Take(o) ==
  /\ count[o] > 0
  /\ count' = [count EXCEPT ![o] = @ - 1]
  /\ UNCHANGED queue

Sleep(t, o) ==
  /\ count[o] = 0
  /\ t \notin Asleep
  /\ queue' = [queue EXCEPT ![o] = Append(@, t)]
  /\ UNCHANGED count

\* n more signals, the oldest sleepers first.
Signal(o, n) ==
  LET total == (count[o] + n) % (ULongMax + 1)
      served == IF total < Len(queue[o]) THEN total ELSE Len(queue[o])
  IN /\ count' = [count EXCEPT ![o] = total - served]
     /\ queue' = [queue EXCEPT ![o] = SubSeq(@, served + 1, Len(@))]

\* A sleeper gives up.
GiveUp(t, o) ==
  /\ Contains(queue[o], t)
  /\ queue' = [queue EXCEPT ![o] = RemoveFirst(@, t)]
  /\ UNCHANGED count

Next ==
  \E o \in Objects :
    \/ Take(o)
    \/ \E t \in Threads : Sleep(t, o) \/ GiveUp(t, o)
    \/ \E n \in 1 .. ULongMax : Signal(o, n)

Spec == Init /\ [][Next]_vars
=============================================================================
