------------------------ MODULE DispatcherRefinement ------------------------
(***************************************************************************)
(* Dispatcher implements FifoSignals when every wait is for one object.    *)
(* KiSignal serves its waiters one at a time, but with the dispatcher lock *)
(* held: the abstract queue has already lost those it will serve.          *)
(***************************************************************************)
EXTENDS Dispatcher

\* The waiters that the KiSignal under way has yet to serve.
Unserved(o) ==
  IF SignalState[o] < Len(WaitHead[o]) THEN SignalState[o]
                                       ELSE Len(WaitHead[o])

AbstractCount == [o \in Objects |-> SignalState[o] - Unserved(o)]

AbstractQueue ==
  [o \in Objects |-> SubSeq(WaitHead[o], Unserved(o) + 1, Len(WaitHead[o]))]

Abstract ==
  INSTANCE FifoSignals WITH count <- AbstractCount, queue <- AbstractQueue

\* Waits for one object at a time behave as a counter with a first-come,
\* first-served queue: no signal is lost, invented or given out of turn.
RefinesFifoSignals == Abstract!Spec
=============================================================================
