------------------------------ MODULE WaitLocks ------------------------------
(***************************************************************************)
(* The spin locks of the dispatcher: the order in which the calls that     *)
(* module Dispatcher makes in one step take the locks of their objects and *)
(* the DispatcherLock (wait.c, dispatcher.c, ntmutex.c, ntsemaphore.c,     *)
(* PsExitThread and PspScheduleThread in scheduler.c).  A call acquires    *)
(* its locks one by one, and then makes Dispatcher's steps; before a step  *)
(* that ends another thread's wait it passes, that is, takes and releases  *)
(* again, the locks that RundownWaitBlocks takes.                          *)
(*                                                                         *)
(* Spin locks are held at DISPATCH_LEVEL or above, so an agent is a core:  *)
(* every awake thread has one.  The clock tick is an agent of its own; a   *)
(* tick on top of an interrupted call waits for the same locks.  The       *)
(* ThreadLocks are left out: these calls take them only with the           *)
(* DispatcherLock held.  Waits with a timeout of zero are left out, too.   *)
(***************************************************************************)
EXTENDS Dispatcher

CONSTANTS
  GlobalLock,   \* the spin lock DispatcherLock
  Clock,        \* the core where the clock ticks
  Dpc,          \* the core that runs MouseDpcRoutine
  WaitTypes,    \* the types of wait in use
  TimedWaits    \* {FALSE}, or {TRUE, FALSE}: may waits have a timeout?

Agents == Threads \cup {Clock, Dpc}
Locks == Objects \cup {GlobalLock}

\* A call under way: what it was called for, the locks it has yet to acquire,
\* and those that its rundown has passed.
CallRecords ==
  [op : {"wait", "mutex", "exit", "read", "semaphore", "tick"},
   objs : Seq(Objects), type : {"WaitAll", "WaitAny"}, timed : BOOLEAN,
   locks : Seq(Locks), passed : SUBSET Objects]

ASSUME AgentsAssumption ==
  /\ GlobalLock \notin Objects \cup {NULL}
  /\ Clock # Dpc /\ {Clock, Dpc} \cap (Threads \cup {NULL}) = {}
  /\ WaitTypes \subseteq {"WaitAll", "WaitAny"}
  /\ TimedWaits \subseteq BOOLEAN
  /\ NULL \notin CallRecords

VARIABLES
  Holder,   \* the agent that holds each lock, NULL if it is free
  Call      \* the call each agent is in, NULL if it is in none

lockVars == <<Holder, Call>>
allVars == <<vars, lockVars>>

\* A lock is held only by an agent that is in a call.
LocksTypeOK ==
  /\ Holder \in [Locks -> Agents \cup {NULL}]
  /\ \A l \in Locks : Holder[l] = NULL \/ Call[Holder[l]] # NULL
  /\ Call \in [Agents -> CallRecords \cup {NULL}]

LocksInit ==
  /\ Init
  /\ Holder = [l \in Locks |-> NULL]
  /\ Call = [a \in Agents |-> NULL]
-----------------------------------------------------------------------------
\* Mutant: a wait takes the dispatcher lock first.
DispatcherFirst(op, objs) ==
  CASE op = "tick" -> <<GlobalLock>>
    [] op = "read" -> objs
    [] op = "wait" -> <<GlobalLock>> \o objs
    [] OTHER -> Append(objs, GlobalLock)

\* The locks a call takes, in their order: those of its objects, then the
\* dispatcher lock.
LockOrder(op, objs) ==
  CASE op = "tick" -> <<GlobalLock>>
    [] op = "read" -> objs
    [] OTHER -> Append(objs, GlobalLock)

Begin(a, op, objs, type, timed) ==
  /\ Call[a] = NULL
  /\ Call' = [Call EXCEPT ![a] =
                [op |-> op, objs |-> objs, type |-> type, timed |-> timed,
                 locks |-> LockOrder(op, objs), passed |-> {}]]
  /\ UNCHANGED <<vars, Holder>>

BeginSimple(a, op, o) == Begin(a, op, <<o>>, "WaitAll", FALSE)

ThreadCalls(t) ==
  /\ ThreadState[t] = "AWAKE"
  /\ \/ \E objs \in WaitArrays, type \in WaitTypes, timed \in TimedWaits :
          /\ t \notin ToSet(objs)
          /\ Begin(t, "wait", objs, type, timed)
     \/ \E m \in Holds[t] : BeginSimple(t, "mutex", m)
     \/ BeginSimple(t, "exit", t)

DpcCalls(s) == BeginSimple(Dpc, IF Sampled[s] = NULL THEN "read" ELSE "semaphore", s)

\* A tick that will find the timeout of t expired.
ClockCalls(t) == Timed[t] /\ BeginSimple(Clock, "tick", t)

\* KiAcquireSpinLock gets the lock that the call needs next.
Acquire(a) ==
  /\ Call[a] # NULL /\ Call[a].locks # <<>>
  /\ Holder[Head(Call[a].locks)] = NULL
  /\ Holder' = [Holder EXCEPT ![Head(Call[a].locks)] = a]
  /\ Call' = [Call EXCEPT ![a].locks = Tail(@)]
  /\ UNCHANGED vars

\* The call releases its locks and ends.
Return(a) ==
  /\ Call' = [Call EXCEPT ![a] = NULL]
  /\ Holder' = [l \in Locks |-> IF Holder[l] = a THEN NULL ELSE Holder[l]]

\* KiSignal leaves the locks to its caller.
KeepsLocks(a) == UNCHANGED lockVars
-----------------------------------------------------------------------------
(***************************************************************************)
(* RundownWaitBlocks takes the lock of each object whose block is linked.  *)
(***************************************************************************)

\* Whose wait is the call of a about to end?
Ends(a) ==
  LET o == Call[a].objs[1]
  IN CASE Call[a].op \in {"mutex", "exit", "semaphore"} ->
            IF /\ DispatcherLock = o /\ ~Exhausted(o)
               /\ LastBlock(Oldest(o)) \/ WaitType[Oldest(o)] = "WaitAny"
            THEN Oldest(o) ELSE NULL
       [] Call[a].op = "tick" -> IF Timed[o] THEN o ELSE NULL
       [] OTHER -> NULL

\* A wait for any of several objects that finds one signalled ends itself,
\* while it holds the locks of them all.
EndsItself(a) ==
  /\ Call[a].op = "wait" /\ Call[a].type = "WaitAny"
  /\ Len(Call[a].objs) > 1 /\ Signalled(Call[a].objs) # {}

\* The objects of the wait blocks that are run down, in their order.
Blocks(a) ==
  IF EndsItself(a) THEN Call[a].objs
  ELSE IF Ends(a) # NULL THEN WaitObjects[Ends(a)] ELSE <<>>

FirstSignalled(objs) == Min({i \in DOMAIN objs : SignalState[objs[i]] > 0})

\* The blocks whose locks the rundown has yet to take.
Rundown(a) ==
  {i \in DOMAIN Blocks(a) :
     IF EndsItself(a) THEN i # FirstSignalled(Blocks(a))
     ELSE /\ Blocks(a)[i] \in LinkedBlocks[Ends(a)] \ Call[a].passed
          /\ Blocks(a)[i] # DispatcherLock}

\* The lock that a needs to go on, NULL if it needs none.
Wanted(a) ==
  IF Call[a] = NULL THEN NULL
  ELSE IF Call[a].locks # <<>> THEN Head(Call[a].locks)
  ELSE IF Rundown(a) # {} THEN Blocks(a)[Min(Rundown(a))]
  ELSE NULL

RundownWaitBlocks(a) ==
  /\ Call[a] # NULL /\ Call[a].locks = <<>> /\ Wanted(a) # NULL
  /\ Holder[Wanted(a)] = NULL
  /\ Call' = [Call EXCEPT ![a].passed = @ \cup {Wanted(a)}]
  /\ UNCHANGED <<vars, Holder>>

\* The call has the locks it needs to make Dispatcher's next step.
Ready(a, ops) ==
  Call[a] # NULL /\ Wanted(a) = NULL /\ Call[a].op \in ops

Waits(t) ==
  /\ Ready(t, {"wait"})
  /\ LET c == Call[t]
     IN \/ /\ c.type = "WaitAll" \/ Len(c.objs) = 1
           /\ WaitSatisfied(t, c.objs)
        \/ /\ c.type = "WaitAll" \/ Signalled(c.objs) = {}
           /\ WaitBlocks(t, c.objs, c.type, c.timed)
  /\ Return(t)

StartsSignal(a) ==
  LET o == Call[a].objs[1]
  IN /\ Ready(a, {"mutex", "exit", "semaphore"})
     /\ DispatcherLock = NULL
     /\ CASE Call[a].op = "mutex" -> KeReleaseMutex(a, o)
          [] Call[a].op = "exit" -> PsExitThread(a)
          [] OTHER -> KeReleaseSemaphore(o)
     /\ KeepsLocks(a)

Signals(a) ==
  LET o == Call[a].objs[1]
  IN /\ Ready(a, {"mutex", "exit", "semaphore"})
     /\ \/ /\ KiSignalWakes(o)
           /\ Call' = [Call EXCEPT ![a].passed = {}]
           /\ UNCHANGED Holder
        \/ KiSignalSatisfies(o) /\ UNCHANGED lockVars
        \/ KiSignalReturns(o) /\ Return(a)

Reads ==
  LET s == Call[Dpc].objs[1]
  IN /\ Ready(Dpc, {"read"})
     /\ IF BelowLimit(s) THEN KeReadStateSemaphore(s) ELSE UNCHANGED vars
     /\ Return(Dpc)

\* The timeout may have been disarmed while the tick waited for its lock.
Expires ==
  LET t == Call[Clock].objs[1]
  IN /\ Ready(Clock, {"tick"})
     /\ IF Timed[t] THEN PspOnThreadTimeout(t) ELSE UNCHANGED vars
     /\ Return(Clock)
-----------------------------------------------------------------------------
LocksNext ==
  \/ \E t \in Threads : ThreadCalls(t) \/ ClockCalls(t) \/ Waits(t)
  \/ \E s \in Semaphores : DpcCalls(s)
  \/ \E a \in Agents :
       \/ Acquire(a) \/ RundownWaitBlocks(a)
       \/ StartsSignal(a) \/ Signals(a)
  \/ Reads \/ Expires

LocksSpec == LocksInit /\ [][LocksNext]_allVars
-----------------------------------------------------------------------------
(***************************************************************************)
(* Properties.                                                             *)
(***************************************************************************)

\* Agents that wait for each other's locks, or one that waits for its own.
Deadlocked(S) ==
  /\ S # {}
  /\ \A a \in S : Wanted(a) # NULL /\ Holder[Wanted(a)] \in S

\* No cores spin for each other's locks, for ever and at raised IRQL: a wait
\* can be ended by KeUnwaitThreadNoLock (wait.c:176).
NoDeadlock == \A S \in SUBSET Agents : ~Deadlocked(S)

\* Whatever the waits, as long as their arrays agree on an order: cores that
\* spin for each other's locks do so because one of them runs down the wait
\* blocks of a thread, with the dispatcher lock held.
DeadlocksNeedARundown ==
  \A S \in SUBSET Agents :
    Deadlocked(S) => \E a \in S : Call[a].locks = <<>>

\* ASSERT(LOCKED(Object->Lock)) and ASSERT(LOCKED(DispatcherLock)) of KiSignal
\* (dispatcher.c:175), with the locks held by the caller and not by anybody:
\* all through its loop, rundowns included, a signal keeps both.
SignalKeepsItsLocks ==
  DispatcherLock # NULL =>
    /\ Holder[GlobalLock] # NULL
    /\ Holder[DispatcherLock] = Holder[GlobalLock]
    /\ Call[Holder[GlobalLock]].objs = <<DispatcherLock>>
\* The locks of wait.c and dispatcher.c are taken in one order and kept for
\* the whole of a signal, and a lock that is held belongs to a call that is
\* under way: the three parts above.
LocksHeldInOrder ==
  /\ LocksTypeOK
  /\ DeadlocksNeedARundown
  /\ SignalKeepsItsLocks
=============================================================================
