----------------------------- MODULE Dispatcher -----------------------------
(***************************************************************************)
(* Waiting and signalling in the kernel dispatcher: dispatcher/wait.c,     *)
(* dispatcher/dispatcher.c, dispatcher/ntmutex.c, dispatcher/ntsemaphore.c *)
(* and the thread-object side of PsExitThread (scheduler.c).               *)
(*                                                                         *)
(* Every change of this state is made with the global DispatcherLock held, *)
(* so a call is one step here, except that KiSignal's loop takes one step  *)
(* per wait block it satisfies; DispatcherLock names the object whose      *)
(* KiSignal is under way and keeps every other call out.  Which core runs  *)
(* an awake thread is the business of module Scheduler: "AWAKE" stands for *)
(* both THREAD_STATE_READY and THREAD_STATE_RUNNING.  The order in which   *)
(* the spin locks are taken is the business of module WaitLocks.           *)
(***************************************************************************)
EXTENDS Integers, Sequences, FiniteSets, SequencesExt

CONSTANTS
  Threads,        \* the threads; each is itself an object to wait for
  Semaphores,     \* the semaphores
  Mutexes,        \* the mutexes (KMUTANT)
  NULL,           \* "no object", "no thread", "no value"
  Hung,           \* DispatcherLock is held by a core that spins forever
  Limit,          \* [Semaphores -> Nat]: the Limit of KeInitializeSemaphore
  ULongMax,       \* the largest ULONG, 2^32 - 1 in the build
  WaitArrays      \* the arrays of objects that are waited for

Objects == Threads \cup Semaphores \cup Mutexes

ASSUME DisjointAssumption ==
  /\ Threads \cap Semaphores = {}
  /\ Threads \cap Mutexes = {}
  /\ Semaphores \cap Mutexes = {}
  /\ {NULL, Hung} \cap Objects = {} /\ NULL # Hung

ASSUME BoundsAssumption ==
  /\ ULongMax \in Nat \ {0}
  /\ Limit \in [Semaphores -> 1 .. ULongMax]

\* An array that names an object twice would have its caller spin for a lock
\* it holds; no caller passes one.
ASSUME WaitArraysAssumption ==
  /\ WaitArrays \subseteq Seq(Objects) \ {<<>>}
  /\ \A objs \in WaitArrays : IsInjective(objs)

STATUS_SUCCESS == 0
STATUS_TIMEOUT == 258

VARIABLES
  ThreadState,     \* "AWAKE", "WAITING" or "TERMINATED"
  WaitObjects,     \* the array of objects the thread waits for, <<>> if none
  WaitType,        \* "WaitAll" (0) or "WaitAny"; cleared with the blocks
  LinkedBlocks,    \* objects whose wait block of this thread is still linked
  ActiveBlocks,    \* NumberOfActiveWaitBlocks
  Timed,           \* does the thread have an armed timeout?
  SignalState,     \* SignalState of each object
  WaitHead,        \* the threads whose wait blocks are linked, oldest first
  TypedMutexes,    \* the mutexes whose Header.Type still reads MutexObject
  Owner,           \* KMUTANT.Owner
  Sampled,         \* what MouseDpcRoutine read, until it releases
  DispatcherLock,  \* NULL, the object being signalled, or Hung
  Holds,           \* history: the mutexes each thread's waits returned for
  Abandoned        \* history: the mutexes taken by a WaitAll that gave up

threadVars == <<ThreadState, WaitObjects, WaitType, LinkedBlocks,
                ActiveBlocks, Timed>>
vars == <<threadVars, SignalState, WaitHead, TypedMutexes, Owner, Sampled,
          DispatcherLock, Holds, Abandoned>>

TypeOK ==
  /\ ThreadState \in [Threads -> {"AWAKE", "WAITING", "TERMINATED"}]
  /\ WaitObjects \in [Threads -> WaitArrays \cup {<<>>}]
  /\ WaitType \in [Threads -> {"WaitAll", "WaitAny"}]
  /\ LinkedBlocks \in [Threads -> SUBSET Objects]
  /\ ActiveBlocks \in [Threads -> Int]
  /\ Timed \in [Threads -> BOOLEAN]
  /\ SignalState \in [Objects -> 0 .. ULongMax]
  /\ WaitHead \in [Objects -> Seq(Threads)]
  /\ TypedMutexes \in SUBSET Mutexes
  /\ Owner \in [Mutexes -> Threads \cup {NULL}]
  /\ Sampled \in [Semaphores -> 0 .. ULongMax \cup {NULL}]
  /\ DispatcherLock \in Objects \cup {NULL, Hung}
  /\ Holds \in [Threads -> SUBSET Mutexes]
  /\ Abandoned \in SUBSET Mutexes

(***************************************************************************)
(* A mutex starts free.  No code of the repository initialises a KMUTANT:  *)
(* its initial state is what KeReleaseMutex and the wait routines expect.  *)
(***************************************************************************)
Init ==
  /\ ThreadState = [t \in Threads |-> "AWAKE"]
  /\ WaitObjects = [t \in Threads |-> <<>>]
  /\ WaitType = [t \in Threads |-> "WaitAll"]
  /\ LinkedBlocks = [t \in Threads |-> {}]
  /\ ActiveBlocks = [t \in Threads |-> 0]
  /\ Timed = [t \in Threads |-> FALSE]
  /\ SignalState = [o \in Objects |-> IF o \in Threads THEN 0 ELSE 1]
  /\ WaitHead = [o \in Objects |-> <<>>]
  /\ TypedMutexes = Mutexes
  /\ Owner = [m \in Mutexes |-> NULL]
  /\ Sampled = [s \in Semaphores |-> NULL]
  /\ DispatcherLock = NULL
  /\ Holds = [t \in Threads |-> {}]
  /\ Abandoned = {}
-----------------------------------------------------------------------------
(***************************************************************************)
(* Helpers of the actions.                                                 *)
(***************************************************************************)

\* KiUnwaitWaitBlock's call of the type's routine for the blocks of t on the
\* objects S: KiUnwaitWaitBlockMutex records the owner, for as long as the
\* header still carries its type.
OwnerAfterUnwait(t, S) ==
  [m \in Mutexes |-> IF m \in S \cap TypedMutexes THEN t ELSE Owner[m]]

\* KiReleaseSpinLock clears the whole word of the lock, and Header.Type is
\* its fourth byte: a released object has lost its type.
ReleaseObjectLocks(S) == TypedMutexes' = TypedMutexes \ S

\* Mutant: the signal is not used up.
DesignalNothing(S) == UNCHANGED SignalState

\* KiUnwaitWaitBlock with Designal, for each object of S.
Designal(S) ==
  SignalState' = [o \in Objects |-> IF o \in S THEN SignalState[o] - 1
                                               ELSE SignalState[o]]

\* The mutexes a wait of t that ends with this status was granted: all it
\* asked for, or the one the status is the index of.
Granted(t, status) ==
  IF WaitType[t] = "WaitAll"
  THEN ToSet(WaitObjects[t]) \cap Mutexes
  ELSE {WaitObjects[t][status + 1]} \cap Mutexes

\* The mutexes that the sleeping WaitAll of t has already taken.
Taken(t) == (ToSet(WaitObjects[t]) \ LinkedBlocks[t]) \cap Mutexes

\* KeUnwaitThreadNoLock on a waiting thread: it is made ready, its timeout is
\* removed and RundownWaitBlocks unlinks whatever blocks are left.
KeUnwaitThreadNoLock(t, status) ==
  /\ ThreadState' = [ThreadState EXCEPT ![t] = "AWAKE"]
  /\ WaitObjects' = [WaitObjects EXCEPT ![t] = <<>>]
  /\ LinkedBlocks' = [LinkedBlocks EXCEPT ![t] = {}]
  /\ ActiveBlocks' = [ActiveBlocks EXCEPT
                        ![t] = @ - Cardinality(LinkedBlocks[t])]
  /\ Timed' = [Timed EXCEPT ![t] = FALSE]
  /\ WaitHead' = [o \in Objects |->
                    IF o \in LinkedBlocks[t] THEN RemoveFirst(WaitHead[o], t)
                                             ELSE WaitHead[o]]
  /\ Owner' = OwnerAfterUnwait(t, LinkedBlocks[t])
  /\ Holds' = IF status = STATUS_TIMEOUT THEN Holds
              ELSE [Holds EXCEPT ![t] = @ \cup Granted(t, status)]
  /\ Abandoned' = IF status = STATUS_TIMEOUT THEN Abandoned \cup Taken(t)
                  ELSE Abandoned
  /\ WaitType' = [WaitType EXCEPT ![t] = "WaitAll"]
-----------------------------------------------------------------------------
(***************************************************************************)
(* KeWaitForMultipleObjects, called by an awake thread t for the array     *)
(* objs; KeWaitForSingleObject is the call with one object and WaitAll.    *)
(* The call links a block per object, then satisfies those whose object is *)
(* signalled, in the order of the array.                                   *)
(***************************************************************************)

Signalled(objs) == {o \in ToSet(objs) : SignalState[o] > 0}

\* Mutant: a thread that sleeps or has exited still calls.
CanCallAnyTime(t) == DispatcherLock = NULL

CanCall(t) == DispatcherLock = NULL /\ ThreadState[t] = "AWAKE"

\* Everything waited for was signalled: STATUS_SUCCESS without blocking.
WaitSatisfied(t, objs) ==
  /\ CanCall(t)
  /\ Signalled(objs) = ToSet(objs)
  /\ Designal(ToSet(objs))
  /\ Owner' = OwnerAfterUnwait(t, ToSet(objs))
  /\ Holds' = [Holds EXCEPT ![t] = @ \cup (ToSet(objs) \cap Mutexes)]
  /\ ReleaseObjectLocks(ToSet(objs))
  /\ UNCHANGED <<threadVars, WaitHead, Sampled, DispatcherLock, Abandoned>>

\* A WaitAny for several objects one of which is signalled: RundownWaitBlocks
\* spins for the lock of another of the objects, which this call itself
\* holds, and the dispatcher lock is never released.
WaitHangs(t, objs) ==
  /\ CanCall(t)
  /\ Len(objs) > 1 /\ Signalled(objs) # {}
  /\ DispatcherLock' = Hung
  /\ UNCHANGED <<threadVars, SignalState, WaitHead, TypedMutexes, Owner,
                 Sampled, Holds, Abandoned>>

\* The signals a wait that is not satisfied has taken all the same.
TakeSignalled(t, objs) ==
  /\ Signalled(objs) # ToSet(objs)
  /\ Designal(Signalled(objs))
  /\ Owner' = OwnerAfterUnwait(t, Signalled(objs))
  /\ ReleaseObjectLocks(ToSet(objs))

\* A timeout of zero: the call gives up at once with STATUS_TIMEOUT.  The
\* signals already taken are not given back.
WaitPolls(t, objs) ==
  /\ CanCall(t)
  /\ TakeSignalled(t, objs)
  /\ Abandoned' = Abandoned \cup (Signalled(objs) \cap Mutexes)
  /\ UNCHANGED <<threadVars, WaitHead, Sampled, DispatcherLock, Holds>>

WaitBlocks(t, objs, type, timed) ==
  /\ CanCall(t)
  /\ TakeSignalled(t, objs)
  /\ LET linked == ToSet(objs) \ Signalled(objs)
     IN /\ LinkedBlocks' = [LinkedBlocks EXCEPT ![t] = linked]
        /\ ActiveBlocks' = [ActiveBlocks EXCEPT
                              ![t] = Len(objs) - Cardinality(Signalled(objs))]
        /\ WaitHead' = [o \in Objects |->
                          IF o \in linked THEN Append(WaitHead[o], t)
                                          ELSE WaitHead[o]]
  /\ ThreadState' = [ThreadState EXCEPT ![t] = "WAITING"]
  /\ WaitObjects' = [WaitObjects EXCEPT ![t] = objs]
  /\ WaitType' = [WaitType EXCEPT ![t] = type]
  /\ Timed' = [Timed EXCEPT ![t] = timed]
  /\ UNCHANGED <<Sampled, DispatcherLock, Holds, Abandoned>>

KeWaitForMultipleObjects(t) ==
  \E objs \in WaitArrays, type \in {"WaitAll", "WaitAny"},
     timeout \in {"none", "zero", "armed"} :
    /\ t \notin ToSet(objs)
    /\ \/ /\ type = "WaitAll" \/ Len(objs) = 1
          /\ WaitSatisfied(t, objs)
       \/ /\ type = "WaitAny"
          /\ WaitHangs(t, objs)
       \/ /\ type = "WaitAll" \/ Signalled(objs) = {}
          /\ IF timeout = "zero" THEN WaitPolls(t, objs)
             ELSE WaitBlocks(t, objs, type, timeout = "armed")
-----------------------------------------------------------------------------
(***************************************************************************)
(* KiSignal and its callers.  The caller adds to SignalState and takes the *)
(* dispatcher lock; the loop wakes the oldest waiter while the object is   *)
(* signalled, and the caller releases the locks.                           *)
(***************************************************************************)
StartSignal(o, increment) ==
  /\ DispatcherLock = NULL
  /\ SignalState' = [SignalState EXCEPT
                       ![o] = (@ + increment) % (ULongMax + 1)]
  /\ DispatcherLock' = o

\* Mutant: the newest waiter is served first.
Newest(o) == Last(WaitHead[o])

\* RemoveHeadList of the object's wait list.
Oldest(o) == Head(WaitHead[o])

\* Mutant: a WaitAll is woken by its first object.
AnyBlock(t) == TRUE

LastBlock(t) == ActiveBlocks[t] = 1

\* Mutant: the loop condition misses the second waiter.
OnceOnly(o) == TRUE

\* The loop condition of KiSignal is false.
Exhausted(o) == SignalState[o] = 0 \/ WaitHead[o] = <<>>

\* The block at the head of the list is satisfied, and with it the wait of
\* its thread: the block was the last one, or any one is enough.
KiSignalWakes(o) ==
  /\ DispatcherLock = o
  /\ ~Exhausted(o)
  /\ LET t == Oldest(o)
         Index == CHOOSE i \in DOMAIN WaitObjects[t] : WaitObjects[t][i] = o
     IN IF LastBlock(t)
        THEN KeUnwaitThreadNoLock(t, STATUS_SUCCESS)
        ELSE /\ WaitType[t] = "WaitAny"
             /\ KeUnwaitThreadNoLock(t, Index - 1)
  /\ Designal({o})
  /\ UNCHANGED <<TypedMutexes, Sampled, DispatcherLock>>

\* The block at the head of the list is satisfied, but its thread waits for
\* more objects: it has used up this signal and stays asleep.
KiSignalSatisfies(o) ==
  /\ DispatcherLock = o
  /\ ~Exhausted(o)
  /\ LET t == Oldest(o)
     IN /\ ~LastBlock(t) /\ WaitType[t] = "WaitAll"
        /\ LinkedBlocks' = [LinkedBlocks EXCEPT ![t] = @ \ {o}]
        /\ ActiveBlocks' = [ActiveBlocks EXCEPT ![t] = @ - 1]
        /\ WaitHead' = [WaitHead EXCEPT ![o] = RemoveFirst(@, t)]
        /\ Owner' = OwnerAfterUnwait(t, {o})
  /\ Designal({o})
  /\ UNCHANGED <<ThreadState, WaitObjects, WaitType, Timed, TypedMutexes,
                 Sampled, DispatcherLock, Holds, Abandoned>>

\* Mutant: the caller returns with the dispatcher lock.
ReturnsWithLock(o) ==
  /\ DispatcherLock = o
  /\ Exhausted(o)
  /\ ReleaseObjectLocks({o})
  /\ UNCHANGED <<threadVars, SignalState, WaitHead, Owner, Sampled, Holds,
                 Abandoned, DispatcherLock>>

KiSignalReturns(o) ==
  /\ DispatcherLock = o
  /\ Exhausted(o)
  /\ DispatcherLock' = NULL
  /\ ReleaseObjectLocks({o})
  /\ UNCHANGED <<threadVars, SignalState, WaitHead, Owner, Sampled, Holds,
                 Abandoned>>

KiSignal(o) == KiSignalWakes(o) \/ KiSignalSatisfies(o) \/ KiSignalReturns(o)

\* Mutant: the limit test is off by one.
AtMostLimit(s) == SignalState[s] <= Limit[s]

BelowLimit(s) == SignalState[s] < Limit[s]

\* The semaphores are released by a deferred procedure that first reads the
\* count and goes on only below the limit (MouseDpcRoutine, the caller of
\* KeReadStateSemaphore and KeReleaseSemaphore).  A DPC does not run twice
\* at the same time.
KeReadStateSemaphore(s) ==
  /\ DispatcherLock \notin {s, Hung}
  /\ Sampled[s] = NULL /\ BelowLimit(s)
  /\ Sampled' = [Sampled EXCEPT ![s] = SignalState[s]]
  /\ ReleaseObjectLocks({s})
  /\ UNCHANGED <<threadVars, SignalState, WaitHead, Owner, DispatcherLock,
                 Holds, Abandoned>>

KeReleaseSemaphore(s) ==
  /\ Sampled[s] # NULL
  /\ Sampled' = [Sampled EXCEPT ![s] = NULL]
  /\ StartSignal(s, 1)
  /\ UNCHANGED <<threadVars, WaitHead, TypedMutexes, Owner, Holds, Abandoned>>

\* Released by a thread one of whose waits was granted the mutex.
KeReleaseMutex(t, m) ==
  /\ CanCall(t)
  /\ m \in Holds[t]
  /\ Holds' = [Holds EXCEPT ![t] = @ \ {m}]
  /\ Owner' = [Owner EXCEPT ![m] = NULL]
  /\ StartSignal(m, 1)
  /\ UNCHANGED <<threadVars, WaitHead, TypedMutexes, Sampled, Abandoned>>

\* Mutant: the exit signals its thread object only once.
ExitIncrementOne == 1

ExitIncrement == ULongMax

\* The thread object is signalled with an increment of -1, that is, 2^32 - 1:
\* enough for all the threads that wait for it and (nearly) all that will.
PsExitThread(t) ==
  /\ CanCall(t)
  /\ ThreadState' = [ThreadState EXCEPT ![t] = "TERMINATED"]
  /\ StartSignal(t, ExitIncrement)
  /\ UNCHANGED <<WaitObjects, WaitType, LinkedBlocks, ActiveBlocks, Timed,
                 WaitHead, TypedMutexes, Owner, Sampled, Holds, Abandoned>>

\* A clock tick finds the timeout of t expired (KiExpireTimeout).
PspOnThreadTimeout(t) ==
  /\ DispatcherLock = NULL
  /\ ThreadState[t] = "WAITING" /\ Timed[t]
  /\ KeUnwaitThreadNoLock(t, STATUS_TIMEOUT)
  /\ UNCHANGED <<SignalState, TypedMutexes, Sampled, DispatcherLock>>
-----------------------------------------------------------------------------
Next ==
  \/ \E t \in Threads :
       \/ KeWaitForMultipleObjects(t)
       \/ \E m \in Mutexes : KeReleaseMutex(t, m)
       \/ PsExitThread(t)
       \/ PspOnThreadTimeout(t)
  \/ \E s \in Semaphores : KeReadStateSemaphore(s) \/ KeReleaseSemaphore(s)
  \/ \E o \in Objects : KiSignal(o)

Spec == Init /\ [][Next]_vars

\* KiSignal's loop runs on a core that holds its locks and cannot be
\* preempted.  The clock keeps ticking on every core, and a tick that finds
\* the dispatcher lock taken waits for it: it is not overtaken for ever.
Fairness ==
  /\ \A o \in Objects : WF_vars(KiSignal(o))
  /\ \A t \in Threads : SF_vars(PspOnThreadTimeout(t))

FairSpec == Spec /\ Fairness
-----------------------------------------------------------------------------
(***************************************************************************)
(* Properties.                                                             *)
(***************************************************************************)

\* A thread is in an object's wait list, once, exactly when it has a linked
\* block for it; its counter counts the linked blocks; it has some exactly
\* while it waits, and a timeout only then.
BlocksAgree ==
  /\ \A t \in Threads :
       /\ ActiveBlocks[t] = Cardinality(LinkedBlocks[t])
       /\ LinkedBlocks[t] # {} <=> ThreadState[t] = "WAITING"
       /\ Timed[t] => ThreadState[t] = "WAITING"
  /\ \A o \in Objects :
       /\ ToSet(WaitHead[o]) = {t \in Threads : o \in LinkedBlocks[t]}
       /\ IsInjective(WaitHead[o])

\* A thread and the objects it waits for agree on its wait blocks, whatever
\* mixture of waits, signals, timeouts and exits went before, and no count
\* leaves the width of a ULONG.  (A block left behind would be written to the
\* thread's next wait, or to freed memory.)
WaitBookkeeping == TypeOK /\ BlocksAgree

\* No object stays signalled while a thread waits for it, except the one
\* whose KiSignal is still going round its loop.
NoLostWakeup ==
  \A o \in Objects \ {DispatcherLock} :
    SignalState[o] > 0 => WaitHead[o] = <<>>

Holders(m) == {t \in Threads : m \in Holds[t]}

\* The threads that sleep in a WaitAll which has already taken m.
PartialHolders(m) == {t \in Threads : m \in Taken(t)}

\* A mutex is free, or has exactly one holder, or is in the hands of exactly
\* one unfinished WaitAll, whatever mixture of single, multiple, timed and
\* polling waits asks for it.  Only a WaitAll that gave up after it had taken
\* the mutex can lose it, and then it is lost for good: nobody gets it twice.
MutexAccounted ==
  \A m \in Mutexes :
    SignalState[m] + Cardinality(Holders(m)) + Cardinality(PartialHolders(m))
      = (IF m \in Abandoned THEN 0 ELSE 1)

\* KeReleaseSemaphore's ASSERT(FALSE) for an exceeded limit is not reached
\* by the caller that samples the count without keeping the lock.
SemaphoreWithinLimit ==
  \A s \in Semaphores : SignalState[s] <= Limit[s]

\* ASSERT(pMutex->Owner == pThread) of KeReleaseMutex (ntmutex.c:13): a
\* thread that was granted the mutex is the owner that the release finds.
ReleasedByOwner ==
  \A m \in Mutexes, t \in Threads : m \in Holds[t] => Owner[m] = t

\* A wait with a timeout ends.
TimedWaitEnds ==
  \A t \in Threads :
    ThreadState[t] = "WAITING" /\ Timed[t] ~> ThreadState[t] # "WAITING"

\* Every thread that sleeps only for an exiting thread is woken by its exit.
ExitWakesWaiters ==
  \A t, u \in Threads :
    LinkedBlocks[t] = {u} /\ DispatcherLock = u ~> ThreadState[t] # "WAITING"
=============================================================================
