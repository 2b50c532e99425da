------------------------------ MODULE Scheduler ------------------------------
(***************************************************************************)
(* Which thread runs on which core: scheduler.c (the ready queues,         *)
(* PspScheduleThread, PspCheckDpcQueue and PspCallDpc), io/dpc.c and the   *)
(* scheduling side of KeWaitForMultipleObjects and KeUnwaitThreadNoLock.   *)
(*                                                                         *)
(* Every step below is made with the DispatcherLock held, except that of   *)
(* PspCallDpc, which runs at DPC_LEVEL.  A ready queue is one sequence in  *)
(* the order of insertion: the C code keeps one list per priority, and a   *)
(* bit mask, the summary, of the priorities whose list is not empty.       *)
(* The clock tick's expiry of timeouts (KiClockTick) is the action Wake.   *)
(* Of the DPCs only PsThreadCleanupDpc is here.                            *)
(***************************************************************************)
EXTENDS Integers, Sequences, FiniteSets, SequencesExt

CONSTANTS
  Cores,           \* the processors
  BootCore,        \* the one that calls PspInitializeScheduler
  Threads,         \* the threads, without the idle threads
  IdleThread,      \* [Cores -> the idle thread of the core]
  Priority,        \* ThreadPriority + BasePriority of each thread
  AffinityMask,    \* [Threads -> the cores its process may run on]
  SystemAffinity,  \* what each thread asks KeSetSystemAffinityThread for
  QuantumReset,    \* quanta a thread is given when it is switched to
  LateWakes,       \* may a thread be woken before it has left its core?
  NULL             \* "no thread"

IdleThreads == {IdleThread[c] : c \in Cores}
AllThreads == Threads \cup IdleThreads

ASSUME ThreadsAssumption ==
  /\ BootCore \in Cores
  /\ NULL \notin AllThreads
  /\ IdleThread \in [Cores -> IdleThreads]
  /\ Threads \cap IdleThreads = {}
  /\ \A c, d \in Cores : IdleThread[c] = IdleThread[d] => c = d

ASSUME SettingsAssumption ==
  /\ Priority \in [AllThreads -> 0 .. 31]
  /\ \A i \in IdleThreads : Priority[i] = 0
  /\ AffinityMask \in [Threads -> SUBSET Cores \ {{}}]
  /\ SystemAffinity \in [Threads -> SUBSET (SUBSET Cores \ {{}})]
  /\ QuantumReset \in Nat \ {0}
  /\ LateWakes \in BOOLEAN

VARIABLES
  ThreadState,     \* "INITIALIZATION" stands for created but not yet queued
  Affinity,        \* the cores that may select the thread
  UserAffinity,    \* the affinity to revert to, {} if none is saved
  SharedQueue,     \* PspSharedReadyQueue
  CoreQueue,       \* the ready queues of each core
  CurrentThread,   \* of each core
  NextThread,      \* of each core
  CyclesLeft,      \* of each core, in units of KiCyclesPerQuantum
  Yielding,        \* the threads inside a KeForceClockTick of their own
  DpcArgument,     \* SystemArgument1 of PsThreadCleanupDpc
  DpcInserted,     \* is it in the DPC queue of BootCore?
  DpcInProgress,   \* the cores whose DpcInProgress is set
  DpcCalls,        \* the threads on whose behalf PspCallDpc is to run
  DpcReturns,      \* the threads whose SwitchStackPointer is set
  Dereferenced     \* how often the cleanup dereferenced each thread

queueVars == <<SharedQueue, CoreQueue>>
affinityVars == <<Affinity, UserAffinity>>
dpcVars == <<DpcArgument, DpcInserted, DpcInProgress, DpcCalls, DpcReturns,
             Dereferenced>>
coreVars == <<CurrentThread, NextThread, CyclesLeft>>
vars == <<ThreadState, affinityVars, queueVars, coreVars, Yielding, dpcVars>>

TypeOK ==
  /\ ThreadState \in [AllThreads -> {"INITIALIZATION", "READY", "RUNNING",
                                     "WAITING", "TERMINATED"}]
  /\ Affinity \in [AllThreads -> SUBSET Cores]
  /\ UserAffinity \in [AllThreads -> SUBSET Cores]
  /\ SharedQueue \in Seq(AllThreads)
  /\ CoreQueue \in [Cores -> Seq(AllThreads)]
  /\ CurrentThread \in [Cores -> AllThreads]
  /\ NextThread \in [Cores -> AllThreads]
  /\ CyclesLeft \in [Cores -> Nat]
  /\ Yielding \in SUBSET Threads
  /\ DpcArgument \in Threads \cup {NULL}
  /\ DpcInserted \in BOOLEAN
  /\ DpcInProgress \in SUBSET Cores
  /\ DpcCalls \in SUBSET AllThreads
  /\ DpcReturns \in SUBSET AllThreads
  /\ Dereferenced \in [Threads -> Nat]

\* PspInitializeCore has run on every core: each runs its idle thread.
Init ==
  /\ ThreadState = [t \in AllThreads |-> IF t \in Threads
                                         THEN "INITIALIZATION" ELSE "RUNNING"]
  /\ Affinity = [t \in AllThreads |->
                   IF t \in Threads THEN AffinityMask[t]
                   ELSE {c \in Cores : IdleThread[c] = t}]
  /\ UserAffinity = [t \in AllThreads |-> {}]
  /\ SharedQueue = <<>>
  /\ CoreQueue = [c \in Cores |-> <<>>]
  /\ CurrentThread = IdleThread
  /\ NextThread = IdleThread
  /\ CyclesLeft = [c \in Cores |-> 3]
  /\ Yielding = {}
  /\ DpcArgument = NULL
  /\ DpcInserted = FALSE
  /\ DpcInProgress = {}
  /\ DpcCalls = {}
  /\ DpcReturns = {}
  /\ Dereferenced = [t \in Threads |-> 0]
-----------------------------------------------------------------------------
(***************************************************************************)
(* The ready queues.  Selecting a thread works on the shared queue and the *)
(* queue of one core, here a record with fields shared and own.            *)
(***************************************************************************)
Priorities(queue) == {Priority[t] : t \in ToSet(queue)}

\* Of the places I of the queue, the head of the list of the highest priority.
Foremost(queue, I) ==
  queue[CHOOSE i \in I : \A j \in I :
          \/ Priority[queue[j]] < Priority[queue[i]]
          \/ Priority[queue[j]] = Priority[queue[i]] /\ i <= j]

\* Mutant: the affinity of the threads is not looked at.
AnyCore(c, queue) == DOMAIN queue

\* The places of the threads that core c may run.
Eligible(c, queue) == {i \in DOMAIN queue : c \in Affinity[queue[i]]}

\* Mutant: the thread is left in the queue.
NotTaken(queue, t) == queue

Taken(queue, t) == RemoveFirst(queue, t)

\* The comparison own > (shared ^ own) of the two summaries.  The numbers own
\* and shared ^ own differ in the bits of shared, so the highest bit of
\* shared decides.
OwnSummaryIsGreater(q) ==
  Priority[Foremost(q.shared, DOMAIN q.shared)] \in Priorities(q.own)

PspManageSharedReadyQueue(c, q) ==
  IF \/ q.shared = <<>>
     \/ OwnSummaryIsGreater(q)
     \/ Eligible(c, q.shared) = {}
  THEN q
  ELSE LET t == Foremost(q.shared, Eligible(c, q.shared))
       IN [shared |-> Taken(q.shared, t), own |-> Append(q.own, t)]

\* The selected thread and the queues without it.
PspSelectNextReadyThread(c, q) ==
  LET m == PspManageSharedReadyQueue(c, q)
  IN IF m.own = <<>>
     THEN [thread |-> IdleThread[c], queues |-> m]
     ELSE LET t == Foremost(m.own, DOMAIN m.own)
          IN [thread |-> t, queues |-> [m EXCEPT !.own = Taken(@, t)]]

PspInsertIntoSharedQueue(t) == SharedQueue' = Append(SharedQueue, t)
-----------------------------------------------------------------------------
(***************************************************************************)
(* PspScheduleThread: a clock tick, the notification of another core, or a *)
(* tick that the thread forced on itself.  A tick of a thread that runs at *)
(* DISPATCH_LEVEL changes nothing here.                                    *)
(***************************************************************************)

\* KeInsertQueueDpc with the terminated thread t as the argument, and the
\* PspCheckDpcQueue that ends the call on core c, where t2 now runs.
Cleanup(c, inserts, t, t2) ==
  LET accepted == inserts /\ ~DpcInserted
      returns == CurrentThread[c] \in DpcReturns
      pops == /\ c = BootCore
              /\ ~returns /\ c \notin DpcInProgress
              /\ accepted \/ DpcInserted
  IN /\ DpcArgument' = IF accepted THEN t ELSE DpcArgument
     /\ DpcInserted' = (~pops /\ (accepted \/ DpcInserted))
     /\ DpcInProgress' = IF pops THEN DpcInProgress \cup {c}
                         ELSE IF returns THEN DpcInProgress \ {c}
                         ELSE DpcInProgress
     /\ DpcCalls' = IF pops THEN DpcCalls \cup {t2} ELSE DpcCalls
     /\ DpcReturns' = DpcReturns \ {CurrentThread[c]}
     /\ UNCHANGED Dereferenced

SetQueues(c, q) ==
  /\ SharedQueue' = q.shared
  /\ CoreQueue' = [CoreQueue EXCEPT ![c] = q.own]

\* The next thread of core c, selected anew if there was none.
Candidate(c) ==
  LET q == [shared |-> SharedQueue, own |-> CoreQueue[c]]
  IN IF \/ NextThread[c] = IdleThread[c]
        \/ ThreadState[NextThread[c]] # "READY"
     THEN PspSelectNextReadyThread(c, q)
     ELSE [thread |-> NextThread[c], queues |-> q]

QuantumEnded(c) ==
  ThreadState[CurrentThread[c]] # "RUNNING" \/ CyclesLeft[c] < 1

\* Mutant: the current thread is kept against equals, too.
KeepsRunningAgainstEquals(c, next) ==
  /\ ThreadState[CurrentThread[c]] = "RUNNING"
  /\ \/ next = IdleThread[c] /\ CurrentThread[c] # IdleThread[c]
     \/ Priority[CurrentThread[c]] >= Priority[next]

\* The current thread runs, and the next one cannot preempt it.
KeepsRunning(c, next) ==
  /\ ThreadState[CurrentThread[c]] = "RUNNING"
  /\ \/ next = IdleThread[c] /\ CurrentThread[c] # IdleThread[c]
     \/ Priority[CurrentThread[c]] > Priority[next]

\* Time is left, or the quantum is reset: the thread goes on.
Continue(c) ==
  LET s == Candidate(c)
  IN /\ \/ /\ ~QuantumEnded(c)
           /\ CyclesLeft' = [CyclesLeft EXCEPT ![c] = @ - 1]
        \/ /\ QuantumEnded(c) /\ KeepsRunning(c, s.thread)
           /\ CyclesLeft' = [CyclesLeft EXCEPT ![c] = QuantumReset]
     /\ NextThread' = [NextThread EXCEPT ![c] = s.thread]
     /\ SetQueues(c, s.queues)
     /\ Cleanup(c, FALSE, NULL, CurrentThread[c])
     /\ UNCHANGED <<ThreadState, CurrentThread>>

\* The switch to the next thread.  The one after it is selected before the
\* current thread is queued, which it is unless it gave up control itself.
Switch(c) ==
  LET t == CurrentThread[c]
      s == Candidate(c)
      s2 == PspSelectNextReadyThread(c, s.queues)
      started == [ThreadState EXCEPT ![s.thread] = "RUNNING"]
      queued == started[t] = "RUNNING"
  IN /\ QuantumEnded(c) /\ ~KeepsRunning(c, s.thread)
     /\ CyclesLeft' = [CyclesLeft EXCEPT ![c] = QuantumReset]
     /\ CurrentThread' = [CurrentThread EXCEPT ![c] = s.thread]
     /\ NextThread' = [NextThread EXCEPT ![c] = s2.thread]
     /\ ThreadState' = IF queued THEN [started EXCEPT ![t] = "READY"]
                                 ELSE started
     /\ SetQueues(c, IF queued
                     THEN [s2.queues EXCEPT !.shared = Append(@, t)]
                     ELSE s2.queues)
     /\ Cleanup(c, started[t] = "TERMINATED", t, s.thread)

PspScheduleThread(c) ==
  /\ Continue(c) \/ Switch(c)
  /\ UNCHANGED affinityVars

\* A tick of the clock, or the interrupt of PsNotifyThreadAwaken.
ClockTick(c) == PspScheduleThread(c) /\ UNCHANGED Yielding

KeForceClockTick(c) ==
  /\ CurrentThread[c] \in Yielding \ (DpcCalls \cup DpcReturns)
  /\ PspScheduleThread(c)
  /\ Yielding' = Yielding \ {CurrentThread[c]}
-----------------------------------------------------------------------------
(***************************************************************************)
(* What the threads do.                                                    *)
(***************************************************************************)

\* The code of thread t runs on core c.  Nothing in it looks at the state.
Executes(t, c) ==
  /\ CurrentThread[c] = t
  /\ t \notin Yielding \cup DpcCalls \cup DpcReturns

\* A thread that was created is queued.
PspInsertIntoSharedQueueLocked(t) ==
  /\ ThreadState[t] = "INITIALIZATION"
  /\ ThreadState' = [ThreadState EXCEPT ![t] = "READY"]
  /\ PspInsertIntoSharedQueue(t)
  /\ UNCHANGED <<affinityVars, CoreQueue, coreVars, Yielding, dpcVars>>

\* KeWaitForMultipleObjects that has to block.  The thread still occupies
\* its core when the DispatcherLock is released.
Wait(c) ==
  LET t == CurrentThread[c]
  IN /\ t \in Threads /\ Executes(t, c)
     /\ ThreadState' = [ThreadState EXCEPT ![t] = "WAITING"]
     /\ Yielding' = Yielding \cup {t}
     /\ UNCHANGED <<affinityVars, queueVars, coreVars, dpcVars>>

\* KeUnwaitThreadNoLock, called on core c.
Wake(c, t) ==
  /\ ThreadState[t] = "WAITING"
  /\ IF t = CurrentThread[c]
     THEN /\ ThreadState' = [ThreadState EXCEPT ![t] = "RUNNING"]
          /\ UNCHANGED SharedQueue
     ELSE /\ (\E d \in Cores : CurrentThread[d] = t) => LateWakes
          /\ ThreadState' = [ThreadState EXCEPT ![t] = "READY"]
          /\ PspInsertIntoSharedQueue(t)
  /\ UNCHANGED <<affinityVars, CoreQueue, coreVars, Yielding, dpcVars>>

PsExitThread(c) ==
  LET t == CurrentThread[c]
  IN /\ t \in Threads /\ Executes(t, c)
     /\ ThreadState' = [ThreadState EXCEPT ![t] = "TERMINATED"]
     /\ Yielding' = Yielding \cup {t}
     /\ UNCHANGED <<affinityVars, queueVars, coreVars, dpcVars>>

\* KeConnectInterrupt moves its caller to a core and back; it does not nest.
KeSetSystemAffinityThread(c, mask) ==
  LET t == CurrentThread[c]
  IN /\ t \in Threads /\ Executes(t, c)
     /\ mask \in SystemAffinity[t] /\ UserAffinity[t] = {}
     /\ UserAffinity' = [UserAffinity EXCEPT ![t] = Affinity[t]]
     /\ Affinity' = [Affinity EXCEPT ![t] = mask]
     /\ Yielding' = Yielding \cup {t}
     /\ UNCHANGED <<ThreadState, queueVars, coreVars, dpcVars>>

KeRevertToUserAffinityThread(c) ==
  LET t == CurrentThread[c]
  IN /\ t \in Threads /\ Executes(t, c)
     /\ UserAffinity[t] # {}
     /\ Affinity' = [Affinity EXCEPT ![t] = UserAffinity[t]]
     /\ UserAffinity' = [UserAffinity EXCEPT ![t] = {}]
     /\ Yielding' = Yielding \cup {t}
     /\ UNCHANGED <<ThreadState, queueVars, coreVars, dpcVars>>

\* The routine of the DPC runs on the core and in place of the thread that
\* was current when it was taken from the queue: ThreadCleanupRoutine drops
\* the reference to its argument.
PspCallDpc(c) ==
  LET t == CurrentThread[c]
  IN /\ t \in DpcCalls
     /\ Dereferenced' = [Dereferenced EXCEPT ![DpcArgument] = @ + 1]
     /\ DpcCalls' = DpcCalls \ {t}
     /\ DpcReturns' = DpcReturns \cup {t}
     /\ UNCHANGED <<ThreadState, affinityVars, queueVars, coreVars, Yielding,
                    DpcArgument, DpcInserted, DpcInProgress>>
-----------------------------------------------------------------------------
Next ==
  \/ \E c \in Cores :
       \/ ClockTick(c) \/ KeForceClockTick(c)
       \/ Wait(c) \/ PsExitThread(c)
       \/ \E t \in Threads : Wake(c, t)
       \/ \E mask \in SUBSET Cores : KeSetSystemAffinityThread(c, mask)
       \/ KeRevertToUserAffinityThread(c)
       \/ PspCallDpc(c)
  \/ \E t \in Threads : PspInsertIntoSharedQueueLocked(t)

Spec == Init /\ [][Next]_vars

\* The clock of every core keeps ticking (a tick is always possible), and a
\* DPC that was taken from the queue runs.
Fairness ==
  \A c \in Cores : []<><<ClockTick(c)>>_vars /\ WF_vars(PspCallDpc(c))

FairSpec == Spec /\ Fairness
-----------------------------------------------------------------------------
(***************************************************************************)
(* Properties.                                                             *)
(***************************************************************************)
RunsOn(t) == {c \in Cores : CurrentThread[c] = t}
NextOn(t) == {c \in Cores : NextThread[c] = t}
Occurrences(queue, t) == Cardinality({i \in DOMAIN queue : queue[i] = t})

\* How many cores or queues a thread would be found in.
Places(t) == Cardinality(NextOn(t)) + Occurrences(SharedQueue, t)

\* What a core takes from the shared queue it selects at once: its own queues
\* are empty whenever the DispatcherLock is free, so that a ready thread is
\* never out of the reach of the other cores (and the comparison of
\* OwnSummaryIsGreater never decides anything).
NothingHoarded == \A c \in Cores : CoreQueue[c] = <<>>

\* A thread that is ready is in one queue, once, or has been selected by one
\* core: it is neither forgotten nor run twice.  No other thread can be
\* selected.
ReadyInOnePlace ==
  \A t \in Threads : Places(t) = IF ThreadState[t] = "READY" THEN 1 ELSE 0

\* A thread runs on one core at most, and is RUNNING only while it is the
\* current thread of a core.
OneCorePerThread ==
  /\ \A t \in AllThreads : Cardinality(RunsOn(t)) <= 1
  /\ \A t \in AllThreads : ThreadState[t] = "RUNNING" => RunsOn(t) # {}

\* The idle threads, which are made ready and queued while they are current,
\* are never queued twice, and never by another core.
IdleThreadsStayHome ==
  \A c \in Cores :
    LET i == IdleThread[c]
    IN /\ Occurrences(SharedQueue, i) <= 1
       /\ \A d \in Cores \ {c} : CurrentThread[d] # i /\ NextThread[d] # i
       /\ ThreadState[i] \in {"READY", "RUNNING"}

\* Every thread is where its state says, once, whatever the cores do: the
\* parts above.
ThreadsInPlace ==
  /\ TypeOK
  /\ ReadyInOnePlace
  /\ OneCorePerThread
  /\ IdleThreadsStayHome

\* "If the thread is waiting, it will have the control back only when the
\* wait conditions are satisfied" (wait.c:115): a core never switches to a
\* thread that is not ready.
SwitchesToReadyThreads ==
  [][\A c \in Cores :
       CurrentThread'[c] # CurrentThread[c] =>
         ThreadState[CurrentThread'[c]] = "READY"]_vars

\* A core switches only to threads whose affinity includes it, also when the
\* affinity of a thread changed after it was first queued.
AffinityHonoured ==
  [][\A c \in Cores :
       CurrentThread'[c] # CurrentThread[c] =>
         c \in Affinity[CurrentThread'[c]]]_vars

\* Among threads of the same priority everyone gets a turn.
ReadyThreadsRun ==
  \A t \in Threads : ThreadState[t] = "READY" ~> ThreadState[t] = "RUNNING"
=============================================================================
