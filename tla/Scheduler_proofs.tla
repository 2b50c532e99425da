-------------------------- MODULE Scheduler_proofs --------------------------
(***************************************************************************)
(* Every thread is where its state says: in the shared queue or selected   *)
(* by one core when it is ready, on one core when it runs.  The invariant  *)
(* below ties the queue, the threads that the cores have selected and the  *)
(* current threads to the states of the threads.                           *)
(***************************************************************************)
EXTENDS Scheduler, ListLemmas, FiniteSetTheorems, SequenceTheorems, TLAPS

(***************************************************************************)
(* The ready queues.                                                       *)
(***************************************************************************)

\* The search for the highest priority, and for the head of its list, finds
\* a thread at one of the places it looks at.
LEMMA ForemostInQueue ==
  ASSUME NEW queue \in Seq(AllThreads), NEW I \in SUBSET DOMAIN queue, I # {}
  PROVE  \E i \in I : Foremost(queue, I) = queue[i]
<1> DEFINE P == {Priority[queue[i]] : i \in I}
           First(i) == \A j \in I :
             \/ Priority[queue[j]] < Priority[queue[i]]
             \/ Priority[queue[j]] = Priority[queue[i]] /\ i <= j
<1>1. \A i \in I : Priority[queue[i]] \in 0 .. 31 /\ i \in Nat
  BY SettingsAssumption
<1>2. P \in SUBSET (0 .. 31) /\ P # {}
  BY <1>1
<1>3. PICK p \in P : \A r \in P : r <= p
  BY <1>2, GreatestBelow
<1> DEFINE J == {i \in I : Priority[queue[i]] = p}
<1>4. J \in SUBSET Nat /\ J # {}
  BY <1>1
<1>5. PICK i \in J : \A j \in J : i <= j
  BY <1>4, LeastNatural
<1>6. First(i)
  <2> SUFFICES ASSUME NEW j \in I
               PROVE  \/ Priority[queue[j]] < Priority[queue[i]]
                      \/ Priority[queue[j]] = Priority[queue[i]] /\ i <= j
    OBVIOUS
  <2>1. Priority[queue[j]] <= p /\ Priority[queue[i]] = p
    BY <1>3
  <2>2. Priority[queue[j]] \in 0 .. 31 /\ p \in 0 .. 31
    BY <1>1, <1>2
  <2>3. CASE Priority[queue[j]] = p
    <3>1. j \in J
      BY <2>3
    <3>2. i <= j
      BY <1>5, <3>1
    <3> QED BY <2>1, <2>3, <3>2
  <2>4. CASE Priority[queue[j]] # p
    <3>1. \A x, y \in 0 .. 31 : x <= y /\ x # y => x < y
      OBVIOUS
    <3>2. Priority[queue[j]] < p
      BY <2>1, <2>2, <2>4, <3>1
    <3> QED BY <2>1, <3>2
  <2> QED BY <2>3, <2>4
<1> HIDE DEF First
<1>7. (CHOOSE k \in I : First(k)) \in I
  BY <1>6
<1> QED BY <1>7 DEF Foremost, First

\* A list of one thread: its head is the thread, and nothing is left of it.
LEMMA OneInQueue ==
  ASSUME NEW t
  PROVE  /\ Foremost(<<t>>, DOMAIN <<t>>) = t
         /\ Taken(<<t>>, t) = <<>>
<1>1. DOMAIN <<t>> = {1}
  OBVIOUS
<1>2. Foremost(<<t>>, {1}) = t
  BY DEF Foremost
<1>3. <<t>> \in Seq({t}) /\ IsInjective(<<t>>) /\ ToSet(<<t>>) = {t}
  BY <1>1 DEF IsInjective, ToSet
<1>4. /\ Taken(<<t>>, t) \in Seq({t})
      /\ ToSet(Taken(<<t>>, t)) = {}
  <2> DEFINE s == <<t>>
             S == {t}
  <2>1. s \in Seq(S) /\ IsInjective(s) /\ ToSet(s) = S
    BY <1>3
  <2> HIDE DEF s
  <2>2. RemoveFirst(s, t) \in Seq(S) /\ ToSet(RemoveFirst(s, t)) = S \ {t}
    BY <2>1, RemoveFirstProperties
  <2> QED BY <2>2 DEF Taken, s
<1>5. ASSUME NEW s \in Seq({t}), ToSet(s) = {} PROVE s = <<>>
  BY <1>5 DEF ToSet
<1> QED BY <1>1, <1>2, <1>4, <1>5

\* The shared queue together with an empty queue of a core.
Queues(shared) == [shared |-> shared, own |-> <<>>]

\* What a core takes from the shared queue it selects at once.
LEMMA SelectsWhatItTakes ==
  ASSUME NEW c, NEW shared
  PROVE  LET s == PspSelectNextReadyThread(c, Queues(shared))
             t == Foremost(shared, Eligible(c, shared))
         IN \/ /\ shared = <<>> \/ Eligible(c, shared) = {}
               /\ s = [thread |-> IdleThread[c], queues |-> Queues(shared)]
            \/ /\ Eligible(c, shared) # {}
               /\ s = [thread |-> t, queues |-> Queues(Taken(shared, t))]
<1> DEFINE q == Queues(shared)
           m == PspManageSharedReadyQueue(c, q)
           t == Foremost(shared, Eligible(c, shared))
           s == PspSelectNextReadyThread(c, q)
<1>1. q.own = <<>> /\ q.shared = shared
  BY DEF Queues
<1>2. ~ OwnSummaryIsGreater(q)
  BY <1>1 DEF OwnSummaryIsGreater, Priorities, ToSet
<1> HIDE DEF q
<1>3. CASE shared = <<>> \/ Eligible(c, shared) = {}
  <2>1. m = q
    BY <1>1, <1>3 DEF PspManageSharedReadyQueue
  <2>2. s = [thread |-> IdleThread[c], queues |-> q]
    BY <1>1, <2>1 DEF PspSelectNextReadyThread
  <2> QED BY <1>3, <2>2 DEF q
<1>4. CASE shared # <<>> /\ Eligible(c, shared) # {}
  <2>1. m = [shared |-> Taken(shared, t), own |-> <<t>>]
    BY <1>1, <1>2, <1>4 DEF PspManageSharedReadyQueue
  <2>2. m.own = <<t>> /\ m.own # <<>>
    BY <2>1
  <2>3. s = [thread |-> t,
             queues |-> [m EXCEPT !.own = Taken(<<t>>, t)]]
    BY <2>2, OneInQueue DEF PspSelectNextReadyThread
  <2> HIDE DEF t, s, m
  <2>4. s = [thread |-> t, queues |-> Queues(Taken(shared, t))]
    BY <2>1, <2>3, OneInQueue DEF Queues
  <2> QED BY <1>4, <2>4 DEF t, s, q
<1> QED BY <1>3, <1>4

\* The two functions of the queue: a core whose own queue is empty leaves it
\* empty, whatever it selects.
LEMMA SelectionLeavesOwnEmpty ==
  ASSUME NEW c \in Cores, CoreQueue[c] = <<>>
  PROVE  /\ \E sh : Candidate(c).queues = Queues(sh)
         /\ \E sh : PspSelectNextReadyThread(c, Candidate(c).queues).queues
                      = Queues(sh)
<1>1. \A shared : \E sh :
        PspSelectNextReadyThread(c, Queues(shared)).queues = Queues(sh)
  <2> SUFFICES ASSUME NEW shared
               PROVE  \E sh : PspSelectNextReadyThread(c, Queues(shared)).queues
                                = Queues(sh)
    OBVIOUS
  <2> QED BY SelectsWhatItTakes
<1>2. [shared |-> SharedQueue, own |-> CoreQueue[c]] = Queues(SharedQueue)
  BY DEF Queues
<1>3. \E sh : Candidate(c).queues = Queues(sh)
  BY <1>1, <1>2 DEF Candidate
<1> QED BY <1>1, <1>3

\* Whatever the cores select, and whether or not threads are woken early, the
\* queues of the cores are empty whenever the DispatcherLock is free.
THEOREM NothingIsHoarded == Spec => []NothingHoarded
<1> DEFINE Empty == CoreQueue = [c \in Cores |-> <<>>]
<1>1. Init => Empty
  BY DEF Init
<1>2. Empty /\ [Next]_vars => Empty'
  <2> SUFFICES ASSUME Empty, [Next]_vars PROVE Empty'
    OBVIOUS
  <2>1. ASSUME NEW c \in Cores, PspScheduleThread(c) PROVE Empty'
    <3>1. CoreQueue[c] = <<>>
      OBVIOUS
    <3>2. ASSUME NEW q, SetQueues(c, q), q.own = <<>> PROVE Empty'
      BY <3>1, <3>2 DEF SetQueues
    <3>3. CASE Continue(c)
      BY <3>1, <3>2, <3>3, SelectionLeavesOwnEmpty DEF Continue, Queues
    <3>4. CASE Switch(c)
      <4> DEFINE s2 == PspSelectNextReadyThread(c, Candidate(c).queues)
      <4>1. PICK sh : s2.queues = Queues(sh)
        BY <3>1, SelectionLeavesOwnEmpty
      <4> HIDE DEF s2
      <4>2. \E x : \/ SetQueues(c, [s2.queues EXCEPT !.shared = Append(@, x)])
                   \/ SetQueues(c, s2.queues)
        BY <3>4 DEF Switch, s2
      <4> QED BY <3>2, <4>1, <4>2 DEF Queues
    <3> QED BY <2>1, <3>3, <3>4 DEF PspScheduleThread
  <2>2. ASSUME NEW t \in Threads,
               \/ PspInsertIntoSharedQueueLocked(t)
               \/ \E c \in Cores : Wake(c, t)
        PROVE  Empty'
    BY <2>2 DEF PspInsertIntoSharedQueueLocked, Wake
  <2>3. ASSUME NEW c \in Cores,
               \/ Wait(c) \/ PsExitThread(c) \/ PspCallDpc(c)
               \/ \E mask \in SUBSET Cores : KeSetSystemAffinityThread(c, mask)
               \/ KeRevertToUserAffinityThread(c)
        PROVE  Empty'
    BY <2>3 DEF Wait, PsExitThread, PspCallDpc, KeSetSystemAffinityThread,
                KeRevertToUserAffinityThread, queueVars
  <2>4. CASE UNCHANGED vars
    BY <2>4 DEF vars, queueVars
  <2> QED BY <2>1, <2>2, <2>3, <2>4 DEF Next, ClockTick, KeForceClockTick
<1>3. Empty => NothingHoarded
  BY DEF NothingHoarded
<1> QED BY <1>1, <1>2, <1>3, PTL DEF Spec
-----------------------------------------------------------------------------
(***************************************************************************)
(* The inductive invariant.  A queued thread is ready and queued once, a   *)
(* thread that a core has selected is ready and in no queue, and a ready   *)
(* thread is one or the other; a running one is current on a core.         *)
(***************************************************************************)
Queued == ToSet(SharedQueue)

QueueInv ==
  /\ CoreQueue = [c \in Cores |-> <<>>]
  /\ IsInjective(SharedQueue)
  /\ \A t \in Queued : ThreadState[t] = "READY"

NextInv ==
  /\ \A c \in Cores : NextThread[c] \in Threads \cup {IdleThread[c]}
  /\ \A c \in Cores : NextThread[c] \in Threads =>
       /\ ThreadState[NextThread[c]] = "READY"
       /\ c \in Affinity[NextThread[c]]
       /\ NextThread[c] \notin Queued
  /\ \A c, d \in Cores : NextThread[c] = NextThread[d] => c = d
  /\ \A t \in Threads : ThreadState[t] = "READY" =>
       t \in Queued \/ \E c \in Cores : NextThread[c] = t

CurrentInv ==
  /\ \A c \in Cores : CurrentThread[c] \in Threads \cup {IdleThread[c]}
  /\ \A c, d \in Cores : CurrentThread[c] = CurrentThread[d] => c = d
  /\ \A c \in Cores : CurrentThread[c] \in Threads =>
       ThreadState[CurrentThread[c]] \in {"RUNNING", "WAITING", "TERMINATED"}
  /\ \A t \in AllThreads : ThreadState[t] = "RUNNING" =>
       \E c \in Cores : CurrentThread[c] = t

IdleInv ==
  \A c \in Cores : /\ Affinity[IdleThread[c]] = {c}
                   /\ ThreadState[IdleThread[c]] \in {"READY", "RUNNING"}

IInv == TypeOK /\ QueueInv /\ NextInv /\ CurrentInv /\ IdleInv

\* Core c may run t, which it took from the queue, leaving sq of it, or from
\* its own NextThread; a core that found nothing runs its idle thread.
Takes(c, t, sq) ==
  /\ t \in Threads \cup {IdleThread[c]}
  /\ c \in Affinity[t]
  /\ sq \in Seq(AllThreads) /\ IsInjective(sq)
  /\ t \notin ToSet(sq)
  /\ ToSet(sq) \subseteq Queued
  /\ \A u \in Queued : u \in ToSet(sq) \/ u = t
  /\ NextThread[c] \in {t, IdleThread[c]}
  /\ t \in Threads => /\ ThreadState[t] = "READY"
                      /\ \A d \in Cores : NextThread[d] = t => d = c

\* What PspSelectNextReadyThread does to a queue: it takes a thread that the
\* core may run, or leaves a queue in which there is none.
Selects(c, sq, t, sq2) ==
  /\ sq2 \in Seq(AllThreads) /\ IsInjective(sq2)
  /\ \/ /\ t \in ToSet(sq) /\ c \in Affinity[t]
        /\ ToSet(sq2) = ToSet(sq) \ {t}
     \/ /\ t = IdleThread[c] /\ sq2 = sq
        /\ \A u \in ToSet(sq) : c \notin Affinity[u]

\* The next ready thread is the foremost of the queue that the core may run, and
\* it alone leaves the queue; where there is none, the core's idle thread is next.
LEMMA Selection ==
  ASSUME NEW c \in Cores, NEW sq \in Seq(AllThreads), IsInjective(sq)
  PROVE  \E t, sq2 :
           /\ PspSelectNextReadyThread(c, Queues(sq))
                = [thread |-> t, queues |-> Queues(sq2)]
           /\ Selects(c, sq, t, sq2)
<1> DEFINE I == Eligible(c, sq)
           t == Foremost(sq, I)
           s == PspSelectNextReadyThread(c, Queues(sq))
<1>1. I \in SUBSET DOMAIN sq
  BY DEF Eligible
<1>2. CASE sq = <<>> \/ I = {}
  <2>1. s = [thread |-> IdleThread[c], queues |-> Queues(sq)]
    <3>1. I = {}
      BY <1>2 DEF Eligible
    <3> QED BY <3>1, SelectsWhatItTakes
  <2>2. \A u \in ToSet(sq) : c \notin Affinity[u]
    BY <1>2 DEF Eligible, ToSet
  <2> QED BY <2>1, <2>2 DEF Selects
<1>3. CASE sq # <<>> /\ I # {}
  <2>1. PICK i \in I : t = sq[i]
    BY <1>1, <1>3, ForemostInQueue
  <2>2. s = [thread |-> t, queues |-> Queues(Taken(sq, t))]
    BY <1>3, SelectsWhatItTakes
  <2>3. t \in ToSet(sq) /\ c \in Affinity[t]
    BY <1>1, <2>1 DEF Eligible, ToSet
  <2>4. /\ Taken(sq, t) \in Seq(AllThreads) /\ IsInjective(Taken(sq, t))
        /\ ToSet(Taken(sq, t)) = ToSet(sq) \ {t}
    BY RemoveFirstProperties DEF Taken
  <2> HIDE DEF t, s
  <2>5. Selects(c, sq, t, Taken(sq, t))
    BY <2>3, <2>4 DEF Selects
  <2> QED BY <2>2, <2>5 DEF s
<1> QED BY <1>2, <1>3

\* The candidate of a core: its NextThread, or what it selects anew.
LEMMA CandidateTakes ==
  ASSUME IInv, NEW c \in Cores
  PROVE  \E t, sq : /\ Candidate(c) = [thread |-> t, queues |-> Queues(sq)]
                    /\ Takes(c, t, sq)
<1>1. [shared |-> SharedQueue, own |-> CoreQueue[c]] = Queues(SharedQueue)
  BY DEF IInv, QueueInv, Queues
<1>2. SharedQueue \in Seq(AllThreads) /\ IsInjective(SharedQueue)
  BY DEF IInv, TypeOK, QueueInv
<1>3. CASE NextThread[c] = IdleThread[c]
  <2>1. PICK t, sq : /\ PspSelectNextReadyThread(c, Queues(SharedQueue))
                          = [thread |-> t, queues |-> Queues(sq)]
                     /\ Selects(c, SharedQueue, t, sq)
    BY <1>2, Selection
  <2>2. Candidate(c) = [thread |-> t, queues |-> Queues(sq)]
    BY <1>1, <1>3, <2>1 DEF Candidate
  <2>3. Affinity[IdleThread[c]] = {c}
    BY DEF IInv, IdleInv
  <2>4. CASE t \in Queued
    <3>1. /\ ToSet(sq) = Queued \ {t} /\ c \in Affinity[t]
          /\ sq \in Seq(AllThreads) /\ IsInjective(sq)
      BY <2>1, <2>3, <2>4 DEF Selects, Queued
    <3>2. ThreadState[t] = "READY" /\ t \in AllThreads
      BY <1>2, <2>4 DEF IInv, QueueInv, Queued, ToSet
    <3>3. t \in Threads \cup {IdleThread[c]}
      BY <3>1, <3>2 DEF AllThreads, IdleThreads, IInv, IdleInv
    <3>4. \A d \in Cores : t \in Threads => NextThread[d] # t
      BY <2>4 DEF IInv, NextInv
    <3> QED BY <1>3, <2>2, <3>1, <3>2, <3>3, <3>4 DEF Takes
  <2>5. CASE t \notin Queued
    <3>1. t = IdleThread[c] /\ sq = SharedQueue
      BY <2>1, <2>5 DEF Selects, Queued
    <3>2. t \notin Threads
      BY <3>1, ThreadsAssumption DEF IdleThreads
    <3> QED BY <1>2, <1>3, <2>2, <2>3, <2>5, <3>1, <3>2 DEF Takes, Queued
  <2> QED BY <2>4, <2>5
<1>4. CASE NextThread[c] # IdleThread[c]
  <2>1. /\ NextThread[c] \in Threads
        /\ ThreadState[NextThread[c]] = "READY"
        /\ c \in Affinity[NextThread[c]]
        /\ NextThread[c] \notin Queued
        /\ \A d \in Cores : NextThread[d] = NextThread[c] => d = c
    BY <1>4 DEF IInv, NextInv
  <2>2. Candidate(c) = [thread |-> NextThread[c], queues |-> Queues(SharedQueue)]
    BY <1>1, <1>4, <2>1 DEF Candidate
  <2>3. Takes(c, NextThread[c], SharedQueue)
    BY <1>2, <2>1 DEF Takes, Queued
  <2> QED BY <2>2, <2>3
<1> QED BY <1>3, <1>4
-----------------------------------------------------------------------------
(***************************************************************************)
(* The steps of PspScheduleThread.                                         *)
(***************************************************************************)
DpcTypes ==
  /\ DpcArgument \in Threads \cup {NULL}
  /\ DpcInserted \in BOOLEAN
  /\ DpcInProgress \in SUBSET Cores
  /\ DpcCalls \in SUBSET AllThreads
  /\ DpcReturns \in SUBSET AllThreads
  /\ Dereferenced \in [Threads -> Nat]

\* The cleanup DPC is only ever given a thread that may be freed: an idle
\* thread never ends.
LEMMA CleanupTypes ==
  ASSUME TypeOK, NEW c \in Cores, NEW inserts, NEW t, NEW t2 \in AllThreads,
         inserts => t \in Threads, Cleanup(c, inserts, t, t2)
  PROVE  DpcTypes'
<1>1. DpcArgument' \in Threads \cup {NULL}
  BY DEF TypeOK, Cleanup
<1>2. DpcInserted' \in BOOLEAN
  BY DEF Cleanup
<1>3. DpcInProgress' \in SUBSET Cores /\ DpcCalls' \in SUBSET AllThreads
  BY DEF TypeOK, Cleanup
<1>4. DpcReturns' \in SUBSET AllThreads /\ Dereferenced' \in [Threads -> Nat]
  BY DEF TypeOK, Cleanup
<1> QED BY <1>1, <1>2, <1>3, <1>4 DEF DpcTypes

\* A core that goes on with its thread may still have selected another one.
LEMMA ContinueStep ==
  ASSUME IInv, NEW c \in Cores, Continue(c), UNCHANGED affinityVars,
         Yielding' \in SUBSET Threads
  PROVE  IInv'
<1>1. PICK t, sq : /\ Candidate(c) = [thread |-> t, queues |-> Queues(sq)]
                   /\ Takes(c, t, sq)
  BY CandidateTakes
<1>2. /\ NextThread' = [NextThread EXCEPT ![c] = t]
      /\ SharedQueue' = sq
      /\ CoreQueue' = [CoreQueue EXCEPT ![c] = <<>>]
      /\ Cleanup(c, FALSE, NULL, CurrentThread[c])
      /\ UNCHANGED <<ThreadState, CurrentThread, Affinity, UserAffinity>>
  <2>1. Candidate(c).thread = t /\ Candidate(c).queues = Queues(sq)
    BY <1>1
  <2>2. /\ NextThread' = [NextThread EXCEPT ![c] = t]
        /\ SetQueues(c, Queues(sq))
        /\ Cleanup(c, FALSE, NULL, CurrentThread[c])
        /\ UNCHANGED <<ThreadState, CurrentThread>>
    BY <2>1 DEF Continue
  <2> QED BY <2>2 DEF SetQueues, Queues, affinityVars
<1>3. t \in AllThreads /\ (t \notin Threads => t = IdleThread[c])
  BY <1>1 DEF Takes, AllThreads, IdleThreads
<1>4. TypeOK'
  <2>1. CyclesLeft' \in [Cores -> Nat]
    <3>1. CyclesLeft \in [Cores -> Nat] /\ QuantumReset \in Nat
      BY SettingsAssumption DEF IInv, TypeOK
    <3>2. CASE /\ ~QuantumEnded(c)
               /\ CyclesLeft' = [CyclesLeft EXCEPT ![c] = @ - 1]
      <4>1. CyclesLeft[c] \in Nat /\ ~ (CyclesLeft[c] < 1)
        BY <3>1, <3>2 DEF QuantumEnded
      <4>2. CyclesLeft[c] - 1 \in Nat
        BY <4>1
      <4> QED BY <3>1, <3>2, <4>2
    <3> QED BY <3>1, <3>2 DEF Continue
  <2>2. DpcTypes'
    BY <1>2, CleanupTypes DEF IInv, TypeOK
  <2>3. NextThread' \in [Cores -> AllThreads]
    BY <1>2, <1>3 DEF IInv, TypeOK
  <2>4. /\ SharedQueue' \in Seq(AllThreads)
        /\ CoreQueue' \in [Cores -> Seq(AllThreads)]
    BY <1>1, <1>2 DEF IInv, TypeOK, Takes
  <2> QED BY <1>2, <2>1, <2>2, <2>3, <2>4 DEF IInv, TypeOK, DpcTypes
<1>5. QueueInv'
  BY <1>1, <1>2 DEF IInv, QueueInv, Takes, Queued
<1>6. NextInv'
  <2>1. \A d \in Cores : NextThread'[d] = IF d = c THEN t ELSE NextThread[d]
    BY <1>2 DEF IInv, TypeOK
  <2>2. Queued' = ToSet(sq)
    BY <1>2 DEF Queued
  <2>3. \A d \in Cores : NextThread'[d] \in Threads \cup {IdleThread[d]}
    BY <1>1, <2>1 DEF IInv, NextInv, Takes
  <2>4. ASSUME NEW d \in Cores, NextThread'[d] \in Threads
        PROVE  /\ ThreadState'[NextThread'[d]] = "READY"
               /\ d \in Affinity'[NextThread'[d]]
               /\ NextThread'[d] \notin Queued'
    BY <1>1, <1>2, <2>1, <2>2, <2>4 DEF IInv, NextInv, Takes
  <2>5. ASSUME NEW d \in Cores, NEW e \in Cores, NextThread'[d] = NextThread'[e]
        PROVE  d = e
    <3>1. ASSUME NEW g \in Cores, NextThread[g] = t PROVE g = c
      BY <1>1, <3>1, ThreadsAssumption DEF IInv, NextInv, Takes, IdleThreads
    <3> QED BY <2>1, <2>5, <3>1 DEF IInv, NextInv
  <2>6. ASSUME NEW u \in Threads, ThreadState'[u] = "READY"
        PROVE  u \in Queued' \/ \E d \in Cores : NextThread'[d] = u
    <3>1. u \in Queued \/ \E d \in Cores : NextThread[d] = u
      BY <1>2, <2>6 DEF IInv, NextInv
    <3>2. CASE u \in Queued
      BY <1>1, <2>1, <2>2, <3>2 DEF Takes
    <3>3. ASSUME NEW d \in Cores, NextThread[d] = u
          PROVE  \E e \in Cores : NextThread'[e] = u
      <4>1. u # IdleThread[c]
        BY ThreadsAssumption DEF IdleThreads
      <4> QED BY <1>1, <2>1, <3>3, <4>1 DEF Takes
    <3> QED BY <3>1, <3>2, <3>3
  <2> QED BY <2>3, <2>4, <2>5, <2>6 DEF NextInv
<1>7. CurrentInv' /\ IdleInv'
  BY <1>2 DEF IInv, CurrentInv, IdleInv
<1> QED BY <1>4, <1>5, <1>6, <1>7 DEF IInv

\* A core that switches takes two threads, the one that it runs next and the
\* one after it, before it queues the thread that was running.
LEMMA SwitchStep ==
  ASSUME IInv, NEW c \in Cores, Switch(c), UNCHANGED affinityVars,
         Yielding' \in SUBSET Threads
  PROVE  IInv'
<1>1. PICK n, sq : /\ Candidate(c) = [thread |-> n, queues |-> Queues(sq)]
                   /\ Takes(c, n, sq)
  BY CandidateTakes
<1>2. sq \in Seq(AllThreads) /\ IsInjective(sq)
  BY <1>1 DEF Takes
<1>3. PICK m, sq2 : /\ PspSelectNextReadyThread(c, Queues(sq))
                         = [thread |-> m, queues |-> Queues(sq2)]
                    /\ Selects(c, sq, m, sq2)
  BY <1>2, Selection
<1>4. PICK old : old = CurrentThread[c]
  OBVIOUS
<1>5. PICK queued \in BOOLEAN :
        queued <=> (n = old \/ ThreadState[old] = "RUNNING")
  OBVIOUS
<1>6. PICK last : last = IF queued THEN Append(sq2, old) ELSE sq2
  OBVIOUS
<1> DEFINE State(u) == IF queued /\ u = old THEN "READY"
                       ELSE IF u = n THEN "RUNNING" ELSE ThreadState[u]
<1>7. /\ old \in AllThreads /\ (old \notin Threads => old = IdleThread[c])
      /\ n \in AllThreads /\ (n \notin Threads => n = IdleThread[c])
      /\ m \in AllThreads /\ (m \notin Threads => m = IdleThread[c])
  <2>1. old \in AllThreads /\ (old \notin Threads => old = IdleThread[c])
    BY <1>4 DEF IInv, CurrentInv, AllThreads, IdleThreads
  <2>2. n \in AllThreads /\ (n \notin Threads => n = IdleThread[c])
    BY <1>1 DEF Takes, AllThreads, IdleThreads
  <2>3. ASSUME m \in ToSet(sq), c \in Affinity[m]
        PROVE  m \in Threads \cup {IdleThread[c]}
    <3>1. m \in AllThreads
      <4>1. \A u \in ToSet(sq) : u \in AllThreads
        BY <1>2 DEF ToSet
      <4> QED BY <2>3, <4>1
    <3>2. ASSUME NEW d \in Cores, m = IdleThread[d] PROVE m = IdleThread[c]
      <4>1. Affinity[IdleThread[d]] = {d}
        BY DEF IInv, IdleInv
      <4>2. c \in Affinity[IdleThread[d]]
        BY <2>3, <3>2, Zenon
      <4>3. c = d
        BY <4>1, <4>2
      <4> QED BY <3>2, <4>3
    <3>3. m \in Threads \/ \E d \in Cores : m = IdleThread[d]
      BY <3>1 DEF AllThreads, IdleThreads
    <3> QED BY <3>1, <3>2, <3>3
  <2>4. m \in Threads \cup {IdleThread[c]}
    BY <1>3, <2>3 DEF Selects
  <2>5. m \in AllThreads /\ (m \notin Threads => m = IdleThread[c])
    BY <2>4 DEF AllThreads, IdleThreads
  <2> QED BY <2>1, <2>2, <2>5
<1>8. /\ CyclesLeft' = [CyclesLeft EXCEPT ![c] = QuantumReset]
      /\ CurrentThread' = [CurrentThread EXCEPT ![c] = n]
      /\ NextThread' = [NextThread EXCEPT ![c] = m]
      /\ SharedQueue' = last
      /\ CoreQueue' = [CoreQueue EXCEPT ![c] = <<>>]
      /\ ThreadState' = [u \in AllThreads |-> State(u)]
      /\ \E inserts : /\ Cleanup(c, inserts, old, n)
                      /\ inserts => ThreadState[old] = "TERMINATED"
      /\ Affinity' = Affinity /\ UserAffinity' = UserAffinity
  <2> DEFINE started == [ThreadState EXCEPT ![n] = "RUNNING"]
  <2>1. Candidate(c).thread = n /\ Candidate(c).queues = Queues(sq)
    BY <1>1
  <2>2. ThreadState \in [AllThreads -> {"INITIALIZATION", "READY", "RUNNING",
                                        "WAITING", "TERMINATED"}]
    BY DEF IInv, TypeOK
  <2>3. started[old] = IF n = old THEN "RUNNING" ELSE ThreadState[old]
    BY <1>7, <2>2
  <2>4. (started[old] = "RUNNING") <=> queued
    BY <1>5, <2>3
  <2>5. /\ CyclesLeft' = [CyclesLeft EXCEPT ![c] = QuantumReset]
        /\ CurrentThread' = [CurrentThread EXCEPT ![c] = n]
        /\ NextThread' = [NextThread EXCEPT ![c] = m]
        /\ ThreadState' = IF started[old] = "RUNNING"
                          THEN [started EXCEPT ![old] = "READY"] ELSE started
        /\ SetQueues(c, IF started[old] = "RUNNING"
                        THEN [Queues(sq2) EXCEPT !.shared = Append(@, old)]
                        ELSE Queues(sq2))
        /\ Cleanup(c, started[old] = "TERMINATED", old, n)
    <3>1. /\ PspSelectNextReadyThread(c, Candidate(c).queues).thread = m
          /\ PspSelectNextReadyThread(c, Candidate(c).queues).queues = Queues(sq2)
      BY <1>3, <2>1
    <3>2. Candidate(c).thread = n /\ CurrentThread[c] = old
      BY <1>4, <2>1
    <3> QED BY <3>1, <3>2 DEF Switch
  <2>6. SharedQueue' = last /\ CoreQueue' = [CoreQueue EXCEPT ![c] = <<>>]
    <3>1. CASE queued
      <4>1. SetQueues(c, [Queues(sq2) EXCEPT !.shared = Append(@, old)])
        BY <2>4, <2>5, <3>1
      <4> QED BY <1>6, <3>1, <4>1 DEF SetQueues, Queues
    <3>2. CASE ~queued
      <4>1. SetQueues(c, Queues(sq2))
        BY <2>4, <2>5, <3>2
      <4> QED BY <1>6, <3>2, <4>1 DEF SetQueues, Queues
    <3> QED BY <3>1, <3>2
  <2>7. ThreadState' = [u \in AllThreads |-> State(u)]
    <3> HIDE DEF started
    <3>1. ThreadState' = IF queued THEN [started EXCEPT ![old] = "READY"]
                                   ELSE started
      BY <2>4, <2>5
    <3> USE DEF started
    <3>2. started = [u \in AllThreads |-> IF u = n THEN "RUNNING"
                                          ELSE ThreadState[u]]
      BY <1>7, <2>2
    <3> HIDE DEF started
    <3> QED BY <1>7, <3>1, <3>2
  <2>8. (started[old] = "TERMINATED") => ThreadState[old] = "TERMINATED"
    BY <2>3
  <2> HIDE DEF started
  <2> QED BY <2>5, <2>6, <2>7, <2>8 DEF affinityVars
<1>9. \A u \in AllThreads : ThreadState'[u] = State(u)
  BY <1>8
<1>10. n \in Threads => ThreadState[n] = "READY" /\ n # old
  BY <1>1, <1>4 DEF Takes, IInv, CurrentInv
<1>11. queued => old \notin ToSet(sq2)
  <2>1. ToSet(sq2) \subseteq ToSet(sq)
    BY <1>3 DEF Selects
  <2>2. n \notin ToSet(sq) /\ ToSet(sq) \subseteq Queued
    BY <1>1 DEF Takes
  <2>3. ThreadState[old] = "RUNNING" => old \notin Queued
    BY DEF IInv, QueueInv
  <2> QED BY <1>5, <2>1, <2>2, <2>3
<1>12. /\ last \in Seq(AllThreads) /\ IsInjective(last)
       /\ ToSet(last) = ToSet(sq2) \cup (IF queued THEN {old} ELSE {})
  <2>1. sq2 \in Seq(AllThreads) /\ IsInjective(sq2)
    BY <1>3 DEF Selects
  <2>2. CASE queued
    BY <1>6, <1>7, <1>11, <2>1, <2>2, AppendNew
  <2>3. CASE ~queued
    BY <1>6, <2>1, <2>3
  <2> QED BY <2>2, <2>3
<1> HIDE DEF State
<1>13. TypeOK'
  <2>1. CyclesLeft' \in [Cores -> Nat]
    BY <1>8, SettingsAssumption DEF IInv, TypeOK
  <2>2. DpcTypes'
    <3>1. ThreadState[old] = "TERMINATED" => old \in Threads
      BY <1>7 DEF IInv, IdleInv
    <3> QED BY <1>7, <1>8, <3>1, CleanupTypes DEF IInv
  <2>3. /\ NextThread' \in [Cores -> AllThreads]
        /\ CurrentThread' \in [Cores -> AllThreads]
    BY <1>7, <1>8 DEF IInv, TypeOK
  <2>4. /\ SharedQueue' \in Seq(AllThreads)
        /\ CoreQueue' \in [Cores -> Seq(AllThreads)]
    BY <1>8, <1>12 DEF IInv, TypeOK
  <2>5. ThreadState' \in [AllThreads -> {"INITIALIZATION", "READY", "RUNNING",
                                         "WAITING", "TERMINATED"}]
    BY <1>8 DEF IInv, TypeOK, State
  <2> QED BY <1>8, <2>1, <2>2, <2>3, <2>4, <2>5 DEF IInv, TypeOK, DpcTypes
<1>14. ToSet(sq2) \subseteq ToSet(sq) /\ n \notin ToSet(sq) /\ ToSet(sq) \subseteq Queued
  BY <1>1, <1>3 DEF Takes, Selects
<1>15. Queued' = ToSet(sq2) \cup (IF queued THEN {old} ELSE {})
  BY <1>8, <1>12 DEF Queued
<1>16. QueueInv'
  <2>1. ASSUME NEW u \in Queued' PROVE ThreadState'[u] = "READY"
    <3>1. u \in AllThreads
      BY <1>8, <1>12, <2>1 DEF Queued, ToSet
    <3>2. CASE queued /\ u = old
      BY <1>9, <3>1, <3>2 DEF State
    <3>3. CASE ~ (queued /\ u = old)
      <4>1. u \in ToSet(sq2)
        BY <1>15, <2>1, <3>3
      <4>2. u # n /\ ThreadState[u] = "READY"
        BY <1>14, <4>1 DEF IInv, QueueInv
      <4> QED BY <1>9, <3>1, <3>3, <4>2 DEF State
    <3> QED BY <3>2, <3>3
  <2> QED BY <1>8, <1>12, <2>1 DEF IInv, QueueInv
<1>17. \A d \in Cores : /\ NextThread'[d] = IF d = c THEN m ELSE NextThread[d]
                        /\ CurrentThread'[d] = IF d = c THEN n ELSE CurrentThread[d]
  BY <1>8 DEF IInv, TypeOK
<1>18. m \in Threads => /\ m \in ToSet(sq) /\ m \in Queued /\ m \notin ToSet(sq2)
                        /\ ThreadState[m] = "READY" /\ c \in Affinity[m]
                        /\ m # old /\ m # n
  <2> SUFFICES ASSUME m \in Threads
               PROVE  /\ m \in ToSet(sq) /\ m \in Queued /\ m \notin ToSet(sq2)
                      /\ ThreadState[m] = "READY" /\ c \in Affinity[m]
                      /\ m # old /\ m # n
    OBVIOUS
  <2>1. m # IdleThread[c]
    BY ThreadsAssumption DEF IdleThreads
  <2>2. m \in ToSet(sq) /\ c \in Affinity[m] /\ m \notin ToSet(sq2)
    BY <1>3, <2>1 DEF Selects
  <2>3. ThreadState[m] = "READY" /\ m \in Queued /\ m # n
    BY <1>14, <2>2 DEF IInv, QueueInv
  <2>4. m # old
    BY <1>4, <2>3 DEF IInv, CurrentInv
  <2> QED BY <2>2, <2>3, <2>4
<1>19. NextInv'
  <2>1. \A d \in Cores : NextThread'[d] \in Threads \cup {IdleThread[d]}
    BY <1>7, <1>17 DEF IInv, NextInv
  <2>2. ASSUME NEW d \in Cores, NextThread'[d] \in Threads
        PROVE  /\ ThreadState'[NextThread'[d]] = "READY"
               /\ d \in Affinity'[NextThread'[d]]
               /\ NextThread'[d] \notin Queued'
    <3>1. CASE d = c
      <4>1. NextThread'[d] = m /\ m \in Threads
        BY <1>17, <2>2, <3>1
      <4>2. ThreadState'[m] = "READY"
        BY <1>7, <1>9, <1>18, <4>1 DEF State
      <4> QED BY <1>8, <1>15, <1>18, <3>1, <4>1, <4>2
    <3>2. CASE d # c
      <4>1. PICK u \in Threads : u = NextThread'[d] /\ u = NextThread[d]
        BY <1>17, <2>2, <3>2
      <4>2. ThreadState[u] = "READY" /\ d \in Affinity[u] /\ u \notin Queued
        BY <4>1 DEF IInv, NextInv
      <4>3. u # n
        BY <1>1, <3>2, <4>1 DEF Takes
      <4>4. u # old
        BY <1>4, <4>2 DEF IInv, CurrentInv
      <4>5. ThreadState'[u] = "READY"
        BY <1>9, <4>2, <4>3 DEF State, AllThreads
      <4> QED BY <1>8, <1>14, <1>15, <4>1, <4>2, <4>4, <4>5
    <3> QED BY <3>1, <3>2
  <2>3. ASSUME NEW d \in Cores, NEW e \in Cores, NextThread'[d] = NextThread'[e]
        PROVE  d = e
    <3>1. ASSUME NEW g \in Cores, NextThread[g] = m PROVE g = c
      <4>1. CASE m \in Threads
        BY <1>18, <3>1, <4>1 DEF IInv, NextInv
      <4>2. CASE m = IdleThread[c]
        BY <3>1, <4>2, ThreadsAssumption DEF IInv, NextInv, IdleThreads
      <4> QED BY <1>7, <4>1, <4>2
    <3> QED BY <1>17, <2>3, <3>1 DEF IInv, NextInv
  <2>4. ASSUME NEW u \in Threads, ThreadState'[u] = "READY"
        PROVE  u \in Queued' \/ \E d \in Cores : NextThread'[d] = u
    <3>1. CASE queued /\ u = old
      BY <1>15, <3>1
    <3>2. CASE ~ (queued /\ u = old)
      <4>1. u # n /\ ThreadState[u] = "READY"
        BY <1>9, <2>4, <3>2 DEF State, AllThreads
      <4>2. u \in Queued \/ \E d \in Cores : NextThread[d] = u
        BY <4>1 DEF IInv, NextInv
      <4>3. CASE u \in Queued
        <5>1. u \in ToSet(sq)
          BY <1>1, <4>1, <4>3 DEF Takes
        <5>2. u \in ToSet(sq2) \/ u = m
          BY <1>3, <5>1 DEF Selects
        <5> QED BY <1>15, <1>17, <5>2
      <4>4. ASSUME NEW d \in Cores, NextThread[d] = u
            PROVE  NextThread'[d] = u
        <5>1. u # IdleThread[c]
          BY ThreadsAssumption DEF IdleThreads
        <5>2. d # c
          BY <1>1, <4>1, <4>4, <5>1 DEF Takes
        <5> QED BY <1>17, <4>4, <5>2
      <4> QED BY <4>2, <4>3, <4>4
    <3> QED BY <3>1, <3>2
  <2> QED BY <2>1, <2>2, <2>3, <2>4 DEF NextInv
<1>20. CurrentInv'
  <2>1. \A d \in Cores : CurrentThread'[d] \in Threads \cup {IdleThread[d]}
    BY <1>7, <1>17 DEF IInv, CurrentInv
  <2>2. ASSUME NEW g \in Cores, CurrentThread[g] = n PROVE g = c
    <3>1. CASE n \in Threads
      BY <1>10, <2>2, <3>1 DEF IInv, CurrentInv
    <3>2. CASE n = IdleThread[c]
      BY <2>2, <3>2, ThreadsAssumption DEF IInv, CurrentInv, IdleThreads
    <3> QED BY <1>7, <3>1, <3>2
  <2>3. \A d, e \in Cores : CurrentThread'[d] = CurrentThread'[e] => d = e
    BY <1>17, <2>2 DEF IInv, CurrentInv
  <2>4. ASSUME NEW d \in Cores, CurrentThread'[d] \in Threads
        PROVE  ThreadState'[CurrentThread'[d]] \in {"RUNNING", "WAITING", "TERMINATED"}
    <3>1. CASE d = c
      <4>1. CurrentThread'[d] = n /\ n \in Threads /\ n # old
        BY <1>10, <1>17, <2>4, <3>1
      <4> QED BY <1>7, <1>9, <4>1 DEF State
    <3>2. CASE d # c
      <4>1. PICK u \in Threads : u = CurrentThread'[d] /\ u = CurrentThread[d]
        BY <1>17, <2>4, <3>2
      <4>2. u # old /\ ThreadState[u] \in {"RUNNING", "WAITING", "TERMINATED"}
        BY <1>4, <3>2, <4>1 DEF IInv, CurrentInv
      <4> QED BY <1>9, <4>1, <4>2 DEF State, AllThreads
    <3> QED BY <3>1, <3>2
  <2>5. ASSUME NEW u \in AllThreads, ThreadState'[u] = "RUNNING"
        PROVE  \E d \in Cores : CurrentThread'[d] = u
    <3>1. CASE u = n
      BY <1>17, <3>1
    <3>2. CASE u # n
      <4>1. ThreadState[u] = "RUNNING" /\ ~ (queued /\ u = old)
        BY <1>9, <2>5, <3>2 DEF State
      <4>2. PICK d \in Cores : CurrentThread[d] = u
        BY <4>1 DEF IInv, CurrentInv
      <4>3. d # c
        BY <1>4, <1>5, <4>1, <4>2
      <4> QED BY <1>17, <4>2, <4>3
    <3> QED BY <3>1, <3>2
  <2> QED BY <2>1, <2>3, <2>4, <2>5 DEF CurrentInv
<1>21. IdleInv'
  <2> SUFFICES ASSUME NEW d \in Cores
               PROVE  /\ Affinity'[IdleThread[d]] = {d}
                      /\ ThreadState'[IdleThread[d]] \in {"READY", "RUNNING"}
    BY DEF IdleInv
  <2>1. IdleThread[d] \in AllThreads
    BY DEF AllThreads, IdleThreads
  <2> QED BY <1>8, <1>9, <2>1 DEF IInv, IdleInv, State
<1> QED BY <1>13, <1>16, <1>19, <1>20, <1>21 DEF IInv
-----------------------------------------------------------------------------
(***************************************************************************)
(* The other steps.  A thread that is woken before it has left its core    *)
(* (LateWakes) would be ready and current at once, which breaks            *)
(* CurrentInv: the theorems below assume that none is.                     *)
(***************************************************************************)

\* A thread enters the shared queue when it was neither ready nor on a core.
LEMMA QueueingStep ==
  ASSUME IInv, NEW t \in Threads,
         ThreadState[t] \notin {"READY", "RUNNING"},
         \A c \in Cores : CurrentThread[c] # t,
         ThreadState' = [ThreadState EXCEPT ![t] = "READY"],
         PspInsertIntoSharedQueue(t),
         UNCHANGED <<affinityVars, CoreQueue, coreVars, Yielding, dpcVars>>
  PROVE  IInv'
<1>1. /\ t \in AllThreads /\ t \notin Queued
      /\ SharedQueue \in Seq(AllThreads) /\ IsInjective(SharedQueue)
  BY DEF IInv, TypeOK, QueueInv, AllThreads
<1>2. /\ SharedQueue' \in Seq(AllThreads) /\ IsInjective(SharedQueue')
      /\ Queued' = Queued \cup {t}
  BY <1>1, AppendNew DEF PspInsertIntoSharedQueue, Queued
<1>3. /\ UNCHANGED <<Affinity, UserAffinity, CoreQueue, CurrentThread,
                     NextThread, CyclesLeft, Yielding, dpcVars>>
      /\ \A u \in AllThreads :
           ThreadState'[u] = IF u = t THEN "READY" ELSE ThreadState[u]
  BY DEF affinityVars, coreVars, IInv, TypeOK
<1>4. TypeOK'
  BY <1>2, <1>3, ZenonT(60) DEF IInv, TypeOK, dpcVars
<1>5. QueueInv'
  <2>1. \A u \in Queued : u \in AllThreads
    BY <1>1 DEF Queued, ToSet
  <2> QED BY <1>1, <1>2, <1>3, <2>1 DEF IInv, QueueInv
<1>6. NextInv'
  <2>1. \A c \in Cores : NextThread[c] # t
    BY DEF IInv, NextInv
  <2> QED BY <1>2, <1>3, <2>1 DEF IInv, NextInv, AllThreads
<1>7. CurrentInv'
  BY <1>3 DEF IInv, CurrentInv, AllThreads
<1>8. IdleInv'
  <2>1. \A c \in Cores : IdleThread[c] \in AllThreads
    BY DEF AllThreads, IdleThreads
  <2> QED BY <1>3, <2>1 DEF IInv, IdleInv
<1> QED BY <1>4, <1>5, <1>6, <1>7, <1>8 DEF IInv

\* A thread that is current changes its state without leaving its core.
LEMMA CurrentStateStep ==
  ASSUME IInv, NEW c \in Cores, NEW state \in {"RUNNING", "WAITING", "TERMINATED"},
         CurrentThread[c] \in Threads,
         ThreadState' = [ThreadState EXCEPT ![CurrentThread[c]] = state],
         Yielding' \in SUBSET Threads,
         UNCHANGED <<affinityVars, queueVars, coreVars, dpcVars>>
  PROVE  IInv'
<1>1. PICK t \in Threads : t = CurrentThread[c]
  OBVIOUS
<1>2. /\ UNCHANGED <<Affinity, UserAffinity, CoreQueue, SharedQueue,
                     CurrentThread, NextThread, CyclesLeft, dpcVars, Queued>>
      /\ \A u \in AllThreads :
           ThreadState'[u] = IF u = t THEN state ELSE ThreadState[u]
  BY <1>1 DEF affinityVars, queueVars, coreVars, IInv, TypeOK, Queued
<1>3. t \in AllThreads /\ ThreadState[t] # "READY" /\ t \notin Queued
  BY <1>1 DEF IInv, CurrentInv, QueueInv, AllThreads
<1>4. TypeOK'
  BY <1>1, <1>2 DEF IInv, TypeOK, dpcVars
<1>5. QueueInv'
  <2>1. \A u \in Queued : u \in AllThreads
    BY DEF Queued, ToSet, IInv, TypeOK
  <2> QED BY <1>2, <1>3, <2>1 DEF IInv, QueueInv
<1>6. NextInv'
  <2>1. \A d \in Cores : NextThread[d] # t
    BY <1>3 DEF IInv, NextInv
  <2> QED BY <1>2, <2>1 DEF IInv, NextInv, AllThreads
<1>7. CurrentInv'
  BY <1>1, <1>2 DEF IInv, CurrentInv, AllThreads
<1>8. IdleInv'
  <2>1. \A d \in Cores : IdleThread[d] \in AllThreads /\ IdleThread[d] # t
    BY ThreadsAssumption DEF AllThreads, IdleThreads
  <2> QED BY <1>2, <2>1 DEF IInv, IdleInv
<1> QED BY <1>4, <1>5, <1>6, <1>7, <1>8 DEF IInv

\* KeSetSystemAffinityThread and its reverse change the affinity of a thread
\* that no core has selected, so that no selection becomes stale.
LEMMA AffinityStep ==
  ASSUME IInv, NEW c \in Cores, NEW mask \in SUBSET Cores, NEW saved \in SUBSET Cores,
         CurrentThread[c] \in Threads,
         Affinity' = [Affinity EXCEPT ![CurrentThread[c]] = mask],
         UserAffinity' = [UserAffinity EXCEPT ![CurrentThread[c]] = saved],
         Yielding' \in SUBSET Threads,
         UNCHANGED <<ThreadState, queueVars, coreVars, dpcVars>>
  PROVE  IInv'
<1>1. PICK t \in Threads : t = CurrentThread[c]
  OBVIOUS
<1>2. /\ UNCHANGED <<CoreQueue, SharedQueue, CurrentThread, NextThread,
                     CyclesLeft, dpcVars, Queued>>
      /\ \A u \in AllThreads :
           Affinity'[u] = IF u = t THEN mask ELSE Affinity[u]
  BY <1>1 DEF queueVars, coreVars, IInv, TypeOK, Queued
<1>3. TypeOK'
  BY <1>1, <1>2 DEF IInv, TypeOK, dpcVars
<1>4. QueueInv' /\ CurrentInv'
  BY <1>2 DEF IInv, QueueInv, CurrentInv
<1>5. NextInv'
  <2>1. ThreadState[t] # "READY"
    BY <1>1 DEF IInv, CurrentInv
  <2>2. \A d \in Cores : NextThread[d] # t
    BY <2>1 DEF IInv, NextInv
  <2> QED BY <1>2, <2>2 DEF IInv, NextInv, AllThreads
<1>6. IdleInv'
  <2>1. \A d \in Cores : IdleThread[d] \in AllThreads /\ IdleThread[d] # t
    BY ThreadsAssumption DEF AllThreads, IdleThreads
  <2> QED BY <1>2, <2>1 DEF IInv, IdleInv
<1> QED BY <1>3, <1>4, <1>5, <1>6 DEF IInv

\* The routine of the cleanup DPC touches only what it counts.
LEMMA CallDpcStep ==
  ASSUME IInv, NEW c \in Cores, PspCallDpc(c)
  PROVE  IInv'
<1>1. UNCHANGED <<ThreadState, Affinity, UserAffinity, SharedQueue, CoreQueue,
                  CurrentThread, NextThread, CyclesLeft, Yielding, DpcArgument,
                  DpcInserted, DpcInProgress, Queued>>
  BY DEF PspCallDpc, affinityVars, queueVars, coreVars, Queued
<1>2. /\ DpcCalls' \in SUBSET AllThreads /\ DpcReturns' \in SUBSET AllThreads
      /\ Dereferenced' \in [Threads -> Nat]
  <2>1. CurrentThread[c] \in AllThreads /\ Dereferenced \in [Threads -> Nat]
    BY DEF IInv, TypeOK
  <2>2. Dereferenced' \in [Threads -> Nat]
    <3>1. Dereferenced' = [t \in Threads |-> IF t = DpcArgument
                             THEN Dereferenced[DpcArgument] + 1 ELSE Dereferenced[t]]
      BY <2>1 DEF PspCallDpc
    <3> QED BY <2>1, <3>1
  <2>3. DpcCalls' \in SUBSET AllThreads
    BY DEF PspCallDpc, IInv, TypeOK
  <2>4. DpcReturns' \in SUBSET AllThreads
    BY <2>1 DEF PspCallDpc, IInv, TypeOK
  <2> QED BY <2>2, <2>3, <2>4
<1> QED
  BY <1>1, <1>2 DEF IInv, TypeOK, QueueInv, NextInv, CurrentInv, IdleInv

\* No thread is ever in two places or in none.
LEMMA Invariance ==
  ASSUME ~LateWakes
  PROVE  Spec => []IInv
<1>1. Init => IInv
  <2> SUFFICES ASSUME Init PROVE IInv
    OBVIOUS
  <2>1. /\ \A c \in Cores : IdleThread[c] \in AllThreads \ Threads
        /\ \A t \in AllThreads \ Threads : \E c \in Cores : IdleThread[c] = t
        /\ IdleThread \in [Cores -> AllThreads]
    BY ThreadsAssumption DEF AllThreads, IdleThreads
  <2>2. /\ ThreadState \in [AllThreads -> {"INITIALIZATION", "RUNNING"}]
        /\ \A t \in AllThreads :
             ThreadState[t] = IF t \in Threads THEN "INITIALIZATION" ELSE "RUNNING"
        /\ SharedQueue = <<>> /\ Queued = {}
        /\ CurrentThread = IdleThread /\ NextThread = IdleThread
    BY DEF Init, Queued, ToSet
  <2>3. \A c \in Cores : Affinity[IdleThread[c]] = {c}
    <3> SUFFICES ASSUME NEW c \in Cores PROVE Affinity[IdleThread[c]] = {c}
      OBVIOUS
    <3>1. Affinity[IdleThread[c]] = {d \in Cores : IdleThread[d] = IdleThread[c]}
      BY <2>1 DEF Init
    <3> QED BY <3>1, ThreadsAssumption
  <2>4. TypeOK
    <3>1. Affinity \in [AllThreads -> SUBSET Cores]
      BY SettingsAssumption DEF Init
    <3>2. UserAffinity \in [AllThreads -> SUBSET Cores]
      BY DEF Init
    <3>3. CyclesLeft \in [Cores -> Nat] /\ Dereferenced \in [Threads -> Nat]
      BY DEF Init
    <3>4. /\ SharedQueue \in Seq(AllThreads)
          /\ CoreQueue \in [Cores -> Seq(AllThreads)]
      BY DEF Init
    <3> QED BY <2>1, <2>2, <3>1, <3>2, <3>3, <3>4 DEF TypeOK, Init
  <2>5. QueueInv
    BY <2>2 DEF QueueInv, Init, IsInjective
  <2>6. NextInv
    BY <2>1, <2>2, ThreadsAssumption DEF NextInv, AllThreads
  <2>7. CurrentInv
    BY <2>1, <2>2, ThreadsAssumption DEF CurrentInv
  <2>8. IdleInv
    BY <2>1, <2>2, <2>3 DEF IdleInv
  <2> QED BY <2>4, <2>5, <2>6, <2>7, <2>8 DEF IInv
<1>2. IInv /\ [Next]_vars => IInv'
  <2> SUFFICES ASSUME IInv, [Next]_vars PROVE IInv'
    OBVIOUS
  <2>1. Yielding \in SUBSET Threads /\ UserAffinity \in [AllThreads -> SUBSET Cores]
    BY DEF IInv, TypeOK
  <2>2. ASSUME NEW c \in Cores, ClockTick(c) \/ KeForceClockTick(c) PROVE IInv'
    BY <2>1, <2>2, ContinueStep, SwitchStep
    DEF ClockTick, KeForceClockTick, PspScheduleThread
  <2>3. ASSUME NEW c \in Cores, Wait(c) \/ PsExitThread(c) PROVE IInv'
    BY <2>1, <2>3, CurrentStateStep DEF Wait, PsExitThread
  <2>4. ASSUME NEW c \in Cores, NEW t \in Threads, Wake(c, t) PROVE IInv'
    <3>1. ThreadState[t] = "WAITING"
      BY <2>4 DEF Wake
    <3>2. CASE t = CurrentThread[c]
      BY <2>1, <2>4, <3>2, CurrentStateStep DEF Wake, queueVars
    <3>3. CASE t # CurrentThread[c]
      <4>1. \A d \in Cores : CurrentThread[d] # t
        BY <2>4, <3>3 DEF Wake
      <4> QED BY <2>4, <3>1, <3>3, <4>1, QueueingStep DEF Wake
    <3> QED BY <3>2, <3>3
  <2>5. ASSUME NEW c \in Cores, NEW mask \in SUBSET Cores,
               KeSetSystemAffinityThread(c, mask)
        PROVE  IInv'
    <3>1. Affinity[CurrentThread[c]] \in SUBSET Cores
      BY DEF IInv, TypeOK
    <3> QED BY <2>1, <2>5, <3>1, AffinityStep DEF KeSetSystemAffinityThread
  <2>6. ASSUME NEW c \in Cores, KeRevertToUserAffinityThread(c) PROVE IInv'
    <3>1. PICK mask \in SUBSET Cores : mask = UserAffinity[CurrentThread[c]]
      BY DEF IInv, TypeOK
    <3>2. {} \in SUBSET Cores
      OBVIOUS
    <3>3. /\ CurrentThread[c] \in Threads
          /\ Affinity' = [Affinity EXCEPT ![CurrentThread[c]] = mask]
          /\ UserAffinity' = [UserAffinity EXCEPT ![CurrentThread[c]] = {}]
          /\ Yielding' \in SUBSET Threads
          /\ UNCHANGED <<ThreadState, queueVars, coreVars, dpcVars>>
      BY <2>1, <2>6, <3>1 DEF KeRevertToUserAffinityThread
    <3> QED BY <3>2, <3>3, AffinityStep
  <2>7. ASSUME NEW c \in Cores, PspCallDpc(c) PROVE IInv'
    BY <2>7, CallDpcStep
  <2>8. ASSUME NEW t \in Threads, PspInsertIntoSharedQueueLocked(t) PROVE IInv'
    <3>1. ThreadState[t] = "INITIALIZATION"
      BY <2>8 DEF PspInsertIntoSharedQueueLocked
    <3>2. \A c \in Cores : CurrentThread[c] # t
      BY <3>1 DEF IInv, CurrentInv
    <3> QED BY <2>8, <3>1, <3>2, QueueingStep DEF PspInsertIntoSharedQueueLocked
  <2>9. CASE UNCHANGED vars
    <3>1. UNCHANGED <<ThreadState, Affinity, UserAffinity, SharedQueue, CoreQueue,
                      CurrentThread, NextThread, CyclesLeft, Yielding,
                      DpcArgument, DpcInserted, DpcInProgress, DpcCalls,
                      DpcReturns, Dereferenced, Queued>>
      BY <2>9 DEF vars, affinityVars, queueVars, coreVars, dpcVars, Queued
    <3> QED BY <3>1 DEF IInv, TypeOK, QueueInv, NextInv, CurrentInv, IdleInv
  <2> QED BY <2>2, <2>3, <2>4, <2>5, <2>6, <2>7, <2>8, <2>9 DEF Next
<1> QED BY <1>1, <1>2, PTL DEF Spec
-----------------------------------------------------------------------------
(***************************************************************************)
(* The properties.                                                         *)
(***************************************************************************)

\* In a list without repetitions a thread is found once or not at all.
LEMMA OccurrencesInList ==
  ASSUME NEW queue, IsInjective(queue), NEW t
  PROVE  Occurrences(queue, t) =
           IF \E i \in DOMAIN queue : queue[i] = t THEN 1 ELSE 0
<1>1. CASE ~ \E i \in DOMAIN queue : queue[i] = t
  <2>1. {i \in DOMAIN queue : queue[i] = t} = {}
    BY <1>1
  <2> QED BY <1>1, <2>1, FS_EmptySet DEF Occurrences
<1>2. ASSUME NEW i \in DOMAIN queue, queue[i] = t
      PROVE  Occurrences(queue, t) = 1
  <2>1. {j \in DOMAIN queue : queue[j] = t} = {i}
    BY <1>2 DEF IsInjective
  <2> QED BY <2>1, FS_Singleton DEF Occurrences
<1> QED BY <1>1, <1>2

\* The invariant says it of sets and of single cores, the property counts.
LEMMA InPlace ==
  ASSUME IInv
  PROVE  ThreadsInPlace
<1>1. SharedQueue \in Seq(AllThreads) /\ IsInjective(SharedQueue)
  BY DEF IInv, TypeOK, QueueInv
<1>2. ASSUME NEW t
      PROVE  Occurrences(SharedQueue, t) = IF t \in Queued THEN 1 ELSE 0
  BY <1>1, OccurrencesInList DEF Queued, ToSet
<1>3. ReadyInOnePlace
  <2> SUFFICES ASSUME NEW t \in Threads
               PROVE  Places(t) = IF ThreadState[t] = "READY" THEN 1 ELSE 0
    BY DEF ReadyInOnePlace
  <2>1. CASE \E c \in Cores : NextThread[c] = t
    <3>1. PICK c \in Cores : NextThread[c] = t
      BY <2>1
    <3>2. NextOn(t) = {c}
      BY <3>1 DEF NextOn, IInv, NextInv
    <3>3. ThreadState[t] = "READY" /\ t \notin Queued
      BY <3>1 DEF IInv, NextInv
    <3>4. Cardinality(NextOn(t)) = 1
      BY <3>2, FS_Singleton
    <3> QED BY <1>2, <3>3, <3>4 DEF Places
  <2>2. CASE ~ \E c \in Cores : NextThread[c] = t
    <3>1. NextOn(t) = {}
      BY <2>2 DEF NextOn
    <3>2. Cardinality(NextOn(t)) = 0
      BY <3>1, FS_EmptySet
    <3>3. (t \in Queued) <=> (ThreadState[t] = "READY")
      BY <2>2 DEF IInv, NextInv, QueueInv
    <3> QED BY <1>2, <3>2, <3>3 DEF Places
  <2> QED BY <2>1, <2>2
<1>4. OneCorePerThread
  <2>1. ASSUME NEW t \in AllThreads PROVE Cardinality(RunsOn(t)) <= 1
    <3>1. CASE \E c \in Cores : CurrentThread[c] = t
      <4>1. PICK c \in Cores : CurrentThread[c] = t
        BY <3>1
      <4>2. RunsOn(t) = {c}
        BY <4>1 DEF RunsOn, IInv, CurrentInv
      <4>3. Cardinality(RunsOn(t)) = 1
        BY <4>2, FS_Singleton
      <4> QED BY <4>3
    <3>2. CASE ~ \E c \in Cores : CurrentThread[c] = t
      <4>1. RunsOn(t) = {}
        BY <3>2 DEF RunsOn
      <4>2. Cardinality(RunsOn(t)) = 0
        BY <4>1, FS_EmptySet
      <4> QED BY <4>2
    <3> QED BY <3>1, <3>2
  <2>2. ASSUME NEW t \in AllThreads, ThreadState[t] = "RUNNING"
        PROVE  RunsOn(t) # {}
    BY <2>2 DEF IInv, CurrentInv, RunsOn
  <2> QED BY <2>1, <2>2 DEF OneCorePerThread
<1>5. IdleThreadsStayHome
  <2>1. ASSUME NEW c \in Cores, NEW d \in Cores \ {c}
        PROVE  CurrentThread[d] # IdleThread[c] /\ NextThread[d] # IdleThread[c]
    BY ThreadsAssumption DEF IInv, CurrentInv, NextInv, IdleThreads
  <2>2. \A c \in Cores : Occurrences(SharedQueue, IdleThread[c]) <= 1
    BY <1>2
  <2>3. \A c \in Cores : ThreadState[IdleThread[c]] \in {"READY", "RUNNING"}
    BY DEF IInv, IdleInv
  <2> QED BY <2>1, <2>2, <2>3 DEF IdleThreadsStayHome
<1> QED BY <1>3, <1>4, <1>5 DEF IInv, ThreadsInPlace

\* As long as no thread is woken before it has left its core, every thread is
\* where its state says: no ready thread is lost or selected twice, and no
\* thread runs on two cores.
THEOREM EveryThreadInPlace ==
  ASSUME ~LateWakes
  PROVE  Spec => []ThreadsInPlace
BY Invariance, InPlace, PTL

\* Only PspScheduleThread switches, to a candidate of the core.
LEMMA SwitchesToCandidate ==
  ASSUME IInv, [Next]_vars, NEW c \in Cores, CurrentThread'[c] # CurrentThread[c]
  PROVE  /\ ThreadState[CurrentThread'[c]] = "READY"
         /\ c \in Affinity[CurrentThread'[c]]
<1>1. PICK d \in Cores : Switch(d)
  <2>1. CurrentThread' # CurrentThread
    OBVIOUS
  <2>2. ASSUME NEW d \in Cores, ClockTick(d) \/ KeForceClockTick(d)
        PROVE  Switch(d) \/ UNCHANGED CurrentThread
    BY <2>2 DEF ClockTick, KeForceClockTick, PspScheduleThread, Continue
  <2>3. ASSUME NEW d \in Cores,
               \/ Wait(d) \/ PsExitThread(d)
               \/ \E t \in Threads : Wake(d, t)
               \/ \E mask \in SUBSET Cores : KeSetSystemAffinityThread(d, mask)
               \/ KeRevertToUserAffinityThread(d)
               \/ PspCallDpc(d)
        PROVE  UNCHANGED CurrentThread
    BY <2>3 DEF Wait, PsExitThread, Wake, KeSetSystemAffinityThread,
                KeRevertToUserAffinityThread, PspCallDpc, coreVars
  <2>4. ASSUME NEW t \in Threads, PspInsertIntoSharedQueueLocked(t)
        PROVE  UNCHANGED CurrentThread
    BY <2>4 DEF PspInsertIntoSharedQueueLocked, coreVars
  <2>5. (UNCHANGED vars) => UNCHANGED CurrentThread
    BY DEF vars, coreVars
  <2> QED BY <2>1, <2>2, <2>3, <2>4, <2>5 DEF Next
<1>2. PICK n, sq : /\ Candidate(d) = [thread |-> n, queues |-> Queues(sq)]
                   /\ Takes(d, n, sq)
  BY CandidateTakes
<1>3. CurrentThread' = [CurrentThread EXCEPT ![d] = n]
  <2>1. Candidate(d).thread = n
    BY <1>2
  <2> QED BY <1>1, <2>1 DEF Switch
<1>4. d = c /\ CurrentThread'[c] = n
  BY <1>3 DEF IInv, TypeOK
<1>5. c \in Affinity[n]
  BY <1>2, <1>4 DEF Takes
<1>6. ThreadState[n] = "READY"
  <2>1. CASE n \in Threads
    BY <1>2, <2>1 DEF Takes
  <2>2. CASE n = IdleThread[c]
    <3>1. n \in AllThreads /\ ThreadState[n] \in {"READY", "RUNNING"}
      BY <2>2 DEF IInv, IdleInv, AllThreads, IdleThreads
    <3>2. ASSUME ThreadState[n] = "RUNNING" PROVE FALSE
      <4>1. PICK e \in Cores : CurrentThread[e] = n
        BY <3>1, <3>2 DEF IInv, CurrentInv
      <4>2. e # c
        BY <1>4, <4>1
      <4> QED BY <2>2, <4>1, <4>2, ThreadsAssumption
          DEF IInv, CurrentInv, IdleThreads
    <3> QED BY <3>1, <3>2
  <2> QED BY <1>2, <1>4, <2>1, <2>2 DEF Takes
<1> QED BY <1>4, <1>5, <1>6

\* A waiting or terminated thread is never given a core.
THEOREM OnlyReadyThreadsRun ==
  ASSUME ~LateWakes
  PROVE  Spec => SwitchesToReadyThreads
<1>1. IInv /\ [Next]_vars =>
        [\A c \in Cores : CurrentThread'[c] # CurrentThread[c] =>
                            ThreadState[CurrentThread'[c]] = "READY"]_vars
  BY SwitchesToCandidate
<1> QED BY <1>1, Invariance, PTL DEF Spec, SwitchesToReadyThreads

\* A thread is never given a core that its affinity excludes, although the
\* core selects it some time before it switches.
THEOREM AffinityIsHonoured ==
  ASSUME ~LateWakes
  PROVE  Spec => AffinityHonoured
<1>1. IInv /\ [Next]_vars =>
        [\A c \in Cores : CurrentThread'[c] # CurrentThread[c] =>
                            c \in Affinity[CurrentThread'[c]]]_vars
  BY SwitchesToCandidate
<1> QED BY <1>1, Invariance, PTL DEF Spec, AffinityHonoured

=============================================================================
