------------------------- MODULE Dispatcher_proofs -------------------------
EXTENDS DispatcherRefinement, WaitLocks, ListLemmas, FiniteSetTheorems, SequenceTheorems,
        TLAPS

(***************************************************************************)
(* The inductive invariant.  The wait lists can be updated without losing  *)
(* a thread only because BlocksAgree knows which threads are in them   *)
(* and that none is in one twice; NoLostWakeup needs both.                 *)
(***************************************************************************)
FiniteBlocks == \A t \in Threads : IsFiniteSet(LinkedBlocks[t])

IInv == TypeOK /\ BlocksAgree /\ NoLostWakeup /\ FiniteBlocks

\* Objects are signalled at least once before they are designalled.
LEMMA DesignalStep ==
  ASSUME TypeOK, NEW S \in SUBSET Objects,
         \A o \in S : SignalState[o] > 0, Designal(S)
  PROVE  /\ SignalState' \in [Objects -> 0 .. ULongMax]
         /\ \A o \in Objects : SignalState'[o] > 0 => SignalState[o] > 0
<1>1. ULongMax \in Nat
  BY BoundsAssumption
<1>2. SignalState \in [Objects -> 0 .. ULongMax]
  BY DEF TypeOK
<1>3. ASSUME NEW o \in Objects
      PROVE  /\ SignalState'[o] \in 0 .. ULongMax
             /\ SignalState'[o] > 0 => SignalState[o] > 0
  BY <1>1, <1>2, <1>3 DEF Designal
<1>4. SignalState' = [o \in Objects |-> SignalState'[o]]
  BY DEF Designal
<1> QED BY <1>3, <1>4

\* A wait list holds the oldest waiter, who really waits for the object.
LEMMA OldestWaits ==
  ASSUME IInv, NEW o \in Objects, ~Exhausted(o)
  PROVE  /\ Oldest(o) \in Threads
         /\ o \in LinkedBlocks[Oldest(o)]
         /\ ThreadState[Oldest(o)] = "WAITING"
         /\ SignalState[o] > 0
<1>1. WaitHead[o] \in Seq(Threads) /\ WaitHead[o] # <<>>
  BY DEF IInv, TypeOK, Exhausted
<1>2. Oldest(o) \in ToSet(WaitHead[o])
  BY <1>1 DEF Oldest, ToSet
<1>3. Oldest(o) \in Threads /\ o \in LinkedBlocks[Oldest(o)]
  BY <1>2 DEF IInv, BlocksAgree
<1>4. SignalState[o] > 0
  BY BoundsAssumption DEF IInv, TypeOK, Exhausted
<1> QED BY <1>3, <1>4 DEF IInv, BlocksAgree

\* Waking a thread unlinks its blocks and touches no other thread's.
LEMMA UnwaitStep ==
  ASSUME IInv, NEW t \in Threads, NEW status,
         KeUnwaitThreadNoLock(t, status)
  PROVE  /\ BlocksAgree' /\ FiniteBlocks'
         /\ \A o \in Objects : WaitHead[o] = <<>> => WaitHead'[o] = <<>>
         /\ ThreadState' \in [Threads -> {"AWAKE", "WAITING", "TERMINATED"}]
         /\ WaitObjects' \in [Threads -> WaitArrays \cup {<<>>}]
         /\ WaitType' \in [Threads -> {"WaitAll", "WaitAny"}]
         /\ LinkedBlocks' \in [Threads -> SUBSET Objects]
         /\ ActiveBlocks' \in [Threads -> Int]
         /\ Timed' \in [Threads -> BOOLEAN]
         /\ WaitHead' \in [Objects -> Seq(Threads)]
         /\ Owner' \in [Mutexes -> Threads \cup {NULL}]
         /\ Holds' \in [Threads -> SUBSET Mutexes]
         /\ Abandoned' \in SUBSET Mutexes
<1> USE DEF KeUnwaitThreadNoLock
<1>1. ASSUME NEW o \in Objects
      PROVE  /\ WaitHead'[o] \in Seq(Threads)
             /\ ToSet(WaitHead'[o]) = ToSet(WaitHead[o]) \ {t}
             /\ IsInjective(WaitHead'[o])
             /\ WaitHead[o] = <<>> => WaitHead'[o] = <<>>
  <2>1. /\ WaitHead[o] \in Seq(Threads) /\ IsInjective(WaitHead[o])
        /\ t \in ToSet(WaitHead[o]) <=> o \in LinkedBlocks[t]
    BY DEF IInv, TypeOK, BlocksAgree
  <2>2. CASE o \in LinkedBlocks[t]
    <3>1. WaitHead'[o] = RemoveFirst(WaitHead[o], t)
      BY <2>2
    <3>2. WaitHead[o] # <<>>
      BY <2>1, <2>2 DEF ToSet
    <3> QED BY <2>1, <3>1, <3>2, RemoveFirstProperties
  <2>3. CASE o \notin LinkedBlocks[t]
    <3>1. WaitHead'[o] = WaitHead[o]
      BY <2>3
    <3> QED BY <2>1, <2>3, <3>1
  <2> QED BY <2>2, <2>3
<1>2. Cardinality(LinkedBlocks[t]) = ActiveBlocks[t]
  BY DEF IInv, BlocksAgree
<1>3. /\ LinkedBlocks' \in [Threads -> SUBSET Objects]
      /\ \A u \in Threads :
           LinkedBlocks'[u] = IF u = t THEN {} ELSE LinkedBlocks[u]
  BY DEF IInv, TypeOK
<1>4. /\ ActiveBlocks' \in [Threads -> Int]
      /\ \A u \in Threads :
           ActiveBlocks'[u] = IF u = t THEN 0 ELSE ActiveBlocks[u]
  BY <1>2 DEF IInv, TypeOK
<1>5. /\ ThreadState' \in [Threads -> {"AWAKE", "WAITING", "TERMINATED"}]
      /\ Timed' \in [Threads -> BOOLEAN]
      /\ \A u \in Threads \ {t} :
           ThreadState'[u] = ThreadState[u] /\ Timed'[u] = Timed[u]
      /\ ThreadState'[t] = "AWAKE" /\ ~Timed'[t]
  BY DEF IInv, TypeOK
<1>6. BlocksAgree' /\ FiniteBlocks'
  <2>1. ASSUME NEW u \in Threads
        PROVE  /\ ActiveBlocks'[u] = Cardinality(LinkedBlocks'[u])
               /\ LinkedBlocks'[u] # {} <=> ThreadState'[u] = "WAITING"
               /\ Timed'[u] => ThreadState'[u] = "WAITING"
               /\ IsFiniteSet(LinkedBlocks'[u])
    BY <1>3, <1>4, <1>5, FS_EmptySet DEF IInv, BlocksAgree, FiniteBlocks
  <2>2. ASSUME NEW o \in Objects
        PROVE  ToSet(WaitHead'[o]) = {u \in Threads : o \in LinkedBlocks'[u]}
    BY <1>1, <1>3 DEF IInv, BlocksAgree
  <2> QED BY <2>1, <2>2, <1>1 DEF BlocksAgree, FiniteBlocks
<1>7. WaitHead' \in [Objects -> Seq(Threads)]
  BY <1>1
<1>8. WaitObjects' \in [Threads -> WaitArrays \cup {<<>>}]
  BY DEF IInv, TypeOK
<1>9. WaitType' \in [Threads -> {"WaitAll", "WaitAny"}]
  BY DEF IInv, TypeOK
<1>10. Owner' \in [Mutexes -> Threads \cup {NULL}]
  BY DEF IInv, TypeOK, OwnerAfterUnwait
<1>11. Holds' \in [Threads -> SUBSET Mutexes]
  BY DEF IInv, TypeOK, Granted
<1>12. Abandoned' \in SUBSET Mutexes
  BY DEF IInv, TypeOK, Taken
<1> QED BY <1>1, <1>3, <1>4, <1>5, <1>6, <1>7, <1>8, <1>9, <1>10, <1>11, <1>12
-----------------------------------------------------------------------------
(***************************************************************************)
(* The invariant is preserved, one lemma per group of actions.             *)
(***************************************************************************)

\* The objects whose signals a wait takes are signalled.
LEMMA TakeSignalledStep ==
  ASSUME IInv, NEW t \in Threads, NEW objs \in WaitArrays,
         TakeSignalled(t, objs)
  PROVE  /\ SignalState' \in [Objects -> 0 .. ULongMax]
         /\ \A o \in Objects : SignalState'[o] > 0 => SignalState[o] > 0
         /\ Owner' \in [Mutexes -> Threads \cup {NULL}]
         /\ TypedMutexes' \in SUBSET Mutexes
<1>1. /\ Signalled(objs) \in SUBSET Objects
      /\ \A o \in Signalled(objs) : SignalState[o] > 0
  BY WaitArraysAssumption DEF Signalled, ToSet
<1>2. /\ SignalState' \in [Objects -> 0 .. ULongMax]
      /\ \A o \in Objects : SignalState'[o] > 0 => SignalState[o] > 0
  BY <1>1, DesignalStep DEF TakeSignalled, IInv
<1> QED
  BY <1>2 DEF TakeSignalled, OwnerAfterUnwait, ReleaseObjectLocks, IInv, TypeOK

\* A wait that finds all its objects signalled keeps the invariant.
LEMMA WaitSatisfiedStep ==
  ASSUME IInv, NEW t \in Threads, NEW objs \in WaitArrays,
         WaitSatisfied(t, objs)
  PROVE  IInv'
<1>1. /\ ToSet(objs) \in SUBSET Objects
      /\ \A o \in ToSet(objs) : SignalState[o] > 0
  BY WaitArraysAssumption DEF WaitSatisfied, Signalled, ToSet
<1>2. /\ SignalState' \in [Objects -> 0 .. ULongMax]
      /\ \A o \in Objects : SignalState'[o] > 0 => SignalState[o] > 0
  BY <1>1, DesignalStep DEF WaitSatisfied, IInv
<1>3. TypeOK'
  BY <1>1, <1>2
  DEF WaitSatisfied, OwnerAfterUnwait, ReleaseObjectLocks, IInv, TypeOK,
      threadVars
<1>4. BlocksAgree' /\ FiniteBlocks'
  BY DEF WaitSatisfied, IInv, BlocksAgree, FiniteBlocks, threadVars
<1>5. NoLostWakeup'
  BY <1>2 DEF WaitSatisfied, IInv, NoLostWakeup
<1> QED BY <1>3, <1>4, <1>5 DEF IInv

\* A poll takes the signals that are there and keeps the invariant.
LEMMA WaitPollsStep ==
  ASSUME IInv, NEW t \in Threads, NEW objs \in WaitArrays, WaitPolls(t, objs)
  PROVE  IInv'
<1>1. TakeSignalled(t, objs)
  BY DEF WaitPolls
<1>2. TypeOK'
  BY <1>1, TakeSignalledStep DEF WaitPolls, IInv, TypeOK, threadVars
<1>3. BlocksAgree' /\ FiniteBlocks'
  BY DEF WaitPolls, IInv, BlocksAgree, FiniteBlocks, threadVars
<1>4. NoLostWakeup'
  BY <1>1, TakeSignalledStep DEF WaitPolls, IInv, NoLostWakeup
<1> QED BY <1>2, <1>3, <1>4 DEF IInv

\* A thread that goes to sleep has had no block linked, so that it enters
\* each wait list once; and none of the objects it sleeps for is signalled.
LEMMA WaitBlocksStep ==
  ASSUME IInv, NEW t \in Threads, NEW objs \in WaitArrays,
         NEW type \in {"WaitAll", "WaitAny"}, NEW timed \in BOOLEAN,
         WaitBlocks(t, objs, type, timed)
  PROVE  IInv'
<1> DEFINE linked == ToSet(objs) \ Signalled(objs)
<1>1. /\ TakeSignalled(t, objs)
      /\ DispatcherLock = NULL /\ DispatcherLock' = NULL
      /\ ThreadState[t] = "AWAKE"
      /\ LinkedBlocks[t] = {}
  BY DEF WaitBlocks, CanCall, IInv, BlocksAgree
<1>2. /\ linked \in SUBSET Objects /\ linked # {}
      /\ \A o \in linked : ~(SignalState[o] > 0)
  BY <1>1, WaitArraysAssumption DEF TakeSignalled, Signalled, ToSet
<1>3. /\ IsFiniteSet(linked)
      /\ Cardinality(linked) = Len(objs) - Cardinality(Signalled(objs))
  <2>1. IsFiniteSet(ToSet(objs)) /\ Cardinality(ToSet(objs)) = Len(objs)
    BY WaitArraysAssumption, InjectiveCardinality
  <2>2. Signalled(objs) = ToSet(objs) \cap Signalled(objs)
    BY DEF Signalled
  <2> QED BY <2>1, <2>2, FS_Difference, ZenonT(60)
<1>4. /\ LinkedBlocks' = [LinkedBlocks EXCEPT ![t] = linked]
      /\ ActiveBlocks' = [ActiveBlocks EXCEPT ![t] = Cardinality(linked)]
      /\ ThreadState' = [ThreadState EXCEPT ![t] = "WAITING"]
      /\ Timed' = [Timed EXCEPT ![t] = timed]
  BY <1>3 DEF WaitBlocks
<1>5. WaitHead' = [o \in Objects |-> IF o \in linked
                                     THEN Append(WaitHead[o], t)
                                     ELSE WaitHead[o]]
  BY DEF WaitBlocks
<1> HIDE DEF linked
<1>6. ASSUME NEW o \in Objects
      PROVE  /\ WaitHead'[o] \in Seq(Threads)
             /\ ToSet(WaitHead'[o]) = {u \in Threads : o \in LinkedBlocks'[u]}
             /\ IsInjective(WaitHead'[o])
  <2>1. /\ WaitHead[o] \in Seq(Threads) /\ IsInjective(WaitHead[o])
        /\ ToSet(WaitHead[o]) = {u \in Threads : o \in LinkedBlocks[u]}
        /\ t \notin ToSet(WaitHead[o])
    BY <1>1 DEF IInv, TypeOK, BlocksAgree
  <2>2. {u \in Threads : o \in LinkedBlocks'[u]} =
          ToSet(WaitHead[o]) \cup (IF o \in linked THEN {t} ELSE {})
    BY <1>1, <1>4, <2>1 DEF IInv, TypeOK
  <2>3. CASE o \in linked
    BY <1>5, <2>1, <2>2, <2>3, AppendNew
  <2>4. CASE o \notin linked
    BY <1>5, <2>1, <2>2, <2>4
  <2> QED BY <2>3, <2>4
<1>7. Cardinality(linked) \in Int
  BY <1>3, FS_CardinalityType
<1>8. TypeOK'
  <2>1. WaitHead' \in [Objects -> Seq(Threads)]
    BY <1>5, <1>6
  <2>2. /\ ThreadState' \in [Threads -> {"AWAKE", "WAITING", "TERMINATED"}]
        /\ LinkedBlocks' \in [Threads -> SUBSET Objects]
        /\ ActiveBlocks' \in [Threads -> Int]
        /\ Timed' \in [Threads -> BOOLEAN]
    BY <1>2, <1>4, <1>7 DEF IInv, TypeOK
  <2>3. /\ WaitObjects' \in [Threads -> WaitArrays \cup {<<>>}]
        /\ WaitType' \in [Threads -> {"WaitAll", "WaitAny"}]
    BY DEF WaitBlocks, IInv, TypeOK
  <2>4. /\ Sampled' = Sampled /\ DispatcherLock' = DispatcherLock
        /\ Holds' = Holds /\ Abandoned' = Abandoned
    BY DEF WaitBlocks
  <2> QED BY <1>1, <2>1, <2>2, <2>3, <2>4, TakeSignalledStep DEF IInv, TypeOK
<1>9. BlocksAgree' /\ FiniteBlocks'
  <2>1. ASSUME NEW u \in Threads
        PROVE  /\ ActiveBlocks'[u] = Cardinality(LinkedBlocks'[u])
               /\ LinkedBlocks'[u] # {} <=> ThreadState'[u] = "WAITING"
               /\ Timed'[u] => ThreadState'[u] = "WAITING"
               /\ IsFiniteSet(LinkedBlocks'[u])
    <3>1. CASE u = t
      BY <1>2, <1>3, <1>4, <3>1 DEF IInv, TypeOK
    <3>2. CASE u # t
      BY <1>4, <3>2 DEF IInv, TypeOK, BlocksAgree, FiniteBlocks
    <3> QED BY <3>1, <3>2
  <2> QED BY <1>6, <2>1 DEF BlocksAgree, FiniteBlocks
<1>10. NoLostWakeup'
  <2>1. ASSUME NEW o \in Objects \ {DispatcherLock'}, SignalState'[o] > 0
        PROVE  WaitHead'[o] = <<>>
    <3>1. SignalState[o] > 0
      BY <1>1, <2>1, TakeSignalledStep
    <3>2. o \notin linked
      BY <1>2, <3>1
    <3> QED BY <1>1, <1>5, <2>1, <3>1, <3>2 DEF IInv, NoLostWakeup
  <2> QED BY <2>1 DEF NoLostWakeup
<1> QED BY <1>8, <1>9, <1>10 DEF IInv

\* Each of the four ways in which a wait ends its call keeps the invariant.
LEMMA KeWaitForMultipleObjectsStep ==
  ASSUME IInv, NEW t \in Threads, KeWaitForMultipleObjects(t)
  PROVE  IInv'
<1>1. PICK objs \in WaitArrays, type \in {"WaitAll", "WaitAny"},
           timeout \in {"none", "zero", "armed"} :
        \/ WaitSatisfied(t, objs)
        \/ WaitHangs(t, objs)
        \/ WaitPolls(t, objs)
        \/ WaitBlocks(t, objs, type, timeout = "armed")
  BY DEF KeWaitForMultipleObjects
<1>2. CASE WaitSatisfied(t, objs)
  BY <1>2, WaitSatisfiedStep
<1>3. CASE WaitHangs(t, objs)
  <2>1. TypeOK'
    BY <1>3 DEF WaitHangs, threadVars, IInv, TypeOK
  <2>2. BlocksAgree' /\ FiniteBlocks'
    BY <1>3 DEF WaitHangs, threadVars, IInv, BlocksAgree, FiniteBlocks
  <2>3. NoLostWakeup'
    BY <1>3, DisjointAssumption
    DEF WaitHangs, CanCall, threadVars, IInv, NoLostWakeup, Objects
  <2> QED BY <2>1, <2>2, <2>3 DEF IInv
<1>4. CASE WaitPolls(t, objs)
  BY <1>4, WaitPollsStep
<1>5. CASE WaitBlocks(t, objs, type, timeout = "armed")
  BY <1>5, WaitBlocksStep
<1> QED BY <1>1, <1>2, <1>3, <1>4, <1>5

\* A turn of KiSignal's loop keeps the invariant, whether it wakes, counts down or
\* ends.
LEMMA KiSignalStep ==
  ASSUME IInv, NEW o \in Objects, KiSignal(o)
  PROVE  IInv'
<1>1. ASSUME ~Exhausted(o), Designal({o})
      PROVE  /\ SignalState' \in [Objects -> 0 .. ULongMax]
             /\ \A p \in Objects : SignalState'[p] > 0 => SignalState[p] > 0
  BY <1>1, OldestWaits, DesignalStep DEF IInv
<1>2. CASE KiSignalWakes(o)
  <2>1. ~Exhausted(o) /\ Designal({o}) /\ Oldest(o) \in Threads
    BY <1>2, OldestWaits DEF KiSignalWakes
  <2>2. PICK status : KeUnwaitThreadNoLock(Oldest(o), status)
    BY <1>2 DEF KiSignalWakes
  <2>3. UNCHANGED <<TypedMutexes, Sampled, DispatcherLock>>
    BY <1>2 DEF KiSignalWakes
  <2>4. TypeOK'
    BY <1>1, <2>1, <2>2, <2>3, UnwaitStep DEF IInv, TypeOK
  <2>5. BlocksAgree' /\ FiniteBlocks'
    BY <2>1, <2>2, UnwaitStep
  <2>6. \A p \in Objects : WaitHead[p] = <<>> => WaitHead'[p] = <<>>
    BY <2>1, <2>2, UnwaitStep
  <2>7. NoLostWakeup'
    BY <1>1, <2>1, <2>3, <2>6 DEF IInv, NoLostWakeup
  <2> QED BY <2>4, <2>5, <2>7 DEF IInv
<1>3. CASE KiSignalSatisfies(o)
  <2> DEFINE t == Oldest(o)
  <2>1. /\ ~Exhausted(o) /\ Designal({o}) /\ ~LastBlock(t)
        /\ LinkedBlocks' = [LinkedBlocks EXCEPT ![t] = @ \ {o}]
        /\ ActiveBlocks' = [ActiveBlocks EXCEPT ![t] = @ - 1]
        /\ WaitHead' = [WaitHead EXCEPT ![o] = RemoveFirst(@, t)]
        /\ Owner' = OwnerAfterUnwait(t, {o})
        /\ UNCHANGED <<ThreadState, WaitObjects, WaitType, Timed,
                       TypedMutexes, Sampled, DispatcherLock, Holds, Abandoned>>
    BY <1>3 DEF KiSignalSatisfies
  <2>2. /\ t \in Threads /\ o \in LinkedBlocks[t]
        /\ ThreadState[t] = "WAITING"
    BY <2>1, OldestWaits
  <2> HIDE DEF t
  <2>3. /\ IsFiniteSet(LinkedBlocks[t] \ {o})
        /\ Cardinality(LinkedBlocks[t] \ {o}) = ActiveBlocks[t] - 1
    BY <2>2, FS_RemoveElement DEF IInv, BlocksAgree, FiniteBlocks
  <2>4. LinkedBlocks[t] \ {o} # {}
    BY <2>1, <2>2, <2>3, FS_EmptySet, SMTT(30) DEF LastBlock, IInv, TypeOK
  <2>5. ASSUME NEW u \in Threads
        PROVE  /\ ActiveBlocks'[u] = Cardinality(LinkedBlocks'[u])
               /\ LinkedBlocks'[u] # {} <=> ThreadState'[u] = "WAITING"
               /\ Timed'[u] => ThreadState'[u] = "WAITING"
               /\ IsFiniteSet(LinkedBlocks'[u])
    <3>1. CASE u = t
      BY <2>1, <2>2, <2>3, <2>4, <3>1 DEF IInv, TypeOK
    <3>2. CASE u # t
      BY <2>1, <3>2 DEF IInv, TypeOK, BlocksAgree, FiniteBlocks
    <3> QED BY <3>1, <3>2
  <2>6. ASSUME NEW p \in Objects
        PROVE  /\ WaitHead'[p] \in Seq(Threads)
               /\ ToSet(WaitHead'[p]) = {u \in Threads : p \in LinkedBlocks'[u]}
               /\ IsInjective(WaitHead'[p])
               /\ WaitHead[p] = <<>> => WaitHead'[p] = <<>>
    <3>1. /\ WaitHead[p] \in Seq(Threads) /\ IsInjective(WaitHead[p])
          /\ ToSet(WaitHead[p]) = {u \in Threads : p \in LinkedBlocks[u]}
      BY DEF IInv, TypeOK, BlocksAgree
    <3>2. {u \in Threads : p \in LinkedBlocks'[u]} =
            ToSet(WaitHead[p]) \ (IF p = o THEN {t} ELSE {})
      BY <2>1, <2>2, <3>1 DEF IInv, TypeOK
    <3>3. CASE p = o
      <4>1. WaitHead'[p] = RemoveFirst(WaitHead[p], t)
        BY <2>1, <3>3 DEF IInv, TypeOK
      <4>2. WaitHead[p] # <<>>
        BY <2>1, <3>3 DEF Exhausted
      <4> QED BY <3>1, <3>2, <3>3, <4>1, <4>2, RemoveFirstProperties
    <3>4. CASE p # o
      BY <2>1, <3>1, <3>2, <3>4 DEF IInv, TypeOK
    <3> QED BY <3>3, <3>4
  <2>7. TypeOK'
    <3>1. WaitHead' \in [Objects -> Seq(Threads)]
      BY <2>1, <2>6 DEF IInv, TypeOK
    <3>2. /\ LinkedBlocks' \in [Threads -> SUBSET Objects]
          /\ ActiveBlocks' \in [Threads -> Int]
          /\ Owner' \in [Mutexes -> Threads \cup {NULL}]
      BY <2>1, <2>2 DEF IInv, TypeOK, OwnerAfterUnwait
    <3> QED BY <1>1, <2>1, <3>1, <3>2 DEF IInv, TypeOK
  <2>8. BlocksAgree' /\ FiniteBlocks'
    BY <2>5, <2>6 DEF BlocksAgree, FiniteBlocks
  <2>9. NoLostWakeup'
    BY <1>1, <2>1, <2>6 DEF IInv, NoLostWakeup
  <2> QED BY <2>7, <2>8, <2>9 DEF IInv
<1>4. CASE KiSignalReturns(o)
  <2>1. TypeOK'
    BY <1>4 DEF KiSignalReturns, ReleaseObjectLocks, threadVars, IInv, TypeOK
  <2>2. BlocksAgree' /\ FiniteBlocks'
    BY <1>4
    DEF KiSignalReturns, threadVars, IInv, BlocksAgree, FiniteBlocks
  <2>3. NoLostWakeup'
    BY <1>4 DEF KiSignalReturns, Exhausted, IInv, NoLostWakeup
  <2> QED BY <2>1, <2>2, <2>3 DEF IInv
<1> QED BY <1>2, <1>3, <1>4 DEF KiSignal

\* A signal that starts has the dispatcher lock: its object is the one that
\* NoLostWakeup excepts.
LEMMA StartSignalStep ==
  ASSUME IInv, NEW o \in Objects, NEW n \in Nat, StartSignal(o, n),
         UNCHANGED WaitHead
  PROVE  /\ SignalState' \in [Objects -> 0 .. ULongMax]
         /\ DispatcherLock' \in Objects
         /\ NoLostWakeup'
<1>1. ULongMax \in Nat
  BY BoundsAssumption
<1>2. (SignalState[o] + n) % (ULongMax + 1) \in 0 .. ULongMax
  BY <1>1 DEF IInv, TypeOK
<1>3. SignalState' \in [Objects -> 0 .. ULongMax]
  BY <1>2 DEF StartSignal, IInv, TypeOK
<1>4. NoLostWakeup'
  BY DisjointAssumption DEF StartSignal, IInv, TypeOK, NoLostWakeup, Objects
<1> QED BY <1>3, <1>4 DEF StartSignal

\* Reading and releasing a semaphore keep the invariant.
LEMMA SemaphoreStep ==
  ASSUME IInv, NEW s \in Semaphores,
         KeReadStateSemaphore(s) \/ KeReleaseSemaphore(s)
  PROVE  IInv'
<1> s \in Objects
  BY DEF Objects
<1>1. CASE KeReadStateSemaphore(s)
  <2>1. TypeOK'
    BY <1>1
    DEF KeReadStateSemaphore, ReleaseObjectLocks, threadVars, IInv, TypeOK
  <2> QED
    BY <1>1, <2>1 DEF KeReadStateSemaphore, threadVars, IInv, BlocksAgree,
                      NoLostWakeup, FiniteBlocks
<1>2. CASE KeReleaseSemaphore(s)
  <2>1. StartSignal(s, 1) /\ UNCHANGED WaitHead
    BY <1>2 DEF KeReleaseSemaphore
  <2>2. TypeOK'
    BY <1>2, <2>1, StartSignalStep
    DEF KeReleaseSemaphore, threadVars, IInv, TypeOK
  <2>3. BlocksAgree' /\ FiniteBlocks'
    BY <1>2 DEF KeReleaseSemaphore, threadVars, IInv, BlocksAgree,
                FiniteBlocks
  <2> QED BY <2>1, <2>2, <2>3, StartSignalStep DEF IInv
<1> QED BY <1>1, <1>2

\* Releasing a mutex keeps the invariant.
LEMMA KeReleaseMutexStep ==
  ASSUME IInv, NEW t \in Threads, NEW m \in Mutexes, KeReleaseMutex(t, m)
  PROVE  IInv'
<1> m \in Objects
  BY DEF Objects
<1>1. StartSignal(m, 1) /\ UNCHANGED WaitHead
  BY DEF KeReleaseMutex
<1>2. TypeOK'
  BY <1>1, StartSignalStep DEF KeReleaseMutex, threadVars, IInv, TypeOK
<1>3. BlocksAgree' /\ FiniteBlocks'
  BY DEF KeReleaseMutex, threadVars, IInv, BlocksAgree, FiniteBlocks
<1> QED BY <1>1, <1>2, <1>3, StartSignalStep DEF IInv

\* The exit of a thread, with its wrapped increment, keeps the invariant.
LEMMA PsExitThreadStep ==
  ASSUME IInv, NEW t \in Threads, PsExitThread(t)
  PROVE  IInv'
<1> t \in Objects
  BY DEF Objects
<1>1. StartSignal(t, ExitIncrement) /\ UNCHANGED WaitHead
  BY DEF PsExitThread
<1>2. ExitIncrement \in Nat
  BY BoundsAssumption DEF ExitIncrement
<1>3. TypeOK'
  BY <1>1, <1>2, StartSignalStep DEF PsExitThread, IInv, TypeOK
<1>4. BlocksAgree' /\ FiniteBlocks'
  BY DEF PsExitThread, CanCall, IInv, TypeOK, BlocksAgree, FiniteBlocks
<1> QED BY <1>1, <1>2, <1>3, <1>4, StartSignalStep DEF IInv

\* The timeout of a wait unlinks its blocks and keeps the invariant.
LEMMA PspOnThreadTimeoutStep ==
  ASSUME IInv, NEW t \in Threads, PspOnThreadTimeout(t)
  PROVE  IInv'
<1>1. /\ KeUnwaitThreadNoLock(t, STATUS_TIMEOUT)
      /\ UNCHANGED <<SignalState, TypedMutexes, Sampled, DispatcherLock>>
  BY DEF PspOnThreadTimeout
<1>2. TypeOK'
  BY <1>1, UnwaitStep DEF IInv, TypeOK
<1>3. \A o \in Objects : WaitHead[o] = <<>> => WaitHead'[o] = <<>>
  BY <1>1, UnwaitStep
<1>4. NoLostWakeup'
  BY <1>1, <1>3 DEF IInv, NoLostWakeup
<1> QED BY <1>1, <1>2, <1>4, UnwaitStep DEF IInv
-----------------------------------------------------------------------------
(***************************************************************************)
(* The theorems.                                                           *)
(***************************************************************************)

\* Every step of the dispatcher keeps the inductive invariant.
LEMMA InvarianceStep ==
  ASSUME IInv, [Next]_vars
  PROVE  IInv'
<1>1. ASSUME NEW t \in Threads, KeWaitForMultipleObjects(t) PROVE IInv'
  BY <1>1, KeWaitForMultipleObjectsStep
<1>2. ASSUME NEW t \in Threads, NEW m \in Mutexes, KeReleaseMutex(t, m)
      PROVE  IInv'
  BY <1>2, KeReleaseMutexStep
<1>3. ASSUME NEW t \in Threads, PsExitThread(t) PROVE IInv'
  BY <1>3, PsExitThreadStep
<1>4. ASSUME NEW t \in Threads, PspOnThreadTimeout(t) PROVE IInv'
  BY <1>4, PspOnThreadTimeoutStep
<1>5. ASSUME NEW s \in Semaphores,
             KeReadStateSemaphore(s) \/ KeReleaseSemaphore(s)
      PROVE  IInv'
  BY <1>5, SemaphoreStep
<1>6. ASSUME NEW o \in Objects, KiSignal(o) PROVE IInv'
  BY <1>6, KiSignalStep
<1>7. CASE UNCHANGED vars
  BY <1>7 DEF vars, threadVars, IInv, TypeOK, BlocksAgree, NoLostWakeup,
              FiniteBlocks
<1> QED BY <1>1, <1>2, <1>3, <1>4, <1>5, <1>6, <1>7 DEF Next

\* Nobody waits at the start, and no list has a thread in it.
LEMMA InitialState ==
  ASSUME Init
  PROVE  IInv
<1>1. TypeOK
  BY BoundsAssumption, DisjointAssumption DEF Init, TypeOK, Objects
<1>2. FiniteBlocks
  BY FS_EmptySet DEF Init, FiniteBlocks
<1>3. BlocksAgree
  BY FS_EmptySet DEF Init, BlocksAgree, ToSet, IsInjective
<1>4. NoLostWakeup
  BY DEF Init, NoLostWakeup
<1> QED BY <1>1, <1>2, <1>3, <1>4 DEF IInv

\* The inductive invariant holds in every reachable state.
THEOREM Invariance == Spec => []IInv
<1>1. Init => IInv
  BY InitialState
<1>2. IInv /\ [Next]_vars => IInv'
  BY InvarianceStep
<1> QED BY <1>1, <1>2, PTL DEF Spec

\* Every variable keeps its type, whatever the numbers of threads, objects
\* and waits: no count leaves the width of a ULONG.
THEOREM TypeCorrectness == Spec => []TypeOK
<1>1. IInv => TypeOK
  BY DEF IInv
<1> QED BY <1>1, Invariance, PTL

\* Threads and objects always agree on who waits for what: no wait block is
\* left behind in a list, and none is missing.
THEOREM BookkeepingCorrect == Spec => []WaitBookkeeping
<1>1. IInv => WaitBookkeeping
  BY DEF IInv, WaitBookkeeping
<1> QED BY <1>1, Invariance, PTL

\* No wakeup is lost, whatever waits, signals, timeouts and exits interleave.
THEOREM NoWakeupIsLost == Spec => []NoLostWakeup
<1>1. IInv => NoLostWakeup
  BY DEF IInv
<1> QED BY <1>1, Invariance, PTL
-----------------------------------------------------------------------------
(***************************************************************************)
(* Mutexes.  The count that MutexAccounted checks says nothing of sets     *)
(* that are not finite, and is not inductive: a mutex moves from a wait    *)
(* that has taken it to a holder only because the blocks of a wait that    *)
(* are not linked any more are exactly those of the objects it has taken.  *)
(***************************************************************************)
WaitsExplained ==
  \A t \in Threads :
    /\ LinkedBlocks[t] \subseteq ToSet(WaitObjects[t])
    /\ WaitType[t] = "WaitAny" => LinkedBlocks[t] = ToSet(WaitObjects[t])
    /\ ThreadState[t] # "WAITING" => WaitObjects[t] = <<>>

MutexFree(m) ==
  /\ SignalState[m] = IF m \in Abandoned THEN 0 ELSE 1
  /\ Holders(m) = {} /\ PartialHolders(m) = {}

MutexTakenBy(m, t) ==
  /\ SignalState[m] = 0 /\ m \notin Abandoned
  /\ \/ Holders(m) = {t} /\ PartialHolders(m) = {}
     \/ Holders(m) = {} /\ PartialHolders(m) = {t}

MutexPlaced ==
  \A m \in Mutexes : MutexFree(m) \/ \E t \in Threads : MutexTakenBy(m, t)

MInv == IInv /\ WaitsExplained /\ MutexPlaced

\* The status of a WaitAny is the index of the object that ended it, and the
\* status of the 259th object is that of a timeout.
ShortArrays == \A objs \in WaitArrays : Len(objs) <= STATUS_TIMEOUT

\* A step that leaves the sleeping threads' waits alone.
LEMMA WaitsUntouched ==
  ASSUME WaitsExplained,
         UNCHANGED <<WaitObjects, WaitType, LinkedBlocks>>,
         \A t \in Threads : ThreadState'[t] # "WAITING"
                              => ThreadState[t] # "WAITING"
  PROVE  /\ WaitsExplained'
         /\ \A m \in Mutexes : PartialHolders(m)' = PartialHolders(m)
BY DEF WaitsExplained, PartialHolders, Taken

\* A thread that is woken waits for nothing.
LEMMA UnwaitExplained ==
  ASSUME IInv, WaitsExplained, NEW t \in Threads, NEW status,
         KeUnwaitThreadNoLock(t, status)
  PROVE  /\ WaitsExplained'
         /\ \A m \in Mutexes : PartialHolders(m)' = PartialHolders(m) \ {t}
<1>1. ASSUME NEW u \in Threads
      PROVE  /\ LinkedBlocks'[u] = IF u = t THEN {} ELSE LinkedBlocks[u]
             /\ WaitObjects'[u] = IF u = t THEN <<>> ELSE WaitObjects[u]
             /\ WaitType'[u] = IF u = t THEN "WaitAll" ELSE WaitType[u]
             /\ ThreadState'[u] = IF u = t THEN "AWAKE" ELSE ThreadState[u]
  BY DEF KeUnwaitThreadNoLock, IInv, TypeOK
<1>2. ToSet(<<>>) = {}
  BY DEF ToSet
<1>3. WaitsExplained'
  BY <1>1, <1>2 DEF WaitsExplained
<1>4. ASSUME NEW m \in Mutexes
      PROVE  PartialHolders(m)' = PartialHolders(m) \ {t}
  BY <1>1, <1>2 DEF PartialHolders, Taken
<1> QED BY <1>3, <1>4

\* A mutex that was signalled is free.
LEMMA SignalledMutexIsFree ==
  ASSUME MInv, NEW m \in Mutexes, SignalState[m] > 0
  PROVE  /\ SignalState[m] = 1 /\ m \notin Abandoned
         /\ Holders(m) = {} /\ PartialHolders(m) = {}
BY DEF MInv, MutexPlaced, MutexFree, MutexTakenBy

\* A step that does not touch a mutex.
LEMMA MutexUntouched ==
  ASSUME MutexPlaced, NEW m \in Mutexes,
         SignalState'[m] = SignalState[m],
         m \in Abandoned' <=> m \in Abandoned,
         Holders(m)' = Holders(m), PartialHolders(m)' = PartialHolders(m)
  PROVE  (MutexFree(m) \/ \E t \in Threads : MutexTakenBy(m, t))'
BY DEF MutexPlaced, MutexFree, MutexTakenBy

\* A wait for all objects that are signalled makes the thread the holder of its
\* mutexes.
LEMMA WaitSatisfiedMutex ==
  ASSUME MInv, NEW t \in Threads, NEW objs \in WaitArrays,
         WaitSatisfied(t, objs)
  PROVE  WaitsExplained' /\ MutexPlaced'
<1>1. /\ ToSet(objs) \in SUBSET Objects
      /\ \A o \in ToSet(objs) : SignalState[o] > 0
  BY WaitArraysAssumption DEF WaitSatisfied, Signalled, ToSet
<1>2. WaitsExplained' /\ \A m \in Mutexes : PartialHolders(m)' = PartialHolders(m)
  BY WaitsUntouched DEF WaitSatisfied, threadVars, MInv
<1>3. ASSUME NEW m \in Mutexes
      PROVE  (MutexFree(m) \/ \E u \in Threads : MutexTakenBy(m, u))'
  <2>1. /\ m \in Objects /\ Abandoned' = Abandoned
        /\ SignalState'[m] = IF m \in ToSet(objs) THEN SignalState[m] - 1
                                                  ELSE SignalState[m]
    BY DEF WaitSatisfied, Designal, Objects
  <2>2. Holders(m)' = Holders(m) \cup (IF m \in ToSet(objs) THEN {t} ELSE {})
    BY DEF WaitSatisfied, Holders, MInv, IInv, TypeOK
  <2>3. CASE m \in ToSet(objs)
    BY <1>1, <1>2, <2>1, <2>2, <2>3, SignalledMutexIsFree DEF MutexTakenBy
  <2>4. CASE m \notin ToSet(objs)
    BY <1>2, <2>1, <2>2, <2>4, MutexUntouched DEF MInv
  <2> QED BY <2>3, <2>4
<1> QED BY <1>2, <1>3 DEF MutexPlaced

\* A poll takes the mutexes that are free and abandons those of a WaitAll that is
\* not satisfied.
LEMMA WaitPollsMutex ==
  ASSUME MInv, NEW t \in Threads, NEW objs \in WaitArrays, WaitPolls(t, objs)
  PROVE  WaitsExplained' /\ MutexPlaced'
<1>1. /\ Signalled(objs) \in SUBSET Objects
      /\ \A o \in Signalled(objs) : SignalState[o] > 0
  BY WaitArraysAssumption DEF Signalled, ToSet
<1>2. WaitsExplained' /\ \A m \in Mutexes : PartialHolders(m)' = PartialHolders(m)
  BY WaitsUntouched DEF WaitPolls, threadVars, MInv
<1>3. ASSUME NEW m \in Mutexes
      PROVE  (MutexFree(m) \/ \E u \in Threads : MutexTakenBy(m, u))'
  <2>1. /\ m \in Objects /\ Holders(m)' = Holders(m)
        /\ m \in Abandoned' <=> m \in Abandoned \/ m \in Signalled(objs)
        /\ SignalState'[m] = IF m \in Signalled(objs) THEN SignalState[m] - 1
                                                      ELSE SignalState[m]
    BY DEF WaitPolls, TakeSignalled, Designal, Objects, Holders
  <2>2. CASE m \in Signalled(objs)
    BY <1>1, <1>2, <2>1, <2>2, SignalledMutexIsFree DEF MutexFree
  <2>3. CASE m \notin Signalled(objs)
    BY <1>2, <2>1, <2>3, MutexUntouched DEF MInv
  <2> QED BY <2>2, <2>3
<1> QED BY <1>2, <1>3 DEF MutexPlaced

\* What a thread that falls asleep has taken is exactly what was signalled.
LEMMA WaitBlocksMutex ==
  ASSUME MInv, NEW t \in Threads, NEW objs \in WaitArrays,
         NEW type \in {"WaitAll", "WaitAny"}, NEW timed \in BOOLEAN,
         type = "WaitAll" \/ Signalled(objs) = {},
         WaitBlocks(t, objs, type, timed)
  PROVE  WaitsExplained' /\ MutexPlaced'
<1>1. /\ Signalled(objs) \in SUBSET Objects
      /\ Signalled(objs) \subseteq ToSet(objs)
      /\ \A o \in Signalled(objs) : SignalState[o] > 0
  BY WaitArraysAssumption DEF Signalled, ToSet
<1>2. ASSUME NEW u \in Threads
      PROVE  /\ LinkedBlocks'[u] = IF u = t THEN ToSet(objs) \ Signalled(objs)
                                            ELSE LinkedBlocks[u]
             /\ WaitObjects'[u] = IF u = t THEN objs ELSE WaitObjects[u]
             /\ WaitType'[u] = IF u = t THEN type ELSE WaitType[u]
             /\ ThreadState'[u] = IF u = t THEN "WAITING" ELSE ThreadState[u]
  BY DEF WaitBlocks, MInv, IInv, TypeOK
<1>3. WaitsExplained'
  BY <1>1, <1>2 DEF WaitsExplained, MInv
<1>4. WaitObjects[t] = <<>>
  BY DEF WaitBlocks, CanCall, MInv, WaitsExplained
<1>5. ASSUME NEW m \in Mutexes
      PROVE  (MutexFree(m) \/ \E u \in Threads : MutexTakenBy(m, u))'
  <2>1. /\ m \in Objects /\ Holders(m)' = Holders(m) /\ Abandoned' = Abandoned
        /\ SignalState'[m] = IF m \in Signalled(objs) THEN SignalState[m] - 1
                                                      ELSE SignalState[m]
    BY DEF WaitBlocks, TakeSignalled, Designal, Objects, Holders
  <2>2. Taken(t)' = Signalled(objs) \cap Mutexes /\ Taken(t) = {}
    <3>1. ToSet(WaitObjects[t]) = {}
      BY <1>4 DEF ToSet
    <3>2. Taken(t)' = (ToSet(objs) \ (ToSet(objs) \ Signalled(objs)))
                        \cap Mutexes
      BY <1>2 DEF Taken
    <3> QED BY <1>1, <3>1, <3>2 DEF Taken
  <2>3. \A u \in Threads \ {t} : Taken(u)' = Taken(u)
    BY <1>2 DEF Taken
  <2>4. PartialHolders(m)' = PartialHolders(m) \cup
                             (IF m \in Signalled(objs) THEN {t} ELSE {})
    BY <2>2, <2>3 DEF PartialHolders
  <2>5. CASE m \in Signalled(objs)
    BY <1>1, <2>1, <2>4, <2>5, SignalledMutexIsFree DEF MutexTakenBy
  <2>6. CASE m \notin Signalled(objs)
    BY <2>1, <2>4, <2>6, MutexUntouched DEF MInv
  <2> QED BY <2>5, <2>6
<1> QED BY <1>3, <1>5 DEF MutexPlaced

\* Whichever way a wait ends its call, each mutex stays in one place.
LEMMA KeWaitForMultipleObjectsMutex ==
  ASSUME MInv, NEW t \in Threads, KeWaitForMultipleObjects(t)
  PROVE  WaitsExplained' /\ MutexPlaced'
<1>1. PICK objs \in WaitArrays, type \in {"WaitAll", "WaitAny"},
           timeout \in {"none", "zero", "armed"} :
        \/ WaitSatisfied(t, objs)
        \/ WaitHangs(t, objs)
        \/ WaitPolls(t, objs)
        \/ /\ type = "WaitAll" \/ Signalled(objs) = {}
           /\ WaitBlocks(t, objs, type, timeout = "armed")
  BY DEF KeWaitForMultipleObjects
<1>2. CASE WaitSatisfied(t, objs)
  BY <1>2, WaitSatisfiedMutex
<1>3. CASE WaitHangs(t, objs)
  <2>1. WaitsExplained' /\ \A m \in Mutexes : PartialHolders(m)' = PartialHolders(m)
    BY <1>3, WaitsUntouched DEF WaitHangs, threadVars, MInv
  <2>2. \A m \in Mutexes : Holders(m)' = Holders(m)
    BY <1>3 DEF WaitHangs, Holders
  <2> QED
    BY <1>3, <2>1, <2>2, MutexUntouched DEF WaitHangs, MInv, MutexPlaced
<1>4. CASE WaitPolls(t, objs)
  BY <1>4, WaitPollsMutex
<1>5. CASE /\ type = "WaitAll" \/ Signalled(objs) = {}
           /\ WaitBlocks(t, objs, type, timeout = "armed")
  BY <1>5, WaitBlocksMutex
<1> QED BY <1>1, <1>2, <1>3, <1>4, <1>5

\* The wait that ends has been granted what it had taken, and the object
\* that ended it.
LEMMA KiSignalWakesMutex ==
  ASSUME ShortArrays, MInv, NEW o \in Objects, KiSignalWakes(o)
  PROVE  WaitsExplained' /\ MutexPlaced'
<1> DEFINE t == Oldest(o)
<1>1. /\ ~Exhausted(o) /\ Designal({o})
      /\ t \in Threads /\ o \in LinkedBlocks[t]
      /\ ThreadState[t] = "WAITING" /\ SignalState[o] > 0
  BY OldestWaits DEF KiSignalWakes, MInv
<1>2. PICK status \in Nat :
        /\ KeUnwaitThreadNoLock(t, status) /\ status # STATUS_TIMEOUT
        /\ Granted(t, status) = Taken(t) \cup ({o} \cap Mutexes)
  <2>1. /\ o \in ToSet(WaitObjects[t]) /\ WaitObjects[t] \in WaitArrays
        /\ WaitObjects[t] \in Seq(Objects) /\ IsInjective(WaitObjects[t])
        /\ Len(WaitObjects[t]) <= STATUS_TIMEOUT
    <3>1. o \in ToSet(WaitObjects[t])
      BY <1>1 DEF MInv, WaitsExplained
    <3>2. WaitObjects[t] # <<>>
      BY <3>1 DEF ToSet
    <3> QED
      BY <1>1, <3>1, <3>2, WaitArraysAssumption
      DEF ShortArrays, MInv, IInv, TypeOK
  <2> DEFINE Index == CHOOSE i \in DOMAIN WaitObjects[t] : WaitObjects[t][i] = o
  <2>2. /\ Index \in 1 .. Len(WaitObjects[t]) /\ WaitObjects[t][Index] = o
        /\ \A i \in 1 .. Len(WaitObjects[t]) : WaitObjects[t][i] = o => i = Index
    BY <2>1 DEF ToSet, IsInjective
  <2> HIDE DEF Index
  <2>3. CASE WaitType[t] = "WaitAny"
    <3>1. Taken(t) = {}
      BY <1>1, <2>3 DEF Taken, MInv, WaitsExplained
    <3>2. Granted(t, Index - 1) = {o} \cap Mutexes
      BY <2>2, <2>3 DEF Granted
    <3>3. Index - 1 \in Nat /\ Index - 1 # STATUS_TIMEOUT
      BY <2>1, <2>2 DEF STATUS_TIMEOUT
    <3>4. CASE LastBlock(t)
      <4>1. Cardinality(LinkedBlocks[t]) = 1 /\ IsFiniteSet(LinkedBlocks[t])
        BY <1>1, <3>4
        DEF LastBlock, MInv, IInv, BlocksAgree, FiniteBlocks
      <4>2. Len(WaitObjects[t]) = 1
        BY <1>1, <2>1, <2>3, <4>1, InjectiveCardinality DEF MInv, WaitsExplained
      <4>3. Index - 1 = STATUS_SUCCESS
        BY <2>2, <4>2 DEF STATUS_SUCCESS
      <4>4. KeUnwaitThreadNoLock(t, STATUS_SUCCESS)
        BY <3>4 DEF KiSignalWakes
      <4> QED BY <3>1, <3>2, <3>3, <4>3, <4>4
    <3>5. CASE ~LastBlock(t)
      <4>1. KeUnwaitThreadNoLock(t, Index - 1)
        BY <3>5 DEF KiSignalWakes, Index
      <4> QED BY <3>1, <3>2, <3>3, <4>1
    <3> QED BY <3>4, <3>5
  <2>4. CASE WaitType[t] # "WaitAny"
    <3>1. LastBlock(t) /\ KeUnwaitThreadNoLock(t, STATUS_SUCCESS)
      BY <2>4 DEF KiSignalWakes
    <3>2. LinkedBlocks[t] = {o}
      <4>1. Cardinality(LinkedBlocks[t]) = 1 /\ IsFiniteSet(LinkedBlocks[t])
        BY <1>1, <3>1
        DEF LastBlock, MInv, IInv, BlocksAgree, FiniteBlocks
      <4>2. PICK x : LinkedBlocks[t] = {x}
        BY <4>1, FS_Singleton
      <4> QED BY <1>1, <4>2
    <3>3. WaitType[t] = "WaitAll"
      BY <1>1, <2>4 DEF MInv, IInv, TypeOK
    <3>4. Granted(t, STATUS_SUCCESS) = Taken(t) \cup ({o} \cap Mutexes)
      BY <2>1, <3>2, <3>3 DEF Granted, Taken
    <3>5. STATUS_SUCCESS \in Nat /\ STATUS_SUCCESS # STATUS_TIMEOUT
      BY DEF STATUS_SUCCESS, STATUS_TIMEOUT
    <3> QED BY <3>1, <3>4, <3>5
  <2> QED BY <2>3, <2>4
<1> HIDE DEF t
<1>3. /\ WaitsExplained'
      /\ \A m \in Mutexes : PartialHolders(m)' = PartialHolders(m) \ {t}
  BY <1>1, <1>2, UnwaitExplained DEF MInv
<1>4. ASSUME NEW m \in Mutexes
      PROVE  (MutexFree(m) \/ \E u \in Threads : MutexTakenBy(m, u))'
  <2>1. /\ m \in Objects /\ Abandoned' = Abandoned
        /\ SignalState'[m] = IF m = o THEN SignalState[m] - 1 ELSE SignalState[m]
    BY <1>1, <1>2 DEF Designal, Objects, KeUnwaitThreadNoLock
  <2>2. Holders(m)' = Holders(m) \cup
                        (IF m \in Taken(t) \/ m = o THEN {t} ELSE {})
    <3>1. Holds' = [Holds EXCEPT ![t] = @ \cup Taken(t) \cup ({o} \cap Mutexes)]
      BY <1>2 DEF KeUnwaitThreadNoLock
    <3> QED BY <1>1, <3>1 DEF Holders, MInv, IInv, TypeOK
  <2>3. t \in PartialHolders(m) <=> m \in Taken(t)
    BY <1>1 DEF PartialHolders
  <2>4. CASE m = o
    BY <1>1, <1>3, <2>1, <2>2, <2>4, SignalledMutexIsFree DEF MutexTakenBy
  <2>5. CASE m # o /\ m \in Taken(t)
    <3>1. MutexTakenBy(m, t) /\ PartialHolders(m) = {t} /\ Holders(m) = {}
      BY <2>3, <2>5 DEF MInv, MutexPlaced, MutexFree, MutexTakenBy
    <3>2. Holders(m)' = {t} /\ PartialHolders(m)' = {}
      BY <1>3, <2>2, <2>5, <3>1
    <3>3. SignalState'[m] = 0 /\ m \notin Abandoned'
      BY <2>1, <2>5, <3>1 DEF MutexTakenBy
    <3> QED BY <1>1, <3>2, <3>3 DEF MutexTakenBy
  <2>6. CASE m # o /\ m \notin Taken(t)
    BY <1>3, <2>1, <2>2, <2>3, <2>6, MutexUntouched DEF MInv
  <2> QED BY <2>4, <2>5, <2>6
<1> QED BY <1>3, <1>4 DEF MutexPlaced

\* A WaitAll that sleeps on has taken one object more.
LEMMA KiSignalSatisfiesMutex ==
  ASSUME MInv, NEW o \in Objects, KiSignalSatisfies(o)
  PROVE  WaitsExplained' /\ MutexPlaced'
<1> DEFINE t == Oldest(o)
<1>1. /\ Designal({o}) /\ WaitType[t] = "WaitAll"
      /\ t \in Threads /\ o \in LinkedBlocks[t] /\ SignalState[o] > 0
      /\ LinkedBlocks' = [LinkedBlocks EXCEPT ![t] = @ \ {o}]
      /\ UNCHANGED <<ThreadState, WaitObjects, WaitType, Holds, Abandoned>>
  BY OldestWaits DEF KiSignalSatisfies, MInv
<1> HIDE DEF t
<1>2. \A u \in Threads :
        LinkedBlocks'[u] = LinkedBlocks[u] \ (IF u = t THEN {o} ELSE {})
  BY <1>1 DEF MInv, IInv, TypeOK
<1>3. WaitsExplained'
  BY <1>1, <1>2 DEF MInv, WaitsExplained
<1>4. o \in ToSet(WaitObjects[t])
  BY <1>1 DEF MInv, WaitsExplained
<1>5. ASSUME NEW m \in Mutexes
      PROVE  (MutexFree(m) \/ \E u \in Threads : MutexTakenBy(m, u))'
  <2>1. /\ m \in Objects /\ Holders(m)' = Holders(m) /\ Abandoned' = Abandoned
        /\ SignalState'[m] = IF m = o THEN SignalState[m] - 1 ELSE SignalState[m]
    BY <1>1 DEF Designal, Objects, Holders
  <2>2. PartialHolders(m)' = PartialHolders(m) \cup (IF m = o THEN {t} ELSE {})
    BY <1>1, <1>2, <1>4 DEF PartialHolders, Taken
  <2>3. CASE m = o
    BY <1>1, <2>1, <2>2, <2>3, SignalledMutexIsFree DEF MutexTakenBy
  <2>4. CASE m # o
    BY <2>1, <2>2, <2>4, MutexUntouched DEF MInv
  <2> QED BY <2>3, <2>4
<1> QED BY <1>3, <1>5 DEF MutexPlaced

\* Only the holder releases, and the mutex is free again.
LEMMA KeReleaseMutexMutex ==
  ASSUME MInv, NEW t \in Threads, NEW m \in Mutexes, KeReleaseMutex(t, m)
  PROVE  WaitsExplained' /\ MutexPlaced'
<1>1. /\ m \in Holds[t] /\ Holds' = [Holds EXCEPT ![t] = @ \ {m}]
      /\ SignalState' = [SignalState EXCEPT ![m] = (@ + 1) % (ULongMax + 1)]
      /\ Abandoned' = Abandoned
  BY DEF KeReleaseMutex, StartSignal
<1>2. WaitsExplained' /\ \A n \in Mutexes : PartialHolders(n)' = PartialHolders(n)
  BY WaitsUntouched DEF KeReleaseMutex, threadVars, MInv
<1>3. ASSUME NEW n \in Mutexes
      PROVE  (MutexFree(n) \/ \E u \in Threads : MutexTakenBy(n, u))'
  <2>1. Holders(n)' = Holders(n) \ (IF n = m THEN {t} ELSE {})
    BY <1>1 DEF Holders, MInv, IInv, TypeOK
  <2>2. n \in Objects /\ SignalState \in [Objects -> 0 .. ULongMax]
    BY DEF Objects, MInv, IInv, TypeOK
  <2>3. CASE n = m
    <3>1. /\ SignalState[n] = 0 /\ n \notin Abandoned
          /\ Holders(n) = {t} /\ PartialHolders(n) = {}
      BY <1>1, <2>3 DEF MInv, MutexPlaced, MutexFree, MutexTakenBy, Holders
    <3>2. SignalState'[n] = 1 % (ULongMax + 1)
      BY <1>1, <2>2, <2>3, <3>1
    <3>3. 1 % (ULongMax + 1) = 1
      BY BoundsAssumption
    <3> QED BY <1>1, <1>2, <2>1, <2>3, <3>1, <3>2, <3>3 DEF MutexFree
  <2>4. CASE n # m
    <3>1. SignalState'[n] = SignalState[n]
      BY <1>1, <2>2, <2>4
    <3> QED BY <1>1, <1>2, <2>1, <2>4, <3>1, MutexUntouched DEF MInv
  <2> QED BY <2>3, <2>4
<1> QED BY <1>2, <1>3 DEF MutexPlaced

\* A wait that times out loses what it has taken.
LEMMA PspOnThreadTimeoutMutex ==
  ASSUME MInv, NEW t \in Threads, PspOnThreadTimeout(t)
  PROVE  WaitsExplained' /\ MutexPlaced'
<1>1. /\ KeUnwaitThreadNoLock(t, STATUS_TIMEOUT)
      /\ SignalState' = SignalState
      /\ Holds' = Holds /\ Abandoned' = Abandoned \cup Taken(t)
  BY DEF PspOnThreadTimeout, KeUnwaitThreadNoLock
<1>2. /\ WaitsExplained'
      /\ \A m \in Mutexes : PartialHolders(m)' = PartialHolders(m) \ {t}
  BY <1>1, UnwaitExplained DEF MInv
<1>3. ASSUME NEW m \in Mutexes
      PROVE  (MutexFree(m) \/ \E u \in Threads : MutexTakenBy(m, u))'
  <2>1. Holders(m)' = Holders(m) /\ (t \in PartialHolders(m) <=> m \in Taken(t))
    BY <1>1 DEF Holders, PartialHolders
  <2>2. CASE m \in Taken(t)
    BY <1>1, <1>2, <2>1, <2>2
    DEF MInv, MutexPlaced, MutexFree, MutexTakenBy
  <2>3. CASE m \notin Taken(t)
    BY <1>1, <1>2, <2>1, <2>3, MutexUntouched DEF MInv
  <2> QED BY <2>2, <2>3
<1> QED BY <1>2, <1>3 DEF MutexPlaced

\* The other steps touch no mutex: signals start and end at other objects,
\* and a thread that exits was not asleep.
LEMMA OtherStepsMutex ==
  ASSUME MInv,
         \/ \E t \in Threads : PsExitThread(t)
         \/ \E s \in Semaphores : KeReadStateSemaphore(s) \/ KeReleaseSemaphore(s)
         \/ \E o \in Objects : KiSignalReturns(o)
         \/ UNCHANGED vars
  PROVE  WaitsExplained' /\ MutexPlaced'
<1> DEFINE Untouched ==
             /\ UNCHANGED <<WaitObjects, WaitType, LinkedBlocks, Holds, Abandoned>>
             /\ \A t \in Threads : ThreadState'[t] # "WAITING"
                                     => ThreadState[t] # "WAITING"
             /\ \A m \in Mutexes : SignalState'[m] = SignalState[m]
<1>0. /\ ThreadState \in [Threads -> {"AWAKE", "WAITING", "TERMINATED"}]
      /\ SignalState \in [Objects -> 0 .. ULongMax]
      /\ \A m \in Mutexes : m \in Objects \ (Threads \cup Semaphores)
  BY DisjointAssumption DEF MInv, IInv, TypeOK, Objects
<1>1. Untouched
  <2>1. ASSUME NEW t \in Threads, PsExitThread(t) PROVE Untouched
    BY <1>0, <2>1 DEF PsExitThread, CanCall, StartSignal
  <2>2. ASSUME NEW s \in Semaphores, KeReadStateSemaphore(s) PROVE Untouched
    BY <1>0, <2>2 DEF KeReadStateSemaphore, threadVars
  <2>3. ASSUME NEW s \in Semaphores, KeReleaseSemaphore(s) PROVE Untouched
    BY <1>0, <2>3 DEF KeReleaseSemaphore, StartSignal, threadVars
  <2>4. ASSUME NEW o \in Objects, KiSignalReturns(o) PROVE Untouched
    BY <1>0, <2>4 DEF KiSignalReturns, threadVars
  <2>5. CASE UNCHANGED vars
    BY <2>5 DEF vars, threadVars
  <2> HIDE DEF Untouched
  <2> QED BY <2>1, <2>2, <2>3, <2>4, <2>5
<1>3. WaitsExplained' /\ \A m \in Mutexes : PartialHolders(m)' = PartialHolders(m)
  BY <1>1, WaitsUntouched DEF MInv
<1>4. \A m \in Mutexes : Holders(m)' = Holders(m)
  BY <1>1 DEF Holders
<1> QED BY <1>1, <1>3, <1>4, MutexUntouched DEF MInv, MutexPlaced

\* The inductive invariant of the mutexes.
THEOREM MutexInvariance == ShortArrays => (Spec => [](WaitsExplained /\ MutexPlaced))
<1> SUFFICES ASSUME ShortArrays PROVE Spec => [](WaitsExplained /\ MutexPlaced)
  OBVIOUS
<1>1. Init => WaitsExplained /\ MutexPlaced
  <2> SUFFICES ASSUME Init PROVE WaitsExplained /\ MutexPlaced
    OBVIOUS
  <2>1. \A t \in Threads : Taken(t) = {}
    BY DEF Init, Taken, ToSet
  <2>2. \A m \in Mutexes : Holders(m) = {} /\ PartialHolders(m) = {}
    BY <2>1 DEF Init, Holders, PartialHolders
  <2> QED
    BY <2>2, DisjointAssumption
    DEF Init, WaitsExplained, MutexPlaced, MutexFree, Objects
<1>2. /\ IInv /\ WaitsExplained /\ MutexPlaced
      /\ [Next]_vars
      => (WaitsExplained /\ MutexPlaced)'
  <2> SUFFICES ASSUME MInv, [Next]_vars PROVE WaitsExplained' /\ MutexPlaced'
    BY DEF MInv
  <2>1. ASSUME NEW t \in Threads, KeWaitForMultipleObjects(t)
        PROVE  WaitsExplained' /\ MutexPlaced'
    BY <2>1, KeWaitForMultipleObjectsMutex
  <2>2. ASSUME NEW t \in Threads, NEW m \in Mutexes, KeReleaseMutex(t, m)
        PROVE  WaitsExplained' /\ MutexPlaced'
    BY <2>2, KeReleaseMutexMutex
  <2>3. ASSUME NEW t \in Threads, PspOnThreadTimeout(t)
        PROVE  WaitsExplained' /\ MutexPlaced'
    BY <2>3, PspOnThreadTimeoutMutex
  <2>4. ASSUME NEW o \in Objects, KiSignalWakes(o) \/ KiSignalSatisfies(o)
        PROVE  WaitsExplained' /\ MutexPlaced'
    BY <2>4, KiSignalWakesMutex, KiSignalSatisfiesMutex
  <2> QED BY <2>1, <2>2, <2>3, <2>4, OtherStepsMutex DEF Next, KiSignal
<1> QED BY <1>1, <1>2, Invariance, PTL DEF Spec

\* A mutex is free, or has one holder, or is in the hands of one unfinished
\* WaitAll, or is lost for good to a WaitAll that gave up; whatever the
\* numbers of threads, mutexes and waits, if no array of a wait is so long
\* that the index of an object reads like STATUS_TIMEOUT.
THEOREM MutexesAreAccounted == ShortArrays => (Spec => []MutexAccounted)
<1>1. MutexPlaced => MutexAccounted
  <2> SUFFICES ASSUME MutexPlaced, NEW m \in Mutexes
               PROVE  SignalState[m] + Cardinality(Holders(m))
                        + Cardinality(PartialHolders(m))
                      = (IF m \in Abandoned THEN 0 ELSE 1)
    BY DEF MutexAccounted
  <2>1. Cardinality({}) = 0
    BY FS_EmptySet
  <2>2. CASE MutexFree(m)
    BY <2>1, <2>2 DEF MutexFree
  <2>3. ASSUME NEW t \in Threads, MutexTakenBy(m, t)
        PROVE  SignalState[m] + Cardinality(Holders(m))
                 + Cardinality(PartialHolders(m))
               = (IF m \in Abandoned THEN 0 ELSE 1)
    <3>1. Cardinality({t}) = 1
      BY FS_Singleton
    <3> QED BY <2>1, <2>3, <3>1 DEF MutexTakenBy
  <2> QED BY <2>2, <2>3 DEF MutexPlaced
<1> QED BY <1>1, MutexInvariance, PTL
-----------------------------------------------------------------------------
(***************************************************************************)
(* Semaphores.  Between the reading of a semaphore's count and its release *)
(* other threads can only lower the count.                                 *)
(***************************************************************************)
SemaphoresBelow ==
  \A s \in Semaphores :
    /\ SignalState[s] <= Limit[s]
    /\ Sampled[s] # NULL => SignalState[s] < Limit[s]

\* No step but a release raises the count of a semaphore.
LEMMA CountsFall ==
  ASSUME IInv, [Next]_vars, NEW s \in Semaphores, ~KeReleaseSemaphore(s)
  PROVE  SignalState'[s] \in Int /\ SignalState'[s] <= SignalState[s]
<1>1. s \in Objects /\ SignalState \in [Objects -> 0 .. ULongMax] /\ ULongMax \in Nat
  BY BoundsAssumption DEF IInv, TypeOK, Objects
<1>2. ASSUME NEW S, Designal(S)
      PROVE  SignalState'[s] \in Int /\ SignalState'[s] <= SignalState[s]
  BY <1>1, <1>2 DEF Designal
<1>3. ASSUME NEW o \in Objects, NEW n, StartSignal(o, n), o # s
      PROVE  SignalState'[s] \in Int /\ SignalState'[s] <= SignalState[s]
  BY <1>1, <1>3 DEF StartSignal
<1>4. ASSUME SignalState' = SignalState
      PROVE  SignalState'[s] \in Int /\ SignalState'[s] <= SignalState[s]
  BY <1>1, <1>4
<1>5. ASSUME NEW t \in Threads, KeWaitForMultipleObjects(t)
      PROVE  SignalState'[s] \in Int /\ SignalState'[s] <= SignalState[s]
  BY <1>2, <1>4, <1>5
  DEF KeWaitForMultipleObjects, WaitSatisfied, WaitHangs, WaitPolls, WaitBlocks,
      TakeSignalled
<1>6. ASSUME NEW t \in Threads, NEW m \in Mutexes, KeReleaseMutex(t, m)
      PROVE  SignalState'[s] \in Int /\ SignalState'[s] <= SignalState[s]
  BY <1>3, <1>6, DisjointAssumption DEF KeReleaseMutex, Objects
<1>7. ASSUME NEW t \in Threads, PsExitThread(t)
      PROVE  SignalState'[s] \in Int /\ SignalState'[s] <= SignalState[s]
  BY <1>3, <1>7, DisjointAssumption DEF PsExitThread, Objects
<1>8. ASSUME NEW r \in Semaphores, KeReleaseSemaphore(r)
      PROVE  SignalState'[s] \in Int /\ SignalState'[s] <= SignalState[s]
  BY <1>3, <1>8 DEF KeReleaseSemaphore, Objects
<1>9. ASSUME NEW o \in Objects, KiSignal(o)
      PROVE  SignalState'[s] \in Int /\ SignalState'[s] <= SignalState[s]
  BY <1>2, <1>4, <1>9
  DEF KiSignal, KiSignalWakes, KiSignalSatisfies, KiSignalReturns
<1> QED
  BY <1>4, <1>5, <1>6, <1>7, <1>8, <1>9
  DEF Next, PspOnThreadTimeout, KeReadStateSemaphore, vars

\* KeReleaseSemaphore's ASSERT(FALSE) is never reached, although its caller
\* tests the count in one step and releases in another.
THEOREM SemaphoresStayWithinLimit == Spec => []SemaphoreWithinLimit
<1>1. Init => SemaphoresBelow
  BY BoundsAssumption, DisjointAssumption DEF Init, SemaphoresBelow, Objects
<1>2. IInv /\ SemaphoresBelow /\ [Next]_vars => SemaphoresBelow'
  <2> SUFFICES ASSUME IInv, SemaphoresBelow, [Next]_vars, NEW s \in Semaphores
               PROVE  /\ SignalState'[s] <= Limit[s]
                      /\ Sampled'[s] # NULL => SignalState'[s] < Limit[s]
    BY DEF SemaphoresBelow
  <2>1. /\ s \in Objects /\ SignalState[s] \in 0 .. ULongMax
        /\ Limit[s] \in 1 .. ULongMax /\ ULongMax \in Nat
    BY BoundsAssumption DEF IInv, TypeOK, Objects
  <2>2. CASE KeReleaseSemaphore(s)
    <3>1. /\ SignalState[s] < Limit[s] /\ Sampled'[s] = NULL
          /\ SignalState'[s] = (SignalState[s] + 1) % (ULongMax + 1)
      BY <2>1, <2>2
      DEF KeReleaseSemaphore, StartSignal, SemaphoresBelow, IInv, TypeOK
    <3>2. (SignalState[s] + 1) % (ULongMax + 1) = SignalState[s] + 1
      BY <2>1, <3>1
    <3> QED BY <2>1, <3>1, <3>2
  <2>3. CASE ~KeReleaseSemaphore(s)
    <3>1. SignalState'[s] \in Int /\ SignalState'[s] <= SignalState[s]
      BY <2>3, CountsFall
    <3>2. Sampled'[s] = Sampled[s] \/ KeReadStateSemaphore(s)
      <4>1. ASSUME NEW r \in Semaphores,
                   KeReadStateSemaphore(r) \/ KeReleaseSemaphore(r)
            PROVE  Sampled'[s] = Sampled[s] \/ KeReadStateSemaphore(s)
        BY <2>3, <4>1
        DEF KeReadStateSemaphore, KeReleaseSemaphore, IInv, TypeOK
      <4>2. ASSUME NEW t \in Threads, KeWaitForMultipleObjects(t)
            PROVE  Sampled' = Sampled
        BY <4>2 DEF KeWaitForMultipleObjects, WaitSatisfied, WaitHangs,
                    WaitPolls, WaitBlocks
      <4>3. ASSUME NEW o \in Objects, KiSignal(o) PROVE Sampled' = Sampled
        BY <4>3 DEF KiSignal, KiSignalWakes, KiSignalSatisfies, KiSignalReturns
      <4> QED
        BY <4>1, <4>2, <4>3
        DEF Next, vars, KeReleaseMutex, PsExitThread, PspOnThreadTimeout
    <3>3. KeReadStateSemaphore(s) => SignalState[s] < Limit[s]
      BY DEF KeReadStateSemaphore, BelowLimit
    <3> QED BY <2>1, <3>1, <3>2, <3>3 DEF SemaphoresBelow
  <2> QED BY <2>2, <2>3
<1>3. SemaphoresBelow => SemaphoreWithinLimit
  BY DEF SemaphoresBelow, SemaphoreWithinLimit
<1> QED BY <1>1, <1>2, <1>3, Invariance, PTL DEF Spec

-----------------------------------------------------------------------------
(***************************************************************************)
(* Dispatcher implements FifoSignals when every wait is for one object:    *)
(* every initial state maps to an initial state, and every step to a step  *)
(* or a stutter, under the inductive invariants above.                     *)
(***************************************************************************)

\* KeWaitForSingleObject is the only wait that is called.
SingleArrays == \A objs \in WaitArrays : Len(objs) = 1

RInv == IInv /\ WaitsExplained

\* A list is its own whole subsequence.
LEMMA WholeSubSeq ==
  ASSUME NEW S, NEW s \in Seq(S)
  PROVE  SubSeq(s, 1, Len(s)) = s
<1>1. /\ SubSeq(s, 1, Len(s)) \in Seq(S)
      /\ Len(SubSeq(s, 1, Len(s))) = Len(s)
      /\ \A i \in 1 .. Len(s) : SubSeq(s, 1, Len(s))[i] = s[i]
  BY SubSeqProperties
<1> QED BY <1>1, SeqEqual

\* Removing the head of a list drops it from every later part of the list.
LEMMA RemoveHead ==
  ASSUME NEW S, NEW s \in Seq(S), s # <<>>, NEW n \in 1 .. Len(s)
  PROVE  /\ RemoveFirst(s, Head(s)) \in Seq(S)
         /\ Len(RemoveFirst(s, Head(s))) = Len(s) - 1
         /\ SubSeq(RemoveFirst(s, Head(s)), n, Len(s) - 1)
              = SubSeq(s, n + 1, Len(s))
<1> DEFINE r == SubSeq(s, 2, Len(s))
<1>1. Len(s) \in Nat \ {0} /\ s[1] = Head(s)
  OBVIOUS
<1>2. RemoveFirst(s, Head(s)) = r
  <2> DEFINE I == {j \in 1 .. Len(s) : s[j] = Head(s)}
  <2>1. 1 \in I /\ \A j \in I : j \in Int /\ 1 <= j
    BY <1>1
  <2>2. Min(I) = 1
    BY <2>1 DEF Min
  <2>3. SelectInSeq(s, LAMBDA v : v = Head(s)) = 1
    BY <2>1, <2>2 DEF SelectInSeq
  <2>4. RemoveFirst(s, Head(s)) = RemoveAt(s, 1)
    BY <1>1, <2>3 DEF RemoveFirst
  <2>5. RemoveAt(s, 1) = SubSeq(s, 1, 0) \o r
    BY <1>1 DEF RemoveAt
  <2>6. SubSeq(s, 1, 0) = <<>> /\ r \in Seq(S)
    BY <1>1, SubSeqProperties
  <2> QED BY <2>4, <2>5, <2>6, ConcatEmptySeq
<1>3. /\ r \in Seq(S) /\ Len(r) = Len(s) - 1
      /\ \A i \in 1 .. Len(s) - 1 : r[i] = s[i + 1]
  <2>1. \A i \in 2 .. Len(s) : s[i] \in S
    OBVIOUS
  <2> HIDE DEF r
  <2>2. /\ r \in Seq(S) /\ Len(r) = IF 2 <= Len(s) THEN Len(s) - 2 + 1 ELSE 0
        /\ \A i \in 1 .. Len(s) - 2 + 1 : r[i] = s[2 + i - 1]
    BY <1>1, <2>1, SubSeqProperties DEF r
  <2>3. ASSUME NEW i \in 1 .. Len(s) - 1 PROVE r[i] = s[i + 1]
    <3>1. i \in 1 .. Len(s) - 2 + 1 /\ 2 + i - 1 = i + 1
      BY <1>1
    <3> QED BY <2>2, <3>1
  <2>4. Len(r) = Len(s) - 1
    <3>1. Len(r) = IF 2 <= Len(s) THEN Len(s) - 2 + 1 ELSE 0
      BY <2>2
    <3>2. Len(s) \in Nat /\ Len(s) # 0
      BY <1>1
    <3> QED BY <3>1, <3>2, SMTT(30)
  <2> QED BY <2>2, <2>3, <2>4
<1> HIDE DEF r
<1> DEFINE a == SubSeq(r, n, Len(s) - 1)
           b == SubSeq(s, n + 1, Len(s))
<1>4. /\ a \in Seq(S) /\ Len(a) = Len(s) - n
      /\ \A i \in 1 .. Len(s) - n : a[i] = r[n + i - 1]
  <2>1. n \in 1 .. Len(r) + 1 /\ Len(s) - 1 \in n - 1 .. Len(r)
    BY <1>1, <1>3
  <2> QED BY <1>1, <1>3, <2>1, SubSeqProperties
<1>5. /\ b \in Seq(S) /\ Len(b) = Len(s) - n
      /\ \A i \in 1 .. Len(s) - n : b[i] = s[n + i]
  <2>1. n + 1 \in 1 .. Len(s) + 1 /\ Len(s) \in n .. Len(s)
    BY <1>1
  <2> QED BY <1>1, <2>1, SubSeqProperties
<1>6. \A i \in 1 .. Len(s) - n : a[i] = b[i]
  BY <1>1, <1>3, <1>4, <1>5
<1> HIDE DEF a, b
<1>7. a = b
  BY <1>4, <1>5, <1>6, SeqEqual
<1> QED BY <1>2, <1>3, <1>7 DEF a, b
-----------------------------------------------------------------------------
(***************************************************************************)
(* The refinement mapping, one object at a time.                           *)
(***************************************************************************)
Served(n, q) == IF n < Len(q) THEN n ELSE Len(q)

Rest(n, q) == SubSeq(q, Served(n, q) + 1, Len(q))

\* The mapping of an object is a function of its count and its wait list.
LEMMA Mapping ==
  /\ AbstractCount =
       [o \in Objects |-> SignalState[o] - Served(SignalState[o], WaitHead[o])]
  /\ AbstractQueue = [o \in Objects |-> Rest(SignalState[o], WaitHead[o])]
BY DEF AbstractCount, AbstractQueue, Unserved, Served, Rest

\* The same after the step.
LEMMA NextMapping ==
  /\ AbstractCount' =
       [o \in Objects |-> SignalState'[o] - Served(SignalState'[o], WaitHead'[o])]
  /\ AbstractQueue' = [o \in Objects |-> Rest(SignalState'[o], WaitHead'[o])]
BY DEF AbstractCount, AbstractQueue, Unserved, Served, Rest

\* Outside of KiSignal the abstract object is the concrete one.
LEMMA IdleMapping ==
  ASSUME NEW S, NEW n \in Nat, NEW q \in Seq(S), n = 0 \/ q = <<>>
  PROVE  Served(n, q) = 0 /\ n - Served(n, q) = n /\ Rest(n, q) = q
<1>1. Len(q) \in Nat /\ (q = <<>> => Len(q) = 0)
  OBVIOUS
<1>2. Served(n, q) = 0
  BY <1>1 DEF Served
<1>3. Rest(n, q) = q
  BY <1>2, WholeSubSeq DEF Rest
<1> QED BY <1>2, <1>3

\* Serving the oldest waiter changes neither the abstract count nor what is
\* left of the queue.
LEMMA ServeOne ==
  ASSUME NEW S, NEW n \in Nat \ {0}, NEW q \in Seq(S), q # <<>>
  PROVE  LET r == RemoveFirst(q, Head(q))
         IN /\ n - 1 - Served(n - 1, r) = n - Served(n, q)
            /\ Rest(n - 1, r) = Rest(n, q)
<1> DEFINE r == RemoveFirst(q, Head(q))
           k == Served(n, q)
<1>1. Len(q) \in Nat /\ Len(q) # 0
  OBVIOUS
<1>2. k \in 1 .. Len(q)
  BY <1>1 DEF Served
<1>3. Len(r) = Len(q) - 1 /\ SubSeq(r, k, Len(q) - 1) = SubSeq(q, k + 1, Len(q))
  BY <1>2, RemoveHead
<1> HIDE DEF r
<1>4. Served(n - 1, r) = k - 1
  BY <1>1, <1>3 DEF Served
<1>5. n - 1 - (k - 1) = n - k /\ k - 1 + 1 = k
  BY <1>2
<1>6. Rest(n - 1, r) = SubSeq(r, k, Len(q) - 1)
  BY <1>3, <1>4, <1>5 DEF Rest
<1> QED BY <1>3, <1>4, <1>5, <1>6 DEF r, Rest

\* While no signal is under way, every object is idle.
LEMMA AllIdle ==
  ASSUME RInv, DispatcherLock = NULL, NEW o \in Objects
  PROVE  /\ SignalState[o] \in Nat /\ WaitHead[o] \in Seq(Threads)
         /\ SignalState[o] = 0 \/ WaitHead[o] = <<>>
         /\ AbstractCount[o] = SignalState[o]
         /\ AbstractQueue[o] = WaitHead[o]
<1>1. SignalState[o] \in Nat /\ WaitHead[o] \in Seq(Threads)
  BY BoundsAssumption DEF RInv, IInv, TypeOK
<1>2. SignalState[o] = 0 \/ WaitHead[o] = <<>>
  BY <1>1, DisjointAssumption DEF RInv, IInv, NoLostWakeup, Objects
<1> QED BY <1>1, <1>2, IdleMapping, Mapping

\* Steps that leave counts and lists alone are stutters.
LEMMA Stutters ==
  ASSUME UNCHANGED <<SignalState, WaitHead>>
  PROVE  UNCHANGED <<AbstractCount, AbstractQueue>>
BY DEF AbstractCount, AbstractQueue, Unserved

\* A sleeping thread sleeps for one object.
LEMMA SleepsForOne ==
  ASSUME SingleArrays, RInv, NEW t \in Threads, NEW o \in LinkedBlocks[t]
  PROVE  LinkedBlocks[t] = {o} /\ LastBlock(t)
<1>1. WaitObjects[t] \in WaitArrays
  BY DEF RInv, IInv, TypeOK, WaitsExplained, ToSet
<1>2. Len(WaitObjects[t]) = 1 /\ WaitObjects[t] \in Seq(Objects)
  BY <1>1, WaitArraysAssumption DEF SingleArrays
<1>3. ToSet(WaitObjects[t]) = {WaitObjects[t][1]}
  BY <1>2 DEF ToSet
<1>4. LinkedBlocks[t] = {o}
  BY <1>3 DEF RInv, WaitsExplained
<1>5. ActiveBlocks[t] = 1
  BY <1>4, FS_Singleton DEF RInv, IInv, BlocksAgree
<1> QED BY <1>4, <1>5 DEF LastBlock
-----------------------------------------------------------------------------
(***************************************************************************)
(* The steps.                                                              *)
(***************************************************************************)

\* A wait takes the count, or joins the end of the queue, or gives up.
LEMMA WaitRefines ==
  ASSUME SingleArrays, RInv, NEW t \in Threads, KeWaitForMultipleObjects(t)
  PROVE  [Abstract!Next]_(Abstract!vars)
<1>1. PICK objs \in WaitArrays, type \in {"WaitAll", "WaitAny"},
           timed \in BOOLEAN :
        \/ WaitSatisfied(t, objs)
        \/ WaitHangs(t, objs)
        \/ WaitPolls(t, objs)
        \/ WaitBlocks(t, objs, type, timed)
  BY DEF KeWaitForMultipleObjects
<1>2. Len(objs) = 1 /\ objs \in Seq(Objects)
  BY WaitArraysAssumption DEF SingleArrays
<1> DEFINE o == objs[1]
<1>3. o \in Objects /\ ToSet(objs) = {o}
  BY <1>2 DEF ToSet
<1> HIDE DEF o
<1>4. CanCall(t) /\ DispatcherLock = NULL /\ ThreadState[t] = "AWAKE"
  BY <1>1 DEF WaitSatisfied, WaitHangs, WaitPolls, WaitBlocks, CanCall
<1>5. /\ SignalState[o] \in Nat /\ WaitHead[o] \in Seq(Threads)
      /\ SignalState[o] = 0 \/ WaitHead[o] = <<>>
      /\ AbstractCount[o] = SignalState[o]
      /\ AbstractQueue[o] = WaitHead[o]
  BY <1>3, <1>4, AllIdle
<1>6. CASE WaitSatisfied(t, objs)
  <2>1. SignalState[o] > 0 /\ WaitHead[o] = <<>>
    BY <1>3, <1>5, <1>6 DEF WaitSatisfied, Signalled
  <2>2. /\ WaitHead' = WaitHead
        /\ \A p \in Objects : SignalState'[p] = IF p = o THEN SignalState[p] - 1
                                                         ELSE SignalState[p]
    BY <1>3, <1>6 DEF WaitSatisfied, Designal
  <2>3. /\ SignalState'[o] - Served(SignalState'[o], WaitHead[o]) = SignalState[o] - 1
        /\ Rest(SignalState'[o], WaitHead[o]) = WaitHead[o]
    <3>1. SignalState'[o] \in Nat /\ SignalState'[o] = SignalState[o] - 1
      BY <1>3, <1>5, <2>1, <2>2
    <3> QED BY <1>5, <2>1, <3>1, IdleMapping
  <2>4. AbstractCount' = [AbstractCount EXCEPT ![o] = @ - 1]
    BY <1>3, <1>5, <2>2, <2>3, Mapping, NextMapping
  <2>5. AbstractQueue' = AbstractQueue
    BY <1>3, <1>5, <2>2, <2>3, Mapping, NextMapping
  <2>6. Abstract!Take(o)
    BY <1>5, <2>1, <2>4, <2>5 DEF Abstract!Take
  <2> QED BY <1>3, <2>6 DEF Abstract!Next
<1>7. CASE WaitHangs(t, objs)
  BY <1>2, <1>7 DEF WaitHangs
<1>8. CASE WaitPolls(t, objs)
  <2>1. Signalled(objs) = {}
    BY <1>3, <1>8 DEF WaitPolls, TakeSignalled, Signalled
  <2>2. UNCHANGED <<SignalState, WaitHead>>
    BY <1>8, <2>1 DEF WaitPolls, TakeSignalled, Designal, RInv, IInv, TypeOK
  <2> QED BY <2>2, Stutters DEF Abstract!vars
<1>9. CASE WaitBlocks(t, objs, type, timed)
  <2>1. Signalled(objs) = {} /\ SignalState[o] = 0
    BY <1>3, <1>5, <1>9 DEF WaitBlocks, TakeSignalled, Signalled
  <2>2. SignalState' = SignalState
    BY <1>9, <2>1 DEF WaitBlocks, TakeSignalled, Designal, RInv, IInv, TypeOK
  <2>3. \A p \in Objects : WaitHead'[p] = IF p = o THEN Append(WaitHead[p], t)
                                                   ELSE WaitHead[p]
    BY <1>3, <1>9, <2>1 DEF WaitBlocks
  <2>4. /\ SignalState[o] - Served(SignalState[o], Append(WaitHead[o], t)) = SignalState[o]
        /\ Rest(SignalState[o], Append(WaitHead[o], t)) = Append(WaitHead[o], t)
    <3>1. Append(WaitHead[o], t) \in Seq(Threads)
      BY <1>5
    <3> QED BY <1>5, <2>1, <3>1, IdleMapping
  <2>5. AbstractCount' = AbstractCount
    BY <1>3, <1>5, <2>2, <2>3, <2>4, Mapping, NextMapping
  <2>6. AbstractQueue' = [AbstractQueue EXCEPT ![o] = Append(@, t)]
    BY <1>3, <1>5, <2>2, <2>3, <2>4, Mapping, NextMapping
  <2>7. t \notin Abstract!Asleep
    <3>1. ASSUME NEW p \in Objects PROVE t \notin ToSet(WaitHead[p])
      BY <1>4 DEF RInv, IInv, BlocksAgree
    <3>2. ASSUME NEW p \in Objects PROVE AbstractQueue[p] = WaitHead[p]
      BY <1>4, AllIdle
    <3> QED BY <3>1, <3>2 DEF Abstract!Asleep, Abstract!ToSet, ToSet
  <2>8. Abstract!Sleep(t, o)
    BY <1>5, <2>1, <2>5, <2>6, <2>7 DEF Abstract!Sleep
  <2> QED BY <1>3, <2>8 DEF Abstract!Next
<1> QED BY <1>1, <1>6, <1>7, <1>8, <1>9

\* A turn of KiSignal's loop is a stutter: the abstract queue lost the thread
\* that it wakes when the signal started.
LEMMA KiSignalRefines ==
  ASSUME SingleArrays, RInv, NEW o \in Objects, KiSignal(o)
  PROVE  [Abstract!Next]_(Abstract!vars)
<1>1. CASE KiSignalReturns(o)
  BY <1>1, Stutters DEF KiSignalReturns, Abstract!vars
<1>2. CASE KiSignalSatisfies(o)
  <2>1. ~LastBlock(Oldest(o))
    BY <1>2 DEF KiSignalSatisfies
  <2>2. Oldest(o) \in Threads /\ o \in LinkedBlocks[Oldest(o)]
    BY <1>2, OldestWaits DEF KiSignalSatisfies, RInv
  <2> QED BY <2>1, <2>2, SleepsForOne
<1>3. CASE KiSignalWakes(o)
  <2> DEFINE t == Oldest(o)
  <2>1. /\ t \in Threads /\ o \in LinkedBlocks[t] /\ SignalState[o] > 0
        /\ t = Head(WaitHead[o]) /\ WaitHead[o] # <<>>
        /\ Designal({o})
    BY <1>3, OldestWaits DEF KiSignalWakes, Exhausted, Oldest, RInv
  <2> HIDE DEF t
  <2>2. LinkedBlocks[t] = {o}
    BY <2>1, SleepsForOne
  <2>3. WaitHead' = [p \in Objects |-> IF p = o THEN RemoveFirst(WaitHead[p], t)
                                                ELSE WaitHead[p]]
    BY <1>3, <2>2 DEF KiSignalWakes, KeUnwaitThreadNoLock, t
  <2>4. \A p \in Objects : SignalState'[p] = IF p = o THEN SignalState[p] - 1
                                                      ELSE SignalState[p]
    BY <2>1 DEF Designal
  <2>5. SignalState[o] \in Nat \ {0} /\ WaitHead[o] \in Seq(Threads)
    BY <2>1, BoundsAssumption DEF RInv, IInv, TypeOK
  <2>6. /\ SignalState'[o] - Served(SignalState'[o], WaitHead'[o])
             = SignalState[o] - Served(SignalState[o], WaitHead[o])
        /\ Rest(SignalState'[o], WaitHead'[o]) = Rest(SignalState[o], WaitHead[o])
    BY <2>1, <2>3, <2>4, <2>5, ServeOne
  <2>7. UNCHANGED <<AbstractCount, AbstractQueue>>
    BY <2>3, <2>4, <2>6, Mapping, NextMapping
  <2> QED BY <2>7 DEF Abstract!vars
<1> QED BY <1>1, <1>2, <1>3 DEF KiSignal

\* The start of a signal serves all the waiters that it is enough for.
LEMMA StartSignalRefines ==
  ASSUME RInv, NEW o \in Objects, NEW n \in 1 .. ULongMax, StartSignal(o, n),
         UNCHANGED WaitHead
  PROVE  Abstract!Next
<1>1. /\ DispatcherLock = NULL
      /\ SignalState' = [SignalState EXCEPT ![o] = (@ + n) % (ULongMax + 1)]
  BY DEF StartSignal
<1>2. \A p \in Objects : /\ AbstractCount[p] = SignalState[p]
                         /\ AbstractQueue[p] = WaitHead[p]
  BY <1>1, AllIdle
<1>3. SignalState \in [Objects -> 0 .. ULongMax]
  BY DEF RInv, IInv, TypeOK
<1> DEFINE total == (SignalState[o] + n) % (ULongMax + 1)
<1>4. \A p \in Objects : SignalState'[p] = IF p = o THEN total ELSE SignalState[p]
  BY <1>1, <1>3
<1> HIDE DEF total
<1>5. AbstractCount' = [AbstractCount EXCEPT ![o] = total - Served(total, WaitHead[o])]
  <2>1. \A p \in Objects \ {o} :
          SignalState'[p] - Served(SignalState'[p], WaitHead'[p])
            = SignalState[p] - Served(SignalState[p], WaitHead[p])
    BY <1>4
  <2> QED BY <1>4, <2>1, Mapping, NextMapping
<1>6. AbstractQueue' =
        [AbstractQueue EXCEPT ![o] = SubSeq(@, Served(total, WaitHead[o]) + 1, Len(@))]
  <2>1. \A p \in Objects \ {o} :
          Rest(SignalState'[p], WaitHead'[p]) = Rest(SignalState[p], WaitHead[p])
    BY <1>4
  <2>2. Rest(SignalState'[o], WaitHead'[o]) =
          SubSeq(AbstractQueue[o], Served(total, WaitHead[o]) + 1, Len(AbstractQueue[o]))
    BY <1>2, <1>4 DEF Rest
  <2> QED BY <2>1, <2>2, Mapping, NextMapping
<1>7. Abstract!Signal(o, n)
  BY <1>2, <1>5, <1>6 DEF Abstract!Signal, total, Served
<1> QED BY <1>7 DEF Abstract!Next

\* The other calls that take the dispatcher lock to signal.
LEMMA SignallersRefine ==
  ASSUME RInv,
         \/ \E s \in Semaphores : KeReleaseSemaphore(s)
         \/ \E t \in Threads : \/ PsExitThread(t)
                               \/ \E m \in Mutexes : KeReleaseMutex(t, m)
  PROVE  Abstract!Next
<1>1. 1 \in 1 .. ULongMax /\ ExitIncrement \in 1 .. ULongMax
  BY BoundsAssumption DEF ExitIncrement
<1>2. \E o \in Objects, n \in 1 .. ULongMax : StartSignal(o, n) /\ UNCHANGED WaitHead
  BY <1>1 DEF KeReleaseSemaphore, PsExitThread, KeReleaseMutex, Objects
<1> QED BY <1>2, StartSignalRefines

\* A timeout takes its thread out of the one queue it is in.
LEMMA TimeoutRefines ==
  ASSUME SingleArrays, RInv, NEW t \in Threads, PspOnThreadTimeout(t)
  PROVE  Abstract!Next
<1>1. /\ DispatcherLock = NULL /\ ThreadState[t] = "WAITING"
      /\ SignalState' = SignalState
  BY DEF PspOnThreadTimeout
<1>2. PICK o : o \in LinkedBlocks[t]
  BY <1>1 DEF RInv, IInv, BlocksAgree
<1>3. LinkedBlocks[t] = {o} /\ o \in Objects
  BY <1>2, SleepsForOne DEF RInv, IInv, TypeOK
<1>4. WaitHead' = [p \in Objects |-> IF p = o THEN RemoveFirst(WaitHead[p], t)
                                              ELSE WaitHead[p]]
  BY <1>3 DEF PspOnThreadTimeout, KeUnwaitThreadNoLock
<1>5. /\ SignalState[o] \in Nat /\ WaitHead[o] \in Seq(Threads)
      /\ SignalState[o] = 0 \/ WaitHead[o] = <<>>
      /\ AbstractCount[o] = SignalState[o] /\ AbstractQueue[o] = WaitHead[o]
  BY <1>1, <1>3, AllIdle
<1>6. t \in ToSet(WaitHead[o]) /\ IsInjective(WaitHead[o])
  BY <1>2, <1>3 DEF RInv, IInv, BlocksAgree
<1>7. SignalState[o] = 0 /\ RemoveFirst(WaitHead[o], t) \in Seq(Threads)
  BY <1>5, <1>6, RemoveFirstProperties DEF ToSet
<1>8. /\ Served(SignalState[o], RemoveFirst(WaitHead[o], t)) = 0
      /\ Served(SignalState[o], WaitHead[o]) = 0
      /\ Rest(SignalState[o], RemoveFirst(WaitHead[o], t)) = RemoveFirst(WaitHead[o], t)
  BY <1>5, <1>7, IdleMapping
<1>9. AbstractCount' = AbstractCount
  BY <1>1, <1>3, <1>4, <1>8, Mapping, NextMapping
<1>10. AbstractQueue' = [AbstractQueue EXCEPT ![o] = RemoveFirst(@, t)]
  BY <1>1, <1>3, <1>4, <1>5, <1>8, Mapping, NextMapping
<1>11. Abstract!Contains(AbstractQueue[o], t)
  BY <1>5, <1>6 DEF Abstract!Contains, ToSet
<1>12. Abstract!RemoveFirst(AbstractQueue[o], t) = RemoveFirst(AbstractQueue[o], t)
  BY DEF Abstract!RemoveFirst, RemoveFirst, Abstract!RemoveAt, RemoveAt,
         Abstract!SelectInSeq, SelectInSeq, Abstract!Min, Min
<1>13. Abstract!GiveUp(t, o)
  BY <1>9, <1>10, <1>11, <1>12 DEF Abstract!GiveUp
<1> QED BY <1>3, <1>13 DEF Abstract!Next
-----------------------------------------------------------------------------
\* While every wait is for one object, the dispatcher implements a counter
\* with a first-come, first-served queue, whatever the numbers of threads and
\* objects: no signal is lost, invented or given out of turn.
THEOREM DispatcherImplementsFifoSignals ==
  SingleArrays => (Spec => RefinesFifoSignals)
<1> SUFFICES ASSUME SingleArrays PROVE Spec => Abstract!Spec
  BY DEF RefinesFifoSignals
<1>1. Init => Abstract!Init
  <2> SUFFICES ASSUME Init PROVE Abstract!Init
    OBVIOUS
  <2>1. \A o \in Objects : SignalState[o] \in 0 .. ULongMax /\ WaitHead[o] = <<>>
    BY BoundsAssumption DEF Init
  <2>2. ASSUME NEW o \in Objects
        PROVE  /\ SignalState[o] - Served(SignalState[o], WaitHead[o]) = SignalState[o]
               /\ Rest(SignalState[o], WaitHead[o]) = <<>>
    <3>1. SignalState[o] \in Nat
      BY <2>1, BoundsAssumption
    <3>2. WaitHead[o] = <<>> /\ <<>> \in Seq(Threads)
      BY <2>1
    <3>3. WaitHead[o] \in Seq(Threads)
      BY <3>2
    <3> QED BY <3>1, <3>2, <3>3, IdleMapping, ZenonT(60)
  <2> QED BY <2>1, <2>2, Mapping DEF Abstract!Init
<1>2. RInv /\ [Next]_vars => [Abstract!Next]_(Abstract!vars)
  <2> SUFFICES ASSUME RInv, [Next]_vars PROVE [Abstract!Next]_(Abstract!vars)
    OBVIOUS
  <2>1. ASSUME NEW t \in Threads, KeWaitForMultipleObjects(t)
        PROVE  [Abstract!Next]_(Abstract!vars)
    BY <2>1, WaitRefines
  <2>2. ASSUME NEW t \in Threads, PspOnThreadTimeout(t) PROVE Abstract!Next
    BY <2>2, TimeoutRefines
  <2>3. ASSUME NEW s \in Semaphores, KeReadStateSemaphore(s)
        PROVE  [Abstract!Next]_(Abstract!vars)
    BY <2>3, Stutters DEF KeReadStateSemaphore, Abstract!vars
  <2>4. ASSUME NEW o \in Objects, KiSignal(o)
        PROVE  [Abstract!Next]_(Abstract!vars)
    BY <2>4, KiSignalRefines
  <2>5. CASE UNCHANGED vars
    BY <2>5, Stutters DEF vars, Abstract!vars
  <2> QED BY <2>1, <2>2, <2>3, <2>4, <2>5, SignallersRefine DEF Next
<1>3. ShortArrays
  BY DEF SingleArrays, ShortArrays, STATUS_TIMEOUT
<1>4. Spec => []RInv
  BY <1>3, Invariance, MutexInvariance, PTL DEF RInv
<1> QED BY <1>1, <1>2, <1>4, PTL DEF Spec, Abstract!Spec

-----------------------------------------------------------------------------
(***************************************************************************)
(* The locks that the dispatcher's calls hold are those they have taken in *)
(* their order, so that a circle of waiting cores needs a core that takes  *)
(* locks out of that order: one that runs down the wait blocks of a thread.*)
(* The calls, lock by lock, make only the steps of Dispatcher.             *)
(***************************************************************************)

(***************************************************************************)
(* The inductive invariant.  A call has acquired the first locks of its    *)
(* order, holds those and no others, and has the rest to acquire; an       *)
(* object is signalled by a call that has acquired all of its locks.       *)
(***************************************************************************)
CallOK(a, c) ==
  /\ c \in CallRecords
  /\ c.objs # <<>>
  /\ c.op = "wait" => a \in Threads /\ c.objs \in WaitArrays /\ a \notin ToSet(c.objs)
  /\ c.op # "wait" => Len(c.objs) = 1
  /\ c.op = "mutex" => a \in Threads /\ c.objs[1] \in Mutexes
  /\ c.op = "exit" => a \in Threads /\ c.objs[1] = a
  /\ c.op \in {"read", "semaphore"} => c.objs[1] \in Semaphores
  /\ c.op = "tick" => c.objs[1] \in Threads

Order(c) == LockOrder(c.op, c.objs)

Progress(a, c, holder) ==
  \E k \in 0 .. Len(Order(c)) :
    /\ Len(c.locks) = Len(Order(c)) - k
    /\ \A i \in 1 .. Len(c.locks) : c.locks[i] = Order(c)[k + i]
    /\ \A l \in Locks : holder[l] = a <=> \E i \in 1 .. k : Order(c)[i] = l

Accounted(a, call, holder) ==
  /\ call = NULL => \A l \in Locks : holder[l] # a
  /\ call # NULL => CallOK(a, call) /\ Progress(a, call, holder)

Signalling(c) ==
  /\ c # NULL /\ c.locks = <<>>
  /\ c.op \in {"mutex", "exit", "semaphore"}
  /\ c.objs = <<DispatcherLock>>

SignalInv ==
  /\ DispatcherLock # Hung
  /\ DispatcherLock # NULL => \E a \in Agents : Signalling(Call[a])

LInv ==
  /\ Call \in [Agents -> CallRecords \cup {NULL}]
  /\ Holder \in [Locks -> Agents \cup {NULL}]
  /\ \A a \in Agents : Accounted(a, Call[a], Holder)
  /\ SignalInv

\* The locks of a call are those of its objects and, unless it only reads, the
\* dispatcher lock at the end.
LEMMA OrderOfCall ==
  ASSUME NEW a, NEW c, CallOK(a, c)
  PROVE  /\ Order(c) \in Seq(Locks)
         /\ c.op \notin {"tick", "read"} => Order(c) = Append(c.objs, GlobalLock)
         /\ c.op = "tick" => Order(c) = <<GlobalLock>>
         /\ c.op = "read" => Order(c) = c.objs
<1>1. c.objs \in Seq(Objects) /\ Objects \subseteq Locks /\ GlobalLock \in Locks
  BY DEF CallOK, CallRecords, Locks
<1>2. c.objs \in Seq(Locks)
  BY <1>1
<1> QED BY <1>1, <1>2 DEF Order, LockOrder

\* A call of one agent that leaves alone what the others hold.
LEMMA FrameStep ==
  ASSUME LInv, NEW a \in Agents, NEW call,
         Call' = [Call EXCEPT ![a] = call],
         Holder' \in [Locks -> Agents \cup {NULL}],
         \A l \in Locks : \A b \in Agents \ {a} : Holder'[l] = b <=> Holder[l] = b,
         Accounted(a, call, Holder'), SignalInv'
  PROVE  LInv'
<1>1. call \in CallRecords \cup {NULL}
  BY DEF Accounted, CallOK
<1>2. ASSUME NEW b \in Agents \ {a} PROVE Accounted(b, Call[b], Holder')
  <2>1. Accounted(b, Call[b], Holder)
    BY DEF LInv
  <2>2. \A l \in Locks : Holder'[l] = b <=> Holder[l] = b
    OBVIOUS
  <2>3. ASSUME NEW c, Progress(b, c, Holder) PROVE Progress(b, c, Holder')
    BY <2>2, <2>3 DEF Progress
  <2> QED BY <2>1, <2>2, <2>3 DEF Accounted
<1>3. \A b \in Agents : Call'[b] = IF b = a THEN call ELSE Call[b]
  BY DEF LInv
<1>4. \A b \in Agents : Accounted(b, Call'[b], Holder')
  BY <1>2, <1>3
<1>5. Call' \in [Agents -> CallRecords \cup {NULL}]
  BY <1>1 DEF LInv
<1> QED BY <1>4, <1>5 DEF LInv

\* The signalling call is another one, or goes on with its signal.
LEMMA SignalGoesOn ==
  ASSUME LInv, NEW a \in Agents, NEW call,
         Call' = [Call EXCEPT ![a] = call],
         DispatcherLock' = DispatcherLock,
         Signalling(Call[a]) => Signalling(call)
  PROVE  SignalInv'
<1>1. \A b \in Agents : Call'[b] = IF b = a THEN call ELSE Call[b]
  BY DEF LInv
<1>2. ASSUME NEW b \in Agents, Signalling(Call[b])
      PROVE  Signalling(Call'[b])
  BY <1>1, <1>2
<1>3. ASSUME NEW c, Signalling(c) PROVE Signalling(c)'
  BY <1>3 DEF Signalling
<1> QED BY <1>2, <1>3 DEF LInv, SignalInv, Signalling

-----------------------------------------------------------------------------
(***************************************************************************)
(* The steps.                                                              *)
(***************************************************************************)
LEMMA NoAgentIsNull == NULL \notin Agents /\ NULL \notin Locks
BY AgentsAssumption, DisjointAssumption DEF Agents, Locks, Objects

\* A call that begins has all of its locks to acquire, and holds none.
LEMMA BeginStep ==
  ASSUME LInv, NEW a \in Agents, NEW op, NEW objs, NEW type, NEW timed,
         Begin(a, op, objs, type, timed),
         CallOK(a, [op |-> op, objs |-> objs, type |-> type, timed |-> timed,
                    locks |-> LockOrder(op, objs), passed |-> {}])
  PROVE  LInv'
<1> DEFINE call == [op |-> op, objs |-> objs, type |-> type, timed |-> timed,
                    locks |-> LockOrder(op, objs), passed |-> {}]
<1>1. /\ Call' = [Call EXCEPT ![a] = call]
      /\ Holder' = Holder /\ DispatcherLock' = DispatcherLock
      /\ Call[a] = NULL
  BY DEF Begin, vars
<1>2. CallOK(a, call) /\ call.locks = Order(call)
  BY DEF Order
<1>3. \A l \in Locks : Holder[l] # a
  BY <1>1 DEF LInv, Accounted
<1> HIDE DEF call
<1>4. Order(call) \in Seq(Locks)
  BY <1>2, OrderOfCall
<1>5. Progress(a, call, Holder)
  <2>1. 0 \in 0 .. Len(Order(call))
    BY <1>4
  <2>2. /\ Len(call.locks) = Len(Order(call)) - 0
        /\ \A i \in 1 .. Len(call.locks) : call.locks[i] = Order(call)[0 + i]
        /\ \A l \in Locks : Holder[l] = a <=> \E i \in 1 .. 0 : Order(call)[i] = l
    BY <1>2, <1>3, <1>4
  <2> QED BY <2>1, <2>2 DEF Progress
<1>6. Accounted(a, call, Holder')
  BY <1>1, <1>2, <1>3, <1>5 DEF Accounted
<1>7. Holder' \in [Locks -> Agents \cup {NULL}]
  BY <1>1 DEF LInv
<1>8. SignalInv'
  BY <1>1, SignalGoesOn DEF Signalling
<1> QED BY <1>1, <1>6, <1>7, <1>8, FrameStep

\* A lock that was free goes to the call whose next lock it is.
LEMMA AcquireStep ==
  ASSUME LInv, NEW a \in Agents, Acquire(a)
  PROVE  LInv'
<1>1. PICK c : c = Call[a]
  OBVIOUS
<1>2. c # NULL /\ c.locks # <<>> /\ CallOK(a, c) /\ c \in CallRecords
  BY <1>1 DEF Acquire, LInv, Accounted, CallOK
<1>3. PICK k \in 0 .. Len(Order(c)) :
        /\ Len(c.locks) = Len(Order(c)) - k
        /\ \A i \in 1 .. Len(c.locks) : c.locks[i] = Order(c)[k + i]
        /\ \A l \in Locks : Holder[l] = a <=> \E i \in 1 .. k : Order(c)[i] = l
  <2>1. Accounted(a, c, Holder)
    BY <1>1 DEF LInv
  <2>2. Progress(a, c, Holder)
    BY <1>2, <2>1 DEF Accounted
  <2> QED BY <2>2 DEF Progress
<1>4. PICK lock : lock = Head(c.locks)
  OBVIOUS
<1>5. PICK call : call = [c EXCEPT !.locks = Tail(c.locks)]
  OBVIOUS
<1>6. c.locks \in Seq(Locks) /\ Order(c) \in Seq(Locks)
  BY <1>2, OrderOfCall DEF CallRecords
<1>7. /\ k + 1 \in 0 .. Len(Order(c)) /\ lock = Order(c)[k + 1] /\ lock \in Locks
      /\ Tail(c.locks) \in Seq(Locks) /\ Len(Tail(c.locks)) = Len(c.locks) - 1
      /\ \A i \in 1 .. Len(c.locks) - 1 : Tail(c.locks)[i] = c.locks[i + 1]
  <2>1. Len(c.locks) \in Nat /\ Len(c.locks) > 0 /\ Len(Order(c)) \in Nat
    BY <1>2, <1>6
  <2>2. /\ Tail(c.locks) \in Seq(Locks) /\ Len(Tail(c.locks)) = Len(c.locks) - 1
        /\ \A i \in 1 .. Len(c.locks) - 1 : Tail(c.locks)[i] = c.locks[i + 1]
    BY <1>2, <1>6, HeadTailProperties
  <2>3. k + 1 \in 0 .. Len(Order(c))
    BY <1>3, <2>1
  <2>4. lock = c.locks[1] /\ lock \in Locks
    BY <1>2, <1>4, <1>6
  <2>5. c.locks[1] = Order(c)[k + 1]
    BY <1>3, <2>1
  <2> QED BY <2>2, <2>3, <2>4, <2>5
<1>8. /\ Holder[lock] = NULL
      /\ Holder' = [Holder EXCEPT ![lock] = a]
      /\ Call' = [Call EXCEPT ![a] = call]
      /\ DispatcherLock' = DispatcherLock
  <2>1. [Call EXCEPT ![a].locks = Tail(@)] = [Call EXCEPT ![a] = call]
    BY <1>1, <1>5 DEF LInv
  <2> QED BY <1>1, <1>4, <2>1 DEF Acquire, vars
<1>9. /\ call \in CallRecords /\ call.op = c.op /\ call.objs = c.objs
      /\ call.locks = Tail(c.locks) /\ Order(call) = Order(c)
  <2>1. /\ call \in CallRecords /\ call.op = c.op /\ call.objs = c.objs
        /\ call.locks = Tail(c.locks)
    BY <1>2, <1>5, <1>7 DEF CallRecords
  <2> QED BY <2>1 DEF Order
<1>10. CallOK(a, call)
  BY <1>2, <1>9 DEF CallOK
<1>11. \A l \in Locks : Holder'[l] = IF l = lock THEN a ELSE Holder[l]
  BY <1>8 DEF LInv
<1>12. Progress(a, call, Holder')
  <2>1. Len(call.locks) = Len(Order(c)) - (k + 1)
    BY <1>3, <1>6, <1>7, <1>9
  <2>2. \A i \in 1 .. Len(call.locks) : call.locks[i] = Order(c)[k + 1 + i]
    <3> SUFFICES ASSUME NEW i \in 1 .. Len(call.locks)
                 PROVE  call.locks[i] = Order(c)[k + 1 + i]
      OBVIOUS
    <3>1. i \in 1 .. Len(c.locks) - 1 /\ i + 1 \in 1 .. Len(c.locks)
      BY <1>6, <1>7, <1>9
    <3>2. call.locks[i] = c.locks[i + 1]
      BY <1>7, <1>9, <3>1
    <3>3. c.locks[i + 1] = Order(c)[k + (i + 1)]
      BY <1>3, <3>1
    <3>4. k + (i + 1) = k + 1 + i
      BY <1>3
    <3> QED BY <3>2, <3>3, <3>4
  <2>3. \A l \in Locks : Holder'[l] = a <=> \E i \in 1 .. k + 1 : Order(c)[i] = l
    <3> SUFFICES ASSUME NEW l \in Locks
                 PROVE  Holder'[l] = a <=> \E i \in 1 .. k + 1 : Order(c)[i] = l
      OBVIOUS
    <3>1. \A i \in 1 .. k + 1 : i \in 1 .. k \/ i = k + 1
      BY <1>3
    <3>2. \A i \in 1 .. k : i \in 1 .. k + 1
      BY <1>3
    <3>3. k + 1 \in 1 .. k + 1
      BY <1>3
    <3>4. lock = Order(c)[k + 1] /\ (Holder[l] = a <=> \E i \in 1 .. k : Order(c)[i] = l)
      BY <1>3, <1>7
    <3>5. Holder'[l] = a <=> l = lock \/ Holder[l] = a
      BY <1>11
    <3>6. (\E i \in 1 .. k + 1 : Order(c)[i] = l)
            <=> l = Order(c)[k + 1] \/ \E i \in 1 .. k : Order(c)[i] = l
      BY <3>1, <3>2, <3>3
    <3> QED BY <3>4, <3>5, <3>6
  <2>4. PICK order : order = Order(c) /\ order = Order(call)
    BY <1>9
  <2>5. k + 1 \in 0 .. Len(order)
    BY <1>7, <2>4
  <2>6. /\ Len(call.locks) = Len(order) - (k + 1)
        /\ \A i \in 1 .. Len(call.locks) : call.locks[i] = order[k + 1 + i]
        /\ \A l \in Locks : Holder'[l] = a <=> \E i \in 1 .. k + 1 : order[i] = l
    BY <2>1, <2>2, <2>3, <2>4
  <2>7. \E j \in 0 .. Len(order) :
          /\ Len(call.locks) = Len(order) - j
          /\ \A i \in 1 .. Len(call.locks) : call.locks[i] = order[j + i]
          /\ \A l \in Locks : Holder'[l] = a <=> \E i \in 1 .. j : order[i] = l
    BY <2>5, <2>6
  <2>8. Progress(a, call, Holder') <=>
          \E j \in 0 .. Len(Order(call)) :
            /\ Len(call.locks) = Len(Order(call)) - j
            /\ \A i \in 1 .. Len(call.locks) : call.locks[i] = Order(call)[j + i]
            /\ \A l \in Locks : Holder'[l] = a <=> \E i \in 1 .. j : Order(call)[i] = l
    BY DEF Progress
  <2>9. PICK j \in 0 .. Len(order) :
          /\ Len(call.locks) = Len(order) - j
          /\ \A i \in 1 .. Len(call.locks) : call.locks[i] = order[j + i]
          /\ \A l \in Locks : Holder'[l] = a <=> \E i \in 1 .. j : order[i] = l
    BY <2>7
  <2>10. j \in 0 .. Len(Order(call)) /\ Len(call.locks) = Len(Order(call)) - j
    BY <2>4, <2>9
  <2>11. \A i \in 1 .. Len(call.locks) : call.locks[i] = Order(call)[j + i]
    BY <2>4, <2>9
  <2>12. \A l \in Locks : Holder'[l] = a <=> \E i \in 1 .. j : Order(call)[i] = l
    BY <2>4, <2>9
  <2> QED BY <2>8, <2>10, <2>11, <2>12
<1>13. Accounted(a, call, Holder')
  BY <1>9, <1>10, <1>12, AgentsAssumption DEF Accounted
<1>14. /\ Holder' \in [Locks -> Agents \cup {NULL}]
       /\ \A l \in Locks : \A b \in Agents \ {a} : Holder'[l] = b <=> Holder[l] = b
  BY <1>7, <1>8, <1>11, NoAgentIsNull DEF LInv
<1>15. SignalInv'
  BY <1>1, <1>2, <1>8, SignalGoesOn DEF Signalling
<1> QED BY <1>8, <1>13, <1>14, <1>15, FrameStep
\* Passing a lock changes neither what a call holds nor what it has to acquire.
LEMMA PassStep ==
  ASSUME LInv, NEW a \in Agents, NEW P \in SUBSET Objects, Call[a] # NULL,
         Call' = [Call EXCEPT ![a].passed = P],
         Holder' = Holder, DispatcherLock' = DispatcherLock
  PROVE  LInv'
<1>1. PICK c : c = Call[a]
  OBVIOUS
<1>2. PICK call : call = [c EXCEPT !.passed = P]
  OBVIOUS
<1>3. c # NULL /\ Accounted(a, c, Holder)
  BY <1>1 DEF LInv
<1>4. CallOK(a, c) /\ Progress(a, c, Holder) /\ c \in CallRecords
  BY <1>3 DEF Accounted, CallOK
<1>5. /\ call \in CallRecords /\ call.op = c.op /\ call.objs = c.objs
      /\ call.locks = c.locks
  BY <1>2, <1>4 DEF CallRecords
<1>6. CallOK(a, call) /\ Order(call) = Order(c)
  BY <1>4, <1>5 DEF CallOK, Order
<1>7. Progress(a, call, Holder)
  BY <1>4, <1>5, <1>6 DEF Progress
<1>8. Accounted(a, call, Holder')
  BY <1>5, <1>6, <1>7, AgentsAssumption DEF Accounted
<1>9. Call' = [Call EXCEPT ![a] = call]
  BY <1>1, <1>2 DEF LInv
<1>10. Signalling(Call[a]) => Signalling(call)
  BY <1>1, <1>5, AgentsAssumption DEF Signalling
<1>11. SignalInv'
  BY <1>9, <1>10, SignalGoesOn
<1> QED BY <1>8, <1>9, <1>11, FrameStep DEF LInv

\* A call that returns holds nothing any more.
LEMMA ReturnStep ==
  ASSUME LInv, NEW a \in Agents, Return(a),
         \/ DispatcherLock' = NULL
         \/ DispatcherLock' = DispatcherLock /\ ~Signalling(Call[a])
  PROVE  LInv'
<1>1. /\ Call' = [Call EXCEPT ![a] = NULL]
      /\ Holder' = [l \in Locks |-> IF Holder[l] = a THEN NULL ELSE Holder[l]]
  BY DEF Return
<1>2. \A l \in Locks : Holder'[l] = IF Holder[l] = a THEN NULL ELSE Holder[l]
  BY <1>1
<1>3. Holder' \in [Locks -> Agents \cup {NULL}]
  BY <1>1 DEF LInv
<1>4. \A l \in Locks : \A b \in Agents \ {a} : Holder'[l] = b <=> Holder[l] = b
  BY <1>2, NoAgentIsNull
<1>5. Accounted(a, NULL, Holder')
  BY <1>2, NoAgentIsNull DEF Accounted
<1>6. SignalInv'
  <2>1. CASE DispatcherLock' = NULL
    BY <2>1, DisjointAssumption DEF SignalInv
  <2>2. CASE DispatcherLock' = DispatcherLock /\ ~Signalling(Call[a])
    BY <1>1, <2>2, SignalGoesOn
  <2> QED BY <2>1, <2>2
<1> QED BY <1>1, <1>3, <1>4, <1>5, <1>6, FrameStep

\* A call that is ready has all of its locks.
LEMMA ReadyHasItsLocks ==
  ASSUME LInv, NEW a \in Agents, NEW ops, Ready(a, ops)
  PROVE  Call[a].locks = <<>> /\ CallOK(a, Call[a]) /\ Call[a].op \in ops
<1>1. Call[a] # NULL /\ Wanted(a) = NULL /\ Call[a].op \in ops
  BY DEF Ready
<1>2. CallOK(a, Call[a])
  BY <1>1 DEF LInv, Accounted
<1>3. Call[a].locks \in Seq(Locks)
  BY <1>2 DEF CallOK, CallRecords
<1>4. Call[a].locks # <<>> => Head(Call[a].locks) \in Locks
  BY <1>3, HeadTailProperties
<1> QED BY <1>1, <1>2, <1>4, NoAgentIsNull DEF Wanted

\* A rundown passes the locks of objects.
LEMMA RundownStep ==
  ASSUME TypeOK, LInv, NEW a \in Agents, RundownWaitBlocks(a)
  PROVE  LInv'
<1>1. /\ Call[a] # NULL /\ Call[a].locks = <<>> /\ Wanted(a) # NULL
      /\ Call' = [Call EXCEPT ![a].passed = Call[a].passed \cup {Wanted(a)}]
      /\ Holder' = Holder /\ DispatcherLock' = DispatcherLock
  BY DEF RundownWaitBlocks, vars, LInv
<1>2. CallOK(a, Call[a]) /\ Call[a] \in CallRecords
  BY <1>1 DEF LInv, Accounted, CallOK
<1>3. Blocks(a) \in Seq(Objects)
  <2>1. Ends(a) # NULL => Ends(a) \in Threads
    <3>1. ASSUME NEW o \in Objects, ~Exhausted(o) PROVE Oldest(o) \in Threads
      <4>1. WaitHead[o] \in Seq(Threads) /\ WaitHead[o] # <<>>
        BY <3>1 DEF Exhausted, TypeOK
      <4> QED BY <4>1, HeadTailProperties DEF Oldest
    <3>2. Call[a].objs \in Seq(Objects) /\ Call[a].objs # <<>>
      BY <1>2 DEF CallOK, CallRecords
    <3>3. Call[a].objs[1] \in Objects
      BY <3>2
    <3>4. Call[a].op = "tick" => Call[a].objs[1] \in Threads
      BY <1>2 DEF CallOK
    <3>5. CASE Call[a].op = "tick"
      BY <3>4, <3>5 DEF Ends
    <3>6. CASE Call[a].op \in {"mutex", "exit", "semaphore"}
      BY <3>1, <3>3, <3>6 DEF Ends
    <3>7. CASE Call[a].op \notin {"tick", "mutex", "exit", "semaphore"}
      BY <3>7 DEF Ends
    <3> QED BY <3>5, <3>6, <3>7
  <2>2. \A t \in Threads : WaitObjects[t] \in Seq(Objects)
    <3>1. \A t \in Threads : WaitObjects[t] \in WaitArrays \cup {<<>>}
      BY DEF TypeOK
    <3>2. WaitArrays \subseteq Seq(Objects) /\ <<>> \in Seq(Objects)
      BY WaitArraysAssumption
    <3> QED BY <3>1, <3>2
  <2>3. Call[a].objs \in Seq(Objects)
    BY <1>2 DEF CallRecords
  <2> QED BY <2>1, <2>2, <2>3 DEF Blocks
<1>4. Wanted(a) \in Objects
  <2>1. Rundown(a) # {} /\ Wanted(a) = Blocks(a)[Min(Rundown(a))]
    BY <1>1 DEF Wanted
  <2>2. Rundown(a) \subseteq DOMAIN Blocks(a) /\ Rundown(a) \in SUBSET Nat
    BY <1>3 DEF Rundown
  <2>3. \E i \in Rundown(a) : \A j \in Rundown(a) : i <= j
    BY <2>1, <2>2, LeastNatural
  <2>4. Min(Rundown(a)) \in Rundown(a)
    BY <2>3 DEF Min
  <2> QED BY <1>3, <2>1, <2>2, <2>4
<1>5. Call[a].passed \cup {Wanted(a)} \in SUBSET Objects
  BY <1>2, <1>4 DEF CallRecords
<1> QED BY <1>1, <1>5, PassStep
\* A new call of a thread, of the clock or of the deferred procedure.
LEMMA CallsBegin ==
  ASSUME TypeOK, LInv,
         \/ \E t \in Threads : ThreadCalls(t) \/ ClockCalls(t)
         \/ \E s \in Semaphores : DpcCalls(s)
  PROVE  LInv' /\ UNCHANGED vars
<1>1. ASSUME NEW a \in Agents, NEW op, NEW objs \in Seq(Objects),
             NEW type \in {"WaitAll", "WaitAny"}, NEW timed \in BOOLEAN,
             Begin(a, op, objs, type, timed),
             op \in {"wait", "mutex", "exit", "read", "semaphore", "tick"},
             objs # <<>>,
             op = "wait" => a \in Threads /\ objs \in WaitArrays /\ a \notin ToSet(objs),
             op # "wait" => Len(objs) = 1,
             op = "mutex" => a \in Threads /\ objs[1] \in Mutexes,
             op = "exit" => a \in Threads /\ objs[1] = a,
             op \in {"read", "semaphore"} => objs[1] \in Semaphores,
             op = "tick" => objs[1] \in Threads
      PROVE  LInv' /\ UNCHANGED vars
  <2> DEFINE call == [op |-> op, objs |-> objs, type |-> type, timed |-> timed,
                      locks |-> LockOrder(op, objs), passed |-> {}]
  <2>1. LockOrder(op, objs) \in Seq(Locks)
    <3>1. objs \in Seq(Locks) /\ GlobalLock \in Locks
      BY DEF Locks
    <3> QED BY <1>1, <3>1 DEF LockOrder
  <2>2. call \in CallRecords
    BY <1>1, <2>1 DEF CallRecords
  <2>3. CallOK(a, call)
    BY <1>1, <2>2 DEF CallOK
  <2> HIDE DEF call
  <2>4. LInv'
    BY <1>1, <2>3, BeginStep DEF call
  <2> QED BY <1>1, <2>4 DEF Begin
<1>2. ASSUME NEW a \in Agents, NEW op, NEW o \in Objects,
             op \in {"mutex", "exit", "read", "semaphore", "tick"},
             BeginSimple(a, op, o),
             op = "mutex" => a \in Threads /\ o \in Mutexes,
             op = "exit" => a \in Threads /\ o = a,
             op \in {"read", "semaphore"} => o \in Semaphores,
             op = "tick" => o \in Threads
      PROVE  LInv' /\ UNCHANGED vars
  <2>1. <<o>> \in Seq(Objects) /\ <<o>> # <<>> /\ Len(<<o>>) = 1 /\ <<o>>[1] = o
    OBVIOUS
  <2>2. Begin(a, op, <<o>>, "WaitAll", FALSE)
    BY <1>2 DEF BeginSimple
  <2> QED BY <1>1, <1>2, <2>1, <2>2
<1>3. ASSUME NEW t \in Threads, ThreadCalls(t) PROVE LInv' /\ UNCHANGED vars
  <2>1. t \in Agents /\ t \in Objects
    BY DEF Agents, Objects
  <2>2. CASE \E objs \in WaitArrays, type \in WaitTypes, timed \in TimedWaits :
               /\ t \notin ToSet(objs)
               /\ Begin(t, "wait", objs, type, timed)
    <3>1. PICK objs \in WaitArrays, type \in WaitTypes, timed \in TimedWaits :
               /\ t \notin ToSet(objs)
               /\ Begin(t, "wait", objs, type, timed)
      BY <2>2
    <3>2. objs \in Seq(Objects) /\ objs # <<>>
      BY WaitArraysAssumption
    <3>3. type \in {"WaitAll", "WaitAny"} /\ timed \in BOOLEAN
      BY AgentsAssumption
    <3> QED BY <1>1, <2>1, <3>1, <3>2, <3>3
  <2>3. CASE \E m \in Holds[t] : BeginSimple(t, "mutex", m)
    <3>1. PICK m \in Holds[t] : BeginSimple(t, "mutex", m)
      BY <2>3
    <3>2. m \in Mutexes /\ m \in Objects
      BY DEF TypeOK, Objects
    <3> QED BY <1>2, <2>1, <3>1, <3>2
  <2>4. CASE BeginSimple(t, "exit", t)
    BY <1>2, <2>1, <2>4
  <2> QED BY <1>3, <2>2, <2>3, <2>4 DEF ThreadCalls
<1>4. ASSUME NEW t \in Threads, ClockCalls(t) PROVE LInv' /\ UNCHANGED vars
  <2>1. Clock \in Agents /\ t \in Objects
    BY DEF Agents, Objects
  <2>2. BeginSimple(Clock, "tick", t)
    BY <1>4 DEF ClockCalls
  <2> QED BY <1>2, <2>1, <2>2
<1>5. ASSUME NEW s \in Semaphores, DpcCalls(s) PROVE LInv' /\ UNCHANGED vars
  <2>1. Dpc \in Agents /\ s \in Objects
    BY DEF Agents, Objects
  <2>2. CASE BeginSimple(Dpc, "read", s)
    BY <1>2, <2>1, <2>2
  <2>3. CASE BeginSimple(Dpc, "semaphore", s)
    BY <1>2, <2>1, <2>3
  <2> QED BY <1>5, <2>2, <2>3 DEF DpcCalls
<1> QED BY <1>3, <1>4, <1>5

\* A call that signals takes its object's signal with all of its locks held.
LEMMA StartsSignalStep ==
  ASSUME LInv, NEW a \in Agents, StartsSignal(a)
  PROVE  LInv' /\ Next
<1>1. PICK o : o = Call[a].objs[1]
  OBVIOUS
<1>2. /\ Call[a].locks = <<>> /\ CallOK(a, Call[a])
      /\ Call[a].op \in {"mutex", "exit", "semaphore"}
      /\ Call[a] \in CallRecords /\ Call[a].objs = <<o>>
  <2>1. /\ Call[a].locks = <<>> /\ CallOK(a, Call[a])
        /\ Call[a].op \in {"mutex", "exit", "semaphore"}
    BY ReadyHasItsLocks DEF StartsSignal
  <2>2. Call[a] \in CallRecords /\ Call[a].objs \in Seq(Objects) /\ Len(Call[a].objs) = 1
    BY <2>1 DEF CallOK, CallRecords
  <2> QED BY <1>1, <2>1, <2>2
<1>3. Next /\ DispatcherLock' = o
  <2>1. CASE Call[a].op = "mutex"
    BY <1>1, <1>2, <2>1 DEF StartsSignal, CallOK, Next, KeReleaseMutex, StartSignal
  <2>2. CASE Call[a].op = "exit"
    BY <1>1, <1>2, <2>2 DEF StartsSignal, CallOK, Next, PsExitThread, StartSignal
  <2>3. CASE Call[a].op = "semaphore"
    BY <1>1, <1>2, <2>3 DEF StartsSignal, CallOK, Next, KeReleaseSemaphore, StartSignal
  <2> QED BY <1>2, <2>1, <2>2, <2>3
<1>4. Call' = Call /\ Holder' = Holder
  BY DEF StartsSignal, KeepsLocks, lockVars
<1>5. o \in Objects /\ o # Hung
  <2>1. Call[a].objs \in Seq(Objects)
    BY <1>2 DEF CallRecords
  <2> QED BY <1>1, <1>2, <2>1, DisjointAssumption
<1>6. Call[a] # NULL
  BY DEF StartsSignal, Ready
<1>7. SignalInv'
  BY <1>2, <1>3, <1>4, <1>5, <1>6 DEF SignalInv, Signalling
<1>8. \A b \in Agents : Accounted(b, Call[b], Holder) => Accounted(b, Call[b], Holder)'
  BY <1>4 DEF Accounted, CallOK, Progress
<1> QED BY <1>3, <1>4, <1>7, <1>8 DEF LInv

\* The loop of KiSignal and the return from it.
LEMMA SignalsStep ==
  ASSUME LInv, NEW a \in Agents, Signals(a)
  PROVE  LInv' /\ Next
<1>1. PICK o : o = Call[a].objs[1]
  OBVIOUS
<1>2. /\ CallOK(a, Call[a]) /\ Call[a].op \in {"mutex", "exit", "semaphore"}
      /\ Call[a] # NULL
  BY ReadyHasItsLocks DEF Signals, Ready
<1>3. o \in Objects
  <2>1. Call[a].objs \in Seq(Objects) /\ Len(Call[a].objs) = 1
    BY <1>2 DEF CallOK, CallRecords
  <2> QED BY <1>1, <2>1
<1>4. CASE KiSignalWakes(o) /\ Call' = [Call EXCEPT ![a].passed = {}] /\ UNCHANGED Holder
  <2>1. DispatcherLock' = DispatcherLock
    BY <1>4 DEF KiSignalWakes
  <2>2. {} \in SUBSET Objects /\ Holder' = Holder
    BY <1>4
  <2>3. LInv'
    BY <1>2, <1>4, <2>1, <2>2, PassStep
  <2> QED BY <1>3, <1>4, <2>3 DEF Next, KiSignal
<1>5. CASE KiSignalSatisfies(o) /\ UNCHANGED lockVars
  <2>1. DispatcherLock' = DispatcherLock /\ Call' = Call /\ Holder' = Holder
    BY <1>5 DEF KiSignalSatisfies, lockVars
  <2>2. LInv'
    BY <2>1 DEF LInv, SignalInv, Signalling, Accounted, CallOK, Progress
  <2> QED BY <1>3, <1>5, <2>2 DEF Next, KiSignal
<1>6. CASE KiSignalReturns(o) /\ Return(a)
  <2>1. LInv'
    BY <1>6, ReturnStep DEF KiSignalReturns
  <2> QED BY <1>3, <1>6, <2>1 DEF Next, KiSignal
<1> QED BY <1>1, <1>4, <1>5, <1>6 DEF Signals

\* A wait either finds all it asks for or goes to sleep, and returns its locks.
LEMMA WaitsStep ==
  ASSUME LInv, NEW t \in Threads, Waits(t)
  PROVE  LInv' /\ Next
<1>1. PICK c : c = Call[t]
  OBVIOUS
<1>2. t \in Agents
  BY DEF Agents
<1>3. CallOK(t, c) /\ c.op = "wait" /\ c \in CallRecords
  BY <1>1, <1>2, ReadyHasItsLocks DEF Waits, CallOK
<1>4. /\ c.objs \in WaitArrays /\ t \notin ToSet(c.objs)
      /\ c.type \in {"WaitAll", "WaitAny"} /\ c.timed \in BOOLEAN
  BY <1>3 DEF CallOK, CallRecords
<1>5. /\ Return(t)
      /\ \/ /\ c.type = "WaitAll" \/ Len(c.objs) = 1
            /\ WaitSatisfied(t, c.objs)
         \/ /\ c.type = "WaitAll" \/ Signalled(c.objs) = {}
            /\ WaitBlocks(t, c.objs, c.type, c.timed)
  BY <1>1 DEF Waits
<1>6. LInv'
  <2>1. DispatcherLock' = DispatcherLock
    BY <1>5 DEF WaitSatisfied, WaitBlocks
  <2>2. ~Signalling(Call[t])
    BY <1>1, <1>3 DEF Signalling
  <2> QED BY <1>2, <1>5, <2>1, <2>2, ReturnStep
<1>7. KeWaitForMultipleObjects(t)
  <2>1. PICK timeout : timeout = IF c.timed THEN "armed" ELSE "none"
    OBVIOUS
  <2>2. timeout \in {"none", "zero", "armed"} /\ timeout # "zero"
        /\ (timeout = "armed") = c.timed
    BY <1>4, <2>1
  <2>3. CASE /\ c.type = "WaitAll" \/ Len(c.objs) = 1
             /\ WaitSatisfied(t, c.objs)
    BY <1>4, <2>2, <2>3 DEF KeWaitForMultipleObjects
  <2>4. CASE /\ c.type = "WaitAll" \/ Signalled(c.objs) = {}
             /\ WaitBlocks(t, c.objs, c.type, c.timed)
    <3>1. WaitBlocks(t, c.objs, c.type, timeout = "armed")
      BY <2>2, <2>4
    <3> QED BY <1>4, <2>2, <2>4, <3>1 DEF KeWaitForMultipleObjects
  <2> QED BY <1>5, <2>3, <2>4
<1> QED BY <1>6, <1>7 DEF Next

\* The read of a count and the tick end without a signal.
LEMMA ReadsStep ==
  ASSUME LInv, Reads \/ Expires
  PROVE  LInv' /\ [Next]_vars
<1>1. {Clock, Dpc} \subseteq Agents
  BY DEF Agents
<1>2. CASE Reads
  <2>1. PICK s : s = Call[Dpc].objs[1]
    OBVIOUS
  <2>2. CallOK(Dpc, Call[Dpc]) /\ Call[Dpc].op = "read" /\ s \in Semaphores
    BY <1>1, <1>2, <2>1, ReadyHasItsLocks DEF Reads, CallOK
  <2>3. Return(Dpc) /\ (KeReadStateSemaphore(s) \/ UNCHANGED vars)
    BY <1>2, <2>1 DEF Reads
  <2>4. DispatcherLock' = DispatcherLock
    BY <2>3 DEF KeReadStateSemaphore, vars
  <2>5. LInv'
    BY <1>1, <2>2, <2>3, <2>4, ReturnStep DEF Signalling
  <2> QED BY <2>2, <2>3, <2>5 DEF Next
<1>3. CASE Expires
  <2>1. PICK t : t = Call[Clock].objs[1]
    OBVIOUS
  <2>2. CallOK(Clock, Call[Clock]) /\ Call[Clock].op = "tick" /\ t \in Threads
    BY <1>1, <1>3, <2>1, ReadyHasItsLocks DEF Expires, CallOK
  <2>3. Return(Clock) /\ (PspOnThreadTimeout(t) \/ UNCHANGED vars)
    BY <1>3, <2>1 DEF Expires
  <2>4. DispatcherLock' = DispatcherLock
    BY <2>3 DEF PspOnThreadTimeout, vars
  <2>5. LInv'
    BY <1>1, <2>2, <2>3, <2>4, ReturnStep DEF Signalling
  <2> QED BY <2>2, <2>3, <2>5 DEF Next
<1> QED BY <1>2, <1>3
-----------------------------------------------------------------------------
\* Every step of the calls and their locks keeps the invariant, and is a step
\* of Dispatcher or leaves its state alone.
LEMMA LocksStep ==
  ASSUME IInv, LInv, [LocksNext]_allVars
  PROVE  LInv' /\ [Next]_vars
<1>1. CASE \/ \E t \in Threads : ThreadCalls(t) \/ ClockCalls(t)
           \/ \E s \in Semaphores : DpcCalls(s)
  BY <1>1, CallsBegin DEF IInv
<1>2. CASE \E t \in Threads : Waits(t)
  BY <1>2, WaitsStep
<1>3. ASSUME NEW a \in Agents, Acquire(a) PROVE LInv' /\ [Next]_vars
  BY <1>3, AcquireStep DEF Acquire
<1>4. ASSUME NEW a \in Agents, RundownWaitBlocks(a) PROVE LInv' /\ [Next]_vars
  BY <1>4, RundownStep DEF RundownWaitBlocks, IInv
<1>5. ASSUME NEW a \in Agents, StartsSignal(a) PROVE LInv' /\ [Next]_vars
  BY <1>5, StartsSignalStep
<1>6. ASSUME NEW a \in Agents, Signals(a) PROVE LInv' /\ [Next]_vars
  BY <1>6, SignalsStep
<1>7. CASE Reads \/ Expires
  BY <1>7, ReadsStep
<1>8. CASE UNCHANGED allVars
  <2>1. UNCHANGED vars /\ Holder' = Holder /\ Call' = Call
    BY <1>8 DEF allVars, lockVars
  <2>2. DispatcherLock' = DispatcherLock
    BY <2>1 DEF vars
  <2>3. LInv'
    BY <2>1, <2>2 DEF LInv, SignalInv, Signalling, Accounted, CallOK, Progress
  <2> QED BY <2>1, <2>3
<1> QED BY <1>1, <1>2, <1>3, <1>4, <1>5, <1>6, <1>7, <1>8 DEF LocksNext

\* At the start nobody holds a lock or is in a call.
LEMMA LocksStart ==
  ASSUME LocksInit
  PROVE  LInv
<1>1. /\ DispatcherLock = NULL /\ Holder = [l \in Locks |-> NULL]
      /\ Call = [a \in Agents |-> NULL]
  BY DEF LocksInit, Init
<1>2. \A a \in Agents : Accounted(a, Call[a], Holder)
  BY <1>1, NoAgentIsNull DEF Accounted
<1> QED BY <1>1, <1>2, DisjointAssumption DEF LInv, SignalInv

\* The invariant of the locks, and with it the dispatcher's own, holds in every
\* reachable state of the calls that take them one by one.
THEOREM LocksInvariance == LocksSpec => [](IInv /\ LInv)
<1>1. LocksInit => IInv
  <2> SUFFICES ASSUME LocksInit PROVE IInv
    OBVIOUS
  <2> QED BY InitialState DEF LocksInit
<1>2. LocksInit => LInv
  BY LocksStart
<1>3. IInv /\ LInv /\ [LocksNext]_allVars => (IInv /\ LInv)'
  BY LocksStep, InvarianceStep
<1> QED BY <1>1, <1>2, <1>3, PTL DEF LocksSpec

\* The calls that take their locks one by one and release them at their end
\* implement Dispatcher, in which each of them is one step: what is proved of
\* the dispatcher holds of the code that takes its locks.
THEOREM LocksImplementDispatcher == LocksSpec => Spec
<1>1. LocksInit => Init
  BY DEF LocksInit
<1>2. IInv /\ LInv /\ [LocksNext]_allVars => [Next]_vars
  BY LocksStep
<1> QED BY <1>1, <1>2, LocksInvariance, PTL DEF LocksSpec, Spec
-----------------------------------------------------------------------------
(***************************************************************************)
(* The order.  The locks can be ranked so that every array of objects that *)
(* is waited for is in ascending order, and the dispatcher lock last.      *)
(***************************************************************************)
Ascending(n, rank) ==
  /\ n \in Nat /\ rank \in [Locks -> 0 .. n]
  /\ \A o \in Objects : rank[o] < rank[GlobalLock]
  /\ \A objs \in WaitArrays : \A i, j \in 1 .. Len(objs) :
       i < j => rank[objs[i]] < rank[objs[j]]

ArraysAgree == \E n, rank : Ascending(n, rank)

\* Every call takes its locks in ascending order.
LEMMA OrderAscends ==
  ASSUME NEW n, NEW rank, Ascending(n, rank), NEW a, NEW c, CallOK(a, c),
         NEW i \in 1 .. Len(Order(c)), NEW j \in 1 .. Len(Order(c)), i < j
  PROVE  rank[Order(c)[i]] < rank[Order(c)[j]]
<1>1. c \in CallRecords /\ c.objs \in Seq(Objects) /\ c.objs # <<>>
  BY DEF CallOK, CallRecords
<1>2. Len(c.objs) \in Nat
  BY <1>1
<1>3. ASSUME NEW p \in 1 .. Len(c.objs), NEW q \in 1 .. Len(c.objs), p < q
      PROVE  rank[c.objs[p]] < rank[c.objs[q]]
  <2>1. CASE c.op = "wait"
    BY <1>3, <2>1 DEF CallOK, Ascending
  <2>2. CASE c.op # "wait"
    <3>1. Len(c.objs) = 1
      BY <2>2 DEF CallOK
    <3> QED BY <1>3, <3>1
  <2> QED BY <2>1, <2>2
<1>4. CASE c.op = "tick"
  <2>1. Order(c) = <<GlobalLock>>
    BY <1>4 DEF Order, LockOrder
  <2>2. Len(Order(c)) = 1
    BY <2>1
  <2> QED BY <2>2
<1>5. CASE c.op = "read"
  <2>1. Order(c) = c.objs
    BY <1>5 DEF Order, LockOrder
  <2> QED BY <1>3, <2>1
<1>6. CASE c.op \notin {"tick", "read"}
  <2>1. Order(c) = Append(c.objs, GlobalLock)
    BY <1>6 DEF Order, LockOrder
  <2>2. /\ Len(Order(c)) = Len(c.objs) + 1
        /\ \A p \in 1 .. Len(c.objs) : Order(c)[p] = c.objs[p]
        /\ Order(c)[Len(c.objs) + 1] = GlobalLock
    BY <1>1, <2>1
  <2>3. i \in 1 .. Len(c.objs) /\ Order(c)[i] = c.objs[i] /\ c.objs[i] \in Objects
    <3>1. i \in 1 .. Len(c.objs)
      BY <1>2, <2>2
    <3> QED BY <1>1, <2>2, <3>1
  <2>4. CASE j \in 1 .. Len(c.objs)
    BY <1>3, <2>2, <2>3, <2>4
  <2>5. CASE j \notin 1 .. Len(c.objs)
    <3>1. j = Len(c.objs) + 1
      BY <1>2, <2>2, <2>5
    <3> QED BY <2>2, <2>3, <3>1 DEF Ascending
  <2> QED BY <2>4, <2>5
<1> QED BY <1>4, <1>5, <1>6

\* A lock that is held ranks below the one that its holder waits for.
LEMMA HeldRanksBelow ==
  ASSUME LInv, NEW n, NEW rank, Ascending(n, rank),
         NEW a \in Agents, NEW l \in Locks, Holder[l] = a,
         Call[a] # NULL, Call[a].locks # <<>>
  PROVE  /\ Head(Call[a].locks) \in Locks
         /\ rank[l] < rank[Head(Call[a].locks)]
<1>1. PICK c : c = Call[a]
  OBVIOUS
<1>2. Accounted(a, c, Holder)
  BY <1>1 DEF LInv
<1>3. CallOK(a, c) /\ Progress(a, c, Holder) /\ c \in CallRecords
  BY <1>1, <1>2 DEF Accounted, CallOK
<1>4. PICK order : order = Order(c)
  OBVIOUS
<1>5. c.locks \in Seq(Locks) /\ order \in Seq(Locks)
  BY <1>3, <1>4, OrderOfCall DEF CallRecords
<1>6. PICK k \in 0 .. Len(order) :
        /\ Len(c.locks) = Len(order) - k
        /\ \A i \in 1 .. Len(c.locks) : c.locks[i] = order[k + i]
        /\ \A x \in Locks : Holder[x] = a <=> \E i \in 1 .. k : order[i] = x
  BY <1>3, <1>4 DEF Progress
<1>7. PICK i \in 1 .. k : order[i] = l
  BY <1>6
<1>8. Len(c.locks) \in Nat /\ Len(c.locks) > 0 /\ Len(order) \in Nat
  BY <1>1, <1>5
<1>9. 1 \in 1 .. Len(c.locks) /\ k + 1 \in 1 .. Len(order)
      /\ i \in 1 .. Len(order) /\ i < k + 1
  BY <1>6, <1>8
<1>10. Head(c.locks) = order[k + 1]
  <2>1. Head(c.locks) = c.locks[1]
    BY <1>1, <1>5
  <2> QED BY <1>6, <1>9, <2>1
<1>11. rank[order[i]] < rank[order[k + 1]]
  BY <1>3, <1>4, <1>9, OrderAscends
<1> QED BY <1>1, <1>5, <1>7, <1>9, <1>10, <1>11

\* Of the cores in a circle, one waits for a lock of the highest rank; but its
\* holder waits for one that ranks higher still.
LEMMA NoCircleInOrder ==
  ASSUME LInv, ArraysAgree
  PROVE  DeadlocksNeedARundown
<1> SUFFICES ASSUME NEW S \in SUBSET Agents, Deadlocked(S),
                    \A a \in S : Call[a].locks # <<>>
             PROVE  FALSE
  BY DEF DeadlocksNeedARundown
<1>1. PICK n, rank : Ascending(n, rank)
  BY DEF ArraysAgree
<1>2. S # {} /\ \A a \in S : Wanted(a) # NULL /\ Holder[Wanted(a)] \in S
  BY DEF Deadlocked
<1>3. ASSUME NEW a \in S
      PROVE  /\ Call[a] # NULL /\ Wanted(a) = Head(Call[a].locks)
             /\ Wanted(a) \in Locks /\ rank[Wanted(a)] \in 0 .. n
  <2>1. Call[a] # NULL
    BY <1>2, <1>3 DEF Wanted
  <2>2. Wanted(a) = Head(Call[a].locks)
    BY <1>3, <2>1 DEF Wanted
  <2>3. Call[a].locks \in Seq(Locks)
    BY <1>3, <2>1 DEF LInv, Accounted, CallOK, CallRecords
  <2>4. Wanted(a) \in Locks
    BY <1>3, <2>2, <2>3
  <2> QED BY <1>1, <2>1, <2>2, <2>4 DEF Ascending
<1> DEFINE R == {rank[Wanted(a)] : a \in S}
<1>4. R \in SUBSET (0 .. n) /\ R # {} /\ n \in Nat
  BY <1>1, <1>2, <1>3 DEF Ascending
<1>5. \E x \in R : \A y \in R : y <= x
  <2> HIDE DEF R
  <2> QED BY <1>4, GreatestBelow
<1>6. PICK a \in S : \A b \in S : rank[Wanted(b)] <= rank[Wanted(a)]
  BY <1>5
<1>7. PICK b \in S : Holder[Wanted(a)] = b
  BY <1>2
<1>8. rank[Wanted(a)] < rank[Wanted(b)]
  BY <1>1, <1>3, <1>7, HeldRanksBelow
<1>9. rank[Wanted(b)] <= rank[Wanted(a)]
  BY <1>6
<1>10. rank[Wanted(a)] \in 0 .. n /\ rank[Wanted(b)] \in 0 .. n
  BY <1>3
<1> QED BY <1>4, <1>8, <1>9, <1>10

\* A call that signals holds its object's lock and the dispatcher lock.
LEMMA SignallerHoldsBoth ==
  ASSUME LInv
  PROVE  SignalKeepsItsLocks
<1> SUFFICES ASSUME DispatcherLock # NULL
             PROVE  /\ Holder[GlobalLock] # NULL
                    /\ Holder[DispatcherLock] = Holder[GlobalLock]
                    /\ Call[Holder[GlobalLock]].objs = <<DispatcherLock>>
  BY DEF SignalKeepsItsLocks
<1>1. PICK a \in Agents : Signalling(Call[a])
  BY DEF LInv, SignalInv
<1>2. PICK c : c = Call[a]
  OBVIOUS
<1>3. /\ c # NULL /\ c.locks = <<>> /\ c.op \in {"mutex", "exit", "semaphore"}
      /\ c.objs = <<DispatcherLock>>
  BY <1>1, <1>2 DEF Signalling
<1>4. CallOK(a, c) /\ Progress(a, c, Holder) /\ c \in CallRecords
  <2>1. Accounted(a, c, Holder)
    BY <1>2 DEF LInv
  <2> QED BY <1>3, <2>1 DEF Accounted, CallOK
<1>5. PICK order : order = Order(c)
  OBVIOUS
<1>6. Len(order) = 2 /\ order[1] = DispatcherLock /\ order[2] = GlobalLock
  <2>1. order = Append(c.objs, GlobalLock)
    BY <1>3, <1>5 DEF Order, LockOrder
  <2>2. c.objs \in Seq(Objects) /\ Len(c.objs) = 1 /\ c.objs[1] = DispatcherLock
    BY <1>3, <1>4 DEF CallRecords
  <2> QED BY <2>1, <2>2
<1>7. DispatcherLock \in Locks /\ GlobalLock \in Locks
  <2>1. c.objs \in Seq(Objects) /\ Len(c.objs) = 1
    BY <1>3, <1>4 DEF CallRecords
  <2> QED BY <1>3, <2>1 DEF Locks
<1>8. PICK k \in 0 .. Len(order) :
        /\ Len(c.locks) = Len(order) - k
        /\ \A l \in Locks : Holder[l] = a <=> \E i \in 1 .. k : order[i] = l
  BY <1>4, <1>5 DEF Progress
<1>9. k = 2
  BY <1>3, <1>6, <1>8
<1>10. Holder[DispatcherLock] = a /\ Holder[GlobalLock] = a
  BY <1>6, <1>7, <1>8, <1>9
<1> QED BY <1>2, <1>3, <1>10, NoAgentIsNull

\* Whatever the threads, the objects and the waits, as long as the arrays that
\* are waited for agree on an order: cores spin for each other's locks only
\* while one of them runs down the wait blocks of a thread; a signal keeps its
\* object's lock and the dispatcher lock; and a lock that is held belongs to a
\* call under way.
THEOREM LocksAreHeldInOrder == ArraysAgree => (LocksSpec => []LocksHeldInOrder)
<1> SUFFICES ASSUME ArraysAgree PROVE LocksSpec => []LocksHeldInOrder
  OBVIOUS
<1>1. LInv => LocksTypeOK
  <2> SUFFICES ASSUME LInv PROVE LocksTypeOK
    OBVIOUS
  <2>1. ASSUME NEW l \in Locks, Holder[l] # NULL PROVE Call[Holder[l]] # NULL
    <3>1. Holder[l] \in Agents
      BY <2>1 DEF LInv
    <3> QED BY <3>1 DEF LInv, Accounted
  <2> QED BY <2>1 DEF LInv, LocksTypeOK
<1>2. LInv => LocksHeldInOrder
  BY <1>1, NoCircleInOrder, SignallerHoldsBoth DEF LocksHeldInOrder
<1> QED BY <1>2, LocksInvariance, PTL
=============================================================================
