------------------------------ MODULE Timeouts ------------------------------
(***************************************************************************)
(* The timeouts of waits: time.c (KiClockTick, KiExpireTimeout,            *)
(* KiHandleObjectWaitTimeout), PspOnThreadTimeout of scheduler.c and the   *)
(* calls that wait.c makes to them.  Every thread has one timeout entry,   *)
(* which is linked into the list of the absolute or of the relative        *)
(* timeouts; the two lists are kept pointer by pointer.                    *)
(*                                                                         *)
(* Everything happens with the DispatcherLock held: a call is one step and *)
(* a clock tick one step per entry, with every other call kept out until   *)
(* it ends.  A ULONG64 of the code that is read as a LONG64 is an integer  *)
(* here: no timeout is within a tick of 2^63.  KeQuerySystemTime returns   *)
(* any of Times: how the clock advances is not modelled.                   *)
(***************************************************************************)
EXTENDS Integers, FiniteSets

CONSTANTS
  Threads,             \* the threads, and their timeout entries
  AbsoluteHead,        \* AbsoluteTimeoutListHead
  RelativeHead,        \* RelativeTimeoutListHead
  Values,              \* the values of *pTimeout: relative ones are negative
  Times,               \* what KeQuerySystemTime may return
  KeMaximumIncrement,  \* the time between two clock ticks
  MaxElapsed,          \* bound: Elapsed counts up to this
  NULL                 \* no timeout, no tick under way, no entry

Heads == {AbsoluteHead, RelativeHead}
Entries == Threads \cup Heads

\* What a clock tick under way knows: is its processor the first, the time it
\* has read, the list it goes through and the entry it has come to.
TickRecords == [boot : BOOLEAN, time : Times, head : Heads,
                current : Entries \cup {NULL}]

ASSUME EntriesAssumption ==
  /\ IsFiniteSet(Threads)
  /\ AbsoluteHead # RelativeHead
  /\ Threads \cap Heads = {}
  /\ NULL \notin Entries \cup Values \cup {0} \cup TickRecords

ASSUME TimesAssumption ==
  /\ Values \subseteq Int
  /\ Times \subseteq Nat
  /\ KeMaximumIncrement \in Nat \ {0}
  /\ MaxElapsed \in Nat
  /\ \A v \in Values : (MaxElapsed - 2) * KeMaximumIncrement > -v

VARIABLES
  ThreadState,  \* "AWAKE" or "WAITING"
  Timeout,      \* TimeoutEntry.Timeout of each thread
  Links,        \* the fields Next and Prev of each list entry
  Tick,         \* the KiClockTick under way, NULL if there is none
  Asked,        \* history: *pTimeout of the last wait, NULL if pTimeout is
  Elapsed       \* history: ticks of processor 0 begun in a relative wait

vars == <<ThreadState, Timeout, Links, Tick, Asked, Elapsed>>

TypeOK ==
  /\ ThreadState \in [Threads -> {"AWAKE", "WAITING"}]
  /\ Timeout \in [Threads -> Int]
  /\ Links \in [Next : [Entries -> Entries], Prev : [Entries -> Entries]]
  /\ Tick \in TickRecords \cup {NULL}
  /\ Asked \in [Threads -> Values \cup {NULL}]
  /\ Elapsed \in [Threads -> Nat]

\* KiInitializeDispatcher has made both lists empty.  The links of an entry
\* that was never linked mean nothing: here it points to itself.
Init ==
  /\ ThreadState = [t \in Threads |-> "AWAKE"]
  /\ Timeout = [t \in Threads |-> 0]
  /\ Links = [Next |-> [e \in Entries |-> e], Prev |-> [e \in Entries |-> e]]
  /\ Tick = NULL
  /\ Asked = [t \in Threads |-> NULL]
  /\ Elapsed = [t \in Threads |-> 0]
-----------------------------------------------------------------------------
(***************************************************************************)
(* The doubly linked lists of ntlist.h, assignment by assignment.          *)
(***************************************************************************)
InsertTailList(links, head, e) ==
  LET OldLast == links.Prev[head]
  IN [Next |-> [links.Next EXCEPT ![e] = head, ![OldLast] = e],
      Prev |-> [links.Prev EXCEPT ![head] = e, ![e] = OldLast]]

RemoveEntryList(links, e) ==
  [links EXCEPT !.Next[links.Prev[e]] = links.Next[e],
                !.Prev[links.Next[e]] = links.Prev[e]]

\* Mutant: the entry stays linked when the wait ends before its timeout.
LeftLinked(t, links, timeout) == links

\* A timeout of zero is taken for "not linked".
Disarmed(t, links, timeout) ==
  IF timeout # 0 THEN RemoveEntryList(links, t) ELSE links

\* The call for thread t, with the links and its timeout as they are then.
KiHandleObjectWaitTimeout(t, pTimeout, links, timeout) ==
  LET disarmed == Disarmed(t, links, timeout)
  IN IF pTimeout = NULL
     THEN /\ Timeout' = [Timeout EXCEPT ![t] = 0]
          /\ Links' = disarmed
     ELSE LET relative == pTimeout < 0
          IN /\ Timeout' = [Timeout EXCEPT
                              ![t] = IF relative THEN -pTimeout ELSE pTimeout]
             /\ Links' = InsertTailList(disarmed, IF relative THEN RelativeHead
                                                  ELSE AbsoluteHead, t)
-----------------------------------------------------------------------------
\* KeWaitForMultipleObjects that has to block.  With a timeout of zero it
\* calls KeUnwaitThreadNoLock and returns, which finds a Timeout of zero.
Wait(t, pTimeout) ==
  /\ Tick = NULL
  /\ ThreadState[t] = "AWAKE"
  /\ ThreadState' = [ThreadState EXCEPT
                       ![t] = IF pTimeout = 0 THEN "AWAKE" ELSE "WAITING"]
  /\ KiHandleObjectWaitTimeout(t, pTimeout, Links, Timeout[t])
  /\ Asked' = [Asked EXCEPT ![t] = pTimeout]
  /\ Elapsed' = [Elapsed EXCEPT ![t] = 0]
  /\ UNCHANGED Tick

\* What the thread waits for is signalled: KeUnwaitThreadNoLock.
Unwait(t) ==
  /\ Tick = NULL
  /\ ThreadState[t] = "WAITING"
  /\ ThreadState' = [ThreadState EXCEPT ![t] = "AWAKE"]
  /\ KiHandleObjectWaitTimeout(t, NULL, Links, Timeout[t])
  /\ UNCHANGED <<Tick, Asked, Elapsed>>

WaitsRelative(t) ==
  ThreadState[t] = "WAITING" /\ Asked[t] # NULL /\ Asked[t] < 0

\* A tick of processor 0 (boot) or of another one begins: KiClockTick reads
\* the time and the first absolute timeout.
KiClockTick(boot, time) ==
  /\ Tick = NULL
  /\ Tick' = [boot |-> boot, time |-> time, head |-> AbsoluteHead,
              current |-> Links.Next[AbsoluteHead]]
  /\ Elapsed' = [t \in Threads |->
                   IF boot /\ WaitsRelative(t) /\ Elapsed[t] < MaxElapsed
                   THEN Elapsed[t] + 1 ELSE Elapsed[t]]
  /\ UNCHANGED <<ThreadState, Timeout, Links, Asked>>

\* Mutant: the ticks of every processor are counted.
CountedEverywhere(t) ==
  IF Tick.head = RelativeHead THEN Timeout[t] - KeMaximumIncrement
                              ELSE Timeout[t]

\* Mutant: nobody counts the timeouts down.
Uncounted(t) == Timeout[t]

\* Only processor 0 counts a relative timeout down.
Counted(t) ==
  IF Tick.head = RelativeHead /\ Tick.boot
  THEN Timeout[t] - KeMaximumIncrement ELSE Timeout[t]

\* The comparisons of the two loops.
Expires(value) ==
  IF Tick.head = AbsoluteHead THEN value > Tick.time ELSE value < 0

Advance(t) == Tick' = [Tick EXCEPT !.current = Links.Next[t]]

\* The entry of t has time left.
Passes(t) ==
  /\ Tick # NULL /\ Tick.current = t
  /\ ~Expires(Counted(t))
  /\ Timeout' = [Timeout EXCEPT ![t] = Counted(t)]
  /\ Advance(t)
  /\ UNCHANGED <<ThreadState, Links, Asked, Elapsed>>

\* KiExpireTimeout: the entry is unlinked and PspOnThreadTimeout called,
\* which asserts that the thread waits, and ends its wait, where
\* KiHandleObjectWaitTimeout unlinks the entry again.  A failed assertion
\* stops the system.
KiExpireTimeout(t) ==
  /\ Tick # NULL /\ Tick.current = t
  /\ Expires(Counted(t))
  /\ IF ThreadState[t] = "WAITING"
     THEN /\ ThreadState' = [ThreadState EXCEPT ![t] = "AWAKE"]
          /\ KiHandleObjectWaitTimeout(t, NULL, RemoveEntryList(Links, t),
                                       Counted(t))
          /\ Advance(t)
     ELSE /\ Tick' = [Tick EXCEPT !.current = NULL]
          /\ UNCHANGED <<ThreadState, Timeout, Links>>
  /\ UNCHANGED <<Asked, Elapsed>>

\* The loop over a list has come back to its head.
KiClockTickListEnds ==
  /\ Tick # NULL /\ Tick.current = Tick.head
  /\ Tick' = IF Tick.head = RelativeHead THEN NULL
             ELSE [Tick EXCEPT !.head = RelativeHead,
                               !.current = Links.Next[RelativeHead]]
  /\ UNCHANGED <<ThreadState, Timeout, Links, Asked, Elapsed>>

KiClockTickGoesOn ==
  (\E t \in Threads : Passes(t) \/ KiExpireTimeout(t)) \/ KiClockTickListEnds
-----------------------------------------------------------------------------
Next ==
  \/ \E t \in Threads, p \in Values \cup {NULL} : Wait(t, p)
  \/ \E t \in Threads : Unwait(t)
  \/ \E boot \in BOOLEAN, time \in Times : KiClockTick(boot, time)
  \/ KiClockTickGoesOn

Spec == Init /\ [][Next]_vars

\* The clock of processor 0 keeps ticking, and a tick that waits for the
\* DispatcherLock is not overtaken for ever; a tick under way runs on.
Fairness ==
  /\ SF_vars(\E time \in Times : KiClockTick(TRUE, time))
  /\ WF_vars(KiClockTickGoesOn)

FairSpec == Spec /\ Fairness
-----------------------------------------------------------------------------
(***************************************************************************)
(* Properties.                                                             *)
(***************************************************************************)

\* The entries met on the way from the head, in at most as many steps as
\* there are entries.
Linked(head) ==
  LET steps == 0 .. Cardinality(Threads) + 1
      at[i \in steps] == IF i = 0 THEN head ELSE Links.Next[at[i - 1]]
  IN {at[i] : i \in steps} \ {head}

Armed(head) ==
  {t \in Threads : /\ ThreadState[t] = "WAITING"
                   /\ Asked[t] # NULL
                   /\ (Asked[t] < 0) = (head = RelativeHead)}

\* Each list holds the entries of exactly the threads that sleep with a
\* timeout of its kind, the back links undo the links, and the cursor of a
\* tick is on the list it goes through: whatever mixture of waits, early
\* wake-ups and expiries, also in the middle of a tick and although an expiry
\* unlinks its entry twice.
ListsHoldTheTimedWaits ==
  /\ \A head \in Heads :
       /\ Linked(head) = Armed(head)
       /\ \A e \in Linked(head) \cup {head} : Links.Prev[Links.Next[e]] = e
  /\ Tick # NULL => Tick.current \in Linked(Tick.head) \cup {Tick.head}

\* ASSERT(pThread->ThreadState == THREAD_STATE_WAITING) of PspOnThreadTimeout
\* (scheduler.c:1017): a timeout that expires finds its thread waiting.
ExpiryFindsTheWait == Tick # NULL => Tick.current # NULL

\* A clock tick ends a wait only if it asked for a timeout, and a relative
\* one in the first tick of processor 0 by which the time asked for is over,
\* counted from the tick before the wait began.
ExpiresOnTime ==
  [][\A t \in Threads :
       Tick # NULL /\ ThreadState[t] = "WAITING" /\ ThreadState'[t] = "AWAKE" =>
         /\ Asked[t] # NULL
         /\ Asked[t] < 0 =>
              /\ Elapsed[t] * KeMaximumIncrement > -Asked[t]
              /\ (Elapsed[t] - 1) * KeMaximumIncrement <= -Asked[t]]_vars

\* A wait with a relative timeout ends.
RelativeWaitEnds ==
  \A t \in Threads : WaitsRelative(t) ~> ThreadState[t] = "AWAKE"
\* The timeout lists and the waits agree, also in the middle of a tick: the
\* parts above.
TimedWaitsAccounted ==
  /\ TypeOK
  /\ ListsHoldTheTimedWaits
  /\ ExpiryFindsTheWait
=============================================================================
