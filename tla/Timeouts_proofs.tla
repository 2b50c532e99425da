--------------------------- MODULE Timeouts_proofs ---------------------------
(***************************************************************************)
(* The two lists of timeouts are rings of their entries, pointer by        *)
(* pointer, and hold the sleepers that asked for a timeout; a relative one *)
(* has been counted down by the ticks of processor 0 that have passed it,  *)
(* and so expires in the tick in which it should.                          *)
(***************************************************************************)
EXTENDS Timeouts, ListLemmas

(***************************************************************************)
(* A ring: the list of the entries s behind a head, closed in both         *)
(* directions.                                                             *)
(***************************************************************************)
LinksType == [Next : [Entries -> Entries], Prev : [Entries -> Entries]]

Node(head, s, i) == IF i \in 1 .. Len(s) THEN s[i] ELSE head

Ring(links, head, s) ==
  /\ s \in Seq(Threads) /\ IsInjective(s)
  /\ \A i \in 0 .. Len(s) :
       /\ links.Next[Node(head, s, i)] = Node(head, s, i + 1)
       /\ links.Prev[Node(head, s, i + 1)] = Node(head, s, i)

Without(s, i) == [j \in 1 .. Len(s) - 1 |-> IF j < i THEN s[j] ELSE s[j + 1]]

\* The entries of a ring and its head are different list entries.
LEMMA NodesDiffer ==
  ASSUME NEW head \in Heads, NEW s \in Seq(Threads), IsInjective(s)
  PROVE  /\ \A i \in Int : Node(head, s, i) \in ToSet(s) \cup {head}
         /\ \A i \in Int : Node(head, s, i) \in Entries
         /\ \A i, j \in 0 .. Len(s) : Node(head, s, i) = Node(head, s, j) => i = j
         /\ \A i, j \in 1 .. Len(s) + 1 : Node(head, s, i) = Node(head, s, j) => i = j
<1>1. Len(s) \in Nat /\ \A i \in 1 .. Len(s) : s[i] \in Threads /\ s[i] \in ToSet(s)
  BY DEF ToSet
<1>2. \A i, j \in 1 .. Len(s) : s[i] = s[j] => i = j
  BY DEF IsInjective
<1>3. \A i \in 1 .. Len(s) : s[i] # head
  BY <1>1, EntriesAssumption
<1>4. \A i \in Int : Node(head, s, i) \in ToSet(s) \cup {head}
  BY <1>1 DEF Node
<1>5. \A i \in Int : Node(head, s, i) \in Entries
  BY <1>1 DEF Node, Entries
<1>6. \A i, j \in 0 .. Len(s) : Node(head, s, i) = Node(head, s, j) => i = j
  BY <1>1, <1>2, <1>3 DEF Node
<1>7. \A i, j \in 1 .. Len(s) + 1 : Node(head, s, i) = Node(head, s, j) => i = j
  BY <1>1, <1>2, <1>3 DEF Node
<1> QED BY <1>4, <1>5, <1>6, <1>7

\* The sequence of the entries without one of them.
LEMMA WithoutProperties ==
  ASSUME NEW s \in Seq(Threads), IsInjective(s), NEW i \in 1 .. Len(s)
  PROVE  /\ Without(s, i) \in Seq(Threads) /\ IsInjective(Without(s, i))
         /\ Len(Without(s, i)) = Len(s) - 1
         /\ ToSet(Without(s, i)) = ToSet(s) \ {s[i]}
<1>1. Len(s) \in Nat /\ \A j \in 1 .. Len(s) : s[j] \in Threads
  OBVIOUS
<1>2. \A j, k \in 1 .. Len(s) : s[j] = s[k] => j = k
  BY DEF IsInjective
<1>3. PICK w : w = Without(s, i)
  OBVIOUS
<1>4. w = [j \in 1 .. Len(s) - 1 |-> IF j < i THEN s[j] ELSE s[j + 1]]
  BY <1>3 DEF Without
<1>5. w \in Seq(Threads) /\ Len(w) = Len(s) - 1
  BY <1>1, <1>4
<1>6. \A j \in 1 .. Len(s) - 1 : w[j] = IF j < i THEN s[j] ELSE s[j + 1]
  BY <1>4
<1>7. IsInjective(w)
  BY <1>1, <1>2, <1>5, <1>6 DEF IsInjective
<1>8. ToSet(w) = ToSet(s) \ {s[i]}
  <2>1. ASSUME NEW x \in ToSet(w) PROVE x \in ToSet(s) \ {s[i]}
    <3>1. PICK j \in 1 .. Len(s) - 1 : w[j] = x
      BY <1>5 DEF ToSet
    <3> QED BY <1>1, <1>2, <1>6, <3>1 DEF ToSet
  <2>2. ASSUME NEW x \in ToSet(s) \ {s[i]} PROVE x \in ToSet(w)
    <3>1. PICK j \in 1 .. Len(s) : s[j] = x /\ j # i
      BY DEF ToSet
    <3>2. CASE j < i
      <4>1. j \in 1 .. Len(s) - 1 /\ w[j] = x
        BY <1>1, <1>6, <3>1, <3>2
      <4> QED BY <1>5, <4>1 DEF ToSet
    <3>3. CASE j > i
      <4>1. j - 1 \in 1 .. Len(s) - 1 /\ w[j - 1] = x
        BY <1>1, <1>6, <3>1, <3>3
      <4> QED BY <1>5, <4>1 DEF ToSet
    <3> QED BY <1>1, <3>1, <3>2, <3>3
  <2> QED BY <2>1, <2>2
<1> QED BY <1>3, <1>5, <1>7, <1>8

\* A change elsewhere leaves a ring alone.
LEMMA RingElsewhere ==
  ASSUME NEW head \in Heads, NEW s, NEW links, NEW new, Ring(links, head, s),
         \A e \in ToSet(s) \cup {head} :
           new.Next[e] = links.Next[e] /\ new.Prev[e] = links.Prev[e]
  PROVE  Ring(new, head, s)
<1>1. s \in Seq(Threads) /\ IsInjective(s)
  BY DEF Ring
<1>2. Len(s) \in Nat /\ \A i \in Int : Node(head, s, i) \in ToSet(s) \cup {head}
  BY <1>1, NodesDiffer
<1>3. ASSUME NEW i \in 0 .. Len(s)
      PROVE  /\ new.Next[Node(head, s, i)] = Node(head, s, i + 1)
             /\ new.Prev[Node(head, s, i + 1)] = Node(head, s, i)
  <2>1. Node(head, s, i) \in ToSet(s) \cup {head} /\ Node(head, s, i + 1) \in ToSet(s) \cup {head}
    BY <1>2
  <2> QED BY <2>1 DEF Ring
<1> QED BY <1>1, <1>3 DEF Ring
\* RemoveEntryList makes the two neighbours of an entry each other's.
LEMMA Neighbours ==
  ASSUME NEW links \in LinksType, NEW t \in Entries, NEW p \in Entries, NEW n \in Entries,
         links.Prev[t] = p, links.Next[t] = n
  PROVE  RemoveEntryList(links, t)
           = [Next |-> [links.Next EXCEPT ![p] = n], Prev |-> [links.Prev EXCEPT ![n] = p]]
<1>1. PICK N, P : N = links.Next /\ P = links.Prev
  OBVIOUS
<1>2. N \in [Entries -> Entries] /\ P \in [Entries -> Entries]
  BY <1>1 DEF LinksType
<1>3. links = [Next |-> N, Prev |-> P]
  BY <1>1 DEF LinksType
<1>4. [links EXCEPT !.Next[p] = n] = [Next |-> [N EXCEPT ![p] = n], Prev |-> P]
  BY <1>1, <1>3 DEF LinksType
<1>5. [links EXCEPT !.Next[p] = n, !.Prev[n] = p]
        = [Next |-> [N EXCEPT ![p] = n], Prev |-> [P EXCEPT ![n] = p]]
  <2>1. PICK m : m = [links EXCEPT !.Next[p] = n]
    OBVIOUS
  <2>2. [links EXCEPT !.Next[p] = n, !.Prev[n] = p] = [m EXCEPT !.Prev[n] = p]
    BY <2>1
  <2>3. m = [Next |-> [N EXCEPT ![p] = n], Prev |-> P]
    BY <1>4, <2>1
  <2>4. [m EXCEPT !.Prev[n] = p] = [Next |-> [N EXCEPT ![p] = n], Prev |-> [P EXCEPT ![n] = p]]
    BY <2>3
  <2> QED BY <2>2, <2>4
<1>6. RemoveEntryList(links, t) = [links EXCEPT !.Next[p] = n, !.Prev[n] = p]
  BY DEF RemoveEntryList
<1> QED BY <1>1, <1>5, <1>6

\* Unlinking an entry takes it out of its ring, keeps the other ring, and does
\* nothing more when it is done again (KiExpireTimeout).
LEMMA RemoveFromRing ==
  ASSUME NEW links \in LinksType, NEW head \in Heads, NEW s,
         Ring(links, head, s), NEW i \in 1 .. Len(s), NEW new,
         new = RemoveEntryList(links, s[i])
  PROVE  /\ new \in LinksType
         /\ Ring(new, head, Without(s, i))
         /\ RemoveEntryList(new, s[i]) = new
         /\ \A e \in Entries : e \notin ToSet(s) \cup {head} =>
              new.Next[e] = links.Next[e] /\ new.Prev[e] = links.Prev[e]
<1>1. s \in Seq(Threads) /\ IsInjective(s) /\ Len(s) \in Nat
  BY DEF Ring
<1>2. PICK t, p, n : t = s[i] /\ p = Node(head, s, i - 1) /\ n = Node(head, s, i + 1)
  OBVIOUS
<1>3. /\ \A j \in Int : Node(head, s, j) \in ToSet(s) \cup {head} /\ Node(head, s, j) \in Entries
      /\ \A j, k \in 0 .. Len(s) : Node(head, s, j) = Node(head, s, k) => j = k
      /\ \A j, k \in 1 .. Len(s) + 1 : Node(head, s, j) = Node(head, s, k) => j = k
  BY <1>1, NodesDiffer
<1>4. t = Node(head, s, i) /\ t # p /\ t # n
  BY <1>1, <1>2, <1>3 DEF Node
<1>5. t \in Entries /\ p \in Entries /\ n \in Entries
  BY <1>2, <1>3, <1>4
<1>6. links.Prev[t] = p /\ links.Next[t] = n
  <2>1. i - 1 \in 0 .. Len(s) /\ i - 1 + 1 = i /\ i \in 0 .. Len(s)
    BY <1>1
  <2> QED BY <1>2, <1>4, <2>1 DEF Ring
<1>7. new = [Next |-> [links.Next EXCEPT ![p] = n], Prev |-> [links.Prev EXCEPT ![n] = p]]
  BY <1>2, <1>5, <1>6, Neighbours
<1>8. /\ new \in LinksType
      /\ \A e \in Entries : new.Next[e] = IF e = p THEN n ELSE links.Next[e]
      /\ \A e \in Entries : new.Prev[e] = IF e = n THEN p ELSE links.Prev[e]
  BY <1>5, <1>7 DEF LinksType
<1>9. RemoveEntryList(new, t) = new
  <2>1. PICK N, P : N = [links.Next EXCEPT ![p] = n] /\ P = [links.Prev EXCEPT ![n] = p]
    OBVIOUS
  <2>2. N \in [Entries -> Entries] /\ P \in [Entries -> Entries]
    BY <1>5, <2>1 DEF LinksType
  <2>3. N[t] = n /\ P[t] = p /\ N[p] = n /\ P[n] = p
    BY <1>4, <1>5, <1>6, <2>1 DEF LinksType
  <2>4. new = [Next |-> N, Prev |-> P]
    BY <1>7, <2>1
  <2>5. RemoveEntryList(new, t) = [Next |-> [N EXCEPT ![p] = n], Prev |-> [P EXCEPT ![n] = p]]
    <3>1. new \in LinksType /\ new.Next = N /\ new.Prev = P
      BY <2>2, <2>4 DEF LinksType
    <3> QED BY <1>5, <2>3, <3>1, Neighbours
  <2>6. [N EXCEPT ![p] = n] = N /\ [P EXCEPT ![n] = p] = P
    BY <1>5, <2>2, <2>3
  <2> QED BY <2>4, <2>5, <2>6
<1>10. \A e \in Entries : e \notin ToSet(s) \cup {head} =>
         new.Next[e] = links.Next[e] /\ new.Prev[e] = links.Prev[e]
  <2>1. p \in ToSet(s) \cup {head} /\ n \in ToSet(s) \cup {head}
    BY <1>2, <1>3
  <2> QED BY <1>8, <2>1
<1>11. PICK w : w = Without(s, i)
  OBVIOUS
<1>12. /\ w \in Seq(Threads) /\ IsInjective(w) /\ Len(w) = Len(s) - 1
  BY <1>1, <1>11, WithoutProperties
<1>13. \A j \in 0 .. Len(s) :
         Node(head, w, j) = Node(head, s, IF j < i THEN j ELSE j + 1)
  <2>1. \A j \in 1 .. Len(s) - 1 : w[j] = IF j < i THEN s[j] ELSE s[j + 1]
    BY <1>11 DEF Without
  <2> QED BY <1>1, <1>12, <2>1 DEF Node
<1>14. ASSUME NEW j \in 0 .. Len(w)
       PROVE  /\ new.Next[Node(head, w, j)] = Node(head, w, j + 1)
              /\ new.Prev[Node(head, w, j + 1)] = Node(head, w, j)
  <2>0. j \in 0 .. Len(s) /\ j + 1 \in 0 .. Len(s) /\ j \in Int
    BY <1>1, <1>12
  <2>1. CASE j < i - 1
    <3>1. Node(head, w, j) = Node(head, s, j) /\ Node(head, w, j + 1) = Node(head, s, j + 1)
      BY <1>13, <2>0, <2>1
    <3>2. Node(head, s, j) # p
      BY <1>1, <1>2, <1>3, <2>0, <2>1
    <3>3. Node(head, s, j + 1) # n
      BY <1>1, <1>2, <1>3, <2>0, <2>1
    <3>4. Node(head, s, j) \in Entries /\ Node(head, s, j + 1) \in Entries
      BY <1>3, <2>0
    <3> QED BY <1>8, <2>0, <3>1, <3>2, <3>3, <3>4 DEF Ring
  <2>2. CASE j = i - 1
    <3>1. Node(head, w, j) = p /\ Node(head, w, j + 1) = n
      BY <1>2, <1>13, <2>0, <2>2
    <3> QED BY <1>5, <1>8, <3>1
  <2>3. CASE j > i - 1
    <3>1. Node(head, w, j) = Node(head, s, j + 1) /\ Node(head, w, j + 1) = Node(head, s, j + 2)
      BY <1>13, <2>0, <2>3
    <3>2. j + 1 \in 0 .. Len(s) /\ j + 2 \in 1 .. Len(s) + 1 /\ j + 1 # i - 1 /\ j + 2 # i + 1
      BY <1>1, <1>12, <2>3
    <3>3. Node(head, s, j + 1) # p
      BY <1>1, <1>2, <1>3, <3>2
    <3>4. Node(head, s, j + 2) # n
      BY <1>1, <1>2, <1>3, <3>2
    <3>5. Node(head, s, j + 1) \in Entries /\ Node(head, s, j + 2) \in Entries
      BY <1>3, <2>0
    <3>6. /\ links.Next[Node(head, s, j + 1)] = Node(head, s, j + 2)
          /\ links.Prev[Node(head, s, j + 2)] = Node(head, s, j + 1)
      <4>1. j + 1 + 1 = j + 2
        BY <2>0
      <4> QED BY <3>2, <4>1 DEF Ring
    <3> QED BY <1>8, <3>1, <3>3, <3>4, <3>5, <3>6
  <2> QED BY <1>1, <2>0, <2>1, <2>2, <2>3
<1>15. Ring(new, head, w)
  BY <1>12, <1>14 DEF Ring
<1> QED BY <1>2, <1>8, <1>9, <1>10, <1>11, <1>15

\* Linking an entry that is on no ring puts it at the end of the head's.
LEMMA InsertInRing ==
  ASSUME NEW links \in LinksType, NEW head \in Heads, NEW s,
         Ring(links, head, s), NEW t \in Threads, t \notin ToSet(s), NEW new,
         new = InsertTailList(links, head, t)
  PROVE  /\ new \in LinksType
         /\ Ring(new, head, Append(s, t))
         /\ \A e \in Entries : e \notin ToSet(s) \cup {head, t} =>
              new.Next[e] = links.Next[e] /\ new.Prev[e] = links.Prev[e]
<1>1. s \in Seq(Threads) /\ IsInjective(s) /\ Len(s) \in Nat
  BY DEF Ring
<1>2. PICK last, w : last = Node(head, s, Len(s)) /\ w = Append(s, t)
  OBVIOUS
<1>3. /\ \A j \in Int : Node(head, s, j) \in ToSet(s) \cup {head} /\ Node(head, s, j) \in Entries
      /\ \A j, k \in 0 .. Len(s) : Node(head, s, j) = Node(head, s, k) => j = k
      /\ \A j, k \in 1 .. Len(s) + 1 : Node(head, s, j) = Node(head, s, k) => j = k
  BY <1>1, NodesDiffer
<1>4. head \in Entries /\ t \in Entries /\ t # head /\ last \in Entries
      /\ last \in ToSet(s) \cup {head}
  BY <1>1, <1>2, <1>3, EntriesAssumption DEF Entries
<1>5. \A j \in Int : Node(head, s, j) # t
  BY <1>3, <1>4
<1>6. Node(head, s, Len(s) + 1) = head /\ Node(head, s, 0) = head
  BY <1>1 DEF Node
<1>7. links.Prev[head] = last
  <2>1. Len(s) \in 0 .. Len(s)
    BY <1>1
  <2> QED BY <1>2, <1>6, <2>1 DEF Ring
<1>8. new = [Next |-> [links.Next EXCEPT ![t] = head, ![last] = t],
             Prev |-> [links.Prev EXCEPT ![head] = t, ![t] = last]]
  BY <1>7 DEF InsertTailList
<1>9. /\ new \in LinksType
      /\ \A e \in Entries : new.Next[e] = IF e = last THEN t ELSE IF e = t THEN head
                                          ELSE links.Next[e]
      /\ \A e \in Entries : new.Prev[e] = IF e = t THEN last ELSE IF e = head THEN t
                                          ELSE links.Prev[e]
  BY <1>4, <1>8 DEF LinksType
<1>10. w \in Seq(Threads) /\ IsInjective(w) /\ Len(w) = Len(s) + 1
  BY <1>1, <1>2, AppendNew
<1>11. /\ \A j \in 0 .. Len(s) : Node(head, w, j) = Node(head, s, j)
       /\ Node(head, w, Len(s) + 1) = t /\ Node(head, w, Len(s) + 2) = head
  <2>1. /\ \A j \in 1 .. Len(s) : w[j] = s[j]
        /\ w[Len(s) + 1] = t
    BY <1>1, <1>2
  <2> QED BY <1>1, <1>10, <2>1 DEF Node
<1>12. ASSUME NEW j \in 0 .. Len(w)
       PROVE  /\ new.Next[Node(head, w, j)] = Node(head, w, j + 1)
              /\ new.Prev[Node(head, w, j + 1)] = Node(head, w, j)
  <2>1. CASE j < Len(s)
    <3>1. j \in 0 .. Len(s) /\ j + 1 \in 0 .. Len(s) /\ j \in Int /\ j + 1 \in 1 .. Len(s) + 1
      BY <1>1, <1>10, <2>1
    <3>2. Node(head, w, j) = Node(head, s, j) /\ Node(head, w, j + 1) = Node(head, s, j + 1)
      BY <1>11, <3>1
    <3>3. Node(head, s, j) # last /\ Node(head, s, j) # t
      BY <1>1, <1>2, <1>3, <1>5, <2>1, <3>1
    <3>4. Node(head, s, j + 1) # head /\ Node(head, s, j + 1) # t
      BY <1>1, <1>3, <1>5, <1>6, <2>1, <3>1
    <3>5. Node(head, s, j) \in Entries /\ Node(head, s, j + 1) \in Entries
      BY <1>3, <3>1
    <3> QED BY <1>9, <3>1, <3>2, <3>3, <3>4, <3>5 DEF Ring
  <2>2. CASE j = Len(s)
    <3>1. Node(head, w, j) = last /\ Node(head, w, j + 1) = t
      BY <1>1, <1>2, <1>11, <2>2
    <3> QED BY <1>4, <1>9, <3>1
  <2>3. CASE j = Len(s) + 1
    <3>1. j + 1 = Len(s) + 2
      BY <1>1, <2>3
    <3>2. Node(head, w, j) = t /\ Node(head, w, j + 1) = head
      BY <1>11, <2>3, <3>1
    <3>3. t # last
      BY <1>1, <1>2, <1>5
    <3> QED BY <1>4, <1>9, <3>2, <3>3
  <2> QED BY <1>1, <1>10, <2>1, <2>2, <2>3
<1>13. Ring(new, head, w)
  BY <1>10, <1>12 DEF Ring
<1>14. \A e \in Entries : e \notin ToSet(s) \cup {head, t} =>
         new.Next[e] = links.Next[e] /\ new.Prev[e] = links.Prev[e]
  BY <1>4, <1>9
<1> QED BY <1>2, <1>9, <1>13, <1>14
-----------------------------------------------------------------------------
(***************************************************************************)
(* The inductive invariant.  A timeout that is counted down to exactly     *)
(* zero is taken for one that is not linked, and so is a timeout of zero:  *)
(* the values asked for must not meet a tick.                              *)
(***************************************************************************)
OffTheTick == \A v \in Values, n \in Nat : v + n * KeMaximumIncrement # 0

\* The tick under way is one of processor 0 and has yet to count t, whose
\* entry is not before the tick's cursor.
Due(t, s) ==
  /\ Tick # NULL /\ Tick.boot
  /\ \/ Tick.head = AbsoluteHead
     \/ \E i, j \in 1 .. Len(s) : Tick.current = s[i] /\ s[j] = t /\ i <= j

\* How often t has been counted since its wait began.
Beats(t, s) == Elapsed[t] - (IF Due(t, s) THEN 1 ELSE 0)

RingsInv(r) ==
  /\ r \in [Heads -> Seq(Threads)]
  /\ \A head \in Heads : Ring(Links, head, r[head]) /\ ToSet(r[head]) = Armed(head)
  /\ Tick # NULL => Tick.current \in ToSet(r[Tick.head]) \cup {Tick.head}

CountInv(r) ==
  \A t \in Threads :
    /\ t \notin Armed(AbsoluteHead) \cup Armed(RelativeHead) => Timeout[t] = 0
    /\ t \in Armed(AbsoluteHead) => Timeout[t] = Asked[t]
    /\ t \in Armed(RelativeHead) =>
         /\ Beats(t, r[RelativeHead]) \in Nat /\ Timeout[t] \in Nat
         /\ Timeout[t] = -Asked[t] - Beats(t, r[RelativeHead]) * KeMaximumIncrement

TInv == TypeOK /\ \E r : RingsInv(r) /\ CountInv(r)

\* What a thread asked for, if a list is to hold it.
LEMMA ArmedAsked ==
  ASSUME TypeOK, OffTheTick, NEW t \in Threads
  PROVE  /\ t \in Armed(AbsoluteHead) <=>
              ThreadState[t] = "WAITING" /\ Asked[t] # NULL /\ Asked[t] > 0
         /\ t \in Armed(RelativeHead) <=>
              ThreadState[t] = "WAITING" /\ Asked[t] # NULL /\ Asked[t] < 0
         /\ Asked[t] # NULL => Asked[t] \in Values /\ Asked[t] \in Int /\ Asked[t] # 0
<1>1. Asked[t] # NULL => Asked[t] \in Values /\ Asked[t] \in Int
  BY TimesAssumption DEF TypeOK
<1>2. Asked[t] # NULL => Asked[t] # 0
  <2>1. SUFFICES ASSUME Asked[t] # NULL PROVE Asked[t] # 0
    OBVIOUS
  <2>2. Asked[t] + 0 * KeMaximumIncrement # 0
    BY <1>1, <2>1 DEF OffTheTick
  <2> QED BY <1>1, <2>1, <2>2, TimesAssumption
<1> QED BY <1>1, <1>2, EntriesAssumption DEF Armed

\* The timeout of an entry that is linked is not zero, and an entry is linked
\* if its timeout is not zero.
LEMMA LinkedTimeout ==
  ASSUME TypeOK, OffTheTick, NEW r, RingsInv(r), CountInv(r), NEW t \in Threads
  PROVE  Timeout[t] # 0 <=> t \in Armed(AbsoluteHead) \cup Armed(RelativeHead)
<1>1. CASE t \in Armed(AbsoluteHead)
  BY <1>1, ArmedAsked DEF CountInv
<1>2. CASE t \in Armed(RelativeHead)
  <2>1. Asked[t] \in Values /\ Asked[t] \in Int
    BY <1>2, ArmedAsked
  <2>2. PICK n : n = Beats(t, r[RelativeHead])
    OBVIOUS
  <2>3. n \in Nat /\ Timeout[t] = -Asked[t] - n * KeMaximumIncrement
    BY <1>2, <2>2 DEF CountInv
  <2>4. Asked[t] + n * KeMaximumIncrement # 0
    BY <2>1, <2>3 DEF OffTheTick
  <2>5. n * KeMaximumIncrement \in Int
    BY <2>3, TimesAssumption
  <2>6. Timeout[t] # 0
    <3>1. PICK m \in Int : m = n * KeMaximumIncrement
      BY <2>5
    <3> QED BY <2>1, <2>3, <2>4, <3>1
  <2> QED BY <1>2, <2>6
<1>3. CASE t \notin Armed(AbsoluteHead) \cup Armed(RelativeHead)
  BY <1>3 DEF CountInv
<1> QED BY <1>1, <1>2, <1>3

\* Products keep the order of their factors.
LEMMA ProductsAgree ==
  ASSUME NEW a \in Int, NEW b \in Int, NEW k \in Nat, a <= b
  PROVE  a * k <= b * k
<1>1. (b - a) * k >= 0
  <2>1. b - a \in Nat
    OBVIOUS
  <2>2. \A x \in Nat : x * k >= 0
    OBVIOUS
  <2> QED BY <2>1, <2>2
<1>2. (b - a) * k = b * k - a * k
  OBVIOUS
<1>3. a * k \in Int /\ b * k \in Int
  OBVIOUS
<1> QED BY <1>1, <1>2, <1>3

\* There are more ticks than any timeout lasts.
LEMMA TicksSuffice ==
  ASSUME TypeOK, OffTheTick, NEW r, RingsInv(r), CountInv(r),
         NEW t \in Threads, t \in Armed(RelativeHead)
  PROVE  Beats(t, r[RelativeHead]) < MaxElapsed - 2
<1>1. Asked[t] \in Values /\ Asked[t] \in Int
  BY ArmedAsked
<1>2. PICK n : n = Beats(t, r[RelativeHead])
  OBVIOUS
<1>3. n \in Nat /\ Timeout[t] \in Nat /\ Timeout[t] = -Asked[t] - n * KeMaximumIncrement
  BY <1>2 DEF CountInv
<1>4. (MaxElapsed - 2) * KeMaximumIncrement > -Asked[t]
  BY <1>1, TimesAssumption
<1>5. /\ KeMaximumIncrement \in Nat /\ MaxElapsed - 2 \in Int
      /\ n * KeMaximumIncrement \in Int /\ (MaxElapsed - 2) * KeMaximumIncrement \in Int
  BY <1>3, TimesAssumption
<1>6. n * KeMaximumIncrement <= -Asked[t]
  <2>1. PICK m \in Int : m = n * KeMaximumIncrement
    BY <1>5
  <2> QED BY <1>1, <1>3, <2>1
<1>7. SUFFICES ASSUME MaxElapsed - 2 <= n PROVE FALSE
  BY <1>2, <1>3, <1>5
<1>8. (MaxElapsed - 2) * KeMaximumIncrement <= n * KeMaximumIncrement
  BY <1>3, <1>5, <1>7, ProductsAgree
<1> QED BY <1>1, <1>4, <1>5, <1>6, <1>8
-----------------------------------------------------------------------------
(***************************************************************************)
(* The steps.                                                              *)
(***************************************************************************)

\* At the start both rings are empty.
LEMMA InitialRings ==
  ASSUME Init
  PROVE  TInv
<1>1. PICK r : r = [head \in Heads |-> <<>>]
  OBVIOUS
<1>2. TypeOK
  BY EntriesAssumption DEF Init, TypeOK
<1>3. \A head \in Heads : Armed(head) = {}
  BY DEF Init, Armed
<1>4. ASSUME NEW head \in Heads PROVE Ring(Links, head, r[head]) /\ ToSet(r[head]) = Armed(head)
  <2>1. r[head] = <<>> /\ <<>> \in Seq(Threads) /\ Len(<<>>) = 0
    BY <1>1
  <2>2. IsInjective(<<>>) /\ ToSet(<<>>) = {}
    BY DEF IsInjective, ToSet
  <2>3. head \in Entries /\ Links.Next[head] = head /\ Links.Prev[head] = head
    BY DEF Init, Entries
  <2>4. \A i \in 0 .. 1 : Node(head, <<>>, i) = head
    BY <2>1 DEF Node
  <2>5. \A i \in 0 .. 0 : i + 1 \in 0 .. 1 /\ i \in 0 .. 1
    OBVIOUS
  <2>6. Ring(Links, head, <<>>)
    BY <2>1, <2>2, <2>3, <2>4, <2>5 DEF Ring
  <2> QED BY <1>3, <2>1, <2>2, <2>6
<1>5. RingsInv(r)
  BY <1>1, <1>4 DEF RingsInv, Init
<1>6. AbsoluteHead \in Heads /\ RelativeHead \in Heads
  BY DEF Heads
<1>7. CountInv(r)
  BY <1>3, <1>6 DEF CountInv, Init
<1> QED BY <1>2, <1>5, <1>7 DEF TInv

\* Nobody sleeps with two kinds of timeout.
LEMMA ArmedOnce ==
  ASSUME NEW head \in Heads, NEW other \in Heads, other # head
  PROVE  Armed(head) \cap Armed(other) = {}
BY EntriesAssumption DEF Armed, Heads

\* The i-th entry has left the ring of head, and its thread sleeps no more.
WaitEnded(r, head, i) ==
  /\ Links' \in LinksType
  /\ \A k \in Heads : Armed(k)' = Armed(k) \ {r[head][i]}
  /\ Without(r[head], i) \in Seq(Threads)
  /\ Ring(Links', head, Without(r[head], i))
  /\ ToSet(Without(r[head], i)) = Armed(head)'
  /\ \A k \in Heads \ {head} : Ring(Links', k, r[k]) /\ ToSet(r[k]) = Armed(k)'

\* A wait that ends leaves its list, whether its entry is unlinked once or twice.
LEMMA EndOfWait ==
  ASSUME TypeOK, NEW r, RingsInv(r), NEW t \in Threads, NEW head \in Heads,
         NEW i \in 1 .. Len(r[head]), t = r[head][i],
         ThreadState' = [ThreadState EXCEPT ![t] = "AWAKE"], Asked' = Asked,
         \/ Links' = RemoveEntryList(Links, t)
         \/ Links' = RemoveEntryList(RemoveEntryList(Links, t), t)
  PROVE  WaitEnded(r, head, i)
<1>0. PICK q, new : /\ q = [r EXCEPT ![head] = Without(r[head], i)]
                    /\ new = RemoveEntryList(Links, t)
  OBVIOUS
<1>1. /\ Links \in LinksType /\ Ring(Links, head, r[head])
      /\ r \in [Heads -> Seq(Threads)] /\ r[head] \in Seq(Threads) /\ IsInjective(r[head])
      /\ ToSet(r[head]) = Armed(head)
  BY DEF TypeOK, LinksType, RingsInv, Ring
<1>2. t \in ToSet(r[head])
  BY <1>1 DEF ToSet
<1>3. /\ new \in LinksType /\ RemoveEntryList(new, t) = new
      /\ Ring(new, head, Without(r[head], i))
      /\ \A e \in Entries : e \notin ToSet(r[head]) \cup {head} =>
           new.Next[e] = Links.Next[e] /\ new.Prev[e] = Links.Prev[e]
  BY <1>0, <1>1, RemoveFromRing
<1>4. /\ Without(r[head], i) \in Seq(Threads)
      /\ ToSet(Without(r[head], i)) = Armed(head) \ {t}
  BY <1>1, WithoutProperties
<1>6. q \in [Heads -> Seq(Threads)]
  BY <1>0, <1>1, <1>4
<1>7. ASSUME NEW k \in Heads, k # head
      PROVE  Ring(new, k, q[k]) /\ ToSet(q[k]) = Armed(k) \ {t}
  <2>1. q[k] = r[k] /\ Ring(Links, k, r[k]) /\ ToSet(r[k]) = Armed(k)
    BY <1>0, <1>1, <1>7 DEF RingsInv
  <2>2. Armed(head) \cap Armed(k) = {}
    BY <1>7, ArmedOnce
  <2>3. \A e \in ToSet(r[k]) \cup {k} : e \in Entries /\ e \notin ToSet(r[head]) \cup {head}
    <3>1. Armed(k) \subseteq Threads /\ Armed(head) \subseteq Threads
      BY DEF Armed
    <3> QED BY <1>1, <1>7, <2>1, <2>2, <3>1, EntriesAssumption DEF Entries
  <2>4. Ring(new, k, r[k])
    BY <1>3, <2>1, <2>3, RingElsewhere
  <2> QED BY <1>1, <1>2, <2>1, <2>2, <2>4
<1>8. q[head] = Without(r[head], i) /\ \A k \in Heads \ {head} : q[k] = r[k]
  BY <1>0, <1>1
<1>9. \A k \in Heads : Ring(new, k, q[k]) /\ ToSet(q[k]) = Armed(k) \ {t}
  BY <1>1, <1>3, <1>4, <1>7, <1>8
<1>10. Links' = new
  BY <1>0, <1>3
<1>11. \A k \in Heads : Armed(k)' = Armed(k) \ {t}
  <2>1. ThreadState \in [Threads -> {"AWAKE", "WAITING"}]
    BY DEF TypeOK
  <2>2. \A u \in Threads : ThreadState'[u] = IF u = t THEN "AWAKE" ELSE ThreadState[u]
    BY <2>1
  <2> QED BY <2>2 DEF Armed
<1> QED BY <1>3, <1>4, <1>8, <1>9, <1>10, <1>11 DEF WaitEnded

\* A thread that goes to sleep is linked if it asked for a timeout.
LEMMA WaitStep ==
  ASSUME TInv, OffTheTick, NEW t \in Threads, NEW p \in Values \cup {NULL}, Wait(t, p)
  PROVE  TInv'
<1>1. PICK r : RingsInv(r) /\ CountInv(r)
  BY DEF TInv
<1>2. TypeOK
  BY DEF TInv
<1>3. AbsoluteHead \in Heads /\ RelativeHead \in Heads /\ AbsoluteHead # RelativeHead
      /\ \A head \in Heads : head = AbsoluteHead \/ head = RelativeHead
  BY EntriesAssumption DEF Heads
<1>4. p # NULL => p \in Int /\ p # 0
  <2> SUFFICES ASSUME p # NULL PROVE p \in Int /\ p # 0
    OBVIOUS
  <2>1. p \in Int /\ p + 0 * KeMaximumIncrement # 0
    BY TimesAssumption DEF OffTheTick
  <2> QED BY <2>1, TimesAssumption
<1>5. p # 0
  BY <1>4, EntriesAssumption
<1>5a. /\ Tick = NULL /\ Tick' = NULL /\ ThreadState[t] = "AWAKE"
       /\ ThreadState' = [ThreadState EXCEPT ![t] = "WAITING"]
       /\ KiHandleObjectWaitTimeout(t, p, Links, Timeout[t])
       /\ Asked' = [Asked EXCEPT ![t] = p]
       /\ Elapsed' = [Elapsed EXCEPT ![t] = 0]
  BY <1>4, EntriesAssumption DEF Wait
<1>6. /\ \A u \in Threads : Asked'[u] = IF u = t THEN p ELSE Asked[u]
      /\ \A u \in Threads : ThreadState'[u] = IF u = t THEN "WAITING" ELSE ThreadState[u]
      /\ \A u \in Threads : Elapsed'[u] = IF u = t THEN 0 ELSE Elapsed[u]
  BY <1>2, <1>5a DEF TypeOK
<1>7. t \notin Armed(AbsoluteHead) /\ t \notin Armed(RelativeHead)
  BY <1>5a DEF Armed
<1>8. Timeout[t] = 0 /\ Disarmed(t, Links, Timeout[t]) = Links
  BY <1>1, <1>2, <1>7, LinkedTimeout DEF Disarmed
<1>9. \A head \in Heads :
        Armed(head)' = Armed(head) \cup {x \in {t} : p # NULL /\ (p < 0) = (head = RelativeHead)}
  BY <1>3, <1>6, <1>7 DEF Armed
<1>10. /\ ThreadState' \in [Threads -> {"AWAKE", "WAITING"}]
       /\ Asked' \in [Threads -> Values \cup {NULL}] /\ Elapsed' \in [Threads -> Nat]
       /\ Tick' = NULL
  BY <1>2, <1>5a DEF TypeOK
<1>11. Links \in LinksType
  BY <1>2 DEF TypeOK, LinksType
<1>12. \A u, s : ~Due(u, s) /\ ~Due(u, s)'
  BY <1>5a DEF Due
<1>13. CASE p = NULL
  <2>1. Timeout' = [Timeout EXCEPT ![t] = 0] /\ Links' = Links
    BY <1>5a, <1>8, <1>13 DEF KiHandleObjectWaitTimeout
  <2>2. TypeOK'
    BY <1>2, <1>10, <2>1 DEF TypeOK
  <2>3. \A head \in Heads : Armed(head)' = Armed(head)
    BY <1>9, <1>13
  <2>4. RingsInv(r)'
    BY <1>1, <1>5a, <2>1, <2>3 DEF RingsInv
  <2>5. \A u \in Threads : Timeout'[u] = Timeout[u]
    BY <1>2, <1>8, <2>1 DEF TypeOK
  <2>6. CountInv(r)'
    BY <1>1, <1>3, <1>6, <1>7, <1>12, <2>3, <2>5 DEF CountInv, Beats
  <2> QED BY <2>2, <2>4, <2>6 DEF TInv
<1>14. CASE p # NULL
  <2>1. PICK head : head = IF p < 0 THEN RelativeHead ELSE AbsoluteHead
    OBVIOUS
  <2>2. /\ Timeout' = [Timeout EXCEPT ![t] = IF p < 0 THEN -p ELSE p]
        /\ Links' = InsertTailList(Links, head, t)
    BY <1>5a, <1>8, <1>14, <2>1 DEF KiHandleObjectWaitTimeout
  <2>3. PICK q : q = [r EXCEPT ![head] = Append(r[head], t)]
    OBVIOUS
  <2>4. head \in Heads /\ r \in [Heads -> Seq(Threads)] /\ Ring(Links, head, r[head])
        /\ ToSet(r[head]) = Armed(head) /\ IsInjective(r[head]) /\ r[head] \in Seq(Threads)
    BY <1>1, <1>3, <2>1 DEF RingsInv, Ring
  <2>5. t \notin ToSet(r[head])
    BY <1>3, <1>7, <2>4
  <2>6. /\ Links' \in LinksType /\ Ring(Links', head, Append(r[head], t))
        /\ \A e \in Entries : e \notin ToSet(r[head]) \cup {head, t} =>
             Links'.Next[e] = Links.Next[e] /\ Links'.Prev[e] = Links.Prev[e]
    BY <1>11, <2>2, <2>4, <2>5, InsertInRing
  <2>7. /\ Append(r[head], t) \in Seq(Threads)
        /\ ToSet(Append(r[head], t)) = ToSet(r[head]) \cup {t}
    BY <2>4, <2>5, AppendNew
  <2>8. Armed(head)' = Armed(head) \cup {t}
    BY <1>3, <1>9, <1>14, <2>1, <2>4
  <2>9. \A k \in Heads \ {head} : Armed(k)' = Armed(k)
    BY <1>3, <1>9, <2>1
  <2>10. ASSUME NEW k \in Heads \ {head}
         PROVE  Ring(Links', k, r[k]) /\ ToSet(r[k]) = Armed(k)'
    <3>1. Ring(Links, k, r[k]) /\ ToSet(r[k]) = Armed(k)
      BY <1>1 DEF RingsInv
    <3>2. Armed(head) \cap Armed(k) = {}
      BY <2>4, <2>10, ArmedOnce
    <3>3. t \notin Armed(k) /\ Armed(k) \subseteq Threads /\ Armed(head) \subseteq Threads
      BY <1>3, <1>7 DEF Armed
    <3>4. \A e \in ToSet(r[k]) \cup {k} : e \in Entries /\ e \notin ToSet(r[head]) \cup {head, t}
      BY <2>4, <2>10, <3>1, <3>2, <3>3, EntriesAssumption DEF Entries
    <3>5. Ring(Links', k, r[k])
      BY <2>6, <3>1, <3>4, RingElsewhere
    <3> QED BY <2>9, <3>1, <3>5
  <2>11. q \in [Heads -> Seq(Threads)] /\ q[head] = Append(r[head], t)
         /\ \A k \in Heads \ {head} : q[k] = r[k]
    BY <2>3, <2>4, <2>7
  <2>12. RingsInv(q)'
    <3>1. \A k \in Heads : Ring(Links', k, q[k]) /\ ToSet(q[k]) = Armed(k)'
      BY <2>4, <2>6, <2>7, <2>8, <2>10, <2>11
    <3> QED BY <1>5a, <2>11, <3>1 DEF RingsInv
  <2>13. \A u \in Threads : Timeout'[u] = IF u = t THEN IF p < 0 THEN -p ELSE p ELSE Timeout[u]
    BY <1>2, <2>2 DEF TypeOK
  <2>14. TypeOK'
    <3>1. Timeout' \in [Threads -> Int]
      BY <1>2, <1>4, <1>14, <2>2 DEF TypeOK
    <3> QED BY <1>10, <2>6, <3>1 DEF TypeOK, LinksType
  <2>15. ASSUME NEW u \in Threads
         PROVE  /\ u \notin (Armed(AbsoluteHead) \cup Armed(RelativeHead))' => Timeout'[u] = 0
                /\ u \in Armed(AbsoluteHead)' => Timeout'[u] = Asked'[u]
                /\ u \in Armed(RelativeHead)' =>
                     /\ Beats(u, q[RelativeHead])' \in Nat /\ Timeout'[u] \in Nat
                     /\ Timeout'[u] = -Asked'[u] - Beats(u, q[RelativeHead])' * KeMaximumIncrement
    <3>1. CASE u # t
      <4>1. /\ Timeout'[u] = Timeout[u] /\ Asked'[u] = Asked[u] /\ Elapsed'[u] = Elapsed[u]
            /\ \A k \in Heads : u \in Armed(k)' <=> u \in Armed(k)
        BY <1>3, <1>6, <1>9, <2>13, <3>1
      <4>2. Beats(u, q[RelativeHead])' = Beats(u, r[RelativeHead])
        BY <1>12, <4>1 DEF Beats
      <4> QED BY <1>1, <1>3, <4>1, <4>2 DEF CountInv
    <3>2. CASE u = t
      <4>1. Timeout'[t] = (IF p < 0 THEN -p ELSE p) /\ Asked'[t] = p /\ Elapsed'[t] = 0
        BY <1>6, <2>13
      <4>2. Beats(t, q[RelativeHead])' = 0
        <5>1. Tick' = NULL /\ Elapsed'[t] = 0
          BY <1>5a, <4>1
        <5> QED BY <5>1 DEF Beats, Due
      <4>3. 0 * KeMaximumIncrement = 0
        BY TimesAssumption
      <4>4. t \in Armed(head)' /\ \A k \in Heads \ {head} : t \notin Armed(k)'
        BY <1>3, <1>7, <2>8, <2>9
      <4>5. CASE p < 0
        <5>1. t \in Armed(RelativeHead)' /\ t \notin Armed(AbsoluteHead)'
          BY <1>3, <2>1, <4>4, <4>5
        <5>2. -p \in Nat
          BY <1>4, <1>14, <4>5
        <5>3. -p = -p - 0 * KeMaximumIncrement
          BY <1>4, <1>14, <4>3
        <5> QED BY <3>2, <4>1, <4>2, <4>5, <5>1, <5>2, <5>3
      <4>6. CASE ~(p < 0)
        <5>1. t \in Armed(AbsoluteHead)' /\ t \notin Armed(RelativeHead)'
          BY <1>3, <2>1, <4>4, <4>6
        <5> QED BY <3>2, <4>1, <4>6, <5>1
      <4> QED BY <4>5, <4>6
    <3> QED BY <3>1, <3>2
  <2>16. CountInv(q)'
    BY <2>15 DEF CountInv
  <2> QED BY <2>12, <2>14, <2>16 DEF TInv
<1> QED BY <1>13, <1>14
\* When the cursor of a tick moves on from an entry, that one is not due any
\* more and the others are due as they were.
LEMMA CursorMoves ==
  ASSUME Tick \in TickRecords, Tick.head = RelativeHead,
         NEW s \in Seq(Threads), IsInjective(s), NEW i \in 1 .. Len(s),
         Tick.current = s[i],
         Tick' = [Tick EXCEPT !.current = Node(RelativeHead, s, i + 1)]
  PROVE  /\ Tick.boot => Due(s[i], s)
         /\ ~Due(s[i], s)'
         /\ \A u \in Threads \ {s[i]} :
              (Due(u, s)' <=> Due(u, s)) /\ (Due(u, Without(s, i))' <=> Due(u, s))
<1>1. Len(s) \in Nat /\ \A j \in 1 .. Len(s) : s[j] \in Threads /\ s[j] # RelativeHead
  BY EntriesAssumption DEF Heads
<1>2. \A j, k \in 1 .. Len(s) : s[j] = s[k] => j = k
  BY DEF IsInjective
<1>3. Tick # NULL /\ Tick.head # AbsoluteHead
  BY EntriesAssumption
<1>4. Node(RelativeHead, s, i + 1) = IF i < Len(s) THEN s[i + 1] ELSE RelativeHead
  BY <1>1 DEF Node
<1>5. PICK c : c = Node(RelativeHead, s, i + 1)
  OBVIOUS
<1>6. Tick' \in TickRecords /\ Tick'.boot = Tick.boot /\ Tick'.head = RelativeHead
      /\ Tick'.current = c
  <2>1. c \in Entries
    BY <1>1, <1>4, <1>5 DEF Entries, Heads
  <2> QED BY <1>5, <2>1 DEF TickRecords
<1>7. Tick' # NULL /\ Tick'.head # AbsoluteHead
  BY <1>6, EntriesAssumption
<1>8. PICK w : w = Without(s, i)
  OBVIOUS
<1>9. /\ Len(w) = Len(s) - 1
      /\ \A j \in 1 .. Len(s) - 1 : w[j] = IF j < i THEN s[j] ELSE s[j + 1]
  BY <1>8, WithoutProperties DEF Without
<1>10. \A u : Due(u, s) <=> Tick.boot /\ \E j \in i .. Len(s) : s[j] = u
  <2>1. ASSUME NEW u, Due(u, s) PROVE Tick.boot /\ \E j \in i .. Len(s) : s[j] = u
    <3>1. PICK k, j \in 1 .. Len(s) : Tick.current = s[k] /\ s[j] = u /\ k <= j
      BY <1>3, <2>1 DEF Due
    <3>2. k = i
      BY <1>2, <3>1
    <3>3. j \in i .. Len(s)
      BY <1>1, <3>1, <3>2
    <3> QED BY <2>1, <3>1, <3>3 DEF Due
  <2>2. ASSUME NEW u, Tick.boot, NEW j \in i .. Len(s), s[j] = u PROVE Due(u, s)
    <3>1. j \in 1 .. Len(s) /\ i <= j
      BY <1>1
    <3> QED BY <1>3, <2>2, <3>1 DEF Due
  <2> QED BY <2>1, <2>2
<1>11. \A u : Due(u, s)' <=> Tick.boot /\ \E j \in i + 1 .. Len(s) : s[j] = u
  <2>1. ASSUME NEW u, Due(u, s)' PROVE Tick.boot /\ \E j \in i + 1 .. Len(s) : s[j] = u
    <3>1. PICK k, j \in 1 .. Len(s) : c = s[k] /\ s[j] = u /\ k <= j
      BY <1>6, <1>7, <2>1 DEF Due
    <3>2. i < Len(s) /\ c = s[i + 1]
      <4>1. s[k] # RelativeHead /\ c = s[k]
        BY <1>1, <3>1
      <4>2. c = IF i < Len(s) THEN s[i + 1] ELSE RelativeHead
        BY <1>4, <1>5
      <4> QED BY <4>1, <4>2
    <3>3. k = i + 1
      <4>1. i + 1 \in 1 .. Len(s) /\ s[k] = s[i + 1]
        BY <1>1, <3>1, <3>2
      <4> QED BY <1>2, <4>1
    <3>4. j \in i + 1 .. Len(s)
      BY <1>1, <3>1, <3>3
    <3> QED BY <1>6, <2>1, <3>1, <3>4 DEF Due
  <2>2. ASSUME NEW u, Tick.boot, NEW j \in i + 1 .. Len(s), s[j] = u PROVE Due(u, s)'
    <3>1. j \in 1 .. Len(s) /\ i + 1 \in 1 .. Len(s) /\ i + 1 <= j /\ i < Len(s)
      BY <1>1
    <3>2. c = s[i + 1]
      BY <1>4, <1>5, <3>1
    <3> QED BY <1>6, <1>7, <2>2, <3>1, <3>2 DEF Due
  <2> QED BY <2>1, <2>2
<1>12. \A u \in Threads \ {s[i]} :
         Due(u, w)' <=> Tick.boot /\ \E j \in i .. Len(s) : s[j] = u
  <2>1. ASSUME NEW u \in Threads \ {s[i]}, Due(u, w)'
        PROVE  Tick.boot /\ \E j \in i .. Len(s) : s[j] = u
    <3>1. PICK k, j \in 1 .. Len(w) : c = w[k] /\ w[j] = u /\ k <= j
      BY <1>6, <1>7, <2>1 DEF Due
    <3>2. k \in 1 .. Len(s) - 1 /\ j \in 1 .. Len(s) - 1
      BY <1>9, <3>1
    <3>3. w[k] = s[IF k < i THEN k ELSE k + 1]
      BY <1>9, <3>2
    <3>4. i < Len(s) /\ c = s[i + 1]
      BY <1>1, <1>4, <1>5, <3>1, <3>2, <3>3
    <3>5. k >= i
      BY <1>1, <1>2, <3>1, <3>2, <3>3, <3>4, SMTT(30)
    <3>6. j + 1 \in i .. Len(s) /\ w[j] = s[j + 1]
      BY <1>1, <1>9, <3>1, <3>2, <3>5
    <3> QED BY <1>6, <2>1, <3>1, <3>6 DEF Due
  <2>2. ASSUME NEW u \in Threads \ {s[i]}, Tick.boot, NEW j \in i .. Len(s), s[j] = u
        PROVE  Due(u, w)'
    <3>1. j # i /\ j - 1 \in 1 .. Len(w) /\ i \in 1 .. Len(w) /\ i <= j - 1 /\ i < Len(s)
      BY <1>1, <1>9, <2>2
    <3>2. w[j - 1] = s[j] /\ w[i] = s[i + 1]
      BY <1>1, <1>9, <3>1
    <3>3. c = w[i]
      BY <1>4, <1>5, <3>1, <3>2
    <3> QED BY <1>6, <1>7, <2>2, <3>1, <3>2, <3>3 DEF Due
  <2> QED BY <2>1, <2>2
<1>13. \A u \in Threads \ {s[i]} :
         (\E j \in i .. Len(s) : s[j] = u) <=> (\E j \in i + 1 .. Len(s) : s[j] = u)
  BY <1>1
<1>14. ~ \E j \in i + 1 .. Len(s) : s[j] = s[i]
  BY <1>1, <1>2
<1>15. \E j \in i .. Len(s) : s[j] = s[i]
  BY <1>1
<1> QED BY <1>8, <1>10, <1>11, <1>12, <1>13, <1>14, <1>15

\* A wait that is ended by a signal.
LEMMA UnwaitStep ==
  ASSUME TInv, OffTheTick, NEW t \in Threads, Unwait(t)
  PROVE  TInv'
<1>1. PICK r : RingsInv(r) /\ CountInv(r)
  BY DEF TInv
<1>2. TypeOK
  BY DEF TInv
<1>3. /\ Tick = NULL /\ Tick' = NULL /\ Asked' = Asked /\ Elapsed' = Elapsed
      /\ ThreadState' = [ThreadState EXCEPT ![t] = "AWAKE"]
      /\ Timeout' = [Timeout EXCEPT ![t] = 0]
      /\ Links' = IF Timeout[t] # 0 THEN RemoveEntryList(Links, t) ELSE Links
  BY DEF Unwait, KiHandleObjectWaitTimeout, Disarmed
<1>4. /\ ThreadState' \in [Threads -> {"AWAKE", "WAITING"}]
      /\ Timeout' \in [Threads -> Int]
      /\ Tick' = NULL
      /\ Asked' \in [Threads -> Values \cup {NULL}] /\ Elapsed' \in [Threads -> Nat]
  BY <1>2, <1>3 DEF TypeOK
<1>5. \A u \in Threads : Timeout'[u] = IF u = t THEN 0 ELSE Timeout[u]
  BY <1>2, <1>3 DEF TypeOK
<1>6. AbsoluteHead \in Heads /\ RelativeHead \in Heads
  BY DEF Heads
<1>7. \A u, s : Beats(u, s) = Elapsed[u] - 0 /\ Beats(u, s)' = Elapsed[u] - 0
  BY <1>3 DEF Beats, Due
<1>8. CASE t \in Armed(AbsoluteHead) \cup Armed(RelativeHead)
  <2>1. PICK head \in Heads : t \in Armed(head)
    BY <1>6, <1>8
  <2>2. Timeout[t] # 0
    BY <1>1, <1>2, <1>8, LinkedTimeout
  <2>3. Links' = RemoveEntryList(Links, t)
    BY <1>3, <2>2
  <2>4. PICK i \in 1 .. Len(r[head]) : t = r[head][i]
    BY <1>1, <2>1 DEF RingsInv, ToSet
  <2>5. /\ Links' \in LinksType
        /\ \A k \in Heads : Armed(k)' = Armed(k) \ {t}
        /\ Without(r[head], i) \in Seq(Threads)
        /\ Ring(Links', head, Without(r[head], i))
        /\ ToSet(Without(r[head], i)) = Armed(head)'
        /\ \A k \in Heads \ {head} : Ring(Links', k, r[k]) /\ ToSet(r[k]) = Armed(k)'
    <3>1. WaitEnded(r, head, i)
      BY <1>1, <1>2, <1>3, <2>3, <2>4, EndOfWait
    <3> QED BY <2>4, <3>1 DEF WaitEnded
  <2>6. PICK q \in [Heads -> Seq(Threads)] :
          \A k \in Heads : Ring(Links', k, q[k]) /\ ToSet(q[k]) = Armed(k)'
    <3>1. r \in [Heads -> Seq(Threads)]
      BY <1>1 DEF RingsInv
    <3>2. PICK q : q = [r EXCEPT ![head] = Without(r[head], i)]
      OBVIOUS
    <3>3. q \in [Heads -> Seq(Threads)] /\ q[head] = Without(r[head], i)
          /\ \A k \in Heads \ {head} : q[k] = r[k]
      BY <2>5, <3>1, <3>2
    <3> QED BY <2>5, <3>3
  <2>7. RingsInv(q)'
    BY <1>3, <2>6 DEF RingsInv
  <2>8. CountInv(q)'
    BY <1>1, <1>3, <1>5, <1>6, <1>7, <2>5 DEF CountInv
  <2>9. TypeOK'
    BY <1>4, <2>5 DEF TypeOK, LinksType
  <2> QED BY <2>7, <2>8, <2>9 DEF TInv
<1>9. CASE t \notin Armed(AbsoluteHead) \cup Armed(RelativeHead)
  <2>1. Timeout[t] = 0
    BY <1>1, <1>2, <1>9, LinkedTimeout
  <2>2. Links' = Links
    BY <1>3, <2>1
  <2>3. \A u \in Threads : ThreadState'[u] = IF u = t THEN "AWAKE" ELSE ThreadState[u]
    BY <1>2, <1>3 DEF TypeOK
  <2>4. \A k \in Heads : t \notin Armed(k)
    BY <1>9 DEF Heads
  <2>5. \A k \in Heads : Armed(k)' = Armed(k)
    BY <1>3, <2>3, <2>4 DEF Armed
  <2>6. RingsInv(r)'
    BY <1>1, <1>3, <2>2, <2>5 DEF RingsInv
  <2>7. CountInv(r)'
    BY <1>1, <1>3, <1>5, <1>6, <1>7, <2>4, <2>5 DEF CountInv
  <2>8. TypeOK'
    BY <1>2, <1>4, <2>2 DEF TypeOK
  <2> QED BY <2>6, <2>7, <2>8 DEF TInv
<1> QED BY <1>8, <1>9

\* A tick that begins owes a count to everyone in a relative wait, if it is
\* one of processor 0.
LEMMA ClockStep ==
  ASSUME TInv, OffTheTick, NEW boot \in BOOLEAN, NEW time \in Times, KiClockTick(boot, time)
  PROVE  TInv'
<1>1. PICK r : RingsInv(r) /\ CountInv(r)
  BY DEF TInv
<1>2. TypeOK
  BY DEF TInv
<1>3. AbsoluteHead \in Heads /\ RelativeHead \in Heads
  BY DEF Heads
<1>4. /\ Tick = NULL /\ ThreadState' = ThreadState /\ Timeout' = Timeout
      /\ Links' = Links /\ Asked' = Asked
      /\ Tick' = [boot |-> boot, time |-> time, head |-> AbsoluteHead,
                  current |-> Links.Next[AbsoluteHead]]
      /\ Elapsed' = [t \in Threads |->
                       IF boot /\ WaitsRelative(t) /\ Elapsed[t] < MaxElapsed
                       THEN Elapsed[t] + 1 ELSE Elapsed[t]]
  BY DEF KiClockTick
<1>5. PICK s : s = r[AbsoluteHead]
  OBVIOUS
<1>6. s \in Seq(Threads) /\ IsInjective(s) /\ Ring(Links, AbsoluteHead, s) /\ Len(s) \in Nat
  BY <1>1, <1>3, <1>5 DEF RingsInv, Ring
<1>7. Links.Next[AbsoluteHead] = Node(AbsoluteHead, s, 1)
  <2>1. 0 \in 0 .. Len(s) /\ Node(AbsoluteHead, s, 0) = AbsoluteHead
    BY <1>6 DEF Node
  <2>2. Links.Next[Node(AbsoluteHead, s, 0)] = Node(AbsoluteHead, s, 0 + 1)
    BY <1>6, <2>1 DEF Ring
  <2> QED BY <2>1, <2>2
<1>8. Links.Next[AbsoluteHead] \in ToSet(s) \cup {AbsoluteHead}
      /\ Links.Next[AbsoluteHead] \in Entries
  BY <1>3, <1>6, <1>7, NodesDiffer
<1>9. Tick' \in TickRecords /\ Tick' # NULL
  BY <1>3, <1>4, <1>8, EntriesAssumption DEF TickRecords
<1>10. Elapsed' \in [Threads -> Nat]
  BY <1>2, <1>4 DEF TypeOK
<1>11. TypeOK'
  BY <1>2, <1>4, <1>9, <1>10 DEF TypeOK
<1>12. \A head \in Heads : Armed(head)' = Armed(head)
  BY <1>4 DEF Armed
<1>13. Tick'.head = AbsoluteHead /\ Tick'.current = Links.Next[AbsoluteHead] /\ Tick'.boot = boot
  BY <1>4
<1>14. RingsInv(r)'
  BY <1>1, <1>4, <1>5, <1>8, <1>12, <1>13 DEF RingsInv
<1>15. ASSUME NEW t \in Threads, t \in Armed(RelativeHead)
       PROVE  Beats(t, r[RelativeHead])' = Beats(t, r[RelativeHead])
  <2>1. Beats(t, r[RelativeHead]) = Elapsed[t] - 0
    BY <1>4 DEF Beats, Due
  <2>2. Elapsed[t] \in Nat
    BY <1>2 DEF TypeOK
  <2>3. Elapsed[t] < MaxElapsed - 2
    BY <1>1, <1>2, <1>15, <2>1, <2>2, TicksSuffice
  <2>4. WaitsRelative(t)
    BY <1>2, <1>15, ArmedAsked DEF WaitsRelative
  <2>5. Elapsed'[t] = IF boot THEN Elapsed[t] + 1 ELSE Elapsed[t]
    BY <1>4, <2>2, <2>3, <2>4, TimesAssumption
  <2>6. Due(t, r[RelativeHead])' <=> boot
    BY <1>9, <1>13 DEF Due
  <2>7. Beats(t, r[RelativeHead])' = Elapsed'[t] - (IF boot THEN 1 ELSE 0)
    BY <2>6 DEF Beats
  <2> QED BY <2>1, <2>2, <2>5, <2>7
<1>16. CountInv(r)'
  BY <1>1, <1>3, <1>4, <1>12, <1>15 DEF CountInv
<1> QED BY <1>11, <1>14, <1>16 DEF TInv

\* The entry that a tick has come to is on the list it goes through.
LEMMA CursorOnList ==
  ASSUME TypeOK, NEW r, RingsInv(r), NEW t \in Threads, Tick # NULL, Tick.current = t
  PROVE  /\ Tick \in TickRecords /\ Tick.head \in Heads
         /\ r[Tick.head] \in Seq(Threads) /\ IsInjective(r[Tick.head])
         /\ t \in Armed(Tick.head) /\ ThreadState[t] = "WAITING" /\ Asked[t] # NULL
         /\ \E i \in 1 .. Len(r[Tick.head]) :
              /\ t = r[Tick.head][i]
              /\ Links.Next[t] = Node(Tick.head, r[Tick.head], i + 1)
              /\ Links.Next[t] \in (ToSet(r[Tick.head]) \ {t}) \cup {Tick.head}
              /\ Links.Next[t] \in Entries
<1>1. PICK h, s : h = Tick.head /\ s = r[h]
  OBVIOUS
<1>2. Tick \in TickRecords /\ h \in Heads
  BY <1>1 DEF TypeOK, TickRecords
<1>3. /\ s \in Seq(Threads) /\ IsInjective(s) /\ Ring(Links, h, s)
      /\ ToSet(s) = Armed(h) /\ t \in ToSet(s) \cup {h} /\ Len(s) \in Nat
  BY <1>1, <1>2 DEF RingsInv, Ring
<1>4. t \in ToSet(s)
  BY <1>2, <1>3, EntriesAssumption
<1>5. PICK i \in 1 .. Len(s) : t = s[i]
  BY <1>4 DEF ToSet
<1>6. /\ \A j \in Int : Node(h, s, j) \in ToSet(s) \cup {h} /\ Node(h, s, j) \in Entries
      /\ \A j, k \in 1 .. Len(s) + 1 : Node(h, s, j) = Node(h, s, k) => j = k
  BY <1>2, <1>3, NodesDiffer
<1>7. t = Node(h, s, i)
  BY <1>5 DEF Node
<1>8. Links.Next[t] = Node(h, s, i + 1)
  <2>1. i \in 0 .. Len(s)
    BY <1>3
  <2> QED BY <1>3, <1>7, <2>1 DEF Ring
<1>9. Node(h, s, i + 1) # t
  <2>1. i \in 1 .. Len(s) + 1 /\ i + 1 \in 1 .. Len(s) + 1 /\ i # i + 1
    BY <1>3
  <2> QED BY <1>6, <1>7, <2>1
<1>10. i + 1 \in Int
  BY <1>3
<1>11. ThreadState[t] = "WAITING" /\ Asked[t] # NULL
  BY <1>3, <1>4 DEF Armed
<1> QED BY <1>1, <1>2, <1>3, <1>4, <1>5, <1>6, <1>8, <1>9, <1>10, <1>11

\* A tick that passes an entry has counted it, if it is to be counted.
LEMMA PassesStep ==
  ASSUME TInv, OffTheTick, NEW t \in Threads, Passes(t)
  PROVE  TInv'
<1>1. PICK r : RingsInv(r) /\ CountInv(r)
  BY DEF TInv
<1>2. TypeOK
  BY DEF TInv
<1>3. /\ Tick # NULL /\ Tick.current = t /\ ~Expires(Counted(t))
      /\ Timeout' = [Timeout EXCEPT ![t] = Counted(t)]
      /\ Tick' = [Tick EXCEPT !.current = Links.Next[t]]
      /\ ThreadState' = ThreadState /\ Links' = Links /\ Asked' = Asked
      /\ Elapsed' = Elapsed
  BY DEF Passes, Advance
<1>4. PICK h, s : h = Tick.head /\ s = r[h]
  OBVIOUS
<1>5. /\ Tick \in TickRecords /\ h \in Heads /\ s \in Seq(Threads) /\ IsInjective(s)
      /\ t \in Armed(h)
      /\ \E i \in 1 .. Len(s) :
           /\ t = s[i] /\ Links.Next[t] = Node(h, s, i + 1)
           /\ Links.Next[t] \in (ToSet(s) \ {t}) \cup {h} /\ Links.Next[t] \in Entries
  BY <1>1, <1>2, <1>3, <1>4, CursorOnList
<1>6. PICK i \in 1 .. Len(s) : t = s[i] /\ Links.Next[t] = Node(h, s, i + 1)
  BY <1>5
<1>7. Tick' \in TickRecords /\ Tick'.head = h /\ Tick'.current = Links.Next[t]
      /\ Tick'.boot = Tick.boot
  BY <1>3, <1>4, <1>5 DEF TickRecords
<1>8. AbsoluteHead \in Heads /\ RelativeHead \in Heads /\ AbsoluteHead # RelativeHead
      /\ (h = AbsoluteHead \/ h = RelativeHead) /\ Tick' # NULL
  BY <1>5, <1>7, EntriesAssumption DEF Heads
<1>9. Timeout \in [Threads -> Int] /\ KeMaximumIncrement \in Nat
  BY <1>2, TimesAssumption DEF TypeOK
<1>10. Counted(t) \in Int
  BY <1>9 DEF Counted
<1>11. TypeOK'
  BY <1>2, <1>3, <1>7, <1>10 DEF TypeOK
<1>12. \A k \in Heads : Armed(k)' = Armed(k)
  BY <1>3 DEF Armed
<1>13. RingsInv(r)'
  BY <1>1, <1>3, <1>4, <1>5, <1>7, <1>12 DEF RingsInv
<1>14. \A u \in Threads : Timeout'[u] = IF u = t THEN Counted(t) ELSE Timeout[u]
  BY <1>3, <1>9
<1>15. CASE h = AbsoluteHead
  <2>1. Counted(t) = Timeout[t]
    BY <1>4, <1>8, <1>15 DEF Counted
  <2>2. \A u \in Threads : Timeout'[u] = Timeout[u]
    BY <1>14, <2>1
  <2>3. \A u, w : Due(u, w)' <=> Due(u, w)
    BY <1>3, <1>4, <1>7, <1>8, <1>15 DEF Due
  <2>4. \A u, w : Beats(u, w)' = Beats(u, w)
    BY <1>3, <2>3 DEF Beats
  <2>5. CountInv(r)'
    BY <1>1, <1>3, <1>8, <1>12, <2>2, <2>4 DEF CountInv
  <2> QED BY <1>11, <1>13, <2>5 DEF TInv
<1>16. CASE h = RelativeHead
  <2>1. /\ Tick.boot => Due(t, s)
        /\ ~Due(t, s)'
        /\ \A u \in Threads \ {t} : Due(u, s)' <=> Due(u, s)
    BY <1>3, <1>4, <1>5, <1>6, <1>16, CursorMoves
  <2>2. ~Tick.boot => ~Due(t, s)
    BY DEF Due
  <2>3. Counted(t) = IF Tick.boot THEN Timeout[t] - KeMaximumIncrement ELSE Timeout[t]
    BY <1>4, <1>16 DEF Counted
  <2>4. Counted(t) >= 0
    BY <1>3, <1>4, <1>8, <1>10, <1>16 DEF Expires
  <2>5. t \in Armed(RelativeHead) /\ t \notin Armed(AbsoluteHead)
    BY <1>5, <1>8, <1>16, ArmedOnce
  <2>6. PICK n : n = Beats(t, s)
    OBVIOUS
  <2>7. n \in Nat /\ Timeout[t] = -Asked[t] - n * KeMaximumIncrement
        /\ Asked[t] \in Int
    BY <1>1, <1>2, <1>4, <1>16, <2>5, <2>6, ArmedAsked DEF CountInv
  <2>8. Elapsed[t] \in Nat
    BY <1>2 DEF TypeOK
  <2>9. Beats(t, s)' = IF Tick.boot THEN n + 1 ELSE n
    <3>1. Beats(t, s)' = Elapsed[t] - 0
      BY <1>3, <2>1 DEF Beats
    <3>2. n = Elapsed[t] - (IF Tick.boot THEN 1 ELSE 0)
      BY <2>1, <2>2, <2>6 DEF Beats
    <3> QED BY <2>8, <3>1, <3>2
  <2>10. Counted(t) = -Asked[t] - Beats(t, s)' * KeMaximumIncrement
    <3>1. (n + 1) * KeMaximumIncrement = n * KeMaximumIncrement + KeMaximumIncrement
          /\ n * KeMaximumIncrement \in Int
      BY <1>9, <2>7
    <3>2. CASE Tick.boot
      <4>1. Counted(t) = -Asked[t] - n * KeMaximumIncrement - KeMaximumIncrement
        BY <2>3, <2>7, <3>2
      <4>2. Beats(t, s)' * KeMaximumIncrement = n * KeMaximumIncrement + KeMaximumIncrement
        BY <2>9, <3>1, <3>2
      <4>3. PICK m \in Int : m = n * KeMaximumIncrement
        BY <3>1
      <4> QED BY <1>9, <2>7, <4>1, <4>2, <4>3
    <3>3. CASE ~Tick.boot
      BY <2>3, <2>7, <2>9, <3>3
    <3> QED BY <3>2, <3>3
  <2>11. Beats(t, s)' \in Nat /\ Counted(t) \in Nat
    BY <1>10, <2>4, <2>7, <2>9
  <2>12. ASSUME NEW u \in Threads
         PROVE  /\ u \notin (Armed(AbsoluteHead) \cup Armed(RelativeHead))' => Timeout'[u] = 0
                /\ u \in Armed(AbsoluteHead)' => Timeout'[u] = Asked'[u]
                /\ u \in Armed(RelativeHead)' =>
                     /\ Beats(u, s)' \in Nat /\ Timeout'[u] \in Nat
                     /\ Timeout'[u] = -Asked'[u] - Beats(u, s)' * KeMaximumIncrement
    <3>1. CASE u = t
      BY <1>3, <1>8, <1>12, <1>14, <2>5, <2>10, <2>11, <3>1
    <3>2. CASE u # t
      <4>1. Beats(u, s)' = Beats(u, s)
        BY <1>3, <2>1, <3>2 DEF Beats
      <4>2. Timeout'[u] = Timeout[u]
        BY <1>14, <3>2
      <4> QED BY <1>1, <1>3, <1>4, <1>8, <1>12, <1>16, <4>1, <4>2 DEF CountInv
    <3> QED BY <3>1, <3>2
  <2>13. CountInv(r)'
    BY <1>4, <1>16, <2>12 DEF CountInv
  <2> QED BY <1>11, <1>13, <2>13 DEF TInv
<1> QED BY <1>8, <1>15, <1>16

\* An entry that expires is unlinked, once or twice, and its thread woken.
LEMMA ExpireStep ==
  ASSUME TInv, OffTheTick, NEW t \in Threads, KiExpireTimeout(t)
  PROVE  TInv'
<1>1. PICK r : RingsInv(r) /\ CountInv(r)
  BY DEF TInv
<1>2. TypeOK
  BY DEF TInv
<1>3. Tick # NULL /\ Tick.current = t /\ Asked' = Asked /\ Elapsed' = Elapsed
  BY DEF KiExpireTimeout
<1>4. PICK h, s : h = Tick.head /\ s = r[h]
  OBVIOUS
<1>5. /\ Tick \in TickRecords /\ h \in Heads /\ s \in Seq(Threads) /\ IsInjective(s)
      /\ t \in Armed(h) /\ ThreadState[t] = "WAITING"
      /\ \E i \in 1 .. Len(s) :
           /\ t = s[i] /\ Links.Next[t] = Node(h, s, i + 1)
           /\ Links.Next[t] \in (ToSet(s) \ {t}) \cup {h} /\ Links.Next[t] \in Entries
  BY <1>1, <1>2, <1>3, <1>4, CursorOnList
<1>6. PICK i \in 1 .. Len(s) : t = s[i] /\ Links.Next[t] = Node(h, s, i + 1)
  BY <1>5
<1>7. /\ ThreadState' = [ThreadState EXCEPT ![t] = "AWAKE"]
      /\ Timeout' = [Timeout EXCEPT ![t] = 0]
      /\ \/ Links' = RemoveEntryList(Links, t)
         \/ Links' = RemoveEntryList(RemoveEntryList(Links, t), t)
      /\ Tick' = [Tick EXCEPT !.current = Links.Next[t]]
  BY <1>5 DEF KiExpireTimeout, KiHandleObjectWaitTimeout, Disarmed, Advance
<1>8. Tick' \in TickRecords /\ Tick'.head = h /\ Tick'.current = Links.Next[t]
      /\ Tick'.boot = Tick.boot
  BY <1>4, <1>5, <1>7 DEF TickRecords
<1>9. AbsoluteHead \in Heads /\ RelativeHead \in Heads /\ AbsoluteHead # RelativeHead
      /\ (h = AbsoluteHead \/ h = RelativeHead) /\ Tick' # NULL
  BY <1>5, <1>8, EntriesAssumption DEF Heads
<1>10. i \in 1 .. Len(r[h]) /\ t = r[h][i]
  BY <1>4, <1>6
<1>11. /\ Links' \in LinksType
       /\ \A k \in Heads : Armed(k)' = Armed(k) \ {t}
       /\ Without(r[h], i) \in Seq(Threads)
       /\ Ring(Links', h, Without(r[h], i))
       /\ ToSet(Without(r[h], i)) = Armed(h)'
       /\ \A k \in Heads \ {h} : Ring(Links', k, r[k]) /\ ToSet(r[k]) = Armed(k)'
  <2>1. WaitEnded(r, h, i)
    BY <1>1, <1>2, <1>3, <1>5, <1>7, <1>10, EndOfWait
  <2> QED BY <1>10, <2>1 DEF WaitEnded
<1>12. PICK q \in [Heads -> Seq(Threads)] :
         /\ q[h] = Without(s, i)
         /\ \A k \in Heads \ {h} : q[k] = r[k]
         /\ \A k \in Heads : Ring(Links', k, q[k]) /\ ToSet(q[k]) = Armed(k)'
  <2>1. r \in [Heads -> Seq(Threads)]
    BY <1>1 DEF RingsInv
  <2>2. PICK q : q = [r EXCEPT ![h] = Without(r[h], i)]
    OBVIOUS
  <2>3. q \in [Heads -> Seq(Threads)] /\ q[h] = Without(s, i)
        /\ \A k \in Heads \ {h} : q[k] = r[k]
    BY <1>4, <1>5, <1>11, <2>1, <2>2
  <2> QED BY <1>4, <1>11, <2>3
<1>13. TypeOK'
  <2>1. /\ ThreadState' \in [Threads -> {"AWAKE", "WAITING"}]
        /\ Timeout' \in [Threads -> Int]
    BY <1>2, <1>7 DEF TypeOK
  <2> QED BY <1>2, <1>3, <1>8, <1>11, <2>1 DEF TypeOK, LinksType
<1>14. RingsInv(q)'
  <2>1. ToSet(s) = Armed(h) /\ ToSet(q[h]) = Armed(h) \ {t}
    BY <1>1, <1>4, <1>5, <1>11, <1>12 DEF RingsInv
  <2>2. Tick'.current \in ToSet(q[h]) \cup {h}
    BY <1>5, <1>8, <2>1
  <2> QED BY <1>8, <1>12, <2>2 DEF RingsInv
<1>15. \A u \in Threads : Timeout'[u] = IF u = t THEN 0 ELSE Timeout[u]
  BY <1>2, <1>7 DEF TypeOK
<1>16. \A u \in Threads \ {t} : Due(u, q[RelativeHead])' <=> Due(u, r[RelativeHead])
  <2>1. CASE h = RelativeHead
    <3>1. \A u \in Threads \ {t} : Due(u, Without(s, i))' <=> Due(u, s)
      BY <1>3, <1>4, <1>5, <1>6, <1>7, <2>1, CursorMoves
    <3>2. q[RelativeHead] = Without(s, i) /\ s = r[RelativeHead]
      BY <1>4, <1>12, <2>1
    <3>3. PICK w : w = Without(s, i)
      OBVIOUS
    <3> QED BY <3>1, <3>2 DEF Due
  <2>2. CASE h = AbsoluteHead
    <3>1. \A u, w : Due(u, w)' <=> Tick.boot
      BY <1>8, <1>9, <2>2 DEF Due
    <3>2. \A u, w : Due(u, w) <=> Tick.boot
      BY <1>3, <1>4, <2>2 DEF Due
    <3> QED BY <3>1, <3>2
  <2> QED BY <1>9, <2>1, <2>2
<1>17. ASSUME NEW u \in Threads \ {t}
       PROVE  Beats(u, q[RelativeHead])' = Beats(u, r[RelativeHead])
  BY <1>3, <1>16 DEF Beats
<1>18. CountInv(q)'
  BY <1>1, <1>3, <1>9, <1>11, <1>15, <1>17 DEF CountInv
<1> QED BY <1>13, <1>14, <1>18 DEF TInv

\* A tick that has gone through a list has counted everyone on it.
LEMMA ListEndsStep ==
  ASSUME TInv, OffTheTick, KiClockTickListEnds
  PROVE  TInv'
<1>1. PICK r : RingsInv(r) /\ CountInv(r)
  BY DEF TInv
<1>2. TypeOK
  BY DEF TInv
<1>3. /\ Tick # NULL /\ Tick.current = Tick.head
      /\ Tick' = IF Tick.head = RelativeHead THEN NULL
                 ELSE [Tick EXCEPT !.head = RelativeHead,
                                   !.current = Links.Next[RelativeHead]]
      /\ ThreadState' = ThreadState /\ Timeout' = Timeout /\ Links' = Links
      /\ Asked' = Asked /\ Elapsed' = Elapsed
  BY DEF KiClockTickListEnds
<1>4. Tick \in TickRecords /\ Tick.head \in Heads
  BY <1>2, <1>3 DEF TypeOK, TickRecords
<1>5. AbsoluteHead \in Heads /\ RelativeHead \in Heads /\ AbsoluteHead # RelativeHead
      /\ (Tick.head = AbsoluteHead \/ Tick.head = RelativeHead)
  BY <1>4, EntriesAssumption DEF Heads
<1>6. PICK s : s = r[RelativeHead]
  OBVIOUS
<1>7. /\ s \in Seq(Threads) /\ IsInjective(s) /\ Ring(Links, RelativeHead, s) /\ Len(s) \in Nat
      /\ ToSet(s) = Armed(RelativeHead)
  BY <1>1, <1>5, <1>6 DEF RingsInv, Ring
<1>8. \A k \in Heads : Armed(k)' = Armed(k)
  BY <1>3 DEF Armed
<1>9. CASE Tick.head = RelativeHead
  <2>1. Tick' = NULL
    BY <1>3, <1>9
  <2>2. TypeOK'
    BY <1>2, <1>3, <2>1 DEF TypeOK
  <2>3. RingsInv(r)'
    BY <1>1, <1>3, <1>8, <2>1 DEF RingsInv
  <2>4. \A i \in 1 .. Len(s) : Tick.current # s[i]
    <3>1. \A i \in 1 .. Len(s) : s[i] \in Threads
      BY <1>7
    <3> QED BY <1>3, <1>9, <3>1, EntriesAssumption DEF Heads
  <2>5. \A u : ~Due(u, s) /\ ~Due(u, s)'
    BY <1>5, <1>9, <2>1, <2>4 DEF Due
  <2>6. \A u : Beats(u, s)' = Beats(u, s)
    BY <1>3, <2>5 DEF Beats
  <2>7. CountInv(r)'
    BY <1>1, <1>3, <1>5, <1>6, <1>8, <2>6 DEF CountInv
  <2> QED BY <2>2, <2>3, <2>7 DEF TInv
<1>10. CASE Tick.head = AbsoluteHead
  <2>1. PICK c : c = Links.Next[RelativeHead]
    OBVIOUS
  <2>2. c = Node(RelativeHead, s, 1)
    <3>1. 0 \in 0 .. Len(s) /\ Node(RelativeHead, s, 0) = RelativeHead
      BY <1>7 DEF Node
    <3>2. Links.Next[Node(RelativeHead, s, 0)] = Node(RelativeHead, s, 0 + 1)
      BY <1>7, <3>1 DEF Ring
    <3> QED BY <2>1, <3>1, <3>2
  <2>3. c \in ToSet(s) \cup {RelativeHead} /\ c \in Entries
    BY <1>5, <1>7, <2>2, NodesDiffer
  <2>4. Tick' = [Tick EXCEPT !.head = RelativeHead, !.current = c]
    BY <1>3, <1>5, <1>10, <2>1
  <2>5. Tick' \in TickRecords /\ Tick'.head = RelativeHead /\ Tick'.current = c
        /\ Tick'.boot = Tick.boot
    BY <1>4, <1>5, <2>3, <2>4 DEF TickRecords
  <2>6. Tick' # NULL
    BY <2>5, EntriesAssumption
  <2>7. TypeOK'
    BY <1>2, <1>3, <2>5 DEF TypeOK
  <2>8. RingsInv(r)'
    BY <1>1, <1>3, <1>6, <1>8, <2>3, <2>5 DEF RingsInv
  <2>9. ASSUME NEW u \in Armed(RelativeHead) PROVE Due(u, s)' <=> Due(u, s)
    <3>1. Due(u, s) <=> Tick.boot
      BY <1>3, <1>10 DEF Due
    <3>2. PICK j \in 1 .. Len(s) : s[j] = u
      BY <1>7 DEF ToSet
    <3>3. 1 \in 1 .. Len(s) /\ 1 <= j
      BY <1>7
    <3>4. c = s[1]
      BY <2>2, <3>3 DEF Node
    <3>5. Due(u, s)' <=> Tick.boot
      BY <2>5, <2>6, <3>2, <3>3, <3>4 DEF Due
    <3> QED BY <3>1, <3>5
  <2>10. \A u \in Armed(RelativeHead) : Beats(u, s)' = Beats(u, s)
    BY <1>3, <2>9 DEF Beats
  <2>11. CountInv(r)'
    BY <1>1, <1>3, <1>5, <1>6, <1>8, <2>10 DEF CountInv
  <2> QED BY <2>7, <2>8, <2>11 DEF TInv
<1> QED BY <1>5, <1>9, <1>10

\* Each list is, at every moment, a ring of the entries of the sleepers it is
\* to hold, and each relative timeout what is left after the ticks so far.
THEOREM TimeoutsInvariance == OffTheTick => (Spec => []TInv)
<1> SUFFICES ASSUME OffTheTick PROVE Spec => []TInv
  OBVIOUS
<1>1. Init => TInv
  BY InitialRings
<1>2. TInv /\ [Next]_vars => TInv'
  <2> SUFFICES ASSUME TInv, [Next]_vars PROVE TInv'
    OBVIOUS
  <2>1. CASE \E t \in Threads, p \in Values \cup {NULL} : Wait(t, p)
    BY <2>1, WaitStep
  <2>2. CASE \E t \in Threads : Unwait(t)
    BY <2>2, UnwaitStep
  <2>3. CASE \E boot \in BOOLEAN, time \in Times : KiClockTick(boot, time)
    BY <2>3, ClockStep
  <2>4. CASE \E t \in Threads : Passes(t) \/ KiExpireTimeout(t)
    BY <2>4, PassesStep, ExpireStep
  <2>5. CASE KiClockTickListEnds
    BY <2>5, ListEndsStep
  <2>6. CASE UNCHANGED vars
    <3>1. /\ ThreadState' = ThreadState /\ Timeout' = Timeout /\ Links' = Links
          /\ Tick' = Tick /\ Asked' = Asked /\ Elapsed' = Elapsed
      BY <2>6 DEF vars
    <3>2. \A k : Armed(k)' = Armed(k)
      BY <3>1 DEF Armed
    <3>3. \A t, s : Beats(t, s)' = Beats(t, s)
      BY <3>1 DEF Beats, Due
    <3>4. PICK r : RingsInv(r) /\ CountInv(r)
      BY DEF TInv
    <3>5. RingsInv(r)' /\ CountInv(r)'
      BY <3>1, <3>2, <3>3, <3>4 DEF RingsInv, CountInv
    <3>6. TypeOK'
      BY <3>1 DEF TInv, TypeOK
    <3> QED BY <3>5, <3>6 DEF TInv
  <2> QED BY <2>1, <2>2, <2>3, <2>4, <2>5, <2>6 DEF Next, KiClockTickGoesOn
<1> QED BY <1>1, <1>2, PTL DEF Spec
-----------------------------------------------------------------------------
(***************************************************************************)
(* What the runs check.                                                    *)
(***************************************************************************)

\* Who follows the links from the head of a ring meets its entries.
LEMMA RingWalk ==
  ASSUME TypeOK, NEW head \in Heads, NEW s, Ring(Links, head, s)
  PROVE  Linked(head) = ToSet(s)
<1>1. s \in Seq(Threads) /\ IsInjective(s) /\ Len(s) \in Nat
  BY DEF Ring
<1>2. PICK N : N = Cardinality(Threads) + 1
  OBVIOUS
<1>3. N \in Nat /\ Len(s) < N
  <2>1. ToSet(s) \subseteq Threads
    BY <1>1 DEF ToSet
  <2>2. Cardinality(ToSet(s)) <= Cardinality(Threads)
    BY <2>1, FS_Subset, EntriesAssumption
  <2>3. Cardinality(ToSet(s)) = Len(s)
    BY <1>1, InjectiveCardinality
  <2>4. Cardinality(Threads) \in Nat
    BY FS_CardinalityType, EntriesAssumption
  <2> QED BY <1>1, <1>2, <2>2, <2>3, <2>4
<1>4. PICK f : f = Links.Next
  OBVIOUS
<1>5. f \in [Entries -> Entries] /\ head \in Entries
  BY <1>4 DEF TypeOK, Entries
<1>6. /\ \A j \in Int : Node(head, s, j) \in ToSet(s) \cup {head}
      /\ \A j \in 0 .. Len(s) : f[Node(head, s, j)] = Node(head, s, j + 1)
  BY <1>1, <1>4, NodesDiffer DEF Ring
<1>7. \E at : at = [i \in 0 .. N |-> IF i = 0 THEN head ELSE f[at[i - 1]]]
  <2>1. PICK S : S = {n \in 0 .. N : \E at \in [0 .. n -> Entries] :
                        at[0] = head /\ \A i \in 1 .. n : at[i] = f[at[i - 1]]}
    OBVIOUS
  <2>2. 0 \in S
    <3>1. PICK at : at = [i \in 0 .. 0 |-> head]
      OBVIOUS
    <3>2. at \in [0 .. 0 -> Entries] /\ at[0] = head /\ \A i \in 1 .. 0 : at[i] = f[at[i - 1]]
      BY <1>5, <3>1
    <3> QED BY <1>3, <2>1, <3>2
  <2>3. ASSUME NEW n \in 0 .. N, n \in S, n < N PROVE n + 1 \in S
    <3>1. PICK at \in [0 .. n -> Entries] :
            at[0] = head /\ \A i \in 1 .. n : at[i] = f[at[i - 1]]
      BY <2>1, <2>3
    <3>2. PICK longer : longer = [i \in 0 .. n + 1 |-> IF i = n + 1 THEN f[at[n]] ELSE at[i]]
      OBVIOUS
    <3>3. n \in 0 .. n /\ at[n] \in Entries
      BY <3>1
    <3>4. longer \in [0 .. n + 1 -> Entries]
      BY <1>5, <3>1, <3>2, <3>3
    <3>5. longer[0] = head
      BY <3>1, <3>2
    <3>6. \A i \in 1 .. n + 1 : longer[i] = f[longer[i - 1]]
      <4> TAKE i \in 1 .. n + 1
      <4>1. CASE i = n + 1
        <5>1. i - 1 = n /\ longer[i] = f[at[n]] /\ longer[n] = at[n]
          BY <3>2, <4>1
        <5> QED BY <5>1
      <4>2. CASE i # n + 1
        <5>1. i \in 1 .. n /\ i \in 0 .. n + 1 /\ i - 1 \in 0 .. n + 1 /\ i - 1 # n + 1
          BY <4>2
        <5>2. longer[i] = at[i] /\ longer[i - 1] = at[i - 1]
          BY <3>2, <4>2, <5>1
        <5> QED BY <3>1, <5>1, <5>2
      <4> QED BY <4>1, <4>2
    <3>7. n + 1 \in 0 .. N
      BY <1>3, <2>3
    <3> QED BY <2>1, <3>4, <3>5, <3>6, <3>7
  <2>4. N \in S
    <3>1. 0 .. N \subseteq S
      BY <1>3, <2>2, <2>3, CountingUp
    <3> QED BY <1>3, <3>1
  <2>5. PICK at \in [0 .. N -> Entries] : at[0] = head /\ \A i \in 1 .. N : at[i] = f[at[i - 1]]
    BY <2>1, <2>4
  <2>6. at = [i \in 0 .. N |-> at[i]]
    BY <2>5
  <2>7. \A i \in 0 .. N : at[i] = IF i = 0 THEN head ELSE f[at[i - 1]]
    BY <1>3, <2>5
  <2>8. at = [i \in 0 .. N |-> IF i = 0 THEN head ELSE f[at[i - 1]]]
    BY <2>6, <2>7
  <2> QED BY <2>8
<1>8. PICK at : at = CHOOSE g : g = [i \in 0 .. N |-> IF i = 0 THEN head ELSE f[g[i - 1]]]
  OBVIOUS
<1>9. at = [i \in 0 .. N |-> IF i = 0 THEN head ELSE f[at[i - 1]]]
  BY <1>7, <1>8
<1>10. Linked(head) = {at[i] : i \in 0 .. N} \ {head}
  BY <1>2, <1>4, <1>8 DEF Linked
<1>11. at[0] = head /\ \A i \in 0 .. N : i < N => at[i + 1] = f[at[i]]
  <2>1. \A i \in 0 .. N : at[i] = IF i = 0 THEN head ELSE f[at[i - 1]]
    BY <1>9
  <2>2. \A i \in 0 .. N : i < N => i + 1 \in 0 .. N /\ i + 1 # 0 /\ i + 1 - 1 = i
    BY <1>3
  <2> QED BY <1>3, <2>1, <2>2
<1>12. \A i \in 0 .. N : i <= Len(s) + 1 => at[i] = Node(head, s, i)
  <2>1. PICK S : S = {i \in 0 .. N : i <= Len(s) + 1 => at[i] = Node(head, s, i)}
    OBVIOUS
  <2>2. 0 \in S
    <3>1. Node(head, s, 0) = head
      BY <1>1 DEF Node
    <3> QED BY <1>3, <1>11, <2>1, <3>1
  <2>3. ASSUME NEW i \in 0 .. N, i \in S, i < N PROVE i + 1 \in S
    <3>1. i + 1 \in 0 .. N /\ i \in Nat
      BY <1>3, <2>3
    <3>2. ASSUME i + 1 <= Len(s) + 1 PROVE at[i + 1] = Node(head, s, i + 1)
      <4>1. i \in 0 .. Len(s) /\ i <= Len(s) + 1
        BY <1>1, <3>1, <3>2
      <4>2. at[i] = Node(head, s, i)
        BY <2>1, <2>3, <4>1
      <4> QED BY <1>6, <1>11, <2>3, <4>1, <4>2
    <3> QED BY <2>1, <3>1, <3>2
  <2>4. 0 .. N \subseteq S
    BY <1>3, <2>2, <2>3, CountingUp
  <2> QED BY <2>1, <2>4
<1>13. \A i \in 0 .. N : at[i] \in ToSet(s) \cup {head}
  <2>1. PICK S : S = {i \in 0 .. N : at[i] \in ToSet(s) \cup {head}}
    OBVIOUS
  <2>2. 0 \in S
    BY <1>3, <1>11, <2>1
  <2>3. ASSUME NEW i \in 0 .. N, i \in S, i < N PROVE i + 1 \in S
    <3>1. PICK j \in 0 .. Len(s) : at[i] = Node(head, s, j)
      <4>1. CASE at[i] = head
        <5>1. 0 \in 0 .. Len(s) /\ Node(head, s, 0) = head
          BY <1>1 DEF Node
        <5> QED BY <4>1, <5>1
      <4>2. CASE at[i] \in ToSet(s)
        <5>1. PICK j \in 1 .. Len(s) : at[i] = s[j]
          BY <4>2 DEF ToSet
        <5>2. j \in 0 .. Len(s) /\ Node(head, s, j) = s[j]
          BY <1>1 DEF Node
        <5> QED BY <5>1, <5>2
      <4> QED BY <2>1, <2>3, <4>1, <4>2
    <3>2. at[i + 1] = Node(head, s, j + 1)
      BY <1>6, <1>11, <2>3, <3>1
    <3>3. j + 1 \in Int /\ i + 1 \in 0 .. N
      BY <1>1, <1>3, <2>3
    <3> QED BY <1>6, <2>1, <3>2, <3>3
  <2>4. 0 .. N \subseteq S
    BY <1>3, <2>2, <2>3, CountingUp
  <2> QED BY <2>1, <2>4
<1>14. \A e \in ToSet(s) : e # head
  BY <1>1, EntriesAssumption DEF ToSet
<1>15. ASSUME NEW e \in ToSet(s) PROVE \E i \in 0 .. N : at[i] = e
  <2>1. PICK i \in 1 .. Len(s) : s[i] = e
    BY DEF ToSet
  <2>2. i \in 0 .. N /\ i <= Len(s) + 1 /\ Node(head, s, i) = e
    BY <1>1, <1>3, <2>1 DEF Node
  <2> QED BY <1>12, <2>2
<1> QED BY <1>10, <1>13, <1>14, <1>15

\* Timeouts.TimedWaitsAccounted for any number of threads and any timeouts
\* that a tick does not meet exactly: at every moment, also in the middle of a
\* tick, the two lists hold the sleepers that asked for a timeout, linked in
\* both directions, and no timeout expires of a thread that does not sleep.
THEOREM TimedWaitsAreAccounted == OffTheTick => (Spec => []TimedWaitsAccounted)
<1> SUFFICES ASSUME OffTheTick PROVE Spec => []TimedWaitsAccounted
  OBVIOUS
<1>1. TInv => TimedWaitsAccounted
  <2> SUFFICES ASSUME TInv PROVE TimedWaitsAccounted
    OBVIOUS
  <2>1. TypeOK
    BY DEF TInv
  <2>2. PICK r : RingsInv(r)
    BY DEF TInv
  <2>3. ASSUME NEW head \in Heads
        PROVE  /\ Linked(head) = ToSet(r[head]) /\ Linked(head) = Armed(head)
               /\ \A e \in Linked(head) \cup {head} : Links.Prev[Links.Next[e]] = e
    <3>1. PICK s : s = r[head]
      OBVIOUS
    <3>2. Ring(Links, head, s) /\ ToSet(s) = Armed(head) /\ Len(s) \in Nat
      BY <2>2, <3>1 DEF RingsInv, Ring
    <3>3. Linked(head) = ToSet(s)
      BY <2>1, <3>2, RingWalk
    <3>4. ASSUME NEW e \in ToSet(s) \cup {head} PROVE Links.Prev[Links.Next[e]] = e
      <4>1. PICK j \in 0 .. Len(s) : e = Node(head, s, j)
        <5>1. CASE e = head
          <6>1. 0 \in 0 .. Len(s) /\ Node(head, s, 0) = head
            BY <3>2 DEF Node
          <6> QED BY <5>1, <6>1
        <5>2. CASE e \in ToSet(s)
          <6>1. PICK j \in 1 .. Len(s) : e = s[j]
            BY <5>2 DEF ToSet
          <6>2. j \in 0 .. Len(s) /\ Node(head, s, j) = s[j]
            BY <3>2 DEF Node
          <6> QED BY <6>1, <6>2
        <5> QED BY <3>4, <5>1, <5>2
      <4> QED BY <3>2, <4>1 DEF Ring
    <3> QED BY <3>1, <3>2, <3>3, <3>4
  <2>4. ASSUME Tick # NULL
        PROVE  Tick.current \in Linked(Tick.head) \cup {Tick.head} /\ Tick.current # NULL
    <3>1. Tick.head \in Heads /\ Tick.current \in Entries \cup {NULL}
      BY <2>1, <2>4 DEF TypeOK, TickRecords
    <3>2. Tick.current \in Armed(Tick.head) \cup {Tick.head}
      BY <2>2, <2>4, <3>1 DEF RingsInv
    <3>3. Tick.current \in Entries
      BY <3>1, <3>2 DEF Armed, Entries
    <3> QED BY <2>3, <3>1, <3>2, <3>3, EntriesAssumption
  <2> QED BY <2>1, <2>3, <2>4
      DEF TimedWaitsAccounted, ListsHoldTheTimedWaits, ExpiryFindsTheWait
<1> QED BY <1>1, TimeoutsInvariance, PTL

\* Timeouts.ExpiresOnTime for any number of threads and any timeouts that a
\* tick does not meet exactly: a tick ends a wait only in the tick of
\* processor 0 by which the time asked for is over.
THEOREM WaitsExpireOnTime == OffTheTick => (Spec => ExpiresOnTime)
<1> SUFFICES ASSUME OffTheTick PROVE Spec => ExpiresOnTime
  OBVIOUS
<1> DEFINE OnTime(t) ==
      Tick # NULL /\ ThreadState[t] = "WAITING" /\ ThreadState'[t] = "AWAKE" =>
        /\ Asked[t] # NULL
        /\ Asked[t] < 0 =>
             /\ Elapsed[t] * KeMaximumIncrement > -Asked[t]
             /\ (Elapsed[t] - 1) * KeMaximumIncrement <= -Asked[t]
<1>1. ASSUME TInv, Next, NEW t \in Threads, Tick # NULL,
             ThreadState[t] = "WAITING", ThreadState'[t] = "AWAKE"
      PROVE  /\ Asked[t] # NULL
             /\ Asked[t] < 0 =>
                  /\ Elapsed[t] * KeMaximumIncrement > -Asked[t]
                  /\ (Elapsed[t] - 1) * KeMaximumIncrement <= -Asked[t]
  <2>1. PICK r : RingsInv(r) /\ CountInv(r)
    BY <1>1 DEF TInv
  <2>2. TypeOK
    BY <1>1 DEF TInv
  <2>3. ThreadState' # ThreadState
    BY <1>1
  <2>4. PICK u \in Threads : KiExpireTimeout(u)
    BY <1>1, <2>3 DEF Next, KiClockTickGoesOn, Wait, Unwait, KiClockTick, Passes,
                      KiClockTickListEnds
  <2>5. ThreadState' = [ThreadState EXCEPT ![u] = "AWAKE"]
    BY <2>3, <2>4 DEF KiExpireTimeout
  <2>6. u = t
    BY <1>1, <2>2, <2>5 DEF TypeOK
  <2>7. Tick.current = t /\ Expires(Counted(t))
    BY <2>4, <2>6 DEF KiExpireTimeout
  <2>8. PICK h, s : h = Tick.head /\ s = r[h]
    OBVIOUS
  <2>9. /\ Tick \in TickRecords /\ h \in Heads /\ t \in Armed(h) /\ Asked[t] # NULL
        /\ s \in Seq(Threads) /\ \E i \in 1 .. Len(s) : t = s[i]
    BY <1>1, <2>1, <2>2, <2>7, <2>8, CursorOnList
  <2>10. ASSUME Asked[t] < 0
         PROVE  /\ Elapsed[t] * KeMaximumIncrement > -Asked[t]
                /\ (Elapsed[t] - 1) * KeMaximumIncrement <= -Asked[t]
    <3>1. h = RelativeHead /\ RelativeHead # AbsoluteHead
      BY <2>9, <2>10, EntriesAssumption DEF Armed
    <3>2. PICK n : n = Beats(t, s)
      OBVIOUS
    <3>3. /\ n \in Nat /\ Timeout[t] \in Nat
          /\ Timeout[t] = -Asked[t] - n * KeMaximumIncrement
      BY <2>1, <2>8, <2>9, <3>1, <3>2 DEF CountInv
    <3>4. Asked[t] \in Int /\ KeMaximumIncrement \in Nat /\ Elapsed[t] \in Nat
      BY <2>2, <2>9, ArmedAsked, TimesAssumption DEF TypeOK
    <3>5. Counted(t) < 0
      BY <2>7, <2>8, <3>1 DEF Expires
    <3>6. Tick.boot /\ Counted(t) = Timeout[t] - KeMaximumIncrement
      BY <2>8, <3>1, <3>3, <3>5 DEF Counted
    <3>7. Due(t, s)
      <4>1. PICK i \in 1 .. Len(s) : t = s[i]
        BY <2>9
      <4>2. i <= i
        BY <2>9
      <4> QED BY <1>1, <2>7, <3>6, <4>1, <4>2 DEF Due
    <3>8. n = Elapsed[t] - 1
      BY <3>2, <3>7 DEF Beats
    <3>9. PICK m \in Int : m = n * KeMaximumIncrement
      BY <3>3, <3>4
    <3>10. Elapsed[t] * KeMaximumIncrement = m + KeMaximumIncrement
      <4>1. Elapsed[t] = n + 1
        BY <3>3, <3>4, <3>8
      <4>2. (n + 1) * KeMaximumIncrement = n * KeMaximumIncrement + KeMaximumIncrement
        BY <3>3, <3>4
      <4> QED BY <3>9, <4>1, <4>2
    <3>11. m <= -Asked[t]
      BY <3>3, <3>4, <3>9
    <3>12. m + KeMaximumIncrement > -Asked[t]
      BY <3>3, <3>4, <3>5, <3>6, <3>9
    <3> QED BY <3>8, <3>9, <3>10, <3>11, <3>12
  <2> QED BY <2>9, <2>10
<1>2. TInv /\ [Next]_vars => [\A t \in Threads : OnTime(t)]_vars
  BY <1>1
<1>3. Spec => []TInv
  BY TimeoutsInvariance
<1> QED BY <1>2, <1>3, PTL DEF Spec, ExpiresOnTime

=============================================================================
