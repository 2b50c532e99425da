----------------------------- MODULE Pool_proofs -----------------------------
(***************************************************************************)
(* Proofs about Pool: through every split and merge of every caller the    *)
(* blocks tile the region and keep what their holders wrote, and NULL is   *)
(* answered only when there is no room.                                    *)
(***************************************************************************)
EXTENDS Pool, ListLemmas

\* The headers.
Headers == [known : BOOLEAN, tag : {Free, Tag}, size : Nat]

\* The blocks of a list l with headers hd fill the region, one after the other.
Tiles(l, hd) ==
  /\ l # <<>> /\ l[1] = AddressStart
  /\ \A i \in DOMAIN l :
       /\ hd[l[i]].known
       /\ l[i] + HeaderSize + hd[l[i]].size = IF i = Len(l) THEN AddressEnd ELSE l[i + 1]

\* Numbers that increase from one to the next increase all along.
LEMMA Increasing ==
  ASSUME NEW n \in Nat, NEW a \in [1 .. n -> Int], \A k \in 1 .. n - 1 : a[k] < a[k + 1],
         NEW i \in 1 .. n, NEW j \in 1 .. n, i < j
  PROVE  a[i] < a[j]
<1> DEFINE m == n - i - 1
           S == {k \in 0 .. m : a[i] < a[i + 1 + k]}
<1>1. m \in Nat /\ i \in 1 .. n - 1 /\ i + 1 + 0 = i + 1
  OBVIOUS
<1>2. 0 \in S
  BY <1>1
<1>3. ASSUME NEW k \in 0 .. m, k \in S, k < m PROVE k + 1 \in S
  <2>1. /\ i + 1 + k \in 1 .. n - 1 /\ i + 1 + (k + 1) = i + 1 + k + 1
        /\ k + 1 \in 0 .. m
    BY <1>1, <1>3
  <2>2. a[i + 1 + k] < a[i + 1 + k + 1]
    BY <2>1
  <2>3. a[i] \in Int /\ a[i + 1 + k] \in Int /\ a[i + 1 + k + 1] \in Int
    BY <2>1
  <2>4. a[i] < a[i + 1 + k]
    BY <1>3
  <2>5. a[i] < a[i + 1 + (k + 1)]
    BY <2>1, <2>2, <2>3, <2>4
  <2> QED BY <2>1, <2>5
<1> HIDE DEF S
<1>4. 0 .. m \subseteq S
  BY <1>1, <1>2, <1>3, CountingUp
<1>5. j - i - 1 \in 0 .. m /\ i + 1 + (j - i - 1) = j
  BY <1>1
<1> QED BY <1>4, <1>5 DEF S

\* Blocks that tile the region are apart: a block ends before any later one
\* begins.
LEMMA TilesApart ==
  ASSUME NEW l \in Seq(Addresses), NEW hd \in [Addresses -> Headers], Tiles(l, hd),
         NEW i \in DOMAIN l, NEW j \in DOMAIN l, i < j
  PROVE  l[i] + HeaderSize + hd[l[i]].size <= l[j]
<1> USE PoolAssumption
<1> DEFINE n == Len(l)
<1>0. n = Len(l) /\ n \in Nat
  OBVIOUS
<1>1. DOMAIN l = 1 .. n
  OBVIOUS
<1> HIDE DEF n
<1>2. \A k \in 1 .. n : l[k] \in Int /\ hd[l[k]].size \in Nat
  <2> TAKE k \in 1 .. n
  <2>1. l[k] \in Addresses
    BY <1>0, ElementOfSeq
  <2>2. l[k] \in Int
    BY <2>1 DEF Addresses
  <2>3. hd[l[k]] \in Headers
    BY <2>1
  <2>4. hd[l[k]].size \in Nat
    BY <2>3 DEF Headers
  <2> QED BY <2>2, <2>4
<1>3. \A k \in 1 .. n - 1 : l[k] + HeaderSize + hd[l[k]].size = l[k + 1] /\ l[k] < l[k + 1]
  <2> TAKE k \in 1 .. n - 1
  <2>1. k \in 1 .. n /\ k # n /\ k + 1 \in 1 .. n
    BY <1>0
  <2>2. l[k] + HeaderSize + hd[l[k]].size = l[k + 1]
    BY <1>0, <1>1, <2>1 DEF Tiles
  <2>3. l[k] \in Int /\ l[k + 1] \in Int /\ hd[l[k]].size \in Nat
    BY <1>2, <2>1
  <2> QED BY <2>2, <2>3
<1>4. i \in 1 .. n - 1 /\ i \in 1 .. n /\ j \in 1 .. n /\ i + 1 \in 1 .. n
  BY <1>0, <1>1
<1>5. CASE j = i + 1
  BY <1>2, <1>3, <1>4, <1>5
<1>6. CASE i + 1 < j
  <2>1. l \in [1 .. n -> Int]
    BY <1>1, <1>2
  <2>2. l[i + 1] < l[j]
    BY <1>0, <1>3, <1>4, <1>6, <2>1, Increasing
  <2>3. l[i + 1] \in Int /\ l[j] \in Int
    BY <1>2, <1>4
  <2> QED BY <1>3, <1>4, <2>2, <2>3
<1> QED BY <1>4, <1>5, <1>6

\* And each of them lies in the region.
LEMMA TilesInside ==
  ASSUME NEW l \in Seq(Addresses), NEW hd \in [Addresses -> Headers], Tiles(l, hd),
         NEW i \in DOMAIN l
  PROVE  /\ AddressStart <= l[i] /\ hd[l[i]].size \in Nat
         /\ l[i] + HeaderSize + hd[l[i]].size <= AddressEnd
<1> USE PoolAssumption
<1>1. /\ Len(l) \in Nat /\ DOMAIN l = 1 .. Len(l)
      /\ \A k \in DOMAIN l : l[k] \in Addresses
  OBVIOUS
<1>2. hd[l[i]].size \in Nat
  BY <1>1 DEF Headers
<1>3. CASE i = Len(l)
  BY <1>1, <1>2, <1>3 DEF Tiles, Addresses
<1>4. CASE i # Len(l)
  <2>1. i + 1 \in DOMAIN l
    BY <1>1, <1>4
  <2>2. l[i + 1] \in Addresses
    BY <1>1, <2>1
  <2>3. l[i] + HeaderSize + hd[l[i]].size = l[i + 1]
    BY <1>4 DEF Tiles
  <2> QED BY <1>1, <1>2, <2>2, <2>3 DEF Addresses
<1> QED BY <1>3, <1>4

\* The walk of ExMergePool is defined for every list: it goes through it once.
LEMMA MergedDefined ==
  ASSUME list \in Seq(Addresses)
  PROVE  Merged = [n \in 0 .. Len(list) |->
                     IF n = 0 THEN <<>> ELSE Joined(Merged[n - 1], list[n])]
<1> DEFINE Walks(f, m) ==
             f = [n \in 0 .. m |-> IF n = 0 THEN <<>> ELSE Joined(f[n - 1], list[n])]
           S == {m \in 0 .. Len(list) : \E f : Walks(f, m)}
<1>1. Len(list) \in Nat
  OBVIOUS
<1>2. 0 \in S
  <2> DEFINE f == [n \in 0 .. 0 |-> <<>>]
  <2>1. Walks(f, 0)
    OBVIOUS
  <2> HIDE DEF f
  <2>2. \E g : Walks(g, 0)
    BY <2>1
  <2> QED BY <1>1, <2>2
<1>3. ASSUME NEW m \in 0 .. Len(list), m \in S, m < Len(list) PROVE m + 1 \in S
  <2>1. PICK f : Walks(f, m)
    BY <1>3
  <2> DEFINE g == [n \in 0 .. m + 1 |-> IF n <= m THEN f[n] ELSE Joined(f[m], list[m + 1])]
  <2>2. ASSUME NEW n \in 0 .. m + 1
        PROVE  g[n] = IF n = 0 THEN <<>> ELSE Joined(g[n - 1], list[n])
    <3>1. CASE n = 0
      <4>1. g[n] = f[n]
        BY <3>1
      <4>2. f[n] = <<>>
        BY <2>1, <3>1
      <4> QED BY <3>1, <4>1, <4>2
    <3>2. CASE n # 0 /\ n <= m
      <4>1. g[n] = f[n] /\ g[n - 1] = f[n - 1]
        BY <3>2
      <4>2. f[n] = Joined(f[n - 1], list[n])
        BY <2>1, <3>2
      <4> QED BY <3>2, <4>1, <4>2
    <3>3. CASE n = m + 1
      <4>1. g[n] = Joined(f[m], list[n]) /\ g[n - 1] = f[m] /\ n # 0
        BY <3>3
      <4> QED BY <4>1
    <3> QED BY <3>1, <3>2, <3>3
  <2>3. Walks(g, m + 1)
    <3> HIDE DEF g
    <3>1. g = [n \in 0 .. m + 1 |-> g[n]]
      BY DEF g
    <3> QED BY <2>2, <3>1
  <2>4. m + 1 \in 0 .. Len(list)
    BY <1>1, <1>3
  <2> QED BY <2>3, <2>4
<1>4. Len(list) \in S
  <2> HIDE DEF S
  <2>1. 0 .. Len(list) \subseteq S
    BY <1>1, <1>2, <1>3, CountingUp
  <2> QED BY <1>1, <2>1
<1>5. PICK f : Walks(f, Len(list))
  BY <1>4
<1> HIDE DEF S
<1>6. Walks(Merged, Len(list))
  BY <1>5 DEF Merged
<1> QED BY <1>6

\* The blocks the walk keeps.
Kept == [at : Addresses, tag : {Free, Tag}, size : Nat]

\* The blocks kept when the walk has come to the n-th of the list: they tile
\* the region as far as that block's end, no two free ones are neighbours, and
\* every allocated block is among them as it was.
KeptSound(k, n) ==
  /\ k \in Seq(Kept) /\ k # <<>> /\ k[1].at = AddressStart
  /\ \A j \in DOMAIN k :
       k[j].at + HeaderSize + k[j].size = IF j = Len(k) THEN MemoryEnd(list[n]) ELSE k[j + 1].at
  /\ \A j \in 1 .. Len(k) - 1 : ~ (k[j].tag = Free /\ k[j + 1].tag = Free)
  /\ \A i \in 1 .. n : header[list[i]].tag = Tag =>
       \E j \in DOMAIN k : k[j] = [at |-> list[i], tag |-> Tag, size |-> header[list[i]].size]

\* One step of the walk: MergeWithNextBlock or the next block as it is.
LEMMA JoinedSound ==
  ASSUME list \in Seq(Addresses), header \in [Addresses -> Headers], Tiles(list, header),
         NEW n \in 1 .. Len(list), n < Len(list), NEW k, KeptSound(k, n)
  PROVE  KeptSound(Joined(k, list[n + 1]), n + 1)
<1> USE PoolAssumption
<1> DEFINE h == list[n + 1]
           m == Len(k)
           r == Joined(k, h)
           block == [at |-> h, tag |-> header[h].tag, size |-> header[h].size]
<1>1. /\ Len(list) \in Nat /\ n \in DOMAIN list /\ n + 1 \in DOMAIN list /\ n # Len(list)
      /\ h \in Addresses /\ list[n] \in Addresses
  OBVIOUS
<1>2. header[h] \in Headers /\ header[list[n]] \in Headers
  BY <1>1
<1>3. k \in Seq(Kept) /\ m = Len(k) /\ DOMAIN k = 1 .. m
  BY DEF KeptSound
<1>m. m \in Nat \ {0}
  BY DEF KeptSound
<1> HIDE DEF m
<1>4. MemoryEnd(list[n]) = h
  BY <1>1 DEF Tiles, MemoryEnd
<1>5. k[m].at + HeaderSize + k[m].size = h /\ Last(k) = k[m] /\ k[m] \in Kept
  <2>1. m \in 1 .. Len(k)
    BY <1>3, <1>m
  <2>2. k[m] \in Kept
    BY <1>3, <1>m, <2>1, ElementOfSeq
  <2> QED BY <1>3, <1>m, <1>4, <2>2 DEF KeptSound, Last
<1>6. \A i \in 1 .. n + 1 : i \in 1 .. n \/ i = n + 1
  OBVIOUS
<1>7. CASE k[m].tag = Free /\ header[h].tag = Free
  <2> DEFINE size == k[m].size + header[h].size + HeaderSize
             b == [k[m] EXCEPT !.size = size]
  <2>1. size \in Nat
    BY <1>2, <1>5 DEF Kept, Headers
  <2>2. r = [k EXCEPT ![m] = b]
    BY <1>3, <1>m, <1>5, <1>7 DEF Joined
  <2>3. b \in Kept /\ b.at = k[m].at /\ b.tag = k[m].tag /\ b.size = size
    BY <1>5, <2>1 DEF Kept
  <2>s. size = k[m].size + header[h].size + HeaderSize
    OBVIOUS
  <2> HIDE DEF r, b, size
  <2>4. b.at + HeaderSize + b.size = MemoryEnd(h)
    <3>0. k[m] \in Kept /\ header[h] \in Headers /\ h \in Addresses
      BY <1>1, <1>2, <1>5
    <3>k. k[m].at \in Int /\ k[m].size \in Int
      BY <3>0 DEF Kept, Addresses
    <3>h. header[h].size \in Int
      BY <3>0 DEF Headers
    <3>1. /\ k[m].at \in Int /\ k[m].size \in Int /\ header[h].size \in Int
          /\ HeaderSize \in Int /\ h \in Int
      BY <3>0, <3>k, <3>h DEF Addresses
    <3> DEFINE x == k[m].at
               y == k[m].size
               z == header[h].size
    <3>2. x \in Int /\ y \in Int /\ z \in Int /\ HeaderSize \in Int /\ h \in Int /\ x + HeaderSize + y = h
      BY <1>5, <3>1
    <3> HIDE DEF x, y, z
    <3>3. x + HeaderSize + (y + z + HeaderSize) = h + HeaderSize + z
      BY <3>2
    <3>4. MemoryEnd(h) = h + HeaderSize + header[h].size
      BY DEF MemoryEnd
    <3> QED BY <2>3, <2>s, <3>3, <3>4 DEF x, y, z
  <2>5. /\ r \in Seq(Kept) /\ Len(r) = m
        /\ \A j \in 1 .. m : r[j] = IF j = m THEN b ELSE k[j]
    BY <1>3, <1>m, <2>2, <2>3, ExceptSeq
  <2>6. \A j \in 1 .. m : r[j].at = k[j].at /\ r[j].tag = k[j].tag
    BY <2>3, <2>5
  <2>7. r # <<>> /\ DOMAIN r = 1 .. m /\ r[1].at = AddressStart
    <3>1. r # <<>> /\ DOMAIN r = 1 .. m /\ r[1].at = k[1].at
      BY <1>3, <1>m, <2>5, <2>6
    <3> QED BY <3>1 DEF KeptSound
  <2>8. ASSUME NEW j \in 1 .. m
        PROVE  r[j].at + HeaderSize + r[j].size = IF j = m THEN MemoryEnd(h) ELSE r[j + 1].at
    <3>1. CASE j = m
      BY <2>4, <2>5, <3>1
    <3>2. CASE j # m
      <4>1. j + 1 \in 1 .. m
        BY <1>m, <3>2
      <4>2. k[j].at + HeaderSize + k[j].size = k[j + 1].at
        BY <1>3, <1>m, <3>2 DEF KeptSound
      <4>3. r[j] = k[j] /\ r[j + 1].at = k[j + 1].at
        BY <2>5, <2>6, <3>2, <4>1
      <4> QED BY <3>2, <4>2, <4>3
    <3> QED BY <3>1, <3>2
  <2>9. \A j \in 1 .. m - 1 : ~ (r[j].tag = Free /\ r[j + 1].tag = Free)
    <3> TAKE j \in 1 .. m - 1
    <3>1. j \in 1 .. m /\ j + 1 \in 1 .. m
      BY <1>3, <1>m
    <3>2. ~ (k[j].tag = Free /\ k[j + 1].tag = Free)
      BY <1>3 DEF KeptSound
    <3> QED BY <2>6, <3>1, <3>2
  <2>10. ASSUME NEW i \in 1 .. n + 1, header[list[i]].tag = Tag
         PROVE  \E j \in 1 .. m : r[j] = [at |-> list[i], tag |-> Tag, size |-> header[list[i]].size]
    <3>1. i \in 1 .. n
      BY <1>6, <1>7, <2>10 DEF Free, Tag
    <3>2. PICK j \in 1 .. m : k[j] = [at |-> list[i], tag |-> Tag, size |-> header[list[i]].size]
      BY <1>3, <1>m, <2>10, <3>1 DEF KeptSound
    <3>3. j # m
      BY <1>7, <3>2 DEF Free, Tag
    <3>4. r[j] = k[j]
      BY <2>5, <3>3
    <3> QED BY <3>2, <3>4
  <2> QED BY <2>5, <2>7, <2>8, <2>9, <2>10 DEF KeptSound, r
<1>8. CASE ~ (k[m].tag = Free /\ header[h].tag = Free)
  <2>1. r = Append(k, block)
    BY <1>5, <1>8 DEF Joined
  <2>2. block \in Kept /\ block.at = h /\ block.tag = header[h].tag /\ block.size = header[h].size
    BY <1>1, <1>2 DEF Kept, Headers
  <2> HIDE DEF r, block
  <2>3. /\ r \in Seq(Kept) /\ Len(r) = m + 1 /\ r[m + 1] = block
        /\ \A j \in 1 .. m : r[j] = k[j]
    BY <1>3, <1>m, <2>1, <2>2, AppendProperties
  <2>4. r # <<>> /\ DOMAIN r = 1 .. m + 1 /\ r[1].at = AddressStart
    <3>1. r # <<>> /\ DOMAIN r = 1 .. m + 1 /\ r[1] = k[1]
      BY <1>3, <1>m, <2>3
    <3> QED BY <3>1 DEF KeptSound
  <2>5. ASSUME NEW j \in 1 .. m + 1
        PROVE  r[j].at + HeaderSize + r[j].size = IF j = m + 1 THEN MemoryEnd(h) ELSE r[j + 1].at
    <3>1. CASE j = m + 1
      BY <2>2, <2>3, <3>1 DEF MemoryEnd
    <3>2. CASE j = m
      <4>1. r[j] = k[m] /\ r[j + 1].at = h /\ j # m + 1
        BY <1>3, <1>m, <2>2, <2>3, <3>2
      <4> QED BY <1>5, <4>1
    <3>3. CASE j < m
      <4>1. j + 1 \in 1 .. m /\ j \in 1 .. m /\ j # m /\ j # m + 1
        BY <1>m, <3>3
      <4>2. k[j].at + HeaderSize + k[j].size = k[j + 1].at
        BY <1>3, <1>m, <4>1 DEF KeptSound
      <4> QED BY <2>3, <4>1, <4>2
    <3> QED BY <1>3, <1>m, <3>1, <3>2, <3>3
  <2>6. \A j \in 1 .. m + 1 - 1 : ~ (r[j].tag = Free /\ r[j + 1].tag = Free)
    <3> TAKE j \in 1 .. m + 1 - 1
    <3>1. CASE j = m
      <4>1. r[j] = k[m] /\ r[j + 1] = block
        BY <1>3, <1>m, <2>3, <3>1
      <4> QED BY <1>8, <2>2, <4>1
    <3>2. CASE j < m
      <4>1. j \in 1 .. m - 1 /\ j \in 1 .. m /\ j + 1 \in 1 .. m
        BY <1>3, <1>m, <3>2
      <4>2. ~ (k[j].tag = Free /\ k[j + 1].tag = Free)
        BY <1>3, <4>1 DEF KeptSound
      <4> QED BY <2>3, <4>1, <4>2
    <3> QED BY <1>3, <1>m, <3>1, <3>2
  <2>7. ASSUME NEW i \in 1 .. n + 1, header[list[i]].tag = Tag
         PROVE  \E j \in 1 .. m + 1 : r[j] = [at |-> list[i], tag |-> Tag, size |-> header[list[i]].size]
    <3>1. CASE i = n + 1
      <4>1. r[m + 1] = [at |-> list[i], tag |-> Tag, size |-> header[list[i]].size]
        BY <2>3, <2>7, <3>1 DEF block
      <4> QED BY <1>3, <1>m, <4>1
    <3>2. CASE i \in 1 .. n
      <4>1. PICK j \in 1 .. m : k[j] = [at |-> list[i], tag |-> Tag, size |-> header[list[i]].size]
        BY <1>3, <1>m, <2>7, <3>2 DEF KeptSound
      <4>2. j \in 1 .. m + 1 /\ r[j] = k[j]
        BY <1>3, <1>m, <2>3
      <4> QED BY <4>1, <4>2
    <3> QED BY <1>6, <3>1, <3>2
  <2>8. \A j \in DOMAIN r :
          r[j].at + HeaderSize + r[j].size = IF j = Len(r) THEN MemoryEnd(h) ELSE r[j + 1].at
    BY <2>3, <2>4, <2>5
  <2>l. Len(r) = m + 1
    BY <2>3
  <2>r. Len(r) - 1 = m + 1 - 1
    BY <1>m, <2>l
  <2>9. \A j \in 1 .. Len(r) - 1 : ~ (r[j].tag = Free /\ r[j + 1].tag = Free)
    BY <2>6, <2>r
  <2>10. \A i \in 1 .. n + 1 : header[list[i]].tag = Tag =>
           \E j \in DOMAIN r : r[j] = [at |-> list[i], tag |-> Tag, size |-> header[list[i]].size]
    BY <2>4, <2>7
  <2>11. KeptSound(r, n + 1)
    BY <2>3, <2>4, <2>8, <2>9, <2>10 DEF KeptSound
  <2> QED BY <2>11 DEF r
<1> QED BY <1>7, <1>8

\* The whole walk.
LEMMA MergedSound ==
  ASSUME list \in Seq(Addresses), header \in [Addresses -> Headers], Tiles(list, header)
  PROVE  KeptSound(Merged[Len(list)], Len(list))
<1> USE PoolAssumption
<1>1. Len(list) \in Nat \ {0} /\ DOMAIN list = 1 .. Len(list)
  BY DEF Tiles
<1>2. /\ Merged[0] = <<>>
      /\ \A n \in 1 .. Len(list) : Merged[n] = Joined(Merged[n - 1], list[n])
  BY <1>1, MergedDefined
<1> DEFINE S == {n \in 0 .. Len(list) - 1 : KeptSound(Merged[n + 1], n + 1)}
<1>3. 0 \in S
  <2> DEFINE h == list[1]
             b == [at |-> h, tag |-> header[h].tag, size |-> header[h].size]
  <2>1. h \in Addresses /\ header[h] \in Headers
    BY <1>1
  <2>2. b \in Kept
    BY <2>1 DEF Kept, Headers
  <2>3. Merged[1] = Append(<<>>, b)
    <3>1. Merged[1] = Joined(<<>>, h)
      BY <1>1, <1>2
    <3> QED BY <3>1 DEF Joined
  <2> HIDE DEF b
  <2>4. Append(<<>>, b) = <<b>>
    OBVIOUS
  <2>5. Merged[1] = <<b>> /\ <<b>> \in Seq(Kept) /\ Len(<<b>>) = 1 /\ <<b>>[1] = b
    BY <2>2, <2>3, <2>4
  <2>6. h = AddressStart /\ b.at = h /\ b.size = header[h].size /\ b.tag = header[h].tag
    BY DEF b, Tiles
  <2>7. b.at + HeaderSize + b.size = MemoryEnd(list[1])
    BY <2>6 DEF MemoryEnd
  <2>8. \A i \in 1 .. 1 : header[list[i]].tag = Tag =>
          b = [at |-> list[i], tag |-> Tag, size |-> header[list[i]].size]
    BY DEF b
  <2>9. KeptSound(<<b>>, 1)
    BY <2>5, <2>6, <2>7, <2>8 DEF KeptSound
  <2>10. 0 \in 0 .. Len(list) - 1 /\ 0 + 1 = 1
    BY <1>1
  <2> QED BY <2>5, <2>9, <2>10
<1>4. ASSUME NEW n \in 0 .. Len(list) - 1, n \in S, n < Len(list) - 1 PROVE n + 1 \in S
  <2>1. /\ n + 1 \in 1 .. Len(list) /\ n + 1 < Len(list) /\ n + 1 + 1 \in 1 .. Len(list)
        /\ n + 1 + 1 - 1 = n + 1 /\ n + 1 \in 0 .. Len(list) - 1
    BY <1>1, <1>4
  <2>2. KeptSound(Joined(Merged[n + 1], list[n + 1 + 1]), n + 1 + 1)
    BY <1>4, <2>1, JoinedSound
  <2>3. Merged[n + 1 + 1] = Joined(Merged[n + 1], list[n + 1 + 1])
    BY <1>2, <2>1
  <2> QED BY <2>1, <2>2, <2>3
<1>5. Len(list) - 1 \in S
  <2> HIDE DEF S
  <2>1. Len(list) - 1 \in Nat
    BY <1>1
  <2>2. 0 .. Len(list) - 1 \subseteq S
    BY <2>1, <1>3, <1>4, CountingUp
  <2> QED BY <2>1, <2>2
<1>6. Len(list) - 1 + 1 = Len(list)
  BY <1>1
<1> QED BY <1>5, <1>6

-----------------------------------------------------------------------------
\* The blocks that a caller answers for: those it holds, and the one whose tag
\* ExFreePoolWithTag has yet to clear.
BlockOf(t) == [data |-> calls[t].data, size |-> calls[t].size]
Has(t) == held[t] \cup (IF calls[t].at = "freeing" THEN {BlockOf(t)} ELSE {})

\* Such a block is on the list, allocated with its size, and no one else's.
Ownership ==
  /\ \A t \in Callers : \A b \in Has(t) :
       b.data - HeaderSize \in ToSet(list) /\ header[b.data - HeaderSize] = Header(Tag, b.size)
  /\ \A t, u \in Callers : \A b \in Has(t), c \in Has(u) : b.data = c.data => t = u /\ b = c
  /\ \A t \in Callers : calls[t].at = "freeing" => BlockOf(t) \notin held[t]
  /\ \A t \in Callers : calls[t].at = "filling" => BlockOf(t) \in held[t]

\* The inductive invariant.
PoolInv ==
  /\ TypeOK
  /\ Tiles(list, header)
  /\ FreeBlocksAreMerged
  /\ StopsAreTheCallers
  /\ Ownership
  /\ BlocksKeepTheirData

\* Two blocks of the list do not share a byte.
LEMMA BlocksApart ==
  ASSUME list \in Seq(Addresses), header \in [Addresses -> Headers], Tiles(list, header),
         NEW g \in ToSet(list), NEW h \in ToSet(list), g # h
  PROVE  MemoryEnd(g) <= h \/ MemoryEnd(h) <= g
<1>1. PICK i \in DOMAIN list : g = list[i]
  BY DEF ToSet
<1>2. PICK j \in DOMAIN list : h = list[j]
  BY DEF ToSet
<1>3. i < j \/ j < i
  <2>1. DOMAIN list \subseteq Nat /\ i # j
    BY <1>1, <1>2
  <2> QED BY <2>1
<1>4. CASE i < j
  BY <1>1, <1>2, <1>4, TilesApart DEF MemoryEnd
<1>5. CASE j < i
  BY <1>1, <1>2, <1>5, TilesApart DEF MemoryEnd
<1> QED BY <1>3, <1>4, <1>5

\* A block of the list lies in the region and has a header and a size.
LEMMA BlockInside ==
  ASSUME list \in Seq(Addresses), header \in [Addresses -> Headers], Tiles(list, header),
         NEW h \in ToSet(list)
  PROVE  /\ h \in Addresses /\ h \in Nat /\ AddressStart <= h /\ header[h] \in Headers
         /\ header[h].known /\ header[h].size \in Nat
         /\ MemoryEnd(h) \in Nat /\ MemoryEnd(h) = h + HeaderSize + header[h].size
         /\ MemoryEnd(h) <= AddressEnd
<1> USE PoolAssumption
<1>1. PICK i \in DOMAIN list : h = list[i]
  BY DEF ToSet
<1>2. /\ AddressStart <= h /\ header[h].size \in Nat
      /\ h + HeaderSize + header[h].size <= AddressEnd
  BY <1>1, TilesInside
<1>3. h \in Addresses /\ header[h].known
  BY <1>1 DEF Tiles
<1>4. header[h] \in Headers /\ h \in Nat
  BY <1>3 DEF Addresses
<1> QED BY <1>2, <1>3, <1>4 DEF MemoryEnd

\* What the invariant says of a block that a caller has.
LEMMA OwnedBlock ==
  ASSUME PoolInv, NEW t \in Callers, NEW b \in Has(t)
  PROVE  /\ b.data \in Nat /\ b.size \in Nat /\ b.data - HeaderSize \in ToSet(list)
         /\ b.data - HeaderSize \in Addresses /\ b.data - HeaderSize \in Int
         /\ header[b.data - HeaderSize] = Header(Tag, b.size)
         /\ MemoryEnd(b.data - HeaderSize) = b.data + b.size
         /\ b.data + b.size <= AddressEnd
         /\ AddressStart + HeaderSize <= b.data
<1> USE PoolAssumption
<1>1. b.data \in Nat /\ b.size \in Nat
  <2>1. CASE b \in held[t]
    <3>1. b \in [data : AddressStart .. AddressEnd, size : Sizes]
      BY <2>1 DEF PoolInv, TypeOK
    <3>2. b.data \in AddressStart .. AddressEnd /\ b.size \in Sizes
      BY <3>1
    <3>3. \A x \in AddressStart .. AddressEnd : x \in Nat
      OBVIOUS
    <3>4. b.data \in Nat
      BY <3>2, <3>3, Zenon
    <3>5. b.size \in Nat
      BY <3>2
    <3> QED BY <3>4, <3>5
  <2>2. CASE calls[t].at = "freeing" /\ b = BlockOf(t)
    <3>1. calls[t] \in [at : Steps, data : 0 .. AddressEnd, size : Sizes \cup {0}]
      BY DEF PoolInv, TypeOK
    <3>2. b.data \in 0 .. AddressEnd /\ b.size \in Sizes \cup {0}
      BY <2>2, <3>1 DEF BlockOf
    <3>3. \A x \in Sizes \cup {0} : x \in Nat
      OBVIOUS
    <3>4. \A x \in 0 .. AddressEnd : x \in Nat
      OBVIOUS
    <3>5. b.data \in Nat
      BY <3>2, <3>4, Zenon
    <3>6. b.size \in Nat
      BY <3>2, <3>3, Zenon
    <3> QED BY <3>5, <3>6
  <2> QED BY <2>1, <2>2 DEF Has
<1>2. /\ b.data - HeaderSize \in ToSet(list)
      /\ header[b.data - HeaderSize] = Header(Tag, b.size)
  BY DEF PoolInv, Ownership
<1>3. list \in Seq(Addresses) /\ header \in [Addresses -> Headers] /\ Tiles(list, header)
  BY DEF PoolInv, TypeOK, Headers
<1> DEFINE h == b.data - HeaderSize
<1>4. /\ h \in Addresses /\ h \in Nat /\ AddressStart <= h
      /\ MemoryEnd(h) = h + HeaderSize + header[h].size /\ MemoryEnd(h) <= AddressEnd
  BY <1>2, <1>3, BlockInside
<1>5. header[h].size = b.size
  BY <1>2 DEF Header
<1>6. h + HeaderSize = b.data
  BY <1>1
<1> HIDE DEF h
<1>7. MemoryEnd(h) = b.data + b.size
  BY <1>4, <1>5, <1>6
<1>8. AddressStart + HeaderSize <= b.data
  BY <1>1, <1>4, <1>6
<1> QED BY <1>1, <1>2, <1>4, <1>7, <1>8 DEF h

\* The data of different blocks do not share a byte, nor does data share one
\* with a header of the list.
LEMMA OwnedApart ==
  ASSUME PoolInv, NEW t \in Callers, NEW b \in Has(t)
  PROVE  /\ \A u \in Callers : \A c \in Has(u) :
              t # u \/ b # c => Span(b.data, b.size) \cap Span(c.data, c.size) = {}
         /\ \A h \in ToSet(list) : Span(b.data, b.size) \cap Span(h, HeaderSize) = {}
<1> USE PoolAssumption
<1>1. list \in Seq(Addresses) /\ header \in [Addresses -> Headers] /\ Tiles(list, header)
  BY DEF PoolInv, TypeOK, Headers
<1> DEFINE g == b.data - HeaderSize
<1>2. /\ b.data \in Nat /\ b.size \in Nat /\ g \in ToSet(list) /\ g \in Int
      /\ MemoryEnd(g) = b.data + b.size /\ g + HeaderSize = b.data
  BY OwnedBlock
<1> HIDE DEF g
<1>3. ASSUME NEW u \in Callers, NEW c \in Has(u), t # u \/ b # c
      PROVE  Span(b.data, b.size) \cap Span(c.data, c.size) = {}
  <2> DEFINE h == c.data - HeaderSize
  <2>1. /\ c.data \in Nat /\ c.size \in Nat /\ h \in ToSet(list) /\ h \in Int
        /\ MemoryEnd(h) = c.data + c.size /\ h + HeaderSize = c.data
    BY OwnedBlock
  <2>2. b.data # c.data
    BY <1>3 DEF PoolInv, Ownership
  <2> HIDE DEF h
  <2>3. g # h
    BY <1>2, <2>1, <2>2
  <2>4. MemoryEnd(g) <= h \/ MemoryEnd(h) <= g
    BY <1>1, <1>2, <2>1, <2>3, BlocksApart
  <2> QED BY <1>2, <2>1, <2>4 DEF Span
<1>4. ASSUME NEW h \in ToSet(list) PROVE Span(b.data, b.size) \cap Span(h, HeaderSize) = {}
  <2>1. h \in Nat /\ MemoryEnd(h) = h + HeaderSize + header[h].size /\ header[h].size \in Nat
    BY <1>1, BlockInside
  <2>2. CASE g = h
    BY <1>2, <2>1, <2>2 DEF Span
  <2>3. CASE g # h
    <3>1. MemoryEnd(g) <= h \/ MemoryEnd(h) <= g
      BY <1>1, <1>2, <2>3, BlocksApart
    <3> QED BY <1>2, <2>1, <3>1 DEF Span
  <2> QED BY <2>2, <2>3
<1> QED BY <1>3, <1>4

\* Headers of blocks that keep their sizes still tile the region.
LEMMA TilesKept ==
  ASSUME NEW l, NEW hd, NEW new, Tiles(l, hd),
         \A i \in DOMAIN l : new[l[i]].known /\ new[l[i]].size = hd[l[i]].size
  PROVE  Tiles(l, new)
BY DEF Tiles

-----------------------------------------------------------------------------
\* The region is one free block.
LEMMA PoolInvInit == Init => PoolInv
<1> SUFFICES ASSUME Init PROVE PoolInv
  OBVIOUS
<1> USE PoolAssumption DEF Init
<1> DEFINE n == AddressEnd - AddressStart - HeaderSize
<1>1. AddressStart \in Addresses /\ n \in Nat /\ AddressStart + HeaderSize + n = AddressEnd
  BY DEF Addresses
<1>2. list \in Seq(Addresses) /\ Len(list) = 1 /\ list[1] = AddressStart /\ DOMAIN list = {1}
  BY <1>1
<1>3. header[AddressStart] = Header(Free, n)
  BY <1>1
<1>4. header \in [Addresses -> Headers]
  BY <1>1 DEF Headers, Header, Junk
<1>5. TypeOK
  <2>1. bytes \in [Addresses -> Callers \cup {"header", "nothing"}]
    OBVIOUS
  <2>2. held \in [Callers -> SUBSET [data : AddressStart .. AddressEnd, size : Sizes]]
    OBVIOUS
  <2>3. calls \in [Callers -> [at : Steps, data : 0 .. AddressEnd, size : Sizes \cup {0}]]
    BY DEF Idle, Steps
  <2> QED BY <1>2, <1>4, <2>1, <2>2, <2>3 DEF TypeOK, Headers
<1>6. Tiles(list, header)
  BY <1>1, <1>2, <1>3 DEF Tiles, Header
<1>7. FreeBlocksAreMerged
  BY <1>2 DEF FreeBlocksAreMerged
<1>8. \A t \in Callers : held[t] = {} /\ calls[t].at = "idle" /\ Has(t) = {}
  BY DEF Idle, Has
<1>9. Ownership
  BY <1>8 DEF Ownership
<1>10. BlocksKeepTheirData
  BY <1>8 DEF BlocksKeepTheirData
<1> QED BY <1>5, <1>6, <1>7, <1>9, <1>10 DEF PoolInv, StopsAreTheCallers

-----------------------------------------------------------------------------
\* The parts of the invariant that nearly every step needs.
LEMMA Typed ==
  ASSUME PoolInv
  PROVE  /\ list \in Seq(Addresses) /\ header \in [Addresses -> Headers]
         /\ Tiles(list, header)
         /\ \A t \in Callers : calls[t] \in [at : Steps, data : 0 .. AddressEnd, size : Sizes \cup {0}]
         /\ \A t \in Callers : held[t] \subseteq Has(t)
BY DEF PoolInv, TypeOK, Headers, Has

\* A caller that got no block gives up.
LEMMA GiveUpKeeps ==
  ASSUME PoolInv, NEW t \in Callers, GiveUp(t) PROVE PoolInv'
<1> USE DEF GiveUp
<1>1. /\ calls' = [calls EXCEPT ![t] = Idle] /\ calls[t].at = "failed"
      /\ \A u \in Callers : calls'[u] = IF u = t THEN Idle ELSE calls[u]
  BY DEF PoolInv, TypeOK
<1>2. Idle \in [at : Steps, data : 0 .. AddressEnd, size : Sizes \cup {0}]
  BY PoolAssumption DEF Idle, Steps
<1>3. TypeOK'
  BY <1>1, <1>2 DEF PoolInv, TypeOK
<1>4. \A u \in Callers : Has(u)' = Has(u)
  BY <1>1 DEF Has, BlockOf, Idle
<1>5. Tiles(list, header)'
  BY DEF PoolInv
<1>6. FreeBlocksAreMerged'
  BY <1>1 DEF PoolInv, FreeBlocksAreMerged
<1>7. Ownership'
  <2>1. \A u \in Callers : \A b \in Has(u)' :
          b.data - HeaderSize \in ToSet(list) /\ header[b.data - HeaderSize] = Header(Tag, b.size)
    BY <1>4 DEF PoolInv, Ownership
  <2>2. \A s, u \in Callers : \A b \in Has(s)', c \in Has(u)' : b.data = c.data => s = u /\ b = c
    BY <1>4 DEF PoolInv, Ownership
  <2>3. \A u \in Callers : calls'[u].at = "freeing" => BlockOf(u)' \notin held[u]
    BY <1>1 DEF PoolInv, Ownership, BlockOf, Idle
  <2>4. \A u \in Callers : calls'[u].at = "filling" => BlockOf(u)' \in held[u]
    BY <1>1 DEF PoolInv, Ownership, BlockOf, Idle
  <2> QED BY <2>1, <2>2, <2>3, <2>4 DEF Ownership
<1>8. BlocksKeepTheirData'
  BY <1>1 DEF PoolInv, BlocksKeepTheirData, Idle
<1> QED BY <1>3, <1>5, <1>6, <1>7, <1>8 DEF PoolInv, StopsAreTheCallers

\* Writing a block leaves every header of the list and the data of every other
\* block as they are.
LEMMA FillKeeps ==
  ASSUME PoolInv, NEW t \in Callers, Fill(t) PROVE PoolInv'
<1> DEFINE d == calls[t].data
           n == calls[t].size
           mine == Span(d, n)
           B == BlockOf(t)
<1>1. /\ bytes' = BytesWritten(mine, t)
      /\ header' = [a \in Addresses |-> IF Span(a, HeaderSize) \cap mine # {} THEN Junk ELSE header[a]]
      /\ calls' = [calls EXCEPT ![t] = Idle] /\ calls[t].at = "filling"
      /\ UNCHANGED <<list, held, stopped>>
  BY DEF Fill
<1>2. B \in held[t] /\ B \in Has(t) /\ B.data = d /\ B.size = n
  BY <1>1 DEF PoolInv, Ownership, Has, BlockOf
<1>3. \A h \in ToSet(list) : header'[h] = header[h]
  <2> TAKE h \in ToSet(list)
  <2>1. h \in Addresses
    BY Typed, BlockInside
  <2>2. mine \cap Span(h, HeaderSize) = {}
    BY <1>2, OwnedApart
  <2> QED BY <1>1, <2>1, <2>2
<1>4. \A u \in Callers : \A c \in held[u] : (u # t \/ c # B) => mine \cap Span(c.data, c.size) = {}
  BY <1>2, OwnedApart, Typed
<1>5. \A u \in Callers : calls'[u] = IF u = t THEN Idle ELSE calls[u]
  BY <1>1, Typed DEF PoolInv, TypeOK
<1> HIDE DEF mine, B, d, n
<1>6. TypeOK'
  <2>1. bytes' \in [Addresses -> Callers \cup {"header", "nothing"}]
    BY <1>1 DEF BytesWritten, PoolInv, TypeOK
  <2>2. header' \in [Addresses -> Headers]
    <3>1. Junk \in Headers
      BY DEF Junk, Headers
    <3> QED BY <1>1, <3>1, Typed
  <2>3. Idle \in [at : Steps, data : 0 .. AddressEnd, size : Sizes \cup {0}]
    BY PoolAssumption DEF Idle, Steps
  <2>4. calls' \in [Callers -> [at : Steps, data : 0 .. AddressEnd, size : Sizes \cup {0}]]
    BY <1>1, <2>3 DEF PoolInv, TypeOK
  <2> QED BY <1>1, <2>1, <2>2, <2>4 DEF PoolInv, TypeOK, Headers
<1>7. \A i \in DOMAIN list : list[i] \in ToSet(list) /\ header'[list[i]] = header[list[i]]
  BY <1>3 DEF ToSet
<1>8. Tiles(list, header)'
  <2>1. Tiles(list, header')
    <3>1. \A i \in DOMAIN list : header'[list[i]].known /\ header'[list[i]].size = header[list[i]].size
      BY <1>7, Typed DEF Tiles
    <3> QED BY <3>1, Typed, TilesKept
  <2> QED BY <1>1, <2>1
<1>9. FreeBlocksAreMerged'
  <2> SUFFICES ASSUME \A u \in Callers : calls'[u].at # "merging", NEW i \in 1 .. Len(list) - 1
               PROVE  ~(header'[list[i]].tag = Free /\ header'[list[i + 1]].tag = Free)
    BY <1>1 DEF FreeBlocksAreMerged
  <2>1. \A u \in Callers : calls[u].at # "merging"
    BY <1>1, <1>5
  <2>2. i \in DOMAIN list /\ i + 1 \in DOMAIN list
    <3>1. list \in Seq(Addresses)
      BY Typed
    <3> QED BY <3>1
  <2> QED BY <1>7, <2>1, <2>2 DEF PoolInv, FreeBlocksAreMerged
<1>10. \A u \in Callers : Has(u)' = Has(u)
  BY <1>1, <1>5 DEF Has, BlockOf, Idle
<1>11. Ownership'
  <2>1. \A u \in Callers : \A b \in Has(u)' :
          b.data - HeaderSize \in ToSet(list) /\ header'[b.data - HeaderSize] = Header(Tag, b.size)
    BY <1>3, <1>10 DEF PoolInv, Ownership
  <2>2. \A s, u \in Callers : \A b \in Has(s)', c \in Has(u)' : b.data = c.data => s = u /\ b = c
    BY <1>10 DEF PoolInv, Ownership
  <2>3. \A u \in Callers : calls'[u].at = "freeing" => BlockOf(u)' \notin held[u]
    BY <1>5 DEF PoolInv, Ownership, BlockOf, Idle
  <2>4. \A u \in Callers : calls'[u].at = "filling" => BlockOf(u)' \in held[u]
    BY <1>5 DEF PoolInv, Ownership, BlockOf, Idle
  <2> QED BY <1>1, <2>1, <2>2, <2>3, <2>4 DEF Ownership
<1>12. BlocksKeepTheirData'
  <2> SUFFICES ASSUME NEW u \in Callers, NEW c \in held[u]
               PROVE  /\ c.data % Alignment(c.size) = 0
                      /\ header'[c.data - HeaderSize] = Header(Tag, c.size)
                      /\ (calls'[u].at = "filling" => calls'[u].data # c.data)
                           => \A a \in Span(c.data, c.size) : bytes'[a] = u
    BY <1>1 DEF BlocksKeepTheirData
  <2>1. c.data % Alignment(c.size) = 0
    BY DEF PoolInv, BlocksKeepTheirData
  <2>2. header'[c.data - HeaderSize] = Header(Tag, c.size)
    BY <1>1, <1>10, <1>11, Typed DEF Ownership
  <2>3. Span(c.data, c.size) \subseteq Addresses
    <3>1. /\ c.data \in Nat /\ c.size \in Nat /\ c.data + c.size <= AddressEnd
          /\ AddressStart + HeaderSize <= c.data
      BY OwnedBlock, Typed
    <3> QED BY <3>1, PoolAssumption DEF Span, Addresses
  <2>4. CASE u = t /\ c = B
    BY <1>1, <1>2, <2>1, <2>2, <2>3, <2>4 DEF BytesWritten, mine
  <2>5. CASE u # t \/ c # B
    <3>1. mine \cap Span(c.data, c.size) = {}
      BY <1>4, <2>5
    <3>2. \A a \in Span(c.data, c.size) : bytes'[a] = bytes[a]
      BY <1>1, <2>3, <3>1 DEF BytesWritten
    <3>3. u = t => calls[u].data # c.data
      <4>1. CASE u = t
        <5>1. c # B /\ c \in Has(t)
          BY <2>5, <4>1, Typed
        <5>2. B.data # c.data
          BY <1>2, <5>1 DEF PoolInv, Ownership
        <5> QED BY <1>2, <4>1, <5>2 DEF d
      <4> QED BY <4>1
    <3>4. (calls'[u].at = "filling" => calls'[u].data # c.data)
            => (calls[u].at = "filling" => calls[u].data # c.data)
      BY <1>5, <3>3
    <3> QED BY <2>1, <2>2, <3>2, <3>4 DEF PoolInv, BlocksKeepTheirData
  <2> QED BY <2>4, <2>5
<1> QED BY <1>1, <1>6, <1>8, <1>9, <1>11, <1>12 DEF PoolInv, StopsAreTheCallers

\* The checks before ExFreePoolWithTag's first lock section: the block of a
\* caller is not free, and stays the caller's.
LEMMA FreeKeeps ==
  ASSUME PoolInv, NEW t \in Callers, NEW b \in held[t], NEW irql \in Irqls,
         ExFreePoolWithTag(t, b, irql)
  PROVE  PoolInv'
<1>1. calls[t] = Idle /\ UNCHANGED <<list, header, bytes>>
  BY DEF ExFreePoolWithTag
<1>2. b \in Has(t) /\ header[b.data - HeaderSize] = Header(Tag, b.size)
  BY Typed DEF PoolInv, Ownership
<1>3. header[b.data - HeaderSize].tag # Free
  BY <1>2 DEF Header, Tag, Free
<1>4. CASE UNCHANGED <<held, calls>> /\ stopped' = "irql"
  <2>1. TypeOK' /\ Tiles(list, header)' /\ FreeBlocksAreMerged' /\ Ownership' /\ BlocksKeepTheirData'
    BY <1>1, <1>4 DEF PoolInv, TypeOK, Tiles, FreeBlocksAreMerged, MemoryEnd,
       Ownership, Has, BlockOf, BlocksKeepTheirData
  <2> QED BY <1>4, <2>1 DEF PoolInv, StopsAreTheCallers
<1>5. CASE /\ calls' = [calls EXCEPT ![t] = [at |-> "freeing", data |-> b.data, size |-> b.size]]
           /\ held' = [held EXCEPT ![t] = @ \ {b}]
           /\ UNCHANGED stopped
  <2>1. b \in [data : AddressStart .. AddressEnd, size : Sizes]
    BY DEF PoolInv, TypeOK
  <2>2. b = [data |-> b.data, size |-> b.size] /\ b.size \in Sizes /\ b.data \in AddressStart .. AddressEnd
    BY <2>1
  <2> DEFINE c == [at |-> "freeing", data |-> b.data, size |-> b.size]
  <2>3. c \in [at : Steps, data : 0 .. AddressEnd, size : Sizes \cup {0}]
    BY <2>2, PoolAssumption DEF Steps
  <2>4. /\ \A u \in Callers : calls'[u] = IF u = t THEN c ELSE calls[u]
        /\ \A u \in Callers : held'[u] = IF u = t THEN held[t] \ {b} ELSE held[u]
    BY <1>5, Typed DEF PoolInv, TypeOK
  <2>5. c.at = "freeing" /\ c.data = b.data /\ c.size = b.size /\ calls[t].at = "idle"
    BY <1>1 DEF Idle
  <2> HIDE DEF c
  <2>6. TypeOK'
    <3>1. calls' \in [Callers -> [at : Steps, data : 0 .. AddressEnd, size : Sizes \cup {0}]]
      BY <1>5, <2>3 DEF PoolInv, TypeOK, c
    <3>2. held' \in [Callers -> SUBSET [data : AddressStart .. AddressEnd, size : Sizes]]
      BY <1>5 DEF PoolInv, TypeOK
    <3> QED BY <1>1, <1>5, <3>1, <3>2 DEF PoolInv, TypeOK
  <2>7. Tiles(list, header)'
    BY <1>1 DEF PoolInv, Tiles
  <2>8. FreeBlocksAreMerged'
    <3>1. (\A u \in Callers : calls'[u].at # "merging") => (\A u \in Callers : calls[u].at # "merging")
      BY <2>4, <2>5
    <3> QED BY <1>1, <3>1 DEF PoolInv, FreeBlocksAreMerged
  <2>9. BlockOf(t)' = b
    BY <2>2, <2>4, <2>5 DEF BlockOf
  <2>10. \A u \in Callers : Has(u)' = Has(u)
    <3> TAKE u \in Callers
    <3>1. CASE u = t
      BY <2>4, <2>5, <2>9, <3>1 DEF Has
    <3>2. CASE u # t
      BY <2>4, <3>2 DEF Has, BlockOf
    <3> QED BY <3>1, <3>2
  <2>11. Ownership'
    <3>1. \A u \in Callers : \A e \in Has(u)' :
            e.data - HeaderSize \in ToSet(list) /\ header[e.data - HeaderSize] = Header(Tag, e.size)
      BY <2>10 DEF PoolInv, Ownership
    <3>2. \A s, u \in Callers : \A e \in Has(s)', f \in Has(u)' : e.data = f.data => s = u /\ e = f
      BY <2>10 DEF PoolInv, Ownership
    <3>3. \A u \in Callers : calls'[u].at = "freeing" => BlockOf(u)' \notin held'[u]
      <4> TAKE u \in Callers
      <4>1. CASE u = t
        BY <2>4, <2>9, <4>1
      <4>2. CASE u # t
        BY <2>4, <4>2 DEF PoolInv, Ownership, BlockOf
      <4> QED BY <4>1, <4>2
    <3>4. \A u \in Callers : calls'[u].at = "filling" => BlockOf(u)' \in held'[u]
      <4> TAKE u \in Callers
      <4>1. CASE u = t
        BY <2>4, <2>5, <4>1
      <4>2. CASE u # t
        BY <2>4, <4>2 DEF PoolInv, Ownership, BlockOf
      <4> QED BY <4>1, <4>2
    <3> QED BY <1>1, <3>1, <3>2, <3>3, <3>4 DEF Ownership
  <2>12. BlocksKeepTheirData'
    <3> SUFFICES ASSUME NEW u \in Callers, NEW e \in held'[u]
                 PROVE  /\ e.data % Alignment(e.size) = 0
                        /\ header[e.data - HeaderSize] = Header(Tag, e.size)
                        /\ (calls'[u].at = "filling" => calls'[u].data # e.data)
                             => \A a \in Span(e.data, e.size) : bytes[a] = u
      BY <1>1 DEF BlocksKeepTheirData
    <3>1. e \in held[u]
      BY <2>4
    <3>2. calls[u].at = "filling" => calls'[u] = calls[u]
      BY <2>4, <2>5
    <3> QED BY <3>1, <3>2 DEF PoolInv, BlocksKeepTheirData
  <2> QED BY <1>5, <2>6, <2>7, <2>8, <2>11, <2>12 DEF PoolInv, StopsAreTheCallers
<1> QED BY <1>3, <1>4, <1>5 DEF ExFreePoolWithTag

\* The first lock section of ExFreePoolWithTag: no one else has the block that
\* becomes free.
LEMMA ClearTagKeeps ==
  ASSUME PoolInv, NEW t \in Callers, ClearTag(t) PROVE PoolInv'
<1> DEFINE B == BlockOf(t)
           g == B.data - HeaderSize
           c == [calls[t] EXCEPT !.at = "merging"]
<1>1. /\ header' = [header EXCEPT ![calls[t].data - HeaderSize].tag = Free]
      /\ calls' = [calls EXCEPT ![t].at = "merging"] /\ calls[t].at = "freeing"
      /\ UNCHANGED <<list, bytes, held, stopped>>
  BY DEF ClearTag
<1>2. B \in Has(t) /\ B.data = calls[t].data /\ B \notin held[t]
  BY <1>1 DEF Has, BlockOf, PoolInv, Ownership
<1>3. g \in ToSet(list) /\ g \in Addresses /\ header[g] = Header(Tag, B.size)
  BY <1>2, OwnedBlock
<1>4. header' = [header EXCEPT ![g].tag = Free]
  BY <1>1, <1>2
<1>5. /\ \A u \in Callers : calls'[u] = IF u = t THEN c ELSE calls[u]
      /\ c.at = "merging" /\ c.data = calls[t].data /\ c.size = calls[t].size
  BY <1>1, Typed DEF PoolInv, TypeOK
<1>6. c \in [at : Steps, data : 0 .. AddressEnd, size : Sizes \cup {0}]
  BY Typed DEF Steps
<1>7. calls' = [calls EXCEPT ![t] = c]
  BY <1>1
<1> HIDE DEF B, g, c
<1>8. /\ header' \in [Addresses -> Headers]
      /\ \A a \in Addresses : /\ header'[a].known = header[a].known
                              /\ header'[a].size = header[a].size
                              /\ a # g => header'[a] = header[a]
  <2>1. \A a \in Addresses : header'[a] = IF a = g THEN [header[g] EXCEPT !.tag = Free] ELSE header[a]
    BY <1>3, <1>4, Typed
  <2>2. header[g] \in Headers
    BY <1>3, Typed
  <2>3. [header[g] EXCEPT !.tag = Free] \in Headers
    BY <2>2 DEF Headers
  <2>4. header' \in [Addresses -> Headers]
    BY <1>3, <1>4, <2>3, Typed
  <2> QED BY <2>1, <2>2, <2>4 DEF Headers
<1>9. TypeOK'
  <2>1. calls' \in [Callers -> [at : Steps, data : 0 .. AddressEnd, size : Sizes \cup {0}]]
    BY <1>6, <1>7 DEF PoolInv, TypeOK
  <2> QED BY <1>1, <1>8, <2>1 DEF PoolInv, TypeOK, Headers
<1>10. Tiles(list, header)'
  <2>1. \A i \in DOMAIN list : list[i] \in Addresses
    BY Typed
  <2>2. \A i \in DOMAIN list : header'[list[i]].known /\ header'[list[i]].size = header[list[i]].size
    BY <1>8, <2>1, Typed DEF Tiles
  <2>3. Tiles(list, header')
    BY <2>2, Typed, TilesKept
  <2> QED BY <1>1, <2>3
<1>11. FreeBlocksAreMerged'
  BY <1>5 DEF FreeBlocksAreMerged
<1>12. /\ \A u \in Callers : Has(u)' \subseteq Has(u)
       /\ \A u \in Callers : \A e \in Has(u)' : e.data # B.data
  <2>1. ASSUME NEW u \in Callers PROVE Has(u)' \subseteq Has(u) /\ \A e \in Has(u)' : e.data # B.data
    <3>1. CASE u = t
      <4>1. Has(u)' = held[t]
        BY <1>1, <1>5, <3>1 DEF Has
      <4>2. \A e \in held[t] : e \in Has(t) /\ e # B
        BY <1>2, Typed
      <4> QED BY <1>2, <3>1, <4>1, <4>2 DEF PoolInv, Ownership
    <3>2. CASE u # t
      <4>1. Has(u)' = Has(u)
        BY <1>1, <1>5, <3>2 DEF Has, BlockOf
      <4> QED BY <1>2, <3>2, <4>1 DEF PoolInv, Ownership
    <3> QED BY <3>1, <3>2
  <2> QED BY <2>1
<1>13. \A u \in Callers : \A e \in Has(u)' :
         e.data - HeaderSize \in ToSet(list) /\ header'[e.data - HeaderSize] = Header(Tag, e.size)
  <2> TAKE u \in Callers
  <2> TAKE e \in Has(u)'
  <2>1. /\ e \in Has(u) /\ e.data # B.data
    BY <1>12
  <2>2. /\ e.data - HeaderSize \in ToSet(list) /\ e.data - HeaderSize \in Addresses
        /\ header[e.data - HeaderSize] = Header(Tag, e.size) /\ e.data \in Nat
    BY <2>1, OwnedBlock
  <2>3. B.data \in Nat
    BY <1>2, OwnedBlock
  <2>4. e.data - HeaderSize # g
    BY <2>1, <2>2, <2>3, PoolAssumption DEF g
  <2> QED BY <1>8, <2>2, <2>4
<1>14. Ownership'
  <2>1. \A s, u \in Callers : \A e \in Has(s)', f \in Has(u)' : e.data = f.data => s = u /\ e = f
    BY <1>12 DEF PoolInv, Ownership
  <2>2. \A u \in Callers : calls'[u].at = "freeing" => BlockOf(u)' \notin held[u]
    BY <1>5 DEF PoolInv, Ownership, BlockOf
  <2>3. \A u \in Callers : calls'[u].at = "filling" => BlockOf(u)' \in held[u]
    BY <1>5 DEF PoolInv, Ownership, BlockOf
  <2> QED BY <1>1, <1>13, <2>1, <2>2, <2>3 DEF Ownership
<1>15. BlocksKeepTheirData'
  <2> SUFFICES ASSUME NEW u \in Callers, NEW e \in held[u]
               PROVE  /\ e.data % Alignment(e.size) = 0
                      /\ header'[e.data - HeaderSize] = Header(Tag, e.size)
                      /\ (calls'[u].at = "filling" => calls'[u].data # e.data)
                           => \A a \in Span(e.data, e.size) : bytes[a] = u
    BY <1>1 DEF BlocksKeepTheirData
  <2>1. e \in Has(u)'
    BY <1>1 DEF Has
  <2>2. calls[u].at = "filling" => calls'[u] = calls[u]
    BY <1>1, <1>5
  <2> QED BY <1>13, <2>1, <2>2 DEF PoolInv, BlocksKeepTheirData
<1> QED BY <1>1, <1>9, <1>10, <1>11, <1>14, <1>15 DEF PoolInv, StopsAreTheCallers

\* Headers are records of their two values.
LEMMA HeaderFields ==
  /\ \A x, y : Header(x, y).known /\ Header(x, y).tag = x /\ Header(x, y).size = y
  /\ \A x \in {Free, Tag}, y \in Nat : Header(x, y) \in Headers
BY DEF Header, Headers

\* What the walk leaves: its blocks tile the region with their new sizes, no two
\* free ones are neighbours, and allocated blocks keep their headers.
LEMMA MergedTiles ==
  ASSUME PoolInv, NEW t \in Callers, ExMergePool(t), ~ \E h \in ToSet(list) : ~ExVerifyPoolBlock(h)
  PROVE  /\ list' \in Seq(Addresses) /\ header' \in [Addresses -> Headers] /\ Tiles(list', header')
         /\ \A i \in 1 .. Len(list') - 1 : ~(header'[list'[i]].tag = Free /\ header'[list'[i + 1]].tag = Free)
         /\ \A h \in ToSet(list) : header[h].tag = Tag => h \in ToSet(list') /\ header'[h] = header[h]
<1> USE PoolAssumption
<1> DEFINE l == list'
           new == header'
           k == Merged[Len(list)]
           n == Len(list)
           m == Len(k)
<1>1. list \in Seq(Addresses) /\ header \in [Addresses -> Headers] /\ Tiles(list, header)
  BY Typed
<1>2. KeptSound(k, n)
  BY <1>1, MergedSound
<1>3. n \in Nat \ {0} /\ DOMAIN list = 1 .. n /\ n = Len(list)
  BY <1>1 DEF Tiles
<1>4. list[n] + HeaderSize + header[list[n]].size = AddressEnd
  BY <1>1, <1>3 DEF Tiles
<1>5. l = [i \in DOMAIN k |-> k[i].at]
      /\ new = [a \in Addresses |->
                  IF \E i \in DOMAIN k : k[i].at = a
                  THEN LET q == CHOOSE i \in DOMAIN k : k[i].at = a
                       IN  Header(k[q].tag, k[q].size)
                  ELSE header[a]]
  <2> DEFINE P(x) == /\ list' = [i \in DOMAIN x |-> x[i].at]
                     /\ header' = [a \in Addresses |->
                          IF \E i \in DOMAIN x : x[i].at = a
                          THEN LET q == CHOOSE i \in DOMAIN x : x[i].at = a
                               IN  Header(x[q].tag, x[q].size)
                          ELSE header[a]]
  <2>1. \E x \in {Merged[Len(list)]} : P(x)
    BY Zenon DEF ExMergePool
  <2>2. P(Merged[Len(list)])
    BY <2>1
  <2> QED BY <2>2
<1> HIDE DEF k, n, l, new
<1>6. k \in Seq(Kept) /\ k # <<>> /\ m = Len(k)
  BY <1>2 DEF KeptSound
<1>7. m \in Nat \ {0} /\ DOMAIN k = 1 .. m
  BY <1>6
<1> HIDE DEF m
<1>8. \A i \in 1 .. m : k[i].at \in Addresses /\ k[i].at \in Int /\ k[i].size \in Nat /\ k[i].tag \in {Free, Tag}
  <2> TAKE i \in 1 .. m
  <2>1. k[i] \in Kept
    BY <1>6, <1>7, ElementOfSeq
  <2> QED BY <2>1 DEF Kept, Addresses
<1>9. \A i \in 1 .. m : k[i].at + HeaderSize + k[i].size = IF i = m THEN AddressEnd ELSE k[i + 1].at
  <2>1. MemoryEnd(list[n]) = AddressEnd
    BY <1>4 DEF MemoryEnd
  <2> QED BY <1>2, <1>6, <1>7, <2>1 DEF KeptSound
<1>10. \A i \in 1 .. m : l[i] = k[i].at
  BY <1>5, <1>7
<1>11. l \in [1 .. m -> Addresses] /\ l \in [1 .. m -> Int] /\ DOMAIN l = 1 .. m
  BY <1>5, <1>7, <1>8
<1>20. l \in Seq(Addresses) /\ Len(l) = m
  BY <1>7, <1>11, FunctionsAreSequences
<1>12. \A i \in 1 .. m - 1 : l[i] < l[i + 1]
  <2> TAKE i \in 1 .. m - 1
  <2>1. i \in 1 .. m /\ i # m /\ i + 1 \in 1 .. m
    BY <1>7
  <2>2. k[i].at + HeaderSize + k[i].size = k[i + 1].at
    BY <1>9, <2>1
  <2>3. k[i].at \in Int /\ k[i].size \in Nat
    BY <1>8, <2>1
  <2>4. l[i] = k[i].at /\ l[i + 1] = k[i + 1].at
    BY <1>10, <2>1
  <2> QED BY <2>2, <2>3, <2>4
<1>13. ASSUME NEW i \in 1 .. m, NEW j \in 1 .. m, k[i].at = k[j].at PROVE i = j
  <2>1. l[i] = l[j] /\ l[i] \in Int
    BY <1>10, <1>11, <1>13
  <2>2. i < j => l[i] < l[j]
    BY <1>7, <1>11, <1>12, Increasing
  <2>3. j < i => l[j] < l[i]
    BY <1>7, <1>11, <1>12, Increasing
  <2>4. i \in Int /\ j \in Int
    OBVIOUS
  <2> QED BY <2>1, <2>2, <2>3, <2>4
<1>14. \A i \in 1 .. m : new[k[i].at] = Header(k[i].tag, k[i].size)
  <2> TAKE i \in 1 .. m
  <2> DEFINE q == CHOOSE j \in DOMAIN k : k[j].at = k[i].at
  <2>1. q \in 1 .. m /\ k[q].at = k[i].at
    BY <1>7
  <2>2. q = i
    BY <1>13, <2>1
  <2> HIDE DEF q
  <2>3. new[k[i].at] = Header(k[q].tag, k[q].size)
    BY <1>5, <1>7, <1>8 DEF q
  <2> QED BY <2>2, <2>3
<1>15. new \in [Addresses -> Headers]
  <2> SUFFICES ASSUME NEW a \in Addresses PROVE new[a] \in Headers
    BY <1>5
  <2>1. CASE \E i \in 1 .. m : k[i].at = a
    <3>1. PICK i \in 1 .. m : k[i].at = a
      BY <2>1
    <3>2. new[a] = Header(k[i].tag, k[i].size)
      BY <1>14, <3>1
    <3>3. k[i].size \in Nat /\ k[i].tag \in {Free, Tag}
      BY <1>8
    <3> QED BY <3>2, <3>3, HeaderFields
  <2>2. CASE ~ \E i \in 1 .. m : k[i].at = a
    <3>1. new[a] = header[a]
      BY <1>5, <1>7, <2>2
    <3> QED BY <1>1, <3>1
  <2> QED BY <2>1, <2>2
<1>16. \A i \in 1 .. m : new[l[i]] = Header(k[i].tag, k[i].size) /\ new[l[i]].known
                         /\ new[l[i]].tag = k[i].tag /\ new[l[i]].size = k[i].size
  <2> TAKE i \in 1 .. m
  <2>1. l[i] = k[i].at
    BY <1>10
  <2>2. new[l[i]] = Header(k[i].tag, k[i].size)
    BY <1>14, <2>1
  <2> QED BY <2>2, HeaderFields
<1>17. Tiles(l, new)
  <2>1. l # <<>> /\ l[1] = AddressStart
    <3>1. 1 \in 1 .. m
      BY <1>7
    <3>2. k[1].at = AddressStart
      BY <1>2 DEF KeptSound
    <3>3. l # <<>>
      BY <1>7, <1>20
    <3> QED BY <1>10, <3>1, <3>2, <3>3
  <2>2. ASSUME NEW i \in 1 .. m
        PROVE  /\ new[l[i]].known
               /\ l[i] + HeaderSize + new[l[i]].size = IF i = m THEN AddressEnd ELSE l[i + 1]
    <3>1. /\ new[l[i]].known /\ new[l[i]].size = k[i].size /\ l[i] = k[i].at
          /\ k[i].at + HeaderSize + k[i].size = IF i = m THEN AddressEnd ELSE k[i + 1].at
      BY <1>9, <1>10, <1>16
    <3>2. i # m => l[i + 1] = k[i + 1].at
      <4>1. i # m => i + 1 \in 1 .. m
        BY <1>7
      <4> QED BY <1>10, <4>1
    <3> QED BY <3>1, <3>2
  <2>3. \A i \in DOMAIN l :
          /\ new[l[i]].known
          /\ l[i] + HeaderSize + new[l[i]].size = IF i = Len(l) THEN AddressEnd ELSE l[i + 1]
    <3>1. DOMAIN l = 1 .. m /\ Len(l) = m
      BY <1>11, <1>20
    <3> QED BY <2>2, <3>1
  <2> QED BY <2>1, <2>3 DEF Tiles
<1>18. \A i \in 1 .. m - 1 : ~(new[l[i]].tag = Free /\ new[l[i + 1]].tag = Free)
  <2> TAKE i \in 1 .. m - 1
  <2>1. i \in 1 .. m /\ i + 1 \in 1 .. m
    BY <1>7
  <2>2. ~ (k[i].tag = Free /\ k[i + 1].tag = Free)
    BY <1>2, <1>6 DEF KeptSound
  <2> QED BY <1>16, <2>1, <2>2
<1>19. ASSUME NEW h \in ToSet(list), header[h].tag = Tag PROVE h \in ToSet(l) /\ new[h] = header[h]
  <2>1. PICK i \in 1 .. n : list[i] = h
    BY <1>3 DEF ToSet
  <2>2. PICK j \in 1 .. m : k[j] = [at |-> h, tag |-> Tag, size |-> header[h].size]
    BY <1>2, <1>7, <1>19, <2>1 DEF KeptSound
  <2>a. k[j].at = h /\ k[j].tag = Tag /\ k[j].size = header[h].size
    BY <2>2
  <2>b. l[j] = h
    BY <1>10, <2>a
  <2>3. l[j] = h /\ new[h] = Header(Tag, header[h].size)
    BY <1>14, <2>a, <2>b
  <2>4. header[h] \in Headers /\ header[h].known
    BY <1>1, BlockInside
  <2>5. header[h] = Header(Tag, header[h].size)
    BY <1>19, <2>4 DEF Headers, Header
  <2> QED BY <1>11, <2>3, <2>5 DEF ToSet
<1>21. Len(l) - 1 = m - 1
  BY <1>7, <1>20
<1> QED BY <1>15, <1>17, <1>18, <1>19, <1>20, <1>21 DEF l, new

\* The second lock section of ExFreePoolWithTag.
LEMMA MergeKeeps ==
  ASSUME PoolInv, NEW t \in Callers, ExMergePool(t) PROVE PoolInv'
<1>1. ~ \E h \in ToSet(list) : ~ExVerifyPoolBlock(h)
  BY Typed, BlockInside DEF ExVerifyPoolBlock
<1>2. /\ list' \in Seq(Addresses) /\ header' \in [Addresses -> Headers] /\ Tiles(list', header')
      /\ \A i \in 1 .. Len(list') - 1 : ~(header'[list'[i]].tag = Free /\ header'[list'[i + 1]].tag = Free)
      /\ \A h \in ToSet(list) : header[h].tag = Tag => h \in ToSet(list') /\ header'[h] = header[h]
  BY <1>1, MergedTiles
<1>3. /\ calls' = [calls EXCEPT ![t] = Idle] /\ calls[t].at = "merging"
      /\ UNCHANGED <<bytes, held, stopped>>
      /\ \A u \in Callers : calls'[u] = IF u = t THEN Idle ELSE calls[u]
  BY <1>1, Typed DEF ExMergePool, PoolInv, TypeOK
<1>4. TypeOK'
  <2>1. Idle \in [at : Steps, data : 0 .. AddressEnd, size : Sizes \cup {0}]
    BY PoolAssumption DEF Idle, Steps
  <2>2. calls' \in [Callers -> [at : Steps, data : 0 .. AddressEnd, size : Sizes \cup {0}]]
    BY <1>3, <2>1 DEF PoolInv, TypeOK
  <2> QED BY <1>2, <1>3, <2>2 DEF PoolInv, TypeOK, Headers
<1>5. Tiles(list, header)'
  BY <1>2 DEF Tiles
<1>6. FreeBlocksAreMerged'
  BY <1>2 DEF FreeBlocksAreMerged
<1>7. \A u \in Callers : Has(u)' = Has(u)
  BY <1>3 DEF Has, BlockOf, Idle
<1>8. \A u \in Callers : \A b \in Has(u) :
        b.data - HeaderSize \in ToSet(list') /\ header'[b.data - HeaderSize] = Header(Tag, b.size)
  <2> TAKE u \in Callers
  <2> TAKE b \in Has(u)
  <2>1. b.data - HeaderSize \in ToSet(list) /\ header[b.data - HeaderSize] = Header(Tag, b.size)
    BY DEF PoolInv, Ownership
  <2>2. header[b.data - HeaderSize].tag = Tag
    BY <2>1 DEF Header
  <2> QED BY <1>2, <2>1, <2>2
<1>9. Ownership'
  <2>1. \A s, u \in Callers : \A b \in Has(s)', c \in Has(u)' : b.data = c.data => s = u /\ b = c
    BY <1>7 DEF PoolInv, Ownership
  <2>2. \A u \in Callers : calls'[u].at = "freeing" => BlockOf(u)' \notin held[u]
    BY <1>3 DEF PoolInv, Ownership, BlockOf, Idle
  <2>3. \A u \in Callers : calls'[u].at = "filling" => BlockOf(u)' \in held[u]
    BY <1>3 DEF PoolInv, Ownership, BlockOf, Idle
  <2> QED BY <1>3, <1>7, <1>8, <2>1, <2>2, <2>3 DEF Ownership
<1>10. BlocksKeepTheirData'
  <2> SUFFICES ASSUME NEW u \in Callers, NEW c \in held[u]
               PROVE  /\ c.data % Alignment(c.size) = 0
                      /\ header'[c.data - HeaderSize] = Header(Tag, c.size)
                      /\ (calls'[u].at = "filling" => calls'[u].data # c.data)
                           => \A a \in Span(c.data, c.size) : bytes[a] = u
    BY <1>3 DEF BlocksKeepTheirData
  <2>1. c \in Has(u)
    BY Typed
  <2>2. calls[u].at = "filling" => calls'[u] = calls[u]
    BY <1>3
  <2> QED BY <1>8, <2>1, <2>2 DEF PoolInv, BlocksKeepTheirData
<1> QED BY <1>3, <1>4, <1>5, <1>6, <1>9, <1>10 DEF PoolInv, StopsAreTheCallers

-----------------------------------------------------------------------------
\* Three lists one after the other.
LEMMA ConcatThree ==
  ASSUME NEW S, NEW a \in Seq(S), NEW L \in Seq(S), NEW b \in Seq(S)
  PROVE  /\ a \o L \o b \in Seq(S) /\ Len(a \o L \o b) = Len(a) + Len(L) + Len(b)
         /\ \A j \in 1 .. Len(a) + Len(L) + Len(b) :
              (a \o L \o b)[j] = IF j <= Len(a) THEN a[j]
                                 ELSE IF j <= Len(a) + Len(L) THEN L[j - Len(a)]
                                 ELSE b[j - (Len(a) + Len(L))]
<1> DEFINE c == a \o L
<1>1. /\ c \in Seq(S) /\ Len(c) = Len(a) + Len(L)
      /\ \A j \in 1 .. Len(a) + Len(L) : c[j] = IF j <= Len(a) THEN a[j] ELSE L[j - Len(a)]
  BY ConcatProperties
<1> HIDE DEF c
<1>2. c \in Seq(S)
  BY <1>1
<1>3. /\ c \o b \in Seq(S) /\ Len(c \o b) = Len(c) + Len(b)
      /\ \A j \in 1 .. Len(c) + Len(b) : (c \o b)[j] = IF j <= Len(c) THEN c[j] ELSE b[j - Len(c)]
  BY <1>2, ConcatProperties
<1>4. Len(a) \in Nat /\ Len(L) \in Nat /\ Len(b) \in Nat /\ Len(c) = Len(a) + Len(L)
  BY <1>1
<1>5. \A j \in 1 .. Len(a) + Len(L) + Len(b) :
        (c \o b)[j] = IF j <= Len(a) THEN a[j]
                      ELSE IF j <= Len(a) + Len(L) THEN L[j - Len(a)]
                      ELSE b[j - (Len(a) + Len(L))]
  <2> TAKE j \in 1 .. Len(a) + Len(L) + Len(b)
  <2>1. (c \o b)[j] = IF j <= Len(a) + Len(L) THEN c[j] ELSE b[j - (Len(a) + Len(L))]
    BY <1>3, <1>4
  <2>2. j <= Len(a) + Len(L) => c[j] = IF j <= Len(a) THEN a[j] ELSE L[j - Len(a)]
    BY <1>1, <1>4
  <2>3. j <= Len(a) => j <= Len(a) + Len(L)
    BY <1>4
  <2> QED BY <2>1, <2>2, <2>3
<1> QED BY <1>3, <1>4, <1>5 DEF c

\* r is s, of length n, its i-th element replaced by the m of L.
SplicedAt(r, s, n, i, L, m) ==
  \A j \in 1 .. n + m - 1 : r[j] = IF j < i THEN s[j]
                                   ELSE IF j < i + m THEN L[j - i + 1]
                                   ELSE s[j - m + 1]

\* The list s, its i-th element replaced by the list L.
Spliced(s, i, L) == SubSeq(s, 1, i - 1) \o L \o SubSeq(s, i + 1, Len(s))

\* It has the elements that SplicedAt gives it.
LEMMA Splice ==
  ASSUME NEW S, NEW s \in Seq(S), NEW i \in 1 .. Len(s), NEW L \in Seq(S)
  PROVE  /\ Spliced(s, i, L) \in Seq(S) /\ Len(Spliced(s, i, L)) = Len(s) + Len(L) - 1
         /\ SplicedAt(Spliced(s, i, L), s, Len(s), i, L, Len(L))
<1> DEFINE r == Spliced(s, i, L)
           n == Len(s)
           m == Len(L)
           a == SubSeq(s, 1, i - 1)
           b == SubSeq(s, i + 1, n)
<1>1. n \in Nat /\ m \in Nat /\ i \in Nat /\ 1 <= i /\ i <= n
  OBVIOUS
<1>2. a \in Seq(S) /\ Len(a) = i - 1 /\ \A j \in 1 .. i - 1 : a[j] = s[j]
  BY SubSeqProperties
<1>3. b \in Seq(S) /\ Len(b) = n - i /\ \A j \in 1 .. n - i : b[j] = s[j + i]
  BY SubSeqProperties
<1>4. r = a \o L \o b
  BY DEF Spliced
<1>5. a \in Seq(S) /\ b \in Seq(S)
  BY <1>2, <1>3
<1> HIDE DEF a, b, r
<1>x. /\ (a \o L \o b) \in Seq(S) /\ Len(a \o L \o b) = Len(a) + Len(L) + Len(b)
      /\ \A j \in 1 .. Len(a) + Len(L) + Len(b) :
           (a \o L \o b)[j] = IF j <= Len(a) THEN a[j]
                  ELSE IF j <= Len(a) + Len(L) THEN L[j - Len(a)]
                  ELSE b[j - (Len(a) + Len(L))]
  BY <1>5, ConcatThree
<1>6. /\ r \in Seq(S) /\ Len(r) = Len(a) + m + Len(b)
      /\ \A j \in 1 .. Len(a) + m + Len(b) :
           r[j] = IF j <= Len(a) THEN a[j]
                  ELSE IF j <= Len(a) + m THEN L[j - Len(a)]
                  ELSE b[j - (Len(a) + m)]
  BY <1>4, <1>x
<1> HIDE DEF n, m
<1>7. Len(a) = i - 1 /\ Len(b) = n - i
  BY <1>2, <1>3
<1>8. i - 1 + m + (n - i) = n + m - 1
  BY <1>1
<1>9. /\ Len(r) = n + m - 1
      /\ \A j \in 1 .. n + m - 1 :
           r[j] = IF j <= i - 1 THEN a[j]
                  ELSE IF j <= i - 1 + m THEN L[j - (i - 1)]
                  ELSE b[j - (i - 1 + m)]
  BY <1>6, <1>7, <1>8
<1>10. ASSUME NEW j \in 1 .. n + m - 1
       PROVE  r[j] = IF j < i THEN s[j] ELSE IF j < i + m THEN L[j - i + 1] ELSE s[j - m + 1]
  <2>1. CASE j < i
    <3>1. j \in 1 .. i - 1 /\ j <= i - 1
      BY <1>1, <2>1
    <3> QED BY <1>2, <1>9, <2>1, <3>1
  <2>2. CASE ~ (j < i) /\ j < i + m
    <3>1. ~ (j <= i - 1) /\ j <= i - 1 + m /\ j - (i - 1) = j - i + 1
      BY <1>1, <2>2
    <3> QED BY <1>9, <2>2, <3>1
  <2>3. CASE ~ (j < i) /\ ~ (j < i + m)
    <3>1. /\ ~ (j <= i - 1) /\ ~ (j <= i - 1 + m)
          /\ j - (i - 1 + m) \in 1 .. n - i /\ j - (i - 1 + m) + i = j - m + 1
      BY <1>1, <2>3
    <3> QED BY <1>3, <1>9, <2>3, <3>1
  <2> QED BY <2>1, <2>2, <2>3
<1>11. SplicedAt(r, s, n, i, L, m)
  BY <1>10 DEF SplicedAt
<1> QED BY <1>6, <1>9, <1>11 DEF n, m, r

\* Lists of two and three elements.
LEMMA UpToThree ==
  ASSUME NEW x, NEW y, NEW z
  PROVE  /\ <<x>> \o <<y>> = <<x, y>> /\ <<>> \o <<y>> \o <<z>> = <<y, z>>
         /\ <<x>> \o <<y>> \o <<>> = <<x, y>> /\ <<x>> \o <<y>> \o <<z>> = <<x, y, z>>
<1> DEFINE S == {x, y, z}
<1>a. x \in S /\ y \in S /\ z \in S
  OBVIOUS
<1> HIDE DEF S
<1>1. <<x>> \in Seq(S) /\ <<y>> \in Seq(S) /\ <<x, y>> \in Seq(S)
  BY <1>a
<1>b. ASSUME NEW u \in S, NEW v \in S PROVE Append(<<u>>, v) = <<u, v>>
  <2>1. /\ <<u>> \in Seq(S) /\ Len(<<u>>) = 1 /\ <<u>>[1] = u
        /\ <<u, v>> \in Seq(S) /\ Len(<<u, v>>) = 2 /\ <<u, v>>[1] = u /\ <<u, v>>[2] = v
    OBVIOUS
  <2> DEFINE r == Append(<<u>>, v)
  <2>2. r \in Seq(S) /\ Len(r) = 2 /\ r[1] = u /\ r[2] = v
    BY <2>1, AppendProperties
  <2> HIDE DEF r
  <2>3. \A i \in 1 .. Len(r) : r[i] = <<u, v>>[i]
    BY <2>1, <2>2
  <2>4. r = <<u, v>>
    BY <2>1, <2>2, <2>3, SeqEqual
  <2> QED BY <2>4 DEF r
<1>c. Append(<<x, y>>, z) = <<x, y, z>>
  <2>1. /\ <<x, y>> \in Seq(S) /\ Len(<<x, y>>) = 2 /\ <<x, y>>[1] = x /\ <<x, y>>[2] = y
        /\ <<x, y, z>> \in Seq(S) /\ Len(<<x, y, z>>) = 3 /\ <<x, y, z>>[1] = x
        /\ <<x, y, z>>[2] = y /\ <<x, y, z>>[3] = z
    BY <1>a
  <2> DEFINE r == Append(<<x, y>>, z)
  <2>2. r \in Seq(S) /\ Len(r) = 3 /\ r[1] = x /\ r[2] = y /\ r[3] = z
    BY <1>a, <2>1, AppendProperties
  <2> HIDE DEF r
  <2>3. \A i \in 1 .. Len(r) : r[i] = <<x, y, z>>[i]
    BY <2>1, <2>2
  <2>4. r = <<x, y, z>>
    BY <2>1, <2>2, <2>3, SeqEqual
  <2> QED BY <2>4 DEF r
<1>2. Append(<<x>>, y) = <<x, y>> /\ Append(<<y>>, z) = <<y, z>> /\ Append(<<x, y>>, z) = <<x, y, z>>
  BY <1>a, <1>b, <1>c
<1>3. /\ Append(<<x>>, y) = <<x>> \o <<y>> /\ Append(<<y>>, z) = <<y>> \o <<z>>
      /\ Append(<<x, y>>, z) = <<x, y>> \o <<z>>
  BY <1>1, AppendIsConcat DEF S
<1>4. <<>> \o <<y>> = <<y>> /\ <<x, y>> \o <<>> = <<x, y>>
  BY <1>1, ConcatEmptySeq
<1> QED BY <1>2, <1>3, <1>4, Zenon

\* The pieces L, with headers new, of the free block h that gives size bytes at
\* p: they tile h, the data's piece is allocated, no two free ones are neighbours.
CutInto(L, new, h, p, size) ==
  /\ L \in Seq(Addresses) /\ Len(L) \in Nat \ {0} /\ L[1] = h
  /\ \A j \in 1 .. Len(L) :
       /\ L[j] \in DOMAIN new /\ new[L[j]].known
       /\ L[j] + HeaderSize + new[L[j]].size = IF j = Len(L) THEN MemoryEnd(h) ELSE L[j + 1]
  /\ \A j \in 1 .. Len(L) - 1 : ~ (new[L[j]].tag = Free /\ new[L[j + 1]].tag = Free)
  /\ \E j \in 1 .. Len(L) : L[j] = p - HeaderSize
  /\ p - HeaderSize \in DOMAIN new /\ new[p - HeaderSize] = Header(Tag, size)
  /\ \A a \in DOMAIN new : /\ a \in Addresses /\ a \in Int /\ new[a] \in Headers
                           /\ h <= a /\ a + HeaderSize <= MemoryEnd(h)
  /\ h + HeaderSize <= p /\ p + size <= MemoryEnd(h)

\* The pieces of Split are such pieces.
LEMMA PiecesTile ==
  ASSUME PoolInv, NEW h \in ToSet(list), NEW p \in Nat, NEW size \in Nat, Possible(p, size, h)
  PROVE  CutInto(Linked(p, size, h), Pieces(p, size, h), h, p, size)
<1> USE PoolAssumption
<1> DEFINE L == Linked(p, size, h)
           new == Pieces(p, size, h)
           E == MemoryEnd(h)
           q == p - HeaderSize
           f == p + size
<1>1. /\ h \in Nat /\ AddressStart <= h /\ header[h].size \in Nat
      /\ E \in Nat /\ E = h + HeaderSize + header[h].size /\ E <= AddressEnd
  BY Typed, BlockInside
<1>2. Memory(h) = h + HeaderSize /\ MemoryEnd(h) = E
  BY DEF Memory
<1>3. /\ p = h + HeaderSize \/ p >= h + HeaderSize + HeaderSize
      /\ E = f \/ E >= f + HeaderSize
  BY <1>1, <1>2 DEF Possible, Splits
<1> HIDE DEF E
<1>4. /\ q \in Int /\ f \in Int /\ q + HeaderSize = p /\ q # f /\ h # f /\ h <= q /\ q + HeaderSize <= E
      /\ h + HeaderSize <= p /\ f <= E
      /\ p = h + HeaderSize <=> q = h
      /\ f < E <=> f # E
      /\ f # E => f + HeaderSize <= E
  BY <1>1, <1>3
<1>5. /\ new = [a \in {h, q} \cup (IF f < E THEN {f} ELSE {}) |->
                 CASE a = q -> Header(Tag, size)
                   [] a = f -> Following(p, size, h)
                   [] OTHER -> Preceding(p, h)]
      /\ L = (IF p = h + HeaderSize THEN <<>> ELSE <<h>>) \o <<q>> \o (IF f = E THEN <<>> ELSE <<f>>)
  BY <1>2 DEF Pieces, Linked
<1> HIDE DEF L, new
<1>6. /\ Following(p, size, h) = Header(Free, E - f - HeaderSize)
      /\ Preceding(p, h) = Header(Free, q - h - HeaderSize)
  <2>1. p - (h + HeaderSize) - HeaderSize = q - h - HeaderSize
    BY <1>1
  <2> QED BY <1>2, <2>1 DEF Following, Preceding
<1> HIDE DEF q, f
<1>7. /\ q \in DOMAIN new /\ new[q] = Header(Tag, size)
      /\ f # E => f \in DOMAIN new /\ new[f] = Header(Free, E - f - HeaderSize)
      /\ q # h => h \in DOMAIN new /\ new[h] = Header(Free, q - h - HeaderSize)
      /\ DOMAIN new = {h, q} \cup (IF f # E THEN {f} ELSE {})
  BY <1>4, <1>5, <1>6
<1>8. /\ f # E => E - f - HeaderSize \in Nat
      /\ q # h => q - h - HeaderSize \in Nat
  BY <1>1, <1>3, <1>4
<1>9. \A a \in DOMAIN new : /\ a \in Addresses /\ a \in Int /\ new[a] \in Headers
                            /\ h <= a /\ a + HeaderSize <= E
  <2> SUFFICES ASSUME NEW a \in DOMAIN new
               PROVE  a \in Int /\ h <= a /\ a + HeaderSize <= E /\ new[a] \in Headers
    BY <1>1 DEF Addresses
  <2>1. CASE a = q
    <3>1. Tag \in {Free, Tag} /\ Header(Tag, size) \in Headers
      BY HeaderFields
    <3> QED BY <1>1, <1>4, <1>7, <2>1, <3>1
  <2>2. CASE a = f /\ f # E
    <3>1. Free \in {Free, Tag} /\ Header(Free, E - f - HeaderSize) \in Headers
      <4>1. E - f - HeaderSize \in Nat
        BY <1>8, <2>2
      <4> DEFINE k == E - f - HeaderSize
      <4>2. k \in Nat
        BY <4>1
      <4> HIDE DEF k
      <4>3. Free \in {Free, Tag} /\ Header(Free, k) \in Headers
        BY <4>2, HeaderFields
      <4> QED BY <4>3 DEF k
    <3>2. new[a] = Header(Free, E - f - HeaderSize)
      BY <1>7, <2>2
    <3>3. a \in Int /\ h <= a /\ a + HeaderSize <= E
      <4>1. size \in Nat /\ f = q + HeaderSize + size
        BY <1>4 DEF f
      <4> QED BY <1>1, <1>4, <2>2, <4>1
    <3> QED BY <3>1, <3>2, <3>3
  <2>3. CASE a = h /\ q # h
    <3>1. Free \in {Free, Tag} /\ Header(Free, q - h - HeaderSize) \in Headers
      BY <1>8, <2>3, HeaderFields
    <3> QED BY <1>1, <1>4, <1>7, <2>3, <3>1
  <2> QED BY <1>7, <2>1, <2>2, <2>3
<1>10. /\ new[q].known /\ new[q].tag = Tag /\ new[q].size = size
       /\ f # E => new[f].known /\ new[f].size = E - f - HeaderSize
       /\ q # h => new[h].known /\ new[h].size = q - h - HeaderSize
  BY <1>7, HeaderFields
<1>11. /\ q + HeaderSize + new[q].size = f
       /\ f # E => f + HeaderSize + new[f].size = E
       /\ q # h => h + HeaderSize + new[h].size = q
  <2>1. q + HeaderSize + new[q].size = f
    BY <1>4, <1>10 DEF f
  <2>2. f # E => f + HeaderSize + (E - f - HeaderSize) = E
    BY <1>1, <1>4
  <2>3. h + HeaderSize + (q - h - HeaderSize) = q
    BY <1>1, <1>4
  <2> QED BY <1>10, <2>1, <2>2, <2>3
<1>12. Free # Tag /\ h \in Addresses /\ q \in Addresses /\ (f # E => f \in Addresses)
  BY <1>7, <1>9, Typed, BlockInside DEF Free, Tag
<1> DEFINE G1 == L \in Seq(Addresses) /\ Len(L) \in Nat \ {0} /\ L[1] = h
           G2 == \A j \in 1 .. Len(L) :
                   /\ L[j] \in DOMAIN new /\ new[L[j]].known
                   /\ L[j] + HeaderSize + new[L[j]].size = IF j = Len(L) THEN E ELSE L[j + 1]
           G3 == \A j \in 1 .. Len(L) - 1 : ~ (new[L[j]].tag = Free /\ new[L[j + 1]].tag = Free)
           G4 == \E j \in 1 .. Len(L) : L[j] = q
<1>13. ASSUME q = h /\ f = E PROVE G1 /\ G2 /\ G3 /\ G4
  <2>1. L = <<q>>
    BY <1>4, <1>5, <1>13
  <2>2. L \in Seq(Addresses) /\ Len(L) = 1 /\ L[1] = q
    BY <1>12, <2>1
  <2>3. 1 .. Len(L) = {1} /\ 1 .. Len(L) - 1 = {}
    BY <2>2
  <2>4. G1
    BY <1>13, <2>2
  <2>5. G2
    BY <1>7, <1>10, <1>11, <1>13, <2>2, <2>3
  <2>6. G3
    BY <2>3
  <2>7. G4
    BY <2>2, <2>3
  <2> QED BY <2>4, <2>5, <2>6, <2>7
<1>14. ASSUME q = h /\ f # E PROVE G1 /\ G2 /\ G3 /\ G4
  <2>1. L = <<q, f>>
    <3>1. L = <<>> \o <<q>> \o <<f>>
      BY <1>4, <1>5, <1>14
    <3> HIDE DEF q, f
    <3>2. <<>> \o <<q>> \o <<f>> = <<q, f>>
      BY UpToThree, Zenon
    <3> QED BY <3>1, <3>2
  <2>2. L \in Seq(Addresses) /\ Len(L) = 2 /\ L[1] = q /\ L[2] = f
    BY <1>12, <1>14, <2>1
  <2>3. 1 .. Len(L) = {1, 2} /\ 1 .. Len(L) - 1 = {1} /\ 1 + 1 = 2
    BY <2>2
  <2>4. G1
    BY <1>14, <2>2
  <2>5. G2
    BY <1>7, <1>10, <1>11, <1>14, <2>2, <2>3
  <2>6. G3
    BY <1>10, <1>12, <2>2, <2>3
  <2>7. G4
    BY <2>2, <2>3
  <2> QED BY <2>4, <2>5, <2>6, <2>7
<1>15. ASSUME q # h /\ f = E PROVE G1 /\ G2 /\ G3 /\ G4
  <2>1. L = <<h, q>>
    <3>1. L = <<h>> \o <<q>> \o <<>>
      BY <1>4, <1>5, <1>15
    <3> HIDE DEF q, f
    <3>2. <<h>> \o <<q>> \o <<>> = <<h, q>>
      BY UpToThree, Zenon
    <3> QED BY <3>1, <3>2
  <2>2. L \in Seq(Addresses) /\ Len(L) = 2 /\ L[1] = h /\ L[2] = q
    BY <1>12, <1>15, <2>1
  <2>3. 1 .. Len(L) = {1, 2} /\ 1 .. Len(L) - 1 = {1} /\ 1 + 1 = 2
    BY <2>2
  <2>4. G1
    BY <2>2
  <2>5. G2
    BY <1>7, <1>10, <1>11, <1>15, <2>2, <2>3
  <2>6. G3
    BY <1>10, <1>12, <2>2, <2>3
  <2>7. G4
    BY <2>2, <2>3
  <2> QED BY <2>4, <2>5, <2>6, <2>7
<1>16. ASSUME q # h /\ f # E PROVE G1 /\ G2 /\ G3 /\ G4
  <2>1. L = <<h>> \o <<q>> \o <<f>>
    BY <1>4, <1>5, <1>16
  <2> HIDE DEF L, q, f
  <2>l. L = <<h, q, f>>
    BY <2>1, UpToThree, ZenonT(60)
  <2>2. L \in Seq(Addresses) /\ Len(L) = 3 /\ L[1] = h /\ L[2] = q /\ L[3] = f
    BY <1>12, <1>16, <2>l
  <2>3. 1 .. Len(L) = {1, 2, 3} /\ 1 .. Len(L) - 1 = {1, 2} /\ 1 + 1 = 2 /\ 2 + 1 = 3
    BY <2>2
  <2>4. G1
    BY <2>2
  <2>5. G2
    BY <1>7, <1>10, <1>11, <1>16, <2>2, <2>3
  <2>6. G3
    BY <1>10, <1>12, <2>2, <2>3
  <2>7. G4
    BY <2>2, <2>3
  <2> QED BY <2>4, <2>5, <2>6, <2>7
<1>17. G1 /\ G2 /\ G3 /\ G4
  BY <1>13, <1>14, <1>15, <1>16
<1> HIDE DEF G1, G2, G3, G4
<1>18. h + HeaderSize <= p /\ f <= E
  BY <1>4
<1> QED BY <1>7, <1>9, <1>17, <1>18 DEF CutInto, E, L, new, q, f, G1, G2, G3, G4

\* A block ends where the next of s, of length n, begins, and the last at last.
Chain(s, n, ends, last) ==
  \A j \in 1 .. n : ends[s[j]] = IF j = n THEN last ELSE s[j + 1]

\* No two neighbours of s, of length n, are in free.
NoNeighbours(s, n, free) == \A j \in 1 .. n - 1 : ~ (s[j] \in free /\ s[j + 1] \in free)

\* In a chain of blocks, one replaced by a chain of pieces from its beginning to
\* its end; ends tells where a block ends, was where it ended.
LEMMA SplicedChain ==
  ASSUME NEW n \in Nat \ {0}, NEW m \in Nat \ {0}, NEW i \in 1 .. n,
         NEW s, NEW L, NEW r, NEW was, NEW ends, NEW last,
         Chain(s, n, was, last),
         \A j \in 1 .. n : j # i => ends[s[j]] = was[s[j]],
         Chain(L, m, ends, was[s[i]]), L[1] = s[i], SplicedAt(r, s, n, i, L, m)
  PROVE  Chain(r, n + m - 1, ends, last)
<1> SUFFICES \A j \in 1 .. n + m - 1 : ends[r[j]] = IF j = n + m - 1 THEN last ELSE r[j + 1]
  BY DEF Chain
<1> USE DEF Chain, SplicedAt
<1> TAKE j \in 1 .. n + m - 1
<1>1. CASE j < i
  <2>1. /\ j \in 1 .. n /\ j # i /\ j # n /\ j # n + m - 1 /\ j + 1 \in 1 .. n + m - 1
        /\ j + 1 < i \/ (j + 1 = i /\ j + 1 < i + m /\ j + 1 - i + 1 = 1)
    BY <1>1
  <2>2. r[j] = s[j] /\ ends[s[j]] = s[j + 1]
    BY <1>1, <2>1
  <2>3. r[j + 1] = s[j + 1]
    <3>1. CASE j + 1 < i
      BY <2>1, <3>1
    <3>2. CASE j + 1 = i /\ j + 1 < i + m /\ j + 1 - i + 1 = 1
      <4>1. r[j + 1] = L[j + 1 - i + 1]
        BY <2>1, <3>2
      <4> QED BY <3>2, <4>1
    <3> QED BY <2>1, <3>1, <3>2
  <2> QED BY <2>1, <2>2, <2>3
<1>2. CASE ~ (j < i) /\ j < i + m
  <2> DEFINE k == j - i + 1
  <2>1. k \in 1 .. m /\ r[j] = L[k] /\ k + 1 = j + 1 - i + 1
    BY <1>2
  <2>2. ends[r[j]] = IF k = m THEN was[s[i]] ELSE L[k + 1]
    BY <2>1
  <2>3. CASE k # m
    <3>1. j # n + m - 1 /\ j + 1 \in 1 .. n + m - 1 /\ ~ (j + 1 < i) /\ j + 1 < i + m
      BY <1>2, <2>3
    <3>2. r[j + 1] = L[j + 1 - i + 1]
      BY <3>1
    <3>3. r[j + 1] = L[k + 1]
      BY <2>1, <3>2
    <3>4. ends[r[j]] = L[k + 1]
      BY <2>2, <2>3
    <3> QED BY <3>1, <3>3, <3>4
  <2>4. CASE k = m /\ i = n
    <3>1. j = n + m - 1 /\ was[s[i]] = last
      BY <1>2, <2>4
    <3> QED BY <2>2, <2>4, <3>1
  <2>5. CASE k = m /\ i # n
    <3>1. /\ j # n + m - 1 /\ j + 1 \in 1 .. n + m - 1 /\ ~ (j + 1 < i) /\ ~ (j + 1 < i + m)
          /\ j + 1 - m + 1 = i + 1
      BY <1>2, <2>5
    <3>2. r[j + 1] = s[j + 1 - m + 1]
      BY <3>1
    <3>3. was[s[i]] = s[i + 1]
      BY <2>5
    <3> QED BY <2>2, <2>5, <3>1, <3>2, <3>3
  <2> QED BY <2>3, <2>4, <2>5
<1>3. CASE ~ (j < i) /\ ~ (j < i + m)
  <2> DEFINE k == j - m + 1
  <2>1. k \in 1 .. n /\ k # i /\ r[j] = s[k] /\ (k = n <=> j = n + m - 1)
    BY <1>3
  <2>2. ends[r[j]] = IF k = n THEN last ELSE s[k + 1]
    BY <2>1
  <2>3. CASE k = n
    BY <2>1, <2>2, <2>3
  <2>4. CASE k # n
    <3>1. /\ j + 1 \in 1 .. n + m - 1 /\ ~ (j + 1 < i) /\ ~ (j + 1 < i + m)
          /\ j + 1 - m + 1 = k + 1
      BY <1>3, <2>4
    <3>2. r[j + 1] = s[j + 1 - m + 1]
      BY <3>1
    <3> QED BY <2>1, <2>2, <2>4, <3>1, <3>2
  <2> QED BY <2>3, <2>4
<1> QED BY <1>1, <1>2, <1>3

\* If no two neighbours were free, a free block replaced by pieces of which no
\* two neighbours are free leaves no two free neighbours.
LEMMA SplicedNeighbours ==
  ASSUME NEW n \in Nat \ {0}, NEW m \in Nat \ {0}, NEW i \in 1 .. n,
         NEW s, NEW L, NEW r, NEW was, NEW free,
         NoNeighbours(s, n, was),
         \A j \in 1 .. n : j # i => (s[j] \in free <=> s[j] \in was),
         NoNeighbours(L, m, free), s[i] \in was, SplicedAt(r, s, n, i, L, m)
  PROVE  NoNeighbours(r, n + m - 1, free)
<1> SUFFICES \A j \in 1 .. n + m - 2 : ~ (r[j] \in free /\ r[j + 1] \in free)
  BY DEF NoNeighbours
<1> USE DEF NoNeighbours, SplicedAt
<1> TAKE j \in 1 .. n + m - 2
<1>0. j \in 1 .. n + m - 1 /\ j + 1 \in 1 .. n + m - 1
  OBVIOUS
<1>1. CASE j + 1 < i
  <2>1. j \in 1 .. n - 1 /\ j \in 1 .. n /\ j + 1 \in 1 .. n /\ j # i /\ j + 1 # i /\ j < i
    BY <1>1
  <2>2. r[j] = s[j] /\ r[j + 1] = s[j + 1]
    BY <1>0, <1>1, <2>1
  <2> QED BY <2>1, <2>2
<1>2. CASE j + 1 = i
  <2>1. j \in 1 .. n - 1 /\ j \in 1 .. n /\ j # i /\ j < i
    BY <1>2
  <2>2. r[j] = s[j]
    BY <1>0, <2>1
  <2>3. ~ (s[j] \in was)
    BY <1>2, <2>1
  <2> QED BY <2>1, <2>2, <2>3
<1>3. CASE ~ (j < i) /\ j + 1 < i + m
  <2>1. /\ j - i + 1 \in 1 .. m - 1 /\ j < i + m /\ ~ (j + 1 < i)
        /\ j + 1 - i + 1 = (j - i + 1) + 1
    BY <1>3
  <2>2. r[j] = L[j - i + 1]
    BY <1>0, <1>3, <2>1
  <2>3. r[j + 1] = L[j + 1 - i + 1]
    BY <1>0, <1>3, <2>1
  <2> QED BY <2>1, <2>2, <2>3
<1>4. CASE j + 1 = i + m
  <2>1. /\ ~ (j + 1 < i) /\ ~ (j + 1 < i + m) /\ j + 1 - m + 1 = i + 1
        /\ i \in 1 .. n - 1 /\ i + 1 \in 1 .. n /\ i + 1 # i
    BY <1>4
  <2>2. r[j + 1] = s[j + 1 - m + 1]
    BY <1>0, <2>1
  <2>3. ~ (s[i + 1] \in was)
    BY <2>1
  <2> QED BY <2>1, <2>2, <2>3
<1>5. CASE ~ (j < i + m)
  <2>1. /\ ~ (j < i) /\ ~ (j + 1 < i) /\ ~ (j + 1 < i + m) /\ j + 1 - m + 1 = (j - m + 1) + 1
        /\ j - m + 1 \in 1 .. n - 1 /\ j - m + 1 \in 1 .. n /\ j - m + 1 # i
        /\ (j - m + 1) + 1 \in 1 .. n /\ (j - m + 1) + 1 # i
    BY <1>5
  <2>2. r[j] = s[j - m + 1]
    BY <1>0, <1>5, <2>1
  <2>3. r[j + 1] = s[j + 1 - m + 1]
    BY <1>0, <2>1
  <2> QED BY <2>1, <2>2, <2>3
<1> QED BY <1>1, <1>2, <1>3, <1>4, <1>5

\* What Split does, its choice of the pieces unfolded.
LEMMA SplitUnfolded ==
  ASSUME NEW i, NEW p, NEW size, NEW t, Split(i, p, size, t)
  PROVE  /\ header' = Written(Pieces(p, size, list[i]))
         /\ bytes' = BytesWritten((UNION {Span(a, HeaderSize) : a \in DOMAIN Pieces(p, size, list[i])})
                                    \cap Addresses, "header")
         /\ list' = SubSeq(list, 1, i - 1) \o Linked(p, size, list[i]) \o SubSeq(list, i + 1, Len(list))
         /\ held' = [held EXCEPT ![t] = @ \cup {[data |-> p, size |-> size]}]
         /\ calls' = [calls EXCEPT ![t] = [at |-> "filling", data |-> p, size |-> size]]
<1> DEFINE P(new) ==
      /\ header' = Written(new)
      /\ bytes' = BytesWritten((UNION {Span(a, HeaderSize) : a \in DOMAIN new}) \cap Addresses, "header")
      /\ list' = SubSeq(list, 1, i - 1) \o Linked(p, size, list[i]) \o SubSeq(list, i + 1, Len(list))
      /\ held' = [held EXCEPT ![t] = @ \cup {[data |-> p, size |-> size]}]
      /\ calls' = [calls EXCEPT ![t] = [at |-> "filling", data |-> p, size |-> size]]
<1>1. \E new \in {Pieces(p, size, list[i])} : P(new)
  BY Zenon DEF Split
<1>2. P(Pieces(p, size, list[i]))
  BY <1>1
<1> QED BY <1>2

\* The headers after a block is cut: those of the pieces are new, the other
\* blocks keep theirs.
LEMMA SplitHeaders ==
  ASSUME PoolInv, NEW h \in ToSet(list), NEW p \in Nat, NEW size \in Nat,
         Possible(p, size, h), header' = Written(Pieces(p, size, h))
  PROVE  /\ header' \in [Addresses -> Headers]
         /\ \A a \in DOMAIN Pieces(p, size, h) : header'[a] = Pieces(p, size, h)[a]
         /\ \A g \in ToSet(list) : g # h => header'[g] = header[g]
<1> USE PoolAssumption
<1> DEFINE new == Pieces(p, size, h)
<1>1. \A a \in DOMAIN new : /\ a \in Addresses /\ a \in Int /\ new[a] \in Headers
                            /\ h <= a /\ a + HeaderSize <= MemoryEnd(h)
  BY PiecesTile DEF CutInto
<1>2. /\ list \in Seq(Addresses) /\ header \in [Addresses -> Headers] /\ Tiles(list, header)
      /\ h \in Nat /\ MemoryEnd(h) \in Nat
  BY Typed, BlockInside
<1> HIDE DEF new
<1>3. header' = [a \in Addresses |->
                   IF a \in DOMAIN new THEN new[a]
                   ELSE IF \E b \in DOMAIN new : Span(a, HeaderSize) \cap Span(b, HeaderSize) # {}
                        THEN Junk
                   ELSE header[a]]
  BY DEF Written, new
<1>4. header' \in [Addresses -> Headers]
  <2>1. Junk \in Headers
    BY DEF Junk, Headers
  <2> QED BY <1>1, <1>2, <1>3, <2>1
<1>5. \A a \in DOMAIN new : header'[a] = new[a]
  BY <1>1, <1>3
<1>6. ASSUME NEW g \in ToSet(list), g # h PROVE header'[g] = header[g]
  <2>1. /\ g \in Nat /\ g \in Addresses /\ header[g].size \in Nat
        /\ MemoryEnd(g) = g + HeaderSize + header[g].size
    BY <1>2, BlockInside
  <2>2. MemoryEnd(g) <= h \/ MemoryEnd(h) <= g
    BY <1>2, <1>6, BlocksApart
  <2>3. ASSUME NEW b \in DOMAIN new PROVE g # b /\ Span(g, HeaderSize) \cap Span(b, HeaderSize) = {}
    <3>1. b \in Int /\ (g + HeaderSize <= b \/ b + HeaderSize <= g)
      BY <1>1, <1>2, <2>1, <2>2
    <3> QED BY <2>1, <3>1 DEF Span
  <2> QED BY <1>3, <2>1, <2>3
<1> QED BY <1>4, <1>5, <1>6 DEF new

\* A free block is cut into pieces: the blocks still tile the region, the new
\* one is on the list, and no two neighbours are free if none were.
LEMMA SplitTiles ==
  ASSUME PoolInv, NEW t \in Callers, NEW i \in DOMAIN list, NEW p \in Nat, NEW size \in Nat,
         header[list[i]].tag = Free, Possible(p, size, list[i]), Split(i, p, size, t)
  PROVE  /\ list' \in Seq(Addresses) /\ Tiles(list', header')
         /\ (\A j \in 1 .. Len(list) - 1 : ~(header[list[j]].tag = Free /\ header[list[j + 1]].tag = Free))
              => \A j \in 1 .. Len(list') - 1 :
                   ~(header'[list'[j]].tag = Free /\ header'[list'[j + 1]].tag = Free)
         /\ \A g \in ToSet(list) : g # list[i] => g \in ToSet(list')
         /\ p - HeaderSize \in ToSet(list') /\ header'[p - HeaderSize] = Header(Tag, size)
<1> USE PoolAssumption
<1> DEFINE h == list[i]
           n == Len(list)
           L == Linked(p, size, h)
           m == Len(L)
           new == Pieces(p, size, h)
           r == list'
           hd == header'
           q == p - HeaderSize
           E == MemoryEnd(h)
<1>1. list \in Seq(Addresses) /\ header \in [Addresses -> Headers] /\ Tiles(list, header)
  BY Typed
<1>2. n \in Nat \ {0} /\ DOMAIN list = 1 .. n /\ i \in 1 .. n /\ n = Len(list)
  BY <1>1 DEF Tiles
<1>3. h \in ToSet(list) /\ h \in Addresses /\ h \in Nat
  BY <1>1, BlockInside DEF ToSet
<1>4. /\ L \in Seq(Addresses) /\ Len(L) \in Nat \ {0} /\ L[1] = h
      /\ \A j \in 1 .. Len(L) :
           /\ L[j] \in DOMAIN new /\ new[L[j]].known
           /\ L[j] + HeaderSize + new[L[j]].size = IF j = Len(L) THEN E ELSE L[j + 1]
      /\ \A j \in 1 .. Len(L) - 1 : ~ (new[L[j]].tag = Free /\ new[L[j + 1]].tag = Free)
      /\ \E j \in 1 .. Len(L) : L[j] = q
      /\ q \in DOMAIN new /\ new[q] = Header(Tag, size)
      /\ \A a \in DOMAIN new : a \in Int
  <2>1. /\ h \in ToSet(list) /\ Possible(p, size, h)
        /\ L = Linked(p, size, h) /\ new = Pieces(p, size, h)
    BY <1>3
  <2> HIDE DEF h, L, new
  <2>2. CutInto(L, new, h, p, size)
    BY <2>1, PiecesTile
  <2> QED BY <2>2 DEF CutInto
<1>5. /\ header' = Written(new)
      /\ list' = SubSeq(list, 1, i - 1) \o L \o SubSeq(list, i + 1, Len(list))
  BY SplitUnfolded
<1>6. /\ \A a \in DOMAIN new : hd[a] = new[a]
      /\ \A g \in ToSet(list) : g # h => hd[g] = header[g]
  BY <1>3, <1>5, SplitHeaders
<1> HIDE DEF L, new, r, hd, q, E, h
<1>7. /\ r \in Seq(Addresses) /\ Len(r) = Len(list) + Len(L) - 1
      /\ SplicedAt(r, list, Len(list), i, L, Len(L))
  <2>1. L \in Seq(Addresses)
    BY <1>4
  <2>2. r = Spliced(list, i, L)
    BY <1>5 DEF r, Spliced
  <2>3. list \in Seq(Addresses) /\ i \in 1 .. Len(list)
    BY <1>1, <1>2
  <2>4. /\ Spliced(list, i, L) \in Seq(Addresses)
        /\ Len(Spliced(list, i, L)) = Len(list) + Len(L) - 1
        /\ SplicedAt(Spliced(list, i, L), list, Len(list), i, L, Len(L))
    BY <2>1, <2>3, Splice
  <2> QED BY <2>2, <2>4
<1>8. m \in Nat \ {0} /\ Len(r) = n + m - 1 /\ DOMAIN r = 1 .. n + m - 1 /\ r # <<>>
  <2>1. m \in Nat \ {0}
    BY <1>4
  <2>2. Len(r) = n + m - 1
    BY <1>7
  <2>3. DOMAIN r = 1 .. Len(r) /\ (Len(r) > 0 => r # <<>>)
    BY <1>7
  <2> QED BY <1>2, <2>1, <2>2, <2>3
<1>s. SplicedAt(r, list, n, i, L, m)
  BY <1>7
<1>9. \A j \in 1 .. n + m - 1 : r[j] = IF j < i THEN list[j]
                                       ELSE IF j < i + m THEN L[j - i + 1]
                                       ELSE list[j - m + 1]
  BY <1>s DEF SplicedAt
<1>10. /\ \A j \in 1 .. m : /\ L[j] \in DOMAIN new /\ new[L[j]].known
                            /\ L[j] + HeaderSize + new[L[j]].size = IF j = m THEN E ELSE L[j + 1]
       /\ \A j \in 1 .. m - 1 : ~ (new[L[j]].tag = Free /\ new[L[j + 1]].tag = Free)
       /\ L[1] = h
       /\ \E j \in 1 .. m : L[j] = q
  BY <1>4
<1> HIDE DEF m, n
<1>11. /\ \A j \in 1 .. n : list[j] \in ToSet(list) /\ list[j] \in Int /\ header[list[j]].known
       /\ \A j \in 1 .. n : j # i => list[j] # h
  <2>1. \A j \in 1 .. n : list[j] \in ToSet(list)
    BY <1>2 DEF ToSet
  <2>2. \A j \in 1 .. n : /\ list[j] \in Int /\ header[list[j]].known /\ header[list[j]].size \in Nat
    BY <1>1, <2>1, BlockInside
  <2>3. ASSUME NEW j \in 1 .. n, j # i PROVE list[j] # h
    <3>1. CASE j < i
      <4>1. list[j] + HeaderSize + header[list[j]].size <= list[i]
        BY <1>1, <1>2, <3>1, TilesApart
      <4> QED BY <1>2, <2>2, <4>1 DEF h
    <3>2. CASE i < j
      <4>1. list[i] + HeaderSize + header[list[i]].size <= list[j]
        BY <1>1, <1>2, <3>2, TilesApart
      <4>2. list[i] \in Int /\ list[j] \in Int /\ header[list[i]].size \in Nat
        BY <1>2, <2>2
      <4>3. list[i] # list[j]
        BY <4>1, <4>2
      <4> QED BY <4>3 DEF h
    <3>3. i \in Int /\ j \in Int
      BY <1>2
    <3> QED BY <2>3, <3>1, <3>2, <3>3
  <2> QED BY <2>1, <2>2, <2>3
<1>12. \A j \in 1 .. n : j # i => hd[list[j]] = header[list[j]]
  BY <1>6, <1>11
<1>13. \A j \in 1 .. m : hd[L[j]] = new[L[j]]
  BY <1>6, <1>10
<1>14. \A j \in 1 .. n + m - 1 : \/ \E k \in 1 .. n : k # i /\ r[j] = list[k]
                                 \/ \E k \in 1 .. m : r[j] = L[k]
  <2> TAKE j \in 1 .. n + m - 1
  <2>1. CASE j < i
    <3>1. j \in 1 .. n /\ j # i
      BY <1>2, <1>8, <2>1
    <3> QED BY <1>9, <2>1, <3>1
  <2>2. CASE ~ (j < i) /\ j < i + m
    <3>1. j - i + 1 \in 1 .. m
      BY <1>2, <1>8, <2>2
    <3> QED BY <1>9, <2>2, <3>1
  <2>3. CASE ~ (j < i) /\ ~ (j < i + m)
    <3>1. j - m + 1 \in 1 .. n /\ j - m + 1 # i
      BY <1>2, <1>8, <2>3
    <3> QED BY <1>9, <2>3, <3>1
  <2> QED BY <2>1, <2>2, <2>3
<1>15. Tiles(r, hd)
  <2> DEFINE was == [a \in Int |-> a + HeaderSize + header[a].size]
             ends == [a \in Int |-> a + HeaderSize + hd[a].size]
  <2>1. \A j \in 1 .. n : was[list[j]] = IF j = n THEN AddressEnd ELSE list[j + 1]
    <3> TAKE j \in 1 .. n
    <3>1. list[j] + HeaderSize + header[list[j]].size = IF j = n THEN AddressEnd ELSE list[j + 1]
      BY <1>1, <1>2 DEF Tiles
    <3> QED BY <1>11, <3>1
  <2>2. \A j \in 1 .. n : j # i => ends[list[j]] = was[list[j]]
    BY <1>11, <1>12
  <2>3. \A j \in 1 .. m : ends[L[j]] = IF j = m THEN was[list[i]] ELSE L[j + 1]
    <3> TAKE j \in 1 .. m
    <3>1. L[j] \in Int
      <4>1. L[j] \in DOMAIN new
        BY <1>10
      <4> QED BY <1>4, <4>1
    <3>2. was[list[i]] = E
      BY <1>2, <1>11 DEF E, h, MemoryEnd
    <3> QED BY <1>10, <1>13, <3>1, <3>2
  <2>4. L[1] = list[i]
    BY <1>10 DEF h
  <2> HIDE DEF was, ends
  <2>5. \A j \in 1 .. n + m - 1 : ends[r[j]] = IF j = n + m - 1 THEN AddressEnd ELSE r[j + 1]
    <3>1. n \in Nat \ {0} /\ m \in Nat \ {0} /\ i \in 1 .. n
      BY <1>2, <1>8
    <3>2. Chain(list, n, was, AddressEnd) /\ Chain(L, m, ends, was[list[i]])
      BY <2>1, <2>3 DEF Chain
    <3>3. Chain(r, n + m - 1, ends, AddressEnd)
      BY <1>s, <2>2, <2>4, <3>1, <3>2, SplicedChain
    <3> QED BY <3>3 DEF Chain
  <2>6. ASSUME NEW j \in 1 .. n + m - 1
        PROVE  r[j] \in Int /\ hd[r[j]].known
    <3>1. CASE \E k \in 1 .. n : k # i /\ r[j] = list[k]
      BY <1>11, <1>12, <3>1
    <3>2. CASE \E k \in 1 .. m : r[j] = L[k]
      <4>1. PICK k \in 1 .. m : r[j] = L[k]
        BY <3>2
      <4>2. L[k] \in DOMAIN new /\ new[L[k]].known /\ hd[L[k]] = new[L[k]]
        BY <1>10, <1>13
      <4>3. L[k] \in Int
        BY <1>4, <4>2
      <4> QED BY <4>1, <4>2, <4>3
    <3> QED BY <1>14, <3>1, <3>2
  <2>7. \A j \in 1 .. n + m - 1 :
          /\ hd[r[j]].known
          /\ r[j] + HeaderSize + hd[r[j]].size = IF j = n + m - 1 THEN AddressEnd ELSE r[j + 1]
    BY <2>5, <2>6 DEF ends
  <2>8. r[1] = AddressStart
    <3>1. list[1] = AddressStart /\ 1 \in 1 .. n + m - 1
      BY <1>1, <1>2, <1>8 DEF Tiles
    <3>2. CASE 1 < i
      BY <1>9, <3>1, <3>2
    <3>3. CASE i = 1
      <4>1. ~ (1 < i) /\ 1 < i + m /\ 1 - i + 1 = 1
        BY <1>8, <3>3
      <4>2. r[1] = L[1]
        BY <1>9, <3>1, <4>1
      <4> QED BY <1>10, <3>1, <3>3, <4>2 DEF h
    <3> QED BY <1>2, <3>2, <3>3
  <2>9. \A j \in DOMAIN r :
          /\ hd[r[j]].known
          /\ r[j] + HeaderSize + hd[r[j]].size = IF j = Len(r) THEN AddressEnd ELSE r[j + 1]
    BY <1>8, <2>7
  <2> QED BY <1>8, <2>8, <2>9 DEF Tiles
<1>16. ASSUME \A j \in 1 .. n - 1 : ~(header[list[j]].tag = Free /\ header[list[j + 1]].tag = Free)
       PROVE  \A j \in 1 .. n + m - 2 : ~(hd[r[j]].tag = Free /\ hd[r[j + 1]].tag = Free)
  <2> DEFINE was == {a \in Int : header[a].tag = Free}
             free == {a \in Int : hd[a].tag = Free}
  <2>1. \A j \in 1 .. n - 1 : ~ (list[j] \in was /\ list[j + 1] \in was)
    BY <1>16
  <2>2. \A j \in 1 .. n : j # i => (list[j] \in free <=> list[j] \in was)
    BY <1>11, <1>12
  <2>3. \A j \in 1 .. m - 1 : ~ (L[j] \in free /\ L[j + 1] \in free)
    <3> TAKE j \in 1 .. m - 1
    <3>1. j \in 1 .. m /\ j + 1 \in 1 .. m
      BY <1>8
    <3> QED BY <1>10, <1>13, <3>1
  <2>4. list[i] \in was
    BY <1>2, <1>11
  <2> HIDE DEF was, free
  <2>5. \A j \in 1 .. n + m - 2 : ~ (r[j] \in free /\ r[j + 1] \in free)
    <3>1. n \in Nat \ {0} /\ m \in Nat \ {0} /\ i \in 1 .. n
      BY <1>2, <1>8
    <3>2. NoNeighbours(list, n, was) /\ NoNeighbours(L, m, free)
      BY <2>1, <2>3 DEF NoNeighbours
    <3>3. NoNeighbours(r, n + m - 1, free)
      BY <1>s, <2>2, <2>4, <3>1, <3>2, SplicedNeighbours
    <3>4. n + m - 1 - 1 = n + m - 2
      BY <3>1
    <3> TAKE j \in 1 .. n + m - 2
    <3>5. j \in 1 .. (n + m - 1) - 1
      BY <3>1
    <3> QED BY <3>3, <3>5 DEF NoNeighbours
  <2>6. \A j \in 1 .. n + m - 1 : r[j] \in Int
    <3>1. \A a \in Addresses : a \in Int
      BY DEF Addresses
    <3>2. \A j \in 1 .. Len(r) : r[j] \in Addresses
      BY <1>7
    <3> QED BY <1>8, <3>1, <3>2
  <2>7. \A j \in 1 .. n + m - 2 : j \in 1 .. n + m - 1 /\ j + 1 \in 1 .. n + m - 1
    <3>1. n \in Nat /\ m \in Nat
      BY <1>2, <1>8
    <3> QED BY <3>1
  <2> TAKE j \in 1 .. n + m - 2
  <2>8. r[j] \in Int /\ r[j + 1] \in Int
    BY <2>6, <2>7
  <2>9. ~ (r[j] \in free /\ r[j + 1] \in free)
    BY <2>5
  <2> QED BY <2>8, <2>9 DEF free
<1>17. Len(r) - 1 = n + m - 2 /\ Len(list) - 1 = n - 1
  BY <1>2, <1>8
<1>18. ASSUME NEW g \in ToSet(list), g # h PROVE g \in ToSet(r)
  <2>1. PICK k \in 1 .. n : g = list[k]
    BY <1>2 DEF ToSet
  <2>2. k # i
    BY <1>18, <2>1 DEF h
  <2>3. CASE k < i
    <3>1. k \in 1 .. n + m - 1
      BY <1>2, <1>8, <2>3
    <3> QED BY <1>8, <1>9, <2>1, <2>3, <3>1 DEF ToSet
  <2>4. CASE i < k
    <3> DEFINE j == k + m - 1
    <3>1. j \in 1 .. n + m - 1 /\ ~ (j < i) /\ ~ (j < i + m) /\ j - m + 1 = k
      BY <1>2, <1>8, <2>4
    <3> HIDE DEF j
    <3>2. r[j] = list[j - m + 1]
      BY <1>9, <3>1
    <3> QED BY <1>8, <2>1, <3>1, <3>2 DEF ToSet
  <2>5. k \in Int /\ i \in Int
    BY <1>2
  <2> QED BY <2>2, <2>3, <2>4, <2>5
<1>19. q \in ToSet(r)
  <2>1. PICK k \in 1 .. m : L[k] = q
    BY <1>10
  <2> DEFINE j == k + i - 1
  <2>2. j \in 1 .. n + m - 1 /\ ~ (j < i) /\ j < i + m /\ j - i + 1 = k
    BY <1>2, <1>8
  <2> HIDE DEF j
  <2>3. r[j] = L[j - i + 1]
    BY <1>9, <2>2
  <2> QED BY <1>8, <2>1, <2>2, <2>3 DEF ToSet
<1>20. hd[q] = Header(Tag, size)
  BY <1>4, <1>6
<1> QED BY <1>7, <1>15, <1>16, <1>17, <1>18, <1>19, <1>20 DEF r, hd, q, h

\* A block that a caller has is not the one that is cut, and no piece touches it.
LEMMA SplitApart ==
  ASSUME PoolInv, NEW h \in ToSet(list), NEW p \in Nat, NEW size \in Nat,
         header[h].tag = Free, Possible(p, size, h),
         NEW u \in Callers, NEW e \in Has(u)
  PROVE  /\ e.data - HeaderSize \in ToSet(list) /\ e.data - HeaderSize # h /\ e.data # p
         /\ \A a \in DOMAIN Pieces(p, size, h) : Span(a, HeaderSize) \cap Span(e.data, e.size) = {}
<1> USE PoolAssumption
<1> DEFINE g == e.data - HeaderSize
           new == Pieces(p, size, h)
<1>1. /\ e.data \in Nat /\ e.size \in Nat /\ g \in ToSet(list) /\ g \in Int
      /\ header[g] = Header(Tag, e.size) /\ MemoryEnd(g) = e.data + e.size /\ g + HeaderSize = e.data
  BY OwnedBlock
<1>2. g # h
  BY <1>1, HeaderFields DEF Tag, Free
<1>3. /\ h \in Nat /\ MemoryEnd(h) \in Nat
      /\ \A a \in DOMAIN new : a \in Int /\ h <= a /\ a + HeaderSize <= MemoryEnd(h)
      /\ h + HeaderSize <= p /\ p + size <= MemoryEnd(h)
  BY Typed, BlockInside, PiecesTile DEF CutInto
<1> HIDE DEF g, new
<1>4. MemoryEnd(g) <= h \/ MemoryEnd(h) <= g
  BY <1>1, <1>2, Typed, BlocksApart
<1>5. e.data # p
  BY <1>1, <1>3, <1>4
<1>6. ASSUME NEW a \in DOMAIN new PROVE Span(a, HeaderSize) \cap Span(e.data, e.size) = {}
  <2>1. a \in Int /\ (a + HeaderSize <= e.data \/ e.data + e.size <= a)
    BY <1>1, <1>3, <1>4
  <2> QED BY <1>1, <2>1 DEF Span
<1> QED BY <1>1, <1>2, <1>5, <1>6 DEF g, new

\* ExAllocatePoolWithTag cuts a free block for a caller: the headers of the
\* pieces fall into that block, so what the others hold stays as it is.
LEMMA SplitKeeps ==
  ASSUME PoolInv, NEW t \in Callers, NEW i \in DOMAIN list, NEW p \in Nat, NEW size \in Sizes,
         calls[t] = Idle, header[list[i]].tag = Free, p % Alignment(size) = 0,
         Possible(p, size, list[i]), Split(i, p, size, t), UNCHANGED stopped
  PROVE  PoolInv'
<1> USE PoolAssumption
<1> DEFINE h == list[i]
           q == p - HeaderSize
           B == [data |-> p, size |-> size]
           c == [at |-> "filling", data |-> p, size |-> size]
           new == Pieces(p, size, h)
           written == (UNION {Span(a, HeaderSize) : a \in DOMAIN new}) \cap Addresses
<1>1. size \in Nat /\ h \in ToSet(list)
  BY DEF ToSet
<1>2. /\ header' = Written(new) /\ bytes' = BytesWritten(written, "header")
      /\ held' = [held EXCEPT ![t] = @ \cup {B}] /\ calls' = [calls EXCEPT ![t] = c]
  BY SplitUnfolded
<1>3. /\ list' \in Seq(Addresses) /\ Tiles(list', header')
      /\ (\A j \in 1 .. Len(list) - 1 : ~(header[list[j]].tag = Free /\ header[list[j + 1]].tag = Free))
           => \A j \in 1 .. Len(list') - 1 :
                ~(header'[list'[j]].tag = Free /\ header'[list'[j + 1]].tag = Free)
      /\ \A g \in ToSet(list) : g # h => g \in ToSet(list')
      /\ q \in ToSet(list') /\ header'[q] = Header(Tag, size)
  BY <1>1, SplitTiles
<1>4. header' \in [Addresses -> Headers] /\ \A g \in ToSet(list) : g # h => header'[g] = header[g]
  BY <1>1, <1>2, SplitHeaders
<1>5. \A u \in Callers : \A e \in Has(u) :
        /\ e.data - HeaderSize \in ToSet(list) /\ e.data - HeaderSize # h /\ e.data # p
        /\ \A a \in DOMAIN new : Span(a, HeaderSize) \cap Span(e.data, e.size) = {}
  BY <1>1, SplitApart
<1>6. p \in AddressStart .. AddressEnd
  <2>1. CutInto(Linked(p, size, h), new, h, p, size)
    BY <1>1, PiecesTile
  <2>2. /\ h \in Nat /\ AddressStart <= h /\ MemoryEnd(h) \in Nat /\ MemoryEnd(h) <= AddressEnd
        /\ h + HeaderSize <= p /\ p + size <= MemoryEnd(h)
    BY <1>1, <2>1, Typed, BlockInside DEF CutInto
  <2> HIDE DEF h
  <2> QED BY <1>1, <2>2
<1>7. /\ B \in [data : AddressStart .. AddressEnd, size : Sizes] /\ B.data = p /\ B.size = size
      /\ c \in [at : Steps, data : 0 .. AddressEnd, size : Sizes \cup {0}]
      /\ c.at = "filling" /\ c.data = p /\ c.size = size
      /\ [data |-> c.data, size |-> c.size] = B
  BY <1>6 DEF Steps
<1>8. /\ \A u \in Callers : held'[u] = IF u = t THEN held[t] \cup {B} ELSE held[u]
      /\ \A u \in Callers : calls'[u] = IF u = t THEN c ELSE calls[u]
  BY <1>2 DEF PoolInv, TypeOK
<1> HIDE DEF h, q, B, c, new, written
<1>9. calls[t].at = "idle" /\ Has(t) = held[t]
  BY DEF Idle, Has
<1>10. TypeOK'
  <2>1. held' \in [Callers -> SUBSET [data : AddressStart .. AddressEnd, size : Sizes]]
    BY <1>2, <1>7 DEF PoolInv, TypeOK
  <2>2. calls' \in [Callers -> [at : Steps, data : 0 .. AddressEnd, size : Sizes \cup {0}]]
    BY <1>2, <1>7 DEF PoolInv, TypeOK
  <2>3. bytes' \in [Addresses -> Callers \cup {"header", "nothing"}]
    BY <1>2 DEF BytesWritten, PoolInv, TypeOK
  <2> QED BY <1>3, <1>4, <2>1, <2>2, <2>3 DEF PoolInv, TypeOK, Headers
<1>11. Tiles(list, header)'
  BY <1>3 DEF Tiles
<1>12. FreeBlocksAreMerged'
  <2>1. (\A u \in Callers : calls'[u].at # "merging") => (\A u \in Callers : calls[u].at # "merging")
    BY <1>8, <1>9
  <2> QED BY <1>3, <2>1 DEF PoolInv, FreeBlocksAreMerged
<1>13. /\ Has(t)' = Has(t) \cup {B}
       /\ \A u \in Callers : u # t => Has(u)' = Has(u)
  BY <1>7, <1>8, <1>9 DEF Has, BlockOf
<1>14. \A u \in Callers : \A e \in Has(u)' : (u = t /\ e = B) \/ e \in Has(u)
  BY <1>13
<1>15. \A u \in Callers : \A e \in Has(u)' :
         e.data - HeaderSize \in ToSet(list') /\ header'[e.data - HeaderSize] = Header(Tag, e.size)
  <2> TAKE u \in Callers
  <2> TAKE e \in Has(u)'
  <2>1. CASE e = B
    BY <1>3, <1>7, <2>1 DEF q
  <2>2. CASE e \in Has(u)
    <3>1. /\ e.data - HeaderSize \in ToSet(list) /\ e.data - HeaderSize # h
          /\ header[e.data - HeaderSize] = Header(Tag, e.size)
      BY <1>5, <2>2 DEF PoolInv, Ownership
    <3> QED BY <1>3, <1>4, <3>1
  <2> QED BY <1>14, <2>1, <2>2
<1>16. Ownership'
  <2>1. ASSUME NEW s \in Callers, NEW u \in Callers, NEW e \in Has(s)', NEW f \in Has(u)', e.data = f.data
        PROVE  s = u /\ e = f
    <3>1. CASE e \in Has(s) /\ f \in Has(u)
      BY <2>1, <3>1 DEF PoolInv, Ownership
    <3>2. CASE e \in Has(s) /\ u = t /\ f = B
      <4>1. e.data # p
        BY <1>5, <3>2
      <4> QED BY <1>7, <2>1, <3>2, <4>1
    <3>3. CASE s = t /\ e = B /\ f \in Has(u)
      <4>1. f.data # p
        BY <1>5, <3>3
      <4> QED BY <1>7, <2>1, <3>3, <4>1
    <3>4. CASE s = t /\ e = B /\ u = t /\ f = B
      BY <3>4
    <3> QED BY <1>14, <3>1, <3>2, <3>3, <3>4
  <2>2. \A u \in Callers : calls'[u].at = "freeing" => BlockOf(u)' \notin held'[u]
    <3> TAKE u \in Callers
    <3>1. CASE u = t
      BY <1>7, <1>8, <3>1
    <3>2. CASE u # t
      BY <1>8, <3>2 DEF PoolInv, Ownership, BlockOf
    <3> QED BY <3>1, <3>2
  <2>3. \A u \in Callers : calls'[u].at = "filling" => BlockOf(u)' \in held'[u]
    <3> TAKE u \in Callers
    <3>1. CASE u = t
      BY <1>7, <1>8, <3>1 DEF BlockOf
    <3>2. CASE u # t
      BY <1>8, <3>2 DEF PoolInv, Ownership, BlockOf
    <3> QED BY <3>1, <3>2
  <2> QED BY <1>15, <2>1, <2>2, <2>3 DEF Ownership
<1>17. BlocksKeepTheirData'
  <2> SUFFICES ASSUME NEW u \in Callers, NEW e \in held'[u]
               PROVE  /\ e.data % Alignment(e.size) = 0
                      /\ header'[e.data - HeaderSize] = Header(Tag, e.size)
                      /\ (calls'[u].at = "filling" => calls'[u].data # e.data)
                           => \A a \in Span(e.data, e.size) : bytes'[a] = u
    BY DEF BlocksKeepTheirData
  <2>1. e \in Has(u)'
    BY DEF Has
  <2>2. header'[e.data - HeaderSize] = Header(Tag, e.size)
    BY <1>15, <2>1
  <2>3. CASE u = t /\ e = B
    <3>1. calls'[u].at = "filling" /\ calls'[u].data = e.data
      BY <1>7, <1>8, <2>3
    <3> QED BY <1>7, <2>2, <2>3, <3>1
  <2>4. CASE e \in held[u]
    <3>1. e \in Has(u)
      BY <2>4, Typed
    <3>2. Span(e.data, e.size) \subseteq Addresses
      <4>1. /\ e.data \in Nat /\ e.size \in Nat /\ e.data + e.size <= AddressEnd
            /\ AddressStart + HeaderSize <= e.data
        BY <3>1, OwnedBlock
      <4> QED BY <4>1 DEF Span, Addresses
    <3>3. \A a \in Span(e.data, e.size) : a \notin written
      BY <1>5, <3>1 DEF written
    <3>4. \A a \in Span(e.data, e.size) : bytes'[a] = bytes[a]
      BY <1>2, <3>2, <3>3 DEF BytesWritten
    <3>5. calls[u].at = "filling" => calls'[u] = calls[u]
      BY <1>8, <1>9
    <3>6. e.data % Alignment(e.size) = 0
      BY <2>4 DEF PoolInv, BlocksKeepTheirData
    <3>7. (calls[u].at = "filling" => calls[u].data # e.data)
             => \A a \in Span(e.data, e.size) : bytes[a] = u
      BY <2>4 DEF PoolInv, BlocksKeepTheirData
    <3> QED BY <2>2, <3>4, <3>5, <3>6, <3>7
  <2>5. e \in held[u] \/ (u = t /\ e = B)
    BY <1>8
  <2> QED BY <2>3, <2>4, <2>5
<1>18. StopsAreTheCallers'
  BY DEF PoolInv, StopsAreTheCallers
<1> QED BY <1>10, <1>11, <1>12, <1>16, <1>17, <1>18 DEF PoolInv

-----------------------------------------------------------------------------
\* The search finds what it looks for, and nothing smaller.
LEMMA LeastFound ==
  ASSUME NEW S \in SUBSET Nat, S # {}
  PROVE  Least(S) \in S /\ \A y \in S : Least(S) <= y
<1>1. \E x \in S : \A y \in S : x <= y
  BY LeastNatural
<1> QED BY <1>1 DEF Least

\* A step of a caller in ExAllocatePoolWithTag that changes neither blocks nor
\* what callers have: it stops the kernel, or answers NULL.
LEMMA FailKeeps ==
  ASSUME PoolInv, NEW t \in Callers, NEW size \in Sizes, calls[t] = Idle,
         UNCHANGED <<list, header, bytes, held, stopped>>,
         calls' = [calls EXCEPT ![t] = [at |-> "failed", data |-> 0, size |-> size]]
  PROVE  PoolInv'
<1> DEFINE c == [at |-> "failed", data |-> 0, size |-> size]
<1>1. /\ \A u \in Callers : calls'[u] = IF u = t THEN c ELSE calls[u]
      /\ c.at = "failed" /\ calls[t].at = "idle" /\ calls' = [calls EXCEPT ![t] = c]
  BY DEF PoolInv, TypeOK, Idle
<1>2. c \in [at : Steps, data : 0 .. AddressEnd, size : Sizes \cup {0}]
  BY PoolAssumption DEF Steps
<1> HIDE DEF c
<1>3. TypeOK'
  <2>1. calls' \in [Callers -> [at : Steps, data : 0 .. AddressEnd, size : Sizes \cup {0}]]
    BY <1>1, <1>2 DEF PoolInv, TypeOK
  <2> QED BY <2>1 DEF PoolInv, TypeOK
<1>4. \A u \in Callers : Has(u)' = Has(u)
  BY <1>1 DEF Has, BlockOf
<1>5. Tiles(list, header)'
  BY DEF PoolInv, Tiles
<1>6. FreeBlocksAreMerged'
  <2>1. (\A u \in Callers : calls'[u].at # "merging") => (\A u \in Callers : calls[u].at # "merging")
    BY <1>1
  <2> QED BY <2>1 DEF PoolInv, FreeBlocksAreMerged
<1>7. Ownership'
  <2>1. \A u \in Callers : \A b \in Has(u)' :
          b.data - HeaderSize \in ToSet(list) /\ header[b.data - HeaderSize] = Header(Tag, b.size)
    BY <1>4 DEF PoolInv, Ownership
  <2>2. \A s, u \in Callers : \A b \in Has(s)', d \in Has(u)' : b.data = d.data => s = u /\ b = d
    BY <1>4 DEF PoolInv, Ownership
  <2>3. \A u \in Callers : calls'[u].at = "freeing" => BlockOf(u)' \notin held[u]
    BY <1>1 DEF PoolInv, Ownership, BlockOf
  <2>4. \A u \in Callers : calls'[u].at = "filling" => BlockOf(u)' \in held[u]
    BY <1>1 DEF PoolInv, Ownership, BlockOf
  <2> QED BY <2>1, <2>2, <2>3, <2>4 DEF Ownership
<1>8. BlocksKeepTheirData'
  BY <1>1 DEF PoolInv, BlocksKeepTheirData
<1> QED BY <1>3, <1>5, <1>6, <1>7, <1>8 DEF PoolInv, StopsAreTheCallers

\* ExAllocatePoolWithTag: the search only looks at blocks of the list, so it
\* stops the kernel for the level of its caller alone; else it cuts the first
\* block it can, at the first place it can, or answers NULL.
LEMMA AllocateKeeps ==
  ASSUME PoolInv, NEW t \in Callers, NEW size \in Sizes, NEW irql \in Irqls,
         ExAllocatePoolWithTag(t, size, irql)
  PROVE  PoolInv'
<1> USE PoolAssumption
<1>1. calls[t] = Idle
  BY DEF ExAllocatePoolWithTag
<1>2. \A h \in Searched(size) : ExVerifyPoolBlock(h)
  <2> TAKE h \in Searched(size)
  <2>1. h \in ToSet(list)
    BY DEF Searched, ToSet
  <2> QED BY <2>1, Typed, BlockInside DEF ExVerifyPoolBlock
<1>3. CASE irql > MaximalIrql
  <2>1. stopped' = "irql" /\ UNCHANGED <<list, header, bytes, held, calls>>
    BY <1>3 DEF ExAllocatePoolWithTag
  <2>2. TypeOK' /\ Tiles(list, header)' /\ FreeBlocksAreMerged' /\ Ownership' /\ BlocksKeepTheirData'
    BY <2>1 DEF PoolInv, TypeOK, Tiles, FreeBlocksAreMerged, Ownership, Has, BlockOf, BlocksKeepTheirData
  <2> QED BY <2>1, <2>2 DEF PoolInv, StopsAreTheCallers
<1>4. CASE ~ (irql > MaximalIrql) /\ Fitting(size) = {}
  <2>1. /\ UNCHANGED <<list, header, bytes, held, stopped>>
        /\ calls' = [calls EXCEPT ![t] = [at |-> "failed", data |-> 0, size |-> size]]
    BY <1>2, <1>4 DEF ExAllocatePoolWithTag
  <2> QED BY <1>1, <2>1, FailKeeps
<1>5. CASE ~ (irql > MaximalIrql) /\ Fitting(size) # {}
  <2> DEFINE i == Least(Fitting(size))
             S == {q \in Places(size, list[i]) : Possible(q, size, list[i])}
  <2>1. Split(i, Least(S), size, t) /\ UNCHANGED stopped
    BY <1>2, <1>5 DEF ExAllocatePoolWithTag
  <2>2. i \in Fitting(size)
    <3>1. DOMAIN list \subseteq Nat
      BY Typed
    <3>2. Fitting(size) \subseteq DOMAIN list
      BY DEF Fitting
    <3>3. Fitting(size) \in SUBSET Nat
      BY <3>1, <3>2
    <3> QED BY <1>5, <3>3, LeastFound
  <2> HIDE DEF i
  <2>3. i \in DOMAIN list /\ header[list[i]].tag = Free /\ S # {}
    BY <2>2 DEF Fitting
  <2>4. list[i] \in Nat
    <3>1. list[i] \in ToSet(list)
      BY <2>3 DEF ToSet
    <3> QED BY <3>1, Typed, BlockInside
  <2>5. \A q \in S : q \in Nat /\ q % Alignment(size) = 0 /\ Possible(q, size, list[i])
    <3> TAKE q \in S
    <3>1. q \in Memory(list[i]) .. (MemoryEnd(list[i]) + Alignment(size)) /\ q % Alignment(size) = 0
      BY DEF Places
    <3>2. Memory(list[i]) \in Nat
      BY <2>4 DEF Memory
    <3>3. q \in Nat
      BY <3>1, <3>2
    <3> QED BY <3>1, <3>3
  <2> HIDE DEF S
  <2>6. Least(S) \in S
    <3>1. S \in SUBSET Nat
      BY <2>5
    <3> QED BY <2>3, <3>1, LeastFound
  <2>7. Least(S) \in Nat /\ Least(S) % Alignment(size) = 0 /\ Possible(Least(S), size, list[i])
    BY <2>5, <2>6
  <2> QED BY <1>1, <2>1, <2>3, <2>7, SplitKeeps
<1> QED BY <1>3, <1>4, <1>5

\* Every step keeps the invariant.
LEMMA NextKeeps == PoolInv /\ [Next]_vars => PoolInv'
<1> SUFFICES ASSUME PoolInv, [Next]_vars PROVE PoolInv'
  OBVIOUS
<1>1. CASE Next
  <2> SUFFICES ASSUME NEW t \in Callers,
                      \/ \E size \in Sizes, irql \in Irqls : ExAllocatePoolWithTag(t, size, irql)
                      \/ Fill(t) \/ GiveUp(t)
                      \/ \E b \in held[t], irql \in Irqls : ExFreePoolWithTag(t, b, irql)
                      \/ ClearTag(t) \/ ExMergePool(t)
               PROVE  PoolInv'
    BY <1>1 DEF Next
  <2>1. CASE \E size \in Sizes, irql \in Irqls : ExAllocatePoolWithTag(t, size, irql)
    BY <2>1, AllocateKeeps
  <2>2. CASE Fill(t)
    BY <2>2, FillKeeps
  <2>3. CASE GiveUp(t)
    BY <2>3, GiveUpKeeps
  <2>4. CASE \E b \in held[t], irql \in Irqls : ExFreePoolWithTag(t, b, irql)
    BY <2>4, FreeKeeps
  <2>5. CASE ClearTag(t)
    BY <2>5, ClearTagKeeps
  <2>6. CASE ExMergePool(t)
    BY <2>6, MergeKeeps
  <2> QED BY <2>1, <2>2, <2>3, <2>4, <2>5, <2>6
<1>2. CASE UNCHANGED vars
  <2>1. TypeOK' /\ Tiles(list, header)' /\ FreeBlocksAreMerged' /\ Ownership' /\ BlocksKeepTheirData'
    BY <1>2 DEF vars, PoolInv, TypeOK, Tiles, FreeBlocksAreMerged, Ownership, Has, BlockOf,
       BlocksKeepTheirData
  <2> QED BY <1>2, <2>1 DEF vars, PoolInv, StopsAreTheCallers
<1> QED BY <1>1, <1>2 DEF vars

\* The invariant holds all along.
THEOREM PoolInvariance == Spec => []PoolInv
<1>1. Init => PoolInv
  BY PoolInvInit
<1>2. PoolInv /\ [Next]_vars => PoolInv'
  BY NextKeeps
<1> QED BY <1>1, <1>2, PTL DEF Spec

\* No sequence of allocations and frees of any number of callers, nor any
\* interleaving of them, makes the list of blocks unsound: the blocks fill the
\* region without gap or overlap, free neighbours are merged once no caller is
\* inside ExFreePoolWithTag, and the kernel stops for no caller but one above
\* the pool's level.
THEOREM BlocksAreSound == Spec => []BlocksSound
<1>1. PoolInv => BlocksSound
  <2> SUFFICES ASSUME PoolInv PROVE BlocksSound
    OBVIOUS
  <2>1. BlocksFillTheRegion
    BY Typed DEF BlocksFillTheRegion, Tiles, MemoryEnd
  <2> QED BY <2>1 DEF PoolInv, BlocksSound
<1> QED BY <1>1, PoolInvariance, PTL

\* What a caller wrote into a block it holds stays there until it frees it, and
\* the block is aligned as its size asks.
THEOREM DataIsKept == Spec => []BlocksKeepTheirData
<1>1. PoolInv => BlocksKeepTheirData
  BY DEF PoolInv
<1> QED BY <1>1, PoolInvariance, PTL

-----------------------------------------------------------------------------
\* There is an aligned address in every A addresses.
LEMMA AlignedPlace ==
  ASSUME NEW A \in Nat \ {0}, NEW x \in Nat
  PROVE  \E p \in x .. x + A - 1 : p % A = 0
<1> DEFINE S == {n \in 0 .. x : \E d \in Nat : A * d \in n .. n + A - 1}
<1>1. 0 \in S
  <2>1. A * 0 \in 0 .. 0 + A - 1 /\ 0 \in 0 .. x
    OBVIOUS
  <2> QED BY <2>1
<1>2. ASSUME NEW n \in 0 .. x, n \in S, n < x PROVE n + 1 \in S
  <2>1. PICK d \in Nat : A * d \in n .. n + A - 1
    BY <1>2
  <2>2. n + 1 \in 0 .. x /\ n \in Nat
    BY <1>2
  <2>3. CASE A * d # n
    <3>1. A * d \in n + 1 .. n + 1 + A - 1
      BY <2>1, <2>2, <2>3
    <3> QED BY <2>2, <3>1
  <2>4. CASE A * d = n
    <3>1. A * (d + 1) = n + A /\ d + 1 \in Nat
      BY <2>4
    <3>2. n + A \in n + 1 .. n + 1 + A - 1
      BY <2>2
    <3>3. \E e \in Nat : A * e \in n + 1 .. n + 1 + A - 1
      BY <3>1, <3>2
    <3> QED BY <2>2, <3>3
  <2> QED BY <2>3, <2>4
<1>3. x \in S
  <2> HIDE DEF S
  <2>1. 0 .. x \subseteq S
    BY <1>1, <1>2, CountingUp
  <2> QED BY <2>1
<1>4. PICK d \in Nat : A * d \in x .. x + A - 1
  BY <1>3
<1>5. ASSUME NEW p \in Nat, p = A * d PROVE p % A = 0
  BY <1>5
<1>6. A * d \in Nat
  OBVIOUS
<1> QED BY <1>4, <1>5, <1>6

\* A free block with room for the data, the bytes that align it and a header on
\* either side has a place that the search tries and takes.
LEMMA RoomIsFound ==
  ASSUME PoolInv, NEW size \in Sizes, NEW i \in DOMAIN list, header[list[i]].tag = Free,
         header[list[i]].size >= size + Alignment(size) + 2 * HeaderSize
  PROVE  i \in Fitting(size)
<1> USE PoolAssumption
<1> DEFINE h == list[i]
           A == Alignment(size)
           M == Memory(h)
           E == MemoryEnd(h)
<1>1. A \in Nat \ {0} /\ size \in Nat
  BY DEF Alignment
<1>2. /\ h \in Nat /\ header[h].size \in Nat /\ M = h + HeaderSize /\ M \in Nat
      /\ E = M + header[h].size /\ E \in Nat
  <2>1. h \in ToSet(list)
    BY DEF ToSet
  <2>2. h \in Nat /\ header[h].size \in Nat
    BY <2>1, Typed, BlockInside
  <2> HIDE DEF h
  <2> QED BY <2>2 DEF Memory, MemoryEnd
<1>3. header[h].size >= size + A + 2 * HeaderSize
  OBVIOUS
<1> HIDE DEF h, A, M, E
<1>4. PICK p \in M + HeaderSize .. M + HeaderSize + A - 1 : p % A = 0
  <2>1. M + HeaderSize \in Nat
    BY <1>2
  <2> QED BY <1>1, <2>1, AlignedPlace
<1>5. /\ p \in M .. E + A /\ p - A + size < E /\ p - M >= HeaderSize
      /\ E - (p + size) >= HeaderSize
  BY <1>1, <1>2, <1>3
<1>6. p \in Places(size, h)
  BY <1>4, <1>5 DEF Places, A, M, E
<1>7. Possible(p, size, h)
  BY <1>5 DEF Possible, Splits, M, E
<1>8. size < header[h].size
  BY <1>1, <1>2, <1>3
<1> QED BY <1>6, <1>7, <1>8 DEF Fitting, h

\* What one step of a caller answers with NULL, no free block had room for.
LEMMA FailuresStep ==
  ASSUME PoolInv, [Next]_vars, NEW t \in Callers, calls[t].at = "idle", calls'[t].at = "failed",
         NEW i \in DOMAIN list, header[list[i]].tag = Free
  PROVE  header[list[i]].size < calls'[t].size + Alignment(calls'[t].size) + 2 * HeaderSize
<1> USE PoolAssumption
<1>1. \A u \in Callers : \A c : calls' = [calls EXCEPT ![u] = c] =>
        calls'[t] = IF u = t THEN c ELSE calls[t]
  BY DEF PoolInv, TypeOK
<1>2. calls' # calls
  OBVIOUS
<1>3. PICK u \in Callers : \/ \E size \in Sizes, irql \in Irqls : ExAllocatePoolWithTag(u, size, irql)
                           \/ Fill(u) \/ GiveUp(u)
                           \/ \E b \in held[u], irql \in Irqls : ExFreePoolWithTag(u, b, irql)
                           \/ ClearTag(u) \/ ExMergePool(u)
  BY <1>2 DEF Next, vars
<1>4. ~ Fill(u) /\ ~ GiveUp(u)
  BY <1>1 DEF Fill, GiveUp, Idle
<1>5. ~ \E b \in held[u], irql \in Irqls : ExFreePoolWithTag(u, b, irql)
  BY <1>1, <1>2 DEF ExFreePoolWithTag
<1>6. ~ ClearTag(u)
  <2> SUFFICES ASSUME ClearTag(u) PROVE FALSE
    OBVIOUS
  <2>1. calls' = [calls EXCEPT ![u].at = "merging"]
    BY DEF ClearTag
  <2>2. calls[u] \in [at : Steps, data : 0 .. AddressEnd, size : Sizes \cup {0}]
    BY Typed
  <2>3. calls'[t] = IF u = t THEN [calls[u] EXCEPT !.at = "merging"] ELSE calls[t]
    BY <2>1 DEF PoolInv, TypeOK
  <2> QED BY <2>2, <2>3
<1>7. ~ ExMergePool(u)
  BY <1>1, <1>2 DEF ExMergePool, Idle
<1>8. PICK size \in Sizes, irql \in Irqls : ExAllocatePoolWithTag(u, size, irql)
  BY <1>3, <1>4, <1>5, <1>6, <1>7
<1>9. CASE Fitting(size) # {} /\ ~ (irql > MaximalIrql \/ \E h \in Searched(size) : ~ExVerifyPoolBlock(h))
  <2>1. \E j, p : Split(j, p, size, u)
    BY <1>8, <1>9 DEF ExAllocatePoolWithTag
  <2>2. PICK j, p : Split(j, p, size, u)
    BY <2>1
  <2>3. calls' = [calls EXCEPT ![u] = [at |-> "filling", data |-> p, size |-> size]]
    BY <2>2, SplitUnfolded
  <2>4. calls'[t] = IF u = t THEN [at |-> "filling", data |-> p, size |-> size] ELSE calls[t]
    BY <1>1, <2>3
  <2> QED BY <2>4
<1>10. CASE Fitting(size) = {} /\ ~ (irql > MaximalIrql \/ \E h \in Searched(size) : ~ExVerifyPoolBlock(h))
  <2>1. calls' = [calls EXCEPT ![u] = [at |-> "failed", data |-> 0, size |-> size]]
    BY <1>8, <1>10 DEF ExAllocatePoolWithTag
  <2>2. calls'[t] = IF u = t THEN [at |-> "failed", data |-> 0, size |-> size] ELSE calls[t]
    BY <1>1, <2>1
  <2>3. calls'[t].size = size
    BY <2>2
  <2>4. ~ (header[list[i]].size >= size + Alignment(size) + 2 * HeaderSize)
    BY <1>10, RoomIsFound
  <2>5. header[list[i]].size \in Nat /\ size \in Nat /\ Alignment(size) \in Nat
    <3>1. list[i] \in ToSet(list)
      BY DEF ToSet
    <3>2. header[list[i]].size \in Nat
      BY <3>1, Typed, BlockInside
    <3> QED BY <3>2 DEF Alignment
  <2> QED BY <2>3, <2>4, <2>5
<1>11. CASE irql > MaximalIrql \/ \E h \in Searched(size) : ~ExVerifyPoolBlock(h)
  BY <1>2, <1>8, <1>11 DEF ExAllocatePoolWithTag
<1> QED BY <1>9, <1>10, <1>11

\* NULL is answered only when no free block has room for the data, the bytes
\* that align it and a header on either side.
THEOREM FailuresAreJustified == Spec => FailuresAreDue
<1>1. PoolInv /\ [Next]_vars =>
        [\A t \in Callers : calls[t].at = "idle" /\ calls'[t].at = "failed" =>
           \A i \in DOMAIN list : header[list[i]].tag = Free =>
             header[list[i]].size <
               calls'[t].size + Alignment(calls'[t].size) + 2 * HeaderSize]_vars
  BY FailuresStep
<1> QED BY <1>1, PoolInvariance, PTL DEF Spec, FailuresAreDue
=============================================================================
