-------------------------------- MODULE Pool --------------------------------
(***************************************************************************)
(* One pool of NNXOSKRN/pool.c: a region of memory cut into blocks, each   *)
(* with a header before its data, on a list in the order of their          *)
(* addresses.  ExAllocatePoolWithTag splits the first free block that has  *)
(* an aligned place for the data; ExFreePoolWithTag marks a block free in  *)
(* one lock section and ExMergePool joins neighbours in another, so other  *)
(* callers run in between.                                                 *)
(*                                                                         *)
(* header[a] is what ExVerifyPoolBlock would find at address a: a header,  *)
(* or Junk where none was written or something was written over it.        *)
(* bytes[a] is who wrote the byte at a last.  Lock sections are atomic.    *)
(***************************************************************************)
EXTENDS Integers, Sequences, FiniteSets, SequencesExt

CONSTANTS Callers,
          AddressStart,    \* first address after the POOL_DESCRIPTOR
          AddressEnd,      \* first address after the region
          HeaderSize,      \* sizeof(POOL_HEADER), 32 in the code
          SYSTEM_ALIGNMENT,\* 16 in the code
          PAGE_SIZE,       \* 4096 in the code
          Sizes,           \* the sizes callers ask for
          Irqls,           \* the levels callers run at
          MaximalIrql,     \* of the pool: APC_LEVEL if it is paged
          MaxHeld          \* bound: blocks a caller holds at a time

ASSUME PoolAssumption ==
  /\ AddressStart \in Nat /\ AddressEnd \in Nat /\ HeaderSize \in Nat \ {0}
  /\ AddressStart + HeaderSize < AddressEnd
  /\ SYSTEM_ALIGNMENT \in Nat \ {0} /\ PAGE_SIZE \in Nat \ {0}
  /\ Sizes \subseteq Nat /\ Irqls \subseteq Nat /\ MaximalIrql \in Nat /\ MaxHeld \in Nat

VARIABLES
  list,       \* PoolHead: the addresses of the headers, in the list's order
  header,     \* at every address: the header there, or Junk
  bytes,      \* at every address: the last writer
  held,       \* the caller's blocks: where their data is and how much
  calls,      \* where the caller is: its step and the block or size it is about
  stopped     \* "no", or why the kernel stopped

vars == <<list, header, bytes, held, calls, stopped>>

Addresses == AddressStart..(AddressEnd - 1)
Free == 0
Tag == 1
Junk == [known |-> FALSE, tag |-> Free, size |-> 0]
Header(tag, size) == [known |-> TRUE, tag |-> tag, size |-> size]
Idle == [at |-> "idle", data |-> 0, size |-> 0]
Span(start, n) == start..(start + n - 1)
Least(S) == CHOOSE x \in S : \A y \in S : x <= y

Init ==
  /\ list = <<AddressStart>>
  /\ header = [a \in Addresses |->
                IF a = AddressStart THEN Header(Free, AddressEnd - AddressStart - HeaderSize)
                ELSE Junk]
  /\ bytes = [a \in Addresses |->
                IF a \in Span(AddressStart, HeaderSize) THEN "header" ELSE "nothing"]
  /\ held = [t \in Callers |-> {}]
  /\ calls = [t \in Callers |-> Idle]
  /\ stopped = "no"

-----------------------------------------------------------------------------
(* Headers and blocks *)

Memory(h) == h + HeaderSize
MemoryEnd(h) == h + HeaderSize + header[h].size

\* ExVerifyPoolBlock: the address and the header of a block of this pool.
ExVerifyPoolBlock(h) == h \in Addresses /\ header[h].known

\* Headers written at addresses of `new' (a function from addresses to headers):
\* they also destroy any other header whose bytes they cover.
Written(new) ==
  [a \in Addresses |->
     IF a \in DOMAIN new THEN new[a]
     ELSE IF \E h \in DOMAIN new : Span(a, HeaderSize) \cap Span(h, HeaderSize) # {} THEN Junk
     ELSE header[a]]
BytesWritten(S, who) == [a \in Addresses |-> IF a \in S THEN who ELSE bytes[a]]

-----------------------------------------------------------------------------
(* ExAllocatePoolWithTag *)

Alignment(size) == IF size < PAGE_SIZE THEN SYSTEM_ALIGNMENT ELSE PAGE_SIZE

\* Room for nothing, or for a header at least.
Splits(gap) == gap = 0 \/ gap >= HeaderSize

\* A place is possible if both pieces can be split off.
Possible(p, size, h) == Splits(p - Memory(h)) /\ Splits(MemoryEnd(h) - (p + size))

\* The aligned places the search tries in a block: the first (alone, in
\* FirstPlace), and the others up to the first that reaches the block's end.
FirstPlace(size, h) ==
  {p \in Memory(h)..(Memory(h) + Alignment(size) - 1) : p % Alignment(size) = 0}
Places(size, h) ==
  {p \in Memory(h)..(MemoryEnd(h) + Alignment(size)) :
     /\ p % Alignment(size) = 0
     /\ p - Alignment(size) < Memory(h) \/ p - Alignment(size) + size < MemoryEnd(h)}

\* Indexes of the blocks that can be used.
Fitting(size) ==
  {i \in DOMAIN list : LET h == list[i] IN
     /\ header[h].tag = Free /\ size < header[h].size
     /\ \E p \in Places(size, h) : Possible(p, size, h)}

\* What is left of the block before and after the data at p.
Preceding(p, h) == Header(Free, p - Memory(h) - HeaderSize)
Following(p, size, h) == Header(Free, MemoryEnd(h) - (p + size) - HeaderSize)

\* The headers of the pieces, at their addresses.
Pieces(p, size, h) ==
  [a \in {h, p - HeaderSize} \cup (IF p + size < MemoryEnd(h) THEN {p + size} ELSE {}) |->
     CASE a = p - HeaderSize -> Header(Tag, size)
       [] a = p + size -> Following(p, size, h)
       [] OTHER -> Preceding(p, h)]

\* The headers of the pieces, as InsertAfter links them.
Linked(p, size, h) ==
  (IF p = Memory(h) THEN <<>> ELSE <<h>>)
    \o <<p - HeaderSize>>
    \o (IF p + size = MemoryEnd(h) THEN <<>> ELSE <<p + size>>)

Split(i, p, size, t) ==
  \E new \in {Pieces(p, size, list[i])} :
    /\ header' = Written(new)
    /\ bytes' = BytesWritten((UNION {Span(a, HeaderSize) : a \in DOMAIN new}) \cap Addresses, "header")
    /\ list' = SubSeq(list, 1, i - 1) \o Linked(p, size, list[i]) \o SubSeq(list, i + 1, Len(list))
    /\ held' = [held EXCEPT ![t] = @ \cup {[data |-> p, size |-> size]}]
    /\ calls' = [calls EXCEPT ![t] = [at |-> "filling", data |-> p, size |-> size]]

\* The blocks the search looks at, up to and with the one it uses.
Searched(size) ==
  {list[i] : i \in {j \in DOMAIN list : \A k \in Fitting(size) : j <= k}}

ExAllocatePoolWithTag(t, size, irql) ==
  /\ stopped = "no" /\ calls[t] = Idle /\ Cardinality(held[t]) < MaxHeld
  /\ IF irql > MaximalIrql \/ \E h \in Searched(size) : ~ExVerifyPoolBlock(h)
     THEN /\ stopped' = IF irql > MaximalIrql THEN "irql" ELSE "corrupt"
          /\ UNCHANGED <<list, header, bytes, held, calls>>
     ELSE /\ IF Fitting(size) # {}
             THEN \E i \in {Least(Fitting(size))} :
                    \E p \in {Least({q \in Places(size, list[i]) : Possible(q, size, list[i])})} :
                      Split(i, p, size, t)
             ELSE /\ calls' = [calls EXCEPT ![t] = [at |-> "failed", data |-> 0, size |-> size]]
                  /\ UNCHANGED <<list, header, bytes, held>>
          /\ UNCHANGED stopped

\* The caller writes its block: ExAllocatePoolZero, or what it keeps there.
Fill(t) ==
  /\ stopped = "no" /\ calls[t].at = "filling"
  /\ \E mine \in {Span(calls[t].data, calls[t].size)} :
       /\ bytes' = BytesWritten(mine, t)
       /\ header' = [a \in Addresses |->
                      IF Span(a, HeaderSize) \cap mine # {} THEN Junk ELSE header[a]]
  /\ calls' = [calls EXCEPT ![t] = Idle]
  /\ UNCHANGED <<list, held, stopped>>

\* NULL: the caller gives up.
GiveUp(t) ==
  /\ stopped = "no" /\ calls[t].at = "failed"
  /\ calls' = [calls EXCEPT ![t] = Idle]
  /\ UNCHANGED <<list, header, bytes, held, stopped>>

-----------------------------------------------------------------------------
(* ExFreePoolWithTag *)

\* Before the lock: the tag and the level.
ExFreePoolWithTag(t, b, irql) ==
  /\ stopped = "no" /\ calls[t] = Idle /\ b \in held[t]
  /\ IF header[b.data - HeaderSize].tag = Free THEN stopped' = "freed" /\ UNCHANGED <<held, calls>>
     ELSE IF irql > MaximalIrql THEN stopped' = "irql" /\ UNCHANGED <<held, calls>>
     ELSE /\ calls' = [calls EXCEPT ![t] = [at |-> "freeing", data |-> b.data, size |-> b.size]]
          /\ held' = [held EXCEPT ![t] = @ \ {b}]
          /\ UNCHANGED stopped
  /\ UNCHANGED <<list, header, bytes>>

\* The first lock section.
ClearTag(t) ==
  /\ stopped = "no" /\ calls[t].at = "freeing"
  /\ header' = [header EXCEPT ![calls[t].data - HeaderSize].tag = Free]
  /\ calls' = [calls EXCEPT ![t].at = "merging"]
  /\ UNCHANGED <<list, bytes, held, stopped>>

\* One step of ExMergePool's walk: h joins the last block kept, if both are
\* free and it follows at once, or is kept; first as if the walk went on after
\* a merge, so that a block takes one neighbour, then as if the tag of the next
\* block were not looked at.
JoinedOnce(kept, h) ==
  IF kept # <<>> /\ Last(kept).tag = Free /\ header[h].tag = Free
       /\ Last(kept).at + HeaderSize + Last(kept).size = h
       /\ Last(kept).size = header[Last(kept).at].size
  THEN [kept EXCEPT ![Len(kept)].size = @ + header[h].size + HeaderSize]
  ELSE Append(kept, [at |-> h, tag |-> header[h].tag, size |-> header[h].size])
JoinedWithAny(kept, h) ==
  IF kept # <<>> /\ Last(kept).tag = Free
       /\ Last(kept).at + HeaderSize + Last(kept).size = h
  THEN [kept EXCEPT ![Len(kept)].size = @ + header[h].size + HeaderSize]
  ELSE Append(kept, [at |-> h, tag |-> header[h].tag, size |-> header[h].size])
Joined(kept, h) ==
  IF kept # <<>> /\ Last(kept).tag = Free /\ header[h].tag = Free
       /\ Last(kept).at + HeaderSize + Last(kept).size = h
  THEN [kept EXCEPT ![Len(kept)].size = @ + header[h].size + HeaderSize]
  ELSE Append(kept, [at |-> h, tag |-> header[h].tag, size |-> header[h].size])

\* The blocks kept, when the walk has come to the n-th of the list.
Merged[n \in 0..Len(list)] ==
  IF n = 0 THEN <<>> ELSE Joined(Merged[n - 1], list[n])

\* The second lock section.
ExMergePool(t) ==
  /\ stopped = "no" /\ calls[t].at = "merging"
  /\ IF \E h \in ToSet(list) : ~ExVerifyPoolBlock(h)
     THEN stopped' = "corrupt" /\ UNCHANGED <<list, header, calls>>
     ELSE \E kept \in {Merged[Len(list)]} :
            /\ list' = [i \in DOMAIN kept |-> kept[i].at]
            /\ header' = [a \in Addresses |->
                           IF \E i \in DOMAIN kept : kept[i].at = a
                           THEN LET k == CHOOSE i \in DOMAIN kept : kept[i].at = a
                                IN Header(kept[k].tag, kept[k].size)
                           ELSE header[a]]
            /\ calls' = [calls EXCEPT ![t] = Idle]
            /\ UNCHANGED stopped
  /\ UNCHANGED <<bytes, held>>

Next ==
  \E t \in Callers :
    \/ \E size \in Sizes, irql \in Irqls : ExAllocatePoolWithTag(t, size, irql)
    \/ Fill(t) \/ GiveUp(t)
    \/ \E b \in held[t], irql \in Irqls : ExFreePoolWithTag(t, b, irql)
    \/ ClearTag(t) \/ ExMergePool(t)

Spec == Init /\ [][Next]_vars

-----------------------------------------------------------------------------
(* Properties *)

Steps == {"idle", "filling", "failed", "freeing", "merging"}

\* The types of the variables.
TypeOK ==
  /\ list \in Seq(Addresses)
  /\ header \in [Addresses -> [known : BOOLEAN, tag : {Free, Tag}, size : Nat]]
  /\ bytes \in [Addresses -> Callers \cup {"header", "nothing"}]
  /\ held \in [Callers -> SUBSET [data : AddressStart..AddressEnd, size : Sizes]]
  /\ calls \in [Callers -> [at : Steps, data : 0..AddressEnd, size : Sizes \cup {0}]]
  /\ stopped \in {"no", "irql", "corrupt", "freed"}

\* Through every split and every merge of every caller the blocks of the list
\* fill the region from its first address to its last, without gap or overlap
\* (ExAllocatePoolWithTag's excess bytes, MergeWithNextBlock).
BlocksFillTheRegion ==
  /\ list[1] = AddressStart
  /\ \A i \in DOMAIN list :
       MemoryEnd(list[i]) = IF i = Len(list) THEN AddressEnd ELSE list[i + 1]

\* What a caller wrote into a block it still holds is there, whatever the others
\* allocated, freed and merged since; the block is aligned as its size asks and
\* its header still has its size.
BlocksKeepTheirData ==
  \A t \in Callers : \A b \in held[t] :
    /\ b.data % Alignment(b.size) = 0
    /\ header[b.data - HeaderSize] = Header(Tag, b.size)
    /\ (calls[t].at = "filling" => calls[t].data # b.data)
         => \A a \in Span(b.data, b.size) : bytes[a] = t

\* Two free blocks stand side by side only while a caller is between the two
\* lock sections of ExFreePoolWithTag: splits that left small pieces behind are
\* undone by the time the last free is over.
FreeBlocksAreMerged ==
  (\A t \in Callers : calls[t].at # "merging") =>
    \A i \in 1..(Len(list) - 1) :
      ~(header[list[i]].tag = Free /\ header[list[i + 1]].tag = Free)

\* NULL is answered only when no free block has room for the data, the bytes
\* that align it and a header on either side: no shape of the free blocks makes
\* the search pass over a block that is large enough.
FailuresAreDue ==
  [][\A t \in Callers : calls[t].at = "idle" /\ calls'[t].at = "failed" =>
       \A i \in DOMAIN list : header[list[i]].tag = Free =>
         header[list[i]].size <
           calls'[t].size + Alignment(calls'[t].size) + 2 * HeaderSize]_vars

\* Callers that free what they hold never stop the kernel with a corrupt block
\* or a block that was free already; only a call above the pool's level does.
StopsAreTheCallers == stopped \in {"no", "irql"}
\* No sequence of allocations and frees, nor any interleaving of them, makes the
\* list of blocks unsound: the parts above.
BlocksSound ==
  /\ TypeOK
  /\ BlocksFillTheRegion
  /\ FreeBlocksAreMerged
  /\ StopsAreTheCallers
=============================================================================
