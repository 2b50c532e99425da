--------------------------- MODULE NetFile_proofs ---------------------------
EXTENDS NetFile, SequenceTheorems, TLAPS

(***************************************************************************)
(* The inductive invariant.  What a call leaves behind when it fails       *)
(* depends on how far it came: the parts say what each step has taken and  *)
(* what the locals of DoRequest can hold then.                             *)
(***************************************************************************)
Lines == {"status", "other", "length", "blank", "byte"} \X Nat

Requests ==
  [h : Handles \cup {NoHandle}, size : Nat, offset : Nat, info : BOOLEAN,
   left : Nat, retries : 0 .. MaxDhcpRetries, total : Nat, at : Nat,
   chunk : Seq(Nat), buf : Seq(Nat)]

\* A handle's parent is open or known to be gone; a root is never read, and
\* the others have a name.
HandlesInv ==
  \A h \in Open :
    /\ handles[h].parent \in Open \cup {NoHandle, Dangling}
    /\ IF handles[h].parent = NoHandle THEN handles[h].pos = 0
                                       ELSE handles[h].url # <<>>

RequestInv ==
  /\ req \in Requests /\ net \in Seq(Lines)
  /\ pc \notin {"down", "idle"} => req.h \in Open /\ handles[req.h].parent # NoHandle
  /\ pc \notin {"headers", "body"} => req.total = 0
  /\ pc # "body" => req.at = 0 /\ req.chunk = <<>> /\ req.buf = <<>>
  /\ pc = "body" => /\ req.at < req.total
                    /\ Len(req.chunk) + req.left = CurSize(req.total, req.at)

HistoryInv ==
  /\ got \in [Handles -> [from : Nat, data : Seq(Nat)]]
  /\ last \in [h : Handles \cup {NoHandle}, info : BOOLEAN, asked : Nat,
               pos : Nat, gave : Nat]
  /\ last.h \in Open \cup {NoHandle}

\* The request buffer is in use until the request is sent.
BlocksInv ==
  faults = {} =>
    blocks = (UNION {HandleBlocks(h) : h \in Open})
               \cup (IF pc \in {"create", "configure", "connect", "send"}
                     THEN {RequestBuffer} ELSE {})

IInv == TypeOK /\ HandlesInv /\ RequestInv /\ HistoryInv /\ ConnectionsClosed
          /\ BlocksInv

\* A request's buffer is not a block of a handle.
LEMMA BufferIsNoHandleBlock ==
  ASSUME NEW h \in Handles
  PROVE  RequestBuffer \notin HandleBlocks(h)
BY NetFileAssumption DEF RequestBuffer, HandleBlocks

\* A place counted from the end of what is there, and from the start of a part.
LEMMA SamePlace ==
  ASSUME NEW v \in Int, NEW x \in Int, NEW y \in Int, NEW z \in Int, NEW u \in Int,
         v + x = y + z
  PROVE  y + (z + (u - x)) = v + u
OBVIOUS

\* A function on 1..n with values in a set is a sequence over it.
LEMMA FunctionsAreSequences ==
  ASSUME NEW S, NEW n \in Nat, NEW f \in [1 .. n -> S]
  PROVE  f \in Seq(S)
OBVIOUS

\* A tuple of elements of a set is a sequence over it.
LEMMA TuplesAreSequences ==
  ASSUME NEW S, NEW a \in S, NEW b \in S, NEW c \in S, NEW d \in S
  PROVE  /\ <<a>> \in Seq(S) /\ <<a, b>> \in Seq(S)
         /\ <<a, b, c, d>> \in Seq(S)
<1>1. <<a>> \in Seq(S)
  OBVIOUS
<1>2. <<a, b>> \in Seq(S)
  OBVIOUS
<1>3. <<a, b, c, d>> \in Seq(S)
  OBVIOUS
<1> QED BY <1>1, <1>2, <1>3

\* A response is a sequence of lines, whatever the file.
LEMMA ResponsesAreLines ==
  ASSUME NEW url, NEW r \in Responses(url)
  PROVE  r \in Seq(Lines)
<1>1. CASE url \in DOMAIN Content
  <2> DEFINE L == Len(Content[url])
  <2>1. Content[url] \in Seq(0 .. 255) /\ L \in Nat
    BY <1>1, NetFileAssumption
  <2>2. Bytes(Content[url]) \in Seq(Lines)
    <3>1. \A i \in 1 .. L : <<"byte", Content[url][i]>> \in Lines
      <4> TAKE i \in 1 .. L
      <4>1. Content[url][i] \in 0 .. 255
        BY <2>1, ElementOfSeq
      <4> DEFINE c == Content[url][i]
      <4> HIDE DEF c
      <4>2. c \in Nat
        <5>1. 0 .. 255 \subseteq Nat
          OBVIOUS
        <5> QED BY <4>1, <5>1, Zenon DEF c
      <4>3. <<"byte", c>> \in Lines
        BY <4>2 DEF Lines
      <4> QED BY <4>3 DEF c
    <3>2. Bytes(Content[url]) \in [1 .. L -> Lines]
      BY <3>1 DEF Bytes
    <3> HIDE DEF L
    <3> QED BY <2>1, <3>2, FunctionsAreSequences
  <2>3. PICK headers \in {<<<<"other", 0>>, <<"length", L>>>>, <<<<"other", 0>>>>} :
          r = <<<<"status", 200>>>> \o headers \o <<<<"blank", 0>>>> \o Bytes(Content[url])
    BY <1>1 DEF Responses
  <2> HIDE DEF L
  <2>4. /\ <<"status", 200>> \in Lines /\ <<"other", 0>> \in Lines
        /\ <<"length", L>> \in Lines /\ <<"blank", 0>> \in Lines
    BY <2>1 DEF Lines
  <2> HIDE DEF Lines
  <2> DEFINE a == <<"status", 200>>
             o == <<"other", 0>>
             l == <<"length", L>>
             b == <<"blank", 0>>
             d == Bytes(Content[url])
  <2>5. a \in Lines /\ o \in Lines /\ l \in Lines /\ b \in Lines /\ d \in Seq(Lines)
    BY <2>2, <2>4
  <2>6. headers \in {<<o, l>>, <<o>>} /\ r = <<a>> \o headers \o <<b>> \o d
    BY <2>3
  <2> HIDE DEF a, o, l, b, d
  <2>7. headers \in Seq(Lines)
    BY <2>5, <2>6, TuplesAreSequences
  <2>8. <<a>> \o headers \in Seq(Lines)
    BY <2>5, <2>7
  <2>9. <<a>> \o headers \o <<b>> \in Seq(Lines)
    BY <2>5, <2>8
  <2> QED BY <2>5, <2>6, <2>9
<1>2. CASE url \notin DOMAIN Content
  <2>1. /\ <<"status", 404>> \in Lines /\ <<"length", 1>> \in Lines
        /\ <<"blank", 0>> \in Lines /\ <<"byte", 0>> \in Lines
    BY DEF Lines
  <2> HIDE DEF Lines
  <2> DEFINE four == <<<<"status", 404>>, <<"length", 1>>, <<"blank", 0>>, <<"byte", 0>>>>
  <2>2. four \in Seq(Lines)
    BY <2>1, TuplesAreSequences
  <2>3. r = four
    BY <1>2 DEF Responses
  <2> QED BY <2>2, <2>3
<1> QED BY <1>1, <1>2

\* The steps that change no handle and what is known of it.
LEMMA HandlesUntouched ==
  ASSUME IInv, UNCHANGED <<handles, got, last>>
  PROVE  /\ Open' = Open /\ HandlesInv' /\ HistoryInv'
         /\ handles' \in [Handles -> Wrappers \cup {Closed}]
BY DEF Open, IInv, TypeOK, HandlesInv, HistoryInv

\* A call that fails gives everything back.
LEMMA FailedCallStep ==
  ASSUME IInv, FailedCall, pc # "down", faults \subseteq faults', 
         faults' \subseteq faults \cup {"LineFreedTwice"}
  PROVE  IInv'
<1> USE DEF FailedCall, Returns, TcpClose
<1>1. Open' = Open /\ HandlesInv' /\ HistoryInv' /\ handles' \in [Handles -> Wrappers \cup {Closed}]
  BY HandlesUntouched
<1>2. TypeOK'
  <2>1. pc' = "idle" /\ child' = FALSE
    OBVIOUS
  <2>2. /\ req'.h = NoHandle /\ req'.retries = 0 /\ req'.left = 0 /\ req'.at = 0
        /\ req'.total = 0
    BY DEF NoRequest
  <2>3. faults' \subseteq {"RootLeaks", "PortLeaks", "ParentGone", "StatusIgnored",
                           "LengthMissing", "LineFreedTwice"}
    BY DEF IInv, TypeOK
  <2>4. MaxDhcpRetries \in Nat
    BY NetFileAssumption
  <2>5. req'.retries \in 0 .. MaxDhcpRetries
    BY <2>2, <2>4
  <2>6. req'.at \in 0 .. req'.total /\ req'.left \in Nat
    BY <2>2
  <2> QED BY <1>1, <2>1, <2>2, <2>3, <2>5, <2>6 DEF TypeOK
<1>3. RequestInv'
  BY NetFileAssumption DEF RequestInv, NoRequest, Requests
<1>4. ConnectionsClosed'
  BY DEF ConnectionsClosed
<1>5. BlocksInv'
  <2>1. \A h \in Open : RequestBuffer \notin HandleBlocks(h)
    BY BufferIsNoHandleBlock DEF Open
  <2> DEFINE Taken == UNION {HandleBlocks(h) : h \in Open}
  <2>2. RequestBuffer \notin Taken
    BY <2>1
  <2>3. Taken' = Taken
    BY <1>1
  <2>4. faults' = {} => blocks = Taken \/ blocks = Taken \cup {RequestBuffer}
    <3>1. faults' = {} => faults = {}
      OBVIOUS
    <3> DEFINE Sending == pc \in {"create", "configure", "connect", "send"}
    <3>2. faults = {} => blocks = Taken \cup (IF Sending THEN {RequestBuffer} ELSE {})
      BY DEF IInv, BlocksInv
    <3> HIDE DEF Taken, Sending
    <3> QED BY <3>1, <3>2
  <2> HIDE DEF Taken
  <2>5. faults' = {} => blocks' = Taken'
    BY <2>2, <2>3, <2>4
  <2> QED BY <2>5 DEF BlocksInv, Taken
<1> QED BY <1>1, <1>2, <1>3, <1>4, <1>5 DEF IInv

-----------------------------------------------------------------------------
(***************************************************************************)
(* Handles.                                                                *)
(***************************************************************************)

\* The wrapper that malloc gives is not in use.
LEMMA FreeHandleIsFree ==
  ASSUME FreeHandle \in Handles
  PROVE  FreeHandle \notin Open
<1>1. Open # Handles
  BY NetFileAssumption DEF FreeHandle
<1>2. \E h \in Handles : h \notin Open
  BY <1>1 DEF Open
<1> QED BY <1>1, <1>2 DEF FreeHandle

\* A new handle whose parent is open, with all of its blocks.
LEMMA AllocatedStep ==
  ASSUME IInv, NEW h \in Handles, NEW wrapper \in Wrappers, Allocated(h, wrapper),
         wrapper.parent \in Open \cup {NoHandle, Dangling},
         IF wrapper.parent = NoHandle THEN wrapper.pos = 0 ELSE wrapper.url # <<>>,
         pc \in {"down", "idle"}, pc' = "idle",
         UNCHANGED <<child, req, net, last, faults>>
  PROVE  IInv'
<1>1. h \notin Open
  BY FreeHandleIsFree DEF Allocated
<1>2. Closed \notin Wrappers
  BY NetFileAssumption
<1>3. handles \in [Handles -> Wrappers \cup {Closed}]
  BY DEF IInv, TypeOK
<1>4. handles' = [handles EXCEPT ![h] = wrapper]
  BY DEF Allocated
<1>5. handles' \in [Handles -> Wrappers \cup {Closed}]
  BY <1>3, <1>4
<1>6. Open' = Open \cup {h}
  BY <1>2, <1>3, <1>4 DEF Open
<1>7. TypeOK'
  BY <1>5 DEF IInv, TypeOK
<1>8. HandlesInv'
  <2> SUFFICES ASSUME NEW k \in Open'
               PROVE  /\ handles'[k].parent \in Open' \cup {NoHandle, Dangling}
                      /\ IF handles'[k].parent = NoHandle THEN handles'[k].pos = 0
                                                         ELSE handles'[k].url # <<>>
    BY DEF HandlesInv
  <2>1. CASE k = h
    BY <2>1, <1>3, <1>4, <1>6
  <2>2. CASE k # h
    <3>1. k \in Open /\ k \in Handles /\ handles'[k] = handles[k]
      BY <2>2, <1>3, <1>4, <1>6 DEF Open
    <3>2. /\ handles[k].parent \in Open \cup {NoHandle, Dangling}
          /\ IF handles[k].parent = NoHandle THEN handles[k].pos = 0
                                            ELSE handles[k].url # <<>>
      BY <3>1 DEF IInv, HandlesInv
    <3> QED BY <3>1, <3>2, <1>6
  <2> QED BY <2>1, <2>2
<1>9. RequestInv'
  BY DEF IInv, RequestInv
<1>10. HistoryInv'
  <2>1. got' = [got EXCEPT ![h] = [from |-> 0, data |-> <<>>]]
    BY DEF Allocated
  <2>2. [from |-> 0, data |-> <<>>] \in [from : Nat, data : Seq(Nat)]
    OBVIOUS
  <2>3. got' \in [Handles -> [from : Nat, data : Seq(Nat)]]
    BY <2>1, <2>2 DEF IInv, HistoryInv
  <2> QED BY <2>3, <1>6 DEF IInv, HistoryInv
<1>11. ConnectionsClosed'
  BY DEF IInv, ConnectionsClosed
<1>12. BlocksInv'
  <2> DEFINE Taken == UNION {HandleBlocks(k) : k \in Open}
  <2>1. Taken' = Taken \cup HandleBlocks(h)
    BY <1>6
  <2>2. faults = {} => blocks = Taken
    BY DEF IInv, BlocksInv
  <2> HIDE DEF Taken
  <2>3. faults' = {} => blocks' = Taken'
    BY <2>1, <2>2 DEF Allocated
  <2> QED BY <2>3 DEF BlocksInv, Taken
<1> QED BY <1>7, <1>8, <1>9, <1>10, <1>11, <1>12 DEF IInv

\* The steps that leave handles and the request alone.
LEMMA NothingOpenedStep ==
  ASSUME IInv, UNCHANGED <<pc, handles, child, req, net, got, last>>,
         \/ UNCHANGED <<blocks, faults>>
         \/ /\ faults' # {}
            /\ faults' \subseteq {"RootLeaks", "PortLeaks", "ParentGone", "StatusIgnored",
                                  "LengthMissing", "LineFreedTwice"}
  PROVE  IInv'
<1>1. Open' = Open /\ HandlesInv' /\ HistoryInv' /\ handles' \in [Handles -> Wrappers \cup {Closed}]
  BY HandlesUntouched
<1>2. TypeOK'
  BY <1>1 DEF IInv, TypeOK
<1>3. RequestInv'
  BY <1>1 DEF IInv, RequestInv
<1>4. ConnectionsClosed'
  BY DEF IInv, ConnectionsClosed
<1>5. BlocksInv'
  BY <1>1 DEF IInv, BlocksInv
<1> QED BY <1>1, <1>2, <1>3, <1>4, <1>5 DEF IInv

\* The root is opened.
LEMMA RootStep ==
  ASSUME IInv, FsWrapperOpenNetworkRoot
  PROVE  IInv'
<1>1. pc = "down" /\ UNCHANGED <<child, req, net, last, address, calls>>
  BY DEF FsWrapperOpenNetworkRoot
<1>2. CASE UNCHANGED <<pc, handles, got, blocks, faults>>
  BY <1>1, <1>2, NothingOpenedStep
<1>3. ASSUME NEW h \in Handles, FsWrapperNetworkPopulateRoot(h)
      PROVE  IInv'
  <2>1. CASE Allocated(h, Wrapper(<<>>, NoHandle)) /\ pc' = "idle" /\ UNCHANGED faults
    <3>1. Wrapper(<<>>, NoHandle) \in Wrappers
      BY DEF Wrapper, Wrappers
    <3>2. Wrapper(<<>>, NoHandle).parent = NoHandle /\ Wrapper(<<>>, NoHandle).pos = 0
      BY DEF Wrapper
    <3> QED BY <1>1, <2>1, <3>1, <3>2, AllocatedStep
  <2>2. CASE faults' = faults \cup {"RootLeaks"} /\ UNCHANGED <<pc, handles, got>>
    <3>1. /\ faults' # {}
          /\ faults' \subseteq {"RootLeaks", "PortLeaks", "ParentGone", "StatusIgnored",
                                "LengthMissing", "LineFreedTwice"}
      BY <2>2 DEF IInv, TypeOK
    <3> QED BY <1>1, <2>2, <3>1, NothingOpenedStep
  <2> QED BY <1>3, <2>1, <2>2 DEF FsWrapperNetworkPopulateRoot
<1> QED BY <1>2, <1>3 DEF FsWrapperOpenNetworkRoot

\* A child is a wrapper that has a name and an open parent.
LEMMA ChildStep ==
  ASSUME IInv, NEW h \in Handles, NEW parent \in Open, NEW name \in Names,
         FsWrapperNetworkPopulateChild(h, parent, name),
         pc \in {"down", "idle"}, pc' = "idle",
         UNCHANGED <<child, req, net, last, faults>>
  PROVE  IInv'
<1> DEFINE w == Wrapper(Append(handles[parent].url, name), parent)
<1>1. handles[parent] \in Wrappers
  BY DEF Open, IInv, TypeOK
<1>2. handles[parent].url \in Seq(Names)
  BY <1>1 DEF Wrappers
<1>3. Append(handles[parent].url, name) \in Seq(Names)
      /\ Append(handles[parent].url, name) # <<>>
  BY <1>2
<1>4. parent \in Handles /\ parent # NoHandle
  BY NetFileAssumption DEF Open
<1>5. w \in Wrappers
  BY <1>3, <1>4 DEF Wrapper, Wrappers
<1>6. w.parent = parent /\ w.url # <<>>
  BY <1>3 DEF Wrapper
<1>7. Allocated(h, w)
  BY DEF FsWrapperNetworkPopulateChild
<1> HIDE DEF w
<1> QED BY <1>4, <1>5, <1>6, <1>7, AllocatedStep

\* A handle's parent and last name open the handle again.
LEMMA OpenedStep ==
  ASSUME IInv, NEW self \in Open, NEW name \in Names \cup {"..", "."}, NEW h \in Handles,
         Opened(self, name, h), pc = "idle", pc' = "idle",
         UNCHANGED <<child, req, net, last, faults>>
  PROVE  IInv'
<1> DEFINE Again(of) == IF handles[of].parent = NoHandle
                        THEN Allocated(h, handles[of])
                        ELSE /\ handles[of].parent # Dangling
                             /\ FsWrapperNetworkPopulateChild(
                                  h, handles[of].parent, handles[of].url[Len(handles[of].url)])
<1>1. ASSUME NEW of \in Open, Again(of)
      PROVE  IInv'
  <2>1. handles[of] \in Wrappers
    BY DEF Open, IInv, TypeOK
  <2>2. /\ handles[of].parent \in Open \cup {NoHandle, Dangling}
        /\ IF handles[of].parent = NoHandle THEN handles[of].pos = 0
                                           ELSE handles[of].url # <<>>
    BY DEF IInv, HandlesInv
  <2>3. CASE handles[of].parent = NoHandle
    BY <1>1, <2>1, <2>2, <2>3, AllocatedStep
  <2>4. CASE handles[of].parent # NoHandle
    <3>1. handles[of].parent \in Open /\ handles[of].url # <<>>
      BY <1>1, <2>2, <2>4
    <3>2. handles[of].url \in Seq(Names)
      BY <2>1 DEF Wrappers
    <3>3. handles[of].url[Len(handles[of].url)] \in Names
      BY <3>1, <3>2
    <3> QED BY <1>1, <2>4, <3>1, <3>3, ChildStep
  <2> QED BY <2>3, <2>4
<1>2. CASE name = ".."
  <2>1. handles[self].parent \in Open
    BY <1>2 DEF Opened, IInv, HandlesInv
  <2>2. Again(handles[self].parent)
    BY <1>2 DEF Opened
  <2> HIDE DEF Again
  <2> QED BY <1>1, <2>1, <2>2
<1>3. CASE name # ".." /\ name = "."
  <2>1. Again(self)
    BY <1>3 DEF Opened
  <2> HIDE DEF Again
  <2> QED BY <1>1, <2>1
<1>4. CASE name # ".." /\ name # "."
  <2>1. FsWrapperNetworkPopulateChild(h, self, name) /\ name \in Names
    BY <1>4 DEF Opened
  <2> QED BY <2>1, ChildStep
<1> QED BY <1>2, <1>3, <1>4

\* A handle is opened by name.
LEMMA OpenStep ==
  ASSUME IInv, FsWrapperNetworkOpen
  PROVE  IInv'
<1>1. pc = "idle" /\ pc' = "idle" /\ UNCHANGED <<child, req, net, last>>
  BY DEF FsWrapperNetworkOpen, Idle
<1>2. PICK self \in Open, name \in Names \cup {"..", "."} :
        \/ \E h \in Handles : Opened(self, name, h) /\ UNCHANGED faults
        \/ UNCHANGED <<handles, blocks, got, faults>>
        \/ faults' = faults \cup {"ParentGone"} /\ UNCHANGED <<handles, blocks, got>>
  BY DEF FsWrapperNetworkOpen
<1>3. CASE \E h \in Handles : Opened(self, name, h) /\ UNCHANGED faults
  BY <1>1, <1>3, OpenedStep
<1>4. CASE UNCHANGED <<handles, blocks, got, faults>>
  BY <1>1, <1>4, NothingOpenedStep
<1>5. CASE faults' = faults \cup {"ParentGone"} /\ UNCHANGED <<handles, blocks, got>>
  <2>1. /\ faults' # {}
        /\ faults' \subseteq {"RootLeaks", "PortLeaks", "ParentGone", "StatusIgnored",
                              "LengthMissing", "LineFreedTwice"}
    BY <1>5 DEF IInv, TypeOK
  <2> QED BY <1>1, <1>5, <2>1, NothingOpenedStep
<1> QED BY <1>2, <1>3, <1>4, <1>5

\* A handle is closed: its children know that their parent is gone, and its
\* blocks are nobody else's.
LEMMA CloseStep ==
  ASSUME IInv, FsWrapperNetworkClose
  PROVE  IInv'
<1>1. pc = "idle" /\ UNCHANGED <<pc, child, req, net, faults>>
  BY DEF FsWrapperNetworkClose, Idle
<1>2. PICK h \in Open :
        /\ handles' = [k \in Handles |->
             IF k = h THEN Closed
             ELSE IF k \in Open /\ handles[k].parent = h
             THEN [handles[k] EXCEPT !.parent = Dangling] ELSE handles[k]]
        /\ blocks' = blocks \ HandleBlocks(h)
        /\ last' = IF last.h = h THEN NoAnswer ELSE last
        /\ got' = [got EXCEPT ![h] = [from |-> 0, data |-> <<>>]]
  BY DEF FsWrapperNetworkClose
<1>3. handles \in [Handles -> Wrappers \cup {Closed}] /\ h \in Handles
  BY DEF Open, IInv, TypeOK
<1>4. Closed \notin Wrappers /\ Dangling # NoHandle /\ NoHandle \notin Handles
      /\ Dangling \notin Handles
  BY NetFileAssumption
<1>5. \A k \in Open \ {h} :
        /\ k \in Handles /\ handles[k] \in Wrappers
        /\ handles'[k] \in Wrappers
        /\ handles'[k].url = handles[k].url /\ handles'[k].pos = handles[k].pos
        /\ handles'[k].parent = IF handles[k].parent = h THEN Dangling ELSE handles[k].parent
  <2> TAKE k \in Open \ {h}
  <2>1. k \in Handles /\ handles[k] \in Wrappers
    BY <1>3 DEF Open
  <2>2. CASE handles[k].parent = h
    <3>1. handles'[k] = [handles[k] EXCEPT !.parent = Dangling]
      BY <1>2, <2>1, <2>2
    <3> QED BY <2>1, <2>2, <3>1 DEF Wrappers
  <2>3. CASE handles[k].parent # h
    <3>1. handles'[k] = handles[k]
      BY <1>2, <2>1, <2>3
    <3> QED BY <2>1, <2>3, <3>1
  <2> QED BY <2>2, <2>3
<1>6. \A k \in Handles : k = h \/ k \notin Open => handles'[k] = Closed
  BY <1>2 DEF Open
<1>7. handles' \in [Handles -> Wrappers \cup {Closed}]
  BY <1>2, <1>5, <1>6
<1>8. Open' = Open \ {h}
  BY <1>3, <1>4, <1>5, <1>6 DEF Open
<1>9. TypeOK'
  BY <1>1, <1>7 DEF IInv, TypeOK
<1>10. HandlesInv'
  <2> SUFFICES ASSUME NEW k \in Open'
               PROVE  /\ handles'[k].parent \in Open' \cup {NoHandle, Dangling}
                      /\ IF handles'[k].parent = NoHandle THEN handles'[k].pos = 0
                                                         ELSE handles'[k].url # <<>>
    BY DEF HandlesInv
  <2>1. k \in Open \ {h}
    BY <1>8
  <2>2. /\ handles[k].parent \in Open \cup {NoHandle, Dangling}
        /\ IF handles[k].parent = NoHandle THEN handles[k].pos = 0
                                          ELSE handles[k].url # <<>>
    BY <2>1 DEF IInv, HandlesInv
  <2> QED BY <1>3, <1>4, <1>5, <1>8, <2>1, <2>2
<1>11. RequestInv'
  BY <1>1 DEF IInv, RequestInv
<1>12. HistoryInv'
  <2>1. [from |-> 0, data |-> <<>>] \in [from : Nat, data : Seq(Nat)]
    OBVIOUS
  <2>2. got' \in [Handles -> [from : Nat, data : Seq(Nat)]]
    BY <1>2, <2>1 DEF IInv, HistoryInv
  <2>3. NoAnswer \in [h : Handles \cup {NoHandle}, info : BOOLEAN, asked : Nat,
                      pos : Nat, gave : Nat] /\ NoAnswer.h = NoHandle
    BY DEF NoAnswer
  <2> QED BY <1>2, <1>8, <2>2, <2>3 DEF IInv, HistoryInv
<1>13. ConnectionsClosed'
  BY <1>1 DEF IInv, ConnectionsClosed
<1>14. BlocksInv'
  <2> DEFINE Taken == UNION {HandleBlocks(k) : k \in Open}
  <2>1. \A k \in Open : k # h => HandleBlocks(k) \cap HandleBlocks(h) = {}
    BY DEF HandleBlocks
  <2>2. Taken' = Taken \ HandleBlocks(h)
    BY <1>8, <2>1
  <2>3. faults = {} => blocks = Taken
    BY <1>1 DEF IInv, BlocksInv
  <2> HIDE DEF Taken
  <2>4. faults' = {} => blocks' = Taken'
    BY <1>1, <1>2, <2>2, <2>3
  <2> QED BY <1>1, <2>4 DEF BlocksInv, Taken
<1> QED BY <1>9, <1>10, <1>11, <1>12, <1>13, <1>14 DEF IInv

\* The steps that move the position of a handle that has a parent.
LEMMA MovedHandle ==
  ASSUME IInv, NEW h \in Open, NEW p \in Nat,
         handles[h].parent # NoHandle, handles' = [handles EXCEPT ![h].pos = p]
  PROVE  /\ Open' = Open /\ HandlesInv'
         /\ handles' \in [Handles -> Wrappers \cup {Closed}]
<1>1. handles \in [Handles -> Wrappers \cup {Closed}] /\ h \in Handles
      /\ handles[h] \in Wrappers
  BY DEF Open, IInv, TypeOK
<1>2. handles'[h] = [handles[h] EXCEPT !.pos = p]
  BY <1>1
<1>3. handles'[h] \in Wrappers /\ handles'[h].url = handles[h].url
      /\ handles'[h].parent = handles[h].parent
  BY <1>1, <1>2 DEF Wrappers
<1>4. \A k \in Handles : k # h => handles'[k] = handles[k]
  BY <1>1
<1>5. handles' = [k \in Handles |-> handles'[k]]
  BY <1>1
<1>6. handles' \in [Handles -> Wrappers \cup {Closed}]
  BY <1>1, <1>3, <1>4, <1>5
<1>7. Open' = Open
  <2>1. handles'[h] # Closed
    BY <1>3, NetFileAssumption
  <2> QED BY <1>1, <1>4, <2>1 DEF Open
<1>8. HandlesInv'
  <2> SUFFICES ASSUME NEW k \in Open
               PROVE  /\ handles'[k].parent \in Open \cup {NoHandle, Dangling}
                      /\ IF handles'[k].parent = NoHandle THEN handles'[k].pos = 0
                                                         ELSE handles'[k].url # <<>>
    BY <1>7 DEF HandlesInv
  <2>1. /\ handles[k].parent \in Open \cup {NoHandle, Dangling}
        /\ IF handles[k].parent = NoHandle THEN handles[k].pos = 0
                                          ELSE handles[k].url # <<>>
    BY DEF IInv, HandlesInv
  <2> QED BY <1>3, <1>4, <2>1 DEF Open
<1> QED BY <1>6, <1>7, <1>8

\* A handle is set to a position.
LEMMA SetPositionStep ==
  ASSUME IInv, FsWrapperNetworkSetPosition
  PROVE  IInv'
<1>1. pc = "idle" /\ UNCHANGED <<pc, child, req, net, blocks, faults>> /\ last' = NoAnswer
  BY DEF FsWrapperNetworkSetPosition, Idle
<1>2. PICK h \in Open, p \in Positions :
        /\ handles[h].parent # NoHandle
        /\ handles' = [handles EXCEPT ![h].pos = p]
        /\ got' = [got EXCEPT ![h] = [from |-> p, data |-> <<>>]]
  BY DEF FsWrapperNetworkSetPosition, IsChild
<1>3. p \in Nat
  BY NetFileAssumption
<1>4. Open' = Open /\ HandlesInv' /\ handles' \in [Handles -> Wrappers \cup {Closed}]
  BY <1>2, <1>3, MovedHandle
<1>5. TypeOK'
  BY <1>1, <1>4 DEF IInv, TypeOK
<1>6. RequestInv'
  BY <1>1 DEF IInv, RequestInv
<1>7. HistoryInv'
  <2>1. [from |-> p, data |-> <<>>] \in [from : Nat, data : Seq(Nat)]
    BY <1>3
  <2>2. got' \in [Handles -> [from : Nat, data : Seq(Nat)]]
    BY <1>2, <2>1 DEF IInv, HistoryInv
  <2>3. NoAnswer \in [h : Handles \cup {NoHandle}, info : BOOLEAN, asked : Nat,
                      pos : Nat, gave : Nat] /\ NoAnswer.h = NoHandle
    BY DEF NoAnswer
  <2> QED BY <1>1, <1>4, <2>2, <2>3 DEF HistoryInv
<1>8. ConnectionsClosed'
  BY <1>1 DEF IInv, ConnectionsClosed
<1>9. BlocksInv'
  BY <1>1, <1>4 DEF IInv, BlocksInv
<1> QED BY <1>4, <1>5, <1>6, <1>7, <1>8, <1>9 DEF IInv

-----------------------------------------------------------------------------
(***************************************************************************)
(* Requests.                                                               *)
(***************************************************************************)

\* A request begins with its buffer, if the address is one the loader takes.
LEMMA DoRequestStep ==
  ASSUME IInv, NEW h \in Open, NEW size \in Nat, NEW offset \in Nat, NEW info \in BOOLEAN,
         pc = "idle", IsChild(h), DoRequest(h, size, offset, info),
         UNCHANGED <<handles, child, net, got, last>>
  PROVE  IInv'
<1>1. Open' = Open /\ HandlesInv' /\ HistoryInv' /\ handles' \in [Handles -> Wrappers \cup {Closed}]
  BY HandlesUntouched
<1>2. CASE UNCHANGED <<pc, req, blocks, faults>>
  BY <1>2, NothingOpenedStep
<1>3. CASE faults' = faults \cup {"PortLeaks"} /\ UNCHANGED <<pc, req>>
  <2>1. /\ faults' # {}
        /\ faults' \subseteq {"RootLeaks", "PortLeaks", "ParentGone", "StatusIgnored",
                              "LengthMissing", "LineFreedTwice"}
    BY <1>3 DEF IInv, TypeOK
  <2> QED BY <1>3, <2>1, NothingOpenedStep
<1>4. CASE /\ pc' = "create"
           /\ req' = [NoRequest EXCEPT !.h = h, !.size = size, !.offset = offset,
                                       !.info = info, !.retries = MaxDhcpRetries]
           /\ blocks' = blocks \cup {RequestBuffer}
           /\ UNCHANGED faults
  <2>1. h \in Handles /\ MaxDhcpRetries \in Nat
    BY NetFileAssumption DEF Open
  <2>2. req' = [h |-> h, size |-> size, offset |-> offset, info |-> info, left |-> 0,
                retries |-> MaxDhcpRetries, total |-> 0, at |-> 0, chunk |-> <<>>, buf |-> <<>>]
    BY <1>4 DEF NoRequest
  <2>3. RequestInv'
    <3>1. req' \in Requests
      BY <2>1, <2>2 DEF Requests
    <3>2. /\ req'.h = h /\ req'.total = 0 /\ req'.at = 0 /\ req'.chunk = <<>>
          /\ req'.buf = <<>>
      BY <2>2
    <3> QED BY <1>1, <1>4, <3>1, <3>2 DEF IInv, RequestInv, IsChild
  <2>4. TypeOK'
    <3>1. /\ req'.h \in Handles /\ req'.retries \in 0 .. MaxDhcpRetries
          /\ req'.left \in Nat /\ req'.at \in 0 .. req'.total
      BY <2>1, <2>2
    <3> QED BY <1>1, <1>4, <3>1 DEF IInv, TypeOK
  <2>5. ConnectionsClosed'
    BY <1>4 DEF IInv, ConnectionsClosed
  <2>6. BlocksInv'
    BY <1>1, <1>4 DEF IInv, BlocksInv
  <2> QED BY <1>1, <2>3, <2>4, <2>5, <2>6 DEF IInv
<1> QED BY <1>2, <1>3, <1>4 DEF DoRequest

\* A handle is read, or asked for the size of its file.
LEMMA CallStep ==
  ASSUME IInv, FsWrapperNetworkRead \/ FsWrapperNetworkGetInfo
  PROVE  IInv'
<1>1. CASE FsWrapperNetworkRead
  <2>1. PICK h \in Open, n \in Sizes : IsChild(h) /\ DoRequest(h, n, handles[h].pos, FALSE)
    BY <1>1 DEF FsWrapperNetworkRead
  <2>2. handles[h] \in Wrappers
    BY DEF Open, IInv, TypeOK
  <2>3. n \in Nat /\ handles[h].pos \in Nat
    BY <2>2, NetFileAssumption DEF Wrappers
  <2> QED BY <1>1, <2>1, <2>3, DoRequestStep DEF FsWrapperNetworkRead
<1>2. CASE FsWrapperNetworkGetInfo
  <2>1. PICK h \in Open : IsChild(h) /\ DoRequest(h, 0, 0, TRUE)
    BY <1>2 DEF FsWrapperNetworkGetInfo
  <2> QED BY <1>2, <2>1, DoRequestStep DEF FsWrapperNetworkGetInfo
<1> QED BY <1>1, <1>2

\* The steps of a request in which the buffer is in use.
Sending == {"create", "configure", "connect", "send"}

\* A request that goes on, and frees its buffer when it has been sent.
LEMMA ProceedsStep ==
  ASSUME IInv, NEW p \in {"configure", "connect", "send", "status", "headers", "body"},
         Proceeds(p), RequestInv', child' \in BOOLEAN,
         faults \subseteq faults',
         faults' \subseteq faults \cup {"StatusIgnored", "LengthMissing", "LineFreedTwice"},
         \/ UNCHANGED blocks /\ (pc \in Sending <=> p \in Sending)
         \/ blocks' = blocks \ {RequestBuffer} /\ pc \in Sending /\ p \notin Sending
  PROVE  IInv'
<1>1. Open' = Open /\ HandlesInv' /\ HistoryInv' /\ handles' \in [Handles -> Wrappers \cup {Closed}]
  BY HandlesUntouched DEF Proceeds
<1>2. pc' = p
  BY DEF Proceeds
<1>3. TypeOK'
  <2>1. req' \in Requests /\ req'.at \in 0 .. req'.total
    <3>1. req' \in Requests
      BY DEF RequestInv
    <3>2. req'.at \in Nat /\ req'.total \in Nat
      BY <3>1 DEF Requests
    <3>3. req'.at <= req'.total
      BY <3>2 DEF RequestInv
    <3> QED BY <3>1, <3>2, <3>3
  <2>2. faults' \subseteq {"RootLeaks", "PortLeaks", "ParentGone", "StatusIgnored",
                           "LengthMissing", "LineFreedTwice"}
    BY DEF IInv, TypeOK
  <2>3. req'.h \in Handles \cup {NoHandle} /\ req'.retries \in 0 .. MaxDhcpRetries
        /\ req'.left \in Nat
    BY <2>1 DEF Requests
  <2> QED BY <1>1, <1>2, <2>1, <2>2, <2>3 DEF TypeOK
<1>4. ConnectionsClosed'
  BY <1>2 DEF ConnectionsClosed
<1>5. BlocksInv'
  <2> DEFINE Taken == UNION {HandleBlocks(k) : k \in Open}
             Buffer(now) == IF now \in Sending THEN {RequestBuffer} ELSE {}
  <2>1. RequestBuffer \notin Taken
    BY BufferIsNoHandleBlock DEF Open
  <2>2. Taken' = Taken
    BY <1>1
  <2>3. faults' = {} => faults = {}
    OBVIOUS
  <2>4. faults = {} => blocks = Taken \cup Buffer(pc)
    BY DEF IInv, BlocksInv, Sending
  <2> HIDE DEF Taken
  <2>5. faults' = {} => blocks' = Taken' \cup Buffer(p)
    <3>1. CASE UNCHANGED blocks /\ (pc \in Sending <=> p \in Sending)
      BY <2>2, <2>3, <2>4, <3>1
    <3>2. CASE blocks' = blocks \ {RequestBuffer} /\ pc \in Sending /\ p \notin Sending
      BY <2>1, <2>2, <2>3, <2>4, <3>2
    <3> QED BY <3>1, <3>2
  <2> QED BY <1>2, <2>5 DEF BlocksInv, Taken, Sending
<1> QED BY <1>1, <1>3, <1>4, <1>5 DEF IInv

\* What a request that runs knows of its locals.
LEMMA Running ==
  ASSUME IInv, pc \notin {"down", "idle"}
  PROVE  /\ req \in Requests /\ net \in Seq(Lines)
         /\ req.h \in Open /\ req.h \in Handles
         /\ handles[req.h] \in Wrappers
BY DEF IInv, TypeOK, RequestInv, Open

\* A TCP child is created.
LEMMA CreateChildStep ==
  ASSUME IInv, CreateChild
  PROVE  IInv'
<1>1. pc = "create" /\ UNCHANGED faults
  BY DEF CreateChild, InRequest
<1>2. CASE FailedCall
  BY <1>1, <1>2, FailedCallStep
<1>3. CASE Proceeds("configure") /\ child' = TRUE /\ UNCHANGED <<req, net, blocks>>
  <2>1. Open' = Open
    BY <1>3, HandlesUntouched DEF Proceeds
  <2>2. RequestInv'
    BY <1>1, <1>3, <2>1 DEF IInv, RequestInv, Proceeds
  <2> QED BY <1>1, <1>3, <2>2, ProceedsStep DEF Sending
<1> QED BY <1>2, <1>3 DEF CreateChild

\* The child is configured.
LEMMA ConfigureStep ==
  ASSUME IInv, Configure
  PROVE  IInv'
<1>1. pc = "configure" /\ UNCHANGED faults
  BY DEF Configure, InRequest
<1>2. CASE FailedCall
  BY <1>1, <1>2, FailedCallStep
<1>3. CASE Proceeds("connect") /\ UNCHANGED <<req, net, blocks, child>>
  <2>1. Open' = Open
    BY <1>3, HandlesUntouched DEF Proceeds
  <2>2. RequestInv'
    BY <1>1, <1>3, <2>1 DEF IInv, RequestInv, Proceeds
  <2>3. child' \in BOOLEAN
    BY <1>3 DEF IInv, TypeOK
  <2> QED BY <1>1, <1>3, <2>2, <2>3, ProceedsStep DEF Sending
<1> QED BY <1>2, <1>3 DEF Configure

\* A local of DoRequest that only counts is set.
LEMMA CountersAreLocals ==
  ASSUME req \in Requests, NEW n \in Nat
  PROVE  /\ [req EXCEPT !.left = n] \in Requests
         /\ n <= MaxDhcpRetries => [req EXCEPT !.retries = n] \in Requests
<1>1. [req EXCEPT !.left = n] \in Requests
  BY DEF Requests
<1>2. ASSUME n <= MaxDhcpRetries
      PROVE  [req EXCEPT !.retries = n] \in Requests
  <2>1. MaxDhcpRetries \in Nat
    BY NetFileAssumption
  <2>2. n \in 0 .. MaxDhcpRetries
    BY <1>2, <2>1
  <2> QED BY <2>2 DEF Requests
<1> QED BY <1>1, <1>2

\* DHCP has not finished.
LEMMA NoMappingStep ==
  ASSUME IInv, NoMapping
  PROVE  IInv'
<1>1. pc = "configure" /\ UNCHANGED faults
  BY DEF NoMapping, InRequest
<1>2. CASE FailedCall
  BY <1>1, <1>2, FailedCallStep
<1>3. CASE /\ req.retries # 0 /\ req' = [req EXCEPT !.retries = @ - 1]
           /\ Proceeds("configure") /\ UNCHANGED <<net, blocks, child>>
  <2>1. Open' = Open
    BY <1>3, HandlesUntouched DEF Proceeds
  <2>2. req \in Requests
    BY <1>1, Running
  <2>3. req.retries - 1 \in Nat /\ req.retries - 1 <= MaxDhcpRetries
    <3>1. req.retries \in 0 .. MaxDhcpRetries
      BY <2>2 DEF Requests
    <3>2. MaxDhcpRetries \in Nat
      BY NetFileAssumption
    <3> QED BY <1>3, <3>1, <3>2
  <2>4. req' \in Requests
    BY <1>3, <2>2, <2>3, CountersAreLocals
  <2>5. /\ req'.h = req.h /\ req'.total = req.total /\ req'.at = req.at
        /\ req'.chunk = req.chunk /\ req'.buf = req.buf
    BY <1>3, <2>2 DEF Requests
  <2>6. RequestInv'
    BY <1>1, <1>3, <2>1, <2>4, <2>5 DEF IInv, RequestInv, Proceeds
  <2>7. child' \in BOOLEAN
    BY <1>3 DEF IInv, TypeOK
  <2> QED BY <1>1, <1>3, <2>6, <2>7, ProceedsStep DEF Sending
<1> QED BY <1>2, <1>3 DEF NoMapping

\* The connection is made and the request is about to be sent.
LEMMA ConnectStep ==
  ASSUME IInv, TcpConnectHelper
  PROVE  IInv'
<1>1. pc = "connect" /\ UNCHANGED faults
  BY DEF TcpConnectHelper, InRequest
<1>2. CASE FailedCall
  BY <1>1, <1>2, FailedCallStep
<1>3. CASE /\ Proceeds("send") /\ req' = [req EXCEPT !.left = RequestSize]
           /\ UNCHANGED <<net, blocks, child>>
  <2>1. Open' = Open
    BY <1>3, HandlesUntouched DEF Proceeds
  <2>2. req \in Requests /\ RequestSize \in Nat
    BY <1>1, Running, NetFileAssumption
  <2>3. req' \in Requests
    BY <1>3, <2>2, CountersAreLocals
  <2>4. /\ req'.h = req.h /\ req'.total = req.total /\ req'.at = req.at
        /\ req'.chunk = req.chunk /\ req'.buf = req.buf
    BY <1>3, <2>2 DEF Requests
  <2>5. RequestInv'
    BY <1>1, <1>3, <2>1, <2>3, <2>4 DEF IInv, RequestInv, Proceeds
  <2>6. child' \in BOOLEAN
    BY <1>3 DEF IInv, TypeOK
  <2> QED BY <1>1, <1>3, <2>5, <2>6, ProceedsStep DEF Sending
<1> QED BY <1>2, <1>3 DEF TcpConnectHelper

\* A piece of the request is sent.
LEMMA SendStep ==
  ASSUME IInv, TcpSend
  PROVE  IInv'
<1>1. pc = "send" /\ UNCHANGED faults
  BY DEF TcpSend, InRequest
<1>2. CASE FailedCall
  BY <1>1, <1>2, FailedCallStep
<1>3. ASSUME NEW n \in TcpSendPartial(req.left), req' = [req EXCEPT !.left = @ - n],
             UNCHANGED child,
             \/ Proceeds("send") /\ UNCHANGED <<net, blocks>>
             \/ /\ Proceeds("status") /\ blocks' = blocks \ {RequestBuffer}
                /\ net' \in Responses(handles[req.h].url)
      PROVE  IInv'
  <2>1. Open' = Open
    BY <1>3, HandlesUntouched DEF Proceeds
  <2>2. req \in Requests
    BY <1>1, Running
  <2>3. req.left - n \in Nat
    <3>1. req.left \in Nat
      BY <2>2 DEF Requests
    <3> QED BY <3>1 DEF TcpSendPartial
  <2>4. req' \in Requests
    BY <1>3, <2>2, <2>3, CountersAreLocals
  <2>5. /\ req'.h = req.h /\ req'.total = req.total /\ req'.at = req.at
        /\ req'.chunk = req.chunk /\ req'.buf = req.buf
    BY <1>3, <2>2 DEF Requests
  <2>6. net' \in Seq(Lines)
    BY <1>1, <1>3, Running, ResponsesAreLines
  <2>7. RequestInv'
    BY <1>1, <1>3, <2>1, <2>4, <2>5, <2>6 DEF IInv, RequestInv, Proceeds
  <2>8. child' \in BOOLEAN
    BY <1>3 DEF IInv, TypeOK
  <2> QED BY <1>1, <1>3, <2>7, <2>8, ProceedsStep DEF Sending
<1> QED BY <1>1, <1>2, <1>3 DEF TcpSend

\* A line that cannot be received ends the call.
LEMMA LineFailsStep ==
  ASSUME IInv, pc # "down", GetHttpLineFails
  PROVE  IInv'
<1>1. FailedCall /\ (UNCHANGED faults \/ faults' = faults \cup {"LineFreedTwice"})
  BY DEF GetHttpLineFails
<1> QED BY <1>1, FailedCallStep

\* The first of the lines to come, and those after it.
LEMMA NextLine ==
  ASSUME net \in Seq(Lines), net # <<>>
  PROVE  Head(net) \in Lines /\ Tail(net) \in Seq(Lines) /\ Head(net)[2] \in Nat
<1>1. Head(net) \in Lines /\ Tail(net) \in Seq(Lines)
  OBVIOUS
<1>2. \A line \in Lines : line[2] \in Nat
  BY DEF Lines
<1> QED BY <1>1, <1>2

\* The status line is received.
LEMMA StatusStep ==
  ASSUME IInv, StatusLine
  PROVE  IInv'
<1>1. pc = "status"
  BY DEF StatusLine, InRequest
<1>2. CASE GetHttpLineFails
  BY <1>1, <1>2, LineFailsStep
<1>3. CASE /\ net # <<>> /\ Proceeds("headers") /\ net' = Tail(net)
           /\ faults' = faults \cup (IF Head(net)[2] = 404 THEN {"StatusIgnored"} ELSE {})
           /\ UNCHANGED <<req, blocks, child>>
  <2>1. Open' = Open
    BY <1>3, HandlesUntouched DEF Proceeds
  <2>2. net' \in Seq(Lines)
    BY <1>1, <1>3, Running, NextLine
  <2>3. RequestInv'
    BY <1>1, <1>3, <2>1, <2>2 DEF IInv, RequestInv, Proceeds
  <2>4. child' \in BOOLEAN
    BY <1>3 DEF IInv, TypeOK
  <2> QED BY <1>1, <1>3, <2>3, <2>4, ProceedsStep DEF Sending
<1>4. StatusLine => GetHttpLineFails \/
           (/\ net # <<>> /\ Proceeds("headers") /\ net' = Tail(net)
            /\ faults' = faults \cup (IF Head(net)[2] = 404 THEN {"StatusIgnored"} ELSE {})
            /\ UNCHANGED <<req, blocks, child>>)
  BY DEF StatusLine, OnHttpLine
<1> QED BY <1>2, <1>3, <1>4

\* A response has been answered: the connection is closed, and only the
\* position of its handle may have moved.
LEMMA AnsweredStep ==
  ASSUME IInv, pc \in {"headers", "body"}, NEW n \in Nat, Answered(n),
         UNCHANGED blocks, faults \subseteq faults', faults' \subseteq faults \cup {"LengthMissing"},
         \/ UNCHANGED <<handles, got>>
         \/ \E data \in Seq(Nat) :
              /\ handles' = [handles EXCEPT ![req.h].pos = @ + Len(data)]
              /\ got' = [got EXCEPT ![req.h].data = @ \o data]
  PROVE  IInv'
<1> USE DEF Answered, Returns, TcpClose
<1>1. /\ req \in Requests /\ req.h \in Open /\ req.h \in Handles
      /\ handles[req.h] \in Wrappers /\ handles[req.h].parent # NoHandle
  BY Running DEF IInv, RequestInv
<1>2. handles[req.h].pos \in Nat
  BY <1>1 DEF Wrappers
<1>3. /\ Open' = Open /\ HandlesInv' /\ handles' \in [Handles -> Wrappers \cup {Closed}]
      /\ got' \in [Handles -> [from : Nat, data : Seq(Nat)]]
  <2>1. CASE UNCHANGED <<handles, got>>
    BY <2>1 DEF Open, IInv, TypeOK, HandlesInv, HistoryInv
  <2>2. ASSUME NEW data \in Seq(Nat),
               handles' = [handles EXCEPT ![req.h].pos = @ + Len(data)],
               got' = [got EXCEPT ![req.h].data = @ \o data]
        PROVE  /\ Open' = Open /\ HandlesInv' /\ handles' \in [Handles -> Wrappers \cup {Closed}]
               /\ got' \in [Handles -> [from : Nat, data : Seq(Nat)]]
    <3>1. handles[req.h].pos + Len(data) \in Nat
      BY <1>2
    <3>2. handles' = [handles EXCEPT ![req.h].pos = handles[req.h].pos + Len(data)]
      BY <2>2
    <3>3. Open' = Open /\ HandlesInv' /\ handles' \in [Handles -> Wrappers \cup {Closed}]
      BY <1>1, <3>1, <3>2, MovedHandle
    <3>4. got \in [Handles -> [from : Nat, data : Seq(Nat)]]
      BY DEF IInv, HistoryInv
    <3> DEFINE g == got[req.h]
    <3>5. [g EXCEPT !.data = g.data \o data] \in [from : Nat, data : Seq(Nat)]
      <4>1. g \in [from : Nat, data : Seq(Nat)]
        BY <1>1, <3>4
      <4> HIDE DEF g
      <4>2. g.data \o data \in Seq(Nat)
        BY <4>1
      <4> QED BY <4>1, <4>2
    <3>6. got' \in [Handles -> [from : Nat, data : Seq(Nat)]]
      BY <1>1, <2>2, <3>4, <3>5
    <3> QED BY <3>3, <3>6
  <2> QED BY <2>1, <2>2
<1>4. TypeOK'
  <2>1. MaxDhcpRetries \in Nat
    BY NetFileAssumption
  <2>2. /\ req'.h = NoHandle /\ req'.retries = 0 /\ req'.left = 0 /\ req'.at = 0
        /\ req'.total = 0
    BY DEF NoRequest
  <2>3. /\ req'.retries \in 0 .. MaxDhcpRetries /\ req'.at \in 0 .. req'.total
        /\ req'.left \in Nat
    BY <2>1, <2>2
  <2>4. faults' \subseteq {"RootLeaks", "PortLeaks", "ParentGone", "StatusIgnored",
                           "LengthMissing", "LineFreedTwice"}
    BY DEF IInv, TypeOK
  <2> QED BY <1>3, <2>2, <2>3, <2>4 DEF TypeOK
<1>5. RequestInv'
  BY NetFileAssumption DEF RequestInv, NoRequest, Requests
<1>6. HistoryInv'
  <2>1. last' \in [h : Handles \cup {NoHandle}, info : BOOLEAN, asked : Nat,
                   pos : Nat, gave : Nat]
    <3>1. req.h \in Handles /\ req.info \in BOOLEAN /\ req.size \in Nat
      BY <1>1 DEF Requests
    <3>2. handles[req.h].pos + (IF req.info THEN 0 ELSE n) \in Nat
      BY <1>2
    <3> QED BY <3>1, <3>2
  <2>2. last'.h = req.h
    OBVIOUS
  <2> QED BY <1>1, <1>3, <2>1, <2>2 DEF HistoryInv
<1>7. ConnectionsClosed'
  BY DEF ConnectionsClosed
<1>8. BlocksInv'
  BY <1>3 DEF IInv, BlocksInv
<1> QED BY <1>3, <1>4, <1>5, <1>6, <1>7, <1>8 DEF IInv

\* A header is received, or the line that ends them.
LEMMA HeadersStep ==
  ASSUME IInv, Headers
  PROVE  IInv'
<1>1. pc = "headers" /\ req \in Requests
  BY Running DEF Headers, InRequest
<1>2. CASE GetHttpLineFails
  BY <1>1, <1>2, LineFailsStep
<1> DEFINE line == Head(net)
           Length == /\ Proceeds("headers") /\ net' = Tail(net)
                     /\ req' = [req EXCEPT !.total = ContentLength(@, line[2])]
                     /\ UNCHANGED <<faults, blocks, child>>
           Other == /\ Proceeds("headers") /\ net' = Tail(net)
                    /\ UNCHANGED <<req, faults, blocks, child>>
           Blank == /\ faults' = faults \cup
                         (IF req.total < Len(net) - 1 THEN {"LengthMissing"} ELSE {})
                    /\ UNCHANGED blocks
                    /\ \/ Answered(req.total) /\ UNCHANGED <<handles, got>>
                       \/ Stored(<<>>)
                       \/ /\ Proceeds("body") /\ ~ AllReceived(req.total, 0)
                          /\ req' = [req EXCEPT !.left = CurSize(req.total, 0)]
                          /\ net' = Tail(net) /\ UNCHANGED child
<1>3. (net # <<>> /\ (Length \/ Other \/ Blank)) \/ GetHttpLineFails
  BY DEF Headers, OnHttpLine
<1>4. ASSUME net # <<>>
      PROVE  line \in Lines /\ line[2] \in Nat /\ Tail(net) \in Seq(Lines)
  BY <1>1, <1>4, Running, NextLine
<1>5. CASE net # <<>> /\ Length
  <2>1. Open' = Open
    BY <1>5, HandlesUntouched DEF Proceeds
  <2>2. ContentLength(req.total, line[2]) \in Nat
    BY <1>1, <1>4, <1>5, SMTT(30) DEF ContentLength, Requests
  <2>3. req' = [req EXCEPT !.total = ContentLength(req.total, line[2])]
    BY <1>5
  <2> HIDE DEF line
  <2>4. /\ req' \in Requests /\ req'.h = req.h /\ req'.at = req.at
        /\ req'.chunk = req.chunk /\ req'.buf = req.buf
    BY <1>1, <2>2, <2>3 DEF Requests
  <2>5. net' \in Seq(Lines)
    BY <1>4, <1>5
  <2>6. RequestInv'
    BY <1>1, <1>5, <2>1, <2>4, <2>5 DEF IInv, RequestInv, Proceeds
  <2>7. child' \in BOOLEAN
    BY <1>5 DEF IInv, TypeOK
  <2> QED BY <1>1, <1>5, <2>6, <2>7, ProceedsStep DEF Sending
<1>6. CASE net # <<>> /\ Other
  <2>1. Open' = Open
    BY <1>6, HandlesUntouched DEF Proceeds
  <2>2. RequestInv'
    BY <1>1, <1>4, <1>6, <2>1 DEF IInv, RequestInv, Proceeds
  <2>3. child' \in BOOLEAN
    BY <1>6 DEF IInv, TypeOK
  <2> QED BY <1>1, <1>6, <2>2, <2>3, ProceedsStep DEF Sending
<1>7. CASE net # <<>> /\ Blank
  <2>1. CASE Answered(req.total) /\ UNCHANGED <<handles, got>>
    <3>1. req.total \in Nat
      BY <1>1 DEF Requests
    <3> QED BY <1>1, <1>7, <2>1, <3>1, AnsweredStep
  <2>2. CASE Stored(<<>>)
    <3>1. Len(<<>>) \in Nat /\ <<>> \in Seq(Nat)
      OBVIOUS
    <3> QED BY <1>1, <1>7, <2>2, <3>1, AnsweredStep DEF Stored
  <2>3. CASE /\ Proceeds("body") /\ ~ AllReceived(req.total, 0)
             /\ req' = [req EXCEPT !.left = CurSize(req.total, 0)]
             /\ net' = Tail(net) /\ UNCHANGED child
    <3>1. Open' = Open
      BY <2>3, HandlesUntouched DEF Proceeds
    <3>2. ChunkSize \in Nat /\ req.total \in Nat /\ req.total > 0
      BY <1>1, <2>3, NetFileAssumption DEF AllReceived, Requests
    <3>3. CurSize(req.total, 0) \in Nat
      BY <3>2 DEF CurSize, Lower
    <3>4. /\ req' \in Requests /\ req'.h = req.h /\ req'.at = req.at /\ req'.total = req.total
          /\ req'.chunk = req.chunk /\ req'.buf = req.buf /\ req'.left = CurSize(req.total, 0)
      BY <1>1, <2>3, <3>3 DEF Requests
    <3>5. req.at = 0 /\ req.chunk = <<>>
      BY <1>1 DEF IInv, RequestInv
    <3>6. Len(req'.chunk) + req'.left = CurSize(req'.total, req'.at) /\ req'.at < req'.total
      BY <3>2, <3>3, <3>4, <3>5
    <3>7. RequestInv'
      BY <1>1, <1>4, <1>7, <2>3, <3>1, <3>4, <3>6 DEF IInv, RequestInv, Proceeds
    <3>8. child' \in BOOLEAN
      BY <2>3 DEF IInv, TypeOK
    <3> QED BY <1>1, <1>7, <2>3, <3>7, <3>8, ProceedsStep DEF Sending
  <2> QED BY <1>7, <2>1, <2>2, <2>3
<1> QED BY <1>2, <1>3, <1>5, <1>6, <1>7

\* What is taken of a chunk is a part of it, and what is stored a sequence of
\* bytes.
LEMMA StoredIsBytes ==
  ASSUME req \in Requests, NEW chunk \in Seq(Nat)
  PROVE  /\ Wanted(chunk, req.at, req.offset) \in Seq(Nat)
         /\ Buffered(chunk) \in Seq(Nat)
<1>1. req.at \in Nat /\ req.offset \in Nat /\ req.size \in Nat /\ req.buf \in Seq(Nat)
  BY DEF Requests
<1> DEFINE from == (IF req.offset > req.at THEN Lower(req.offset - req.at, Len(chunk)) ELSE 0) + 1
<1>2. from \in Nat \ {0} /\ from <= Len(chunk) + 1
  BY <1>1 DEF Lower
<1> HIDE DEF from
<1> DEFINE w == SubSeq(chunk, from, Len(chunk))
<1>3. w \in Seq(Nat)
  BY <1>2
<1>4. Wanted(chunk, req.at, req.offset) = w
  BY DEF Wanted, from
<1> HIDE DEF w
<1> DEFINE room == Lower(Len(w), req.size - Len(req.buf))
<1>5. room \in Int /\ room <= Len(w)
  BY <1>1, <1>3 DEF Lower
<1>6. Buffered(chunk) = req.buf \o SubSeq(w, 1, room)
  BY <1>4 DEF Buffered
<1> HIDE DEF room
<1>7. SubSeq(w, 1, room) \in Seq(Nat)
  BY <1>3, <1>5
<1> QED BY <1>1, <1>3, <1>4, <1>6, <1>7

\* Two sequences of bytes, one after the other.
LEMMA ConcatIsBytes ==
  ASSUME NEW a \in Seq(Nat), NEW b \in Seq(Nat)
  PROVE  a \o b \in Seq(Nat) /\ Len(a \o b) = Len(a) + Len(b)
OBVIOUS

\* The locals of DoRequest when it begins a chunk.
WithChunk(r, at, buf, left) ==
  [r EXCEPT !.at = at, !.chunk = <<>>, !.buf = buf, !.left = left]

\* Beginning a chunk sets the locals of the chunk and leaves those of the call
\* alone.
LEMMA ChunkLocals ==
  ASSUME NEW r \in Requests, NEW at \in Nat, NEW buf \in Seq(Nat), NEW left \in Nat
  PROVE  LET s == WithChunk(r, at, buf, left)
         IN  /\ s \in Requests /\ s.h = r.h /\ s.total = r.total /\ s.size = r.size
             /\ s.offset = r.offset /\ s.info = r.info
             /\ s.at = at /\ s.chunk = <<>> /\ s.buf = buf /\ s.left = left
<1>1. <<>> \in Seq(Nat)
  OBVIOUS
<1> QED BY <1>1 DEF Requests, WithChunk

\* A piece of the body is received.
LEMMA BodyStep ==
  ASSUME IInv, Body
  PROVE  IInv'
<1>1. pc = "body" /\ UNCHANGED faults /\ req \in Requests /\ net \in Seq(Lines)
  BY Running DEF Body, InRequest
<1>2. CASE FailedCall
  BY <1>1, <1>2, FailedCallStep
<1> DEFINE Received(n) == req.chunk \o [i \in 1 .. n |-> net[i][2]]
           More(n, chunk) == /\ n < req.left /\ Proceeds("body")
                             /\ req' = [req EXCEPT !.left = @ - n, !.chunk = chunk]
                             /\ net' = SubSeq(net, n + 1, Len(net))
                             /\ UNCHANGED child
           NextChunk(n, chunk) ==
             /\ ~ (n < req.left) /\ ~ AllReceived(req.total, req.at + Len(chunk))
             /\ Proceeds("body")
             /\ req' = [req EXCEPT !.at = @ + Len(chunk), !.chunk = <<>>,
                                   !.buf = Buffered(chunk),
                                   !.left = CurSize(req.total, req.at + Len(chunk))]
             /\ net' = SubSeq(net, n + 1, Len(net))
             /\ UNCHANGED child
<1>3. \/ FailedCall
      \/ /\ UNCHANGED blocks
         /\ \E n \in TcpReceivePartial(req.left) :
              \/ More(n, Received(n)) \/ Stored(Buffered(Received(n)))
              \/ NextChunk(n, Received(n))
  BY DEF Body
<1>4. ASSUME NEW n \in TcpReceivePartial(req.left), UNCHANGED blocks,
             \/ More(n, Received(n)) \/ Stored(Buffered(Received(n)))
             \/ NextChunk(n, Received(n))
      PROVE  IInv'
  <2>1. /\ req.left \in Nat /\ req.at \in Nat /\ req.total \in Nat /\ req.chunk \in Seq(Nat)
    BY <1>1 DEF Requests
  <2>2. req.at < req.total /\ Len(req.chunk) + req.left = CurSize(req.total, req.at)
    BY <1>1 DEF IInv, RequestInv
  <2>3. ChunkSize \in Nat \ {0}
    BY NetFileAssumption
  <2>4. n \in Nat /\ n > 0 /\ n <= req.left /\ n <= Len(net)
    BY <1>1, <2>1 DEF TcpReceivePartial, Lower
  <2>5. [i \in 1 .. n |-> net[i][2]] \in Seq(Nat) /\ Len([i \in 1 .. n |-> net[i][2]]) = n
    <3>1. \A line \in Lines : line[2] \in Nat
      BY DEF Lines
    <3>2. \A i \in 1 .. n : net[i] \in Lines
      BY <1>1, <2>4, ElementOfSeq
    <3>3. [i \in 1 .. n |-> net[i][2]] \in [1 .. n -> Nat]
      BY <3>1, <3>2
    <3> QED BY <2>4, <3>3, FunctionsAreSequences
  <2> DEFINE chunk == Received(n)
  <2>6. chunk \in Seq(Nat) /\ Len(chunk) = Len(req.chunk) + n
    <3> DEFINE piece == [i \in 1 .. n |-> net[i][2]]
    <3>1. piece \in Seq(Nat) /\ Len(piece) = n
      BY <2>5
    <3> HIDE DEF piece
    <3>2. req.chunk \o piece \in Seq(Nat) /\ Len(req.chunk \o piece) = Len(req.chunk) + n
      BY <2>1, <3>1, ConcatIsBytes
    <3> QED BY <3>2 DEF piece
  <2>7. SubSeq(net, n + 1, Len(net)) \in Seq(Lines)
    BY <1>1, <2>4
  <2> HIDE DEF chunk
  <2>8. CASE More(n, chunk)
    <3>1. Open' = Open
      BY <2>8, HandlesUntouched DEF Proceeds
    <3>2. req.left - n \in Nat
      BY <2>1, <2>4
    <3>3. req' = [req EXCEPT !.left = req.left - n, !.chunk = chunk]
      BY <2>8
    <3>4. /\ req' \in Requests /\ req'.h = req.h /\ req'.at = req.at /\ req'.total = req.total
          /\ req'.chunk = chunk /\ req'.left = req.left - n
      BY <1>1, <2>6, <3>2, <3>3 DEF Requests
    <3>5. Len(req'.chunk) + req'.left = CurSize(req'.total, req'.at) /\ req'.at < req'.total
      <4>1. CurSize(req'.total, req'.at) = CurSize(req.total, req.at)
        BY <3>4
      <4>2. Len(req'.chunk) + req'.left = Len(req.chunk) + req.left
        <5>1. Len(req'.chunk) = Len(req.chunk) + n /\ req'.left = req.left - n
          BY <2>6, <3>4
        <5>2. Len(req.chunk) \in Nat
          BY <2>1
        <5> QED BY <2>1, <2>4, <5>1, <5>2
      <4> QED BY <2>2, <3>4, <4>1, <4>2
    <3>6. RequestInv'
      BY <1>1, <2>7, <2>8, <3>1, <3>4, <3>5 DEF IInv, RequestInv, Proceeds
    <3>7. child' \in BOOLEAN
      BY <2>8 DEF IInv, TypeOK
    <3> QED BY <1>1, <1>4, <2>8, <3>6, <3>7, ProceedsStep
  <2>9. CASE Stored(Buffered(chunk))
    <3> DEFINE data == Buffered(chunk)
    <3>1. data \in Seq(Nat) /\ Len(data) \in Nat
      BY <1>1, <2>6, StoredIsBytes
    <3>2. /\ Answered(Len(data))
          /\ handles' = [handles EXCEPT ![req.h].pos = @ + Len(data)]
          /\ got' = [got EXCEPT ![req.h].data = @ \o data]
      BY <2>9 DEF Stored
    <3> HIDE DEF data
    <3> QED BY <1>1, <1>4, <3>1, <3>2, AnsweredStep
  <2>10. CASE NextChunk(n, chunk)
    <3> DEFINE at == req.at + Len(chunk)
    <3>1. Open' = Open
      BY <2>10, HandlesUntouched DEF Proceeds
    <3>2. at \in Nat /\ at < req.total
      <4>1. Len(req.chunk) \in Nat /\ n = req.left
        BY <2>1, <2>4, <2>10
      <4>2. Len(chunk) = CurSize(req.total, req.at)
        BY <2>1, <2>2, <2>6, <4>1
      <4>3. Len(chunk) <= req.total - req.at /\ Len(chunk) \in Nat
        BY <2>1, <2>2, <2>3, <4>2 DEF CurSize, Lower
      <4>4. at # req.total
        BY <2>10 DEF AllReceived
      <4> QED BY <2>1, <4>3, <4>4
    <3> HIDE DEF at
    <3>3. CurSize(req.total, at) \in Nat
      BY <2>1, <2>3, <3>2 DEF CurSize, Lower
    <3>4. Buffered(chunk) \in Seq(Nat)
      BY <1>1, <2>6, StoredIsBytes
    <3>5. req' = [req EXCEPT !.at = at, !.chunk = <<>>, !.buf = Buffered(chunk),
                             !.left = CurSize(req.total, at)]
      BY <2>10 DEF at
    <3>6. /\ req' \in Requests /\ req'.h = req.h /\ req'.at = at /\ req'.total = req.total
          /\ req'.chunk = <<>> /\ req'.left = CurSize(req.total, at)
      <4> DEFINE left == CurSize(req.total, at)
                 buf == Buffered(chunk)
      <4>1. left \in Nat /\ buf \in Seq(Nat)
        BY <3>3, <3>4
      <4>2. req' = [req EXCEPT !.at = at, !.chunk = <<>>, !.buf = buf, !.left = left]
        BY <3>5
      <4> HIDE DEF left, buf
      <4>3. /\ req' \in Requests /\ req'.h = req.h /\ req'.at = at /\ req'.total = req.total
            /\ req'.chunk = <<>> /\ req'.left = left
        <5>1. req' = WithChunk(req, at, buf, left)
          BY <4>2 DEF WithChunk
        <5>2. req \in Requests /\ at \in Nat
          BY <1>1, <3>2
        <5> DEFINE s == WithChunk(req, at, buf, left)
        <5>3. s \in Requests
          BY <4>1, <5>2, ChunkLocals
        <5>4. s.h = req.h /\ s.total = req.total
          BY <4>1, <5>2, ChunkLocals
        <5>5. s.at = at /\ s.chunk = <<>> /\ s.left = left
          BY <4>1, <5>2, ChunkLocals
        <5> HIDE DEF s
        <5> QED BY <5>1, <5>3, <5>4, <5>5 DEF s
      <4> QED BY <4>3 DEF left
    <3>7. Len(req'.chunk) + req'.left = CurSize(req'.total, req'.at) /\ req'.at < req'.total
      BY <3>2, <3>3, <3>6
    <3>8. RequestInv'
      BY <1>1, <2>7, <2>10, <3>1, <3>6, <3>7 DEF IInv, RequestInv, Proceeds
    <3>9. child' \in BOOLEAN
      BY <2>10 DEF IInv, TypeOK
    <3> QED BY <1>1, <1>4, <2>10, <3>8, <3>9, ProceedsStep
  <2> QED BY <1>4, <2>8, <2>9, <2>10 DEF chunk
<1> QED BY <1>2, <1>3, <1>4

-----------------------------------------------------------------------------
\* The invariant holds before the root is opened.
LEMMA InitIInv == Init => IInv
<1> SUFFICES ASSUME Init PROVE IInv
  OBVIOUS
<1> USE DEF Init
<1>1. Open = {}
  BY DEF Open
<1>2. MaxDhcpRetries \in Nat
  BY NetFileAssumption
<1>3. /\ req.h = NoHandle /\ req.retries = 0 /\ req.left = 0 /\ req.at = 0
      /\ req.total = 0 /\ req.chunk = <<>> /\ req.buf = <<>>
  BY DEF NoRequest
<1>4. req.retries \in 0 .. MaxDhcpRetries /\ req.at \in 0 .. req.total
  BY <1>2, <1>3
<1>5. TypeOK
  <2>1. handles \in [Handles -> Wrappers \cup {Closed}]
    OBVIOUS
  <2>2. pc = "down" /\ child = FALSE /\ faults = {} /\ req.left \in Nat
        /\ req.h \in Handles \cup {NoHandle}
    BY <1>3
  <2> QED BY <1>4, <2>1, <2>2 DEF TypeOK
<1>6. req \in Requests
  BY <1>2 DEF Requests, NoRequest
<1>7. RequestInv
  BY <1>3, <1>6 DEF RequestInv
<1>8. HistoryInv
  BY DEF HistoryInv, NoAnswer
<1> QED BY <1>1, <1>5, <1>7, <1>8 DEF IInv, HandlesInv, ConnectionsClosed, BlocksInv

\* Every step of the loader keeps the invariant.
LEMMA NextIInv == IInv /\ [Next]_vars => IInv'
<1> SUFFICES ASSUME IInv, [Next]_vars PROVE IInv'
  OBVIOUS
<1>1. CASE FsWrapperOpenNetworkRoot
  BY <1>1, RootStep
<1>2. CASE FsWrapperNetworkOpen
  BY <1>2, OpenStep
<1>3. CASE FsWrapperNetworkClose
  BY <1>3, CloseStep
<1>4. CASE FsWrapperNetworkSetPosition
  BY <1>4, SetPositionStep
<1>5. CASE FsWrapperNetworkRead \/ FsWrapperNetworkGetInfo
  BY <1>5, CallStep
<1>6. CASE Request
  BY <1>6, CreateChildStep, ConfigureStep, NoMappingStep, ConnectStep, SendStep,
     StatusStep, HeadersStep, BodyStep DEF Request
<1>7. CASE UNCHANGED vars
  BY <1>7, NothingOpenedStep DEF vars
<1> QED BY <1>1, <1>2, <1>3, <1>4, <1>5, <1>6, <1>7 DEF Next

\* The inductive invariant of the boot loader's network files.
THEOREM NetFileInvariance == Spec => []IInv
BY InitIInv, NextIInv, PTL DEF Spec

\* Whichever step of a call fails, and wherever the response breaks off, the
\* call leaves no TCP child behind, and the pool blocks in use are those of the
\* open handles, up to the first of the leaks that the code has by itself.
THEOREM CallsLeaveNothingBehind == Spec => []NothingLeftBehind
<1>1. IInv => NothingLeftBehind
  BY DEF IInv, BlocksInv, NothingLeftBehind, BlocksAccounted
<1> QED BY <1>1, NetFileInvariance, PTL
-----------------------------------------------------------------------------
(***************************************************************************)
(* What a read gives.  The parts say, for each step of a request, what the *)
(* server has still to send and what the loader has kept of the rest: the  *)
(* request of a file on the server, before the first fault.                *)
(***************************************************************************)

\* The data is the part of the file after a position.
IsPart(data, file, from) ==
  \A i \in 1 .. Len(data) : from + i \in 1 .. Len(file) /\ data[i] = file[from + i]

\* What a handle read follows the position it was set to.
HandleReads(h) ==
  OnServer(h) =>
    /\ handles[h].pos = got[h].from + Len(got[h].data)
    /\ IsPart(got[h].data, File(h), got[h].from)

\* The server has still to send k headers, the blank line and the file.
HeadersLeft(k, file) ==
  /\ Len(net) = k + 1 + Len(file)
  /\ k = 2 => net[1] = <<"other", 0>> /\ net[2] = <<"length", Len(file)>>
  /\ k = 1 => net[1] \in {<<"other", 0>>, <<"length", Len(file)>>}
  /\ net[k + 1] = <<"blank", 0>>
  /\ \A i \in 1 .. Len(file) : net[k + 1 + i] = <<"byte", file[i]>>
  /\ req.total \in (IF k = 0 THEN {0, Len(file)} ELSE {0})

\* How many bytes there are between the offset and a place in the file.
Beyond(place, offset) == IF place > offset THEN place - offset ELSE 0

\* The server has still to send the bytes after those of the chunk; the buffer
\* holds those of the earlier chunks that are wanted, as far as there is room.
BodyLeft(file) ==
  LET received == req.at + Len(req.chunk)
  IN  /\ ~ req.info
      /\ req.total = Len(file)
      /\ Len(net) = Len(file) - received
      /\ \A i \in 1 .. Len(net) : net[i] = <<"byte", file[received + i]>>
      /\ IsPart(req.chunk, file, req.at)
      /\ IsPart(req.buf, file, req.offset)
      /\ Len(req.buf) = Lower(req.size, Beyond(req.at, req.offset))

RequestReads ==
  OnServer(req.h) =>
    /\ ~ req.info => req.offset = handles[req.h].pos
    /\ pc = "status" => net \in Responses(handles[req.h].url)
    /\ pc = "headers" => \E k \in 0 .. 2 : HeadersLeft(k, File(req.h))
    /\ pc = "body" => BodyLeft(File(req.h))

ReadsInv ==
  faults = {} =>
    /\ \A h \in Open : HandleReads(h)
    /\ pc \notin {"down", "idle"} => RequestReads

ReadInv == IInv /\ ReadsInv /\ ShortOnlyAtTheEnd /\ SizeIsTheFiles

\* A part of a file, given by its elements, is a subsequence of it.
LEMMA PartIsSubSeq ==
  ASSUME NEW S, NEW T, NEW file \in Seq(S), NEW data \in Seq(T), NEW from \in Nat,
         IsPart(data, file, from)
  PROVE  data = SubSeq(file, from + 1, from + Len(data))
<1> DEFINE n == Len(data)
<1>1. n \in Nat /\ data = [i \in 1 .. n |-> data[i]]
  OBVIOUS
<1>2. \A i \in 1 .. n : from + i \in 1 .. Len(file) /\ data[i] = file[from + i]
  BY DEF IsPart
<1> HIDE DEF n
<1>3. SubSeq(file, from + 1, from + n) = [i \in 1 .. n |-> file[from + i]]
  <2>1. \A i \in from + 1 .. from + n : file[i] \in S
    <3> TAKE i \in from + 1 .. from + n
    <3>1. i - from \in 1 .. n /\ from + (i - from) = i
      BY <1>1
    <3>2. i \in 1 .. Len(file)
      BY <1>2, <3>1
    <3> QED BY <3>2, ElementOfSeq
  <2> QED BY <1>1, <2>1, SubSeqProperties
<1> QED BY <1>1, <1>2, <1>3 DEF n

\* The steps that leave the handles and the history alone.
LEMMA HistoryUntouched ==
  ASSUME ReadInv, UNCHANGED <<handles, got, last>>, faults \subseteq faults'
  PROVE  /\ faults' = {} => \A h \in Open' : HandleReads(h)'
         /\ ShortOnlyAtTheEnd' /\ SizeIsTheFiles'
<1>1. Open' = Open
  BY DEF Open
<1>2. faults' = {} => faults = {}
  OBVIOUS
<1>3. faults' = {} => \A h \in Open' : HandleReads(h)'
  BY <1>1, <1>2 DEF ReadInv, ReadsInv, HandleReads, OnServer, File
<1>4. ShortOnlyAtTheEnd'
  BY <1>1, <1>2 DEF ReadInv, ShortOnlyAtTheEnd, OnServer, File
<1>5. SizeIsTheFiles'
  BY <1>1, <1>2 DEF ReadInv, SizeIsTheFiles, OnServer, File
<1> QED BY <1>3, <1>4, <1>5

\* A call that fails, or one that does not begin.
LEMMA NoRequestReads ==
  ASSUME ReadInv, IInv', UNCHANGED <<handles, got, last>>, faults \subseteq faults',
         pc' \in {"down", "idle"}
  PROVE  ReadInv'
BY HistoryUntouched DEF ReadInv, ReadsInv

\* A request that goes on.
LEMMA ProceedsReads ==
  ASSUME ReadInv, IInv', NEW p, Proceeds(p), faults \subseteq faults',
         faults' = {} => RequestReads'
  PROVE  ReadInv'
BY HistoryUntouched DEF ReadInv, ReadsInv, Proceeds

\* What is known of the request that runs.
LEMMA RunningReads ==
  ASSUME ReadInv, faults = {}, pc \notin {"down", "idle"}
  PROVE  RequestReads
BY DEF ReadInv, ReadsInv

\* Nothing has been read of a new handle.
LEMMA AllocatedReads ==
  ASSUME ReadInv, IInv', NEW h \in Handles, NEW wrapper \in Wrappers, Allocated(h, wrapper),
         wrapper.pos = 0, pc' = "idle", UNCHANGED <<last, faults>>
  PROVE  ReadInv'
<1>1. h \notin Open
  BY FreeHandleIsFree DEF Allocated
<1>2. handles \in [Handles -> Wrappers \cup {Closed}] /\ Closed \notin Wrappers
  BY NetFileAssumption DEF ReadInv, IInv, TypeOK
<1>3. got \in [Handles -> [from : Nat, data : Seq(Nat)]]
  BY DEF ReadInv, IInv, HistoryInv
<1>4. handles' = [handles EXCEPT ![h] = wrapper]
      /\ got' = [got EXCEPT ![h] = [from |-> 0, data |-> <<>>]]
  BY DEF Allocated
<1>5. Open' = Open \cup {h}
  BY <1>2, <1>4 DEF Open
<1>6. \A k \in Open : k \in Handles /\ k # h /\ handles'[k] = handles[k] /\ got'[k] = got[k]
  BY <1>1, <1>2, <1>3, <1>4 DEF Open
<1>7. last.h \in Open \cup {NoHandle} /\ NoHandle \notin Handles
  BY NetFileAssumption DEF ReadInv, IInv, HistoryInv
<1>8. ASSUME faults' = {}, NEW k \in Open'
      PROVE  HandleReads(k)'
  <2>1. CASE k = h
    <3>1. got'[k].from = 0 /\ got'[k].data = <<>> /\ handles'[k].pos = 0
      BY <1>2, <1>3, <1>4, <2>1
    <3> QED BY <3>1 DEF HandleReads, IsPart
  <2>2. CASE k # h
    <3>1. k \in Open
      BY <1>5, <2>2
    <3> QED BY <1>6, <1>8, <3>1 DEF ReadInv, ReadsInv, HandleReads, OnServer, File
  <2> QED BY <2>1, <2>2
<1>9. last'.h \in Open' => last'.h \in Open
  BY <1>5, <1>7
<1>10. ShortOnlyAtTheEnd'
  BY <1>6, <1>9 DEF ReadInv, ShortOnlyAtTheEnd, OnServer, File
<1>11. SizeIsTheFiles'
  BY <1>6, <1>9 DEF ReadInv, SizeIsTheFiles, OnServer, File
<1> QED BY <1>8, <1>10, <1>11 DEF ReadInv, ReadsInv

\* Of a handle that is closed or set to a position nothing is remembered.
LEMMA ForgottenReads ==
  ASSUME ReadInv, FsWrapperNetworkClose \/ FsWrapperNetworkSetPosition
  PROVE  ReadInv'
<1>1. IInv'
  BY CloseStep, SetPositionStep DEF ReadInv
<1>2. handles \in [Handles -> Wrappers \cup {Closed}] /\ Closed \notin Wrappers
  BY NetFileAssumption DEF ReadInv, IInv, TypeOK
<1>3. got \in [Handles -> [from : Nat, data : Seq(Nat)]]
  BY DEF ReadInv, IInv, HistoryInv
<1>4. pc' = "idle" /\ UNCHANGED faults
  BY DEF FsWrapperNetworkClose, FsWrapperNetworkSetPosition, Idle
<1>5. CASE FsWrapperNetworkClose
  <2>1. PICK h \in Open :
          /\ handles' = [k \in Handles |->
               IF k = h THEN Closed
               ELSE IF k \in Open /\ handles[k].parent = h
               THEN [handles[k] EXCEPT !.parent = Dangling] ELSE handles[k]]
          /\ last' = IF last.h = h THEN NoAnswer ELSE last
          /\ got' = [got EXCEPT ![h] = [from |-> 0, data |-> <<>>]]
    BY <1>5 DEF FsWrapperNetworkClose
  <2>2. \A k \in Open' :
          /\ k \in Open /\ k # h /\ got'[k] = got[k]
          /\ handles'[k].url = handles[k].url /\ handles'[k].pos = handles[k].pos
    <3> TAKE k \in Open'
    <3>1. k \in Handles /\ handles'[k] # Closed
      BY DEF Open
    <3>2. k # h
      BY <2>1, <3>1
    <3>3. k \in Open
      BY <2>1, <3>1, <3>2 DEF Open
    <3>4. handles[k] \in Wrappers
      BY <1>2, <3>1, <3>3 DEF Open
    <3>5. handles'[k] = [handles[k] EXCEPT !.parent = Dangling] \/ handles'[k] = handles[k]
      BY <2>1, <3>1, <3>2
    <3>6. handles'[k].url = handles[k].url /\ handles'[k].pos = handles[k].pos
      BY <3>4, <3>5 DEF Wrappers
    <3>7. got'[k] = got[k]
      BY <1>3, <2>1, <3>1, <3>2 DEF Open
    <3> QED BY <3>2, <3>3, <3>6, <3>7
  <2>3. last'.h \in Open' => last' = last /\ last.h \in Open
    <3>1. NoHandle \notin Open'
      BY NetFileAssumption DEF Open
    <3> QED BY <2>1, <2>2, <3>1 DEF NoAnswer
  <2>4. ShortOnlyAtTheEnd'
    BY <1>4, <2>2, <2>3 DEF ReadInv, ShortOnlyAtTheEnd, OnServer, File
  <2>5. SizeIsTheFiles'
    BY <1>4, <2>2, <2>3 DEF ReadInv, SizeIsTheFiles, OnServer, File
  <2>6. faults' = {} => \A k \in Open' : HandleReads(k)'
    BY <1>4, <2>2 DEF ReadInv, ReadsInv, HandleReads, OnServer, File
  <2> QED BY <1>1, <1>4, <2>4, <2>5, <2>6 DEF ReadInv, ReadsInv
<1>6. CASE FsWrapperNetworkSetPosition
  <2>1. PICK h \in Open, p \in Positions :
          /\ IsChild(h)
          /\ handles' = [handles EXCEPT ![h].pos = p]
          /\ got' = [got EXCEPT ![h] = [from |-> p, data |-> <<>>]]
          /\ last' = NoAnswer
    BY <1>6 DEF FsWrapperNetworkSetPosition
  <2>2. p \in Nat
    BY NetFileAssumption
  <2>3. Open' = Open
    BY <2>1, <2>2, MovedHandle DEF ReadInv, IsChild
  <2>4. last'.h \notin Open'
    BY <2>1, NetFileAssumption DEF NoAnswer, Open
  <2>5. ASSUME faults' = {}, NEW k \in Open'
        PROVE  HandleReads(k)'
    <3>1. h \in Handles /\ k \in Handles /\ k \in Open /\ handles[h] \in Wrappers
      BY <1>2, <2>3 DEF Open
    <3>2. CASE k = h
      <4>1. got'[k].from = p /\ got'[k].data = <<>> /\ handles'[k].pos = p
        BY <1>2, <1>3, <2>1, <3>1, <3>2 DEF Wrappers
      <4> QED BY <2>2, <4>1 DEF HandleReads, IsPart
    <3>3. CASE k # h
      <4>1. got'[k] = got[k] /\ handles'[k] = handles[k]
        BY <1>2, <1>3, <2>1, <3>1, <3>3
      <4> QED BY <1>4, <2>5, <3>1, <4>1 DEF ReadInv, ReadsInv, HandleReads, OnServer, File
    <3> QED BY <3>2, <3>3
  <2> QED BY <1>1, <1>4, <2>4, <2>5 DEF ReadInv, ReadsInv, ShortOnlyAtTheEnd, SizeIsTheFiles
<1> QED BY <1>5, <1>6

\* The root and the handles opened in it.
LEMMA OpenedReads ==
  ASSUME ReadInv, FsWrapperOpenNetworkRoot \/ FsWrapperNetworkOpen
  PROVE  ReadInv'
<1>1. IInv /\ IInv'
  BY RootStep, OpenStep DEF ReadInv
<1>2. faults \subseteq faults' /\ UNCHANGED last
  BY DEF FsWrapperOpenNetworkRoot, FsWrapperNetworkPopulateRoot, FsWrapperNetworkOpen
<1>3. ASSUME UNCHANGED <<handles, got>>, pc' \in {"down", "idle"}
      PROVE  ReadInv'
  BY <1>1, <1>2, <1>3, NoRequestReads
<1>4. ASSUME NEW h \in Handles, NEW parent \in Open, NEW name \in Names,
             FsWrapperNetworkPopulateChild(h, parent, name), pc' = "idle", UNCHANGED faults
      PROVE  ReadInv'
  <2> DEFINE w == Wrapper(Append(handles[parent].url, name), parent)
  <2>1. handles[parent] \in Wrappers
    BY <1>1 DEF Open, IInv, TypeOK
  <2>2. handles[parent].url \in Seq(Names)
    BY <2>1 DEF Wrappers
  <2>3. Append(handles[parent].url, name) \in Seq(Names) /\ parent \in Handles
    BY <2>2 DEF Open
  <2>4. w \in Wrappers /\ w.pos = 0
    BY <2>3 DEF Wrapper, Wrappers
  <2>5. Allocated(h, w)
    BY <1>4 DEF FsWrapperNetworkPopulateChild
  <2> HIDE DEF w
  <2> QED BY <1>1, <1>2, <1>4, <2>4, <2>5, AllocatedReads
<1>5. CASE FsWrapperOpenNetworkRoot
  <2>1. pc = "down"
    BY <1>5 DEF FsWrapperOpenNetworkRoot
  <2>2. \/ \E h \in Handles : Allocated(h, Wrapper(<<>>, NoHandle)) /\ pc' = "idle" /\ UNCHANGED faults
        \/ UNCHANGED <<pc, handles, got>>
    BY <1>5 DEF FsWrapperOpenNetworkRoot, FsWrapperNetworkPopulateRoot
  <2>3. Wrapper(<<>>, NoHandle) \in Wrappers /\ Wrapper(<<>>, NoHandle).pos = 0
    BY DEF Wrapper, Wrappers
  <2> QED BY <1>1, <1>2, <1>3, <2>1, <2>2, <2>3, AllocatedReads
<1>6. CASE FsWrapperNetworkOpen
  <2>1. pc' = "idle"
    BY <1>6 DEF FsWrapperNetworkOpen, Idle
  <2>2. PICK self \in Open, name \in Names \cup {"..", "."} :
          \/ \E h \in Handles : Opened(self, name, h) /\ UNCHANGED faults
          \/ UNCHANGED <<handles, got>>
    BY <1>6 DEF FsWrapperNetworkOpen
  <2>3. ASSUME NEW h \in Handles, Opened(self, name, h), UNCHANGED faults
        PROVE  ReadInv'
    <3> DEFINE Again(of) == IF handles[of].parent = NoHandle
                            THEN Allocated(h, handles[of])
                            ELSE /\ handles[of].parent # Dangling
                                 /\ FsWrapperNetworkPopulateChild(
                                      h, handles[of].parent,
                                      handles[of].url[Len(handles[of].url)])
    <3>1. ASSUME NEW of \in Open, Again(of)
          PROVE  ReadInv'
      <4>1. handles[of] \in Wrappers
        BY <1>1 DEF Open, IInv, TypeOK
      <4>2. /\ handles[of].parent \in Open \cup {NoHandle, Dangling}
            /\ IF handles[of].parent = NoHandle THEN handles[of].pos = 0
                                               ELSE handles[of].url # <<>>
        BY <1>1 DEF IInv, HandlesInv
      <4>3. CASE handles[of].parent = NoHandle
        BY <1>1, <1>2, <2>1, <2>3, <3>1, <4>1, <4>2, <4>3, AllocatedReads
      <4>4. CASE handles[of].parent # NoHandle
        <5>1. handles[of].parent \in Open /\ handles[of].url # <<>>
          BY <3>1, <4>2, <4>4
        <5>2. handles[of].url \in Seq(Names)
          BY <4>1 DEF Wrappers
        <5>3. handles[of].url[Len(handles[of].url)] \in Names
          BY <5>1, <5>2
        <5> QED BY <1>4, <2>1, <2>3, <3>1, <4>4, <5>1, <5>3
      <4> QED BY <4>3, <4>4
    <3>2. CASE name = ".."
      <4>1. handles[self].parent \in Open
        BY <1>1, <2>3, <3>2 DEF Opened, IInv, HandlesInv
      <4>2. Again(handles[self].parent)
        BY <2>3, <3>2 DEF Opened
      <4> HIDE DEF Again
      <4> QED BY <3>1, <4>1, <4>2
    <3>3. CASE name # ".." /\ name = "."
      <4>1. Again(self)
        BY <2>3, <3>3 DEF Opened
      <4> HIDE DEF Again
      <4> QED BY <3>1, <4>1
    <3>4. CASE name # ".." /\ name # "."
      <4>1. FsWrapperNetworkPopulateChild(h, self, name) /\ name \in Names
        BY <2>3, <3>4 DEF Opened
      <4> QED BY <1>4, <2>1, <2>3, <4>1
    <3> QED BY <3>2, <3>3, <3>4
  <2> QED BY <1>3, <2>1, <2>2, <2>3
<1> QED BY <1>5, <1>6

\* A request that begins knows where to read.
LEMMA CallReads ==
  ASSUME ReadInv, FsWrapperNetworkRead \/ FsWrapperNetworkGetInfo
  PROVE  ReadInv'
<1>1. IInv /\ IInv'
  BY CallStep DEF ReadInv
<1>2. pc = "idle" /\ UNCHANGED <<handles, got, last>>
  BY DEF FsWrapperNetworkRead, FsWrapperNetworkGetInfo
<1>3. PICK h \in Open, size \in Nat, offset \in Nat, info \in BOOLEAN :
        DoRequest(h, size, offset, info) /\ (~ info => offset = handles[h].pos)
  <2>1. CASE FsWrapperNetworkRead
    <3>1. PICK h \in Open, n \in Sizes : DoRequest(h, n, handles[h].pos, FALSE)
      BY <2>1 DEF FsWrapperNetworkRead
    <3>2. handles[h] \in Wrappers
      BY <1>1 DEF Open, IInv, TypeOK
    <3>3. n \in Nat /\ handles[h].pos \in Nat
      BY <3>2, NetFileAssumption DEF Wrappers
    <3> QED BY <3>1, <3>3
  <2>2. CASE FsWrapperNetworkGetInfo
    <3>1. PICK h \in Open : DoRequest(h, 0, 0, TRUE)
      BY <2>2 DEF FsWrapperNetworkGetInfo
    <3> QED BY <3>1
  <2> QED BY <2>1, <2>2
<1>4. CASE UNCHANGED pc
  <2>1. faults \subseteq faults'
    BY <1>3 DEF DoRequest
  <2> QED BY <1>1, <1>2, <1>4, <2>1, NoRequestReads
<1>5. CASE ~ UNCHANGED pc
  <2>1. /\ pc' = "create" /\ UNCHANGED faults
        /\ req' = [NoRequest EXCEPT !.h = h, !.size = size, !.offset = offset, !.info = info,
                                    !.retries = MaxDhcpRetries]
    BY <1>3, <1>5 DEF DoRequest
  <2>2. req'.h = h /\ req'.offset = offset /\ req'.info = info
    BY <2>1 DEF NoRequest
  <2>3. RequestReads'
    BY <1>2, <1>3, <2>1, <2>2 DEF RequestReads
  <2>4. Proceeds("create")
    BY <1>2, <2>1 DEF Proceeds
  <2> QED BY <1>1, <2>1, <2>3, <2>4, ProceedsReads
<1> QED BY <1>4, <1>5

\* A failing call says nothing of the file.
LEMMA FailedReads ==
  ASSUME ReadInv, IInv', FailedCall, faults \subseteq faults'
  PROVE  ReadInv'
BY NoRequestReads DEF FailedCall, Returns

\* The steps up to the last piece of the request.
LEMMA SendReads ==
  ASSUME ReadInv, CreateChild \/ Configure \/ NoMapping \/ TcpConnectHelper \/ TcpSend
  PROVE  ReadInv'
<1>1. IInv /\ IInv' /\ UNCHANGED faults /\ pc \notin {"down", "idle"}
  BY CreateChildStep, ConfigureStep, NoMappingStep, ConnectStep, SendStep
     DEF ReadInv, CreateChild, Configure, NoMapping, TcpConnectHelper, TcpSend, InRequest
<1>2. req \in Requests
  BY <1>1, Running
<1>3. CASE FailedCall
  BY <1>1, <1>3, FailedReads
<1>4. CASE ~ FailedCall
  <2>1. PICK p \in {"configure", "connect", "send", "status"} :
          /\ Proceeds(p)
          /\ p = "status" => net' \in Responses(handles[req.h].url)
          /\ \/ req' = req
             \/ \E n : req' = [req EXCEPT !.left = n]
             \/ \E n : req' = [req EXCEPT !.retries = n]
    BY <1>4 DEF CreateChild, Configure, NoMapping, TcpConnectHelper, TcpSend
  <2>2. req'.h = req.h /\ req'.offset = req.offset /\ req'.info = req.info
    BY <1>2, <2>1 DEF Requests
  <2>3. faults = {} => RequestReads
    BY <1>1, RunningReads
  <2>4. pc' = p /\ UNCHANGED handles
    BY <2>1 DEF Proceeds
  <2>5. ASSUME faults' = {}
        PROVE  RequestReads'
    BY <1>1, <2>1, <2>2, <2>3, <2>4, <2>5 DEF RequestReads, OnServer, File
  <2> QED BY <1>1, <2>1, <2>5, ProceedsReads
<1> QED BY <1>3, <1>4

\* The elements of a line, some lines, a line and some lines.
Joined(a, hs, b, d) == <<a>> \o hs \o <<b>> \o d

\* Where the parts of such a sequence are found in it.
LEMMA FourParts ==
  ASSUME NEW S, NEW a \in S, NEW hs \in Seq(S), NEW b \in S, NEW d \in Seq(S)
  PROVE  LET r == Joined(a, hs, b, d)
         IN  /\ r \in Seq(S) /\ Len(r) = 2 + Len(hs) + Len(d)
             /\ r[1] = a
             /\ \A i \in 1 .. Len(hs) : r[1 + i] = hs[i]
             /\ r[2 + Len(hs)] = b
             /\ \A i \in 1 .. Len(d) : r[2 + Len(hs) + i] = d[i]
<1> DEFINE r == Joined(a, hs, b, d)
           n == Len(hs)
           x == <<a>> \o hs
           y == x \o <<b>>
<1>1. n \in Nat /\ Len(d) \in Nat
  OBVIOUS
<1>2. /\ x \in Seq(S) /\ Len(x) = 1 + n /\ x[1] = a
      /\ \A i \in 1 .. n : x[1 + i] = hs[i]
  <2>1. <<a>> \in Seq(S) /\ Len(<<a>>) = 1 /\ <<a>>[1] = a
    OBVIOUS
  <2>2. x \in Seq(S) /\ Len(x) = 1 + n
    BY <2>1
  <2>3. x[1] = a
    BY <2>1
  <2>4. \A i \in 1 .. n : x[1 + i] = hs[i]
    <3> TAKE i \in 1 .. n
    <3>1. 1 + i \in Nat /\ 1 + i > 1 /\ 1 + i <= 1 + n /\ (1 + i) - 1 = i
      BY <1>1
    <3> QED BY <2>1, <3>1
  <2> QED BY <2>2, <2>3, <2>4
<1> HIDE DEF x
<1>3. /\ y \in Seq(S) /\ Len(y) = 2 + n /\ y[2 + n] = b
      /\ \A i \in 1 .. n + 1 : y[i] = x[i]
  <2>1. <<b>> \in Seq(S) /\ Len(<<b>>) = 1 /\ <<b>>[1] = b
    OBVIOUS
  <2>2. y \in Seq(S) /\ Len(y) = 2 + n
    BY <1>1, <1>2, <2>1
  <2>3. y[2 + n] = b
    BY <1>1, <1>2, <2>1
  <2>4. \A i \in 1 .. n + 1 : y[i] = x[i]
    BY <1>1, <1>2, <2>1
  <2> QED BY <2>2, <2>3, <2>4
<1>4. r = y \o d
  BY DEF Joined, x
<1> HIDE DEF y, r
<1>5. /\ r \in Seq(S) /\ Len(r) = 2 + n + Len(d)
      /\ \A i \in 1 .. 2 + n : r[i] = y[i]
  <2>1. r \in Seq(S) /\ Len(r) = Len(y) + Len(d)
    <3>1. y \in Seq(S)
      BY <1>3
    <3>2. y \o d \in Seq(S) /\ Len(y \o d) = Len(y) + Len(d)
      BY <3>1
    <3> QED BY <1>4, <3>2
  <2>2. \A i \in 1 .. Len(y) : r[i] = y[i]
    BY <1>3, <1>4
  <2> QED BY <1>1, <1>3, <2>1, <2>2
<1>6. \A i \in 1 .. Len(d) : r[2 + n + i] = d[i]
  BY <1>1, <1>3, <1>4
<1> HIDE DEF n
<1>7. r[1] = a /\ r[2 + n] = b
  <2>1. 1 \in 1 .. 2 + n /\ 1 \in 1 .. n + 1 /\ 2 + n \in 1 .. 2 + n
    BY <1>1
  <2> QED BY <1>2, <1>3, <1>5, <2>1
<1>8. \A i \in 1 .. n : r[1 + i] = hs[i]
  <2> TAKE i \in 1 .. n
  <2>1. 1 + i \in 1 .. 2 + n /\ 1 + i \in 1 .. n + 1
    BY <1>1
  <2> QED BY <1>2, <1>3, <1>5, <2>1
<1> QED BY <1>5, <1>6, <1>7, <1>8 DEF n, r

\* What follows the status line: one or two headers, the blank line, the file.
LEMMA AfterStatus ==
  ASSUME NEW url \in DOMAIN Content, NEW r \in Responses(url)
  PROVE  LET rest == Tail(r)
             file == Content[url]
         IN  \E k \in 1 .. 2 :
               /\ Len(rest) = k + 1 + Len(file)
               /\ k = 2 => rest[1] = <<"other", 0>> /\ rest[2] = <<"length", Len(file)>>
               /\ k = 1 => rest[1] = <<"other", 0>>
               /\ rest[k + 1] = <<"blank", 0>>
               /\ \A i \in 1 .. Len(file) : rest[k + 1 + i] = <<"byte", file[i]>>
<1> DEFINE file == Content[url]
           L == Len(file)
           a == <<"status", 200>>
           o == <<"other", 0>>
           l == <<"length", L>>
           b == <<"blank", 0>>
           d == Bytes(file)
           rest == Tail(r)
<1>1. file \in Seq(0 .. 255) /\ L \in Nat
  BY NetFileAssumption
<1>2. d = [i \in 1 .. L |-> <<"byte", file[i]>>]
  BY DEF Bytes
<1>3. PICK hs \in {<<o, l>>, <<o>>} : r = <<a>> \o hs \o <<b>> \o d
  BY DEF Responses
<1> DEFINE S == {a, o, l, b} \cup {d[i] : i \in 1 .. L}
<1> HIDE DEF file, L, a, o, l, b, rest
<1>4. a \in S /\ o \in S /\ l \in S /\ b \in S
  OBVIOUS
<1>5. d \in Seq(S) /\ Len(d) = L
  <2>1. d \in [1 .. L -> S]
    <3>1. \A i \in 1 .. L : d[i] \in S
      OBVIOUS
    <3>2. DOMAIN d = 1 .. L /\ d = [i \in 1 .. L |-> d[i]]
      BY <1>2
    <3> HIDE DEF S, d
    <3> QED BY <3>1, <3>2
  <2> HIDE DEF S, d
  <2>2. d \in Seq(S)
    BY <1>1, <2>1, FunctionsAreSequences
  <2>3. DOMAIN d = 1 .. L
    BY <2>1
  <2> QED BY <1>1, <2>2, <2>3
<1> HIDE DEF S, d
<1>6. /\ hs \in Seq(S) /\ Len(hs) \in 1 .. 2
      /\ Len(hs) = 2 => hs[1] = o /\ hs[2] = l
      /\ Len(hs) = 1 => hs[1] = o
  <2>1. hs \in Seq(S)
    BY <1>3, <1>4, TuplesAreSequences
  <2>2. CASE hs = <<o, l>>
    <3>1. Len(hs) = 2 /\ hs[1] = o /\ hs[2] = l
      BY <2>2
    <3> QED BY <2>1, <3>1
  <2>3. CASE hs = <<o>>
    <3>1. Len(hs) = 1 /\ hs[1] = o
      BY <2>3
    <3> QED BY <2>1, <3>1
  <2> QED BY <1>3, <2>2, <2>3
<1> DEFINE k == Len(hs)
<1>7. /\ r \in Seq(S) /\ Len(r) = 2 + k + L /\ r[2 + k] = b
      /\ \A i \in 1 .. k : r[1 + i] = hs[i]
      /\ \A i \in 1 .. L : r[2 + k + i] = d[i]
  <2>1. r = Joined(a, hs, b, d)
    BY <1>3 DEF Joined
  <2>2. hs \in Seq(S) /\ d \in Seq(S)
    BY <1>5, <1>6
  <2> DEFINE q == Joined(a, hs, b, d)
  <2>3. q \in Seq(S) /\ Len(q) = 2 + Len(hs) + Len(d) /\ q[2 + Len(hs)] = b
    BY <1>4, <2>2, FourParts
  <2>4. \A i \in 1 .. Len(hs) : q[1 + i] = hs[i]
    BY <1>4, <2>2, FourParts
  <2>5. \A i \in 1 .. Len(d) : q[2 + Len(hs) + i] = d[i]
    BY <1>4, <2>2, FourParts
  <2> HIDE DEF q
  <2> QED BY <1>5, <2>1, <2>3, <2>4, <2>5 DEF q
<1>8. k \in 1 .. 2
  BY <1>6
<1> HIDE DEF k
<1>9. Len(rest) = k + 1 + L /\ \A i \in 1 .. k + 1 + L : rest[i] = r[i + 1]
  <2>1. r # <<>>
    BY <1>1, <1>7, <1>8
  <2>2. Len(rest) = Len(r) - 1
    BY <1>7, <2>1 DEF rest
  <2>3. \A i \in 1 .. Len(r) - 1 : rest[i] = r[i + 1]
    BY <1>7, <2>1 DEF rest
  <2> QED BY <1>1, <1>7, <1>8, <2>2, <2>3
<1>10. rest[k + 1] = b
  <2>1. k + 1 \in 1 .. k + 1 + L /\ (k + 1) + 1 = 2 + k
    BY <1>1, <1>8
  <2> QED BY <1>7, <1>9, <2>1
<1>11. \A i \in 1 .. L : rest[k + 1 + i] = <<"byte", file[i]>>
  <2> TAKE i \in 1 .. L
  <2>1. k + 1 + i \in 1 .. k + 1 + L /\ (k + 1 + i) + 1 = 2 + k + i
    BY <1>1, <1>8
  <2>2. rest[k + 1 + i] = d[i]
    BY <1>7, <1>9, <2>1
  <2> QED BY <1>2, <2>2
<1>12. \A i \in 1 .. k : rest[i] = hs[i]
  <2> TAKE i \in 1 .. k
  <2>1. i \in 1 .. k + 1 + L /\ i + 1 = 1 + i
    BY <1>1, <1>8
  <2> QED BY <1>7, <1>9, <2>1
<1>13. (k = 2 => rest[1] = o /\ rest[2] = l) /\ (k = 1 => rest[1] = o)
  BY <1>6, <1>12 DEF k
<1> QED BY <1>8, <1>9, <1>10, <1>11, <1>13 DEF file, L, o, l, b, rest

\* The status line is behind; it is one of the server's.
LEMMA TailOfNet ==
  ASSUME NEW n \in Seq(Lines), n # <<>>
  PROVE  /\ Head(n) = n[1] /\ Len(Tail(n)) = Len(n) - 1 /\ Len(n) > 0
         /\ \A i \in 1 .. Len(n) - 1 : Tail(n)[i] = n[i + 1]
OBVIOUS

\* Reading the status line keeps what is known of the file that is read.
LEMMA StatusReads ==
  ASSUME ReadInv, StatusLine
  PROVE  ReadInv'
<1>1. IInv /\ IInv' /\ pc = "status"
  BY StatusStep DEF ReadInv, StatusLine, InRequest
<1>2. CASE GetHttpLineFails
  <2>1. FailedCall /\ faults \subseteq faults'
    BY <1>2 DEF GetHttpLineFails
  <2> QED BY <1>1, <2>1, FailedReads
<1>3. CASE /\ net # <<>> /\ Proceeds("headers") /\ net' = Tail(net)
           /\ faults \subseteq faults' /\ UNCHANGED req
  <2>1. ASSUME faults' = {}
        PROVE  RequestReads'
    <3>1. faults = {} /\ pc' = "headers" /\ UNCHANGED <<handles, req>>
      BY <1>3, <2>1 DEF Proceeds
    <3>2. RequestReads
      BY <1>1, <3>1, RunningReads
    <3>3. req.total = 0
      BY <1>1 DEF IInv, RequestInv
    <3>4. ASSUME OnServer(req.h)
          PROVE  \E k \in 0 .. 2 : HeadersLeft(k, File(req.h))'
      <4> DEFINE file == File(req.h)
      <4>1. net \in Responses(handles[req.h].url) /\ handles[req.h].url \in DOMAIN Content
        BY <1>1, <3>2, <3>4 DEF RequestReads, OnServer
      <4>2. PICK k \in 1 .. 2 :
              /\ Len(net') = k + 1 + Len(file)
              /\ k = 2 => net'[1] = <<"other", 0>> /\ net'[2] = <<"length", Len(file)>>
              /\ k = 1 => net'[1] = <<"other", 0>>
              /\ net'[k + 1] = <<"blank", 0>>
              /\ \A i \in 1 .. Len(file) : net'[k + 1 + i] = <<"byte", file[i]>>
        BY <1>3, <4>1, AfterStatus DEF File
      <4>3. file' = file
        BY <3>1 DEF File
      <4> HIDE DEF file
      <4>4. k # 0 /\ k \in 0 .. 2
        OBVIOUS
      <4>5. req'.total \in (IF k = 0 THEN {0, Len(file)} ELSE {0})
        BY <3>1, <3>3, <4>4
      <4>6. HeadersLeft(k, file)'
        BY <4>2, <4>3, <4>5 DEF HeadersLeft
      <4> QED BY <4>4, <4>6 DEF file
    <3> QED BY <3>1, <3>2, <3>4 DEF RequestReads, OnServer, File
  <2> QED BY <1>1, <1>3, <2>1, ProceedsReads
<1>4. GetHttpLineFails \/
        (/\ net # <<>> /\ Proceeds("headers") /\ net' = Tail(net)
         /\ faults \subseteq faults' /\ UNCHANGED req)
  BY DEF StatusLine, OnHttpLine
<1> QED BY <1>2, <1>3, <1>4

\* A call that is answered: with the length of the file, or with the part of
\* it that follows the position, up to the size of the buffer or to the end.
LEMMA AnsweredReads ==
  ASSUME ReadInv, IInv', pc \in {"headers", "body"}, NEW n \in Nat, Answered(n),
         faults \subseteq faults',
         \/ /\ req.info /\ UNCHANGED <<handles, got>>
            /\ faults' = {} /\ OnServer(req.h) => n = Len(File(req.h))
         \/ \E data \in Seq(Nat) :
              /\ n = Len(data)
              /\ handles' = [handles EXCEPT ![req.h].pos = @ + Len(data)]
              /\ got' = [got EXCEPT ![req.h].data = @ \o data]
              /\ faults' = {} /\ OnServer(req.h) =>
                   /\ ~ req.info /\ IsPart(data, File(req.h), req.offset)
                   /\ n < req.size => req.offset + n >= Len(File(req.h))
  PROVE  ReadInv'
<1>0. PICK h : h = req.h
  OBVIOUS
<1> DEFINE w == handles[h]
           g == got[h]
<1>1. IInv
  BY DEF ReadInv
<1>2. req \in Requests /\ h \in Open /\ h \in Handles /\ w \in Wrappers
  BY <1>0, <1>1, Running
<1>3. handles \in [Handles -> Wrappers \cup {Closed}]
      /\ got \in [Handles -> [from : Nat, data : Seq(Nat)]]
  BY <1>1 DEF IInv, TypeOK, HistoryInv
<1>4. w.pos \in Nat /\ g.from \in Nat /\ g.data \in Seq(Nat)
  BY <1>2, <1>3 DEF Wrappers
<1>5. pc' = "idle" /\ last'.h = h /\ last'.info = req.info /\ last'.asked = req.size
      /\ last'.gave = n /\ last'.pos = w.pos + (IF req.info THEN 0 ELSE n)
  BY <1>0 DEF Answered, Returns
<1>6. CASE /\ req.info /\ UNCHANGED <<handles, got>>
           /\ faults' = {} /\ OnServer(h) => n = Len(File(h))
  <2>1. Open' = Open
    BY <1>6 DEF Open
  <2>2. faults' = {} => \A k \in Open' : HandleReads(k)'
    BY <1>6, <2>1 DEF ReadInv, ReadsInv, HandleReads, OnServer, File
  <2>3. ShortOnlyAtTheEnd'
    BY <1>5, <1>6 DEF ShortOnlyAtTheEnd
  <2>4. SizeIsTheFiles'
    BY <1>5, <1>6 DEF SizeIsTheFiles, OnServer, File
  <2> QED BY <1>5, <2>2, <2>3, <2>4 DEF ReadInv, ReadsInv
<1>7. ASSUME NEW data \in Seq(Nat),
             /\ n = Len(data)
             /\ handles' = [handles EXCEPT ![h].pos = @ + Len(data)]
             /\ got' = [got EXCEPT ![h].data = @ \o data],
             faults' = {} /\ OnServer(h) =>
               /\ ~ req.info /\ IsPart(data, File(h), req.offset)
               /\ n < req.size => req.offset + n >= Len(File(h))
      PROVE  ReadInv'
  <2>1. handles' = [handles EXCEPT ![h].pos = w.pos + n]
    BY <1>7
  <2>2. handles'[h] = [w EXCEPT !.pos = w.pos + n]
    BY <1>2, <1>3, <2>1
  <2>3. handles'[h].pos = w.pos + n /\ handles'[h].url = w.url
    BY <1>2, <2>2 DEF Wrappers
  <2>4. got'[h] = [g EXCEPT !.data = g.data \o data]
    BY <1>2, <1>3, <1>7
  <2>5. got'[h].from = g.from /\ got'[h].data = g.data \o data
    <3>1. g \in [from : Nat, data : Seq(Nat)]
      BY <1>2, <1>3
    <3> DEFINE joined == g.data \o data
    <3> HIDE DEF joined, g
    <3>2. got'[h] = [g EXCEPT !.data = joined]
      BY <2>4 DEF joined
    <3>3. got'[h].from = g.from /\ got'[h].data = joined
      BY <3>1, <3>2
    <3> QED BY <3>3 DEF joined, g
  <2>6. \A k \in Handles : k # h => handles'[k] = handles[k] /\ got'[k] = got[k]
    BY <1>2, <1>3, <1>7, <2>1
  <2>7. Open' = Open
    <3>1. w.parent # NoHandle /\ w.pos + n \in Nat
      BY <1>0, <1>1, <1>4 DEF IInv, RequestInv
    <3> QED BY <1>1, <1>2, <2>1, <3>1, MovedHandle
  <2>8. OnServer(h)' <=> OnServer(h)
    BY <2>3 DEF OnServer
  <2>9. File(h)' = File(h)
    BY <2>3 DEF File
  <2>10. ASSUME faults' = {}, OnServer(h)
         PROVE  /\ w.pos = g.from + Len(g.data) /\ req.offset = w.pos
                /\ IsPart(g.data, File(h), g.from)
    <3>1. faults = {}
      BY <2>10
    <3>2. HandleReads(h)
      BY <1>2, <3>1 DEF ReadInv, ReadsInv
    <3>3. RequestReads
      BY <3>1, RunningReads
    <3> QED BY <1>0, <1>7, <2>10, <3>2, <3>3 DEF HandleReads, RequestReads
  <2>11. ASSUME faults' = {}, OnServer(h)
         PROVE  /\ handles'[h].pos = g.from + Len(g.data \o data)
                /\ IsPart(g.data \o data, File(h), g.from)
    <3> DEFINE file == File(h)
               a == g.data
               from == g.from
               joined == a \o data
    <3>1. /\ a \in Seq(Nat) /\ from \in Nat /\ n = Len(data) /\ w.pos = from + Len(a)
          /\ IsPart(a, file, from) /\ IsPart(data, file, from + Len(a))
      BY <1>4, <1>7, <2>10, <2>11
    <3> HIDE DEF file, a, from
    <3>2. Len(joined) = Len(a) + n
          /\ \A i \in 1 .. Len(joined) : joined[i] = IF i <= Len(a) THEN a[i] ELSE data[i - Len(a)]
      BY <3>1
    <3> HIDE DEF joined
    <3>3. Len(a) \in Nat /\ n \in Nat
      BY <3>1
    <3>4. IsPart(joined, file, from)
      <4> SUFFICES ASSUME NEW i \in 1 .. Len(joined)
                   PROVE  from + i \in 1 .. Len(file) /\ joined[i] = file[from + i]
        BY DEF IsPart
      <4>1. CASE i <= Len(a)
        <5>1. i \in 1 .. Len(a) /\ joined[i] = a[i]
          BY <3>2, <3>3, <4>1
        <5> QED BY <3>1, <5>1 DEF IsPart
      <4>2. CASE ~ (i <= Len(a))
        <5>1. i - Len(a) \in 1 .. Len(data) /\ joined[i] = data[i - Len(a)]
              /\ (from + Len(a)) + (i - Len(a)) = from + i
          BY <3>1, <3>2, <3>3, <4>2
        <5> QED BY <3>1, <5>1 DEF IsPart
      <4> QED BY <4>1, <4>2
    <3>5. handles'[h].pos = from + Len(joined)
      BY <2>3, <3>1, <3>2, <3>3
    <3> QED BY <3>4, <3>5 DEF file, a, from, joined
  <2>12. ASSUME faults' = {}, NEW k \in Open'
         PROVE  HandleReads(k)'
    <3>1. k \in Open /\ k \in Handles
      BY <2>7 DEF Open
    <3>2. CASE k = h
      BY <2>5, <2>8, <2>9, <2>11, <2>12, <3>2 DEF HandleReads
    <3>3. CASE k # h
      BY <2>6, <2>12, <3>1, <3>3 DEF ReadInv, ReadsInv, HandleReads, OnServer, File
    <3> QED BY <3>2, <3>3
  <2>13. ShortOnlyAtTheEnd'
    <3>1. ASSUME faults' = {}, OnServer(h), n < req.size
          PROVE  ~ req.info /\ w.pos + n >= Len(File(h))
      BY <1>7, <2>10, <3>1
    <3> QED BY <1>5, <1>7, <2>8, <2>9, <3>1 DEF ShortOnlyAtTheEnd
  <2>14. SizeIsTheFiles'
    BY <1>5, <1>7, <2>8 DEF SizeIsTheFiles
  <2> QED BY <1>5, <2>12, <2>13, <2>14 DEF ReadInv, ReadsInv
<1> QED BY <1>0, <1>6, <1>7

\* The headers are received: one of them may be the length of the file.
LEMMA HeadersReads ==
  ASSUME ReadInv, Headers
  PROVE  ReadInv'
<1>1. IInv /\ IInv' /\ pc = "headers" /\ req \in Requests /\ net \in Seq(Lines)
  BY HeadersStep, Running DEF ReadInv, Headers, InRequest
<1>2. CASE GetHttpLineFails
  <2>1. FailedCall /\ faults \subseteq faults'
    BY <1>2 DEF GetHttpLineFails
  <2> QED BY <1>1, <2>1, FailedReads
<1>0. PICK line : line = Head(net)
  OBVIOUS
<1> DEFINE Length == /\ line[1] = "length" /\ Proceeds("headers") /\ net' = Tail(net)
                     /\ req' = [req EXCEPT !.total = ContentLength(@, line[2])]
                     /\ UNCHANGED faults
           Other == /\ line[1] = "other" /\ Proceeds("headers") /\ net' = Tail(net)
                    /\ UNCHANGED <<req, faults>>
           Blank == /\ line[1] \notin {"length", "other"}
                    /\ faults' = faults \cup
                         (IF req.total < Len(net) - 1 THEN {"LengthMissing"} ELSE {})
                    /\ \/ req.info /\ Answered(req.total) /\ UNCHANGED <<handles, got>>
                       \/ ~ req.info /\ AllReceived(req.total, 0) /\ Stored(<<>>)
                       \/ /\ Proceeds("body") /\ ~ req.info
                          /\ req' = [req EXCEPT !.left = CurSize(req.total, 0)]
                          /\ net' = Tail(net)
<1>3. (net # <<>> /\ (Length \/ Other \/ Blank)) \/ GetHttpLineFails
  BY <1>0 DEF Headers, OnHttpLine
<1> DEFINE file == File(req.h)
           L == Len(file)
<1>4. ASSUME net # <<>>
      PROVE  /\ line = net[1] /\ Len(Tail(net)) = Len(net) - 1 /\ line[2] \in Nat
             /\ \A i \in 1 .. Len(net) - 1 : Tail(net)[i] = net[i + 1]
  BY <1>0, <1>1, <1>4, TailOfNet, NextLine
<1>5. ASSUME faults = {}, OnServer(req.h)
      PROVE  /\ ~ req.info => req.offset = handles[req.h].pos
             /\ \E k \in 0 .. 2 : HeadersLeft(k, file)
             /\ file \in Seq(0 .. 255) /\ L \in Nat
  <2>1. RequestReads
    BY <1>1, <1>5, RunningReads
  <2>2. file \in Seq(0 .. 255)
    BY <1>5, NetFileAssumption DEF OnServer, File
  <2>3. L \in Nat
    BY <2>2
  <2> QED BY <1>1, <1>5, <2>1, <2>2, <2>3 DEF RequestReads
\* One line less is left of the headers.
<1>6. ASSUME net # <<>>, OnServer(req.h), L \in Nat, NEW k \in 1 .. 2, HeadersLeft(k, file)
      PROVE  /\ Len(Tail(net)) = (k - 1) + 1 + L
             /\ k - 1 = 1 => Tail(net)[1] = <<"length", L>>
             /\ Tail(net)[(k - 1) + 1] = <<"blank", 0>>
             /\ \A i \in 1 .. L : Tail(net)[(k - 1) + 1 + i] = <<"byte", file[i]>>
  <2> HIDE DEF file, L
  <2> DEFINE tail == Tail(net)
  <2>1. /\ Len(net) = k + 1 + Len(file) /\ L = Len(file)
        /\ k = 2 => net[2] = <<"length", Len(file)>>
        /\ net[k + 1] = <<"blank", 0>>
        /\ \A i \in 1 .. Len(file) : net[k + 1 + i] = <<"byte", file[i]>>
    BY <1>6 DEF HeadersLeft, L
  <2>2. Len(tail) = k + L /\ \A i \in 1 .. k + L : tail[i] = net[i + 1]
    BY <1>4, <1>6, <2>1
  <2> HIDE DEF tail
  <2>3. tail[k] = <<"blank", 0>>
    <3>1. k \in 1 .. k + L
      BY <1>6
    <3> QED BY <2>1, <2>2, <3>1
  <2>4. \A i \in 1 .. L : tail[k + i] = <<"byte", file[i]>>
    <3> TAKE i \in 1 .. L
    <3>1. k + i \in 1 .. k + L /\ (k + i) + 1 = k + 1 + i
      BY <1>6
    <3> QED BY <2>1, <2>2, <3>1
  <2>5. k = 2 => tail[1] = <<"length", L>>
    <3>1. 1 \in 1 .. k + L /\ 1 + 1 = 2
      BY <1>6
    <3> QED BY <2>1, <2>2, <3>1
  <2>6. (k - 1) + 1 = k
    OBVIOUS
  <2>7. k - 1 = 1 => k = 2
    OBVIOUS
  <2> QED BY <1>6, <2>2, <2>3, <2>4, <2>5, <2>6, <2>7 DEF tail
<1>7. CASE net # <<>> /\ (Length \/ Other)
  <2>1. UNCHANGED <<handles, faults>> /\ pc' = "headers"
    BY <1>7 DEF Proceeds
  <2>2. /\ req'.h = req.h /\ req'.info = req.info /\ req'.offset = req.offset
        /\ Length => req'.total = ContentLength(req.total, line[2])
    BY <1>1, <1>7 DEF Requests
  <2>3. ASSUME faults' = {}
        PROVE  RequestReads'
    <3>1. ASSUME OnServer(req.h)
          PROVE  /\ ~ req.info => req.offset = handles[req.h].pos
                 /\ \E k \in 0 .. 2 : HeadersLeft(k, File(req.h))'
      <4>1. PICK k \in 0 .. 2 : HeadersLeft(k, file)
        BY <1>5, <2>1, <2>3, <3>1
      <4>2. L \in Nat /\ file' = file
        BY <1>5, <2>1, <2>2, <2>3, <3>1 DEF File
      <4>3. k # 0
        <5>1. k = 0 => line[1] = "blank"
          BY <1>4, <1>7, <4>1 DEF HeadersLeft
        <5> QED BY <1>7, <5>1
      <4>4. k \in 1 .. 2 /\ k - 1 \in 0 .. 1
        BY <4>3
      <4>5. /\ Len(net') = (k - 1) + 1 + L
            /\ k - 1 = 1 => net'[1] = <<"length", L>>
            /\ net'[(k - 1) + 1] = <<"blank", 0>>
            /\ \A i \in 1 .. L : net'[(k - 1) + 1 + i] = <<"byte", file[i]>>
        BY <1>6, <1>7, <3>1, <4>1, <4>2, <4>4
      <4>6. req'.total \in (IF k - 1 = 0 THEN {0, L} ELSE {0})
        <5>1. req.total = 0
          BY <4>1, <4>3 DEF HeadersLeft
        <5>2. CASE Other
          BY <5>1, <5>2
        <5>3. CASE Length
          <6>1. k # 2
            <7>1. k = 2 => line[1] = "other"
              BY <1>4, <1>7, <4>1 DEF HeadersLeft
            <7> QED BY <5>3, <7>1
          <6>2. line \in {<<"other", 0>>, <<"length", L>>}
            BY <1>4, <1>7, <4>1, <4>4, <6>1 DEF HeadersLeft
          <6>3. line[2] = L
            BY <5>3, <6>2
          <6>4. req'.total = L
            BY <2>2, <4>2, <5>1, <5>3, <6>3 DEF ContentLength
          <6> QED BY <4>4, <6>1, <6>4
        <5> QED BY <1>7, <5>2, <5>3
      <4>7. k - 1 \in 0 .. 2 /\ k - 1 # 2
        BY <4>4
      <4>8. HeadersLeft(k - 1, file)'
        <5> DEFINE m == k - 1
        <5>1. /\ Len(net') = m + 1 + L
              /\ m = 1 => net'[1] = <<"length", L>>
              /\ net'[m + 1] = <<"blank", 0>>
              /\ \A i \in 1 .. L : net'[m + 1 + i] = <<"byte", file[i]>>
              /\ req'.total \in (IF m = 0 THEN {0, L} ELSE {0}) /\ m # 2
          BY <4>5, <4>6, <4>7
        <5> HIDE DEF m
        <5>2. HeadersLeft(m, file)'
          BY <4>2, <5>1 DEF HeadersLeft
        <5> QED BY <5>2 DEF m
      <4> QED BY <1>5, <2>1, <2>3, <3>1, <4>7, <4>8
    <3> QED BY <2>1, <2>2, <3>1 DEF RequestReads, OnServer, File
  <2> QED BY <1>1, <1>7, <2>1, <2>3, ProceedsReads
<1>8. CASE net # <<>> /\ Blank
  <2>1. faults \subseteq faults'
    BY <1>8
  \* Without the fault the length has been received.
  <2>2. ASSUME faults' = {}, OnServer(req.h)
        PROVE  /\ req.total = L /\ Len(net) = 1 + L
               /\ \A i \in 1 .. L : net[1 + i] = <<"byte", file[i]>>
    <3>1. PICK k \in 0 .. 2 : HeadersLeft(k, file)
      BY <1>5, <2>1, <2>2
    <3>2. L \in Nat
      BY <1>5, <2>1, <2>2
    <3>3. k = 0
      <4>1. k = 1 => line[1] \in {"other", "length"}
        BY <1>4, <1>8, <3>1 DEF HeadersLeft
      <4>2. k = 2 => line[1] = "other"
        BY <1>4, <1>8, <3>1 DEF HeadersLeft
      <4> QED BY <1>8, <4>1, <4>2
    <3>4. Len(net) = 0 + 1 + L /\ req.total \in {0, L}
          /\ \A i \in 1 .. L : net[0 + 1 + i] = <<"byte", file[i]>>
      BY <3>1, <3>3 DEF HeadersLeft
    <3>5. ~ (req.total < Len(net) - 1)
      BY <1>8, <2>2
    <3>6. req.total = L
      BY <3>2, <3>4, <3>5
    <3> HIDE DEF file
    <3> QED BY <3>2, <3>4, <3>6
  <2>3. CASE req.info /\ Answered(req.total) /\ UNCHANGED <<handles, got>>
    <3>1. req.total \in Nat
      BY <1>1 DEF Requests
    <3> QED BY <1>1, <2>1, <2>2, <2>3, <3>1, AnsweredReads
  <2>4. CASE ~ req.info /\ AllReceived(req.total, 0) /\ Stored(<<>>)
    <3>1. Len(<<>>) = 0 /\ <<>> \in Seq(Nat)
      OBVIOUS
    <3>2. ASSUME faults' = {}, OnServer(req.h)
          PROVE  IsPart(<<>>, file, req.offset) /\ req.offset + 0 >= L
      <4>1. L = 0
        BY <2>2, <2>4, <3>2 DEF AllReceived
      <4>2. req.offset \in Nat
        BY <1>1 DEF Requests
      <4>3. req.offset + 0 >= L
        BY <4>1, <4>2
      <4> QED BY <4>3 DEF IsPart
    <3>3. /\ Answered(0)
          /\ handles' = [handles EXCEPT ![req.h].pos = @ + Len(<<>>)]
          /\ got' = [got EXCEPT ![req.h].data = @ \o <<>>]
      BY <2>4, <3>1 DEF Stored
    <3> QED BY <1>1, <2>1, <2>4, <3>1, <3>2, <3>3, AnsweredReads
  <2>5. CASE /\ Proceeds("body") /\ ~ req.info
             /\ req' = [req EXCEPT !.left = CurSize(req.total, 0)]
             /\ net' = Tail(net)
    <3> DEFINE left == CurSize(req.total, 0)
    <3>1. req' = [req EXCEPT !.left = left]
      BY <2>5
    <3> HIDE DEF left
    <3>2. /\ req'.h = req.h /\ req'.info = req.info /\ req'.offset = req.offset
          /\ req'.total = req.total /\ req'.at = req.at /\ req'.chunk = req.chunk
          /\ req'.buf = req.buf /\ req'.size = req.size
      BY <1>1, <3>1 DEF Requests
    <3>3. pc' = "body" /\ UNCHANGED handles
      BY <2>5 DEF Proceeds
    <3>4. req.at = 0 /\ req.chunk = <<>> /\ req.buf = <<>>
      BY <1>1 DEF IInv, RequestInv
    <3>5. ASSUME faults' = {}, OnServer(req.h)
          PROVE  BodyLeft(File(req.h))' /\ (~ req.info => req.offset = handles[req.h].pos)
      <4>1. file' = file
        BY <3>2, <3>3 DEF File
      <4>2. L \in Nat /\ (~ req.info => req.offset = handles[req.h].pos)
        BY <1>5, <2>1, <3>5
      <4>3. Len(net') = L /\ \A i \in 1 .. L : net'[i] = <<"byte", file[i]>>
        <5>1. Len(net) - 1 = L
          BY <2>2, <3>5, <4>2
        <5>2. Len(net') = L /\ \A i \in 1 .. L : net'[i] = net[i + 1]
          BY <1>4, <1>8, <2>5, <5>1
        <5>3. \A i \in 1 .. L : net[1 + i] = <<"byte", file[i]>>
          BY <2>2, <3>5
        <5> HIDE DEF file, L
        <5>4. \A i \in 1 .. L : i + 1 = 1 + i
          OBVIOUS
        <5> QED BY <5>2, <5>3, <5>4
      <4>4. req.size \in Nat /\ req.offset \in Nat
        BY <1>1 DEF Requests
      <4>5. /\ req'.at = 0 /\ req'.chunk = <<>> /\ req'.buf = <<>> /\ req'.total = L
            /\ ~ req'.info /\ req'.size = req.size /\ req'.offset = req.offset
        BY <2>2, <2>5, <3>2, <3>4, <3>5
      <4>6. Lower(req.size, Beyond(0, req.offset)) = 0 /\ Len(<<>>) = 0
        BY <4>4 DEF Lower, Beyond
      <4> HIDE DEF file
      <4>7. BodyLeft(file)'
        BY <4>1, <4>2, <4>3, <4>5, <4>6 DEF BodyLeft, IsPart
      <4> QED BY <4>2, <4>7 DEF file
    <3>6. faults' = {} => RequestReads'
      BY <3>2, <3>3, <3>5 DEF RequestReads, OnServer, File
    <3> QED BY <1>1, <2>1, <2>5, <3>6, ProceedsReads
  <2> QED BY <1>8, <2>3, <2>4, <2>5
<1> QED BY <1>2, <1>3, <1>7, <1>8

\* What the buffer takes of a chunk continues it: it holds what is wanted of
\* the file up to the end of the chunk, as far as there is room.
LEMMA BufferedIsPart ==
  ASSUME req \in Requests, NEW file \in Seq(0 .. 255), NEW chunk \in Seq(Nat),
         IsPart(chunk, file, req.at), IsPart(req.buf, file, req.offset),
         Len(req.buf) = Lower(req.size, Beyond(req.at, req.offset))
  PROVE  /\ IsPart(Buffered(chunk), file, req.offset)
         /\ Len(Buffered(chunk)) = Lower(req.size, Beyond(req.at + Len(chunk), req.offset))
         /\ BufferFull(chunk) => Len(Buffered(chunk)) = req.size
<1>0. PICK at, offset, size, buf :
        at = req.at /\ offset = req.offset /\ size = req.size /\ buf = req.buf
  OBVIOUS
<1>1. at \in Nat /\ offset \in Nat /\ size \in Nat /\ buf \in Seq(Nat)
  BY <1>0 DEF Requests
<1> DEFINE n == Len(chunk)
           b == Len(buf)
           start == IF offset > at THEN Lower(offset - at, n) ELSE 0
           w == SubSeq(chunk, start + 1, n)
           room == Lower(Len(w), size - b)
           taken == SubSeq(w, 1, room)
<1>2. n \in Nat /\ b \in Nat /\ b = Lower(size, Beyond(at, offset))
  BY <1>0, <1>1
<1>3. start \in Nat /\ start <= n
  BY <1>1, <1>2 DEF Lower
<1>4. start = (IF offset > at THEN Lower(offset - at, n) ELSE 0)
  OBVIOUS
<1> HIDE DEF start
<1>5. /\ w \in Seq(Nat) /\ Len(w) = n - start
      /\ \A i \in 1 .. n - start : w[i] = chunk[start + i]
  <2>1. w \in Seq(Nat)
    BY <1>2, <1>3
  <2>2. Len(w) = n - start
    BY <1>2, <1>3
  <2>3. \A i \in 1 .. n - start : w[i] = chunk[start + i]
    <3>1. \A i \in start + 1 .. n : chunk[i] \in Nat
      <4> TAKE i \in start + 1 .. n
      <4>1. i \in 1 .. Len(chunk)
        BY <1>2, <1>3
      <4> QED BY <4>1, ElementOfSeq
    <3>2. w = [i \in 1 .. n - start |-> chunk[start + i]]
      <4>1. start \in Int /\ n \in Int
        BY <1>2, <1>3
      <4> DEFINE v(i) == chunk[start + i]
      <4>2. \A i \in 1 .. Len(w) : w[i] = chunk[start + 1 + i - 1]
        BY <1>2, <1>3, <3>1, SubSeqProperties
      <4>3. \A i \in 1 .. n - start : start + 1 + i - 1 = start + i
        BY <4>1
      <4>4. w = [i \in 1 .. Len(w) |-> w[i]]
        BY <2>1, SMTT(30)
      <4> HIDE DEF w
      <4>5. \A i \in 1 .. n - start : w[i] = chunk[start + i]
        BY <2>2, <4>2, <4>3
      <4>6. w = [i \in 1 .. n - start |-> w[i]]
        BY <2>2, <4>4
      <4> QED BY <4>5, <4>6
    <3> HIDE DEF w
    <3> QED BY <3>2
  <2> QED BY <2>1, <2>2, <2>3
<1>6. Wanted(chunk, req.at, req.offset) = w
  BY <1>0, <1>4 DEF Wanted
<1> HIDE DEF w
<1>7. b <= size
  BY <1>1, <1>2 DEF Lower, Beyond
<1>9. room = Lower(n - start, size - b) /\ Len(w) = n - start
  BY <1>5
<1>8. room \in Nat /\ room <= n - start /\ room <= size - b
  <2> HIDE DEF n, b, room
  <2> QED BY <1>1, <1>2, <1>3, <1>7, <1>9, SMTT(30) DEF Lower
<1>10. Buffered(chunk) = buf \o taken
  BY <1>0, <1>6 DEF Buffered
<1> HIDE DEF room
<1>11. /\ taken \in Seq(Nat) /\ Len(taken) = room
       /\ \A i \in 1 .. room : taken[i] = w[i]
  BY <1>5, <1>8, <1>9
<1> HIDE DEF taken
<1> DEFINE all == buf \o taken
<1>12. /\ Len(all) = b + room
       /\ \A i \in 1 .. b + room : all[i] = IF i <= b THEN buf[i] ELSE taken[i - b]
  <2>1. /\ Len(all) = Len(buf) + Len(taken)
        /\ \A i \in 1 .. Len(buf) + Len(taken) :
              all[i] = IF i <= Len(buf) THEN buf[i] ELSE taken[i - Len(buf)]
    BY <1>1, <1>11
  <2> HIDE DEF all
  <2> QED BY <1>11, <2>1
<1> HIDE DEF all, n, b
\* When something is taken, the buffer ends where it begins.
<1>13. room > 0 => offset + b = at + start
  BY <1>1, <1>2, <1>3, <1>4, <1>9 DEF Lower, Beyond
<1>14. IsPart(all, file, offset)
  <2> SUFFICES ASSUME NEW i \in 1 .. b + room
               PROVE  offset + i \in 1 .. Len(file) /\ all[i] = file[offset + i]
    BY <1>12 DEF IsPart
  <2>1. CASE i <= b
    <3>1. i \in 1 .. b /\ all[i] = buf[i]
      BY <1>2, <1>8, <1>12, <2>1
    <3> QED BY <1>0, <3>1 DEF IsPart, b
  <2>2. CASE ~ (i <= b)
    <3>1. i - b \in 1 .. room /\ room > 0
      BY <1>2, <1>8, <2>2
    <3>2. i - b \in 1 .. n - start
      BY <1>2, <1>3, <1>5, <1>8, <3>1
    <3>3. all[i] = chunk[start + (i - b)]
      BY <1>5, <1>11, <1>12, <2>2, <3>1, <3>2
    <3>4. start + (i - b) \in 1 .. n
      BY <1>2, <1>3, <3>2
    <3>5. /\ at + (start + (i - b)) \in 1 .. Len(file)
          /\ chunk[start + (i - b)] = file[at + (start + (i - b))]
      BY <1>0, <3>4 DEF IsPart, n
    <3>6. at + (start + (i - b)) = offset + i
      <4>1. offset + b = at + start
        BY <1>13, <3>1
      <4>2. i \in Int
        BY <1>2, <1>8
      <4>3. at \in Int /\ offset \in Int /\ start \in Int /\ b \in Int
        BY <1>1, <1>2, <1>3
      <4> QED BY <4>1, <4>2, <4>3, SamePlace
    <3> QED BY <3>3, <3>5, <3>6
  <2> QED BY <2>1, <2>2
<1>15. Len(all) = Lower(size, Beyond(at + n, offset))
  <2>1. b + room = Lower(size, Beyond(at + n, offset))
    BY <1>1, <1>2, <1>3, <1>4, <1>9 DEF Lower, Beyond
  <2> QED BY <1>12, <2>1
<1>16. BufferFull(chunk) => Len(all) = size
  <2>1. BufferFull(chunk) => n - start > size - b
    BY <1>0, <1>5, <1>6 DEF BufferFull, b
  <2>2. n - start > size - b => b + room = size
    BY <1>1, <1>2, <1>3, <1>9 DEF Lower
  <2> QED BY <1>12, <2>1, <2>2
<1> QED BY <1>0, <1>10, <1>14, <1>15, <1>16 DEF all, n

\* A piece of the body is received.
LEMMA BodyReads ==
  ASSUME ReadInv, Body
  PROVE  ReadInv'
<1>1. IInv /\ IInv' /\ pc = "body" /\ UNCHANGED faults /\ req \in Requests /\ net \in Seq(Lines)
  BY BodyStep, Running DEF ReadInv, Body, InRequest
<1>2. CASE FailedCall
  BY <1>1, <1>2, FailedReads
<1> DEFINE Received(n) == req.chunk \o [i \in 1 .. n |-> net[i][2]]
           More(n, chunk) == /\ Proceeds("body")
                             /\ req' = [req EXCEPT !.left = @ - n, !.chunk = chunk]
                             /\ net' = SubSeq(net, n + 1, Len(net))
           Last(n, chunk) ==
             /\ AllReceived(req.total, req.at + Len(chunk)) \/ BufferFull(chunk)
             /\ Stored(Buffered(chunk))
           NextChunk(n, chunk) ==
             /\ Proceeds("body")
             /\ req' = [req EXCEPT !.at = @ + Len(chunk), !.chunk = <<>>,
                                   !.buf = Buffered(chunk),
                                   !.left = CurSize(req.total, req.at + Len(chunk))]
             /\ net' = SubSeq(net, n + 1, Len(net))
<1>3. \/ FailedCall
      \/ \E n \in TcpReceivePartial(req.left) :
           \/ More(n, Received(n)) \/ Last(n, Received(n)) \/ NextChunk(n, Received(n))
  BY DEF Body
<1>4. ASSUME NEW n \in TcpReceivePartial(req.left),
             More(n, Received(n)) \/ Last(n, Received(n)) \/ NextChunk(n, Received(n))
      PROVE  ReadInv'
  <2>0. PICK h, old, at, total, info :
          h = req.h /\ old = req.chunk /\ at = req.at /\ total = req.total /\ info = req.info
    OBVIOUS
  <2>1. /\ req.left \in Nat /\ at \in Nat /\ total \in Nat /\ old \in Seq(Nat)
        /\ req.size \in Nat /\ req.offset \in Nat
    BY <1>1, <2>0 DEF Requests
  <2>2. n \in Nat /\ n > 0 /\ n <= Len(net)
    <3>1. Len(net) \in Nat
      BY <1>1
    <3> QED BY <2>1, <3>1 DEF TcpReceivePartial, Lower
  <2> DEFINE piece == [i \in 1 .. n |-> net[i][2]]
             chunk == Received(n)
             file == File(h)
  <2>3. piece \in Seq(Nat) /\ Len(piece) = n
    <3>1. \A line \in Lines : line[2] \in Nat
      BY DEF Lines
    <3>2. \A i \in 1 .. n : net[i] \in Lines
      BY <1>1, <2>2, ElementOfSeq
    <3>3. piece \in [1 .. n -> Nat]
      BY <3>1, <3>2
    <3> HIDE DEF piece
    <3>4. piece \in Seq(Nat)
      BY <2>2, <3>3, FunctionsAreSequences
    <3>5. DOMAIN piece = 1 .. n
      BY <3>3
    <3> QED BY <2>2, <3>4, <3>5
  <2>4. \A i \in 1 .. n : piece[i] = net[i][2]
    OBVIOUS
  <2> HIDE DEF piece
  <2>5. chunk = old \o piece
    BY <2>0 DEF piece
  <2>6. chunk \in Seq(Nat) /\ Len(chunk) = Len(old) + n
        /\ \A i \in 1 .. Len(old) + n :
              chunk[i] = IF i <= Len(old) THEN old[i] ELSE piece[i - Len(old)]
    <3>1. old \o piece \in Seq(Nat) /\ Len(old \o piece) = Len(old) + Len(piece)
      BY <2>1, <2>3, ConcatIsBytes
    <3>2. \A i \in 1 .. Len(old) + Len(piece) :
            (old \o piece)[i] = IF i <= Len(old) THEN old[i] ELSE piece[i - Len(old)]
      BY <2>1, <2>3
    <3> HIDE DEF chunk
    <3> QED BY <2>3, <2>5, <3>1, <3>2
  <2> HIDE DEF chunk
  <2> DEFINE rest == SubSeq(net, n + 1, Len(net))
  \* What a running request of a file on the server knows, with the new piece.
  <2>7. ASSUME faults = {}, OnServer(h)
        PROVE  /\ ~ info /\ total = Len(file) /\ file \in Seq(0 .. 255)
               /\ req.offset = handles[h].pos
               /\ IsPart(chunk, file, at) /\ IsPart(req.buf, file, req.offset)
               /\ Len(req.buf) = Lower(req.size, Beyond(at, req.offset))
               /\ Len(rest) = Len(file) - (at + Len(chunk))
               /\ \A i \in 1 .. Len(rest) : rest[i] = <<"byte", file[at + Len(chunk) + i]>>
    <3>1. RequestReads
      BY <1>1, <2>7, RunningReads
    <3>2. BodyLeft(file) /\ (~ info => req.offset = handles[h].pos)
      BY <1>1, <2>0, <2>7, <3>1 DEF RequestReads
    <3>3. file \in Seq(0 .. 255)
      BY <2>7, NetFileAssumption DEF OnServer, File
    <3> DEFINE r == at + Len(old)
               L == Len(file)
    <3> HIDE DEF file
    <3>4. /\ ~ info /\ total = L
          /\ Len(net) = L - r
          /\ \A i \in 1 .. Len(net) : net[i] = <<"byte", file[r + i]>>
          /\ IsPart(old, file, at) /\ IsPart(req.buf, file, req.offset)
          /\ Len(req.buf) = Lower(req.size, Beyond(at, req.offset))
      BY <2>0, <3>2 DEF BodyLeft
    <3>5. r \in Nat /\ L \in Nat /\ Len(old) \in Nat
      BY <2>1, <3>3
    <3>6. \A i \in 1 .. n : piece[i] = file[r + i]
      <4> TAKE i \in 1 .. n
      <4>1. i \in 1 .. Len(net)
        BY <2>2
      <4>2. net[i] = <<"byte", file[r + i]>>
        BY <3>4, <4>1
      <4>3. net[i][2] = file[r + i]
        BY <4>2
      <4> QED BY <2>4, <4>3
    <3>7. n <= L - r /\ Len(net) \in Nat
      BY <1>1, <2>2, <3>4
    <3>8. IsPart(chunk, file, at)
      <4> SUFFICES ASSUME NEW i \in 1 .. Len(chunk)
                   PROVE  at + i \in 1 .. Len(file) /\ chunk[i] = file[at + i]
        BY DEF IsPart
      <4>1. CASE i <= Len(old)
        <5>1. i \in 1 .. Len(old) /\ chunk[i] = old[i]
          BY <2>2, <2>6, <3>5, <4>1
        <5> QED BY <3>4, <5>1 DEF IsPart
      <4>2. CASE ~ (i <= Len(old))
        <5>1. i - Len(old) \in 1 .. n /\ chunk[i] = piece[i - Len(old)] /\ i \in Int
          BY <2>2, <2>6, <3>5, <4>2
        <5>2. r + (i - Len(old)) = at + i
          BY <2>1, <3>5, <5>1
        <5>3. at + i \in 1 .. L
          BY <2>1, <2>2, <3>5, <3>7, <5>1, <5>2
        <5> QED BY <3>6, <5>1, <5>2, <5>3
      <4> QED BY <4>1, <4>2
    <3>9. at + Len(chunk) = r + n
      BY <2>1, <2>2, <2>6, <3>5
    <3>10. Len(rest) = Len(net) - n
      BY <1>1, <2>2
    <3>11. \A i \in 1 .. Len(rest) : rest[i] = <<"byte", file[at + Len(chunk) + i]>>
      <4> DEFINE m == Len(net)
      <4>1. m \in Nat
        BY <1>1
      <4>2. \A i \in n + 1 .. m : net[i] \in Lines
        <5> TAKE i \in n + 1 .. m
        <5>1. i \in 1 .. Len(net)
          BY <2>2, <4>1
        <5> QED BY <1>1, <5>1, ElementOfSeq
      <4>3. \A i \in 1 .. Len(rest) : rest[i] = net[n + 1 + i - 1]
        BY <2>2, <4>1, <4>2, SubSeqProperties
      <4> HIDE DEF rest, m
      <4> TAKE i \in 1 .. Len(rest)
      <4>4. n + 1 + i - 1 = n + i /\ n + i \in 1 .. m
        BY <2>2, <3>10, <4>1 DEF m
      <4>5. net[n + i] = <<"byte", file[r + (n + i)]>>
        BY <3>4, <4>4 DEF m
      <4>6. r + (n + i) = at + Len(chunk) + i
        BY <2>2, <3>5, <3>9, <3>10, <4>1 DEF m
      <4> QED BY <4>3, <4>4, <4>5, <4>6
    <3>12. Len(rest) = Len(file) - (at + Len(chunk))
      BY <2>2, <3>4, <3>5, <3>9, <3>10
    <3> QED BY <3>2, <3>3, <3>4, <3>8, <3>11, <3>12 DEF file
  <2> HIDE DEF rest
  <2>8. ASSUME faults = {}, OnServer(h)
        PROVE  /\ IsPart(Buffered(chunk), file, req.offset)
               /\ Len(Buffered(chunk)) = Lower(req.size, Beyond(at + Len(chunk), req.offset))
               /\ BufferFull(chunk) => Len(Buffered(chunk)) = req.size
    BY <1>1, <2>0, <2>6, <2>7, <2>8, BufferedIsPart
  <2>9. Buffered(chunk) \in Seq(Nat)
    BY <1>1, <2>6, StoredIsBytes
  <2>10. UNCHANGED handles /\ pc' = "body" /\ req'.h = h => File(h)' = file /\ (OnServer(h)' <=> OnServer(h))
    BY DEF OnServer, File
  <2>11. CASE More(n, chunk)
    <3> DEFINE left == req.left - n
    <3>1. req' = [req EXCEPT !.left = left, !.chunk = chunk]
      BY <2>11
    <3> HIDE DEF left
    <3>2. /\ req'.h = h /\ req'.info = info /\ req'.offset = req.offset /\ req'.total = total
          /\ req'.at = at /\ req'.chunk = chunk /\ req'.buf = req.buf /\ req'.size = req.size
      BY <1>1, <2>0, <3>1 DEF Requests
    <3>3. pc' = "body" /\ UNCHANGED handles /\ net' = rest
      BY <2>11 DEF Proceeds, rest
    <3>4. ASSUME faults' = {}, OnServer(h)
          PROVE  BodyLeft(file)' /\ req.offset = handles[h].pos
      <4>1. faults = {}
        BY <1>1, <3>4
      <4> DEFINE f == file
      <4>2. /\ ~ info /\ total = Len(f) /\ req.offset = handles[h].pos
            /\ IsPart(chunk, f, at) /\ IsPart(req.buf, f, req.offset)
            /\ Len(req.buf) = Lower(req.size, Beyond(at, req.offset))
            /\ Len(rest) = Len(f) - (at + Len(chunk))
            /\ \A i \in 1 .. Len(rest) : rest[i] = <<"byte", f[at + Len(chunk) + i]>>
        BY <2>7, <3>4, <4>1
      <4>3. file' = f
        BY <3>3 DEF File
      <4> HIDE DEF f, file
      <4> QED BY <3>2, <3>3, <4>2, <4>3 DEF BodyLeft
    <3>5. faults' = {} => RequestReads'
      BY <2>0, <3>2, <3>3, <3>4 DEF RequestReads, OnServer, File
    <3> QED BY <1>1, <2>11, <3>5, ProceedsReads
  <2>12. CASE Last(n, chunk)
    <3> DEFINE data == Buffered(chunk)
    <3>1. data \in Seq(Nat) /\ Len(data) \in Nat
      BY <2>9
    <3>2. /\ Answered(Len(data))
          /\ handles' = [handles EXCEPT ![h].pos = @ + Len(data)]
          /\ got' = [got EXCEPT ![h].data = @ \o data]
      BY <2>0, <2>12 DEF Stored
    <3> HIDE DEF data
    <3>3. ASSUME faults' = {}, OnServer(h)
          PROVE  /\ ~ info /\ IsPart(data, file, req.offset)
                 /\ Len(data) < req.size => req.offset + Len(data) >= Len(file)
      <4>1. faults = {}
        BY <1>1, <3>3
      <4>2. ASSUME Len(data) < req.size
            PROVE  req.offset + Len(data) >= Len(file)
        <5>1. AllReceived(req.total, req.at + Len(chunk))
          BY <2>8, <2>12, <3>1, <2>1, <3>3, <4>1, <4>2 DEF data
        <5>2. at + Len(chunk) = Len(file)
          BY <2>0, <2>7, <3>3, <4>1, <5>1 DEF AllReceived
        <5>3. Len(data) = Lower(req.size, Beyond(Len(file), req.offset)) /\ Len(file) \in Nat
          BY <2>7, <2>8, <3>3, <4>1, <5>2 DEF data
        <5> HIDE DEF file
        <5> QED BY <2>1, <3>1, <4>2, <5>3 DEF Lower, Beyond
      <4> QED BY <2>7, <2>8, <3>3, <4>1, <4>2 DEF data
    <3> QED BY <1>1, <2>0, <2>12, <3>1, <3>2, <3>3, AnsweredReads
  <2>13. CASE NextChunk(n, chunk)
    <3> DEFINE buf == Buffered(chunk)
               left == CurSize(req.total, req.at + Len(chunk))
               next == at + Len(chunk)
    <3>1. req' = [req EXCEPT !.at = next, !.chunk = <<>>, !.buf = buf, !.left = left]
      BY <2>0, <2>13
    <3> HIDE DEF buf, left, next
    <3>2. /\ req'.h = h /\ req'.info = info /\ req'.offset = req.offset /\ req'.total = total
          /\ req'.size = req.size
      BY <1>1, <2>0, <3>1 DEF Requests
    <3>3. req'.at = next /\ req'.chunk = <<>> /\ req'.buf = buf
      BY <1>1, <3>1 DEF Requests
    <3>4. pc' = "body" /\ UNCHANGED handles /\ net' = rest
      BY <2>13 DEF Proceeds, rest
    <3>5. ASSUME faults' = {}, OnServer(h)
          PROVE  BodyLeft(file)' /\ req.offset = handles[h].pos
      <4>1. faults = {}
        BY <1>1, <3>5
      <4> DEFINE f == file
      <4>2. /\ ~ info /\ total = Len(f) /\ req.offset = handles[h].pos
            /\ Len(rest) = Len(f) - next
            /\ \A i \in 1 .. Len(rest) : rest[i] = <<"byte", f[next + i]>>
        BY <2>7, <3>5, <4>1 DEF next
      <4>3. IsPart(buf, f, req.offset) /\ Len(buf) = Lower(req.size, Beyond(next, req.offset))
        BY <2>8, <3>5, <4>1 DEF buf, next
      <4>4. file' = f
        BY <3>4 DEF File
      <4>5. Len(<<>>) = 0 /\ IsPart(<<>>, f, next) /\ next + 0 = next
        BY <2>1, <2>6 DEF IsPart, next
      <4> HIDE DEF f, file
      <4> QED BY <3>2, <3>3, <3>4, <4>2, <4>3, <4>4, <4>5 DEF BodyLeft
    <3>6. faults' = {} => RequestReads'
      BY <2>0, <3>2, <3>4, <3>5 DEF RequestReads, OnServer, File
    <3> QED BY <1>1, <2>13, <3>6, ProceedsReads
  <2> QED BY <1>4, <2>11, <2>12, <2>13 DEF chunk
<1> QED BY <1>2, <1>3, <1>4

-----------------------------------------------------------------------------
\* Nothing has been read before the root is opened.
LEMMA InitReads == Init => ReadInv
<1> SUFFICES ASSUME Init PROVE ReadInv
  OBVIOUS
<1>1. IInv
  BY InitIInv
<1>2. Open = {} /\ pc = "down"
  BY DEF Init, Open
<1> QED BY <1>1, <1>2 DEF ReadInv, ReadsInv, ShortOnlyAtTheEnd, SizeIsTheFiles

\* Every step of the loader keeps what is known of the reads.
LEMMA NextReads == ReadInv /\ [Next]_vars => ReadInv'
<1> SUFFICES ASSUME ReadInv, [Next]_vars PROVE ReadInv'
  OBVIOUS
<1>1. CASE Request
  BY <1>1, SendReads, StatusReads, HeadersReads, BodyReads DEF Request
<1>2. CASE UNCHANGED vars
  <2>1. IInv'
    BY <1>2, NextIInv DEF ReadInv
  <2>2. faults' = {} /\ pc' \notin {"down", "idle"} => RequestReads'
    BY <1>2, RunningReads DEF vars, RequestReads, HeadersLeft, BodyLeft, OnServer, File
  <2> QED BY <1>2, <2>1, <2>2, HistoryUntouched DEF ReadInv, ReadsInv, vars
<1> QED BY <1>1, <1>2, OpenedReads, ForgottenReads, CallReads DEF Next

\* What a handle read is the part of the file after the position it was set to.
LEMMA ReadInvImplies == ReadInv => ReadsAreWhole
<1> SUFFICES ASSUME ReadInv PROVE ReadsAreWhole
  OBVIOUS
<1>1. ASSUME faults = {}, NEW h \in Open, OnServer(h)
      PROVE  /\ got[h].data = SubSeq(File(h), got[h].from + 1, got[h].from + Len(got[h].data))
             /\ handles[h].pos = got[h].from + Len(got[h].data)
  <2>1. /\ handles[h].pos = got[h].from + Len(got[h].data)
        /\ IsPart(got[h].data, File(h), got[h].from)
    BY <1>1 DEF ReadInv, ReadsInv, HandleReads
  <2>2. File(h) \in Seq(0 .. 255)
    BY <1>1, NetFileAssumption DEF OnServer, File
  <2>3. got[h].data \in Seq(Nat) /\ got[h].from \in Nat
    BY DEF ReadInv, IInv, HistoryInv, Open
  <2>4. got[h].data = SubSeq(File(h), got[h].from + 1, got[h].from + Len(got[h].data))
    <3>1. PICK data, file, from : data = got[h].data /\ file = File(h) /\ from = got[h].from
      OBVIOUS
    <3>2. data = SubSeq(file, from + 1, from + Len(data))
      BY <2>1, <2>2, <2>3, <3>1, PartIsSubSeq, ZenonT(60)
    <3> QED BY <3>1, <3>2
  <2> QED BY <2>1, <2>4
<1> QED BY <1>1 DEF ReadInv, ReadsAreWhole, ReadsAreContiguous

\* Whatever pieces a response comes in, and however many requests failed in
\* between, what a caller has read of a file is the file from where it began,
\* a short read is at the end, and GetInfo gives the file's length: up to the
\* first of the faults that the code has by itself.
THEOREM ReadsGiveTheFile == Spec => []ReadsAreWhole
<1>1. Spec => []ReadInv
  BY InitReads, NextReads, PTL DEF Spec
<1> QED BY <1>1, ReadInvImplies, PTL
=============================================================================
