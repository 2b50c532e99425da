------------------------------- MODULE NetFile -------------------------------
(***************************************************************************)
(* The boot loader's files on a web server (bootloader/fswrappernetwork.c):*)
(* handles that share their names with a parent, and a GET over TCP for    *)
(* every read and every question for a size.  The firmware's TCP driver    *)
(* and the server are the environment: a response is the sequence of its   *)
(* lines and bytes, which arrive in pieces of any length, and the          *)
(* connection may break before any of them.                                *)
(*                                                                         *)
(* A line is one item, whatever its characters; a size has one digit.      *)
(* "faults" names the places where the code goes wrong by itself, and the  *)
(* properties speak of the behaviours before the first of them.            *)
(***************************************************************************)
EXTENDS Integers, Sequences, FiniteSets

CONSTANTS Handles,          \* FILE_WRAPPERs that can exist at once
          NoHandle,         \* the parent of a root
          Dangling,         \* a parent that was closed before its child
          Closed,           \* a FILE_WRAPPER that is not allocated
          Names,            \* names of files
          Content,          \* the server's files: bytes by URL (names from the root)
          Addresses,        \* forms of the server's address
          Adapters,         \* TCP service bindings, in the order they are found
          ChunkSize,        \* sizeof(responseBuffer), 512 in the code
          RequestSize,      \* length of the request
          MaxDhcpRetries,   \* 10 in the code
          Sizes,            \* sizes of the caller's buffer
          Positions,        \* positions the caller seeks
          MaxCalls,         \* bound: opens, reads and questions for a size
          MaxFailures       \* bound: allocations and connections that fail

\* The URL of a file, the handle it was opened in and the next byte to read.
Wrappers ==
  [url : Seq(Names), parent : Handles \cup {NoHandle, Dangling}, pos : Nat]

ASSUME NetFileAssumption ==
  /\ NoHandle \notin Handles /\ Dangling \notin Handles \cup {NoHandle}
  /\ Closed \notin Handles /\ Closed \notin Wrappers
  /\ ChunkSize \in Nat \ {0} /\ RequestSize \in Nat \ {0}
  /\ MaxDhcpRetries \in Nat /\ Adapters \subseteq Nat /\ Adapters # {}
  /\ Sizes \subseteq Nat /\ Positions \subseteq Nat
  /\ \A url \in DOMAIN Content : Content[url] \in Seq(0..255)

VARIABLES
  pc,        \* where the running call is: "down" before the root is open, "idle"
  handles,   \* the wrapper and its context
  blocks,    \* pool blocks in use, by owner and purpose
  child,     \* a TCP child handle exists
  req,       \* the locals of DoRequest
  net,       \* what the server sent and the loader has not received
  got,       \* history: where a handle last was set to, and what it read since
  last,      \* history: the last answered call
  address,   \* the form of the server's address
  faults, calls, failures

vars == <<pc, handles, blocks, child, req, net, got, last, address, faults, calls, failures>>

Lower(a, b) == IF a < b THEN a ELSE b
Open == {h \in Handles : handles[h] # Closed}
\* Which free memory a new wrapper gets makes no difference.
FreeHandle == IF Open = Handles THEN NoHandle ELSE CHOOSE h \in Handles : h \notin Open
IsChild(h) == handles[h].parent # NoHandle

\* What a wrapper takes from the pool.
HandleBlocks(h) == {h} \X {"handle", "ctx", "url", "filename"}
RequestBuffer == <<NoHandle, "request">>

NoRequest == [h |-> NoHandle, size |-> 0, offset |-> 0, info |-> FALSE, left |-> 0,
              retries |-> 0, total |-> 0, at |-> 0, chunk |-> <<>>, buf |-> <<>>]
NoAnswer == [h |-> NoHandle, info |-> FALSE, asked |-> 0, pos |-> 0, gave |-> 0]

Init ==
  /\ pc = "down"
  /\ handles = [h \in Handles |-> Closed]
  /\ blocks = {}
  /\ child = FALSE
  /\ req = NoRequest
  /\ net = <<>>
  /\ got = [h \in Handles |-> [from |-> 0, data |-> <<>>]]
  /\ last = NoAnswer
  /\ address \in Addresses
  /\ faults = {}
  /\ calls = 0
  /\ failures = 0

\* The loader is followed up to its first fault.
Called == calls < MaxCalls /\ faults = {} /\ calls' = calls + 1
Fails == failures < MaxFailures /\ failures' = failures + 1
Holds == UNCHANGED failures
Idle == pc = "idle" /\ UNCHANGED <<child, req, net, address>>

-----------------------------------------------------------------------------
\* Handles.

Wrapper(url, parent) == [url |-> url, parent |-> parent, pos |-> 0]

\* The blocks of a wrapper are taken one after the other, and each failure
\* gives back those taken before it.
Allocated(h, wrapper) ==
  /\ h = FreeHandle
  /\ handles' = [handles EXCEPT ![h] = wrapper]
  /\ blocks' = blocks \cup HandleBlocks(h)
  /\ got' = [got EXCEPT ![h] = [from |-> 0, data |-> <<>>]]

\* An adapter that cannot be initialised is passed over.  Of the others the
\* last is taken; which one it is makes no difference here.
TryInitProtocol(adapter) == adapter \in Adapters
FindNetworkProtocol(usable) == usable # {} /\ \A a \in usable : TryInitProtocol(a)

\* A root whose context cannot be allocated leaves its name and its URL behind.
FsWrapperNetworkPopulateRoot(h) ==
  \/ Allocated(h, Wrapper(<<>>, NoHandle)) /\ pc' = "idle" /\ Holds /\ UNCHANGED faults
  \/ /\ Fails
     /\ blocks' = blocks \cup ({h} \X {"url", "filename"})
     /\ faults' = faults \cup {"RootLeaks"}
     /\ UNCHANGED <<pc, handles, got>>

FsWrapperOpenNetworkRoot ==
  /\ pc = "down"
  /\ \/ \E h \in Handles, usable \in SUBSET Adapters :
          FindNetworkProtocol(usable) /\ FsWrapperNetworkPopulateRoot(h)
     \/ Fails /\ UNCHANGED <<pc, handles, got, blocks, faults>>
  /\ UNCHANGED <<child, req, net, last, address, calls>>

FsWrapperNetworkPopulateChild(h, parent, name) ==
  Allocated(h, Wrapper(Append(handles[parent].url, name), parent))

\* ".." opens "." in the parent; "." opens the handle's own name in its
\* parent, and a root, which has none, is copied.
Opened(self, name, h) ==
  LET parent == handles[self].parent
      Again(of) == IF handles[of].parent = NoHandle
                   THEN Allocated(h, handles[of])
                   ELSE /\ handles[of].parent # Dangling
                        /\ FsWrapperNetworkPopulateChild(
                             h, handles[of].parent, handles[of].url[Len(handles[of].url)])
  IN  CASE name = ".." -> parent # NoHandle /\ parent # Dangling /\ Again(parent)
        [] name = "."  -> Again(self)
        [] OTHER       -> FsWrapperNetworkPopulateChild(h, self, name)

FsWrapperNetworkOpen ==
  /\ Idle
  /\ Called
  /\ \E self \in Open, name \in Names \cup {"..", "."} :
       \/ \E h \in Handles : Opened(self, name, h) /\ Holds /\ UNCHANGED faults
       \/ Fails /\ UNCHANGED <<handles, blocks, got, faults>>
       \/ /\ name \in {"..", "."} /\ handles[self].parent = Dangling
          /\ faults' = faults \cup {"ParentGone"}
          /\ Holds /\ UNCHANGED <<handles, blocks, got>>
  /\ UNCHANGED <<pc, last>>

\* A child keeps the pointer to a parent that is closed before it.
FsWrapperNetworkClose ==
  /\ Idle
  /\ \E h \in Open :
       /\ handles' = [k \in Handles |->
            IF k = h THEN Closed
            ELSE IF k \in Open /\ handles[k].parent = h
            THEN [handles[k] EXCEPT !.parent = Dangling] ELSE handles[k]]
       /\ blocks' = blocks \ HandleBlocks(h)
       /\ last' = IF last.h = h THEN NoAnswer ELSE last
       /\ got' = [got EXCEPT ![h] = [from |-> 0, data |-> <<>>]]
  /\ UNCHANGED <<pc, faults, calls, failures>>

FsWrapperNetworkSetPosition ==
  /\ Idle
  /\ \E h \in Open, p \in Positions :
       /\ IsChild(h)
       /\ handles' = [handles EXCEPT ![h].pos = p]
       /\ got' = [got EXCEPT ![h] = [from |-> p, data |-> <<>>]]
  /\ last' = NoAnswer
  /\ UNCHANGED <<pc, blocks, faults, calls, failures>>

-----------------------------------------------------------------------------
\* A request.

\* The end of a call: the TCP child and the request buffer are given back.
TcpClose == child' = FALSE
Returns == pc' = "idle" /\ req' = NoRequest /\ net' = <<>>

\* Mutant: a failing call forgets the TCP child.
FailedCallKeepsChild == /\ Returns /\ blocks' = blocks \ {RequestBuffer}
                        /\ UNCHANGED <<child, handles, got, last>>
FailedCall == /\ Returns /\ TcpClose /\ blocks' = blocks \ {RequestBuffer}
              /\ UNCHANGED <<handles, got, last>>

\* The address is looked at after the buffer is allocated: a port is refused
\* with the buffer still in use.
DoRequest(h, size, offset, info) ==
  \/ /\ address = "plain"
     /\ pc' = "create"
     /\ req' = [NoRequest EXCEPT !.h = h, !.size = size, !.offset = offset, !.info = info,
                                 !.retries = MaxDhcpRetries]
     /\ blocks' = blocks \cup {RequestBuffer}
     /\ Holds /\ UNCHANGED faults
  \/ /\ address = "port"
     /\ blocks' = blocks \cup {RequestBuffer}
     /\ faults' = faults \cup {"PortLeaks"}
     /\ Holds /\ UNCHANGED <<pc, req>>
  \/ Fails /\ UNCHANGED <<pc, req, blocks, faults>>

FsWrapperNetworkRead ==
  /\ pc = "idle" /\ Called
  /\ \E h \in Open, n \in Sizes : IsChild(h) /\ DoRequest(h, n, handles[h].pos, FALSE)
  /\ UNCHANGED <<handles, child, net, got, last, address>>

FsWrapperNetworkGetInfo ==
  /\ pc = "idle" /\ Called
  /\ \E h \in Open : IsChild(h) /\ DoRequest(h, 0, 0, TRUE)
  /\ UNCHANGED <<handles, child, net, got, last, address>>

InRequest(p) == pc = p /\ UNCHANGED <<address, calls>>
Proceeds(p) == pc' = p /\ UNCHANGED <<handles, got, last>>

\* TcpConnect: a child, configured again while there is no address yet.
CreateChild ==
  /\ InRequest("create")
  /\ \/ Proceeds("configure") /\ child' = TRUE /\ Holds /\ UNCHANGED <<req, net, blocks>>
     \/ Fails /\ FailedCall
  /\ UNCHANGED faults

Configure ==
  /\ InRequest("configure")
  /\ \/ Proceeds("connect") /\ Holds /\ UNCHANGED <<req, net, blocks, child>>
     \/ Fails /\ FailedCall
  /\ UNCHANGED faults

\* Mutant: the attempts are not counted.
NoMappingForever ==
  InRequest("configure") /\ Proceeds("configure") /\ Holds
  /\ req' = [req EXCEPT !.retries = IF @ = 0 THEN MaxDhcpRetries ELSE @ - 1]
  /\ UNCHANGED <<net, blocks, child, faults>>

\* EFI_NO_MAPPING: DHCP has not finished.
NoMapping ==
  /\ InRequest("configure")
  /\ IF req.retries = 0
     THEN FailedCall
     ELSE /\ req' = [req EXCEPT !.retries = @ - 1]
          /\ Proceeds("configure")
          /\ UNCHANGED <<net, blocks, child>>
  /\ Holds /\ UNCHANGED faults

TcpConnectHelper ==
  /\ InRequest("connect")
  /\ \/ /\ Proceeds("send")
        /\ req' = [req EXCEPT !.left = RequestSize]
        /\ Holds /\ UNCHANGED <<net, blocks, child>>
     \/ Fails /\ FailedCall
  /\ UNCHANGED faults

\* What the server may answer to a GET.
Bytes(data) == [i \in 1..Len(data) |-> <<"byte", data[i]>>]
Responses(url) ==
  IF url \in DOMAIN Content
  THEN {<<<<"status", 200>>>> \o headers \o <<<<"blank", 0>>>> \o Bytes(Content[url]) :
          headers \in {<<<<"other", 0>>, <<"length", Len(Content[url])>>>>, <<<<"other", 0>>>>}}
  ELSE {<<<<"status", 404>>, <<"length", 1>>, <<"blank", 0>>, <<"byte", 0>>>>}

\* How much of what is left one transmission, or one reception, takes.
TcpSendPartial(left) == 1..left
TcpReceivePartial(left) == 1..Lower(left, Len(net))

\* The request leaves in pieces; its buffer is freed after the last of them.
TcpSend ==
  /\ InRequest("send")
  /\ \/ /\ \E n \in TcpSendPartial(req.left) :
             /\ req' = [req EXCEPT !.left = @ - n]
             /\ IF n < req.left
                THEN Proceeds("send") /\ UNCHANGED <<net, blocks>>
                ELSE /\ Proceeds("status")
                     /\ blocks' = blocks \ {RequestBuffer}
                     /\ net' \in Responses(handles[req.h].url)
        /\ Holds /\ UNCHANGED child
     \/ Fails /\ FailedCall
  /\ UNCHANGED faults

\* GetHttpLine collects a line in a buffer that grows.  Growing may fail, and
\* then both EnsureSpaceForCharacter and its caller free the buffer.
GetHttpLineFails ==
  \/ net = <<>> /\ FailedCall /\ Holds /\ UNCHANGED faults
  \/ Fails /\ FailedCall /\ UNCHANGED faults
  \/ /\ Fails /\ FailedCall
     /\ net # <<>> /\ Head(net)[1] # "blank"
     /\ faults' = faults \cup {"LineFreedTwice"}
OnHttpLine(Then(_)) ==
  \/ net # <<>> /\ Then(Head(net)) /\ Holds
  \/ GetHttpLineFails

\* The status is not looked at.
StatusLine ==
  /\ InRequest("status")
  /\ OnHttpLine(LAMBDA line :
       /\ Proceeds("headers")
       /\ net' = Tail(net)
       /\ faults' = faults \cup (IF line[2] = 404 THEN {"StatusIgnored"} ELSE {})
       /\ UNCHANGED <<req, blocks, child>>)

\* A response that ends: the position moves by what was stored.
Answered(n) ==
  /\ last' = [h |-> req.h, info |-> req.info, asked |-> req.size,
              pos |-> handles[req.h].pos + (IF req.info THEN 0 ELSE n), gave |-> n]
  /\ Returns /\ TcpClose
Stored(data) ==
  /\ Answered(Len(data))
  /\ handles' = [handles EXCEPT ![req.h].pos = @ + Len(data)]
  /\ got' = [got EXCEPT ![req.h].data = @ \o data]

\* The size of the chunk that starts at a position of the body.
CurSize(total, at) == Lower(ChunkSize, total - at)

\* A digit of "Content-Length" is added to those before it.
ContentLength(total, digit) == 10 * total + digit

\* The chunks are as many as it takes to hold the whole body.
AllReceived(total, at) == at = total
Headers ==
  /\ InRequest("headers")
  /\ OnHttpLine(LAMBDA line :
       CASE line[1] = "length" ->
              /\ Proceeds("headers")
              /\ req' = [req EXCEPT !.total = ContentLength(@, line[2])]
              /\ net' = Tail(net)
              /\ UNCHANGED <<faults, blocks, child>>
         [] line[1] = "other" ->
              Proceeds("headers") /\ net' = Tail(net) /\ UNCHANGED <<req, faults, blocks, child>>
         [] OTHER ->
              /\ faults' = faults \cup
                   (IF req.total < Len(net) - 1 THEN {"LengthMissing"} ELSE {})
              /\ UNCHANGED blocks
              /\ IF req.info THEN Answered(req.total) /\ UNCHANGED <<handles, got>>
                 ELSE IF AllReceived(req.total, 0) THEN Stored(<<>>)
                 ELSE /\ Proceeds("body")
                      /\ req' = [req EXCEPT !.left = CurSize(req.total, 0)]
                      /\ net' = Tail(net)
                      /\ UNCHANGED child)

\* Mutant of Wanted: the offset is skipped in every chunk.
WantedInEveryChunk(chunk, at, offset) ==
  SubSeq(chunk, Lower(offset, Len(chunk)) + 1, Len(chunk))
\* What the caller's buffer takes of a chunk: the bytes from the offset on, as
\* long as there is room.
Wanted(chunk, at, offset) ==
  SubSeq(chunk, (IF offset > at THEN Lower(offset - at, Len(chunk)) ELSE 0) + 1, Len(chunk))
Buffered(chunk) ==
  LET wanted == Wanted(chunk, req.at, req.offset)
  IN  req.buf \o SubSeq(wanted, 1, Lower(Len(wanted), req.size - Len(req.buf)))
\* A byte that finds no room ends the transfer.
BufferFull(chunk) == Len(Wanted(chunk, req.at, req.offset)) > req.size - Len(req.buf)

\* TcpReceive collects a chunk in pieces of any length, then its bytes are taken.
Body ==
  /\ InRequest("body")
  /\ \/ /\ \E n \in TcpReceivePartial(req.left) :
             \E chunk \in {req.chunk \o [i \in 1..n |-> net[i][2]]} :
               IF n < req.left
               THEN /\ Proceeds("body")
                    /\ req' = [req EXCEPT !.left = @ - n, !.chunk = chunk]
                    /\ net' = SubSeq(net, n + 1, Len(net))
                    /\ UNCHANGED child
               ELSE IF AllReceived(req.total, req.at + Len(chunk)) \/ BufferFull(chunk)
               THEN Stored(Buffered(chunk))
               ELSE /\ Proceeds("body")
                    /\ req' = [req EXCEPT !.at = @ + Len(chunk), !.chunk = <<>>,
                                          !.buf = Buffered(chunk),
                                          !.left = CurSize(req.total, req.at + Len(chunk))]
                    /\ net' = SubSeq(net, n + 1, Len(net))
                    /\ UNCHANGED child
        /\ Holds /\ UNCHANGED blocks
     \/ net = <<>> /\ FailedCall /\ Holds
     \/ Fails /\ FailedCall
  /\ UNCHANGED faults

-----------------------------------------------------------------------------
Request == \/ CreateChild \/ Configure \/ NoMapping \/ TcpConnectHelper
           \/ TcpSend \/ StatusLine \/ Headers \/ Body

Next == \/ FsWrapperOpenNetworkRoot \/ FsWrapperNetworkOpen \/ FsWrapperNetworkClose
        \/ FsWrapperNetworkSetPosition \/ FsWrapperNetworkRead \/ FsWrapperNetworkGetInfo
        \/ Request

\* A request that runs goes on: the loader polls, and TCP either delivers what
\* the server sent or reports that the connection is gone.
Spec == Init /\ [][Next]_vars /\ WF_vars(Request)

-----------------------------------------------------------------------------
TypeOK ==
  /\ pc \in {"down", "idle", "create", "configure", "connect", "send", "status", "headers", "body"}
  /\ handles \in [Handles -> Wrappers \cup {Closed}]
  /\ child \in BOOLEAN
  /\ req.h \in Handles \cup {NoHandle} /\ req.retries \in 0..MaxDhcpRetries
  /\ req.left \in Nat /\ req.at \in 0..req.total
  /\ faults \subseteq {"RootLeaks", "PortLeaks", "ParentGone", "StatusIgnored",
                        "LengthMissing", "LineFreedTwice"}

File(h) == Content[handles[h].url]
OnServer(h) == handles[h].url \in DOMAIN Content

\* What a handle read since it was opened or set to a position is the file
\* from there on, without a gap and without a repetition, whatever pieces the
\* bytes came in and however many requests failed in between: a failed Read
\* does not move FilePosition (fswrappernetwork.c:406) and the offset is
\* skipped in a response that always starts at the first byte.
ReadsAreContiguous ==
  faults = {} =>
    \A h \in Open : OnServer(h) =>
      /\ got[h].data = SubSeq(File(h), got[h].from + 1, got[h].from + Len(got[h].data))
      /\ handles[h].pos = got[h].from + Len(got[h].data)

\* A Read that gives less than it was asked for has reached the end of the
\* file, which is how LoadImage and the preloading tell that they have it all.
ShortOnlyAtTheEnd ==
  faults = {} /\ last.h \in Open /\ ~last.info /\ OnServer(last.h) /\ last.gave < last.asked
    => last.pos >= Len(File(last.h))

\* GetInfo answers with the length of the file that Read then returns.
SizeIsTheFiles ==
  faults = {} /\ last.h \in Open /\ last.info /\ OnServer(last.h)
    => last.gave = Len(File(last.h))

\* What a caller gets of a file, by however many calls, is the file: the parts
\* above.
ReadsAreWhole ==
  /\ ReadsAreContiguous
  /\ ShortOnlyAtTheEnd
  /\ SizeIsTheFiles

\* Between two calls no TCP child exists: each of the failures on the way
\* through a request destroys the child it created, and a new request, which
\* creates another, finds none.
ConnectionsClosed == pc \in {"down", "idle", "create"} => ~child

\* Between two calls the pool blocks in use are those of the open handles:
\* every failure gives back what its call took before.
BlocksAccounted ==
  faults = {} /\ pc \in {"down", "idle"} => blocks = UNION {HandleBlocks(h) : h \in Open}

\* A call leaves no more behind than the open handles need, whichever of its
\* steps failed: the parts above.
NothingLeftBehind ==
  /\ TypeOK
  /\ ConnectionsClosed
  /\ BlocksAccounted

\* A request comes to an end, also when DHCP never gives an address: the
\* attempts to configure the connection are counted down.
RequestEnds == pc \notin {"down", "idle"} ~> pc = "idle"

=============================================================================
