------------------------------- MODULE Memory -------------------------------
(***************************************************************************)
(* Physical and virtual memory: the page frame lists                       *)
(* (physical_allocator.c), the page tables and their allocations           *)
(* (paging.c), from the stub to the running kernel (loadstub.c, main.cpp), *)
(* kernel stacks (scheduler.c), and the loader's views of an image with    *)
(* their page faults (mmobj.c, ldr.c, PageFaultHandler of pagefile.c).     *)
(*                                                                         *)
(* A virtual page is a number; the user's pages come first.  A page table  *)
(* is <<space, level, index>>, all levels are treated alike, and the       *)
(* kernel's tables belong to all processes.  A page table entry that is    *)
(* zero is not in the domain of pte.  The page file is never opened        *)
(* (main.cpp:183) and has no part here.                                    *)
(*                                                                         *)
(* A frame, an address or a page that cannot be had stops the system: in   *)
(* the code some callers stop, the others go on with garbage.              *)
(***************************************************************************)
EXTENDS Integers, SequencesExt

CONSTANTS
  CoreList,       \* the cores, the one that boots first
  NumberOfPfnEntries,
  BootFrames,     \* frames whose entries the boot loader marked
  ModulePages,    \* pages of the modules, mapped by the stub
  PoolPages,      \* pages of the pools (128 and 64 in the code)
  Spans,          \* pages under an entry of each level: 2^27, 2^18, 2^9 in the code
  UserEnd, KernelStart, KernelEnd,
  StackPages,     \* pages of a thread's stacks: <<4, 1>> in the code
  InitialView,    \* where the whole file is mapped first: 0x4321 in the code
  ImageBase,
  FilePages,
  ImageSections,  \* header and sections: first page, pages, first page in the file, write
  MaxThreads,     \* bound: threads of the image beside its first
  RxPages,        \* pages of the network card's buffer, 3 in the code
  MaxAccesses     \* bound: accesses by user threads

None == -1
Junk == -1
Written == -2
Frames == 0..NumberOfPfnEntries - 1
FrameTable == [i \in 1..NumberOfPfnEntries |-> i - 1]
Cores == ToSet(CoreList)
First == Head(CoreList)
\* Address spaces: the kernel's part of all, those of the idle processes and of the
\* processes that the cores start, and one that a program creates.
Kernel == <<"kernel", First>>
IdleProcess(c) == <<"idle", c>>
Image(c) == <<"image", c>>
Created == <<"created", First>>
Processes == {IdleProcess(c) : c \in Cores} \cup {Image(c) : c \in Cores} \cup {Created}
Free == "free"

ASSUME MemoryAssumption ==
  /\ CoreList \in Seq(Cores) /\ CoreList # <<>> /\ IsInjective(CoreList) /\ Free \notin Cores
  /\ NumberOfPfnEntries \in Nat /\ BootFrames \subseteq Frames
  /\ ModulePages \in 0..Cardinality(BootFrames)
  /\ PoolPages \in Nat /\ FilePages \in Nat /\ RxPages \in Nat \ {0}
  /\ Spans \in Seq(Nat \ {0})
  /\ UserEnd \in Nat /\ KernelStart \in Nat /\ KernelEnd \in Nat
  /\ UserEnd < KernelStart /\ KernelStart < KernelEnd
  /\ StackPages \in Seq(Nat) /\ InitialView \in Nat /\ ImageBase \in Nat
  /\ ImageSections \in Seq([first : Nat, pages : Nat \ {0}, offset : Nat, write : BOOLEAN])
  /\ MaxThreads \in Nat

VARIABLES
  phase,     \* "loaded", "init", "stub", "entry", "pools" or "running"
  free,      \* FreeList, from its head
  flags,     \* page frame entries: Flags
  tables,    \* page tables: their frames
  pte,       \* entries of the lowest page tables
  contents,  \* what is in a frame: a page of the file, Written or Junk
  mappings,  \* the image section's Mappings
  views,     \* the views of a process
  stacks,    \* finished kernel stacks: guard page and pages
  threads,   \* user threads of a process
  core,      \* what a core still has to do, and where it is
  locks,     \* who has DispatcherLock, PagingSpinlock, and the locks of a space and
             \* the section
  initialised, \* PspCoresInitialized
  together,  \* bound: either the cores start together, and the loader does not run,
             \* or one after the other
  accesses,  \* the number of accesses by user threads
  written,   \* pages that were written
  raced,     \* pages used while another core faulted on them
  stopped    \* "no" or why the system stopped

vars == <<phase, free, flags, tables, pte, contents, mappings, views, stacks,
          threads, core, locks, initialised, together, accesses, written, raced, stopped>>
frameVars == <<free, flags>>
sectionVars == <<contents, mappings, views>>
history == <<initialised, together, accesses, written, raced>>

Nothing == [todo |-> <<>>, pc |-> "start", at |-> None, reg |-> <<>>]

Init ==
  /\ phase = "loaded"
  /\ flags = [f \in Frames |-> IF f \in BootFrames THEN 1 ELSE 0]
  /\ free = <<>>
  /\ tables = <<>>
  /\ pte = <<>>
  /\ contents = [f \in Frames |-> Junk]
  /\ mappings = [i \in 1..FilePages |-> None]
  /\ views = [p \in Processes |-> <<>>]
  /\ stacks = {}
  /\ threads = [p \in Processes |-> 0]
  /\ core = [c \in Cores |-> Nothing]
  /\ locks = [dispatcher |-> Free, paging |-> Free, space |-> [p \in Processes |-> Free], section |-> Free]
  /\ initialised = 0
  /\ together \in BOOLEAN
  /\ accesses = 0
  /\ written = {}
  /\ raced = {}
  /\ stopped = "no"

-----------------------------------------------------------------------------
\* Page frames.

\* The elements of a list that are in a set, in their order.
Among(list, set) ==
  LET kept[n \in 0..Len(list)] ==
        IF n = 0 THEN <<>>
        ELSE IF list[n] \in set THEN Append(kept[n - 1], list[n]) ELSE kept[n - 1]
  IN  kept[Len(list)]

\* Frames whose entry has a flag are permanent, the others free, in their order.
Reinitialised(old) ==
  [f \in Frames |-> IF old[f] # 0 THEN 3 ELSE 0]
FreeOf(new) == Among(FrameTable, {f \in Frames : new[f] = 0})
MmReinitPhysAllocator(old) ==
  flags' = Reinitialised(old) /\ free' = FreeOf(Reinitialised(old))

\* Frames that are not in FreeList keep out of the page file, and of the next
\* MmReinitPhysAllocator.
\* Mutant: no frame is flagged.
FlagsNothing(list) == [f \in Frames |-> 0]
MiFlagPfnsForRemap(list) == [f \in Frames |-> IF f \in ToSet(list) THEN 0 ELSE 1]

\* n frames, one after the other.
MmAllocatePfn(n) ==
  /\ free' = SubSeq(free, n + 1, Len(free))
  /\ flags' = [f \in Frames |-> IF f \in ToSet(SubSeq(free, 1, n)) THEN 0 ELSE flags[f]]

\* A permanent or a free frame is refused.
Freed(fs) == Among(fs, {f \in Frames \ ToSet(free) : flags[f] \notin {2, 3}})
MmFreePfn(fs) == free' = free \o Freed(fs) /\ UNCHANGED flags

\* The first frames in a row, as the list has them.
Regions(n) ==
  {i \in 1..Len(free) - n + 1 : \A j \in 1..n-1 : free[i + j] = free[i] + j}
MmAllocatePfnRegion(n, i) ==
  /\ free' = SubSeq(free, 1, i - 1) \o SubSeq(free, i + n, Len(free))
  /\ flags' = [f \in Frames |-> IF f \in free[i]..free[i] + n - 1 THEN 4 ELSE flags[f]]

-----------------------------------------------------------------------------
\* Page tables.

Space(p, page) == IF page >= KernelStart THEN Kernel ELSE p
PageRun(first, n) == [i \in 1..n |-> first + i - 1]
Entry(space, page) == [l \in DOMAIN Spans |-> <<space, l, page \div Spans[l]>>]

\* The frames that mapping pages takes, in order: one for a page that gets a new
\* frame, and one for each table that is not there (PagingMapPage).
Needs(space, pages, fresh) ==
  LET got[n \in 0..Len(pages)] ==
        IF n = 0 THEN <<>>
        ELSE LET before == got[n - 1]
                 entry == Entry(space, pages[n])
             IN  before \o (IF fresh THEN <<<<space, 0, pages[n]>>>> ELSE <<>>)
                   \o Among(entry, ToSet(entry) \ (DOMAIN tables \cup ToSet(before)))
  IN  got[Len(pages)]
IsTable(need) == need[2] # 0
NewTables(needs) ==
  LET new == {i \in DOMAIN needs : IsTable(needs[i])}
  IN  [e \in DOMAIN tables \cup {needs[i] : i \in new} |->
         IF e \in DOMAIN tables THEN tables[e]
         ELSE free[CHOOSE i \in new : needs[i] = e]]
FrameFor(needs, space, page) ==
  free[CHOOSE i \in DOMAIN needs : needs[i] = <<space, 0, page>>]

Present(frame, write) == [frame |-> frame, present |-> TRUE, write |-> write]
GuardEntry == [frame |-> None, present |-> FALSE, write |-> TRUE]
With(old, new) == [e \in DOMAIN old \cup DOMAIN new |-> IF e \in DOMAIN new THEN new[e] ELSE old[e]]
Without(old, gone) == [e \in DOMAIN old \ gone |-> old[e]]

TopTable(p) == <<p, -1, 0>>

\* Page table entries, and the frames they need.
PagingMapPage(needs, entries) ==
  /\ Len(needs) <= Len(free)
  /\ MmAllocatePfn(Len(needs))
  /\ tables' = NewTables(needs)
  /\ pte' = With(pte, entries)

\* The last page of a range is never given.
FreePlaces(p, first, end, n) ==
  {v \in first..end - 1 : /\ v + n < end
                          /\ \A i \in 0..n-1 : <<Space(p, v + i), v + i>> \notin DOMAIN pte}
PagingFindFreePages(p, first, end, n) ==
  IF FreePlaces(p, first, end, n) = {} THEN None
  ELSE CHOOSE v \in FreePlaces(p, first, end, n) :
         \A w \in FreePlaces(p, first, end, n) : v <= w

-----------------------------------------------------------------------------
\* From the loader to the running kernel, on one core.

KeLoadStub ==
  /\ phase = "loaded"
  /\ MmReinitPhysAllocator(flags)
  /\ phase' = "init"
  /\ UNCHANGED <<tables, pte, sectionVars, stacks, threads, core, locks, history, stopped>>

\* Tables of its own, with the modules where the kernel wants them.  The identity
\* mappings, which end with the boot, are left out.
PagingInit ==
  /\ phase = "init"
  /\ \E needs \in {<<TopTable(Kernel)>> \o Needs(Kernel, PageRun(KernelStart, ModulePages), FALSE)} :
       /\ Len(needs) <= Len(free)
       /\ tables' = NewTables(needs)
       /\ pte' = [e \in {<<Kernel, KernelStart + i - 1>> : i \in 1..ModulePages} |->
                    Present(Among(FrameTable, BootFrames)[e[2] - KernelStart + 1], TRUE)]
       /\ MmReinitPhysAllocator(MiFlagPfnsForRemap(SubSeq(free, Len(needs) + 1, Len(free))))
  /\ phase' = "stub"
  /\ UNCHANGED <<sectionVars, stacks, threads, core, locks, history, stopped>>

FreshBlock(p, at, n) ==
  \E needs \in {Needs(Space(p, at), PageRun(at, n), TRUE)} :
    PagingMapPage(needs, [e \in {<<Space(p, at), at + i>> : i \in 0..n-1} |->
                            Present(FrameFor(needs, e[1], e[2]), TRUE)])
Exhausts(p, pages, fresh) ==
  Len(Needs(Space(p, Head(pages)), pages, fresh)) > Len(free)

\* The last allocation of the stub, the head of the list of preloaded files, and
\* the flags that let it and the tables stay when the kernel starts over.
HandlePreloadedFiles ==
  /\ phase = "stub"
  /\ FreshBlock(Kernel, PagingFindFreePages(Kernel, KernelStart, KernelEnd, 1), 1)
  /\ phase' = "flag"
  /\ UNCHANGED <<sectionVars, stacks, threads, core, locks, history, stopped>>
FlagPfns ==
  /\ phase = "flag"
  /\ flags' = MiFlagPfnsForRemap(free)
  /\ phase' = "entry"
  /\ UNCHANGED <<free, tables, pte, sectionVars, stacks, threads, core, locks, history, stopped>>

KeEntry ==
  /\ phase = "entry"
  /\ MmReinitPhysAllocator(flags)
  /\ phase' = "pools"
  /\ UNCHANGED <<tables, pte, sectionVars, stacks, threads, core, locks, history, stopped>>

ExInitializePool ==
  /\ phase = "pools"
  /\ FreshBlock(Kernel, PagingFindFreePages(Kernel, KernelStart, KernelEnd, PoolPages), PoolPages)
  /\ phase' = "devices"
  /\ UNCHANGED <<sectionVars, stacks, threads, core, locks, history, stopped>>

-----------------------------------------------------------------------------
\* Calls.  A core does its commands one after the other.

Command(do, p, n) == [do |-> do, p |-> p, n |-> n]
Locked(p, commands) == <<Command("lock", p, 0)>> \o commands \o <<Command("unlock", p, 0)>>
ThreadStacks(p) == [i \in DOMAIN StackPages |-> Command("stack", p, StackPages[i])]
UserThread(p) == Locked(p, ThreadStacks(p) \o <<Command("thread", p, 0)>>)
NtCreateProcess(p) == Locked(p, <<Command("space", p, 0)>>)

\* The idle thread of a core is made without the lock.
PspInitializeCore(c) ==
  <<Command("space", IdleProcess(c), 0)>> \o ThreadStacks(IdleProcess(c))
    \o <<Command("lock", IdleProcess(c), 0), Command("stack", IdleProcess(c), 1),
         Command("count", IdleProcess(c), 0), Command("check", IdleProcess(c), 0)>>
ApProcessorInit(c) == <<Command("block", IdleProcess(c), 1)>> \o PspInitializeCore(c)
\* Each of the other cores gets a stack and is woken.
Woken(i) == IdleProcess(CoreList[i + 1])
MpInitialize ==
  [i \in 1..2 * (Len(CoreList) - 1) |->
     IF i % 2 = 1 THEN Command("block", Woken((i + 1) \div 2), 1)
     ELSE Command("wake", Woken((i + 1) \div 2), 0)]
    \o PspInitializeCore(First)

\* A process from the image; in the model its loader thread runs on the same core.
NnxStartUserProcess(p) == NtCreateProcess(p) \o Locked(p, ThreadStacks(p))
NnxDummyLdrThread(p) ==
  <<Command("view", p, 0), Command("read", p, InitialView), Command("delete", p, 0)>>
    \o [i \in DOMAIN ImageSections |-> Command("view", p, i)]
    \o UserThread(p)

\* The network card, if there is one, gets its buffer.
RT8139Init ==
  /\ phase = "devices"
  /\ \/ UNCHANGED frameVars
     \/ \E i \in Regions(RxPages) :
          /\ \A j \in Regions(RxPages) : i <= j
          /\ MmAllocatePfnRegion(RxPages, i)
  /\ phase' = "running"
  /\ core' = [core EXCEPT ![First].todo = MpInitialize]
  /\ UNCHANGED <<tables, pte, sectionVars, stacks, threads, locks, history, stopped>>

Running == phase = "running" /\ stopped = "no"
Idle(c) == Running /\ core[c].todo = <<>>
Does(c, todo) == core' = [core EXCEPT ![c].todo = todo]
At(c, does, pc) ==
  Running /\ core[c].todo # <<>> /\ Head(core[c].todo).do \in does /\ core[c].pc = pc
Doing(c) == Head(core[c].todo)
Goes(c, pc) == core' = [core EXCEPT ![c].pc = pc]
Finishes(c) == core' = [core EXCEPT ![c] = [Nothing EXCEPT !.todo = Tail(core[c].todo)]]
Stop(why) ==
  /\ stopped' = why
  /\ UNCHANGED <<phase, frameVars, tables, pte, sectionVars, stacks, threads, core, locks, history>>

CallsIn(p) == {o \in Cores : core[o].todo # <<>> /\ Doing(o).p = p}
Creating(p) == {o \in CallsIn(p) : Doing(o) \in ToSet(UserThread(p))}

\* A thread of the image's process that is not in a call.
Spare(p) == Cardinality(CallsIn(p)) < threads[p]

\* The threads of an image create threads, create a process with nothing in it,
\* and use the image.
Start(c) ==
  /\ Idle(c)
  /\ \E p \in {Image(o) : o \in Cores} :
     /\ Spare(p)
     /\ \/ /\ threads[p] + Cardinality(Creating(p)) <= MaxThreads
           /\ Does(c, UserThread(p))
           /\ UNCHANGED accesses
        \/ /\ TopTable(Created) \notin DOMAIN tables /\ CallsIn(Created) = {}
           /\ Does(c, NtCreateProcess(Created))
           /\ UNCHANGED accesses
        \/ /\ accesses < MaxAccesses
           /\ \E i \in DOMAIN ImageSections, write \in BOOLEAN :
                /\ write => ImageSections[i].write
                /\ Does(c, <<Command(IF write THEN "write" ELSE "read", p,
                                     ImageBase + ImageSections[i].first)>>)
           /\ accesses' = accesses + 1
  /\ UNCHANGED <<phase, frameVars, tables, pte, sectionVars, stacks, threads, locks,
                 initialised, together, written, raced, stopped>>

\* A core that is woken.
ApStartup(c) ==
  /\ At(c, {"wake"}, "start")
  /\ \E o \in {Doing(c).p[2]} :
       core' = [core EXCEPT ![o].todo = ApProcessorInit(o), ![c].todo = Tail(@)]
  /\ UNCHANGED <<phase, frameVars, tables, pte, sectionVars, stacks, threads, locks,
                 history, stopped>>

Lock(name, c) == locks' = [locks EXCEPT ![name] = c]
KiAcquireDispatcherLock(c) ==
  /\ At(c, {"lock"}, "start")
  /\ locks.dispatcher = Free
  /\ Lock("dispatcher", c)
  /\ Finishes(c)
  /\ UNCHANGED <<phase, frameVars, tables, pte, sectionVars, stacks, threads, history, stopped>>
KiReleaseDispatcherLock(c) ==
  /\ At(c, {"unlock"}, "start")
  /\ Lock("dispatcher", Free)
  /\ Finishes(c)
  /\ UNCHANGED <<phase, frameVars, tables, pte, sectionVars, stacks, threads, history, stopped>>

\* The end of PspInitializeCore: the count is read after the lock is released, and
\* whoever finds all cores there starts the image.
CountCore(c) ==
  /\ At(c, {"count"}, "start")
  /\ initialised' = initialised + 1
  /\ Lock("dispatcher", Free)
  /\ Finishes(c)
  /\ UNCHANGED <<phase, frameVars, tables, pte, sectionVars, stacks, threads, together,
                 accesses, written, raced, stopped>>
\* Mutant: the core does not count itself.
StartsAfterOthers(c) == initialised = Len(CoreList) - 1
StartsImage(c) == initialised = Len(CoreList)
CheckCores(c) ==
  /\ At(c, {"check"}, "start")
  /\ Does(c, IF ~StartsImage(c) THEN <<>>
             ELSE NnxStartUserProcess(Image(c))
                    \o IF together THEN <<>> ELSE NnxDummyLdrThread(Image(c)))
  /\ UNCHANGED <<phase, frameVars, tables, pte, sectionVars, stacks, threads, locks,
                 history, stopped>>

\* A process gets its top table, and a new thread the page of its stack, before
\* a place for it is looked for.
GetFrame(c) ==
  /\ At(c, {"space", "thread"}, "start")
  /\ c = First /\ ~together => \A o \in Cores \ {c} : core[o].todo = <<>> \/ initialised = Len(CoreList)
  /\ \/ /\ free # <<>>
        /\ MmAllocatePfn(1)
        /\ core' = [core EXCEPT ![c].pc = "find", ![c].reg = <<Head(free)>>]
        /\ UNCHANGED <<phase, tables, pte, sectionVars, stacks, threads, locks, history, stopped>>
     \/ free = <<>> /\ Stop("frames")

PagesOf(cmd) == IF cmd.do = "stack" THEN cmd.n + 2 ELSE 1
\* Mutant: the search is done before the lock is taken.
FindWithoutLock(c) == UNCHANGED locks
FindLocked(c) == locks.paging = Free /\ Lock("paging", c)

FindPages(c) ==
  /\ At(c, {"stack", "block"}, "start") \/ At(c, {"space", "thread"}, "find")
  /\ FindLocked(c)
  /\ \E at \in {IF Doing(c).do = "thread" THEN PagingFindFreePages(Doing(c).p, 0, UserEnd, 1)
                ELSE PagingFindFreePages(Kernel, KernelStart, KernelEnd, PagesOf(Doing(c)))} :
       core' = [core EXCEPT ![c].pc = "map", ![c].at = at]
  /\ UNCHANGED <<phase, frameVars, tables, pte, sectionVars, stacks, threads, history, stopped>>

\* The page of a thread's stack, or the kernel's view of a process's top table.
PagingAllocatePageWithPhysicalAddress(c) ==
  /\ At(c, {"space", "thread"}, "map")
  /\ \E p \in {Doing(c).p}, at \in {core[c].at}, frame \in {Head(core[c].reg)} :
     \/ /\ at # None /\ ~Exhausts(p, <<at>>, FALSE)
        /\ \E needs \in {Needs(Space(p, at), <<at>>, FALSE)} :
             /\ MmAllocatePfn(Len(needs))
             /\ tables' = IF Doing(c).do = "space" THEN With(NewTables(needs), [e \in {TopTable(p)} |-> frame])
                          ELSE NewTables(needs)
             /\ pte' = With(pte, [e \in {<<Space(p, at), at>>} |-> Present(frame, TRUE)])
        /\ threads' = IF Doing(c).do = "thread" THEN [threads EXCEPT ![p] = @ + 1] ELSE threads
        /\ Lock("paging", Free)
        /\ Finishes(c)
        /\ UNCHANGED <<phase, sectionVars, stacks, history, stopped>>
     \/ at = None /\ Stop("address")
     \/ at # None /\ Exhausts(p, <<at>>, FALSE) /\ Stop("frames")

\* Pages in a row; a stack has one more on each side.
PagingAllocatePageBlockEx(c) ==
  /\ At(c, {"stack", "block"}, "map")
  /\ \E at \in {core[c].at}, n \in {PagesOf(Doing(c))} :
     \/ /\ at # None /\ ~Exhausts(Kernel, PageRun(at, n), TRUE)
        /\ FreshBlock(Kernel, at, n)
        /\ Lock("paging", Free)
        /\ IF Doing(c).do = "stack" THEN Goes(c, "guards") ELSE Finishes(c)
        /\ UNCHANGED <<phase, sectionVars, stacks, threads, history, stopped>>
     \/ at = None /\ Stop("address")
     \/ at # None /\ Exhausts(Kernel, PageRun(at, n), TRUE) /\ Stop("frames")

Guards(at, n) == <<<<Kernel, at>>, <<Kernel, at + n + 1>>>>
\* Mutant: an entry like that of a view's page that has gone.
ZeroGuards(at, n) == Without(pte, ToSet(Guards(at, n)))
GuardEntries(at, n) == With(pte, [e \in ToSet(Guards(at, n)) |-> GuardEntry])

GuardFrames(at, n) == [i \in 1..2 |-> pte[Guards(at, n)[i]].frame]

\* The outer pages become guards, and then their frames are freed.
PspCreateKernelStack(c) ==
  /\ At(c, {"stack"}, "guards")
  /\ \E at \in {core[c].at}, n \in {Doing(c).n} :
       /\ pte' = GuardEntries(at, n)
       /\ core' = [core EXCEPT ![c].pc = "free",
                               ![c].reg = GuardFrames(at, n)]
  /\ UNCHANGED <<phase, frameVars, tables, sectionVars, stacks, threads, locks, history, stopped>>

FreeGuards(c) ==
  /\ At(c, {"stack"}, "free")
  /\ MmFreePfn(core[c].reg)
  /\ stacks' = stacks \cup {[at |-> core[c].at, n |-> Doing(c).n]}
  /\ Finishes(c)
  /\ UNCHANGED <<phase, tables, pte, sectionVars, threads, locks, history, stopped>>

-----------------------------------------------------------------------------
\* Views of the image section.

\* The initial view has the size of the section.
View(p, i) ==
  IF i = 0 THEN [p |-> p, base |-> InitialView, pages |-> Len(mappings), start |-> 0,
                 offset |-> 0, write |-> FALSE]
  ELSE [p |-> p, base |-> ImageBase + ImageSections[i].first, pages |-> ImageSections[i].pages,
        start |-> ImageSections[i].first, offset |-> ImageSections[i].offset,
        write |-> ImageSections[i].write]
InView(view, page) == page \in view.base..view.base + view.pages - 1
\* Sequences count from 1.
MappingIndex(view, page) == page - view.base + view.start + 1
ViewPages(view) == PageRun(view.base, view.pages)

LocksFree(p) == locks.space[p] = Free /\ locks.section = Free
TakeLocks(p, c) == locks' = [locks EXCEPT !.space[p] = c, !.section = c]

\* The lock of the space, and then that of the section.
LockView(c) ==
  /\ At(c, {"view", "delete"}, "start")
  /\ LocksFree(Doing(c).p)
  /\ TakeLocks(Doing(c).p, c)
  /\ Goes(c, "locked")
  /\ UNCHANGED <<phase, frameVars, tables, pte, sectionVars, stacks, threads, history, stopped>>

\* The section grows to the end of the view.
MiResizeSection(view) ==
  [i \in 1..Len(mappings) \cup 1..view.start + view.pages |->
     IF i <= Len(mappings) THEN mappings[i] ELSE None]

\* Entries of the pages that are there already; the others stay zero, though
\* their tables are made.
ViewEntries(view) ==
  LET there == {v \in ToSet(ViewPages(view)) :
                  /\ MappingIndex(view, v) \in DOMAIN mappings
                  /\ mappings[MappingIndex(view, v)] # None}
  IN  [e \in {<<view.p, v>> : v \in there} |->
         Present(mappings[MappingIndex(view, e[2])], view.write)]
Conflicts(view) == \E v \in ToSet(ViewPages(view)) : <<view.p, v>> \in DOMAIN pte

MmCreateView(c) ==
  /\ At(c, {"view"}, "locked")
  /\ \E view \in {View(Doing(c).p, Doing(c).n)} :
     \/ /\ ~Conflicts(view) /\ ~Exhausts(view.p, ViewPages(view), FALSE)
        /\ PagingMapPage(Needs(view.p, ViewPages(view), FALSE), ViewEntries(view))
        /\ mappings' = MiResizeSection(view)
        /\ views' = [views EXCEPT ![view.p] = Append(@, view)]
        /\ TakeLocks(view.p, Free)
        /\ Finishes(c)
        /\ UNCHANGED <<phase, contents, stacks, threads, history, stopped>>
     \/ IF Conflicts(view) THEN Stop("conflict")
        ELSE Exhausts(view.p, ViewPages(view), FALSE) /\ Stop("frames")

DeletedEntries(view) == {<<view.p, v>> : v \in ToSet(ViewPages(view))}

MmDeleteView(c) ==
  /\ At(c, {"delete"}, "locked")
  /\ \E view \in {Head(views[Doing(c).p])} :
       /\ pte' = Without(pte, DeletedEntries(view))
       /\ views' = [views EXCEPT ![view.p] = Tail(@)]
       /\ TakeLocks(view.p, Free)
  /\ Finishes(c)
  /\ UNCHANGED <<phase, frameVars, tables, contents, mappings, stacks, threads, history, stopped>>

-----------------------------------------------------------------------------
\* Accesses of threads, and page faults.

Accessed(c) == <<Doing(c).p, Doing(c).n>>
OthersFaulting(c) ==
  \E o \in Cores \ {c} : At(o, {"read", "write"}, core[o].pc) /\ core[o].pc # "start"
                           /\ Accessed(o) = Accessed(c)

Access(c) ==
  /\ At(c, {"read", "write"}, "start")
  /\ IF Accessed(c) \in DOMAIN pte
     THEN /\ IF Doing(c).do = "write"
             THEN /\ contents' = [contents EXCEPT ![pte[Accessed(c)].frame] = Written]
                  /\ written' = written \cup {Accessed(c)}
             ELSE UNCHANGED <<contents, written>>
          /\ Finishes(c)
     ELSE Goes(c, "fault") /\ UNCHANGED <<contents, written>>
  /\ raced' = IF OthersFaulting(c) THEN raced \cup {Accessed(c)} ELSE raced
  /\ UNCHANGED <<phase, frameVars, tables, pte, mappings, views, stacks, threads, locks,
                 initialised, together, accesses, stopped>>

PageFaultHandler(c) ==
  /\ At(c, {"read", "write"}, "fault")
  /\ IF Accessed(c) \in DOMAIN pte THEN Stop("present")
     ELSE /\ Goes(c, "handle")
          /\ UNCHANGED <<phase, frameVars, tables, pte, sectionVars, stacks, threads, locks,
                         history, stopped>>

\* Mutant: pages of the file are counted from the view.
PageFromView(view, page) == page - view.base
FilePage(view, page) == view.offset + page - view.base

\* Mutant: the section's lock stays.
ReleaseSpace(p) == locks' = [locks EXCEPT !.space[p] = Free]
Release(p) == TakeLocks(p, Free)

\* A page that is nowhere in the section gets a frame and an entry; an entry for
\* one that another process brought in is not made.
MmHandlePageFault(c) ==
  /\ At(c, {"read", "write"}, "handle")
  /\ LocksFree(Doing(c).p)
  /\ \E i \in {j \in DOMAIN views[Doing(c).p] : InView(views[Doing(c).p][j], Doing(c).n)} :
     \E view \in {views[Doing(c).p][i]}, index \in {MappingIndex(views[Doing(c).p][i], Doing(c).n)} :
       \/ /\ mappings[index] # None \/ free # <<>>
          /\ IF mappings[index] # None THEN UNCHANGED <<frameVars, pte, mappings>>
             ELSE /\ MmAllocatePfn(1)
                  /\ mappings' = [mappings EXCEPT ![index] = Head(free)]
                  /\ pte' = With(pte, [e \in {Accessed(c)} |-> Present(Head(free), view.write)])
          /\ TakeLocks(view.p, c)
          /\ core' = [core EXCEPT ![c].pc = "file", ![c].at = FilePage(view, Doing(c).n)]
          /\ UNCHANGED <<phase, tables, contents, views, stacks, threads, history, stopped>>
       \/ mappings[index] = None /\ free = <<>> /\ Stop("frames")

\* The page is read from the file, whether or not it was there.  A fault in it,
\* with the locks held, is one too many.
NtReadFile(c) ==
  /\ At(c, {"read", "write"}, "file")
  /\ IF Accessed(c) \notin DOMAIN pte THEN Stop("dispatch")
     ELSE /\ contents' = [contents EXCEPT ![pte[Accessed(c)].frame] = core[c].at]
          /\ Release(Doing(c).p)
          /\ core' = [core EXCEPT ![c].pc = "start", ![c].at = None]
          /\ UNCHANGED <<phase, frameVars, tables, pte, mappings, views, stacks, threads,
                         history, stopped>>

-----------------------------------------------------------------------------
Boot ==
  \/ KeLoadStub \/ PagingInit \/ HandlePreloadedFiles \/ FlagPfns
  \/ KeEntry \/ ExInitializePool \/ RT8139Init
Step(c) ==
  \/ ApStartup(c) \/ KiAcquireDispatcherLock(c) \/ KiReleaseDispatcherLock(c)
  \/ CountCore(c) \/ CheckCores(c) \/ GetFrame(c) \/ FindPages(c) \/ PagingAllocatePageWithPhysicalAddress(c)
  \/ PagingAllocatePageBlockEx(c) \/ PspCreateKernelStack(c) \/ FreeGuards(c)
  \/ LockView(c) \/ MmCreateView(c) \/ MmDeleteView(c)
  \/ Access(c) \/ PageFaultHandler(c) \/ MmHandlePageFault(c) \/ NtReadFile(c)
Next == Boot \/ \E c \in Cores : Start(c) \/ Step(c)

Spec == Init /\ [][Next]_vars /\ \A c \in Cores : WF_vars(Step(c))

-----------------------------------------------------------------------------
TypeOK ==
  /\ free \in Seq(Frames) /\ flags \in [Frames -> 0..4]
  /\ Range(tables) \subseteq Frames
  /\ \A e \in DOMAIN pte :
       /\ pte[e] = GuardEntry \/ pte[e].frame \in Frames
       /\ IF e[1] = Kernel THEN e[2] \in KernelStart..KernelEnd ELSE e[2] \in 0..UserEnd
  /\ Range(mappings) \subseteq Frames \cup {None}
  /\ \A f \in Frames : contents[f] \in 0..FilePages \cup {Junk, Written}
  /\ threads \in [Processes -> 0..MaxThreads + 1]
  /\ locks.paging \in Cores \cup {Free} /\ locks.section \in Cores \cup {Free}
  /\ accesses \in 0..MaxAccesses

\* What frames are used for.  The pages of the section are mapped by its views,
\* the top table of a process by the kernel too.
SectionFrames == {mappings[i] : i \in DOMAIN mappings} \ {None}
TopTables == {TopTable(p) : p \in Processes} \cap DOMAIN tables
OwnPages ==
  {e \in DOMAIN pte : /\ pte[e].present
                      /\ pte[e].frame \notin SectionFrames \cup {tables[d] : d \in TopTables}}
Uses ==
  {<<"free", i>> : i \in DOMAIN free}
    \cup {<<"table", e>> : e \in DOMAIN tables}
    \cup {<<"section", i>> : i \in {j \in DOMAIN mappings : mappings[j] # None}}
    \cup {<<"device", f>> : f \in {g \in Frames : flags[g] = 4}}
    \cup (UNION {{<<"held", c, i>> : i \in DOMAIN core[c].reg} : c \in Cores})
    \cup {<<"page", e>> : e \in OwnPages}
FrameOf(use) ==
  CASE use[1] = "free" -> free[use[2]]
    [] use[1] = "table" -> tables[use[2]]
    [] use[1] = "section" -> mappings[use[2]]
    [] use[1] = "device" -> use[2]
    [] use[1] = "held" -> core[use[2]].reg[use[3]]
    [] use[1] = "page" -> pte[use[2]].frame

\* A page frame is never used for two things: not by two page tables, not by a
\* page and the free list, not by two pages unless they show the same page of
\* the section, though the free list is made anew by the stub and by the kernel
\* (MmReinitPhysAllocator, MiFlagPfnsForRemap, MmAllocatePfn, MmFreePfn).  What
\* the boot loader marked is in pages only.
FramesHaveOneUse ==
  /\ IsInjective([use \in Uses |-> FrameOf(use)])
  /\ \A use \in Uses : FrameOf(use) \in BootFrames => use[1] = "page"

\* No page frame is lost: when the kernel runs, each that the boot loader did not
\* mark is free or used for something, between the steps of calls too, when cores
\* start together and look for free pages at once (PagingSpinlock).
NoFrameLost ==
  /\ TypeOK
  /\ phase = "running" => Frames \ BootFrames \subseteq {FrameOf(use) : use \in Uses}

\* A kernel stack keeps its pages and its guards on both sides, whatever is
\* allocated after it on other cores (PspCreateKernelStack, PagingFindFreePages).
StacksGuarded ==
  /\ \A s \in stacks :
       /\ \A e \in ToSet(Guards(s.at, s.n)) : e \in DOMAIN pte /\ ~pte[e].present
       /\ \A v \in s.at + 1..s.at + s.n : <<Kernel, v>> \in DOMAIN pte /\ pte[<<Kernel, v>>].present
  /\ \A s, t \in stacks : s # t => s.at + s.n + 1 < t.at \/ t.at + t.n + 1 < s.at

\* What is mapped in a process is a page of the section, at its view's place and
\* with its view's rights, or a thread's stack; a deleted view leaves nothing
\* (MmCreateView, MmDeleteView, MmHandlePageFault).
ViewPagesAreTheSections ==
  \A p \in Processes :
    LET shown == {e \in DOMAIN pte : e[1] = p /\ pte[e].frame \in Range(mappings)}
    IN  /\ \A e \in shown : \E i \in DOMAIN views[p] :
             /\ InView(views[p][i], e[2])
             /\ pte[e].frame = mappings[views[p][i].start + e[2] - views[p][i].base + 1]
             /\ pte[e].write = views[p][i].write
        /\ Cardinality({e \in DOMAIN pte : e[1] = p} \ shown) = threads[p]

\* A page of the loaded image that can be accessed has the file's data, or what
\* the program wrote, unless it is just being read in; and what was written stays,
\* unless another core was in a fault on the page: it reads the file once more
\* (MmHandlePageFault, for views that start in the middle of section and file).
PagesHoldTheirData ==
  \A p \in Processes : \A i \in DOMAIN views[p] : \A v \in ToSet(ViewPages(views[p][i])) :
    \/ <<p, v>> \notin DOMAIN pte
    \/ contents[pte[<<p, v>>].frame] \in
         {Written : w \in written \cap {<<p, v>>}}
         \cup IF <<p, v>> \in written \ raced THEN {}
              ELSE {views[p][i].offset + v - views[p][i].base}
    \/ \E c \in Cores : At(c, {"read", "write"}, "file") /\ Accessed(c) = <<p, v>>
    \/ stopped # "no"

\* A process finds in the pages of its views what the file has there, or what it
\* wrote: the parts above.
PagesShowTheFile ==
  /\ ViewPagesAreTheSections
  /\ PagesHoldTheirData

\* When all cores have started and have nothing left to do, one of them has started
\* the image, whatever the order in which they counted themselves and looked
\* (PspInitializeCore).  Two of them may have.
ImageStarted ==
  (Running /\ initialised = Len(CoreList) /\ \A c \in Cores : core[c].todo = <<>>)
    => \E c \in Cores : TopTable(Image(c)) \in DOMAIN tables

\* The system stops for want of frames, or because a second thread faulted on a
\* page that is there by then (PageFaultHandler); the loader never meets an entry
\* that is in use, and the read of a page never faults.
StopsExplained ==
  \/ stopped = "frames"
  \/ stopped = "present" /\ raced # {}

\* Calls end: a thread that waits for the paging lock, or for the locks of its
\* space and the section, gets them, unless the system stops for a reason above.
CallsEnd ==
  \A c \in Cores : core[c].todo # <<>> ~> (core[c].todo = <<>> \/ StopsExplained)
=============================================================================
