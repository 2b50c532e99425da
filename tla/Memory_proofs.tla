---------------------------- MODULE Memory_proofs ----------------------------
(***************************************************************************)
(* Kernel stacks keep their guards, and the image is started once all      *)
(* cores are counted: what the cores still have to do, the places they     *)
(* found under the PagingSpinlock and the stacks they are at are kept      *)
(* apart by every step of every core.  The second part shows that no page  *)
(* frame has two uses: what the lists of frames that a step takes hold,    *)
(* how frames move from use to use, and that each step of the boot and of  *)
(* the cores moves them one at a time.                                     *)
(***************************************************************************)
EXTENDS Memory, ListLemmas

\* The commands and the steps of a core.  A view is one of the whole file, or of a section.
Commands ==
  {cmd \in [do : {"lock", "unlock", "stack", "thread", "space", "count", "check", "block", "wake",
                  "view", "read", "write", "delete"},
            p : Processes, n : Nat] :
     cmd.do = "view" => cmd.n \in 0 .. Len(ImageSections)}

\* The steps of a command.
Steps == {"start", "find", "map", "guards", "free", "locked", "fault", "handle", "file"}

\* The types that the other parts need.
Typed ==
  /\ core = [c \in Cores |-> core[c]]
  /\ \A c \in Cores :
       core[c] \in [todo : Seq(Commands), pc : Steps, at : {core[c].at}, reg : {core[c].reg}]
  /\ locks = [dispatcher |-> locks.dispatcher, paging |-> locks.paging,
              space |-> locks.space, section |-> locks.section]
  /\ views = [p \in Processes |-> views[p]]
  /\ \A p \in Processes : /\ views[p] \in Seq(Range(views[p]))
                          /\ \A v \in Range(views[p]) : v.p = p
  /\ threads \in [Processes -> Nat]
  /\ stacks \subseteq [at : Int, n : Nat]
  /\ initialised \in Nat
  /\ phase # "running" => /\ initialised = 0 /\ stacks = {}
                          /\ core = [c \in Cores |-> Nothing]
                          /\ threads = [p \in Processes |-> 0]

\* A core is in the middle of a command that has such a step.
StepsFit ==
  \A c \in Cores :
    /\ core[c].pc # "start" => core[c].todo # <<>>
    /\ core[c].pc = "map" => Doing(c).do \in {"stack", "block", "space", "thread"}
    /\ core[c].pc \in {"guards", "free"} => Doing(c).do = "stack"
    /\ core[c].pc \in {"map", "guards", "free"} => core[c].at \in Int

-----------------------------------------------------------------------------
\* A page of the kernel that is mapped.
Mapped(v) == <<Kernel, v>> \in DOMAIN pte

\* A place found under the PagingSpinlock is still there: its pages are free.
Place(c) ==
  core[c].at # None =>
    IF Doing(c).do = "thread" THEN core[c].at \in 0 .. UserEnd - 1
    ELSE /\ core[c].at >= KernelStart
         /\ \A i \in 0 .. PagesOf(Doing(c)) - 1 : ~ Mapped(core[c].at + i)
PlacesAreFree ==
  \A c \in Cores : core[c].pc = "map" => locks.paging = c /\ Place(c)

\* A stack with its pages and the pages around it, and the one a core is at.
Inner(s) == \A v \in s.at + 1 .. s.at + s.n : Mapped(v) /\ pte[<<Kernel, v>>].present
Outer(s) == Mapped(s.at) /\ Mapped(s.at + s.n + 1)
Guarded(s) == ~ pte[<<Kernel, s.at>>].present /\ ~ pte[<<Kernel, s.at + s.n + 1>>].present
Apart(s, t) == s.at + s.n + 1 < t.at \/ t.at + t.n + 1 < s.at
MakesStack(c) == core[c].pc \in {"guards", "free"}
StackOf(c) == [at |-> core[c].at, n |-> Doing(c).n]

\* Finished stacks have their guards, stacks under way their pages, and all of
\* them are apart.
StacksApart ==
  /\ \A s \in stacks : Inner(s) /\ Outer(s) /\ Guarded(s)
  /\ \A s, t \in stacks : s # t => Apart(s, t)
  /\ \A c \in Cores : MakesStack(c) =>
       /\ Inner(StackOf(c)) /\ Outer(StackOf(c))
       /\ core[c].pc = "free" => Guarded(StackOf(c))
       /\ \A s \in stacks : Apart(StackOf(c), s)
       /\ \A d \in Cores \ {c} : MakesStack(d) => Apart(StackOf(c), StackOf(d))

-----------------------------------------------------------------------------
\* Cores that have not counted themselves, or are yet to be woken.
Has(c, what) == \E k \in DOMAIN core[c].todo : core[c].todo[k].do = what
ToBeWoken(c) ==
  \E k \in DOMAIN core[First].todo : /\ core[First].todo[k].do = "wake"
                                     /\ core[First].todo[k].p = IdleProcess(c)
Uncounted == {c \in Cores : Has(c, "count") \/ ToBeWoken(c)}

\* The first core wakes each of the others once, and these do nothing before.
WakesOnce ==
  \A c \in Cores : \A k \in DOMAIN core[c].todo : core[c].todo[k].do = "wake" =>
    /\ c = First
    /\ \E o \in Cores \ {First} : core[c].todo[k].p = IdleProcess(o) /\ core[o].todo = <<>>
    /\ \A j \in DOMAIN core[c].todo :
         core[c].todo[j].do = "wake" /\ core[c].todo[j].p = core[c].todo[k].p => j = k

\* A core counts itself once, looks at the count and has then nothing left to do.
CountsOnce ==
  \A c \in Cores : \A k \in DOMAIN core[c].todo :
    /\ core[c].todo[k].do = "count" =>
         Len(core[c].todo) = k + 1 /\ core[c].todo[k + 1].do = "check"
    /\ core[c].todo[k].do = "check" => Len(core[c].todo) = k

\* No process has threads, or will have any, before all cores are counted.
CountedFirst ==
  /\ phase = "running" => initialised + Cardinality(Uncounted) <= Len(CoreList)
  /\ Uncounted # {} => /\ \A p \in Processes : threads[p] = 0
                       /\ \A c \in Cores : ~ Has(c, "thread")

\* The loader deletes the view it has made.
DeletesItsView ==
  \A c \in Cores : \A k \in DOMAIN core[c].todo : core[c].todo[k].do = "delete" =>
    /\ core[c].todo[k].p = Image(c)
    /\ \A j \in DOMAIN core[c].todo : core[c].todo[j].do = "delete" => j = k
    /\ views[Image(c)] = <<>> =>
         /\ k > 2 /\ core[c].todo[k - 2].do = "view" /\ core[c].todo[k - 2].p = Image(c)

\* Whoever counts the last core looks at the count, and then makes a process of
\* the image.
ImageOnItsWay ==
  initialised = Len(CoreList) =>
    \E c \in Cores : \/ Has(c, "check")
                     \/ \E k \in DOMAIN core[c].todo :
                          core[c].todo[k].do = "space" /\ \E o \in Cores : core[c].todo[k].p = Image(o)
                     \/ TopTable(Image(c)) \in DOMAIN tables

\* The inductive invariant.
Plans == WakesOnce /\ CountsOnce /\ CountedFirst /\ DeletesItsView /\ ImageOnItsWay
MemoryInv == Typed /\ StepsFit /\ PlacesAreFree /\ StacksApart /\ Plans

-----------------------------------------------------------------------------
\* Address spaces are told apart.
LEMMA SpacesDiffer ==
  /\ First \in Cores /\ Kernel \notin Processes /\ Created \in Processes
  /\ \A c \in Cores : /\ IdleProcess(c) \in Processes /\ Image(c) \in Processes
                      /\ IdleProcess(c)[2] = c
                      /\ \A d \in Cores : /\ IdleProcess(c) = IdleProcess(d) => c = d
                                          /\ Image(c) = Image(d) => c = d
<1>1. CoreList \in Seq(Cores) /\ CoreList # <<>>
  BY MemoryAssumption
<1>2. First \in Cores
  BY <1>1, HeadTailProperties DEF First
<1>3. Kernel \notin Processes
  BY DEF Kernel, Processes, IdleProcess, Image, Created
<1>4. /\ Created \in Processes
      /\ \A c \in Cores : IdleProcess(c) \in Processes /\ Image(c) \in Processes
  BY DEF Processes
<1>5. ASSUME NEW c \in Cores, NEW d \in Cores
      PROVE  /\ IdleProcess(c)[2] = c
             /\ IdleProcess(c) = IdleProcess(d) => c = d
             /\ Image(c) = Image(d) => c = d
  BY DEF IdleProcess, Image
<1> QED BY <1>2, <1>3, <1>4, <1>5

\* Commands after which a core goes on as before, and those of them that do not
\* make a thread.
Plain == {cmd \in Commands : cmd.do \notin {"count", "check", "wake", "delete"}}
\* Those that may come before all cores are counted.
Early == {cmd \in Plain : cmd.do # "thread"}

\* The fields of a command.
LEMMA CommandFields ==
  \A do, p, n : Command(do, p, n).do = do /\ Command(do, p, n).p = p /\ Command(do, p, n).n = n
BY DEF Command

\* Which commands are plain.
LEMMA PlainCommands ==
  ASSUME NEW p \in Processes, NEW n \in Nat
  PROVE  /\ \A do \in {"lock", "unlock", "stack", "space", "block", "read", "write"} :
              Command(do, p, n) \in Early /\ Command(do, p, n) \in Plain
         /\ n \in 0 .. Len(ImageSections) => Command("view", p, n) \in Plain
         /\ Command("thread", p, n) \in Plain
         /\ \A do \in {"count", "check", "wake", "delete"} : Command(do, p, n) \in Commands
BY DEF Plain, Early, Commands, Command

\* Lists of plain commands.
LEMMA PlainLists ==
  ASSUME NEW p \in Processes
  PROVE  /\ ThreadStacks(p) \in Seq(Early)
         /\ NtCreateProcess(p) \in Seq(Early)
         /\ UserThread(p) \in Seq(Plain)
         /\ NnxStartUserProcess(p) \in Seq(Early)
<1>1. ThreadStacks(p) \in Seq(Early)
  <2>1. StackPages \in Seq(Nat) /\ Len(StackPages) \in Nat /\ DOMAIN StackPages = 1 .. Len(StackPages)
    BY MemoryAssumption, LenProperties
  <2>2. \A i \in 1 .. Len(StackPages) : StackPages[i] \in Nat
    BY <2>1, ElementOfSeq
  <2>3. \A i \in 1 .. Len(StackPages) : Command("stack", p, StackPages[i]) \in Early
    BY <2>2, PlainCommands
  <2>4. ThreadStacks(p) \in [1 .. Len(StackPages) -> Early]
    BY <2>1, <2>3 DEF ThreadStacks
  <2> QED BY <2>1, <2>4, FunctionsAreSequences
<1>2. ASSUME NEW S, NEW s \in Seq(S), Early \subseteq S
      PROVE  Locked(p, s) \in Seq(S)
  <2>1. <<Command("lock", p, 0)>> \in Seq(S) /\ <<Command("unlock", p, 0)>> \in Seq(S)
    BY <1>2, PlainCommands
  <2> QED BY <2>1, ConcatProperties DEF Locked
<1>3. NtCreateProcess(p) \in Seq(Early)
  <2>1. <<Command("space", p, 0)>> \in Seq(Early)
    BY PlainCommands
  <2> QED BY <1>2, <2>1 DEF NtCreateProcess
<1>4. Early \subseteq Plain
  BY DEF Early
<1>5. UserThread(p) \in Seq(Plain)
  <2>1. <<Command("thread", p, 0)>> \in Seq(Plain)
    BY PlainCommands
  <2>2. ThreadStacks(p) \in Seq(Plain)
    BY <1>1, <1>4
  <2>3. ThreadStacks(p) \o <<Command("thread", p, 0)>> \in Seq(Plain)
    BY <2>1, <2>2, ConcatProperties
  <2> QED BY <1>2, <1>4, <2>3 DEF UserThread
<1>6. NnxStartUserProcess(p) \in Seq(Early)
  <2>1. Locked(p, ThreadStacks(p)) \in Seq(Early)
    BY <1>1, <1>2
  <2> QED BY <1>3, <2>1, ConcatProperties DEF NnxStartUserProcess
<1> QED BY <1>1, <1>3, <1>5, <1>6

\* A list that ends with the count of its core and the look at it.
EndsWithCount(s) ==
  /\ s \in Seq(Commands) /\ Len(s) >= 2
  /\ \A k \in 1 .. Len(s) - 2 : s[k] \in Early
  /\ s[Len(s) - 1].do = "count" /\ s[Len(s)].do = "check"

\* It still does after other early commands.
LEMMA EndsAfter ==
  ASSUME NEW t \in Seq(Early), NEW s, EndsWithCount(s)
  PROVE  EndsWithCount(t \o s)
<1>1. t \in Seq(Commands) /\ s \in Seq(Commands) /\ Len(t) \in Nat /\ Len(s) \in Nat
  BY DEF Early, Plain, EndsWithCount
<1>2. /\ t \o s \in Seq(Commands) /\ Len(t \o s) = Len(t) + Len(s)
      /\ \A i \in 1 .. Len(t) + Len(s) : (t \o s)[i] = IF i <= Len(t) THEN t[i] ELSE s[i - Len(t)]
  BY <1>1, ConcatProperties
<1> DEFINE r == t \o s
           m == Len(t)
           n == Len(s)
<1>3. /\ n >= 2 /\ \A k \in 1 .. n - 2 : s[k] \in Early
      /\ s[n - 1].do = "count" /\ s[n].do = "check"
  BY DEF EndsWithCount
<1>4. m \in Nat /\ n \in Nat /\ Len(r) = m + n /\ r \in Seq(Commands)
  BY <1>1, <1>2
<1>5. \A i \in 1 .. m : t[i] \in Early
  BY ElementOfSeq
<1>6. \A i \in 1 .. m + n : r[i] = IF i <= m THEN t[i] ELSE s[i - m]
  BY <1>2
<1> HIDE DEF m, n, r
<1>7. r[m + n - 1] = s[n - 1] /\ r[m + n] = s[n]
  <2>1. m \in Nat /\ n \in Nat /\ n >= 2
    BY <1>3, <1>4
  <2>2. ASSUME NEW i \in 1 .. m + n, ~ (i <= m) PROVE r[i] = s[i - m]
    BY <1>6, <2>2
  <2>3. PICK a, b : a = m + n - 1 /\ b = m + n
    OBVIOUS
  <2>4. /\ a \in 1 .. m + n /\ ~ (a <= m) /\ a - m = n - 1
        /\ b \in 1 .. m + n /\ ~ (b <= m) /\ b - m = n
    <3>1. a \in Int /\ b \in Int /\ a - m = n - 1 /\ b - m = n
      BY <2>1, <2>3
    <3>2. 1 <= a /\ a <= m + n /\ ~ (a <= m)
      BY <2>1, <2>3
    <3>3. 1 <= b /\ b <= m + n /\ ~ (b <= m)
      BY <2>1, <2>3
    <3> QED BY <3>1, <3>2, <3>3
  <2>5. r[a] = s[a - m] /\ r[b] = s[b - m]
    BY <2>2, <2>4
  <2> QED BY <2>3, <2>4, <2>5
<1>8. ASSUME NEW k \in 1 .. m + n - 2 PROVE r[k] \in Early
  <2>1. k \in 1 .. m + n /\ (k <= m => k \in 1 .. m) /\ (~ (k <= m) => k - m \in 1 .. n - 2)
    BY <1>3, <1>4
  <2>2. CASE k <= m
    BY <1>5, <1>6, <2>1, <2>2
  <2>3. CASE ~ (k <= m)
    <3>1. k - m \in 1 .. n - 2 /\ r[k] = s[k - m]
      BY <1>6, <2>1, <2>3
    <3> QED BY <1>3, <3>1
  <2> QED BY <2>2, <2>3
<1>9. m + n >= 2
  BY <1>3, <1>4
<1>10. /\ r \in Seq(Commands) /\ Len(r) >= 2
       /\ \A k \in 1 .. Len(r) - 2 : r[k] \in Early
       /\ r[Len(r) - 1].do = "count" /\ r[Len(r)].do = "check"
  BY <1>3, <1>4, <1>7, <1>8, <1>9
<1>11. EndsWithCount(r)
  BY <1>10 DEF EndsWithCount
<1> QED BY <1>11 DEF r

\* The start of a core.
LEMMA CoreStarts ==
  ASSUME NEW c \in Cores
  PROVE  EndsWithCount(PspInitializeCore(c)) /\ EndsWithCount(ApProcessorInit(c))
<1> DEFINE p == IdleProcess(c)
           e == <<Command("lock", p, 0), Command("stack", p, 1), Command("count", p, 0), Command("check", p, 0)>>
<1>1. p \in Processes
  BY SpacesDiffer
<1> HIDE DEF p
<1>2. /\ Command("lock", p, 0) \in Early /\ Command("stack", p, 1) \in Early
      /\ Command("count", p, 0) \in Commands /\ Command("check", p, 0) \in Commands
  BY <1>1, PlainCommands
<1>3. EndsWithCount(e)
  <2>1. Early \subseteq Commands
    BY DEF Early, Plain
  <2>2. e \in Seq(Commands) /\ Len(e) = 4
    BY <1>2, <2>1
  <2>3. \A k \in 1 .. 2 : e[k] \in Early
    <3>1. \A k \in 1 .. 2 : k = 1 \/ k = 2
      OBVIOUS
    <3> QED BY <1>2, <3>1
  <2>4. e[3].do = "count" /\ e[4].do = "check"
    BY CommandFields
  <2> HIDE DEF e
  <2> QED BY <2>2, <2>3, <2>4 DEF EndsWithCount
<1>4. <<Command("space", p, 0)>> \o ThreadStacks(p) \in Seq(Early)
  <2>1. <<Command("space", p, 0)>> \in Seq(Early)
    BY <1>1, PlainCommands
  <2> QED BY <1>1, <2>1, PlainLists, ConcatProperties
<1>5. PspInitializeCore(c) = (<<Command("space", p, 0)>> \o ThreadStacks(p)) \o e
  BY DEF PspInitializeCore, p
<1> HIDE DEF e
<1>6. EndsWithCount(PspInitializeCore(c))
  BY <1>3, <1>4, <1>5, EndsAfter
<1>7. <<Command("block", p, 1)>> \in Seq(Early)
  BY <1>1, PlainCommands
<1>8. EndsWithCount(ApProcessorInit(c))
  BY <1>6, <1>7, EndsAfter DEF ApProcessorInit, p
<1> QED BY <1>6, <1>8

\* What EndsWithCount says of the commands by what they do.
LEMMA EndsByKind ==
  ASSUME NEW s, EndsWithCount(s), NEW k \in DOMAIN s
  PROVE  /\ s[k].do \notin {"wake", "thread", "delete"}
         /\ s[k].do = "count" => Len(s) = k + 1 /\ s[k + 1].do = "check"
         /\ s[k].do = "check" => Len(s) = k
<1> DEFINE n == Len(s)
<1>1. n \in Nat /\ n >= 2 /\ k \in 1 .. n
  BY DEF EndsWithCount
<1>2. /\ \A j \in 1 .. n - 2 : s[j] \in Early
      /\ s[n - 1].do = "count" /\ s[n].do = "check"
  BY DEF EndsWithCount
<1> HIDE DEF n
<1>3. CASE k \in 1 .. n - 2
  BY <1>2, <1>3 DEF Early, Plain
<1>4. CASE k = n - 1
  <2>1. n = k + 1
    BY <1>1, <1>4
  <2> QED BY <1>2, <1>4, <2>1 DEF n
<1>5. CASE k = n
  BY <1>2, <1>5 DEF n
<1>6. k \in 1 .. n - 2 \/ k = n - 1 \/ k = n
  BY <1>1
<1> QED BY <1>3, <1>4, <1>5, <1>6

\* What MpInitialize has the first core do: a stack for each of the others and a
\* wake-up, and then its own start.
LEMMA MpProgram ==
  ASSUME NEW k \in DOMAIN MpInitialize
  PROVE  /\ MpInitialize \in Seq(Commands)
         /\ MpInitialize[k].do \notin {"thread", "delete"}
         /\ MpInitialize[k].do = "count" => /\ Len(MpInitialize) = k + 1
                                            /\ MpInitialize[k + 1].do = "check"
         /\ MpInitialize[k].do = "check" => Len(MpInitialize) = k
         /\ MpInitialize[k].do = "wake" =>
              /\ \E o \in Cores \ {First} : MpInitialize[k].p = IdleProcess(o)
              /\ \A j \in DOMAIN MpInitialize :
                   MpInitialize[j].do = "wake" /\ MpInitialize[j].p = MpInitialize[k].p => j = k
<1> DEFINE l == Len(CoreList)
           m == 2 * (l - 1)
           w == [i \in 1 .. m |-> IF i % 2 = 1 THEN Command("block", Woken((i + 1) \div 2), 1)
                                  ELSE Command("wake", Woken((i + 1) \div 2), 0)]
           s == PspInitializeCore(First)
           n == Len(s)
           r == MpInitialize
<1>1. /\ CoreList \in Seq(Cores) /\ l \in Nat /\ l >= 1 /\ DOMAIN CoreList = 1 .. l
      /\ \A i \in 1 .. l : CoreList[i] \in Cores
      /\ CoreList[1] = First
  <2>1. CoreList \in Seq(Cores) /\ CoreList # <<>>
    BY MemoryAssumption
  <2>2. l \in Nat /\ l >= 1 /\ DOMAIN CoreList = 1 .. l
    BY <2>1, EmptySeq, LenProperties
  <2>3. \A i \in 1 .. l : CoreList[i] \in Cores
    BY <2>1, ElementOfSeq
  <2>4. CoreList[1] = First
    BY <2>1 DEF First
  <2> QED BY <2>1, <2>2, <2>3, <2>4
<1>2. ASSUME NEW i \in 1 .. l, NEW j \in 1 .. l, CoreList[i] = CoreList[j]
      PROVE  i = j
  BY <1>1, <1>2, MemoryAssumption DEF IsInjective
<1> HIDE DEF l
<1>3. m \in Nat
  BY <1>1
<1>4. ASSUME NEW i \in 1 .. m
      PROVE  /\ (i + 1) \div 2 \in 1 .. l - 1 /\ (i + 1) \div 2 + 1 \in 2 .. l
             /\ \E o \in Cores \ {First} : Woken((i + 1) \div 2) = IdleProcess(o)
  <2>1. (i + 1) \div 2 \in 1 .. l - 1 /\ (i + 1) \div 2 + 1 \in 2 .. l
    BY <1>1
  <2>2. (i + 1) \div 2 + 1 \in 1 .. l /\ 1 \in 1 .. l /\ (i + 1) \div 2 + 1 # 1
    BY <1>1, <2>1
  <2>3. CoreList[(i + 1) \div 2 + 1] # First /\ CoreList[(i + 1) \div 2 + 1] \in Cores
    BY <1>1, <1>2, <2>2
  <2> QED BY <2>1, <2>3 DEF Woken
<1>5. ASSUME NEW i \in 1 .. m, NEW j \in 1 .. m, i % 2 # 1, j % 2 # 1,
             Woken((i + 1) \div 2) = Woken((j + 1) \div 2)
      PROVE  i = j
  <2> DEFINE a == (i + 1) \div 2
             b == (j + 1) \div 2
  <2>1. a + 1 \in 1 .. l /\ b + 1 \in 1 .. l /\ a \in Int /\ b \in Int
    BY <1>1, <1>4
  <2>2. CoreList[a + 1] \in Cores /\ CoreList[b + 1] \in Cores
    BY <1>1, <2>1
  <2>3. CoreList[a + 1] = CoreList[b + 1]
    <3>1. IdleProcess(CoreList[a + 1]) = IdleProcess(CoreList[b + 1])
      BY <1>5 DEF Woken
    <3> QED BY <2>2, <3>1, SpacesDiffer
  <2>4. a = b
    <3>1. a + 1 = b + 1
      BY <1>2, <2>1, <2>3
    <3> QED BY <2>1, <3>1
  <2>5. i = 2 * a /\ j = 2 * b
    BY <1>5
  <2> QED BY <2>4, <2>5
<1>6. \A i \in 1 .. m : /\ w[i] \in Commands /\ w[i].do \in {"block", "wake"}
                        /\ w[i].do = "wake" => i % 2 # 1 /\ w[i].p = Woken((i + 1) \div 2)
  <2> TAKE i \in 1 .. m
  <2>1. Woken((i + 1) \div 2) \in Processes
    BY <1>4, SpacesDiffer
  <2>2. Early \subseteq Commands
    BY DEF Early, Plain
  <2>3. CASE i % 2 = 1
    <3>1. w[i] = Command("block", Woken((i + 1) \div 2), 1)
      BY <2>3
    <3>2. Command("block", Woken((i + 1) \div 2), 1) \in Commands
      BY <2>1, <2>2, PlainCommands
    <3> HIDE DEF w
    <3> QED BY <3>1, <3>2, CommandFields
  <2>4. CASE i % 2 # 1
    <3>1. w[i] = Command("wake", Woken((i + 1) \div 2), 0)
      BY <2>4
    <3>2. Command("wake", Woken((i + 1) \div 2), 0) \in Commands
      BY <2>1, PlainCommands
    <3> HIDE DEF w
    <3> QED BY <2>4, <3>1, <3>2, CommandFields
  <2> QED BY <2>3, <2>4
<1>7. w \in Seq(Commands) /\ Len(w) = m
  <2>1. w \in [1 .. m -> Commands]
    BY <1>6
  <2> HIDE DEF w, m
  <2> QED BY <1>3, <2>1, FunctionsAreSequences
<1>8. EndsWithCount(s)
  BY CoreStarts, SpacesDiffer
<1>9. r = w \o s
  BY DEF MpInitialize, l
<1> HIDE DEF w, m, s, n, r
<1>10. s \in Seq(Commands) /\ n \in Nat /\ n >= 2 /\ DOMAIN s = 1 .. n
  <2>1. s \in Seq(Commands) /\ n >= 2
    BY <1>8 DEF EndsWithCount, n
  <2> QED BY <2>1, LenProperties DEF n
<1>11. /\ r \in Seq(Commands) /\ Len(r) = m + n /\ DOMAIN r = 1 .. m + n
       /\ \A i \in 1 .. m + n : r[i] = IF i <= m THEN w[i] ELSE s[i - m]
  <2>1. /\ r \in Seq(Commands) /\ Len(r) = Len(w) + Len(s)
        /\ \A i \in 1 .. Len(w) + Len(s) : r[i] = IF i <= Len(w) THEN w[i] ELSE s[i - Len(w)]
    BY <1>7, <1>9, <1>10, ConcatProperties
  <2> QED BY <1>7, <2>1, LenProperties DEF n
<1>a. \A i \in 1 .. m + n : ~ (i <= m) => r[i] = s[i - m]
  BY <1>11
<1>12. k \in 1 .. m + n
  BY <1>11 DEF r
<1>13. ASSUME NEW j \in 1 .. m + n, r[j].do = "wake"
       PROVE  j \in 1 .. m /\ r[j] = w[j]
  <2>1. CASE j <= m
    BY <1>3, <1>10, <1>11, <2>1
  <2>2. CASE ~ (j <= m)
    <3>1. j - m \in 1 .. n
      BY <1>3, <1>10, <2>2
    <3>2. r[j] = s[j - m]
      BY <1>11, <2>2
    <3>3. j - m \in DOMAIN s
      BY <1>10, <3>1
    <3>4. s[j - m].do # "wake"
      BY <1>8, <3>3, EndsByKind
    <3> QED BY <1>13, <3>2, <3>4
  <2> QED BY <2>1, <2>2
<1>14. ASSUME r[k].do = "wake"
       PROVE  /\ \E o \in Cores \ {First} : r[k].p = IdleProcess(o)
              /\ \A j \in DOMAIN r : r[j].do = "wake" /\ r[j].p = r[k].p => j = k
  <2>1. k \in 1 .. m /\ r[k] = w[k]
    BY <1>12, <1>13, <1>14
  <2>2. \E o \in Cores \ {First} : r[k].p = IdleProcess(o)
    BY <1>4, <1>6, <1>14, <2>1
  <2>3. ASSUME NEW j \in DOMAIN r, r[j].do = "wake", r[j].p = r[k].p PROVE j = k
    <3>1. j \in 1 .. m /\ r[j] = w[j]
      BY <1>11, <1>13, <2>3
    <3>2. w[j].p = Woken((j + 1) \div 2) /\ w[k].p = Woken((k + 1) \div 2) /\ j % 2 # 1 /\ k % 2 # 1
      BY <1>6, <1>14, <2>1, <2>3, <3>1
    <3>3. Woken((j + 1) \div 2) = Woken((k + 1) \div 2)
      BY <2>1, <2>3, <3>1, <3>2
    <3> QED BY <1>5, <2>1, <3>1, <3>2, <3>3
  <2> QED BY <2>2, <2>3
<1>15. CASE k <= m
  <2>1. r[k] = w[k] /\ k \in 1 .. m
    BY <1>3, <1>11, <1>12, <1>15
  <2>2. r[k].do \in {"block", "wake"}
    BY <1>6, <2>1
  <2> QED BY <1>11, <1>14, <2>2 DEF r
<1>16. CASE ~ (k <= m)
  <2> DEFINE q == k - m
  <2>1. r[k] = s[q]
    BY <1>11, <1>12, <1>16
  <2>2. q \in DOMAIN s /\ k = m + q /\ q \in Int
    BY <1>3, <1>10, <1>12, <1>16
  <2> HIDE DEF q
  <2>3. /\ s[q].do \notin {"wake", "thread", "delete"}
        /\ s[q].do = "count" => n = q + 1 /\ s[q + 1].do = "check"
        /\ s[q].do = "check" => n = q
    BY <1>8, <2>2, EndsByKind DEF n
  <2>4. ASSUME r[k].do = "count" PROVE Len(r) = k + 1 /\ r[k + 1].do = "check"
    <3>1. n = q + 1 /\ s[q + 1].do = "check"
      BY <2>1, <2>3, <2>4
    <3>a. m \in Nat /\ n \in Nat /\ n >= 2 /\ q \in Int /\ k = m + q /\ n = q + 1
      BY <1>3, <1>10, <2>2, <3>1
    <3>2. k + 1 = m + n /\ k + 1 \in 1 .. m + n /\ ~ (k + 1 <= m) /\ (k + 1) - m = q + 1
      BY <3>a
    <3> DEFINE j == k + 1
    <3>b. j \in 1 .. m + n /\ ~ (j <= m) /\ j - m = q + 1
      BY <3>2
    <3> HIDE DEF j
    <3>c. r[j] = s[j - m]
      BY <1>a, <3>b
    <3>3. r[k + 1] = s[q + 1]
      BY <3>b, <3>c DEF j
    <3> QED BY <1>11, <3>1, <3>2, <3>3
  <2>5. r[k].do = "check" => Len(r) = k
    BY <1>11, <2>1, <2>2, <2>3
  <2> QED BY <1>11, <2>1, <2>3, <2>4, <2>5 DEF r
<1> QED BY <1>15, <1>16

\* A list with one delete, two commands after the view that it deletes.
ViewsAndDeletes(s, p) ==
  /\ s \in Seq(Commands)
  /\ \A k \in DOMAIN s :
       /\ s[k].do \notin {"wake", "count", "check"}
       /\ s[k].do = "delete" =>
            /\ k > 2 /\ s[k].p = p /\ s[k - 2].do = "view" /\ s[k - 2].p = p
            /\ \A j \in DOMAIN s : s[j].do = "delete" => j = k

\* Plain commands before and after it change nothing in that.
LEMMA PlainAround ==
  ASSUME NEW p, NEW a \in Seq(Plain), NEW b, ViewsAndDeletes(b, p), NEW t \in Seq(Plain)
  PROVE  ViewsAndDeletes(a \o b, p) /\ ViewsAndDeletes(b \o t, p)
<1>1. /\ a \in Seq(Commands) /\ b \in Seq(Commands) /\ t \in Seq(Commands)
      /\ Len(a) \in Nat /\ Len(b) \in Nat /\ Len(t) \in Nat
      /\ DOMAIN a = 1 .. Len(a) /\ DOMAIN b = 1 .. Len(b) /\ DOMAIN t = 1 .. Len(t)
  BY DEF Plain, ViewsAndDeletes
<1>2. \A k \in DOMAIN b :
        /\ b[k].do \notin {"wake", "count", "check"}
        /\ b[k].do = "delete" =>
             /\ k > 2 /\ b[k].p = p /\ b[k - 2].do = "view" /\ b[k - 2].p = p
             /\ \A j \in DOMAIN b : b[j].do = "delete" => j = k
  BY DEF ViewsAndDeletes
<1>3. ViewsAndDeletes(a \o b, p)
  <2> DEFINE r == a \o b
             m == Len(a)
             n == Len(b)
  <2>1. /\ r \in Seq(Commands) /\ Len(r) = m + n /\ DOMAIN r = 1 .. m + n
        /\ \A i \in 1 .. m + n : r[i] = IF i <= m THEN a[i] ELSE b[i - m]
    <3>1. /\ r \in Seq(Commands) /\ Len(r) = m + n
          /\ \A i \in 1 .. m + n : r[i] = IF i <= m THEN a[i] ELSE b[i - m]
      BY <1>1, ConcatProperties
    <3> QED BY <3>1, LenProperties
  <2>2. \A i \in 1 .. m : a[i] \in Plain
    BY <1>1, ElementOfSeq
  <2>3. m \in Nat /\ n \in Nat /\ DOMAIN b = 1 .. n
    BY <1>1
  <2> HIDE DEF r, m, n
  <2>4. ASSUME NEW k \in 1 .. m + n
        PROVE  \/ k \in 1 .. m /\ r[k].do \notin {"count", "check", "wake", "delete"}
               \/ k - m \in 1 .. n /\ r[k] = b[k - m]
    <3>1. CASE k <= m
      <4>1. k \in 1 .. m
        BY <3>1
      <4>2. r[k] \in Plain
        BY <2>1, <2>2, <3>1, <4>1
      <4> QED BY <4>1, <4>2 DEF Plain
    <3>2. CASE ~ (k <= m)
      BY <2>1, <2>3, <3>2
    <3> QED BY <3>1, <3>2
  <2>5. ASSUME NEW k \in 1 .. m + n PROVE r[k].do \notin {"wake", "count", "check"}
    BY <1>2, <2>3, <2>4
  <2>6. ASSUME NEW k \in 1 .. m + n, r[k].do = "delete"
        PROVE  /\ k > 2 /\ r[k].p = p /\ r[k - 2].do = "view" /\ r[k - 2].p = p
               /\ \A j \in 1 .. m + n : r[j].do = "delete" => j = k
    <3>1. k - m \in 1 .. n /\ r[k] = b[k - m]
      BY <2>4, <2>6
    <3>2. k - m > 2 /\ b[k - m].p = p /\ b[(k - m) - 2].do = "view" /\ b[(k - m) - 2].p = p
      BY <1>2, <2>3, <2>6, <3>1
    <3>3. k - 2 \in 1 .. m + n /\ ~ (k - 2 <= m) /\ (k - 2) - m = (k - m) - 2 /\ k > 2
      <4>1. k - m > 2
        BY <3>2
      <4> QED BY <2>3, <4>1
    <3>4. r[k - 2] = b[(k - m) - 2]
      <4> DEFINE j == k - 2
      <4>1. j \in 1 .. m + n /\ ~ (j <= m) /\ j - m = (k - m) - 2
        BY <3>3
      <4> HIDE DEF j
      <4>2. r[j] = b[j - m]
        BY <2>1, <4>1
      <4> QED BY <4>1, <4>2 DEF j
    <3>5. ASSUME NEW j \in 1 .. m + n, r[j].do = "delete" PROVE j = k
      <4>1. j - m \in 1 .. n /\ r[j] = b[j - m]
        BY <2>4, <3>5
      <4>2. j - m = k - m
        BY <1>2, <2>3, <2>6, <3>1, <3>5, <4>1
      <4> QED BY <2>3, <4>2
    <3> QED BY <3>1, <3>2, <3>3, <3>4, <3>5
  <2> QED BY <2>1, <2>5, <2>6 DEF ViewsAndDeletes, r
<1>4. ViewsAndDeletes(b \o t, p)
  <2> DEFINE r == b \o t
             m == Len(b)
             n == Len(t)
  <2>1. /\ r \in Seq(Commands) /\ Len(r) = m + n /\ DOMAIN r = 1 .. m + n
        /\ \A i \in 1 .. m + n : r[i] = IF i <= m THEN b[i] ELSE t[i - m]
    <3>1. /\ r \in Seq(Commands) /\ Len(r) = m + n
          /\ \A i \in 1 .. m + n : r[i] = IF i <= m THEN b[i] ELSE t[i - m]
      BY <1>1, ConcatProperties
    <3> QED BY <3>1, LenProperties
  <2>2. \A i \in 1 .. n : t[i] \in Plain
    BY <1>1, ElementOfSeq
  <2>3. m \in Nat /\ n \in Nat /\ DOMAIN b = 1 .. m
    BY <1>1
  <2> HIDE DEF r, m, n
  <2>4. ASSUME NEW k \in 1 .. m + n
        PROVE  \/ k \in 1 .. m /\ r[k] = b[k]
               \/ r[k].do \notin {"count", "check", "wake", "delete"}
    <3>1. CASE k <= m
      BY <2>1, <3>1
    <3>2. CASE ~ (k <= m)
      <4>1. k - m \in 1 .. n
        BY <2>3, <3>2
      <4>2. r[k] \in Plain
        BY <2>1, <2>2, <3>2, <4>1
      <4> QED BY <4>2 DEF Plain
    <3> QED BY <3>1, <3>2
  <2>5. ASSUME NEW k \in 1 .. m + n PROVE r[k].do \notin {"wake", "count", "check"}
    BY <1>2, <2>3, <2>4
  <2>6. ASSUME NEW k \in 1 .. m + n, r[k].do = "delete"
        PROVE  /\ k > 2 /\ r[k].p = p /\ r[k - 2].do = "view" /\ r[k - 2].p = p
               /\ \A j \in 1 .. m + n : r[j].do = "delete" => j = k
    <3>1. k \in 1 .. m /\ r[k] = b[k]
      BY <2>4, <2>6
    <3>2. k > 2 /\ b[k].p = p /\ b[k - 2].do = "view" /\ b[k - 2].p = p
      BY <1>2, <2>3, <2>6, <3>1
    <3>3. k - 2 \in 1 .. m + n /\ k - 2 <= m
      BY <2>3, <3>1, <3>2
    <3>4. r[k - 2] = b[k - 2]
      BY <2>1, <3>3
    <3>5. ASSUME NEW j \in 1 .. m + n, r[j].do = "delete" PROVE j = k
      BY <1>2, <2>3, <2>4, <2>6, <3>1, <3>5
    <3> QED BY <3>1, <3>2, <3>4, <3>5
  <2> QED BY <2>1, <2>5, <2>6 DEF ViewsAndDeletes, r
<1> QED BY <1>3, <1>4

\* What the core that starts the image has to do: it makes a process of the
\* image, and the loader deletes only the view it has made before.
LoaderProgram(p) == NnxStartUserProcess(p) \o IF together THEN <<>> ELSE NnxDummyLdrThread(p)

\* The commands of a core that starts the image: a plain list, and the loader's, which
\* deletes the view that it has made.
LEMMA LoaderCommands ==
  ASSUME NEW p \in Processes
  PROVE  /\ ViewsAndDeletes(LoaderProgram(p), p)
         /\ \E k \in DOMAIN LoaderProgram(p) : /\ LoaderProgram(p)[k].do = "space"
                                               /\ LoaderProgram(p)[k].p = p
<1> DEFINE a == NnxStartUserProcess(p)
           v == [i \in DOMAIN ImageSections |-> Command("view", p, i)]
           b == <<Command("view", p, 0), Command("read", p, InitialView), Command("delete", p, 0)>>
           u == UserThread(p)
           e == IF together THEN <<>> ELSE NnxDummyLdrThread(p)
<1>1. Early \subseteq Plain /\ Plain \subseteq Commands
  BY DEF Early, Plain
<1>2. a \in Seq(Plain) /\ u \in Seq(Plain)
  BY <1>1, PlainLists
<1>3. v \in Seq(Plain)
  <2>1. Len(ImageSections) \in Nat /\ DOMAIN ImageSections = 1 .. Len(ImageSections)
    BY MemoryAssumption, LenProperties
  <2>2. \A i \in 1 .. Len(ImageSections) : Command("view", p, i) \in Plain
    BY <1>1, <2>1, PlainCommands
  <2>3. v \in [1 .. Len(ImageSections) -> Plain]
    BY <2>1, <2>2
  <2> QED BY <2>1, <2>3, FunctionsAreSequences
<1>4. ViewsAndDeletes(b, p)
  <2>0. 0 \in 0 .. Len(ImageSections)
    BY MemoryAssumption, LenProperties
  <2>1. /\ Command("view", p, 0) \in Commands /\ Command("read", p, InitialView) \in Commands
        /\ Command("delete", p, 0) \in Commands
    BY <1>1, <2>0, MemoryAssumption, PlainCommands
  <2>2. b \in Seq(Commands) /\ DOMAIN b = {1, 2, 3}
    BY <2>1
  <2>3. /\ b[1].do = "view" /\ b[1].p = p /\ b[2].do = "read" /\ b[3].do = "delete" /\ b[3].p = p
    BY CommandFields
  <2> HIDE DEF b
  <2> QED BY <2>2, <2>3 DEF ViewsAndDeletes
<1>5. NnxDummyLdrThread(p) = (b \o v) \o u
  BY DEF NnxDummyLdrThread
<1>6. ViewsAndDeletes(e, p) /\ e \in Seq(Commands)
  <2>1. CASE together
    <3>1. <<>> \in Seq(Commands) /\ DOMAIN <<>> = {}
      OBVIOUS
    <3>2. e = <<>>
      BY <2>1
    <3> QED BY <3>1, <3>2 DEF ViewsAndDeletes
  <2>2. CASE ~ together
    <3> HIDE DEF b, v, u
    <3>1. ViewsAndDeletes((b \o v) \o u, p)
      BY <1>2, <1>3, <1>4, PlainAround
    <3>2. e = (b \o v) \o u
      BY <1>5, <2>2
    <3>3. (b \o v) \o u \in Seq(Commands)
      BY <3>1 DEF ViewsAndDeletes
    <3> HIDE DEF e
    <3> QED BY <3>1, <3>2, <3>3
  <2> QED BY <2>1, <2>2
<1>7. LoaderProgram(p) = a \o e
  BY DEF LoaderProgram
<1>8. \E k \in 1 .. Len(a) : a[k].do = "space" /\ a[k].p = p
  <2> DEFINE x == <<Command("lock", p, 0)>> \o <<Command("space", p, 0)>> \o <<Command("unlock", p, 0)>>
             y == Locked(p, ThreadStacks(p))
  <2>1. NtCreateProcess(p) = x
    BY DEF NtCreateProcess, Locked
  <2>2. /\ <<Command("lock", p, 0)>> \in Seq(Commands) /\ <<Command("space", p, 0)>> \in Seq(Commands)
        /\ <<Command("unlock", p, 0)>> \in Seq(Commands)
    BY <1>1, PlainCommands
  <2>3. <<Command("lock", p, 0)>> \o <<Command("space", p, 0)>> \in Seq(Commands)
        /\ Len(<<Command("lock", p, 0)>> \o <<Command("space", p, 0)>>) = 2
        /\ (<<Command("lock", p, 0)>> \o <<Command("space", p, 0)>>)[2] = Command("space", p, 0)
    BY <2>2, ConcatProperties
  <2>4. x \in Seq(Commands) /\ Len(x) = 3 /\ x[2] = Command("space", p, 0)
    BY <2>2, <2>3, ConcatProperties
  <2>5. y \in Seq(Commands)
    <3>1. ThreadStacks(p) \in Seq(Commands)
      BY <1>1, PlainLists
    <3> QED BY <2>2, <3>1, ConcatProperties DEF Locked
  <2>6. a = x \o y
    BY <2>1 DEF NnxStartUserProcess
  <2> HIDE DEF a, x, y
  <2>7. /\ Len(a) = 3 + Len(y) /\ Len(y) \in Nat
        /\ \A i \in 1 .. 3 + Len(y) : a[i] = IF i <= 3 THEN x[i] ELSE y[i - 3]
    <3>1. /\ Len(a) = Len(x) + Len(y)
          /\ \A i \in 1 .. Len(x) + Len(y) : a[i] = IF i <= Len(x) THEN x[i] ELSE y[i - Len(x)]
      BY <2>4, <2>5, <2>6, ConcatProperties
    <3>2. Len(y) \in Nat
      BY <2>5
    <3> QED BY <2>4, <3>1, <3>2
  <2>8. 2 \in 1 .. Len(a) /\ a[2] = Command("space", p, 0)
    BY <2>4, <2>7
  <2> QED BY <2>8, CommandFields
<1> HIDE DEF a, e
<1>9. ViewsAndDeletes(a \o e, p)
  BY <1>2, <1>6, PlainAround
<1>10. \E k \in DOMAIN (a \o e) : (a \o e)[k].do = "space" /\ (a \o e)[k].p = p
  <2>1. PICK k \in 1 .. Len(a) : a[k].do = "space" /\ a[k].p = p
    BY <1>8
  <2>2. a \in Seq(Commands)
    BY <1>1, <1>2
  <2>3. /\ a \o e \in Seq(Commands) /\ Len(a \o e) = Len(a) + Len(e)
        /\ \A i \in 1 .. Len(a) + Len(e) : (a \o e)[i] = IF i <= Len(a) THEN a[i] ELSE e[i - Len(a)]
    BY <1>6, <2>2, ConcatProperties
  <2>4. Len(a) \in Nat /\ Len(e) \in Nat /\ DOMAIN (a \o e) = 1 .. Len(a \o e)
    BY <1>6, <2>2, <2>3, LenProperties
  <2>5. k \in 1 .. Len(a) + Len(e) /\ k <= Len(a)
    BY <2>1, <2>4
  <2>6. (a \o e)[k] = a[k]
    BY <2>3, <2>5
  <2>7. k \in DOMAIN (a \o e)
    BY <2>3, <2>4, <2>5
  <2> QED BY <2>1, <2>6, <2>7
<1> QED BY <1>7, <1>9, <1>10

-----------------------------------------------------------------------------
\* There are as many cores as the list names, and no more than that uncounted.
LEMMA CoresFinite ==
  /\ IsFiniteSet(Cores) /\ Cardinality(Cores) = Len(CoreList)
  /\ Len(CoreList) \in Nat \ {0}
  /\ IsFiniteSet(Uncounted) /\ Cardinality(Uncounted) \in Nat
  /\ Cardinality(Uncounted) <= Len(CoreList)
  /\ Cardinality(Uncounted) = 0 => Uncounted = {}
<1>1. CoreList \in Seq(Cores) /\ CoreList # <<>> /\ IsInjective(CoreList)
  BY MemoryAssumption
<1>2. IsFiniteSet(Cores) /\ Cardinality(Cores) = Len(CoreList)
  BY <1>1, InjectiveCardinality DEF Cores
<1>3. Len(CoreList) \in Nat \ {0}
  BY <1>1, EmptySeq
<1>4. Uncounted \in SUBSET Cores
  BY DEF Uncounted
<1>5. IsFiniteSet(Uncounted) /\ Cardinality(Uncounted) <= Cardinality(Cores)
  BY <1>2, <1>4, FS_Subset
<1>6. Cardinality(Uncounted) \in Nat
  BY <1>5, FS_CardinalityType
<1>7. Cardinality(Uncounted) = 0 => Uncounted = {}
  BY <1>5, FS_EmptySet
<1> QED BY <1>2, <1>3, <1>5, <1>6, <1>7

\* When the count is complete, every core has counted itself.
LEMMA AllCounted ==
  ASSUME MemoryInv, phase = "running", initialised = Len(CoreList)
  PROVE  Uncounted = {}
<1>1. initialised + Cardinality(Uncounted) <= Len(CoreList)
  BY DEF MemoryInv, Plans, CountedFirst
<1>2. Cardinality(Uncounted) = 0
  BY <1>1, CoresFinite
<1> QED BY <1>2, CoresFinite

\* A process has threads only when all cores are counted.
LEMMA ThreadsCounted ==
  ASSUME MemoryInv, NEW p \in Processes, threads[p] # 0
  PROVE  Uncounted = {}
BY DEF MemoryInv, Plans, CountedFirst

\* Nothing is to be done at first.
LEMMA MemoryInvInit == Init => MemoryInv
<1> SUFFICES ASSUME Init PROVE MemoryInv
  OBVIOUS
<1>1. /\ core = [c \in Cores |-> Nothing] /\ phase = "loaded" /\ stacks = {} /\ initialised = 0
      /\ threads = [p \in Processes |-> 0] /\ views = [p \in Processes |-> <<>>]
      /\ locks = [dispatcher |-> Free, paging |-> Free, space |-> [p \in Processes |-> Free], section |-> Free]
  BY DEF Init
<1>2. /\ Nothing.todo = <<>> /\ Nothing.pc = "start" /\ Nothing.at = None
      /\ \A c \in Cores : core[c] = Nothing
      /\ <<>> \in Seq(Commands) /\ DOMAIN <<>> = {}
  BY <1>1 DEF Nothing
<1>3. Typed
  <2>1. ASSUME NEW c \in Cores
        PROVE  core[c] \in [todo : Seq(Commands), pc : Steps, at : {core[c].at}, reg : {core[c].reg}]
    <3>1. core[c] = [todo |-> <<>>, pc |-> "start", at |-> -1, reg |-> <<>>]
      BY <1>2 DEF Nothing, None
    <3>2. core[c].reg = <<>>
      BY <3>1
    <3>3. "start" \in Steps /\ <<>> \in Seq(Commands) /\ -1 \in Int
      BY DEF Steps
    <3> QED BY <3>1, <3>2, <3>3
  <2>2. ASSUME NEW p \in Processes
        PROVE  views[p] \in Seq(Range(views[p])) /\ Range(views[p]) = {}
    BY <1>1 DEF Range
  <2>3. core = [c \in Cores |-> core[c]] /\ views = [p \in Processes |-> views[p]]
    BY <1>1
  <2>4. threads \in [Processes -> Nat]
    BY <1>1
  <2>5. locks = [dispatcher |-> locks.dispatcher, paging |-> locks.paging,
                 space |-> locks.space, section |-> locks.section]
    BY <1>1
  <2> QED BY <1>1, <2>1, <2>2, <2>3, <2>4, <2>5 DEF Typed
<1>4. StepsFit /\ PlacesAreFree /\ StacksApart
  BY <1>1, <1>2 DEF StepsFit, PlacesAreFree, StacksApart, MakesStack
<1>5. \A c \in Cores : DOMAIN core[c].todo = {}
  BY <1>2
<1>6. Uncounted = {}
  BY <1>5, SpacesDiffer DEF Uncounted, Has, ToBeWoken
<1>7. WakesOnce /\ CountsOnce /\ DeletesItsView
  BY <1>5 DEF WakesOnce, CountsOnce, DeletesItsView
<1>8. CountedFirst /\ ImageOnItsWay
  BY <1>1, <1>6, CoresFinite DEF CountedFirst, ImageOnItsWay
<1> QED BY <1>3, <1>4, <1>7, <1>8 DEF MemoryInv, Plans

-----------------------------------------------------------------------------
\* A step that leaves alone what cores have to do keeps the plans.
LEMMA PlansStay ==
  ASSUME MemoryInv, \A d \in Cores : core'[d].todo = core[d].todo,
         phase' = phase, initialised' = initialised, threads' = threads,
         \A p \in Processes : views[p] # <<>> => views'[p] # <<>>,
         DOMAIN tables \subseteq DOMAIN tables'
  PROVE  Plans'
<1>0. Plans /\ First \in Cores
  BY SpacesDiffer DEF MemoryInv
<1>1. \A d \in Cores : \A what : Has(d, what)' <=> Has(d, what)
  BY DEF Has
<1>2. \A d \in Cores : ToBeWoken(d)' <=> ToBeWoken(d)
  BY <1>0 DEF ToBeWoken
<1>3. Uncounted' = Uncounted
  BY <1>1, <1>2 DEF Uncounted
<1>4. WakesOnce'
  BY <1>0 DEF Plans, WakesOnce
<1>5. CountsOnce'
  BY <1>0 DEF Plans, CountsOnce
<1>6. CountedFirst'
  BY <1>0, <1>1, <1>3 DEF Plans, CountedFirst
<1>7. DeletesItsView'
  <2>1. \A d \in Cores : Image(d) \in Processes
    BY SpacesDiffer
  <2> QED BY <1>0, <2>1 DEF Plans, DeletesItsView
<1>8. ImageOnItsWay'
  BY <1>0, <1>1 DEF Plans, ImageOnItsWay
<1> QED BY <1>4, <1>5, <1>6, <1>7, <1>8 DEF Plans

\* The first command of a core is done.
LEMMA TailOfTodo ==
  ASSUME Typed, NEW c \in Cores, core[c].todo # <<>>, core'[c].todo = Tail(core[c].todo)
  PROVE  /\ Len(core[c].todo) \in Nat \ {0} /\ DOMAIN core[c].todo = 1 .. Len(core[c].todo)
         /\ Doing(c) \in Commands /\ Doing(c) = core[c].todo[1]
         /\ core'[c].todo \in Seq(Commands) /\ Len(core'[c].todo) = Len(core[c].todo) - 1
         /\ DOMAIN core'[c].todo = 1 .. Len(core[c].todo) - 1
         /\ \A k \in 1 .. Len(core[c].todo) - 1 :
              k + 1 \in 1 .. Len(core[c].todo) /\ core'[c].todo[k] = core[c].todo[k + 1]
<1> DEFINE t == core[c].todo
           r == core'[c].todo
<1>1. t \in Seq(Commands) /\ t # <<>> /\ r = Tail(t)
  BY DEF Typed
<1>2. Doing(c) = Head(t)
  BY DEF Doing
<1> HIDE DEF t, r
<1>3. /\ Len(t) \in Nat \ {0} /\ DOMAIN t = 1 .. Len(t) /\ Head(t) = t[1] /\ Head(t) \in Commands
  BY <1>1, EmptySeq, LenProperties, HeadTailProperties
<1>4. /\ r \in Seq(Commands) /\ Len(r) = Len(t) - 1
      /\ \A k \in 1 .. Len(r) : r[k] = t[k + 1]
  BY <1>1, HeadTailProperties
<1>5. DOMAIN r = 1 .. Len(t) - 1
  BY <1>4, LenProperties
<1>6. \A k \in 1 .. Len(t) - 1 : k + 1 \in 1 .. Len(t)
  BY <1>3
<1> QED BY <1>2, <1>3, <1>4, <1>5, <1>6 DEF t, r

\* What the plans need to know of a step that is the last of a command.
Completes(c) ==
  /\ core[c].todo # <<>> /\ core'[c].todo = Tail(core[c].todo)
  /\ \A d \in Cores \ {c} : core'[d].todo = core[d].todo
  /\ phase = "running" /\ phase' = phase
  /\ Doing(c).do \notin {"wake", "check"}
  /\ initialised' = IF Doing(c).do = "count" THEN initialised + 1 ELSE initialised
  /\ Doing(c).do # "thread" => threads' = threads
  /\ \A p \in Processes :
       views[p] # <<>> /\ ~ (Doing(c).do = "delete" /\ Doing(c).p = p) => views'[p] # <<>>
  /\ Doing(c).do = "view" => views'[Doing(c).p] # <<>>
  /\ DOMAIN tables \subseteq DOMAIN tables'
  /\ Doing(c).do = "space" => TopTable(Doing(c).p) \in DOMAIN tables'

\* Such a step keeps the plans.
LEMMA PlansTail ==
  ASSUME MemoryInv, NEW c \in Cores, Completes(c)
  PROVE  Plans'
<1> DEFINE t == core[c].todo
           r == core'[c].todo
           n == Len(t)
<1>0. Plans /\ First \in Cores /\ Typed
  BY SpacesDiffer DEF MemoryInv
<1>1. /\ n \in Nat \ {0} /\ DOMAIN t = 1 .. n
      /\ Doing(c) = t[1]
      /\ r \in Seq(Commands) /\ Len(r) = n - 1
      /\ DOMAIN r = 1 .. n - 1
      /\ \A k \in 1 .. n - 1 : k + 1 \in 1 .. n /\ r[k] = t[k + 1]
  BY <1>0, TailOfTodo DEF Completes
<1> HIDE DEF n
<1>2. \A k \in 1 .. n : k = 1 \/ (k - 1 \in 1 .. n - 1 /\ r[k - 1] = t[k])
  <2> TAKE k \in 1 .. n
  <2>1. CASE k # 1
    <3>1. k - 1 \in 1 .. n - 1 /\ (k - 1) + 1 = k
      BY <1>1, <2>1
    <3> QED BY <1>1, <3>1
  <2> QED BY <2>1
<1>3. ASSUME NEW d \in Cores, NEW what
      PROVE  /\ Has(d, what)' => Has(d, what)
             /\ Has(d, what) /\ (d = c => Doing(c).do # what) => Has(d, what)'
  <2>1. CASE d = c
    <3>1. ASSUME Has(c, what)' PROVE Has(c, what)
      <4>1. PICK k \in 1 .. n - 1 : r[k].do = what
        BY <1>1, <3>1 DEF Has
      <4>2. k + 1 \in 1 .. n /\ t[k + 1].do = what
        BY <1>1, <4>1
      <4> QED BY <1>1, <4>2 DEF Has
    <3>2. ASSUME Has(c, what), Doing(c).do # what PROVE Has(c, what)'
      <4>1. PICK k \in 1 .. n : t[k].do = what
        BY <1>1, <3>2 DEF Has
      <4>2. k - 1 \in 1 .. n - 1 /\ r[k - 1] = t[k]
        BY <1>1, <1>2, <3>2, <4>1
      <4> QED BY <1>1, <4>1, <4>2 DEF Has
    <3> QED BY <2>1, <3>1, <3>2
  <2>2. CASE d # c
    <3>1. core'[d].todo = core[d].todo
      BY <2>2 DEF Completes
    <3> QED BY <2>2, <3>1 DEF Has
  <2> QED BY <2>1, <2>2
<1>4. ASSUME NEW o \in Cores, ToBeWoken(o)' PROVE ToBeWoken(o)
  <2>1. CASE First = c
    <3>1. PICK k \in 1 .. n - 1 : r[k].do = "wake" /\ r[k].p = IdleProcess(o)
      BY <1>1, <1>4, <2>1 DEF ToBeWoken
    <3>2. k + 1 \in 1 .. n /\ t[k + 1] = r[k]
      BY <1>1, <3>1
    <3> QED BY <1>1, <2>1, <3>1, <3>2 DEF ToBeWoken
  <2>2. CASE First # c
    <3>1. core'[First].todo = core[First].todo
      BY <1>0, <2>2 DEF Completes
    <3> QED BY <1>4, <3>1 DEF ToBeWoken
  <2> QED BY <2>1, <2>2
<1>5. Uncounted' \subseteq Uncounted
  BY <1>3, <1>4 DEF Uncounted
<1>6. WakesOnce'
  <2> SUFFICES ASSUME NEW d \in Cores, NEW k \in DOMAIN core'[d].todo, core'[d].todo[k].do = "wake"
               PROVE  /\ d = First
                      /\ \E o \in Cores \ {First} : core'[d].todo[k].p = IdleProcess(o) /\ core'[o].todo = <<>>
                      /\ \A j \in DOMAIN core'[d].todo :
                           core'[d].todo[j].do = "wake" /\ core'[d].todo[j].p = core'[d].todo[k].p => j = k
    BY DEF WakesOnce
  <2>1. ASSUME NEW o \in Cores, core[o].todo = <<>> PROVE core'[o].todo = <<>>
    BY <2>1 DEF Completes
  <2>2. CASE d = c
    <3>1. k \in 1 .. n - 1 /\ k + 1 \in 1 .. n /\ r[k] = t[k + 1]
      BY <1>1, <2>2
    <3>2. t[k + 1].do = "wake"
      BY <2>2, <3>1
    <3>3. /\ c = First
          /\ \E o \in Cores \ {First} : t[k + 1].p = IdleProcess(o) /\ core[o].todo = <<>>
          /\ \A j \in 1 .. n : t[j].do = "wake" /\ t[j].p = t[k + 1].p => j = k + 1
      BY <1>0, <1>1, <3>1, <3>2 DEF Plans, WakesOnce
    <3>4. ASSUME NEW j \in 1 .. n - 1, r[j].do = "wake", r[j].p = r[k].p PROVE j = k
      <4>1. j + 1 \in 1 .. n /\ r[j] = t[j + 1]
        BY <1>1
      <4>2. j + 1 = k + 1
        BY <3>1, <3>3, <3>4, <4>1
      <4> QED BY <3>1, <4>2
    <3> QED BY <1>1, <2>1, <2>2, <3>1, <3>3, <3>4
  <2>3. CASE d # c
    <3>1. core'[d].todo = core[d].todo
      BY <2>3 DEF Completes
    <3> QED BY <1>0, <2>1, <3>1 DEF Plans, WakesOnce
  <2> QED BY <2>2, <2>3
<1>7. CountsOnce'
  <2> SUFFICES ASSUME NEW d \in Cores, NEW k \in DOMAIN core'[d].todo
               PROVE  /\ core'[d].todo[k].do = "count" =>
                           Len(core'[d].todo) = k + 1 /\ core'[d].todo[k + 1].do = "check"
                      /\ core'[d].todo[k].do = "check" => Len(core'[d].todo) = k
    BY DEF CountsOnce
  <2>1. CASE d = c
    <3>1. k \in 1 .. n - 1 /\ k + 1 \in 1 .. n /\ r[k] = t[k + 1]
      BY <1>1, <2>1
    <3>2. /\ t[k + 1].do = "count" => n = (k + 1) + 1 /\ t[(k + 1) + 1].do = "check"
          /\ t[k + 1].do = "check" => n = k + 1
      BY <1>0, <1>1, <3>1 DEF Plans, CountsOnce, n
    <3>3. ASSUME t[k + 1].do = "count" PROVE Len(r) = k + 1 /\ r[k + 1].do = "check"
      <4>1. n = (k + 1) + 1 /\ t[(k + 1) + 1].do = "check"
        BY <3>2, <3>3
      <4>2. k + 1 \in 1 .. n - 1 /\ n - 1 = k + 1
        BY <1>1, <3>1, <4>1
      <4>3. r[k + 1] = t[(k + 1) + 1]
        BY <1>1, <4>2
      <4> QED BY <1>1, <4>1, <4>2, <4>3
    <3>4. t[k + 1].do = "check" => Len(r) = k
      BY <1>1, <3>1, <3>2
    <3> QED BY <2>1, <3>1, <3>3, <3>4
  <2>2. CASE d # c
    <3>1. core'[d].todo = core[d].todo
      BY <2>2 DEF Completes
    <3> QED BY <1>0, <3>1 DEF Plans, CountsOnce
  <2> QED BY <2>1, <2>2
<1>8. CountedFirst'
  <2>1. initialised' + Cardinality(Uncounted') <= Len(CoreList)
    <3>1. initialised + Cardinality(Uncounted) <= Len(CoreList) /\ initialised \in Nat
      BY <1>0 DEF Plans, CountedFirst, Completes, Typed
    <3>2. CASE Doing(c).do # "count"
      <4>1. IsFiniteSet(Uncounted') /\ Cardinality(Uncounted') <= Cardinality(Uncounted)
        BY <1>5, CoresFinite, FS_Subset
      <4>2. Cardinality(Uncounted') \in Nat /\ initialised' = initialised
        BY <3>2, <4>1, FS_CardinalityType DEF Completes
      <4> QED BY <3>1, <4>1, <4>2, CoresFinite
    <3>3. CASE Doing(c).do = "count"
      <4>1. c \in Uncounted
        BY <1>1, <3>3 DEF Uncounted, Has
      <4>2. n = 2 /\ t[2].do = "check"
        <5>1. 1 \in DOMAIN t /\ t[1].do = "count"
          BY <1>1, <3>3
        <5>2. Len(t) = 1 + 1 /\ t[1 + 1].do = "check"
          BY <1>0, <5>1 DEF Plans, CountsOnce
        <5> QED BY <5>2 DEF n
      <4>3. ~ Has(c, "count")'
        <5>1. DOMAIN r = {1} /\ r[1] = t[2]
          BY <1>1, <4>2
        <5> QED BY <4>2, <5>1 DEF Has
      <4>4. ~ ToBeWoken(c)
        <5>1. SUFFICES ASSUME ToBeWoken(c) PROVE FALSE
          OBVIOUS
        <5>2. PICK k \in DOMAIN core[First].todo :
                /\ core[First].todo[k].do = "wake"
                /\ core[First].todo[k].p = IdleProcess(c)
          BY <5>1 DEF ToBeWoken
        <5>3. PICK o \in Cores : core[First].todo[k].p = IdleProcess(o) /\ core[o].todo = <<>>
          BY <1>0, <5>2 DEF Plans, WakesOnce
        <5>4. o = c
          BY <5>2, <5>3, SpacesDiffer
        <5> QED BY <5>3, <5>4 DEF Completes
      <4>5. Uncounted' \subseteq Uncounted \ {c}
        BY <1>4, <1>5, <4>3, <4>4 DEF Uncounted
      <4>6. /\ IsFiniteSet(Uncounted \ {c})
            /\ Cardinality(Uncounted \ {c}) = Cardinality(Uncounted) - 1
        BY <4>1, CoresFinite, FS_RemoveElement
      <4>7. IsFiniteSet(Uncounted') /\ Cardinality(Uncounted') <= Cardinality(Uncounted) - 1
        BY <4>5, <4>6, FS_Subset
      <4>8. Cardinality(Uncounted') \in Nat /\ initialised' = initialised + 1
        BY <3>3, <4>7, FS_CardinalityType DEF Completes
      <4> QED BY <3>1, <4>7, <4>8, CoresFinite
    <3> QED BY <3>2, <3>3
  <2>2. ASSUME Uncounted' # {}
        PROVE  /\ \A p \in Processes : threads'[p] = 0
               /\ \A d \in Cores : ~ Has(d, "thread")'
    <3>1. /\ \A p \in Processes : threads[p] = 0
          /\ \A d \in Cores : ~ Has(d, "thread")
      BY <1>0, <1>5, <2>2 DEF Plans, CountedFirst
    <3>2. Doing(c).do # "thread"
      BY <1>1, <3>1 DEF Has
    <3>3. threads' = threads
      BY <3>2 DEF Completes
    <3> QED BY <1>3, <3>1, <3>3
  <2> QED BY <2>1, <2>2 DEF CountedFirst
<1>9. DeletesItsView'
  <2> SUFFICES ASSUME NEW d \in Cores, NEW k \in DOMAIN core'[d].todo, core'[d].todo[k].do = "delete"
               PROVE  /\ core'[d].todo[k].p = Image(d)
                      /\ \A j \in DOMAIN core'[d].todo : core'[d].todo[j].do = "delete" => j = k
                      /\ views'[Image(d)] = <<>> =>
                           /\ k > 2 /\ core'[d].todo[k - 2].do = "view"
                           /\ core'[d].todo[k - 2].p = Image(d)
    BY DEF DeletesItsView
  <2>1. Image(d) \in Processes /\ (d # c => Image(d) # Image(c))
    BY SpacesDiffer
  <2>2. CASE d = c
    <3>1. k \in 1 .. n - 1 /\ k + 1 \in 1 .. n /\ r[k] = t[k + 1]
      BY <1>1, <2>2
    <3>2. t[k + 1].do = "delete"
      BY <2>2, <3>1
    <3>3. /\ t[k + 1].p = Image(c)
          /\ \A j \in 1 .. n : t[j].do = "delete" => j = k + 1
          /\ views[Image(c)] = <<>> =>
               /\ k + 1 > 2 /\ t[(k + 1) - 2].do = "view" /\ t[(k + 1) - 2].p = Image(c)
      BY <1>0, <1>1, <3>1, <3>2 DEF Plans, DeletesItsView
    <3>4. ASSUME NEW j \in 1 .. n - 1, r[j].do = "delete" PROVE j = k
      <4>1. j + 1 \in 1 .. n /\ r[j] = t[j + 1]
        BY <1>1
      <4>2. j + 1 = k + 1
        BY <3>3, <3>4, <4>1
      <4> QED BY <3>1, <4>2
    <3>5. ASSUME views'[Image(c)] = <<>>
          PROVE  k > 2 /\ r[k - 2].do = "view" /\ r[k - 2].p = Image(c)
      <4>1. Doing(c).do # "delete"
        <5>1. 1 # k + 1 /\ 1 \in 1 .. n
          BY <1>1, <3>1
        <5> QED BY <1>1, <3>3, <5>1
      <4>2. views[Image(c)] = <<>>
        BY <2>1, <2>2, <3>5, <4>1 DEF Completes
      <4>3. k + 1 > 2 /\ t[(k + 1) - 2].do = "view" /\ t[(k + 1) - 2].p = Image(c)
        BY <3>3, <4>2
      <4>4. (k + 1) - 2 # 1
        <5>1. ASSUME (k + 1) - 2 = 1 PROVE FALSE
          <6>1. Doing(c).do = "view" /\ Doing(c).p = Image(c)
            BY <1>1, <4>3, <5>1
          <6> QED BY <3>5, <6>1 DEF Completes
        <5> QED BY <5>1
      <4>5. k > 2 /\ k - 2 \in 1 .. n - 1 /\ (k - 2) + 1 = (k + 1) - 2
        BY <1>1, <3>1, <4>3, <4>4
      <4>6. r[k - 2] = t[(k + 1) - 2]
        BY <1>1, <4>5
      <4> QED BY <4>3, <4>5, <4>6
    <3> QED BY <1>1, <2>2, <3>1, <3>3, <3>4, <3>5
  <2>3. CASE d # c
    <3>1. core'[d].todo = core[d].todo
      BY <2>3 DEF Completes
    <3>2. views[Image(d)] # <<>> => views'[Image(d)] # <<>>
      <4>1. Doing(c).do = "delete" => Doing(c).p = Image(c)
        <5>1. 1 \in DOMAIN core[c].todo /\ Doing(c) = core[c].todo[1]
          BY <1>1
        <5>2. DeletesItsView
          BY <1>0 DEF Plans
        <5>3. \A j \in DOMAIN core[c].todo :
                core[c].todo[j].do = "delete" => core[c].todo[j].p = Image(c)
          BY <5>2 DEF DeletesItsView
        <5> QED BY <5>1, <5>3
      <4>2. Image(d) \in Processes /\ ~ (Doing(c).do = "delete" /\ Doing(c).p = Image(d))
        BY <2>1, <2>3, <4>1
      <4>3. \A p \in Processes :
              views[p] # <<>> /\ ~ (Doing(c).do = "delete" /\ Doing(c).p = p) => views'[p] # <<>>
        BY DEF Completes
      <4> QED BY <4>2, <4>3
    <3> QED BY <1>0, <3>1, <3>2 DEF Plans, DeletesItsView
  <2> QED BY <2>2, <2>3
<1>10. ImageOnItsWay'
  <2> SUFFICES ASSUME initialised' = Len(CoreList)
               PROVE  \E d \in Cores :
                        \/ Has(d, "check")'
                        \/ \E k \in DOMAIN core'[d].todo :
                             core'[d].todo[k].do = "space" /\ \E o \in Cores : core'[d].todo[k].p = Image(o)
                        \/ TopTable(Image(d)) \in DOMAIN tables'
    BY DEF ImageOnItsWay
  <2>1. CASE Doing(c).do = "count"
    <3>1. 1 \in DOMAIN t /\ t[1].do = "count"
      BY <1>1, <2>1
    <3>2. Len(t) = 1 + 1 /\ t[1 + 1].do = "check"
      BY <1>0, <3>1 DEF Plans, CountsOnce
    <3>3. DOMAIN r = {1} /\ r[1] = t[1 + 1]
      BY <1>1, <3>2 DEF n
    <3> QED BY <3>2, <3>3 DEF Has
  <2>2. CASE Doing(c).do # "count"
    <3>1. initialised = Len(CoreList)
      BY <2>2 DEF Completes
    <3>2. PICK d \in Cores :
            \/ Has(d, "check")
            \/ \E k \in DOMAIN core[d].todo :
                 core[d].todo[k].do = "space" /\ \E o \in Cores : core[d].todo[k].p = Image(o)
            \/ TopTable(Image(d)) \in DOMAIN tables
      BY <1>0, <3>1 DEF Plans, ImageOnItsWay
    <3>3. CASE Has(d, "check")
      BY <1>3, <3>3 DEF Completes
    <3>4. CASE TopTable(Image(d)) \in DOMAIN tables
      BY <3>4 DEF Completes
    <3>5. CASE \E k \in DOMAIN core[d].todo :
                 core[d].todo[k].do = "space" /\ \E o \in Cores : core[d].todo[k].p = Image(o)
      <4>1. PICK k \in DOMAIN core[d].todo, o \in Cores :
              core[d].todo[k].do = "space" /\ core[d].todo[k].p = Image(o)
        BY <3>5
      <4>2. CASE d = c /\ k = 1
        <5>1. Doing(c).do = "space" /\ Doing(c).p = Image(o)
          BY <1>1, <4>1, <4>2
        <5> QED BY <5>1 DEF Completes
      <4>3. CASE d = c /\ k # 1
        <5>1. k - 1 \in 1 .. n - 1 /\ r[k - 1] = t[k]
          BY <1>1, <1>2, <4>1, <4>3
        <5>2. k - 1 \in DOMAIN r /\ r[k - 1].do = "space" /\ r[k - 1].p = Image(o)
          BY <1>1, <4>1, <4>3, <5>1
        <5> QED BY <5>2
      <4>4. CASE d # c
        <5>1. core'[d].todo = core[d].todo
          BY <4>4 DEF Completes
        <5> QED BY <4>1, <5>1
      <4> QED BY <4>2, <4>3, <4>4
    <3> QED BY <3>2, <3>3, <3>4, <3>5
  <2> QED BY <2>1, <2>2
<1> QED BY <1>6, <1>7, <1>8, <1>9, <1>10 DEF Plans

\* A core gets other commands to do, none of them before all cores are counted; one
\* that looks at the complete count gets those that make a process of the image.
LEMMA PlansReplace ==
  ASSUME MemoryInv, NEW c \in Cores, ViewsAndDeletes(core'[c].todo, Image(c)),
         \A d \in Cores \ {c} : core'[d].todo = core[d].todo,
         Uncounted = {} \/ core'[c].todo = <<>>,
         phase = "running", phase' = phase, initialised' = initialised, threads' = threads,
         views' = views, tables' = tables,
         initialised = Len(CoreList) =>
           \/ core[c].todo = <<>>
           \/ \E k \in DOMAIN core'[c].todo :
                core'[c].todo[k].do = "space" /\ core'[c].todo[k].p = Image(c)
  PROVE  Plans'
<1>0. Plans /\ First \in Cores /\ Typed
  BY SpacesDiffer DEF MemoryInv
<1>1. /\ core'[c].todo \in Seq(Commands)
      /\ \A k \in DOMAIN core'[c].todo : core'[c].todo[k].do \notin {"wake", "count", "check"}
  BY DEF ViewsAndDeletes
<1>2. ASSUME NEW d \in Cores, NEW what \in {"count", "check"}, Has(d, what)' PROVE d # c /\ Has(d, what)
  <2>1. d # c
    BY <1>1, <1>2 DEF Has
  <2> QED BY <1>2, <2>1 DEF Has
<1>3. ASSUME NEW o \in Cores, ToBeWoken(o)' PROVE ToBeWoken(o) /\ First # c
  <2>1. First # c
    BY <1>1, <1>3 DEF ToBeWoken
  <2> QED BY <1>0, <1>3, <2>1 DEF ToBeWoken
<1>4. Uncounted' \subseteq Uncounted
  BY <1>2, <1>3 DEF Uncounted
<1>5. WakesOnce'
  <2> SUFFICES ASSUME NEW d \in Cores, NEW k \in DOMAIN core'[d].todo, core'[d].todo[k].do = "wake"
               PROVE  /\ d = First
                      /\ \E o \in Cores \ {First} : core'[d].todo[k].p = IdleProcess(o) /\ core'[o].todo = <<>>
                      /\ \A j \in DOMAIN core'[d].todo :
                           core'[d].todo[j].do = "wake" /\ core'[d].todo[j].p = core'[d].todo[k].p => j = k
    BY DEF WakesOnce
  <2>1. d # c /\ core'[d].todo = core[d].todo
    BY <1>1
  <2>2. /\ d = First
        /\ \A j \in DOMAIN core[d].todo :
             core[d].todo[j].do = "wake" /\ core[d].todo[j].p = core[d].todo[k].p => j = k
    BY <1>0, <2>1 DEF Plans, WakesOnce
  <2>3. PICK o \in Cores \ {First} : core[d].todo[k].p = IdleProcess(o) /\ core[o].todo = <<>>
    BY <1>0, <2>1 DEF Plans, WakesOnce
  <2>4. core'[o].todo = <<>>
    <3>1. o \in Uncounted
      BY <2>1, <2>2, <2>3 DEF Uncounted, ToBeWoken
    <3>2. CASE o = c
      BY <3>1, <3>2
    <3>3. CASE o # c
      BY <2>3, <3>3
    <3> QED BY <3>2, <3>3
  <2> QED BY <2>1, <2>2, <2>3, <2>4
<1>6. CountsOnce'
  <2> SUFFICES ASSUME NEW d \in Cores, NEW k \in DOMAIN core'[d].todo
               PROVE  /\ core'[d].todo[k].do = "count" =>
                           Len(core'[d].todo) = k + 1 /\ core'[d].todo[k + 1].do = "check"
                      /\ core'[d].todo[k].do = "check" => Len(core'[d].todo) = k
    BY DEF CountsOnce
  <2>1. CASE d = c
    BY <1>1, <2>1
  <2>2. CASE d # c
    <3>1. core'[d].todo = core[d].todo
      BY <2>2
    <3> QED BY <1>0, <3>1 DEF Plans, CountsOnce
  <2> QED BY <2>1, <2>2
<1>7. CountedFirst'
  <2>1. initialised' + Cardinality(Uncounted') <= Len(CoreList)
    <3>1. initialised + Cardinality(Uncounted) <= Len(CoreList) /\ initialised \in Nat
      BY <1>0 DEF Plans, CountedFirst, Typed
    <3>2. IsFiniteSet(Uncounted') /\ Cardinality(Uncounted') <= Cardinality(Uncounted)
      BY <1>4, CoresFinite, FS_Subset
    <3>3. Cardinality(Uncounted') \in Nat
      BY <3>2, FS_CardinalityType
    <3> QED BY <3>1, <3>2, <3>3, CoresFinite
  <2>2. ASSUME Uncounted' # {}
        PROVE  /\ \A p \in Processes : threads'[p] = 0
               /\ \A d \in Cores : ~ Has(d, "thread")'
    <3>1. /\ \A p \in Processes : threads[p] = 0
          /\ \A d \in Cores : ~ Has(d, "thread")
      BY <1>0, <1>4, <2>2 DEF Plans, CountedFirst
    <3>2. core'[c].todo = <<>>
      BY <1>4, <2>2
    <3>3. ~ Has(c, "thread")'
      <4>1. DOMAIN core'[c].todo = {}
        BY <3>2
      <4> QED BY <4>1 DEF Has
    <3>4. \A d \in Cores \ {c} : ~ Has(d, "thread")'
      BY <3>1 DEF Has
    <3> QED BY <3>1, <3>3, <3>4
  <2> QED BY <2>1, <2>2 DEF CountedFirst
<1>8. DeletesItsView'
  <2> SUFFICES ASSUME NEW d \in Cores, NEW k \in DOMAIN core'[d].todo, core'[d].todo[k].do = "delete"
               PROVE  /\ core'[d].todo[k].p = Image(d)
                      /\ \A j \in DOMAIN core'[d].todo : core'[d].todo[j].do = "delete" => j = k
                      /\ views'[Image(d)] = <<>> =>
                           /\ k > 2 /\ core'[d].todo[k - 2].do = "view"
                           /\ core'[d].todo[k - 2].p = Image(d)
    BY DEF DeletesItsView
  <2>1. CASE d = c
    BY <2>1 DEF ViewsAndDeletes
  <2>2. CASE d # c
    <3>1. core'[d].todo = core[d].todo
      BY <2>2
    <3> QED BY <1>0, <3>1 DEF Plans, DeletesItsView
  <2> QED BY <2>1, <2>2
<1>9. ImageOnItsWay'
  <2> SUFFICES ASSUME initialised = Len(CoreList)
               PROVE  \E d \in Cores :
                        \/ Has(d, "check")'
                        \/ \E k \in DOMAIN core'[d].todo :
                             core'[d].todo[k].do = "space" /\ \E o \in Cores : core'[d].todo[k].p = Image(o)
                        \/ TopTable(Image(d)) \in DOMAIN tables
    BY DEF ImageOnItsWay
  <2>1. CASE core[c].todo = <<>>
    <3>1. PICK d \in Cores :
            \/ Has(d, "check")
            \/ \E k \in DOMAIN core[d].todo :
                 core[d].todo[k].do = "space" /\ \E o \in Cores : core[d].todo[k].p = Image(o)
            \/ TopTable(Image(d)) \in DOMAIN tables
      BY <1>0 DEF Plans, ImageOnItsWay
    <3>2. CASE d = c
      <4>1. DOMAIN core[c].todo = {}
        BY <2>1
      <4> QED BY <3>1, <3>2, <4>1 DEF Has
    <3>3. CASE d # c
      <4>1. core'[d].todo = core[d].todo
        BY <3>3
      <4>2. Has(d, "check") => Has(d, "check")'
        BY <4>1 DEF Has
      <4> QED BY <3>1, <4>1, <4>2
    <3> QED BY <3>2, <3>3
  <2>2. CASE \E k \in DOMAIN core'[c].todo :
               core'[c].todo[k].do = "space" /\ core'[c].todo[k].p = Image(c)
    BY <2>2
  <2> QED BY <2>1, <2>2
<1> QED BY <1>5, <1>6, <1>7, <1>8, <1>9 DEF Plans

\* A core that is woken has not been woken before, and counts itself later.
LEMMA PlansWake ==
  ASSUME MemoryInv, NEW c \in Cores, ApStartup(c)
  PROVE  /\ Plans'
         /\ \E o \in Cores \ {c} :
              /\ core[o].todo = <<>> /\ core[c].pc = "start"
              /\ core' = [core EXCEPT ![o].todo = ApProcessorInit(o), ![c].todo = Tail(@)]
<1> DEFINE t == core[c].todo
           r == core'[c].todo
           n == Len(t)
           o == Doing(c).p[2]
<1>0. /\ Plans /\ First \in Cores /\ Typed
      /\ t # <<>> /\ core[c].pc = "start" /\ phase = "running"
      /\ core' = [core EXCEPT ![o].todo = ApProcessorInit(o), ![c].todo = Tail(@)]
      /\ phase' = phase /\ initialised' = initialised /\ threads' = threads /\ views' = views
  BY SpacesDiffer DEF MemoryInv, ApStartup, At, Running, sectionVars, history
<1> HIDE DEF o
<1>p. Plans /\ phase' = phase /\ initialised' = initialised /\ threads' = threads /\ views' = views
  BY <1>0
<1>1. /\ n \in Nat \ {0} /\ DOMAIN t = 1 .. n /\ Doing(c) = t[1] /\ 1 \in 1 .. n
  <2>1. t \in Seq(Commands)
    BY <1>0 DEF Typed
  <2>2. n \in Nat \ {0} /\ DOMAIN t = 1 .. n
    BY <1>0, <2>1, EmptySeq, LenProperties
  <2> QED BY <1>0, <2>1, <2>2 DEF Doing
<1>2. /\ c = First
      /\ \E x \in Cores \ {First} : t[1].p = IdleProcess(x) /\ core[x].todo = <<>>
      /\ \A j \in 1 .. n : t[j].do = "wake" /\ t[j].p = t[1].p => j = 1
  <2>1. Doing(c).do = "wake"
    BY DEF ApStartup, At, Doing
  <2> QED BY <1>0, <1>1, <2>1 DEF Plans, WakesOnce
<1>3. o \in Cores \ {c} /\ t[1].p = IdleProcess(o) /\ core[o].todo = <<>>
  <2>1. PICK x \in Cores \ {First} : t[1].p = IdleProcess(x) /\ core[x].todo = <<>>
    BY <1>2
  <2>2. x = o
    BY <1>1, <2>1, SpacesDiffer DEF o
  <2> QED BY <1>2, <2>1, <2>2
<1>4. /\ r = Tail(t) /\ core'[o].todo = ApProcessorInit(o)
      /\ \A d \in Cores : d # c /\ d # o => core'[d].todo = core[d].todo
  <2>1. core = [d \in Cores |-> core[d]] /\ \A d \in Cores : core[d] = [core[d] EXCEPT !.todo = core[d].todo]
    BY <1>0 DEF Typed
  <2>2. \A d \in Cores : core[d] \in [todo : Seq(Commands), pc : Steps, at : {core[d].at}, reg : {core[d].reg}]
    BY <1>0 DEF Typed
  <2> QED BY <1>0, <1>3, <2>1, <2>2
<1>5. /\ Len(r) = n - 1 /\ DOMAIN r = 1 .. n - 1
      /\ \A k \in 1 .. n - 1 : k + 1 \in 1 .. n /\ r[k] = t[k + 1]
  BY <1>0, <1>4, TailOfTodo
<1>6. EndsWithCount(core'[o].todo)
  BY <1>3, <1>4, CoreStarts
<1> HIDE DEF n
<1>7. o \in Uncounted
  <2>1. 1 \in DOMAIN core[First].todo /\ core[First].todo[1].p = IdleProcess(o)
    BY <1>1, <1>2, <1>3
  <2>2. core[First].todo[1].do = "wake"
    BY <1>1, <1>2 DEF ApStartup, At, Doing
  <2> QED BY <1>3, <2>1, <2>2 DEF Uncounted, ToBeWoken
<1>8. ASSUME NEW d \in Cores, NEW what, Has(d, what)', d # o PROVE Has(d, what)
  <2>1. CASE d = c
    <3>1. PICK k \in 1 .. n - 1 : r[k].do = what
      BY <1>5, <1>8, <2>1 DEF Has
    <3>2. k + 1 \in 1 .. n /\ t[k + 1].do = what
      BY <1>5, <3>1
    <3> QED BY <1>1, <2>1, <3>2 DEF Has
  <2>2. CASE d # c
    BY <1>4, <1>8, <2>2 DEF Has
  <2> QED BY <2>1, <2>2
<1>9. ASSUME NEW x \in Cores, ToBeWoken(x)' PROVE ToBeWoken(x)
  <2>1. PICK k \in 1 .. n - 1 : r[k].do = "wake" /\ r[k].p = IdleProcess(x)
    BY <1>2, <1>5, <1>9 DEF ToBeWoken
  <2>2. k + 1 \in 1 .. n /\ t[k + 1] = r[k]
    BY <1>5, <2>1
  <2> QED BY <1>1, <1>2, <2>1, <2>2 DEF ToBeWoken
<1>10. Uncounted' \subseteq Uncounted
  BY <1>7, <1>8, <1>9 DEF Uncounted
<1>11. WakesOnce'
  <2> SUFFICES ASSUME NEW d \in Cores, NEW k \in DOMAIN core'[d].todo, core'[d].todo[k].do = "wake"
               PROVE  /\ d = First
                      /\ \E x \in Cores \ {First} : core'[d].todo[k].p = IdleProcess(x) /\ core'[x].todo = <<>>
                      /\ \A j \in DOMAIN core'[d].todo :
                           core'[d].todo[j].do = "wake" /\ core'[d].todo[j].p = core'[d].todo[k].p => j = k
    BY DEF WakesOnce
  <2>1. d # o
    BY <1>6, EndsByKind
  <2>2. d = c
    <3>1. ASSUME d # c PROVE FALSE
      <4>1. core'[d].todo = core[d].todo
        BY <1>4, <2>1, <3>1
      <4>2. d = First
        BY <1>0, <4>1 DEF Plans, WakesOnce
      <4> QED BY <1>2, <3>1, <4>2
    <3> QED BY <3>1
  <2>3. k \in 1 .. n - 1 /\ k + 1 \in 1 .. n /\ r[k] = t[k + 1]
    BY <1>5, <2>2
  <2>4. t[k + 1].do = "wake"
    BY <2>2, <2>3
  <2>5. /\ \E x \in Cores \ {First} : t[k + 1].p = IdleProcess(x) /\ core[x].todo = <<>>
        /\ \A j \in 1 .. n : t[j].do = "wake" /\ t[j].p = t[k + 1].p => j = k + 1
    BY <1>0, <1>1, <2>3, <2>4 DEF Plans, WakesOnce
  <2>6. PICK x \in Cores \ {First} : t[k + 1].p = IdleProcess(x) /\ core[x].todo = <<>>
    BY <2>5
  <2>7. x # o
    <3>1. ASSUME x = o PROVE FALSE
      <4>1. k + 1 = 1
        BY <1>2, <1>3, <2>3, <2>4, <2>6, <3>1
      <4> QED BY <2>3, <4>1
    <3> QED BY <3>1
  <2>8. core'[x].todo = <<>>
    BY <1>2, <1>4, <2>6, <2>7
  <2>9. ASSUME NEW j \in 1 .. n - 1, r[j].do = "wake", r[j].p = r[k].p PROVE j = k
    <3>1. j + 1 \in 1 .. n /\ r[j] = t[j + 1]
      BY <1>5
    <3>2. j + 1 = k + 1
      BY <2>3, <2>5, <2>9, <3>1
    <3> QED BY <2>3, <3>2
  <2> QED BY <1>2, <1>5, <2>2, <2>3, <2>6, <2>8, <2>9
<1>12. CountsOnce'
  <2> SUFFICES ASSUME NEW d \in Cores, NEW k \in DOMAIN core'[d].todo
               PROVE  /\ core'[d].todo[k].do = "count" =>
                           Len(core'[d].todo) = k + 1 /\ core'[d].todo[k + 1].do = "check"
                      /\ core'[d].todo[k].do = "check" => Len(core'[d].todo) = k
    BY DEF CountsOnce
  <2>1. CASE d = o
    BY <1>6, <2>1, EndsByKind
  <2>2. CASE d = c
    <3>1. k \in 1 .. n - 1 /\ k + 1 \in 1 .. n /\ r[k] = t[k + 1]
      BY <1>5, <2>2
    <3>2. /\ t[k + 1].do = "count" => n = (k + 1) + 1 /\ t[(k + 1) + 1].do = "check"
          /\ t[k + 1].do = "check" => n = k + 1
      BY <1>0, <1>1, <3>1 DEF Plans, CountsOnce, n
    <3>3. ASSUME t[k + 1].do = "count" PROVE Len(r) = k + 1 /\ r[k + 1].do = "check"
      <4>1. n = (k + 1) + 1 /\ t[(k + 1) + 1].do = "check"
        BY <3>2, <3>3
      <4>2. k + 1 \in 1 .. n - 1 /\ n - 1 = k + 1
        BY <1>1, <3>1, <4>1
      <4>3. r[k + 1] = t[(k + 1) + 1]
        BY <1>5, <4>2
      <4> QED BY <1>5, <4>1, <4>2, <4>3
    <3>4. t[k + 1].do = "check" => Len(r) = k
      BY <1>1, <1>5, <3>1, <3>2
    <3> QED BY <2>2, <3>1, <3>3, <3>4
  <2>3. CASE d # c /\ d # o
    <3>1. core'[d].todo = core[d].todo
      BY <1>4, <2>3
    <3> QED BY <1>p, <3>1 DEF Plans, CountsOnce
  <2> QED BY <2>1, <2>2, <2>3
<1>13. CountedFirst'
  <2>1. initialised' + Cardinality(Uncounted') <= Len(CoreList)
    <3>1. initialised + Cardinality(Uncounted) <= Len(CoreList) /\ initialised \in Nat
      BY <1>0 DEF Plans, CountedFirst, Typed
    <3>2. IsFiniteSet(Uncounted') /\ Cardinality(Uncounted') <= Cardinality(Uncounted)
      BY <1>10, CoresFinite, FS_Subset
    <3>3. Cardinality(Uncounted') \in Nat
      BY <3>2, FS_CardinalityType
    <3> QED BY <1>0, <3>1, <3>2, <3>3, CoresFinite
  <2>2. /\ \A p \in Processes : threads'[p] = 0
        /\ \A d \in Cores : ~ Has(d, "thread")'
    <3>1. /\ \A p \in Processes : threads[p] = 0
          /\ \A d \in Cores : ~ Has(d, "thread")
      BY <1>0, <1>7 DEF Plans, CountedFirst
    <3>2. ASSUME NEW k \in DOMAIN core'[o].todo PROVE core'[o].todo[k].do # "thread"
      BY <1>6, EndsByKind
    <3>3. ASSUME NEW d \in Cores, d = o PROVE ~ Has(d, "thread")'
      BY <3>2, <3>3 DEF Has
    <3>4. ASSUME NEW d \in Cores, d # o PROVE ~ Has(d, "thread")'
      BY <1>8, <3>1, <3>4
    <3> QED BY <1>p, <3>1, <3>3, <3>4
  <2> QED BY <2>1, <2>2 DEF CountedFirst
<1>14. DeletesItsView'
  <2> SUFFICES ASSUME NEW d \in Cores, NEW k \in DOMAIN core'[d].todo, core'[d].todo[k].do = "delete"
               PROVE  /\ core'[d].todo[k].p = Image(d)
                      /\ \A j \in DOMAIN core'[d].todo : core'[d].todo[j].do = "delete" => j = k
                      /\ views'[Image(d)] = <<>> =>
                           /\ k > 2 /\ core'[d].todo[k - 2].do = "view"
                           /\ core'[d].todo[k - 2].p = Image(d)
    BY DEF DeletesItsView
  <2>1. d # o
    BY <1>6, EndsByKind
  <2>2. CASE d = c
    <3>1. k \in 1 .. n - 1 /\ k + 1 \in 1 .. n /\ r[k] = t[k + 1]
      BY <1>5, <2>2
    <3>2. t[k + 1].do = "delete"
      BY <2>2, <3>1
    <3>3. /\ t[k + 1].p = Image(c)
          /\ \A j \in 1 .. n : t[j].do = "delete" => j = k + 1
          /\ views[Image(c)] = <<>> =>
               /\ k + 1 > 2 /\ t[(k + 1) - 2].do = "view" /\ t[(k + 1) - 2].p = Image(c)
      <4>1. DeletesItsView /\ DOMAIN core[c].todo = 1 .. n
        BY <1>p, <1>1 DEF Plans
      <4> QED BY <3>1, <3>2, <4>1 DEF DeletesItsView
    <3>4. ASSUME NEW j \in 1 .. n - 1, r[j].do = "delete" PROVE j = k
      <4>1. j + 1 \in 1 .. n /\ r[j] = t[j + 1]
        BY <1>5
      <4>2. j + 1 = k + 1
        BY <3>3, <3>4, <4>1
      <4> QED BY <3>1, <4>2
    <3>5. ASSUME views[Image(c)] = <<>>
          PROVE  k > 2 /\ r[k - 2].do = "view" /\ r[k - 2].p = Image(c)
      <4>1. k + 1 > 2 /\ t[(k + 1) - 2].do = "view" /\ t[(k + 1) - 2].p = Image(c)
        BY <3>3, <3>5
      <4>2. t[1].do = "wake"
        BY <1>1 DEF ApStartup, At, Doing
      <4>3. (k + 1) - 2 # 1
        <5>1. ASSUME (k + 1) - 2 = 1 PROVE FALSE
          BY <4>1, <4>2, <5>1
        <5> QED BY <5>1
      <4>4. k > 2 /\ k - 2 \in 1 .. n - 1 /\ (k - 2) + 1 = (k + 1) - 2
        BY <1>1, <3>1, <4>1, <4>3
      <4>5. r[k - 2] = t[(k + 1) - 2]
        BY <1>5, <4>4
      <4> QED BY <4>1, <4>4, <4>5
    <3>6. DOMAIN core'[d].todo = 1 .. n - 1 /\ views' = views
      BY <1>p, <1>5, <2>2
    <3> QED BY <2>2, <3>1, <3>3, <3>4, <3>5, <3>6
  <2>3. CASE d # c
    <3>1. core'[d].todo = core[d].todo
      BY <1>4, <2>1, <2>3
    <3>2. DeletesItsView /\ views' = views
      BY <1>p DEF Plans
    <3> QED BY <3>1, <3>2 DEF DeletesItsView
  <2> QED BY <2>2, <2>3
<1>15. ImageOnItsWay'
  <2>1. initialised # Len(CoreList)
    BY <1>0, <1>7, AllCounted
  <2> QED BY <1>0, <2>1 DEF ImageOnItsWay
<1>16. Plans'
  BY <1>11, <1>12, <1>13, <1>14, <1>15 DEF Plans
<1> QED BY <1>0, <1>3, <1>16

-----------------------------------------------------------------------------
\* Until the first core starts, nothing happens that the invariant is about.
LEMMA BootKeeps ==
  ASSUME MemoryInv, phase # "running", phase' # "running",
         UNCHANGED <<core, threads, stacks, locks, views, initialised>>
  PROVE  MemoryInv'
<1>1. /\ core = [c \in Cores |-> Nothing] /\ stacks = {} /\ initialised = 0
      /\ threads = [p \in Processes |-> 0]
  BY DEF MemoryInv, Typed
<1>2. /\ Nothing.todo = <<>> /\ Nothing.pc = "start"
      /\ \A c \in Cores : core'[c] = Nothing
      /\ DOMAIN <<>> = {}
  BY <1>1 DEF Nothing
<1>3. Typed'
  BY <1>1 DEF MemoryInv, Typed
<1>4. StepsFit' /\ PlacesAreFree' /\ StacksApart'
  BY <1>1, <1>2 DEF StepsFit, PlacesAreFree, StacksApart, MakesStack
<1>5. \A c \in Cores : DOMAIN core'[c].todo = {}
  BY <1>2
<1>6. Uncounted' = {}
  BY <1>5, SpacesDiffer DEF Uncounted, Has, ToBeWoken
<1>7. WakesOnce' /\ CountsOnce' /\ DeletesItsView'
  BY <1>5 DEF WakesOnce, CountsOnce, DeletesItsView
<1>8. CountedFirst' /\ ImageOnItsWay'
  BY <1>1, <1>6, CoresFinite DEF CountedFirst, ImageOnItsWay
<1> QED BY <1>3, <1>4, <1>7, <1>8 DEF MemoryInv, Plans

\* The first core is given what MpInitialize and its own start have it do.
LEMMA RT8139InitKeeps ==
  ASSUME MemoryInv, RT8139Init
  PROVE  MemoryInv'
<1>1. /\ core = [c \in Cores |-> Nothing] /\ stacks = {} /\ initialised = 0
      /\ threads = [p \in Processes |-> 0] /\ Typed
  BY DEF MemoryInv, Typed, RT8139Init
<1>2. /\ phase' = "running" /\ core' = [core EXCEPT ![First].todo = MpInitialize]
      /\ UNCHANGED <<tables, pte, views, stacks, threads, locks, initialised>>
  BY DEF RT8139Init, sectionVars, history
<1>3. First \in Cores
  BY SpacesDiffer
<1>4. MpInitialize \in Seq(Commands)
  <2>1. EndsWithCount(PspInitializeCore(First))
    BY <1>3, CoreStarts
  <2>2. ASSUME DOMAIN MpInitialize = {} PROVE MpInitialize \in Seq(Commands)
    <3>1. PspInitializeCore(First) \in Seq(Commands) /\ Len(PspInitializeCore(First)) >= 2
      BY <2>1 DEF EndsWithCount
    <3>2. Len(CoreList) \in Nat \ {0}
      BY CoresFinite
    <3>3. 1 \in DOMAIN MpInitialize
      BY <3>1, <3>2 DEF MpInitialize
    <3> QED BY <2>2, <3>3
  <2> QED BY <2>2, MpProgram
<1>5. /\ core' = [c \in Cores |-> core'[c]]
      /\ core'[First] = [todo |-> MpInitialize, pc |-> "start", at |-> -1, reg |-> <<>>]
      /\ \A c \in Cores \ {First} : core'[c] = [todo |-> <<>>, pc |-> "start", at |-> -1, reg |-> <<>>]
  BY <1>1, <1>2, <1>3 DEF Nothing, None
<1>6. /\ core'[First].todo = MpInitialize /\ \A c \in Cores : core'[c].pc = "start"
      /\ \A c \in Cores \ {First} : core'[c].todo = <<>> /\ DOMAIN core'[c].todo = {}
  BY <1>5
<1>7. Typed'
  <2>1. ASSUME NEW c \in Cores
        PROVE  core'[c] \in [todo : Seq(Commands), pc : Steps, at : {core'[c].at}, reg : {core'[c].reg}]
    <3>1. "start" \in Steps /\ <<>> \in Seq(Commands) /\ -1 \in Int
      BY DEF Steps
    <3>2. core'[c] = [todo |-> core'[c].todo, pc |-> "start", at |-> -1, reg |-> core'[c].reg]
      BY <1>5
    <3>3. core'[c].todo \in Seq(Commands)
      BY <1>4, <1>6, <3>1
    <3> QED BY <3>1, <3>2, <3>3
  <2> QED BY <1>1, <1>2, <1>5, <2>1 DEF Typed
<1>8. StepsFit' /\ PlacesAreFree' /\ StacksApart'
  BY <1>1, <1>2, <1>6 DEF StepsFit, PlacesAreFree, StacksApart, MakesStack
<1>9. ASSUME NEW c \in Cores, NEW k \in DOMAIN core'[c].todo
      PROVE  c = First /\ core'[c].todo = MpInitialize
  BY <1>6
<1> DEFINE r == core'[First].todo
<1>10. WakesOnce'
  <2>1. ASSUME NEW c \in Cores, NEW k \in DOMAIN core'[c].todo, core'[c].todo[k].do = "wake"
        PROVE  /\ c = First
               /\ \E o \in Cores \ {First} : core'[c].todo[k].p = IdleProcess(o) /\ core'[o].todo = <<>>
               /\ \A j \in DOMAIN core'[c].todo :
                    core'[c].todo[j].do = "wake" /\ core'[c].todo[j].p = core'[c].todo[k].p => j = k
    BY <1>6, <1>9, <2>1, MpProgram
  <2> QED BY <2>1 DEF WakesOnce
<1>11. CountsOnce'
  <2>1. ASSUME NEW c \in Cores, NEW k \in DOMAIN core'[c].todo
        PROVE  /\ core'[c].todo[k].do = "count" =>
                    Len(core'[c].todo) = k + 1 /\ core'[c].todo[k + 1].do = "check"
               /\ core'[c].todo[k].do = "check" => Len(core'[c].todo) = k
    BY <1>6, <1>9, MpProgram
  <2> QED BY <2>1 DEF CountsOnce
<1>12. CountedFirst'
  <2>1. Uncounted' \in SUBSET Cores
    BY DEF Uncounted
  <2>2. IsFiniteSet(Uncounted') /\ Cardinality(Uncounted') <= Cardinality(Cores)
    BY <2>1, CoresFinite, FS_Subset
  <2>3. Cardinality(Uncounted') \in Nat
    BY <2>2, FS_CardinalityType
  <2>4. initialised' + Cardinality(Uncounted') <= Len(CoreList)
    BY <1>1, <1>2, <2>2, <2>3, CoresFinite
  <2>5. ASSUME NEW c \in Cores PROVE ~ Has(c, "thread")'
    BY <1>6, <1>9, MpProgram DEF Has
  <2> QED BY <1>1, <1>2, <2>4, <2>5 DEF CountedFirst
<1>13. DeletesItsView'
  <2>1. ASSUME NEW c \in Cores, NEW k \in DOMAIN core'[c].todo PROVE core'[c].todo[k].do # "delete"
    BY <1>6, <1>9, MpProgram
  <2> QED BY <2>1 DEF DeletesItsView
<1>14. ImageOnItsWay'
  BY <1>1, <1>2, CoresFinite DEF ImageOnItsWay
<1>15. Plans'
  BY <1>10, <1>11, <1>12, <1>13, <1>14 DEF Plans
<1> QED BY <1>7, <1>8, <1>15 DEF MemoryInv

\* From the loader to the running kernel.
LEMMA BootStepsKeep ==
  ASSUME MemoryInv, Boot
  PROVE  MemoryInv'
<1>1. CASE RT8139Init
  BY <1>1, RT8139InitKeeps
<1>2. ASSUME \/ KeLoadStub \/ PagingInit \/ HandlePreloadedFiles \/ FlagPfns
             \/ KeEntry \/ ExInitializePool
      PROVE  /\ phase # "running" /\ phase' # "running"
             /\ UNCHANGED <<core, threads, stacks, locks, views, initialised>>
  BY <1>2 DEF KeLoadStub, PagingInit, HandlePreloadedFiles, FlagPfns, KeEntry, ExInitializePool,
              sectionVars, history
<1> QED BY <1>1, <1>2, BootKeeps DEF Boot

-----------------------------------------------------------------------------
\* How steps change what a core has to do and where it is.
CoresTyped ==
  /\ core = [c \in Cores |-> core[c]]
  /\ \A c \in Cores :
       core[c] \in [todo : Seq(Commands), pc : Steps, at : {core[c].at}, reg : {core[c].reg}]
OthersStay(c) == \A d \in Cores \ {c} : core'[d] = core[d]
Becomes(c, todo, pc, at) ==
  /\ core'[c].todo = todo /\ core'[c].pc = pc /\ core'[c].at = at
  /\ OthersStay(c) /\ CoresTyped'

\* Only one core changes.
LEMMA OneCore ==
  ASSUME Typed, NEW c \in Cores, NEW todo \in Seq(Commands), NEW pc \in Steps, NEW at, NEW reg,
         core'[c] = [todo |-> todo, pc |-> pc, at |-> at, reg |-> reg],
         core' = [d \in Cores |-> core'[d]], OthersStay(c)
  PROVE  Becomes(c, todo, pc, at)
<1>1. /\ core = [d \in Cores |-> core[d]]
      /\ \A d \in Cores : core[d] \in [todo : Seq(Commands), pc : Steps, at : {core[d].at}, reg : {core[d].reg}]
  BY DEF Typed
<1>4. ASSUME NEW d \in Cores
      PROVE  core'[d] \in [todo : Seq(Commands), pc : Steps, at : {core'[d].at}, reg : {core'[d].reg}]
  <2>1. CASE d = c
    BY <2>1
  <2>2. CASE d # c
    BY <1>1, <2>2 DEF OthersStay
  <2> QED BY <2>1, <2>2
<1>5. CoresTyped'
  BY <1>4 DEF CoresTyped
<1> QED BY <1>5 DEF Becomes

\* The forms that the actions use.
LEMMA CoreChanges ==
  ASSUME Typed, NEW c \in Cores
  PROVE  /\ core[c].todo \in Seq(Commands) /\ core[c].pc \in Steps
         /\ \A pc \in Steps : Goes(c, pc) => Becomes(c, core[c].todo, pc, core[c].at)
         /\ core[c].todo # <<>> /\ Finishes(c) => Becomes(c, Tail(core[c].todo), "start", None)
         /\ \A pc \in Steps : \A at :
              core' = [core EXCEPT ![c].pc = pc, ![c].at = at] => Becomes(c, core[c].todo, pc, at)
         /\ \A pc \in Steps : \A reg :
              core' = [core EXCEPT ![c].pc = pc, ![c].reg = reg] => Becomes(c, core[c].todo, pc, core[c].at)
         /\ \A todo \in Seq(Commands) : Does(c, todo) => Becomes(c, todo, core[c].pc, core[c].at)
<1>1. /\ core = [d \in Cores |-> core[d]]
      /\ core[c] = [todo |-> core[c].todo, pc |-> core[c].pc, at |-> core[c].at, reg |-> core[c].reg]
      /\ core[c].todo \in Seq(Commands) /\ core[c].pc \in Steps
  BY DEF Typed
<1>2. ASSUME NEW pc \in Steps, Goes(c, pc) PROVE Becomes(c, core[c].todo, pc, core[c].at)
  <2>1. /\ core'[c] = [todo |-> core[c].todo, pc |-> pc, at |-> core[c].at, reg |-> core[c].reg]
        /\ core' = [d \in Cores |-> core'[d]] /\ OthersStay(c)
    BY <1>1, <1>2 DEF Goes, OthersStay
  <2> QED BY <1>1, <2>1, OneCore
<1>3. ASSUME core[c].todo # <<>>, Finishes(c) PROVE Becomes(c, Tail(core[c].todo), "start", None)
  <2>1. Tail(core[c].todo) \in Seq(Commands)
    BY <1>1, <1>3, HeadTailProperties
  <2>2. /\ core'[c] = [todo |-> Tail(core[c].todo), pc |-> "start", at |-> -1, reg |-> <<>>]
        /\ core' = [d \in Cores |-> core'[d]] /\ OthersStay(c)
    BY <1>1, <1>3 DEF Finishes, Nothing, None, OthersStay
  <2>3. "start" \in Steps /\ -1 \in Int
    BY DEF Steps
  <2> QED BY <2>1, <2>2, <2>3, OneCore DEF None
<1>4. ASSUME NEW pc \in Steps, NEW at, core' = [core EXCEPT ![c].pc = pc, ![c].at = at]
      PROVE  Becomes(c, core[c].todo, pc, at)
  <2>1. /\ core'[c] = [todo |-> core[c].todo, pc |-> pc, at |-> at, reg |-> core[c].reg]
        /\ core' = [d \in Cores |-> core'[d]] /\ OthersStay(c)
    BY <1>1, <1>4 DEF OthersStay
  <2> QED BY <1>1, <2>1, OneCore
<1>5. ASSUME NEW pc \in Steps, NEW reg, core' = [core EXCEPT ![c].pc = pc, ![c].reg = reg]
      PROVE  Becomes(c, core[c].todo, pc, core[c].at)
  <2>1. /\ core'[c] = [todo |-> core[c].todo, pc |-> pc, at |-> core[c].at, reg |-> reg]
        /\ core' = [d \in Cores |-> core'[d]] /\ OthersStay(c)
    BY <1>1, <1>5 DEF OthersStay
  <2> QED BY <1>1, <2>1, OneCore
<1>6. ASSUME NEW todo \in Seq(Commands), Does(c, todo) PROVE Becomes(c, todo, core[c].pc, core[c].at)
  <2>1. /\ core'[c] = [todo |-> todo, pc |-> core[c].pc, at |-> core[c].at, reg |-> core[c].reg]
        /\ core' = [d \in Cores |-> core'[d]] /\ OthersStay(c)
    BY <1>1, <1>6 DEF Does, OthersStay
  <2> QED BY <1>1, <2>1, OneCore
<1> QED BY <1>1, <1>2, <1>3, <1>4, <1>5, <1>6

\* A core keeps to steps that its command has.
LEMMA StepsFitAfter ==
  ASSUME MemoryInv, NEW c \in Cores, OthersStay(c),
         core'[c].pc # "start" => core'[c].todo # <<>>,
         core'[c].pc = "map" => Head(core'[c].todo).do \in {"stack", "block", "space", "thread"},
         core'[c].pc \in {"guards", "free"} => Head(core'[c].todo).do = "stack",
         core'[c].pc \in {"map", "guards", "free"} => core'[c].at \in Int
  PROVE  StepsFit'
<1>1. ASSUME NEW d \in Cores
      PROVE  /\ core'[d].pc # "start" => core'[d].todo # <<>>
             /\ core'[d].pc = "map" => Doing(d)'.do \in {"stack", "block", "space", "thread"}
             /\ core'[d].pc \in {"guards", "free"} => Doing(d)'.do = "stack"
             /\ core'[d].pc \in {"map", "guards", "free"} => core'[d].at \in Int
  <2>1. CASE d = c
    BY <2>1 DEF Doing
  <2>2. CASE d # c
    <3>1. core'[d] = core[d]
      BY <2>2 DEF OthersStay
    <3> QED BY <3>1 DEF MemoryInv, StepsFit, Doing
  <2> QED BY <2>1, <2>2
<1> QED BY <1>1 DEF StepsFit

-----------------------------------------------------------------------------
\* The pages of the kernel, and those that are present, stay as they are.
KernelStays ==
  \A v \in Int : /\ Mapped(v)' <=> Mapped(v)
                 /\ Mapped(v) => pte'[<<Kernel, v>>].present = pte[<<Kernel, v>>].present

\* Nobody else loses the lock.
PagingLockStays(c) == \A d \in Cores \ {c} : locks.paging = d => locks'.paging = d

\* What the commands of cores look for and have found are numbers.
LEMMA Numbers ==
  ASSUME MemoryInv, NEW c \in Cores
  PROVE  /\ core[c].pc \in {"map", "guards", "free"} => core[c].at \in Int
         /\ \A s \in stacks : s.at \in Int /\ s.n \in Nat
         /\ core[c].pc # "start" => /\ Doing(c) \in Commands /\ Doing(c).n \in Nat /\ Doing(c).p \in Processes
                                    /\ PagesOf(Doing(c)) \in Nat \ {0}
         /\ MakesStack(c) => /\ StackOf(c).at = core[c].at /\ StackOf(c).n = Doing(c).n
                             /\ StackOf(c).at \in Int /\ StackOf(c).n \in Nat
<1>1. /\ core[c].pc \in {"map", "guards", "free"} => core[c].at \in Int
      /\ core[c].todo \in Seq(Commands) /\ \A s \in stacks : s.at \in Int /\ s.n \in Nat
  BY DEF MemoryInv, Typed, StepsFit
<1>2. ASSUME core[c].pc # "start"
      PROVE  /\ Doing(c) \in Commands /\ Doing(c).n \in Nat /\ Doing(c).p \in Processes
             /\ PagesOf(Doing(c)) \in Nat \ {0}
  <2>1. core[c].todo # <<>>
    BY <1>2 DEF MemoryInv, StepsFit
  <2>2. Doing(c) \in Commands
    BY <1>1, <2>1, HeadTailProperties DEF Doing
  <2>3. Doing(c).n \in Nat /\ Doing(c).p \in Processes
    BY <2>2 DEF Commands
  <2>4. PagesOf(Doing(c)) \in Nat \ {0}
    BY <2>3 DEF PagesOf
  <2> QED BY <2>2, <2>3, <2>4
<1>3. MakesStack(c) => core[c].pc # "start" /\ core[c].pc \in {"map", "guards", "free"}
  BY DEF MakesStack
<1>4. StackOf(c).at = core[c].at /\ StackOf(c).n = Doing(c).n
  BY DEF StackOf
<1> QED BY <1>1, <1>2, <1>3, <1>4

\* No page is unmapped, and those that are not in pages keep their presence.
KernelKeeps(pages) ==
  \A v \in Int : Mapped(v) =>
    /\ <<Kernel, v>> \in DOMAIN pte'
    /\ v \notin pages => pte'[<<Kernel, v>>].present = pte[<<Kernel, v>>].present

\* Pages that are not those of a stack or its guards.
Avoids(s, pages) == \A v \in s.at .. s.at + s.n + 1 : v \notin pages

\* Stacks are as they were if their pages are.
LEMMA StackStays ==
  ASSUME NEW pages, KernelKeeps(pages), NEW at \in Int, NEW n \in Nat, NEW s, s = [at |-> at, n |-> n],
         Avoids(s, pages)
  PROVE  /\ Inner(s) => Inner(s)'
         /\ Outer(s) => Outer(s)'
         /\ Outer(s) /\ Guarded(s) => Guarded(s)'
<1>1. s.at = at /\ s.n = n /\ at + n + 1 \in Int
  OBVIOUS
<1>2. \A v \in at + 1 .. at + n : v \in Int /\ v \in at .. at + n + 1
  OBVIOUS
<1>3. at \in at .. at + n + 1 /\ at + n + 1 \in at .. at + n + 1
  OBVIOUS
<1>4. \A v \in at .. at + n + 1 : v \notin pages
  BY <1>1 DEF Avoids
<1>5. Inner(s) => Inner(s)'
  BY <1>1, <1>2, <1>4 DEF KernelKeeps, Inner, Mapped
<1>6. Outer(s) => Outer(s)'
  BY <1>1 DEF KernelKeeps, Outer, Mapped
<1>7. Outer(s) /\ Guarded(s) => Guarded(s)'
  BY <1>1, <1>3, <1>4 DEF KernelKeeps, Outer, Guarded, Mapped
<1> QED BY <1>5, <1>6, <1>7

\* The stacks that a step of one core does not touch.
LEMMA OtherStacksStay ==
  ASSUME MemoryInv, NEW c \in Cores, OthersStay(c), NEW pages, KernelKeeps(pages),
         \A s \in stacks : Avoids(s, pages),
         \A d \in Cores \ {c} : MakesStack(d) => Avoids(StackOf(d), pages)
  PROVE  /\ \A s \in stacks : (Inner(s) /\ Outer(s) /\ Guarded(s))'
         /\ \A d \in Cores \ {c} : MakesStack(d)' =>
              /\ MakesStack(d) /\ StackOf(d)' = StackOf(d)
              /\ Inner(StackOf(d))' /\ Outer(StackOf(d))'
              /\ core'[d].pc = "free" => Guarded(StackOf(d))'
<1>1. ASSUME NEW s \in stacks PROVE (Inner(s) /\ Outer(s) /\ Guarded(s))'
  <2>1. s.at \in Int /\ s.n \in Nat /\ s = [at |-> s.at, n |-> s.n]
    BY DEF MemoryInv, Typed
  <2>2. Inner(s) /\ Outer(s) /\ Guarded(s)
    BY DEF MemoryInv, StacksApart
  <2> QED BY <2>1, <2>2, StackStays
<1>2. ASSUME NEW d \in Cores \ {c}, MakesStack(d)'
      PROVE  /\ MakesStack(d) /\ StackOf(d)' = StackOf(d)
             /\ Inner(StackOf(d))' /\ Outer(StackOf(d))'
             /\ core'[d].pc = "free" => Guarded(StackOf(d))'
  <2> DEFINE s == StackOf(d)
  <2>1. core'[d] = core[d]
    BY DEF OthersStay
  <2>2. MakesStack(d) /\ StackOf(d)' = s
    BY <1>2, <2>1 DEF MakesStack, StackOf, Doing
  <2>3. s.at \in Int /\ s.n \in Nat /\ s = [at |-> s.at, n |-> s.n]
    BY <2>2, Numbers DEF StackOf
  <2>4. Inner(s) /\ Outer(s) /\ (core[d].pc = "free" => Guarded(s))
    BY <2>2 DEF MemoryInv, StacksApart
  <2>5. Avoids(s, pages)
    BY <2>2
  <2>6. PICK x : x = s
    OBVIOUS
  <2> HIDE DEF s
  <2>7. Inner(x)' /\ Outer(x)' /\ (core[d].pc = "free" => Guarded(x)')
    <3>1. x = [at |-> x.at, n |-> x.n] /\ x.at \in Int /\ x.n \in Nat /\ Avoids(x, pages)
      BY <2>3, <2>5, <2>6
    <3>2. Inner(x) /\ Outer(x) /\ (core[d].pc = "free" => Guarded(x))
      BY <2>4, <2>6
    <3> QED BY <3>1, <3>2, StackStays
  <2>8. x = StackOf(d)'
    BY <2>2, <2>6
  <2>9. Inner(StackOf(d))' /\ Outer(StackOf(d))' /\ (core'[d].pc = "free" => Guarded(StackOf(d))')
    BY <2>1, <2>7, <2>8 DEF Inner, Outer, Guarded
  <2> QED BY <2>2, <2>9 DEF s
<1> QED BY <1>1, <1>2

\* Places stay free as long as no page is mapped and their cores keep the lock.
LEMMA PlacesStay ==
  ASSUME MemoryInv, NEW c \in Cores, OthersStay(c), PagingLockStays(c), core'[c].pc # "map",
         \A v \in Int : Mapped(v)' <=> Mapped(v)
  PROVE  PlacesAreFree'
<1>1. SUFFICES ASSUME NEW d \in Cores, core'[d].pc = "map" PROVE locks'.paging = d /\ Place(d)'
  BY DEF PlacesAreFree
<1>2. d # c /\ core'[d] = core[d] /\ Doing(d)' = Doing(d)
  BY <1>1 DEF OthersStay, Doing
<1>3. locks.paging = d /\ Place(d)
  BY <1>1, <1>2 DEF MemoryInv, PlacesAreFree
<1>4. locks'.paging = d
  BY <1>2, <1>3 DEF PagingLockStays
<1>5. core[d].at \in Int /\ PagesOf(Doing(d)) \in Nat
  BY <1>1, <1>2, Numbers
<1>6. \A i \in 0 .. PagesOf(Doing(d)) - 1 : core[d].at + i \in Int
  BY <1>5
<1>7. \A i \in 0 .. PagesOf(Doing(d)) - 1 :
        <<Kernel, core[d].at + i>> \notin DOMAIN pte => <<Kernel, core'[d].at + i>> \notin DOMAIN pte'
  BY <1>2, <1>6 DEF Mapped
<1>8. Place(d)'
  BY <1>2, <1>3, <1>7 DEF Place, Mapped
<1> QED BY <1>4, <1>8

\* A step that is not one of the making of a stack keeps the stacks.
LEMMA StacksStay ==
  ASSUME MemoryInv, NEW c \in Cores, OthersStay(c), KernelStays, stacks' = stacks,
         core'[c].pc \notin {"guards", "free"}
  PROVE  StacksApart'
<1>2. KernelKeeps({})
  BY DEF KernelStays, KernelKeeps, Mapped
<1>3. /\ \A s \in stacks : (Inner(s) /\ Outer(s) /\ Guarded(s))'
      /\ \A d \in Cores \ {c} : MakesStack(d)' =>
           /\ MakesStack(d) /\ StackOf(d)' = StackOf(d)
           /\ Inner(StackOf(d))' /\ Outer(StackOf(d))'
           /\ core'[d].pc = "free" => Guarded(StackOf(d))'
  <2>1. \A s : Avoids(s, {})
    BY DEF Avoids
  <2> QED BY <1>2, <2>1, OtherStacksStay
<1>4. ASSUME NEW d \in Cores, MakesStack(d)'
      PROVE  /\ Inner(StackOf(d))' /\ Outer(StackOf(d))'
             /\ core'[d].pc = "free" => Guarded(StackOf(d))'
             /\ \A s \in stacks : Apart(StackOf(d)', s)
             /\ \A e \in Cores \ {d} : MakesStack(e)' => Apart(StackOf(d)', StackOf(e)')
  <2>1. \A e \in Cores : MakesStack(e)' => e \in Cores \ {c}
    BY DEF MakesStack
  <2>2. MakesStack(d) /\ StackOf(d)' = StackOf(d)
    BY <1>3, <1>4, <2>1
  <2>3. /\ \A s \in stacks : Apart(StackOf(d), s)
        /\ \A e \in Cores \ {d} : MakesStack(e) => Apart(StackOf(d), StackOf(e))
    BY <2>2 DEF MemoryInv, StacksApart
  <2> QED BY <1>3, <1>4, <2>1, <2>2, <2>3
<1>5. \A s, t \in stacks : s # t => Apart(s, t)
  BY DEF MemoryInv, StacksApart
<1>6. StacksApart'
  <2>1. \A s \in stacks' : Inner(s)' /\ Outer(s)' /\ Guarded(s)'
    BY <1>3
  <2>2. \A s, t \in stacks' : s # t => Apart(s, t)'
    BY <1>5 DEF Apart
  <2>3. ASSUME NEW d \in Cores, MakesStack(d)'
        PROVE  /\ Inner(StackOf(d))' /\ Outer(StackOf(d))'
               /\ core'[d].pc = "free" => Guarded(StackOf(d))'
               /\ \A s \in stacks' : Apart(StackOf(d), s)'
               /\ \A e \in Cores \ {d} : MakesStack(e)' => Apart(StackOf(d), StackOf(e))'
    BY <1>4, <2>3 DEF Apart
  <2> QED BY <2>1, <2>2, <2>3 DEF StacksApart
<1> QED BY <1>6

\* One that does not find a place either keeps those that were found, too.
LEMMA QuietSteps ==
  ASSUME MemoryInv, NEW c \in Cores, OthersStay(c), KernelStays, PagingLockStays(c), stacks' = stacks,
         core'[c].pc \notin {"map", "guards", "free"}
  PROVE  PlacesAreFree' /\ StacksApart'
<1>1. PlacesAreFree'
  BY PlacesStay DEF KernelStays
<1>2. StacksApart'
  BY StacksStay
<1> QED BY <1>1, <1>2

\* A run of free pages meets no stack.
LEMMA FreeRunsAreApart ==
  ASSUME NEW s, NEW a \in Int, NEW n \in Nat, s = [at |-> a, n |-> n], Inner(s), Outer(s),
         NEW t, NEW b \in Int, NEW m \in Nat, t = [at |-> b, n |-> m],
         \A i \in 0 .. (m + 2) - 1 : ~ Mapped(b + i)
  PROVE  Apart(s, t) /\ Apart(t, s)
<1>1. s.at = a /\ s.n = n /\ t.at = b /\ t.n = m
  OBVIOUS
<1>2. \A v \in a .. a + n + 1 : Mapped(v)
  <2>1. \A v \in a .. a + n + 1 : v = a \/ v \in a + 1 .. a + n \/ v = a + n + 1
    OBVIOUS
  <2> QED BY <1>1, <2>1 DEF Inner, Outer
<1>3. \A v \in b .. b + m + 1 : ~ Mapped(v)
  <2>1. \A v \in b .. b + m + 1 : v - b \in 0 .. (m + 2) - 1 /\ b + (v - b) = v
    OBVIOUS
  <2> QED BY <2>1
<1>4. ASSUME ~ (a + n + 1 < b \/ b + m + 1 < a) PROVE FALSE
  <2>1. CASE a <= b
    <3>1. b \in a .. a + n + 1 /\ b \in b .. b + m + 1
      BY <1>4, <2>1
    <3> QED BY <1>2, <1>3, <3>1
  <2>2. CASE ~ (a <= b)
    <3>1. a \in a .. a + n + 1 /\ a \in b .. b + m + 1
      BY <1>4, <2>2
    <3> QED BY <1>2, <1>3, <3>1
  <2> QED BY <2>1, <2>2
<1> QED BY <1>1, <1>4 DEF Apart

\* Pages of the kernel are mapped, and nothing else changes there.
PagesAppear(at, n) ==
  \A v \in Int :
    /\ Mapped(v)' <=> Mapped(v) \/ v \in at .. at + n - 1
    /\ Mapped(v) => pte'[<<Kernel, v>>].present = pte[<<Kernel, v>>].present
    /\ v \in at .. at + n - 1 => pte'[<<Kernel, v>>].present

\* A core maps the pages it has found, and lets the PagingSpinlock go.
LEMMA MappingKeepsStacks ==
  ASSUME MemoryInv, NEW c \in Cores, OthersStay(c), stacks' = stacks,
         core[c].pc = "map", core[c].at # None, Doing(c).do # "thread",
         PagesAppear(core[c].at, PagesOf(Doing(c))),
         core'[c].pc \notin {"map", "free"},
         core'[c].pc = "guards" =>
           Doing(c).do = "stack" /\ Doing(c)' = Doing(c) /\ core'[c].at = core[c].at
  PROVE  PlacesAreFree' /\ StacksApart'
<1> DEFINE at == core[c].at
           n == PagesOf(Doing(c))
<1>1. at \in Int /\ n \in Nat \ {0}
  BY Numbers
<1>2. locks.paging = c /\ \A i \in 0 .. n - 1 : ~ Mapped(at + i)
  BY DEF MemoryInv, PlacesAreFree, Place
<1>3. PlacesAreFree'
  <2>1. SUFFICES ASSUME NEW d \in Cores, core'[d].pc = "map" PROVE FALSE
    BY DEF PlacesAreFree
  <2>2. d # c /\ core[d].pc = "map"
    BY <2>1 DEF OthersStay
  <2>3. locks.paging = d
    BY <2>2 DEF MemoryInv, PlacesAreFree
  <2> QED BY <1>2, <2>2, <2>3
<1>4. KernelKeeps({})
  BY DEF PagesAppear, KernelKeeps, Mapped
<1>5. /\ \A s \in stacks : (Inner(s) /\ Outer(s) /\ Guarded(s))'
      /\ \A d \in Cores \ {c} : MakesStack(d)' =>
           /\ MakesStack(d) /\ StackOf(d)' = StackOf(d)
           /\ Inner(StackOf(d))' /\ Outer(StackOf(d))'
           /\ core'[d].pc = "free" => Guarded(StackOf(d))'
  <2>1. \A s : Avoids(s, {})
    BY DEF Avoids
  <2> QED BY <1>4, <2>1, OtherStacksStay
<1>6. ASSUME MakesStack(c)'
      PROVE  /\ Inner(StackOf(c))' /\ Outer(StackOf(c))' /\ core'[c].pc # "free"
             /\ \A s \in stacks : Apart(StackOf(c)', s) /\ Apart(s, StackOf(c)')
             /\ \A d \in Cores \ {c} : MakesStack(d) =>
                  Apart(StackOf(c)', StackOf(d)) /\ Apart(StackOf(d), StackOf(c)')
  <2>1. core'[c].pc = "guards" /\ Doing(c).do = "stack" /\ Doing(c)' = Doing(c) /\ core'[c].at = at
    BY <1>6 DEF MakesStack
  <2>2. StackOf(c)' = [at |-> at, n |-> Doing(c).n] /\ n = Doing(c).n + 2 /\ Doing(c).n \in Nat
    BY <2>1, Numbers DEF StackOf, PagesOf
  <2> DEFINE m == Doing(c).n
  <2>3. PICK t : t = StackOf(c)'
    OBVIOUS
  <2>4. t = [at |-> at, n |-> m] /\ m \in Nat /\ n = m + 2
    BY <2>2, <2>3
  <2> HIDE DEF at, n, m
  <2>5. \A i \in 0 .. (m + 2) - 1 : ~ Mapped(at + i)
    BY <1>2, <2>4
  <2>6. ASSUME NEW s \in stacks PROVE Apart(t, s) /\ Apart(s, t)
    <3>1. s = [at |-> s.at, n |-> s.n] /\ s.at \in Int /\ s.n \in Nat
      BY DEF MemoryInv, Typed
    <3>2. Inner(s) /\ Outer(s)
      BY DEF MemoryInv, StacksApart
    <3> QED BY <1>1, <2>4, <2>5, <3>1, <3>2, FreeRunsAreApart
  <2>7. ASSUME NEW d \in Cores \ {c}, MakesStack(d)
        PROVE  Apart(t, StackOf(d)) /\ Apart(StackOf(d), t)
    <3>1. PICK s : s = StackOf(d)
      OBVIOUS
    <3>2. s = [at |-> s.at, n |-> s.n] /\ s.at \in Int /\ s.n \in Nat
      BY <2>7, <3>1, Numbers DEF StackOf
    <3>3. Inner(s) /\ Outer(s)
      BY <2>7, <3>1 DEF MemoryInv, StacksApart
    <3> QED BY <1>1, <2>4, <2>5, <3>1, <3>2, <3>3, FreeRunsAreApart
  <2>8. Inner(t)' /\ Outer(t)'
    <3>1. t.at = at /\ t.n = m /\ at + m + 1 \in Int
      BY <1>1, <2>4
    <3>2. \A v \in Int : v \in at .. at + n - 1 =>
            <<Kernel, v>> \in DOMAIN pte' /\ pte'[<<Kernel, v>>].present
      BY DEF PagesAppear, Mapped, at, n
    <3>3. /\ \A v \in at + 1 .. at + m : v \in Int /\ v \in at .. at + n - 1
          /\ at \in at .. at + n - 1 /\ at + m + 1 \in at .. at + n - 1
      BY <1>1, <2>4
    <3> QED BY <1>1, <3>1, <3>2, <3>3 DEF Inner, Outer, Mapped
  <2>9. Inner(StackOf(c))' /\ Outer(StackOf(c))'
    BY <2>3, <2>8 DEF Inner, Outer
  <2> QED BY <2>1, <2>3, <2>6, <2>7, <2>9
<1>7. StacksApart'
  <2>1. \A s \in stacks' : Inner(s)' /\ Outer(s)' /\ Guarded(s)'
    BY <1>5
  <2>2. \A s, t \in stacks' : s # t => Apart(s, t)'
    BY DEF MemoryInv, StacksApart, Apart
  <2>3. ASSUME NEW d \in Cores, MakesStack(d)'
        PROVE  /\ Inner(StackOf(d))' /\ Outer(StackOf(d))'
               /\ core'[d].pc = "free" => Guarded(StackOf(d))'
               /\ \A s \in stacks' : Apart(StackOf(d), s)'
               /\ \A e \in Cores \ {d} : MakesStack(e)' => Apart(StackOf(d), StackOf(e))'
    <3>1. CASE d = c
      <4>1. \A e \in Cores \ {c} : MakesStack(e)' => MakesStack(e) /\ StackOf(e)' = StackOf(e)
        BY <1>5
      <4> QED BY <1>6, <2>3, <3>1, <4>1 DEF Apart
    <3>2. CASE d # c
      <4>1. MakesStack(d) /\ StackOf(d)' = StackOf(d)
        BY <1>5, <2>3, <3>2
      <4>2. /\ \A s \in stacks : Apart(StackOf(d), s)
            /\ \A e \in Cores \ {d} : MakesStack(e) => Apart(StackOf(d), StackOf(e))
        BY <4>1 DEF MemoryInv, StacksApart
      <4>3. \A s \in stacks' : Apart(StackOf(d), s)'
        BY <4>1, <4>2 DEF Apart
      <4>4. ASSUME NEW e \in Cores \ {d}, MakesStack(e)' PROVE Apart(StackOf(d), StackOf(e))'
        <5>1. CASE e = c
          <6>1. Apart(StackOf(d), StackOf(c)')
            BY <1>6, <3>2, <4>1, <4>4, <5>1
          <6> QED BY <4>1, <5>1, <6>1 DEF Apart
        <5>2. CASE e # c
          <6>1. MakesStack(e) /\ StackOf(e)' = StackOf(e)
            BY <1>5, <4>4, <5>2
          <6>2. Apart(StackOf(d), StackOf(e))
            BY <4>2, <6>1
          <6> QED BY <4>1, <6>1, <6>2 DEF Apart
        <5> QED BY <5>1, <5>2
      <4> QED BY <1>5, <2>3, <3>2, <4>3, <4>4
    <3> QED BY <3>1, <3>2
  <2> QED BY <2>1, <2>2, <2>3 DEF StacksApart
<1> QED BY <1>3, <1>7

\* The outer pages of the core's stack become guards; they are nobody else's.
LEMMA GuardsKeepStacks ==
  ASSUME MemoryInv, NEW c \in Cores, PspCreateKernelStack(c), OthersStay(c),
         core'[c].pc = "free", core'[c].at = core[c].at, core'[c].todo = core[c].todo
  PROVE  PlacesAreFree' /\ StacksApart'
<1> DEFINE at == core[c].at
           n == Doing(c).n
           pages == {at, at + n + 1}
<1>1. MakesStack(c) /\ core[c].pc = "guards" /\ stacks' = stacks /\ locks' = locks
  BY DEF PspCreateKernelStack, At, MakesStack
<1>2. at \in Int /\ n \in Nat /\ StackOf(c).at = at /\ StackOf(c).n = n /\ StackOf(c)' = StackOf(c)
  BY <1>1, Numbers DEF StackOf, Doing
<1>3. /\ Inner(StackOf(c)) /\ Outer(StackOf(c))
      /\ \A s \in stacks : Apart(StackOf(c), s)
      /\ \A d \in Cores \ {c} : MakesStack(d) => Apart(StackOf(c), StackOf(d))
  BY <1>1 DEF MemoryInv, StacksApart
<1>4. pte' = With(pte, [e \in {<<Kernel, at>>, <<Kernel, at + n + 1>>} |-> GuardEntry])
  <2>1. ToSet(Guards(at, n)) = {<<Kernel, at>>, <<Kernel, at + n + 1>>}
    BY DEF Guards, ToSet
  <2> QED BY <2>1 DEF PspCreateKernelStack, GuardEntries
<1>5. /\ DOMAIN pte' = DOMAIN pte
      /\ \A v \in Int : <<Kernel, v>> \in DOMAIN pte /\ v \notin pages =>
           pte'[<<Kernel, v>>] = pte[<<Kernel, v>>]
      /\ pte'[<<Kernel, at>>] = GuardEntry /\ pte'[<<Kernel, at + n + 1>>] = GuardEntry
  <2> DEFINE g == [e \in {<<Kernel, at>>, <<Kernel, at + n + 1>>} |-> GuardEntry]
  <2>1. /\ DOMAIN g = {<<Kernel, at>>, <<Kernel, at + n + 1>>}
        /\ g[<<Kernel, at>>] = GuardEntry /\ g[<<Kernel, at + n + 1>>] = GuardEntry
        /\ \A v \in Int : v \notin pages => <<Kernel, v>> \notin DOMAIN g
    OBVIOUS
  <2>2. DOMAIN g \subseteq DOMAIN pte
    BY <1>2, <1>3, <2>1 DEF Outer, Mapped
  <2>3. pte' = [e \in DOMAIN pte \cup DOMAIN g |-> IF e \in DOMAIN g THEN g[e] ELSE pte[e]]
    BY <1>4 DEF With
  <2> HIDE DEF g, pages
  <2>4. DOMAIN pte' = DOMAIN pte
    BY <2>2, <2>3
  <2>5. \A e \in DOMAIN pte : pte'[e] = IF e \in DOMAIN g THEN g[e] ELSE pte[e]
    BY <2>3
  <2> QED BY <2>1, <2>2, <2>4, <2>5
<1>6. \A v \in Int : Mapped(v)' <=> Mapped(v)
  BY <1>5 DEF Mapped
<1>7. KernelKeeps(pages)
  BY <1>5 DEF KernelKeeps, Mapped
<1>8. PlacesAreFree'
  BY <1>1, <1>6, PlacesStay DEF PagingLockStays
<1>9. ASSUME NEW s, s.at \in Int, s.n \in Nat, Apart(StackOf(c), s) PROVE Avoids(s, pages)
  <2>1. at + n + 1 < s.at \/ s.at + s.n + 1 < at
    BY <1>2, <1>9 DEF Apart
  <2>2. \A v \in s.at .. s.at + s.n + 1 : v # at /\ v # at + n + 1
    BY <1>2, <1>9, <2>1
  <2> QED BY <2>2 DEF Avoids
<1>10. /\ \A s \in stacks : (Inner(s) /\ Outer(s) /\ Guarded(s))'
       /\ \A d \in Cores \ {c} : MakesStack(d)' =>
            /\ MakesStack(d) /\ StackOf(d)' = StackOf(d)
            /\ Inner(StackOf(d))' /\ Outer(StackOf(d))'
            /\ core'[d].pc = "free" => Guarded(StackOf(d))'
  <2>1. \A s \in stacks : Avoids(s, pages)
    BY <1>3, <1>9, Numbers
  <2>2. \A d \in Cores \ {c} : MakesStack(d) => Avoids(StackOf(d), pages)
    BY <1>3, <1>9, Numbers
  <2> QED BY <1>7, <2>1, <2>2, OtherStacksStay
<1>11. Inner(StackOf(c))' /\ Outer(StackOf(c))' /\ Guarded(StackOf(c))'
  <2>1. PICK t : t = StackOf(c)
    OBVIOUS
  <2>2. t.at = at /\ t.n = n /\ t = StackOf(c)' /\ Inner(t) /\ Outer(t)
    BY <1>2, <1>3, <2>1
  <2>3. \A v \in at + 1 .. at + n : v \in Int /\ v \notin pages
    BY <1>2
  <2>4. at + n + 1 \in Int
    BY <1>2
  <2>5. ~ GuardEntry.present
    BY DEF GuardEntry
  <2> HIDE DEF at, n, pages
  <2>6. Inner(t)'
    <3>1. \A v \in at + 1 .. at + n : <<Kernel, v>> \in DOMAIN pte /\ pte[<<Kernel, v>>].present
      BY <2>2 DEF Inner, Mapped
    <3> QED BY <1>5, <2>2, <2>3, <3>1 DEF Inner, Mapped
  <2>7. Outer(t)'
    BY <1>2, <1>6, <2>2, <2>4 DEF Outer
  <2>8. Guarded(t)'
    BY <1>5, <2>2, <2>5 DEF Guarded
  <2> QED BY <2>2, <2>6, <2>7, <2>8 DEF Inner, Outer, Guarded
<1>12. StacksApart'
  <2>1. \A s \in stacks' : Inner(s)' /\ Outer(s)' /\ Guarded(s)'
    BY <1>1, <1>10
  <2>2. \A s, t \in stacks' : s # t => Apart(s, t)'
    BY <1>1 DEF MemoryInv, StacksApart, Apart
  <2>3. ASSUME NEW d \in Cores, MakesStack(d)'
        PROVE  /\ Inner(StackOf(d))' /\ Outer(StackOf(d))'
               /\ core'[d].pc = "free" => Guarded(StackOf(d))'
               /\ \A s \in stacks' : Apart(StackOf(d), s)'
               /\ \A e \in Cores \ {d} : MakesStack(e)' => Apart(StackOf(d), StackOf(e))'
    <3>1. MakesStack(d) /\ StackOf(d)' = StackOf(d)
      BY <1>1, <1>2, <1>10, <2>3
    <3>2. /\ \A s \in stacks : Apart(StackOf(d), s)
          /\ \A e \in Cores \ {d} : MakesStack(e) => Apart(StackOf(d), StackOf(e))
      BY <3>1 DEF MemoryInv, StacksApart
    <3>3. \A e \in Cores \ {d} : MakesStack(e)' => MakesStack(e) /\ StackOf(e)' = StackOf(e)
      BY <1>1, <1>2, <1>10
    <3>4. /\ \A s \in stacks' : Apart(StackOf(d), s)'
          /\ \A e \in Cores \ {d} : MakesStack(e)' => Apart(StackOf(d), StackOf(e))'
      BY <1>1, <3>1, <3>2, <3>3 DEF Apart
    <3> QED BY <1>10, <1>11, <2>3, <3>4
  <2> QED BY <2>1, <2>2, <2>3 DEF StacksApart
<1> QED BY <1>8, <1>12

\* The core's stack, with its guards, is one of the finished.
LEMMA FinishingKeepsStacks ==
  ASSUME MemoryInv, NEW c \in Cores, core[c].pc = "free", OthersStay(c), core'[c].pc = "start",
         stacks' = stacks \cup {StackOf(c)}, pte' = pte, locks' = locks
  PROVE  PlacesAreFree' /\ StacksApart'
<1>1. PlacesAreFree'
  BY PlacesStay DEF PagingLockStays, Mapped
<1>2. MakesStack(c)
  BY DEF MakesStack
<1>3. /\ Inner(StackOf(c)) /\ Outer(StackOf(c)) /\ Guarded(StackOf(c))
      /\ \A s \in stacks : Apart(StackOf(c), s)
      /\ \A d \in Cores \ {c} : MakesStack(d) => Apart(StackOf(c), StackOf(d))
  BY <1>2 DEF MemoryInv, StacksApart
<1>4. ASSUME NEW s, NEW t, Apart(s, t) PROVE Apart(t, s)
  BY <1>4 DEF Apart
<1>5. \A s \in stacks' : Inner(s)' /\ Outer(s)' /\ Guarded(s)'
  <2>1. \A s \in stacks : Inner(s) /\ Outer(s) /\ Guarded(s)
    BY DEF MemoryInv, StacksApart
  <2>2. \A s \in stacks' : Inner(s) /\ Outer(s) /\ Guarded(s)
    BY <1>3, <2>1
  <2> QED BY <2>2 DEF Inner, Outer, Guarded, Mapped
<1>6. \A s, t \in stacks' : s # t => Apart(s, t)'
  <2>1. \A s, t \in stacks : s # t => Apart(s, t)
    BY DEF MemoryInv, StacksApart
  <2>2. \A s, t \in stacks' : s # t => Apart(s, t)
    BY <1>3, <1>4, <2>1
  <2> QED BY <2>2 DEF Apart
<1>7. ASSUME NEW d \in Cores, MakesStack(d)'
      PROVE  /\ d # c /\ core'[d] = core[d] /\ MakesStack(d) /\ StackOf(d)' = StackOf(d)
  <2>1. d # c
    BY <1>7 DEF MakesStack
  <2>2. core'[d] = core[d]
    BY <2>1 DEF OthersStay
  <2> QED BY <1>7, <2>1, <2>2 DEF MakesStack, StackOf, Doing
<1>8. ASSUME NEW d \in Cores, MakesStack(d)'
      PROVE  /\ Inner(StackOf(d))' /\ Outer(StackOf(d))'
             /\ core'[d].pc = "free" => Guarded(StackOf(d))'
             /\ \A s \in stacks' : Apart(StackOf(d), s)'
             /\ \A e \in Cores \ {d} : MakesStack(e)' => Apart(StackOf(d), StackOf(e))'
  <2>1. /\ d # c /\ core'[d] = core[d] /\ MakesStack(d) /\ StackOf(d)' = StackOf(d)
    BY <1>7, <1>8
  <2>2. /\ Inner(StackOf(d)) /\ Outer(StackOf(d))
        /\ core[d].pc = "free" => Guarded(StackOf(d))
        /\ \A s \in stacks : Apart(StackOf(d), s)
        /\ \A e \in Cores \ {d} : MakesStack(e) => Apart(StackOf(d), StackOf(e))
    BY <2>1 DEF MemoryInv, StacksApart
  <2>3. Inner(StackOf(d))' /\ Outer(StackOf(d))' /\ (core'[d].pc = "free" => Guarded(StackOf(d))')
    BY <2>1, <2>2 DEF Inner, Outer, Guarded, Mapped
  <2>4. \A s \in stacks' : Apart(StackOf(d), s)
    BY <1>2, <2>1, <2>2
  <2>5. \A s \in stacks' : Apart(StackOf(d), s)'
    BY <2>1, <2>4 DEF Apart
  <2>6. \A e \in Cores \ {d} : MakesStack(e)' => Apart(StackOf(d), StackOf(e))'
    BY <1>7, <2>1, <2>2 DEF Apart
  <2> QED BY <2>3, <2>5, <2>6
<1>9. StacksApart'
  BY <1>5, <1>6, <1>8 DEF StacksApart
<1> QED BY <1>1, <1>9

\* What PagingFindFreePages answers.
LEMMA FoundPlaces ==
  ASSUME NEW p, NEW first \in Nat, NEW end \in Nat, NEW n \in Nat
  PROVE  /\ PagingFindFreePages(p, first, end, n) \in Int
         /\ PagingFindFreePages(p, first, end, n) = None
              \/ PagingFindFreePages(p, first, end, n) \in FreePlaces(p, first, end, n)
<1> DEFINE S == FreePlaces(p, first, end, n)
<1>1. CASE S = {}
  BY <1>1 DEF PagingFindFreePages, None
<1>2. CASE S # {}
  <2>1. S \in SUBSET Nat
    BY DEF FreePlaces
  <2>2. \E v \in S : \A w \in S : v <= w
    BY <1>2, <2>1, LeastNatural
  <2>3. PagingFindFreePages(p, first, end, n) = CHOOSE v \in S : \A w \in S : v <= w
    BY <1>2 DEF PagingFindFreePages
  <2> HIDE DEF S
  <2>4. PagingFindFreePages(p, first, end, n) \in S
    BY <2>2, <2>3
  <2> QED BY <2>1, <2>4 DEF S
<1> QED BY <1>1, <1>2

\* The place that a core finds is free, and nobody else has one.
LEMMA FindPagesKeeps ==
  ASSUME MemoryInv, NEW c \in Cores, FindPages(c)
  PROVE  /\ Becomes(c, core[c].todo, "map", core'[c].at)
         /\ PlacesAreFree' /\ StacksApart' /\ core'[c].at \in Int
<1> DEFINE cmd == Doing(c)
           at == IF cmd.do = "thread" THEN PagingFindFreePages(cmd.p, 0, UserEnd, 1)
                 ELSE PagingFindFreePages(Kernel, KernelStart, KernelEnd, PagesOf(cmd))
<1>1. /\ core' = [core EXCEPT ![c].pc = "map", ![c].at = at]
      /\ locks.paging = Free /\ locks' = [locks EXCEPT !["paging"] = c]
      /\ pte' = pte /\ stacks' = stacks
  BY DEF FindPages, FindLocked, Lock
<1>2. core[c].todo # <<>> /\ cmd.do \in {"stack", "block", "space", "thread"} /\ Typed
  BY DEF FindPages, At, Doing, MemoryInv
<1>3. cmd \in Commands
  BY <1>2, HeadTailProperties DEF Typed, Doing
<1>4. PagesOf(cmd) \in Nat \ {0} /\ cmd.p \in Processes
  BY <1>3 DEF PagesOf, Commands
<1>5. UserEnd \in Nat /\ KernelStart \in Nat /\ KernelEnd \in Nat /\ Free \notin Cores
      /\ UserEnd < KernelStart
  BY MemoryAssumption
<1>6. /\ at \in Int
      /\ cmd.do = "thread" => at = None \/ at \in FreePlaces(cmd.p, 0, UserEnd, 1)
      /\ cmd.do # "thread" => at = None \/ at \in FreePlaces(Kernel, KernelStart, KernelEnd, PagesOf(cmd))
  <2>1. CASE cmd.do = "thread"
    <3>1. at = PagingFindFreePages(cmd.p, 0, UserEnd, 1)
      BY <2>1
    <3> HIDE DEF at
    <3> QED BY <1>5, <2>1, <3>1, FoundPlaces
  <2>2. CASE cmd.do # "thread"
    <3>1. at = PagingFindFreePages(Kernel, KernelStart, KernelEnd, PagesOf(cmd))
      BY <2>2
    <3> HIDE DEF at
    <3> QED BY <1>4, <1>5, <2>2, <3>1, FoundPlaces
  <2> QED BY <2>1, <2>2
<1> HIDE DEF at
<1>7. Becomes(c, core[c].todo, "map", at)
  <2>1. "map" \in Steps
    BY DEF Steps
  <2> QED BY <1>1, <1>2, <1>6, <2>1, CoreChanges
<1>8. core'[c].pc = "map" /\ core'[c].at = at /\ core'[c].todo = core[c].todo /\ OthersStay(c)
  BY <1>7 DEF Becomes
<1>9. locks'.paging = c
  <2>1. locks = [dispatcher |-> locks.dispatcher, paging |-> locks.paging,
                 space |-> locks.space, section |-> locks.section]
    BY <1>2 DEF Typed
  <2> QED BY <1>1, <2>1
<1>10. ASSUME NEW d \in Cores, core'[d].pc = "map" PROVE d = c
  <2>1. ASSUME d # c PROVE FALSE
    <3>1. core[d].pc = "map"
      BY <1>10, <2>1, <1>8 DEF OthersStay
    <3>2. locks.paging = d
      BY <3>1 DEF MemoryInv, PlacesAreFree
    <3> QED BY <1>1, <1>5, <3>2
  <2> QED BY <2>1
<1>11. Place(c)'
  <2>1. SUFFICES ASSUME at # None
                 PROVE  IF cmd.do = "thread" THEN at \in 0 .. UserEnd - 1
                        ELSE /\ at >= KernelStart
                             /\ \A i \in 0 .. PagesOf(cmd) - 1 : <<Kernel, at + i>> \notin DOMAIN pte
    BY <1>1, <1>8 DEF Place, Mapped, Doing
  <2>2. CASE cmd.do = "thread"
    BY <1>6, <2>1, <2>2 DEF FreePlaces
  <2>3. CASE cmd.do # "thread"
    <3>1. /\ at \in KernelStart .. KernelEnd - 1
          /\ \A i \in 0 .. PagesOf(cmd) - 1 : <<Space(Kernel, at + i), at + i>> \notin DOMAIN pte
      BY <1>6, <2>1, <2>3 DEF FreePlaces
    <3>2. \A i \in 0 .. PagesOf(cmd) - 1 : Space(Kernel, at + i) = Kernel
      BY DEF Space
    <3> QED BY <1>5, <2>3, <3>1, <3>2
  <2> QED BY <2>2, <2>3
<1>12. PlacesAreFree'
  BY <1>9, <1>10, <1>11 DEF PlacesAreFree
<1>13. KernelStays
  BY <1>1 DEF KernelStays, Mapped
<1>14. StacksApart'
  BY <1>1, <1>8, <1>13, StacksStay
<1> QED BY <1>6, <1>7, <1>8, <1>12, <1>14

-----------------------------------------------------------------------------
\* The types of all but what cores do.
RestTyped ==
  /\ locks = [dispatcher |-> locks.dispatcher, paging |-> locks.paging,
              space |-> locks.space, section |-> locks.section]
  /\ views = [p \in Processes |-> views[p]]
  /\ \A p \in Processes : /\ views[p] \in Seq(Range(views[p]))
                          /\ \A v \in Range(views[p]) : v.p = p
  /\ threads \in [Processes -> Nat]
  /\ stacks \subseteq [at : Int, n : Nat]
  /\ initialised \in Nat

\* A core in the middle of a command.
LEMMA AtCommand ==
  ASSUME MemoryInv, NEW c \in Cores, NEW does, NEW pc, At(c, does, pc)
  PROVE  /\ Typed /\ phase = "running" /\ RestTyped
         /\ core[c].todo # <<>> /\ core[c].pc = pc /\ Doing(c).do \in does
         /\ Doing(c) \in Commands /\ Doing(c).p \in Processes /\ Doing(c).n \in Nat
         /\ 1 \in DOMAIN core[c].todo /\ Doing(c) = core[c].todo[1]
<1>1. /\ Typed /\ phase = "running" /\ core[c].todo # <<>> /\ core[c].pc = pc /\ Doing(c).do \in does
  BY DEF MemoryInv, At, Running, Doing
<1>2. RestTyped /\ core[c].todo \in Seq(Commands)
  BY <1>1 DEF Typed, RestTyped
<1>3. Doing(c) \in Commands
  BY <1>1, <1>2, HeadTailProperties DEF Doing
<1>4. Doing(c).p \in Processes /\ Doing(c).n \in Nat
  BY <1>3 DEF Commands
<1>5. 1 \in DOMAIN core[c].todo /\ Doing(c) = core[c].todo[1]
  BY <1>1, <1>2, EmptySeq, LenProperties DEF Doing
<1> QED BY <1>1, <1>2, <1>3, <1>4, <1>5

\* The parts of the invariant after a step of a core.
LEMMA StepKeeps ==
  ASSUME MemoryInv, NEW c \in Cores, NEW todo, NEW pc, NEW at, Becomes(c, todo, pc, at),
         pc # "start" => todo # <<>>,
         pc = "map" => Head(todo).do \in {"stack", "block", "space", "thread"},
         pc \in {"guards", "free"} => Head(todo).do = "stack",
         pc \in {"map", "guards", "free"} => at \in Int,
         RestTyped', phase' = "running", PlacesAreFree', StacksApart', Plans'
  PROVE  MemoryInv'
<1>1. /\ core'[c].todo = todo /\ core'[c].pc = pc /\ core'[c].at = at /\ OthersStay(c) /\ CoresTyped'
  BY DEF Becomes
<1>2. Typed'
  BY <1>1 DEF CoresTyped, RestTyped, Typed
<1>3. StepsFit'
  BY <1>1, StepsFitAfter
<1> QED BY <1>2, <1>3 DEF MemoryInv

\* The types of the rest stay if only this may change.
LEMMA RestStays ==
  ASSUME RestTyped, views' = views, stacks' = stacks, threads' = threads, initialised' = initialised
  PROVE  /\ locks' = locks => RestTyped'
         /\ \A x : Lock("dispatcher", x) => RestTyped' /\ locks'.paging = locks.paging
         /\ \A x : Lock("paging", x) => RestTyped' /\ locks'.paging = x
         /\ \A p, x : TakeLocks(p, x) => RestTyped' /\ locks'.paging = locks.paging
<1>1. locks = [dispatcher |-> locks.dispatcher, paging |-> locks.paging,
               space |-> locks.space, section |-> locks.section]
  BY DEF RestTyped
<1>2. locks' = locks => RestTyped'
  BY DEF RestTyped
<1>3. ASSUME NEW x, Lock("dispatcher", x)
      PROVE  locks' = [dispatcher |-> x, paging |-> locks.paging, space |-> locks.space, section |-> locks.section]
  BY <1>1, <1>3 DEF Lock
<1>4. ASSUME NEW x, Lock("paging", x)
      PROVE  locks' = [dispatcher |-> locks.dispatcher, paging |-> x, space |-> locks.space, section |-> locks.section]
  BY <1>1, <1>4 DEF Lock
<1>5. ASSUME NEW p, NEW x, TakeLocks(p, x)
      PROVE  locks' = [dispatcher |-> locks.dispatcher, paging |-> locks.paging,
                       space |-> [locks.space EXCEPT ![p] = x], section |-> x]
  BY <1>1, <1>5 DEF TakeLocks
<1>6. ASSUME NEW a, NEW b, NEW s, NEW e, locks' = [dispatcher |-> a, paging |-> b, space |-> s, section |-> e]
      PROVE  RestTyped' /\ locks'.paging = b
  BY <1>6 DEF RestTyped
<1>7. \A x : Lock("dispatcher", x) => RestTyped' /\ locks'.paging = locks.paging
  BY <1>3, <1>6
<1>8. \A x : Lock("paging", x) => RestTyped' /\ locks'.paging = x
  BY <1>4, <1>6
<1>9. \A p, x : TakeLocks(p, x) => RestTyped' /\ locks'.paging = locks.paging
  BY <1>5, <1>6
<1> QED BY <1>2, <1>7, <1>8, <1>9

\* The system stops: nothing changes any more.
LEMMA StopKeeps ==
  ASSUME MemoryInv, NEW why, Stop(why)
  PROVE  MemoryInv'
<1>1. /\ phase' = phase /\ tables' = tables /\ pte' = pte /\ views' = views /\ stacks' = stacks
      /\ threads' = threads /\ core' = core /\ locks' = locks /\ initialised' = initialised
  BY DEF Stop, sectionVars, history
<1>2. Typed' /\ StepsFit'
  BY <1>1 DEF MemoryInv, Typed, StepsFit, Doing
<1>3. PlacesAreFree' /\ StacksApart'
  <2>1. \A c \in Cores : /\ Place(c)' <=> Place(c)
                         /\ MakesStack(c)' <=> MakesStack(c)
                         /\ StackOf(c)' = StackOf(c)
    BY <1>1 DEF Place, Mapped, MakesStack, StackOf, Doing
  <2>2. PlacesAreFree'
    BY <1>1, <2>1 DEF MemoryInv, PlacesAreFree
  <2>3. StacksApart'
    BY <1>1, <2>1 DEF MemoryInv, StacksApart, Inner, Outer, Guarded, Apart, Mapped
  <2> QED BY <2>2, <2>3
<1>4. Plans'
  BY <1>1, PlansStay
<1> QED BY <1>2, <1>3, <1>4 DEF MemoryInv

\* The first core wakes another.
LEMMA ApStartupKeeps ==
  ASSUME MemoryInv, NEW c \in Cores, ApStartup(c)
  PROVE  MemoryInv'
<1>1. /\ Typed /\ RestTyped /\ phase = "running" /\ core[c].todo # <<>> /\ core[c].pc = "start"
  BY AtCommand DEF ApStartup
<1>2. PICK o \in Cores \ {c} :
        /\ core[o].todo = <<>>
        /\ core' = [core EXCEPT ![o].todo = ApProcessorInit(o), ![c].todo = Tail(@)]
  BY PlansWake
<1>3. Plans'
  BY PlansWake
<1>4. /\ phase' = phase /\ tables' = tables /\ pte' = pte /\ views' = views /\ stacks' = stacks
      /\ threads' = threads /\ locks' = locks /\ initialised' = initialised
  BY DEF ApStartup, sectionVars, history
<1>5. /\ core = [d \in Cores |-> core[d]]
      /\ \A d \in Cores : /\ core[d].todo \in Seq(Commands) /\ core[d].pc \in Steps
                          /\ core[d] = [todo |-> core[d].todo, pc |-> core[d].pc, at |-> core[d].at,
                                        reg |-> core[d].reg]
  BY <1>1 DEF Typed
<1>6. core[o].pc = "start"
  BY <1>2 DEF MemoryInv, StepsFit
<1>7. /\ core'[o] = [todo |-> ApProcessorInit(o), pc |-> "start", at |-> core[o].at, reg |-> core[o].reg]
      /\ core'[c] = [todo |-> Tail(core[c].todo), pc |-> "start", at |-> core[c].at, reg |-> core[c].reg]
      /\ \A d \in Cores : d # c /\ d # o => core'[d] = core[d]
      /\ core' = [d \in Cores |-> core'[d]]
  <2> DEFINE a == [core EXCEPT ![o].todo = ApProcessorInit(o)]
  <2>1. core' = [a EXCEPT ![c].todo = Tail(a[c].todo)]
    BY <1>2
  <2>2. DOMAIN core = Cores /\ DOMAIN a = Cores /\ DOMAIN core' = Cores
    BY <1>5, <2>1
  <2>3. a[o] = [core[o] EXCEPT !.todo = ApProcessorInit(o)]
    BY <2>2
  <2>4. \A d \in Cores : d # o => a[d] = core[d]
    BY <2>2
  <2>5. a[o] = [todo |-> ApProcessorInit(o), pc |-> "start", at |-> core[o].at, reg |-> core[o].reg]
    <3>1. core[o] = [todo |-> core[o].todo, pc |-> "start", at |-> core[o].at, reg |-> core[o].reg]
      BY <1>5, <1>6
    <3> QED BY <2>3, <3>1
  <2>6. a[c] = [todo |-> core[c].todo, pc |-> "start", at |-> core[c].at, reg |-> core[c].reg]
    BY <1>1, <1>2, <1>5, <2>4
  <2> HIDE DEF a
  <2>7. core'[c] = [a[c] EXCEPT !.todo = Tail(a[c].todo)] /\ \A d \in Cores : d # c => core'[d] = a[d]
    <3>1. core' = [d \in DOMAIN a |-> IF d = c THEN [a[c] EXCEPT !.todo = Tail(a[c].todo)] ELSE a[d]]
      BY <2>1
    <3>2. \A d \in Cores : core'[d] = IF d = c THEN [a[c] EXCEPT !.todo = Tail(a[c].todo)] ELSE a[d]
      BY <2>2, <3>1
    <3> QED BY <3>2
  <2>8. core'[c] = [todo |-> Tail(core[c].todo), pc |-> "start", at |-> core[c].at, reg |-> core[c].reg]
    <3>1. a[c].todo = core[c].todo
      BY <2>6
    <3>2. PICK x : x = a[c]
      OBVIOUS
    <3>3. PICK r : r = Tail(core[c].todo)
      OBVIOUS
    <3>4. core'[c] = [x EXCEPT !.todo = r]
      BY <2>7, <3>1, <3>2, <3>3
    <3>5. x = [todo |-> core[c].todo, pc |-> "start", at |-> core[c].at, reg |-> core[c].reg]
      BY <2>6, <3>2
    <3>6. core'[c] = [todo |-> r, pc |-> "start", at |-> core[c].at, reg |-> core[c].reg]
      BY <3>4, <3>5
    <3> QED BY <3>3, <3>6
  <2>9. core' = [d \in Cores |-> core'[d]]
    BY <2>1, <2>2
  <2> QED BY <1>2, <2>4, <2>5, <2>7, <2>8, <2>9
<1>8. ApProcessorInit(o) \in Seq(Commands) /\ Tail(core[c].todo) \in Seq(Commands)
  <2>1. ApProcessorInit(o) \in Seq(Commands)
    BY CoreStarts DEF EndsWithCount
  <2> QED BY <1>1, <1>5, <2>1, HeadTailProperties
<1>9. Typed'
  <2>1. ASSUME NEW d \in Cores
        PROVE  core'[d] \in [todo : Seq(Commands), pc : Steps, at : {core'[d].at}, reg : {core'[d].reg}]
    <3>1. "start" \in Steps
      BY DEF Steps
    <3>2. core'[d] = [todo |-> core'[d].todo, pc |-> core'[d].pc, at |-> core'[d].at, reg |-> core'[d].reg]
      <4>1. CASE d = c
        BY <1>7, <4>1
      <4>2. CASE d = o
        BY <1>7, <4>2
      <4>3. CASE d # c /\ d # o
        <5>1. core'[d] = core[d]
          BY <1>7, <4>3
        <5> QED BY <1>5, <5>1
      <4> QED BY <4>1, <4>2, <4>3
    <3>3. core'[d].todo \in Seq(Commands) /\ core'[d].pc \in Steps
      <4>1. CASE d = c
        <5>1. core'[c].todo = Tail(core[c].todo) /\ core'[c].pc = "start"
          BY <1>7
        <5> QED BY <1>8, <3>1, <4>1, <5>1
      <4>2. CASE d = o
        <5>1. core'[o].todo = ApProcessorInit(o) /\ core'[o].pc = "start"
          BY <1>7
        <5> QED BY <1>8, <3>1, <4>2, <5>1
      <4>3. CASE d # c /\ d # o
        <5>1. core'[d] = core[d]
          BY <1>7, <4>3
        <5> QED BY <1>5, <5>1
      <4> QED BY <4>1, <4>2, <4>3
    <3> QED BY <3>2, <3>3
  <2> QED BY <1>1, <1>4, <1>7, <2>1 DEF Typed
<1>10. ASSUME NEW d \in Cores, core'[d].pc # "start" PROVE core'[d] = core[d] /\ d # c /\ d # o
  BY <1>7, <1>10
<1>11. ASSUME NEW d \in Cores, core'[d].pc = "start" PROVE core[d].pc = "start"
  BY <1>1, <1>6, <1>7, <1>11
<1>12. StepsFit'
  BY <1>10 DEF MemoryInv, StepsFit, Doing
<1>13. PlacesAreFree'
  <2>1. ASSUME NEW d \in Cores, core'[d].pc = "map" PROVE locks'.paging = d /\ Place(d)'
    <3>1. core'[d] = core[d]
      BY <1>10, <2>1
    <3>2. locks.paging = d /\ Place(d)
      BY <2>1, <3>1 DEF MemoryInv, PlacesAreFree
    <3> QED BY <1>4, <3>1, <3>2 DEF Place, Doing, Mapped
  <2> QED BY <2>1 DEF PlacesAreFree
<1>14. StacksApart'
  <2>1. ASSUME NEW d \in Cores, MakesStack(d)'
        PROVE  core'[d] = core[d] /\ MakesStack(d) /\ StackOf(d)' = StackOf(d)
    <3>1. core'[d] = core[d]
      BY <1>10, <2>1 DEF MakesStack
    <3> QED BY <2>1, <3>1 DEF MakesStack, StackOf, Doing
  <2> QED BY <1>4, <2>1 DEF MemoryInv, StacksApart, Inner, Outer, Guarded, Apart, Mapped
<1> QED BY <1>3, <1>9, <1>12, <1>13, <1>14 DEF MemoryInv

\* A step that is not about stacks or places.
LEMMA QuietKeeps ==
  ASSUME MemoryInv, NEW c \in Cores, NEW todo, NEW pc, NEW at, Becomes(c, todo, pc, at),
         pc \notin {"map", "guards", "free"}, pc # "start" => todo # <<>>,
         RestTyped', phase' = "running", KernelStays, PagingLockStays(c), stacks' = stacks, Plans'
  PROVE  MemoryInv'
<1>1. OthersStay(c) /\ core'[c].pc = pc
  BY DEF Becomes
<1>2. PlacesAreFree' /\ StacksApart'
  BY <1>1, QuietSteps
<1> QED BY <1>2, StepKeeps

\* A core gets on with its command, and nothing else of interest happens.
GoesOn(c) ==
  /\ \E pc, at : Becomes(c, core[c].todo, pc, at) /\ pc \notin {"map", "guards", "free"}
  /\ core[c].todo # <<>> /\ phase = "running" /\ phase' = phase
  /\ stacks' = stacks /\ views' = views /\ tables' = tables
  /\ initialised' = initialised /\ threads' = threads

\* Such a step keeps the invariant.
LEMMA GoingOnKeeps ==
  ASSUME MemoryInv, NEW c \in Cores, GoesOn(c), RestTyped', KernelStays, PagingLockStays(c)
  PROVE  MemoryInv'
<1>1. PICK pc, at : Becomes(c, core[c].todo, pc, at) /\ pc \notin {"map", "guards", "free"}
  BY DEF GoesOn
<1>2. /\ core[c].todo # <<>> /\ phase = "running" /\ phase' = phase
      /\ stacks' = stacks /\ views' = views /\ tables' = tables
      /\ initialised' = initialised /\ threads' = threads
  BY DEF GoesOn
<1>3. \A d \in Cores : core'[d].todo = core[d].todo
  BY <1>1 DEF Becomes, OthersStay
<1>4. Plans'
  BY <1>2, <1>3, PlansStay
<1>5. phase' = "running"
  BY <1>2
<1> QED BY <1>1, <1>2, <1>4, <1>5, QuietKeeps

\* A core is done with a command that is not about stacks or places.
LEMMA CompletionKeeps ==
  ASSUME MemoryInv, NEW c \in Cores, core[c].todo # <<>>, Finishes(c), Completes(c),
         RestTyped', KernelStays, PagingLockStays(c), stacks' = stacks
  PROVE  MemoryInv'
<1>1. Becomes(c, Tail(core[c].todo), "start", None)
  BY CoreChanges DEF MemoryInv
<1>2. Plans'
  BY PlansTail
<1>3. phase' = "running"
  BY DEF Completes
<1> QED BY <1>1, <1>2, <1>3, QuietKeeps

\* What Completes(c) needs when there are no changes but those of some commands.
LEMMA CompletesIf ==
  ASSUME MemoryInv, NEW c \in Cores, core[c].todo # <<>>, Finishes(c), phase = "running", phase' = phase,
         Doing(c).do \notin {"wake", "check", "count"},
         initialised' = initialised, Doing(c).do # "thread" => threads' = threads,
         \/ views' = views /\ Doing(c).do # "view"
         \/ /\ Doing(c).do \in {"view", "delete"}
            /\ \A p \in Processes : p # Doing(c).p => views'[p] = views[p]
            /\ Doing(c).do = "view" => views'[Doing(c).p] # <<>>,
         DOMAIN tables \subseteq DOMAIN tables',
         Doing(c).do = "space" => TopTable(Doing(c).p) \in DOMAIN tables'
  PROVE  Completes(c)
<1>1. Becomes(c, Tail(core[c].todo), "start", None)
  BY CoreChanges DEF MemoryInv
<1>2. core'[c].todo = Tail(core[c].todo) /\ \A d \in Cores \ {c} : core'[d].todo = core[d].todo
  BY <1>1 DEF Becomes, OthersStay
<1>3. /\ \A p \in Processes :
           views[p] # <<>> /\ ~ (Doing(c).do = "delete" /\ Doing(c).p = p) => views'[p] # <<>>
      /\ Doing(c).do = "view" => views'[Doing(c).p] # <<>>
  OBVIOUS
<1> QED BY <1>2, <1>3 DEF Completes

\* Lists of plain commands delete nothing.
LEMMA PlainViews ==
  ASSUME NEW s \in Seq(Plain), NEW p
  PROVE  ViewsAndDeletes(s, p) /\ s \in Seq(Commands)
<1>1. Plain \subseteq Commands
  BY DEF Plain
<1>2. \A k \in DOMAIN s : s[k] \in Plain
  BY LenProperties, ElementOfSeq
<1>3. s \in Seq(Commands)
  BY <1>1
<1> QED BY <1>2, <1>3 DEF ViewsAndDeletes, Plain

\* A thread of an image starts a call.
LEMMA StartKeeps ==
  ASSUME MemoryInv, NEW c \in Cores, Start(c)
  PROVE  MemoryInv'
<1>1. /\ Typed /\ phase = "running" /\ core[c].todo = <<>> /\ phase' = phase /\ tables' = tables
      /\ pte' = pte /\ views' = views /\ stacks' = stacks /\ threads' = threads /\ locks' = locks
      /\ initialised' = initialised
  BY DEF MemoryInv, Start, Idle, Running, sectionVars
<1>2. RestTyped' /\ core[c].pc = "start"
  BY <1>1 DEF MemoryInv, StepsFit, Typed, RestTyped
<1>3. PICK p \in {Image(o) : o \in Cores} :
        /\ Spare(p)
        /\ \/ Does(c, UserThread(p))
           \/ Does(c, NtCreateProcess(Created))
           \/ \E i \in DOMAIN ImageSections, write \in BOOLEAN :
                Does(c, <<Command(IF write THEN "write" ELSE "read", p, ImageBase + ImageSections[i].first)>>)
  BY DEF Start
<1>4. p \in Processes /\ Created \in Processes
  BY SpacesDiffer
<1>5. PICK todo \in Seq(Plain) : Does(c, todo)
  <2>1. UserThread(p) \in Seq(Plain) /\ NtCreateProcess(Created) \in Seq(Plain)
    <3>1. Early \subseteq Plain
      BY DEF Early
    <3> QED BY <1>4, <3>1, PlainLists
  <2>2. ASSUME NEW i \in DOMAIN ImageSections, NEW write \in BOOLEAN
        PROVE  <<Command(IF write THEN "write" ELSE "read", p, ImageBase + ImageSections[i].first)>> \in Seq(Plain)
    <3>1. /\ ImageBase \in Nat
          /\ ImageSections \in Seq([first : Nat, pages : Nat \ {0}, offset : Nat, write : BOOLEAN])
      BY MemoryAssumption
    <3>2. ImageSections[i] \in [first : Nat, pages : Nat \ {0}, offset : Nat, write : BOOLEAN]
      BY <3>1, LenProperties, ElementOfSeq
    <3>3. ImageBase + ImageSections[i].first \in Nat
      BY <3>1, <3>2
    <3>4. Command(IF write THEN "write" ELSE "read", p, ImageBase + ImageSections[i].first) \in Plain
      BY <1>4, <3>3, PlainCommands
    <3> QED BY <3>4
  <2> QED BY <1>3, <2>1, <2>2
<1>6. ViewsAndDeletes(todo, Image(c)) /\ todo \in Seq(Commands)
  BY PlainViews
<1>7. Becomes(c, todo, "start", core[c].at)
  BY <1>1, <1>2, <1>5, <1>6, CoreChanges
<1>8. core'[c].todo = todo /\ \A d \in Cores \ {c} : core'[d].todo = core[d].todo
  BY <1>7 DEF Becomes, OthersStay
<1>9. Uncounted = {}
  <2>1. CallsIn(p) \in SUBSET Cores
    BY DEF CallsIn
  <2>2. IsFiniteSet(CallsIn(p))
    BY <2>1, CoresFinite, FS_Subset
  <2>3. Cardinality(CallsIn(p)) \in Nat
    BY <2>2, FS_CardinalityType
  <2>4. threads[p] # 0
    BY <1>3, <2>3 DEF Spare
  <2> QED BY <1>4, <2>4, ThreadsCounted
<1>10. Plans'
  BY <1>1, <1>6, <1>8, <1>9, PlansReplace
<1>11. KernelStays /\ PagingLockStays(c)
  BY <1>1 DEF KernelStays, PagingLockStays, Mapped
<1> QED BY <1>1, <1>2, <1>7, <1>10, <1>11, QuietKeeps

\* Whoever finds all cores counted starts the image.
LEMMA CheckCoresKeeps ==
  ASSUME MemoryInv, NEW c \in Cores, CheckCores(c)
  PROVE  MemoryInv'
<1> DEFINE todo == IF ~StartsImage(c) THEN <<>> ELSE LoaderProgram(Image(c))
<1>1. /\ Typed /\ RestTyped /\ phase = "running" /\ core[c].pc = "start"
  BY AtCommand DEF CheckCores
<1>2. /\ Does(c, todo) /\ phase' = phase /\ tables' = tables
      /\ pte' = pte /\ views' = views /\ stacks' = stacks /\ threads' = threads /\ locks' = locks
      /\ initialised' = initialised
  BY DEF CheckCores, LoaderProgram, sectionVars, history
<1>3. Image(c) \in Processes
  BY SpacesDiffer
<1>4. ViewsAndDeletes(todo, Image(c))
  <2>1. ViewsAndDeletes(<<>>, Image(c))
    <3>1. <<>> \in Seq(Plain)
      OBVIOUS
    <3> QED BY <3>1, PlainViews
  <2> QED BY <1>3, <2>1, LoaderCommands
<1>5. todo \in Seq(Commands)
  BY <1>4 DEF ViewsAndDeletes
<1> HIDE DEF todo
<1>6. Becomes(c, todo, "start", core[c].at)
  BY <1>1, <1>2, <1>5, CoreChanges
<1>7. core'[c].todo = todo /\ \A d \in Cores \ {c} : core'[d].todo = core[d].todo
  BY <1>6 DEF Becomes, OthersStay
<1>8. Plans'
  <2>1. CASE StartsImage(c)
    <3>1. Uncounted = {}
      BY <1>1, <2>1, AllCounted DEF StartsImage
    <3>2. \E k \in DOMAIN core'[c].todo :
            core'[c].todo[k].do = "space" /\ core'[c].todo[k].p = Image(c)
      BY <1>3, <1>7, <2>1, LoaderCommands DEF todo
    <3> QED BY <1>1, <1>2, <1>4, <1>7, <3>1, <3>2, PlansReplace
  <2>2. CASE ~ StartsImage(c)
    <3>1. core'[c].todo = <<>> /\ initialised # Len(CoreList)
      BY <1>7, <2>2 DEF todo, StartsImage
    <3> QED BY <1>1, <1>2, <1>4, <1>7, <3>1, PlansReplace
  <2> QED BY <2>1, <2>2
<1>9. RestTyped' /\ KernelStays /\ PagingLockStays(c)
  BY <1>1, <1>2, RestStays DEF KernelStays, PagingLockStays, Mapped
<1> QED BY <1>1, <1>2, <1>6, <1>8, <1>9, QuietKeeps

\* Taking and releasing the DispatcherLock, with or without a count.
LEMMA DispatcherLockKeeps ==
  ASSUME MemoryInv, NEW c \in Cores,
         KiAcquireDispatcherLock(c) \/ KiReleaseDispatcherLock(c) \/ CountCore(c)
  PROVE  MemoryInv'
<1>1. /\ Typed /\ RestTyped /\ phase = "running" /\ core[c].todo # <<>>
      /\ Doing(c).do \in {"lock", "unlock", "count"}
      /\ CountCore(c) => Doing(c).do = "count"
      /\ ~ CountCore(c) => Doing(c).do # "count"
  <2>1. CASE CountCore(c)
    BY <2>1, AtCommand DEF CountCore
  <2>2. CASE KiAcquireDispatcherLock(c)
    <3>1. /\ Typed /\ RestTyped /\ phase = "running" /\ core[c].todo # <<>> /\ Doing(c).do = "lock"
      BY <2>2, AtCommand DEF KiAcquireDispatcherLock
    <3>2. ~ CountCore(c)
      BY <3>1 DEF CountCore, At, Doing
    <3> QED BY <3>1, <3>2
  <2>3. CASE KiReleaseDispatcherLock(c)
    <3>1. /\ Typed /\ RestTyped /\ phase = "running" /\ core[c].todo # <<>> /\ Doing(c).do = "unlock"
      BY <2>3, AtCommand DEF KiReleaseDispatcherLock
    <3>2. ~ CountCore(c)
      BY <3>1 DEF CountCore, At, Doing
    <3> QED BY <3>1, <3>2
  <2> QED BY <2>1, <2>2, <2>3
<1>2. /\ Finishes(c) /\ \E x : Lock("dispatcher", x)
      /\ phase' = phase /\ tables' = tables /\ pte' = pte /\ views' = views /\ stacks' = stacks
      /\ threads' = threads
      /\ initialised' = IF CountCore(c) THEN initialised + 1 ELSE initialised
  <2>1. CASE CountCore(c)
    BY <2>1 DEF CountCore, sectionVars
  <2>2. CASE ~ CountCore(c)
    BY <2>2 DEF KiAcquireDispatcherLock, KiReleaseDispatcherLock, sectionVars, history
  <2> QED BY <2>1, <2>2
<1>3. Becomes(c, Tail(core[c].todo), "start", None)
  BY <1>1, <1>2, CoreChanges
<1>4. core'[c].todo = Tail(core[c].todo) /\ \A d \in Cores \ {c} : core'[d].todo = core[d].todo
  BY <1>3 DEF Becomes, OthersStay
<1>5. Completes(c)
  BY <1>1, <1>2, <1>4 DEF Completes
<1>6. RestTyped' /\ locks'.paging = locks.paging
  <2>1. PICK x : Lock("dispatcher", x)
    BY <1>2
  <2>2. /\ locks = [dispatcher |-> locks.dispatcher, paging |-> locks.paging,
                    space |-> locks.space, section |-> locks.section]
    BY <1>1 DEF RestTyped
  <2>3. locks' = [dispatcher |-> x, paging |-> locks.paging, space |-> locks.space, section |-> locks.section]
    BY <2>1, <2>2 DEF Lock
  <2>4. initialised' \in Nat
    BY <1>1, <1>2 DEF RestTyped
  <2> QED BY <1>1, <1>2, <2>3, <2>4 DEF RestTyped
<1>7. KernelStays /\ PagingLockStays(c)
  BY <1>2, <1>6 DEF KernelStays, PagingLockStays, Mapped
<1> QED BY <1>1, <1>2, <1>5, <1>6, <1>7, CompletionKeeps

\* Entries of processes are none of the kernel's.
LEMMA OtherSpaces ==
  ASSUME NEW f
  PROVE  /\ pte' = With(pte, f) /\ (\A e \in DOMAIN f : e[1] \in Processes) => KernelStays
         /\ pte' = Without(pte, f) /\ (\A e \in f : e[1] \in Processes) => KernelStays
<1>1. \A v : <<Kernel, v>>[1] = Kernel /\ Kernel \notin Processes
  BY SpacesDiffer
<1>2. ASSUME pte' = With(pte, f), \A e \in DOMAIN f : e[1] \in Processes PROVE KernelStays
  <2>1. pte' = [e \in DOMAIN pte \cup DOMAIN f |-> IF e \in DOMAIN f THEN f[e] ELSE pte[e]]
    BY <1>2 DEF With
  <2>2. \A v : <<Kernel, v>> \notin DOMAIN f
    BY <1>1, <1>2
  <2> QED BY <2>1, <2>2 DEF KernelStays, Mapped
<1>3. ASSUME pte' = Without(pte, f), \A e \in f : e[1] \in Processes PROVE KernelStays
  <2>1. pte' = [e \in DOMAIN pte \ f |-> pte[e]]
    BY <1>3 DEF Without
  <2>2. \A v : <<Kernel, v>> \notin f
    BY <1>1, <1>3
  <2> QED BY <2>1, <2>2 DEF KernelStays, Mapped
<1> QED BY <1>2, <1>3

\* Steps on the way through a command that leave the kernel's pages alone.
LEMMA GetFrameKeeps ==
  ASSUME MemoryInv, NEW c \in Cores, GetFrame(c)
  PROVE  MemoryInv'
<1>1. /\ Typed /\ RestTyped /\ phase = "running" /\ core[c].todo # <<>>
  BY AtCommand DEF GetFrame
<1>2. CASE Stop("frames")
  BY <1>2, StopKeeps
<1>3. CASE ~ Stop("frames")
  <2>1. /\ core' = [core EXCEPT ![c].pc = "find", ![c].reg = <<Head(free)>>]
        /\ phase' = phase /\ tables' = tables /\ pte' = pte /\ views' = views /\ stacks' = stacks
        /\ threads' = threads /\ locks' = locks /\ initialised' = initialised
    BY <1>3 DEF GetFrame, sectionVars, history
  <2>2. Becomes(c, core[c].todo, "find", core[c].at)
    <3>1. "find" \in Steps
      BY DEF Steps
    <3> QED BY <1>1, <2>1, <3>1, CoreChanges
  <2>3. RestTyped' /\ KernelStays /\ PagingLockStays(c)
    BY <1>1, <2>1, RestStays DEF KernelStays, PagingLockStays, Mapped
  <2>4. GoesOn(c)
    BY <1>1, <2>1, <2>2 DEF GoesOn
  <2> QED BY <2>3, <2>4, GoingOnKeeps
<1> QED BY <1>2, <1>3

\* The locks of the space and the section are taken.
LEMMA LockViewKeeps ==
  ASSUME MemoryInv, NEW c \in Cores, LockView(c)
  PROVE  MemoryInv'
<1>1. /\ Typed /\ RestTyped /\ phase = "running" /\ core[c].todo # <<>>
  BY AtCommand DEF LockView
<1>2. /\ Goes(c, "locked") /\ \E p, x : TakeLocks(p, x)
      /\ phase' = phase /\ tables' = tables /\ pte' = pte /\ views' = views /\ stacks' = stacks
      /\ threads' = threads /\ initialised' = initialised
  BY DEF LockView, sectionVars, history
<1>3. Becomes(c, core[c].todo, "locked", core[c].at)
  <2>1. "locked" \in Steps
    BY DEF Steps
  <2> QED BY <1>1, <1>2, <2>1, CoreChanges
<1>4. RestTyped' /\ KernelStays /\ PagingLockStays(c)
  BY <1>1, <1>2, RestStays DEF KernelStays, PagingLockStays, Mapped
<1>5. GoesOn(c)
  BY <1>1, <1>2, <1>3 DEF GoesOn
<1> QED BY <1>4, <1>5, GoingOnKeeps

\* A page fault goes on to the section, or stops the system.
LEMMA PageFaultHandlerKeeps ==
  ASSUME MemoryInv, NEW c \in Cores, PageFaultHandler(c)
  PROVE  MemoryInv'
<1>1. /\ Typed /\ RestTyped /\ phase = "running" /\ core[c].todo # <<>>
  BY AtCommand DEF PageFaultHandler
<1>2. CASE Stop("present")
  BY <1>2, StopKeeps
<1>3. CASE ~ Stop("present")
  <2>1. /\ Goes(c, "handle")
        /\ phase' = phase /\ tables' = tables /\ pte' = pte /\ views' = views /\ stacks' = stacks
        /\ threads' = threads /\ locks' = locks /\ initialised' = initialised
    BY <1>3 DEF PageFaultHandler, sectionVars, history
  <2>2. Becomes(c, core[c].todo, "handle", core[c].at)
    <3>1. "handle" \in Steps
      BY DEF Steps
    <3> QED BY <1>1, <2>1, <3>1, CoreChanges
  <2>3. RestTyped' /\ KernelStays /\ PagingLockStays(c)
    BY <1>1, <2>1, RestStays DEF KernelStays, PagingLockStays, Mapped
  <2>4. GoesOn(c)
    BY <1>1, <2>1, <2>2 DEF GoesOn
  <2> QED BY <2>3, <2>4, GoingOnKeeps
<1> QED BY <1>2, <1>3

\* A thread gets at a page, or faults on it.
LEMMA AccessKeeps ==
  ASSUME MemoryInv, NEW c \in Cores, Access(c)
  PROVE  MemoryInv'
<1>1. /\ Typed /\ RestTyped /\ phase = "running" /\ core[c].todo # <<>>
      /\ Doing(c).do \in {"read", "write"}
  BY AtCommand DEF Access
<1>2. /\ phase' = phase /\ tables' = tables /\ pte' = pte /\ views' = views /\ stacks' = stacks
      /\ threads' = threads /\ locks' = locks /\ initialised' = initialised
      /\ Finishes(c) \/ Goes(c, "fault")
  BY DEF Access
<1>3. RestTyped' /\ KernelStays /\ PagingLockStays(c)
  BY <1>1, <1>2, RestStays DEF KernelStays, PagingLockStays, Mapped
<1>4. CASE Finishes(c)
  <2>1. Completes(c)
    BY <1>1, <1>2, <1>4, CompletesIf
  <2> QED BY <1>1, <1>2, <1>3, <1>4, <2>1, CompletionKeeps
<1>5. CASE Goes(c, "fault")
  <2>1. Becomes(c, core[c].todo, "fault", core[c].at)
    <3>1. "fault" \in Steps
      BY DEF Steps
    <3> QED BY <1>1, <1>5, <3>1, CoreChanges
  <2>2. GoesOn(c)
    BY <1>1, <1>2, <2>1 DEF GoesOn
  <2> QED BY <1>3, <2>2, GoingOnKeeps
<1> QED BY <1>2, <1>4, <1>5

\* The page has been read from the file, and the access is tried again.
LEMMA NtReadFileKeeps ==
  ASSUME MemoryInv, NEW c \in Cores, NtReadFile(c)
  PROVE  MemoryInv'
<1>1. /\ Typed /\ RestTyped /\ phase = "running" /\ core[c].todo # <<>>
  BY AtCommand DEF NtReadFile
<1>2. CASE Stop("dispatch")
  BY <1>2, StopKeeps
<1>3. CASE ~ Stop("dispatch")
  <2>1. /\ core' = [core EXCEPT ![c].pc = "start", ![c].at = None] /\ TakeLocks(Doing(c).p, Free)
        /\ phase' = phase /\ tables' = tables /\ pte' = pte /\ views' = views /\ stacks' = stacks
        /\ threads' = threads /\ initialised' = initialised
    BY <1>3 DEF NtReadFile, Release, history
  <2>2. Becomes(c, core[c].todo, "start", None)
    <3>1. "start" \in Steps /\ None \in Int
      BY DEF Steps, None
    <3> QED BY <1>1, <2>1, <3>1, CoreChanges
  <2>3. RestTyped' /\ KernelStays /\ PagingLockStays(c)
    BY <1>1, <2>1, RestStays DEF KernelStays, PagingLockStays, Mapped
  <2>4. GoesOn(c)
    BY <1>1, <2>1, <2>2 DEF GoesOn
  <2> QED BY <2>3, <2>4, GoingOnKeeps
<1> QED BY <1>2, <1>3

\* The page of a view gets a frame: none of the kernel's pages changes.
LEMMA MmHandlePageFaultKeeps ==
  ASSUME MemoryInv, NEW c \in Cores, MmHandlePageFault(c)
  PROVE  MemoryInv'
<1>1. /\ Typed /\ RestTyped /\ phase = "running" /\ core[c].todo # <<>> /\ Doing(c).p \in Processes
  BY AtCommand DEF MmHandlePageFault
<1>2. CASE Stop("frames")
  BY <1>2, StopKeeps
<1>3. CASE ~ Stop("frames")
  <2>1. PICK i \in DOMAIN views[Doing(c).p] :
          \E view \in {views[Doing(c).p][i]}, index \in {MappingIndex(views[Doing(c).p][i], Doing(c).n)} :
            /\ IF mappings[index] # None THEN UNCHANGED <<frameVars, pte, mappings>>
               ELSE /\ MmAllocatePfn(1)
                    /\ mappings' = [mappings EXCEPT ![index] = Head(free)]
                    /\ pte' = With(pte, [e \in {Accessed(c)} |-> Present(Head(free), view.write)])
            /\ TakeLocks(view.p, c)
            /\ core' = [core EXCEPT ![c].pc = "file", ![c].at = FilePage(view, Doing(c).n)]
            /\ UNCHANGED <<phase, tables, contents, views, stacks, threads, history, stopped>>
    BY <1>3 DEF MmHandlePageFault
  <2> DEFINE view == views[Doing(c).p][i]
             index == MappingIndex(view, Doing(c).n)
  <2>2. /\ phase' = phase /\ tables' = tables /\ views' = views /\ stacks' = stacks
        /\ threads' = threads /\ initialised' = initialised
    BY <2>1 DEF history
  <2>3. KernelStays
    <3>1. CASE mappings[index] # None
      BY <2>1, <3>1 DEF KernelStays, Mapped
    <3>2. CASE mappings[index] = None
      <4> DEFINE f == [e \in {Accessed(c)} |-> Present(Head(free), view.write)]
      <4>1. pte' = With(pte, f)
        BY <2>1, <3>2
      <4>2. \A e \in DOMAIN f : e[1] \in Processes
        <5>1. DOMAIN f = {Accessed(c)}
          OBVIOUS
        <5>2. Accessed(c)[1] \in Processes
          BY <1>1 DEF Accessed
        <5> HIDE DEF f
        <5> QED BY <5>1, <5>2
      <4> HIDE DEF f
      <4> QED BY <4>1, <4>2, OtherSpaces
    <3> QED BY <3>1, <3>2
  <2>5. Becomes(c, core[c].todo, "file", FilePage(view, Doing(c).n))
    <3>1. "file" \in Steps
      BY DEF Steps
    <3> QED BY <1>1, <2>1, <3>1, CoreChanges
  <2>6. RestTyped' /\ PagingLockStays(c)
    BY <1>1, <2>1, <2>2, RestStays DEF PagingLockStays
  <2>7. GoesOn(c)
    BY <1>1, <2>2, <2>5 DEF GoesOn
  <2> QED BY <2>3, <2>6, <2>7, GoingOnKeeps
<1> QED BY <1>2, <1>3

\* A sequence is one of its own elements.
LEMMA OwnElements ==
  ASSUME NEW T, NEW s \in Seq(T)
  PROVE  s \in Seq(Range(s)) /\ Range(s) \subseteq T
<1>1. Len(s) \in Nat /\ DOMAIN s = 1 .. Len(s) /\ s = [i \in 1 .. Len(s) |-> s[i]]
  BY LenProperties
<1>2. \A i \in 1 .. Len(s) : s[i] \in T /\ s[i] \in Range(s)
  BY <1>1, ElementOfSeq DEF Range
<1>3. s \in [1 .. Len(s) -> Range(s)]
  BY <1>1, <1>2
<1>4. s \in Seq(Range(s))
  BY <1>1, <1>3, FunctionsAreSequences
<1> QED BY <1>1, <1>2, <1>4 DEF Range

\* The views of one process change.
LEMMA ViewsStayTyped ==
  ASSUME RestTyped, NEW p \in Processes, NEW T, NEW s \in Seq(T), \A v \in T : v.p = p,
         views' = [views EXCEPT ![p] = s],
         locks' = [dispatcher |-> locks'.dispatcher, paging |-> locks'.paging,
                   space |-> locks'.space, section |-> locks'.section],
         stacks' = stacks, threads' = threads, initialised' = initialised
  PROVE  RestTyped' /\ views'[p] = s /\ \A q \in Processes : q # p => views'[q] = views[q]
<1>1. views = [q \in Processes |-> views[q]]
  BY DEF RestTyped
<1>2. /\ views'[p] = s /\ \A q \in Processes : q # p => views'[q] = views[q]
      /\ views' = [q \in Processes |-> views'[q]]
  BY <1>1
<1>3. s \in Seq(Range(s)) /\ \A v \in Range(s) : v.p = p
  <2>1. s \in Seq(Range(s)) /\ Range(s) \subseteq T
    BY OwnElements
  <2> QED BY <2>1
<1>4. ASSUME NEW q \in Processes
      PROVE  views'[q] \in Seq(Range(views'[q])) /\ \A v \in Range(views'[q]) : v.p = q
  <2>1. CASE q = p
    BY <1>2, <1>3, <2>1
  <2>2. CASE q # p
    BY <1>2, <2>2 DEF RestTyped
  <2> QED BY <2>1, <2>2
<1> QED BY <1>2, <1>4 DEF RestTyped

\* What a lock of a space and the section leaves alone.
LEMMA ViewLocks ==
  ASSUME RestTyped, NEW p, NEW x, TakeLocks(p, x)
  PROVE  /\ locks' = [dispatcher |-> locks'.dispatcher, paging |-> locks'.paging,
                      space |-> locks'.space, section |-> locks'.section]
         /\ locks'.paging = locks.paging
<1>1. locks = [dispatcher |-> locks.dispatcher, paging |-> locks.paging,
               space |-> locks.space, section |-> locks.section]
  BY DEF RestTyped
<1>2. locks' = [dispatcher |-> locks.dispatcher, paging |-> locks.paging,
                space |-> [locks.space EXCEPT ![p] = x], section |-> x]
  BY <1>1 DEF TakeLocks
<1> QED BY <1>2

\* New tables are only added.
LEMMA TablesGrow ==
  ASSUME NEW needs
  PROVE  DOMAIN tables \subseteq DOMAIN NewTables(needs)
BY DEF NewTables

\* A view appears in its process.
LEMMA MmCreateViewKeeps ==
  ASSUME MemoryInv, NEW c \in Cores, MmCreateView(c)
  PROVE  MemoryInv'
<1> DEFINE p == Doing(c).p
           view == View(p, Doing(c).n)
           s == Append(views[p], view)
<1>1. /\ Typed /\ RestTyped /\ phase = "running" /\ core[c].todo # <<>> /\ p \in Processes
      /\ Doing(c).do = "view"
  BY AtCommand DEF MmCreateView
<1>2. CASE Stop("conflict") \/ Stop("frames")
  BY <1>2, StopKeeps
<1>3. CASE ~ (Stop("conflict") \/ Stop("frames"))
  <2>1. /\ PagingMapPage(Needs(view.p, ViewPages(view), FALSE), ViewEntries(view))
        /\ views' = [views EXCEPT ![view.p] = Append(@, view)]
        /\ TakeLocks(view.p, Free)
        /\ Finishes(c)
        /\ UNCHANGED <<phase, contents, stacks, threads, history, stopped>>
    BY <1>3 DEF MmCreateView
  <2>2. view.p = p
    BY DEF View
  <2>3. /\ phase' = phase /\ stacks' = stacks /\ threads' = threads /\ initialised' = initialised
        /\ DOMAIN tables \subseteq DOMAIN tables'
    BY <2>1, TablesGrow DEF history, PagingMapPage
  <2>4. KernelStays
    <3>1. pte' = With(pte, ViewEntries(view))
      BY <2>1 DEF PagingMapPage
    <3>2. \A e \in DOMAIN ViewEntries(view) : e[1] \in Processes
      BY <1>1, <2>2 DEF ViewEntries
    <3> QED BY <3>1, <3>2, OtherSpaces
  <2>5. views' = [views EXCEPT ![p] = s]
    BY <2>1, <2>2
  <2>6. s \in Seq(Range(views[p]) \cup {view}) /\ s # <<>>
    <3>1. views[p] \in Seq(Range(views[p]))
      BY <1>1 DEF RestTyped
    <3>2. views[p] \in Seq(Range(views[p]) \cup {view})
      BY <3>1
    <3> HIDE DEF view, p
    <3> QED BY <3>2, AppendProperties
  <2>7. \A v \in Range(views[p]) \cup {view} : v.p = p
    BY <1>1, <2>2 DEF RestTyped
  <2>8. /\ locks' = [dispatcher |-> locks'.dispatcher, paging |-> locks'.paging,
                     space |-> locks'.space, section |-> locks'.section]
        /\ locks'.paging = locks.paging
    BY <1>1, <2>1, ViewLocks
  <2> HIDE DEF s, view
  <2>9. RestTyped' /\ views'[p] = s /\ \A q \in Processes : q # p => views'[q] = views[q]
    BY <1>1, <2>3, <2>5, <2>6, <2>7, <2>8, ViewsStayTyped
  <2>10. Completes(c)
    BY <1>1, <2>1, <2>3, <2>6, <2>9, CompletesIf
  <2>11. PagingLockStays(c)
    BY <2>8 DEF PagingLockStays
  <2> QED BY <1>1, <2>1, <2>3, <2>4, <2>9, <2>10, <2>11, CompletionKeeps
<1> QED BY <1>2, <1>3

\* The view that is deleted is there, and one of the process.
LEMMA MmDeleteViewKeeps ==
  ASSUME MemoryInv, NEW c \in Cores, MmDeleteView(c)
  PROVE  MemoryInv'
<1> DEFINE p == Doing(c).p
           view == Head(views[p])
           s == Tail(views[p])
<1>1. /\ Typed /\ RestTyped /\ phase = "running" /\ core[c].todo # <<>> /\ p \in Processes
      /\ Doing(c).do = "delete" /\ 1 \in DOMAIN core[c].todo /\ Doing(c) = core[c].todo[1]
  BY AtCommand DEF MmDeleteView
<1>2. views[p] # <<>>
  <2>1. /\ core[c].todo[1].p = Image(c)
        /\ views[Image(c)] = <<>> => 1 > 2
    BY <1>1 DEF MemoryInv, Plans, DeletesItsView
  <2>2. ~ 1 > 2
    OBVIOUS
  <2> QED BY <1>1, <2>1, <2>2
<1>3. views[p] \in Seq(Range(views[p])) /\ \A v \in Range(views[p]) : v.p = p
  BY <1>1 DEF RestTyped
<1>4. view \in Range(views[p]) /\ s \in Seq(Range(views[p]))
  <2>1. PICK v, R : v = views[p] /\ R = Range(views[p])
    OBVIOUS
  <2>2. v \in Seq(R) /\ v # <<>>
    BY <1>2, <1>3, <2>1
  <2>3. Head(v) \in R /\ Tail(v) \in Seq(R)
    BY <2>2, HeadTailProperties
  <2> QED BY <2>1, <2>3
<1>5. view.p = p
  BY <1>3, <1>4
<1>6. /\ pte' = Without(pte, DeletedEntries(view))
      /\ views' = [views EXCEPT ![view.p] = Tail(@)]
      /\ TakeLocks(view.p, Free) /\ Finishes(c)
      /\ phase' = phase /\ stacks' = stacks /\ threads' = threads /\ initialised' = initialised
      /\ tables' = tables
  BY DEF MmDeleteView, history
<1>7. KernelStays
  <2>1. ASSUME NEW e \in DeletedEntries(view) PROVE e[1] \in Processes
    <3>1. PICK v1 : e = <<view.p, v1>>
      BY DEF DeletedEntries
    <3> QED BY <1>1, <1>5, <3>1
  <2>2. PICK gone : gone = DeletedEntries(view)
    OBVIOUS
  <2>3. pte' = Without(pte, gone) /\ \A e \in gone : e[1] \in Processes
    BY <1>6, <2>1, <2>2
  <2> QED BY <2>3, OtherSpaces
<1>8. views' = [views EXCEPT ![p] = s]
  BY <1>5, <1>6
<1>9. /\ locks' = [dispatcher |-> locks'.dispatcher, paging |-> locks'.paging,
                   space |-> locks'.space, section |-> locks'.section]
      /\ locks'.paging = locks.paging
  BY <1>1, <1>6, ViewLocks
<1> HIDE DEF s, view
<1>10. RestTyped' /\ views'[p] = s /\ \A q \in Processes : q # p => views'[q] = views[q]
  <2>1. s \in Seq(Range(views[p])) /\ \A v \in Range(views[p]) : v.p = p
    BY <1>3, <1>4
  <2>2. stacks' = stacks /\ threads' = threads /\ initialised' = initialised
    BY <1>6
  <2> QED BY <1>1, <1>8, <1>9, <2>1, <2>2, ViewsStayTyped
<1>11. Completes(c)
  BY <1>1, <1>6, <1>10, CompletesIf
<1>12. PagingLockStays(c)
  BY <1>9 DEF PagingLockStays
<1> QED BY <1>1, <1>6, <1>7, <1>10, <1>11, <1>12, CompletionKeeps

-----------------------------------------------------------------------------
\* Steps of the making of stacks, blocks, spaces and threads.
LEMMA FindPagesStepKeeps ==
  ASSUME MemoryInv, NEW c \in Cores, FindPages(c)
  PROVE  MemoryInv'
<1>1. /\ Typed /\ RestTyped /\ phase = "running" /\ core[c].todo # <<>>
      /\ Doing(c).do \in {"stack", "block", "space", "thread"}
  <2>1. CASE At(c, {"stack", "block"}, "start")
    BY <2>1, AtCommand
  <2>2. CASE At(c, {"space", "thread"}, "find")
    BY <2>2, AtCommand
  <2> QED BY <2>1, <2>2 DEF FindPages
<1>2. /\ Becomes(c, core[c].todo, "map", core'[c].at) /\ PlacesAreFree' /\ StacksApart'
      /\ core'[c].at \in Int
  BY FindPagesKeeps
<1>3. /\ Lock("paging", c) /\ phase' = phase /\ tables' = tables /\ views' = views /\ stacks' = stacks
      /\ threads' = threads /\ initialised' = initialised
  BY DEF FindPages, FindLocked, sectionVars, history
<1>4. RestTyped'
  BY <1>1, <1>3, RestStays
<1>5. Plans'
  <2>1. \A d \in Cores : core'[d].todo = core[d].todo
    BY <1>2 DEF Becomes, OthersStay
  <2> QED BY <1>3, <2>1, PlansStay
<1>6. Head(core[c].todo).do \in {"stack", "block", "space", "thread"}
  BY <1>1 DEF Doing
<1>7. phase' = "running"
  BY <1>1, <1>3
<1> QED BY <1>1, <1>2, <1>4, <1>5, <1>6, <1>7, StepKeeps

\* The outer pages of a stack become its guards.
LEMMA PspCreateKernelStackKeeps ==
  ASSUME MemoryInv, NEW c \in Cores, PspCreateKernelStack(c)
  PROVE  MemoryInv'
<1>1. /\ Typed /\ RestTyped /\ phase = "running" /\ core[c].todo # <<>>
      /\ Doing(c).do = "stack" /\ core[c].pc = "guards"
  BY AtCommand DEF PspCreateKernelStack
<1>2. /\ \E reg : core' = [core EXCEPT ![c].pc = "free", ![c].reg = reg]
      /\ phase' = phase /\ tables' = tables /\ views' = views /\ stacks' = stacks
      /\ threads' = threads /\ initialised' = initialised /\ locks' = locks
  BY DEF PspCreateKernelStack, sectionVars, history
<1>3. Becomes(c, core[c].todo, "free", core[c].at)
  <2>1. "free" \in Steps
    BY DEF Steps
  <2> QED BY <1>1, <1>2, <2>1, CoreChanges
<1>4. PlacesAreFree' /\ StacksApart'
  <2>1. OthersStay(c) /\ core'[c].pc = "free" /\ core'[c].at = core[c].at /\ core'[c].todo = core[c].todo
    BY <1>3 DEF Becomes
  <2> QED BY <2>1, GuardsKeepStacks
<1>5. RestTyped'
  BY <1>1, <1>2, RestStays
<1>6. Plans'
  <2>1. \A d \in Cores : core'[d].todo = core[d].todo
    BY <1>3 DEF Becomes, OthersStay
  <2> QED BY <1>2, <2>1, PlansStay
<1>7. Head(core[c].todo).do = "stack" /\ core[c].at \in Int
  BY <1>1 DEF Doing, MemoryInv, StepsFit
<1>8. phase' = "running"
  BY <1>1, <1>2
<1> QED BY <1>1, <1>3, <1>4, <1>5, <1>6, <1>7, <1>8, StepKeeps

\* The stack is finished.
LEMMA FreeGuardsKeeps ==
  ASSUME MemoryInv, NEW c \in Cores, FreeGuards(c)
  PROVE  MemoryInv'
<1>1. /\ Typed /\ RestTyped /\ phase = "running" /\ core[c].todo # <<>>
      /\ Doing(c).do = "stack" /\ core[c].pc = "free"
  BY AtCommand DEF FreeGuards
<1>2. /\ Finishes(c) /\ stacks' = stacks \cup {StackOf(c)}
      /\ phase' = phase /\ tables' = tables /\ pte' = pte /\ views' = views
      /\ threads' = threads /\ initialised' = initialised /\ locks' = locks
  BY DEF FreeGuards, StackOf, sectionVars, history
<1>3. Becomes(c, Tail(core[c].todo), "start", None)
  BY <1>1, <1>2, CoreChanges
<1>4. PlacesAreFree' /\ StacksApart'
  <2>1. OthersStay(c) /\ core'[c].pc = "start"
    BY <1>3 DEF Becomes
  <2> QED BY <1>1, <1>2, <2>1, FinishingKeepsStacks
<1>5. RestTyped'
  <2>1. StackOf(c) \in [at : Int, n : Nat]
    <3>1. core[c].at \in Int /\ Doing(c).n \in Nat
      BY <1>1, Numbers
    <3> QED BY <3>1 DEF StackOf
  <2> QED BY <1>1, <1>2, <2>1 DEF RestTyped
<1>6. Plans'
  <2>1. Completes(c)
    BY <1>1, <1>2, CompletesIf
  <2> QED BY <2>1, PlansTail
<1>7. phase' = "running"
  BY <1>1, <1>2
<1> QED BY <1>3, <1>4, <1>5, <1>6, <1>7, StepKeeps

\* New entries of the kernel, all of them present.
LEMMA NewPages ==
  ASSUME NEW a \in Int, NEW n \in Nat, NEW f, DOMAIN f = {<<Kernel, a + i>> : i \in 0 .. n - 1},
         \A e \in DOMAIN f : f[e].present, pte' = With(pte, f),
         \A i \in 0 .. n - 1 : ~ Mapped(a + i)
  PROVE  PagesAppear(a, n)
<1>1. pte' = [e \in DOMAIN pte \cup DOMAIN f |-> IF e \in DOMAIN f THEN f[e] ELSE pte[e]]
  BY DEF With
<1>2. \A v \in Int : <<Kernel, v>> \in DOMAIN f <=> v \in a .. a + n - 1
  <2>1. ASSUME NEW v \in Int, v \in a .. a + n - 1 PROVE <<Kernel, v>> \in DOMAIN f
    <3>1. v - a \in 0 .. n - 1 /\ v = a + (v - a)
      BY <2>1
    <3> QED BY <3>1
  <2>2. ASSUME NEW v \in Int, <<Kernel, v>> \in DOMAIN f PROVE v \in a .. a + n - 1
    <3>1. PICK i \in 0 .. n - 1 : <<Kernel, v>> = <<Kernel, a + i>>
      BY <2>2
    <3>2. v = a + i
      BY <3>1
    <3> QED BY <3>2
  <2> QED BY <2>1, <2>2
<1>3. ASSUME NEW v \in Int, v \in a .. a + n - 1 PROVE ~ Mapped(v)
  <2>1. v - a \in 0 .. n - 1 /\ v = a + (v - a)
    BY <1>3
  <2> QED BY <2>1
<1>4. ASSUME NEW v \in Int
      PROVE  /\ <<Kernel, v>> \in DOMAIN pte' <=> <<Kernel, v>> \in DOMAIN pte \/ v \in a .. a + n - 1
             /\ <<Kernel, v>> \in DOMAIN pte => pte'[<<Kernel, v>>] = pte[<<Kernel, v>>]
             /\ v \in a .. a + n - 1 => pte'[<<Kernel, v>>].present
  <2>1. <<Kernel, v>> \in DOMAIN f <=> v \in a .. a + n - 1
    BY <1>2
  <2>2. v \in a .. a + n - 1 => <<Kernel, v>> \notin DOMAIN pte
    BY <1>3 DEF Mapped
  <2> QED BY <1>1, <2>1, <2>2
<1> QED BY <1>4 DEF PagesAppear, Mapped

\* A block of pages, or a stack with the pages on both sides of it.
LEMMA PagingAllocatePageBlockExKeeps ==
  ASSUME MemoryInv, NEW c \in Cores, PagingAllocatePageBlockEx(c)
  PROVE  MemoryInv'
<1> DEFINE at == core[c].at
           n == PagesOf(Doing(c))
<1>1. /\ Typed /\ RestTyped /\ phase = "running" /\ core[c].todo # <<>>
      /\ Doing(c).do \in {"stack", "block"} /\ core[c].pc = "map"
  BY AtCommand DEF PagingAllocatePageBlockEx
<1>2. CASE Stop("address") \/ Stop("frames")
  BY <1>2, StopKeeps
<1>3. CASE ~ (Stop("address") \/ Stop("frames"))
  <2>1. /\ at # None /\ FreshBlock(Kernel, at, n)
        /\ Lock("paging", Free)
        /\ IF Doing(c).do = "stack" THEN Goes(c, "guards") ELSE Finishes(c)
        /\ UNCHANGED <<phase, sectionVars, stacks, threads, history, stopped>>
    BY <1>3 DEF PagingAllocatePageBlockEx
  <2>2. /\ phase' = phase /\ views' = views /\ stacks' = stacks
        /\ threads' = threads /\ initialised' = initialised
    BY <2>1 DEF sectionVars, history
  <2>3. at \in Int /\ n \in Nat \ {0}
    BY <1>1, Numbers
  <2>4. \A i \in 0 .. n - 1 : ~ Mapped(at + i)
    BY <1>1, <2>1 DEF MemoryInv, PlacesAreFree, Place
  <2> HIDE DEF at, n
  <2>5. PagesAppear(at, n) /\ DOMAIN tables \subseteq DOMAIN tables'
    <3>1. Space(Kernel, at) = Kernel
      BY DEF Space
    <3>2. PICK needs : PagingMapPage(needs, [e \in {<<Kernel, at + i>> : i \in 0..n-1} |->
                                              Present(FrameFor(needs, e[1], e[2]), TRUE)])
      BY <2>1, <3>1 DEF FreshBlock
    <3> DEFINE f == [e \in {<<Kernel, at + i>> : i \in 0..n-1} |->
                       Present(FrameFor(needs, e[1], e[2]), TRUE)]
    <3>3. DOMAIN f = {<<Kernel, at + i>> : i \in 0 .. n - 1} /\ \A e \in DOMAIN f : f[e].present
      BY DEF Present
    <3>4. pte' = With(pte, f) /\ tables' = NewTables(needs)
      BY <3>2 DEF PagingMapPage
    <3> HIDE DEF f
    <3>5. PagesAppear(at, n)
      BY <2>3, <2>4, <3>3, <3>4, NewPages
    <3> QED BY <3>4, <3>5, TablesGrow
  <2>6. RestTyped'
    BY <1>1, <2>1, <2>2, RestStays
  <2>7. phase' = "running"
    BY <1>1, <2>2
  <2>8. CASE Doing(c).do = "stack"
    <3>1. Becomes(c, core[c].todo, "guards", at)
      <4>1. "guards" \in Steps
        BY DEF Steps
      <4> QED BY <1>1, <2>1, <2>8, <4>1, CoreChanges DEF at
    <3>2. /\ OthersStay(c) /\ core'[c].pc = "guards" /\ core'[c].at = at /\ Doing(c)' = Doing(c)
          /\ \A d \in Cores : core'[d].todo = core[d].todo
      BY <3>1 DEF Becomes, OthersStay, Doing
    <3>3. PlacesAreFree' /\ StacksApart'
      BY <1>1, <2>1, <2>2, <2>5, <2>8, <3>2, MappingKeepsStacks DEF at, n
    <3>4. Plans'
      BY <2>2, <2>5, <3>2, PlansStay
    <3>5. Head(core[c].todo).do = "stack"
      BY <2>8 DEF Doing
    <3> QED BY <1>1, <2>3, <2>6, <2>7, <3>1, <3>3, <3>4, <3>5, StepKeeps
  <2>9. CASE Doing(c).do # "stack"
    <3>1. Finishes(c) /\ Becomes(c, Tail(core[c].todo), "start", None)
      BY <1>1, <2>1, <2>9, CoreChanges
    <3>2. OthersStay(c) /\ core'[c].pc = "start"
      BY <3>1 DEF Becomes
    <3>3. PlacesAreFree' /\ StacksApart'
      BY <1>1, <2>1, <2>2, <2>5, <3>2, MappingKeepsStacks DEF at, n
    <3>4. Completes(c)
      BY <1>1, <2>2, <2>5, <2>9, <3>1, CompletesIf
    <3>5. Plans'
      BY <3>4, PlansTail
    <3> QED BY <2>6, <2>7, <3>1, <3>3, <3>5, StepKeeps
  <2> QED BY <2>8, <2>9
<1> QED BY <1>2, <1>3

\* The page of a thread's stack in its process, or the kernel's page for the top
\* table of a process.
LEMMA PagingAllocatePageWithPhysicalAddressKeeps ==
  ASSUME MemoryInv, NEW c \in Cores, PagingAllocatePageWithPhysicalAddress(c)
  PROVE  MemoryInv'
<1> DEFINE at == core[c].at
           p == Doing(c).p
           frame == Head(core[c].reg)
           f == [e \in {<<Space(p, at), at>>} |-> Present(frame, TRUE)]
<1>1. /\ Typed /\ RestTyped /\ phase = "running" /\ core[c].todo # <<>>
      /\ Doing(c).do \in {"space", "thread"} /\ core[c].pc = "map" /\ p \in Processes
  BY AtCommand DEF PagingAllocatePageWithPhysicalAddress
<1>2. CASE Stop("address") \/ Stop("frames")
  BY <1>2, StopKeeps
<1>3. CASE ~ (Stop("address") \/ Stop("frames"))
  <2>1. /\ at # None
        /\ \E needs :
             tables' = IF Doing(c).do = "space" THEN With(NewTables(needs), [e \in {TopTable(p)} |-> frame])
                       ELSE NewTables(needs)
        /\ pte' = With(pte, f)
        /\ threads' = IF Doing(c).do = "thread" THEN [threads EXCEPT ![p] = @ + 1] ELSE threads
        /\ Lock("paging", Free)
        /\ Finishes(c)
        /\ UNCHANGED <<phase, sectionVars, stacks, history, stopped>>
    BY <1>3 DEF PagingAllocatePageWithPhysicalAddress
  <2>2. phase' = phase /\ views' = views /\ stacks' = stacks /\ initialised' = initialised
    BY <2>1 DEF sectionVars, history
  <2>3. at \in Int /\ locks.paging = c /\ Place(c)
    BY <1>1, Numbers DEF MemoryInv, PlacesAreFree
  <2>4. DOMAIN f = {<<Space(p, at), at>>} /\ \A e \in DOMAIN f : f[e].present
    BY DEF Present
  <2>5. /\ DOMAIN tables \subseteq DOMAIN tables'
        /\ Doing(c).do = "space" => TopTable(p) \in DOMAIN tables'
    <3>1. PICK needs :
             tables' = IF Doing(c).do = "space" THEN With(NewTables(needs), [e \in {TopTable(p)} |-> frame])
                       ELSE NewTables(needs)
      BY <2>1
    <3>2. DOMAIN tables \subseteq DOMAIN NewTables(needs)
      BY TablesGrow
    <3> QED BY <3>1, <3>2 DEF With
  <2>6. /\ locks' = [dispatcher |-> locks'.dispatcher, paging |-> locks'.paging,
                     space |-> locks'.space, section |-> locks'.section]
    BY <1>1, <2>1 DEF Lock, RestTyped
  <2>7. phase' = "running"
    BY <1>1, <2>2
  <2> HIDE DEF at, p, f, frame
  <2>8. CASE Doing(c).do = "thread"
    <3>1. at \in 0 .. UserEnd - 1
      BY <2>1, <2>3, <2>8 DEF Place, at
    <3>2. Space(p, at) = p
      <4>1. UserEnd \in Nat /\ KernelStart \in Nat /\ UserEnd < KernelStart
        BY MemoryAssumption
      <4>2. ~ at >= KernelStart
        BY <3>1, <4>1
      <4> QED BY <4>2 DEF Space
    <3>3. KernelStays
      BY <1>1, <2>1, <2>4, <3>2, OtherSpaces
    <3>4. RestTyped'
      <4>1. threads' \in [Processes -> Nat]
        <5>1. threads' = [threads EXCEPT ![p] = threads[p] + 1] /\ threads \in [Processes -> Nat]
          BY <1>1, <2>1, <2>8 DEF RestTyped
        <5>2. threads[p] + 1 \in Nat
          BY <1>1, <5>1
        <5> QED BY <5>1, <5>2
      <4> QED BY <1>1, <2>2, <2>6, <4>1 DEF RestTyped
    <3>5. PagingLockStays(c)
      BY <2>3 DEF PagingLockStays
    <3>6. Completes(c)
      BY <1>1, <2>1, <2>2, <2>5, <2>8, CompletesIf DEF p
    <3> QED BY <1>1, <2>1, <2>2, <3>3, <3>4, <3>5, <3>6, CompletionKeeps
  <2>9. CASE Doing(c).do = "space"
    <3>1. at >= KernelStart /\ PagesOf(Doing(c)) = 1 /\ ~ Mapped(at + 0)
      <4>1. PagesOf(Doing(c)) = 1
        BY <2>9 DEF PagesOf
      <4>2. at >= KernelStart /\ \A i \in 0 .. PagesOf(Doing(c)) - 1 : ~ Mapped(at + i)
        BY <2>1, <2>3, <2>9 DEF Place, at
      <4> QED BY <4>1, <4>2
    <3>2. Space(p, at) = Kernel
      BY <3>1 DEF Space
    <3>3. DOMAIN f = {<<Kernel, at + i>> : i \in 0 .. 1 - 1} /\ \A i \in 0 .. 1 - 1 : ~ Mapped(at + i)
      <4>1. 0 .. 1 - 1 = {0} /\ at + 0 = at
        BY <2>3
      <4>2. {<<Kernel, at + i>> : i \in 0 .. 1 - 1} = {<<Kernel, at + 0>>}
        BY <4>1
      <4> QED BY <2>4, <3>1, <3>2, <4>1, <4>2
    <3>4. PagesAppear(at, 1)
      <4>1. 1 \in Nat
        OBVIOUS
      <4> QED BY <2>1, <2>3, <2>4, <3>3, <4>1, NewPages
    <3>5. Becomes(c, Tail(core[c].todo), "start", None)
      BY <1>1, <2>1, CoreChanges
    <3>6. OthersStay(c) /\ core'[c].pc = "start"
      BY <3>5 DEF Becomes
    <3>7. PagesAppear(at, PagesOf(Doing(c)))
      BY <3>1, <3>4
    <3>8. PlacesAreFree' /\ StacksApart'
      BY <1>1, <2>1, <2>2, <2>9, <3>6, <3>7, MappingKeepsStacks DEF at
    <3>9. threads' = threads /\ RestTyped'
      <4>1. threads' = threads
        BY <2>1, <2>9
      <4> QED BY <1>1, <2>1, <2>2, <4>1, RestStays
    <3>10. Completes(c)
      BY <1>1, <2>1, <2>2, <2>5, <2>9, <3>9, CompletesIf DEF p
    <3>11. Plans'
      BY <3>10, PlansTail
    <3> QED BY <2>7, <3>5, <3>8, <3>9, <3>11, StepKeeps
  <2> QED BY <1>1, <2>8, <2>9
<1> QED BY <1>2, <1>3

-----------------------------------------------------------------------------
\* Every step keeps the invariant.
LEMMA NextKeeps ==
  ASSUME MemoryInv, [Next]_vars
  PROVE  MemoryInv'
<1>1. CASE UNCHANGED vars
  <2>1. /\ phase' = phase /\ tables' = tables /\ pte' = pte /\ views' = views /\ stacks' = stacks
        /\ threads' = threads /\ core' = core /\ locks' = locks /\ initialised' = initialised
    BY <1>1 DEF vars
  <2>2. Typed' /\ StepsFit'
    BY <2>1 DEF MemoryInv, Typed, StepsFit, Doing
  <2>3. \A c \in Cores : /\ Place(c)' <=> Place(c)
                         /\ MakesStack(c)' <=> MakesStack(c)
                         /\ StackOf(c)' = StackOf(c)
    BY <2>1 DEF Place, Mapped, MakesStack, StackOf, Doing
  <2>4. PlacesAreFree'
    BY <2>1, <2>3 DEF MemoryInv, PlacesAreFree
  <2>5. StacksApart'
    BY <2>1, <2>3 DEF MemoryInv, StacksApart, Inner, Outer, Guarded, Apart, Mapped
  <2>6. Plans'
    BY <2>1, PlansStay
  <2> QED BY <2>2, <2>4, <2>5, <2>6 DEF MemoryInv
<1>2. CASE Boot
  BY <1>2, BootStepsKeep
<1>3. ASSUME NEW c \in Cores, Start(c) PROVE MemoryInv'
  BY <1>3, StartKeeps
<1>4. ASSUME NEW c \in Cores, Step(c) PROVE MemoryInv'
  <2>1. CASE ApStartup(c)
    BY <2>1, ApStartupKeeps
  <2>2. CASE KiAcquireDispatcherLock(c) \/ KiReleaseDispatcherLock(c) \/ CountCore(c)
    BY <2>2, DispatcherLockKeeps
  <2>3. CASE CheckCores(c)
    BY <2>3, CheckCoresKeeps
  <2>4. CASE GetFrame(c)
    BY <2>4, GetFrameKeeps
  <2>5. CASE FindPages(c)
    BY <2>5, FindPagesStepKeeps
  <2>6. CASE PagingAllocatePageWithPhysicalAddress(c)
    BY <2>6, PagingAllocatePageWithPhysicalAddressKeeps
  <2>7. CASE PagingAllocatePageBlockEx(c)
    BY <2>7, PagingAllocatePageBlockExKeeps
  <2>8. CASE PspCreateKernelStack(c)
    BY <2>8, PspCreateKernelStackKeeps
  <2>9. CASE FreeGuards(c)
    BY <2>9, FreeGuardsKeeps
  <2>10. CASE LockView(c)
    BY <2>10, LockViewKeeps
  <2>11. CASE MmCreateView(c)
    BY <2>11, MmCreateViewKeeps
  <2>12. CASE MmDeleteView(c)
    BY <2>12, MmDeleteViewKeeps
  <2>13. CASE Access(c)
    BY <2>13, AccessKeeps
  <2>14. CASE PageFaultHandler(c)
    BY <2>14, PageFaultHandlerKeeps
  <2>15. CASE MmHandlePageFault(c)
    BY <2>15, MmHandlePageFaultKeeps
  <2>16. CASE NtReadFile(c)
    BY <2>16, NtReadFileKeeps
  <2> QED
    BY <1>4, <2>1, <2>2, <2>3, <2>4, <2>5, <2>6, <2>7, <2>8, <2>9, <2>10, <2>11, <2>12, <2>13,
       <2>14, <2>15, <2>16 DEF Step
<1> QED BY <1>1, <1>2, <1>3, <1>4 DEF Next

\* Whatever the cores do and in whatever order, a place found for pages stays free
\* until they are mapped, stacks and those under way stay apart, each core is woken
\* once and counts itself once, and who counts the last goes on to make a process
\* of the image (PagingFindFreePages, PspCreateKernelStack, MpInitialize,
\* PspInitializeCore).
THEOREM MemoryInvariance == Spec => []MemoryInv
<1>1. Init => MemoryInv
  BY MemoryInvInit
<1>2. MemoryInv /\ [Next]_vars => MemoryInv'
  BY NextKeeps
<1> QED BY <1>1, <1>2, PTL DEF Spec

\* A finished stack is what the invariant says of it.
LEMMA StacksHaveGuards ==
  ASSUME MemoryInv
  PROVE  StacksGuarded
<1>1. ASSUME NEW s \in stacks
      PROVE  /\ \A e \in ToSet(Guards(s.at, s.n)) : e \in DOMAIN pte /\ ~ pte[e].present
             /\ \A v \in s.at + 1 .. s.at + s.n :
                  <<Kernel, v>> \in DOMAIN pte /\ pte[<<Kernel, v>>].present
  <2>1. Inner(s) /\ Outer(s) /\ Guarded(s)
    BY DEF MemoryInv, StacksApart
  <2>2. \A e \in ToSet(Guards(s.at, s.n)) : e = <<Kernel, s.at>> \/ e = <<Kernel, s.at + s.n + 1>>
    BY DEF Guards, ToSet
  <2>3. <<Kernel, s.at>> \in DOMAIN pte /\ <<Kernel, s.at + s.n + 1>> \in DOMAIN pte
    BY <2>1 DEF Outer, Mapped
  <2>4. ~ pte[<<Kernel, s.at>>].present /\ ~ pte[<<Kernel, s.at + s.n + 1>>].present
    BY <2>1 DEF Guarded
  <2>5. \A v \in s.at + 1 .. s.at + s.n : <<Kernel, v>> \in DOMAIN pte /\ pte[<<Kernel, v>>].present
    BY <2>1 DEF Inner, Mapped
  <2> QED BY <2>2, <2>3, <2>4, <2>5
<1>2. \A s, t \in stacks : s # t => Apart(s, t)
  BY DEF MemoryInv, StacksApart
<1>3. \A s, t \in stacks : s # t => s.at + s.n + 1 < t.at \/ t.at + t.n + 1 < s.at
  BY <1>2 DEF Apart
<1> QED BY <1>1, <1>3 DEF StacksGuarded

\* Every kernel stack keeps its pages and a guard on both sides, and no two of them
\* overlap, for any number of cores, frames and pages and whatever is allocated at
\* the same time (PspCreateKernelStack, PagingAllocatePageBlockEx).
THEOREM StacksAreGuarded == Spec => []StacksGuarded
<1>1. MemoryInv => StacksGuarded
  BY StacksHaveGuards
<1> QED BY <1>1, MemoryInvariance, PTL

\* Nobody has anything left to do: whoever counted the last core has been here.
LEMMA CountedCoresStart ==
  ASSUME MemoryInv
  PROVE  ImageStarted
<1>1. SUFFICES ASSUME initialised = Len(CoreList), \A c \in Cores : core[c].todo = <<>>
               PROVE  \E c \in Cores : TopTable(Image(c)) \in DOMAIN tables
  BY DEF ImageStarted
<1>2. \A c \in Cores : DOMAIN core[c].todo = {}
  BY <1>1, EmptySeq
<1>3. PICK c \in Cores : \/ Has(c, "check")
                         \/ \E k \in DOMAIN core[c].todo :
                              core[c].todo[k].do = "space" /\ \E o \in Cores : core[c].todo[k].p = Image(o)
                         \/ TopTable(Image(c)) \in DOMAIN tables
  BY <1>1 DEF MemoryInv, Plans, ImageOnItsWay
<1>4. ~ Has(c, "check")
  BY <1>2 DEF Has
<1> QED BY <1>2, <1>3, <1>4

\* When all cores are counted and have nothing left to do, one of them has made a
\* process of the image, however many there are and in whatever order they counted
\* themselves and looked at the count (PspInitializeCore).
THEOREM ImageIsStarted == Spec => []ImageStarted
<1>1. MemoryInv => ImageStarted
  BY CountedCoresStart
<1> QED BY <1>1, MemoryInvariance, PTL

-----------------------------------------------------------------------------
\* The walk of Among is defined for every list.
LEMMA AmongDefined ==
  ASSUME NEW S, NEW list \in Seq(S), NEW set
  PROVE  \E kept : /\ Among(list, set) = kept[Len(list)] /\ kept[0] = <<>>
                   /\ \A n \in 1 .. Len(list) :
                        kept[n] = IF list[n] \in set THEN Append(kept[n - 1], list[n]) ELSE kept[n - 1]
<1> DEFINE Kept1(k, n) == IF list[n] \in set THEN Append(k, list[n]) ELSE k
           Walks(f, m) == f = [n \in 0 .. m |-> IF n = 0 THEN <<>> ELSE Kept1(f[n - 1], n)]
           T == {m \in 0 .. Len(list) : \E f : Walks(f, m)}
<1>1. Len(list) \in Nat
  OBVIOUS
<1>2. 0 \in T
  <2> DEFINE f == [n \in 0 .. 0 |-> <<>>]
  <2>1. Walks(f, 0)
    OBVIOUS
  <2> HIDE DEF f
  <2>2. \E g : Walks(g, 0)
    BY <2>1
  <2> QED BY <1>1, <2>2
<1>3. ASSUME NEW m \in 0 .. Len(list), m \in T, m < Len(list) PROVE m + 1 \in T
  <2>1. PICK f : Walks(f, m)
    BY <1>3
  <2> DEFINE g == [n \in 0 .. m + 1 |-> IF n <= m THEN f[n] ELSE Kept1(f[m], m + 1)]
  <2> HIDE DEF Kept1
  <2>2. ASSUME NEW n \in 0 .. m + 1
        PROVE  g[n] = IF n = 0 THEN <<>> ELSE Kept1(g[n - 1], n)
    <3>1. CASE n = 0
      <4>1. g[n] = f[n]
        BY <3>1
      <4>2. f[n] = <<>>
        BY <2>1, <3>1
      <4> QED BY <3>1, <4>1, <4>2
    <3>2. CASE n # 0 /\ n <= m
      <4>1. g[n] = f[n] /\ g[n - 1] = f[n - 1]
        BY <3>2
      <4>2. f[n] = Kept1(f[n - 1], n)
        BY <2>1, <3>2
      <4> QED BY <3>2, <4>1, <4>2
    <3>3. CASE n = m + 1
      <4>1. g[n] = Kept1(f[m], n) /\ g[n - 1] = f[m] /\ n # 0
        BY <3>3
      <4> QED BY <4>1
    <3> QED BY <3>1, <3>2, <3>3
  <2>3. Walks(g, m + 1)
    <3> HIDE DEF g
    <3>1. g = [n \in 0 .. m + 1 |-> g[n]]
      BY DEF g
    <3> QED BY <2>2, <3>1
  <2>4. m + 1 \in 0 .. Len(list)
    BY <1>1, <1>3
  <2> QED BY <2>3, <2>4
<1>4. Len(list) \in T
  <2> HIDE DEF T
  <2>1. 0 .. Len(list) \subseteq T
    BY <1>1, <1>2, <1>3, CountingUp
  <2> QED BY <1>1, <2>1
<1>5. PICK f : Walks(f, Len(list))
  BY <1>4
<1> DEFINE kept == CHOOSE g : Walks(g, Len(list))
<1>6. Walks(kept, Len(list))
  BY <1>5
<1>7. Among(list, set) = kept[Len(list)]
  BY DEF Among
<1>8. kept[0] = <<>>
  <2> HIDE DEF kept, Kept1
  <2> QED BY <1>1, <1>6
<1>9. \A n \in 1 .. Len(list) :
        kept[n] = IF list[n] \in set THEN Append(kept[n - 1], list[n]) ELSE kept[n - 1]
  <2> HIDE DEF kept
  <2>1. ASSUME NEW n \in 1 .. Len(list) PROVE kept[n] = Kept1(kept[n - 1], n)
    <3> HIDE DEF Kept1
    <3>1. n \in 0 .. Len(list) /\ n # 0
      BY <1>1
    <3> QED BY <1>6, <3>1
  <2> QED BY <2>1
<1> QED BY <1>7, <1>8, <1>9

\* What Among keeps of a list.
LEMMA AmongProperties ==
  ASSUME NEW S, NEW list \in Seq(S), NEW set
  PROVE  /\ Among(list, set) \in Seq(S)
         /\ ToSet(Among(list, set)) = ToSet(list) \cap set
         /\ IsInjective(list) => IsInjective(Among(list, set))
<1>1. Len(list) \in Nat /\ DOMAIN list = 1 .. Len(list) /\ \A n \in 1 .. Len(list) : list[n] \in S
  BY LenProperties, ElementOfSeq
<1>2. PICK kept : /\ Among(list, set) = kept[Len(list)] /\ kept[0] = <<>>
                  /\ \A n \in 1 .. Len(list) :
                       kept[n] = IF list[n] \in set THEN Append(kept[n - 1], list[n]) ELSE kept[n - 1]
  BY AmongDefined
<1> DEFINE Before(n) == {list[i] : i \in 1 .. n} \cap set
           T == {n \in 0 .. Len(list) :
                   /\ kept[n] \in Seq(S) /\ ToSet(kept[n]) = Before(n)
                   /\ IsInjective(list) => IsInjective(kept[n])}
<1>3. 0 \in T
  <2>1. <<>> \in Seq(S) /\ ToSet(<<>>) = {} /\ IsInjective(<<>>)
    BY DEF ToSet, IsInjective
  <2>2. Before(0) = {}
    OBVIOUS
  <2> HIDE DEF Before
  <2>3. kept[0] = <<>> /\ 0 \in 0 .. Len(list)
    BY <1>1, <1>2
  <2> QED BY <2>1, <2>2, <2>3
<1>4. ASSUME NEW n \in 0 .. Len(list), n \in T, n < Len(list) PROVE n + 1 \in T
  <2>1. n + 1 \in 1 .. Len(list) /\ n + 1 - 1 = n /\ n + 1 \in 0 .. Len(list)
    BY <1>1, <1>4
  <2>2. kept[n + 1] = IF list[n + 1] \in set THEN Append(kept[n], list[n + 1]) ELSE kept[n]
    BY <1>2, <2>1
  <2>3. /\ kept[n] \in Seq(S) /\ ToSet(kept[n]) = Before(n)
        /\ IsInjective(list) => IsInjective(kept[n])
    BY <1>4
  <2>4. Before(n + 1) = Before(n) \cup ({list[n + 1]} \cap set)
    <3>1. \A i : i \in 1 .. n + 1 <=> i \in 1 .. n \/ i = n + 1
      BY <1>1, <2>1
    <3> QED BY <3>1
  <2>5. list[n + 1] \in S
    BY <1>1, <2>1
  <2>6. IsInjective(list) => list[n + 1] \notin Before(n)
    <3>1. ASSUME IsInjective(list), NEW i \in 1 .. n, list[i] = list[n + 1] PROVE FALSE
      <4>1. i \in DOMAIN list /\ n + 1 \in DOMAIN list /\ i # n + 1
        BY <1>1, <2>1
      <4> QED BY <3>1, <4>1 DEF IsInjective
    <3> QED BY <3>1
  <2> HIDE DEF Before
  <2>7. CASE list[n + 1] \notin set
    <3>1. Before(n + 1) = Before(n) /\ kept[n + 1] = kept[n]
      BY <2>2, <2>4, <2>7
    <3> QED BY <2>1, <2>3, <3>1
  <2>8. CASE list[n + 1] \in set
    <3>1. Before(n + 1) = Before(n) \cup {list[n + 1]} /\ kept[n + 1] = Append(kept[n], list[n + 1])
      BY <2>2, <2>4, <2>8
    <3>2. Append(kept[n], list[n + 1]) \in Seq(S)
      BY <2>3, <2>5, AppendProperties
    <3>3. ToSet(Append(kept[n], list[n + 1])) = ToSet(kept[n]) \cup {list[n + 1]}
      <4>1. PICK k, e : k = kept[n] /\ e = list[n + 1]
        OBVIOUS
      <4>2. k \in Seq(S) /\ e \in S
        BY <2>3, <2>5, <4>1
      <4>3. /\ Append(k, e) \in Seq(S) /\ Len(Append(k, e)) = Len(k) + 1 /\ Len(k) \in Nat
            /\ \A i \in 1 .. Len(k) : Append(k, e)[i] = k[i]
            /\ Append(k, e)[Len(k) + 1] = e
        BY <4>2, AppendProperties
      <4>4. ToSet(Append(k, e)) = ToSet(k) \cup {e}
        BY <4>2, <4>3 DEF ToSet
      <4> QED BY <4>1, <4>4
    <3>4. IsInjective(list) => IsInjective(Append(kept[n], list[n + 1]))
      BY <2>3, <2>5, <2>6, AppendNew
    <3> QED BY <2>1, <2>3, <3>1, <3>2, <3>3, <3>4
  <2> QED BY <2>7, <2>8
<1>5. Len(list) \in T
  <2> HIDE DEF T
  <2>1. 0 .. Len(list) \subseteq T
    BY <1>1, <1>3, <1>4, CountingUp
  <2> QED BY <1>1, <2>1
<1>6. ToSet(list) = {list[i] : i \in 1 .. Len(list)}
  BY <1>1 DEF ToSet
<1> QED BY <1>2, <1>5, <1>6

\* Entries of page tables and pages, as Needs has them.
NeedsOf(space) == {<<space, l, x>> : l \in Nat, x \in Int}

\* The entries on the way to a page.
LEMMA EntryProperties ==
  ASSUME NEW space, NEW page \in Int
  PROVE  Entry(space, page) \in Seq(NeedsOf(space))
<1>1. Spans \in Seq(Nat \ {0}) /\ Len(Spans) \in Nat /\ DOMAIN Spans = 1 .. Len(Spans)
  BY MemoryAssumption, LenProperties
<1>2. ASSUME NEW l \in 1 .. Len(Spans) PROVE <<space, l, page \div Spans[l]>> \in NeedsOf(space)
  <2>1. Spans[l] \in Nat \ {0}
    BY <1>1, ElementOfSeq
  <2>2. page \div Spans[l] \in Int /\ l \in Nat
    BY <2>1
  <2> QED BY <2>2 DEF NeedsOf
<1>3. Entry(space, page) \in [1 .. Len(Spans) -> NeedsOf(space)]
  BY <1>1, <1>2 DEF Entry
<1> QED BY <1>1, <1>3, FunctionsAreSequences

\* The frames that a page takes after those before it.
FramesFor(before, space, page, fresh) ==
  before \o (IF fresh THEN <<<<space, 0, page>>>> ELSE <<>>)
    \o Among(Entry(space, page), ToSet(Entry(space, page)) \ (DOMAIN tables \cup ToSet(before)))

\* Nothing is taken from the list, and a page that is to get a frame is in it.
Longer(before, after, space, page, fresh) ==
  /\ after \in Seq(NeedsOf(space))
  /\ \A i \in 1 .. Len(before) : i \in 1 .. Len(after) /\ after[i] = before[i]
  /\ fresh = TRUE => \E i \in 1 .. Len(after) : after[i] = <<space, 0, page>>

\* They come after those that are taken already.
LEMMA FramesForProperties ==
  ASSUME NEW space, NEW page \in Int, NEW fresh, NEW before \in Seq(NeedsOf(space))
  PROVE  Longer(before, FramesFor(before, space, page, fresh), space, page, fresh)
<1> DEFINE own == IF fresh THEN <<<<space, 0, page>>>> ELSE <<>>
           rest == Among(Entry(space, page),
                         ToSet(Entry(space, page)) \ (DOMAIN tables \cup ToSet(before)))
           T == NeedsOf(space)
<1>1. FramesFor(before, space, page, fresh) = (before \o own) \o rest
  BY DEF FramesFor
<1>2. rest \in Seq(T)
  BY EntryProperties, AmongProperties
<1>3. own \in Seq(T) /\ (fresh = TRUE => Len(own) = 1 /\ own[1] = <<space, 0, page>>)
  <2>1. <<space, 0, page>> \in T
    BY DEF NeedsOf
  <2> QED BY <2>1
<1> HIDE DEF own, rest, T
<1>4. PICK b : b = before \o own
  OBVIOUS
<1>5. /\ b \in Seq(T) /\ Len(b) = Len(before) + Len(own) /\ Len(before) \in Nat /\ Len(own) \in Nat
      /\ \A i \in 1 .. Len(before) + Len(own) :
           b[i] = IF i <= Len(before) THEN before[i] ELSE own[i - Len(before)]
  <2>1. before \in Seq(T)
    BY DEF T
  <2> QED BY <1>3, <1>4, <2>1, ConcatProperties, LenProperties
<1>6. /\ b \o rest \in Seq(T) /\ Len(b \o rest) = Len(b) + Len(rest) /\ Len(rest) \in Nat
      /\ \A i \in 1 .. Len(b) + Len(rest) : (b \o rest)[i] = IF i <= Len(b) THEN b[i] ELSE rest[i - Len(b)]
  <2>1. Len(rest) \in Nat
    BY <1>2, LenProperties
  <2>2. b \in Seq(T)
    BY <1>5
  <2> QED BY <1>2, <2>1, <2>2, ConcatProperties
<1>7. PICK r : r = b \o rest
  OBVIOUS
<1>8. ASSUME NEW i \in 1 .. Len(b) PROVE i \in 1 .. Len(r) /\ r[i] = b[i]
  BY <1>5, <1>6, <1>7
<1>9. ASSUME NEW i \in 1 .. Len(before) PROVE i \in 1 .. Len(b) /\ b[i] = before[i]
  BY <1>5
<1>10. fresh = TRUE => Len(before) + 1 \in 1 .. Len(b) /\ b[Len(before) + 1] = <<space, 0, page>>
  <2>1. ASSUME fresh = TRUE PROVE Len(before) + 1 \in 1 .. Len(b) /\ b[Len(before) + 1] = <<space, 0, page>>
    <3>1. Len(own) = 1 /\ own[1] = <<space, 0, page>>
      BY <1>3, <2>1
    <3>2. PICK k : k = Len(before) + 1
      OBVIOUS
    <3>3. k \in 1 .. Len(before) + Len(own) /\ ~ (k <= Len(before)) /\ k - Len(before) = 1
      BY <1>5, <3>1, <3>2
    <3>4. b[k] = own[k - Len(before)]
      BY <1>5, <3>3
    <3> QED BY <1>5, <3>1, <3>2, <3>3, <3>4
  <2> QED BY <2>1
<1>11. r = FramesFor(before, space, page, fresh) /\ r \in Seq(T)
  BY <1>1, <1>4, <1>6, <1>7
<1> QED BY <1>8, <1>9, <1>10, <1>11 DEF T, Longer

\* The walk of Needs from page to page, which is defined for every list of pages.
NeedsWalk(got, space, pages, fresh) ==
  /\ Needs(space, pages, fresh) = got[Len(pages)] /\ got[0] = <<>>
  /\ \A n \in 1 .. Len(pages) : got[n] = FramesFor(got[n - 1], space, pages[n], fresh)

\* There is a walk.
LEMMA NeedsDefined ==
  ASSUME NEW space, NEW pages \in Seq(Int), NEW fresh
  PROVE  \E got : NeedsWalk(got, space, pages, fresh)
<1> DEFINE Next1(k, n) == FramesFor(k, space, pages[n], fresh)
           Walks(f, m) == f = [n \in 0 .. m |-> IF n = 0 THEN <<>> ELSE Next1(f[n - 1], n)]
           T == {m \in 0 .. Len(pages) : \E f : Walks(f, m)}
<1>1. Len(pages) \in Nat
  OBVIOUS
<1>2. 0 \in T
  <2> DEFINE f == [n \in 0 .. 0 |-> <<>>]
  <2>1. Walks(f, 0)
    OBVIOUS
  <2> HIDE DEF f
  <2>2. \E g : Walks(g, 0)
    BY <2>1
  <2> QED BY <1>1, <2>2
<1>3. ASSUME NEW m \in 0 .. Len(pages), m \in T, m < Len(pages) PROVE m + 1 \in T
  <2>1. PICK f : Walks(f, m)
    BY <1>3
  <2> DEFINE g == [n \in 0 .. m + 1 |-> IF n <= m THEN f[n] ELSE Next1(f[m], m + 1)]
  <2> HIDE DEF Next1
  <2>2. ASSUME NEW n \in 0 .. m + 1
        PROVE  g[n] = IF n = 0 THEN <<>> ELSE Next1(g[n - 1], n)
    <3>1. CASE n = 0
      <4>1. g[n] = f[n]
        BY <3>1
      <4>2. f[n] = <<>>
        BY <2>1, <3>1
      <4> QED BY <3>1, <4>1, <4>2
    <3>2. CASE n # 0 /\ n <= m
      <4>1. g[n] = f[n] /\ g[n - 1] = f[n - 1]
        BY <3>2
      <4>2. f[n] = Next1(f[n - 1], n)
        BY <2>1, <3>2
      <4> QED BY <3>2, <4>1, <4>2
    <3>3. CASE n = m + 1
      <4>1. g[n] = Next1(f[m], n) /\ g[n - 1] = f[m] /\ n # 0
        BY <3>3
      <4> QED BY <4>1
    <3> QED BY <3>1, <3>2, <3>3
  <2>3. Walks(g, m + 1)
    <3> HIDE DEF g
    <3>1. g = [n \in 0 .. m + 1 |-> g[n]]
      BY DEF g
    <3> QED BY <2>2, <3>1
  <2>4. m + 1 \in 0 .. Len(pages)
    BY <1>1, <1>3
  <2> QED BY <2>3, <2>4
<1>4. Len(pages) \in T
  <2> HIDE DEF T
  <2>1. 0 .. Len(pages) \subseteq T
    BY <1>1, <1>2, <1>3, CountingUp
  <2> QED BY <1>1, <2>1
<1>5. PICK f : Walks(f, Len(pages))
  BY <1>4
<1> DEFINE got == CHOOSE g : Walks(g, Len(pages))
<1>6. Walks(got, Len(pages))
  BY <1>5
<1>7. Needs(space, pages, fresh) = got[Len(pages)]
  BY DEF Needs, FramesFor
<1> HIDE DEF got
<1>8. got[0] = <<>>
  <2> HIDE DEF Next1
  <2> QED BY <1>1, <1>6
<1>9. ASSUME NEW n \in 1 .. Len(pages) PROVE got[n] = Next1(got[n - 1], n)
  <2> HIDE DEF Next1
  <2>1. n \in 0 .. Len(pages) /\ n # 0
    BY <1>1
  <2> QED BY <1>6, <2>1
<1>10. NeedsWalk(got, space, pages, fresh)
  BY <1>7, <1>8, <1>9 DEF NeedsWalk
<1> QED BY <1>10

\* Each page that is to get a frame is in the list.
LEMMA NeedsProperties ==
  ASSUME NEW space, NEW pages \in Seq(Int), NEW fresh
  PROVE  /\ Needs(space, pages, fresh) \in Seq(NeedsOf(space))
         /\ fresh = TRUE => \A k \in 1 .. Len(pages) :
              \E i \in 1 .. Len(Needs(space, pages, fresh)) :
                Needs(space, pages, fresh)[i] = <<space, 0, pages[k]>>
<1>1. Len(pages) \in Nat /\ \A n \in 1 .. Len(pages) : pages[n] \in Int
  BY LenProperties, ElementOfSeq
<1>2. PICK got : /\ Needs(space, pages, fresh) = got[Len(pages)] /\ got[0] = <<>>
                 /\ \A n \in 1 .. Len(pages) :
                      got[n] = FramesFor(got[n - 1], space, pages[n], fresh)
  <2>1. \E got : NeedsWalk(got, space, pages, fresh)
    BY NeedsDefined
  <2> QED BY <2>1 DEF NeedsWalk
<1> DEFINE Held(s, page) == \E i \in 1 .. Len(s) : s[i] = <<space, 0, page>>
           T == {n \in 0 .. Len(pages) :
                   /\ got[n] \in Seq(NeedsOf(space))
                   /\ fresh = TRUE => \A k \in 1 .. n : Held(got[n], pages[k])}
<1>3. 0 \in T
  <2>1. got[0] \in Seq(NeedsOf(space)) /\ 0 \in 0 .. Len(pages) /\ \A k : k \notin 1 .. 0
    BY <1>1, <1>2
  <2> HIDE DEF Held
  <2> QED BY <2>1
<1>4. ASSUME NEW n \in 0 .. Len(pages), n \in T, n < Len(pages) PROVE n + 1 \in T
  <2>1. n + 1 \in 1 .. Len(pages) /\ n + 1 - 1 = n /\ n + 1 \in 0 .. Len(pages)
    BY <1>1, <1>4
  <2>2. got[n] \in Seq(NeedsOf(space)) /\ (fresh = TRUE => \A k \in 1 .. n : Held(got[n], pages[k]))
    BY <1>4
  <2>3. got[n + 1] = FramesFor(got[n], space, pages[n + 1], fresh) /\ pages[n + 1] \in Int
    BY <1>1, <1>2, <2>1
  <2>4. /\ got[n + 1] \in Seq(NeedsOf(space))
        /\ \A i \in 1 .. Len(got[n]) : i \in 1 .. Len(got[n + 1]) /\ got[n + 1][i] = got[n][i]
        /\ fresh = TRUE => Held(got[n + 1], pages[n + 1])
    <3>1. PICK b, page : b = got[n] /\ page = pages[n + 1]
      OBVIOUS
    <3>2. b \in Seq(NeedsOf(space)) /\ page \in Int
      BY <2>2, <2>3, <3>1
    <3>3. PICK r : r = FramesFor(b, space, page, fresh)
      OBVIOUS
    <3>4. /\ r \in Seq(NeedsOf(space))
          /\ \A i \in 1 .. Len(b) : i \in 1 .. Len(r) /\ r[i] = b[i]
          /\ fresh = TRUE => Held(r, page)
      <4>1. Longer(b, FramesFor(b, space, page, fresh), space, page, fresh)
        BY <3>2, FramesForProperties
      <4> QED BY <3>3, <4>1 DEF Longer
    <3>5. r = got[n + 1]
      BY <2>3, <3>1, <3>3
    <3> HIDE DEF Held
    <3> QED BY <3>1, <3>4, <3>5
  <2>5. ASSUME fresh = TRUE, NEW k \in 1 .. n + 1 PROVE Held(got[n + 1], pages[k])
    <3>1. k \in 1 .. n \/ k = n + 1
      OBVIOUS
    <3>2. CASE k \in 1 .. n
      <4>1. PICK i \in 1 .. Len(got[n]) : got[n][i] = <<space, 0, pages[k]>>
        BY <2>2, <2>5, <3>2
      <4> QED BY <2>4, <4>1
    <3> QED BY <2>4, <2>5, <3>1, <3>2
  <2> HIDE DEF Held
  <2> QED BY <2>1, <2>4, <2>5
<1>5. Len(pages) \in T
  <2> HIDE DEF T
  <2>1. 0 .. Len(pages) \subseteq T
    BY <1>1, <1>3, <1>4, CountingUp
  <2> QED BY <1>1, <2>1
<1> QED BY <1>2, <1>5

-----------------------------------------------------------------------------
\* What a frame is used for.
TopFrames == {tables[d] : d \in TopTables}
UsedAs(kind, key, f) ==
  \/ kind = "free" /\ key = 0 /\ f \in ToSet(free)
  \/ kind = "table" /\ key \in DOMAIN tables /\ f = tables[key]
  \/ kind = "section" /\ key \in DOMAIN mappings /\ f = mappings[key] /\ f # None
  \/ kind = "device" /\ key = 0 /\ f \in Frames /\ flags[f] = 4
  \/ kind = "held" /\ key \in Cores /\ f \in ToSet(core[key].reg)
  \/ kind = "page" /\ key \in OwnPages /\ f = pte[key].frame

\* No frame is used twice.
OneUse ==
  \A kind, other, key, index, f :
    UsedAs(kind, key, f) /\ UsedAs(other, index, f) => kind = other /\ key = index
BootApart == \A kind, key, f : UsedAs(kind, key, f) /\ f \in BootFrames => kind = "page"

\* Only pages of the section are mapped twice.
PagesOnce ==
  \A e, d \in DOMAIN pte :
    pte[e].present /\ pte[d].present /\ pte[e].frame = pte[d].frame
      /\ pte[e].frame \notin SectionFrames => e = d

ListsFit == free \in Seq(Frames) /\ IsInjective(free) /\ mappings \in Seq(Int)

\* A core that is to map a frame has one.
NeedsReg(c) == core[c].pc = "find" \/ (core[c].pc = "map" /\ Doing(c).do \in {"space", "thread"})
RegFits(c) ==
  /\ core[c].reg \in Seq(ToSet(core[c].reg)) /\ IsInjective(core[c].reg)
  /\ NeedsReg(c) => core[c].reg # <<>>

\* The outer pages of a stack belong to it until they are guards.
Owned(e) == e \in OwnPages /\ pte[e].frame \notin BootFrames
GuardOwned(c) ==
  core[c].pc = "guards" =>
    Owned(<<Kernel, core[c].at>>) /\ Owned(<<Kernel, core[c].at + Doing(c).n + 1>>)

\* The boot, one list of free frames after the other.
BootFits ==
  /\ phase = "loaded" => free = <<>> /\ \A f \in Frames : flags[f] = 0 <=> f \notin BootFrames
  /\ phase \in {"loaded", "init"} => DOMAIN tables = {} /\ DOMAIN pte = {}
  /\ phase = "entry" => \A f \in Frames : flags[f] = 0 <=> f \in ToSet(free)
  /\ phase # "running" => /\ \A f \in Frames : flags[f] # 4
                          /\ \A i \in DOMAIN mappings : mappings[i] = None

\* The inductive invariant.
FrameInv ==
  /\ ListsFit /\ OneUse /\ BootApart /\ PagesOnce /\ BootFits
  /\ \A c \in Cores : RegFits(c) /\ GuardOwned(c)

\* A page that is present has a frame of its own, or one of the section, or a table.
LEMMA PageUse ==
  ASSUME NEW e \in DOMAIN pte, pte[e].present
  PROVE  \E kind \in {"page", "section", "table"} : \E key : UsedAs(kind, key, pte[e].frame)
<1> DEFINE f == pte[e].frame
<1>1. CASE f \in SectionFrames
  <2>1. PICK i \in DOMAIN mappings : f = mappings[i] /\ f # None
    BY <1>1 DEF SectionFrames
  <2>2. UsedAs("section", i, f)
    BY <2>1 DEF UsedAs
  <2> QED BY <2>2
<1>2. CASE f \in TopFrames
  <2>1. PICK d \in TopTables : f = tables[d]
    BY <1>2 DEF TopFrames
  <2>2. UsedAs("table", d, f)
    BY <2>1 DEF UsedAs, TopTables
  <2> QED BY <2>2
<1>3. CASE f \notin SectionFrames \cup TopFrames
  <2>1. e \in OwnPages
    BY <1>3 DEF OwnPages, TopFrames
  <2>2. UsedAs("page", e, f)
    BY <2>1 DEF UsedAs
  <2> QED BY <2>2
<1> QED BY <1>1, <1>2, <1>3

\* A frame that is free or that a core holds is in no page.
InHand(f) == UsedAs("free", 0, f) \/ \E c \in Cores : UsedAs("held", c, f)

\* Such a frame is neither the section's nor the boot loader's.
LEMMA InHandInNoPage ==
  ASSUME OneUse, NEW f, InHand(f)
  PROVE  /\ \A e \in DOMAIN pte : pte[e].present => pte[e].frame # f
         /\ f \notin SectionFrames \cup TopFrames \cup BootFrames \/ ~ BootApart
<1>1. PICK k \in {"free", "held"} : \E x : UsedAs(k, x, f)
  BY DEF InHand
<1>2. \A kind, key : UsedAs(kind, key, f) => kind = k
  BY <1>1 DEF OneUse
<1>3. ASSUME NEW e \in DOMAIN pte, pte[e].present, pte[e].frame = f PROVE FALSE
  BY <1>2, <1>3, PageUse
<1>4. ASSUME f \in SectionFrames PROVE FALSE
  <2>1. PICK i \in DOMAIN mappings : f = mappings[i] /\ f # None
    BY <1>4 DEF SectionFrames
  <2>2. UsedAs("section", i, f)
    BY <2>1 DEF UsedAs
  <2> QED BY <1>2, <2>2
<1>5. ASSUME f \in TopFrames PROVE FALSE
  <2>1. PICK d \in TopTables : f = tables[d]
    BY <1>5 DEF TopFrames
  <2>2. UsedAs("table", d, f)
    BY <2>1 DEF UsedAs, TopTables
  <2> QED BY <1>2, <2>2
<1>6. f \in BootFrames => ~ BootApart
  BY <1>1 DEF BootApart
<1> QED BY <1>3, <1>4, <1>5, <1>6

\* What is used as before, but for some frames.
OldOr(N) ==
  /\ ToSet(free') \subseteq ToSet(free) \cup N
  /\ \A e \in DOMAIN tables' : tables'[e] \in N \/ (e \in DOMAIN tables /\ tables'[e] = tables[e])
  /\ \A i \in DOMAIN mappings' :
       mappings'[i] \in N \cup {None} \/ (i \in DOMAIN mappings /\ mappings'[i] = mappings[i])
  /\ \A f \in Frames : flags'[f] = 4 => f \in N \/ flags[f] = 4
  /\ \A c \in Cores : ToSet(core'[c].reg) \subseteq ToSet(core[c].reg) \cup N
  /\ \A e \in DOMAIN pte' : pte'[e].present =>
       pte'[e].frame \in N \cup SectionFrames' \/ (e \in DOMAIN pte /\ pte'[e] = pte[e])
  /\ SectionFrames \subseteq SectionFrames'
  /\ TopFrames \subseteq TopFrames' \cup N

\* The other frames have the uses they had.
LEMMA UsesKept ==
  ASSUME NEW N, OldOr(N)
  PROVE  \A kind, key, f : f \notin N /\ UsedAs(kind, key, f)' => UsedAs(kind, key, f)
<1>1. SUFFICES ASSUME NEW kind, NEW key, NEW f, f \notin N, UsedAs(kind, key, f)' PROVE UsedAs(kind, key, f)
  OBVIOUS
<1>2. CASE kind = "free" /\ key = 0 /\ f \in ToSet(free')
  BY <1>1, <1>2 DEF OldOr, UsedAs
<1>3. CASE kind = "table" /\ key \in DOMAIN tables' /\ f = tables'[key]
  BY <1>1, <1>3 DEF OldOr, UsedAs
<1>4. CASE kind = "section" /\ key \in DOMAIN mappings' /\ f = mappings'[key] /\ f # None
  BY <1>1, <1>4 DEF OldOr, UsedAs
<1>5. CASE kind = "device" /\ key = 0 /\ f \in Frames /\ flags'[f] = 4
  BY <1>1, <1>5 DEF OldOr, UsedAs
<1>6. CASE kind = "held" /\ key \in Cores /\ f \in ToSet(core'[key].reg)
  BY <1>1, <1>6 DEF OldOr, UsedAs
<1>7. CASE kind = "page" /\ key \in OwnPages' /\ f = pte'[key].frame
  <2>1. key \in DOMAIN pte' /\ pte'[key].present /\ f \notin SectionFrames' \cup TopFrames'
    BY <1>7 DEF OwnPages, TopFrames
  <2>2. key \in DOMAIN pte /\ pte'[key] = pte[key]
    BY <1>1, <1>7, <2>1 DEF OldOr
  <2>3. f \notin SectionFrames \cup TopFrames
    BY <1>1, <2>1 DEF OldOr
  <2>4. key \in OwnPages /\ f = pte[key].frame
    BY <1>7, <2>1, <2>2, <2>3 DEF OwnPages, TopFrames
  <2> QED BY <1>7, <2>4 DEF UsedAs
<1> QED BY <1>1, <1>2, <1>3, <1>4, <1>5, <1>6, <1>7 DEF UsedAs

\* Some frames leave the uses they had, and each gets at most one new use.
Placed(kind, key, f) == UsedAs(kind, key, f)' /\ ~ UsedAs(kind, key, f)

\* If each has one new use at most, every frame still has one.
LEMMA FramesMove ==
  ASSUME OneUse, BootApart, NEW N, OldOr(N),
         \A f \in N : f \notin BootFrames /\ \E kind, key : UsedAs(kind, key, f) /\ ~ UsedAs(kind, key, f)',
         \A f \in N : \A kind, other, key, index :
           Placed(kind, key, f) /\ Placed(other, index, f) => kind = other /\ key = index
  PROVE  OneUse' /\ BootApart'
<1>1. \A kind, key, f : f \notin N /\ UsedAs(kind, key, f)' => UsedAs(kind, key, f)
  BY UsesKept
<1>2. ASSUME NEW f \in N, NEW kind, NEW key, UsedAs(kind, key, f)' PROVE Placed(kind, key, f)
  <2>1. PICK k, x : UsedAs(k, x, f) /\ ~ UsedAs(k, x, f)'
    OBVIOUS
  <2>2. ASSUME UsedAs(kind, key, f) PROVE FALSE
    <3>1. kind = k /\ key = x
      BY <2>1, <2>2 DEF OneUse
    <3> QED BY <1>2, <2>1, <3>1
  <2> QED BY <1>2, <2>2 DEF Placed
<1>3. OneUse'
  <2>1. SUFFICES ASSUME NEW kind, NEW other, NEW key, NEW index, NEW f,
                        UsedAs(kind, key, f)', UsedAs(other, index, f)'
                 PROVE  kind = other /\ key = index
    BY DEF OneUse
  <2>2. CASE f \in N
    BY <1>2, <2>1, <2>2
  <2>3. CASE f \notin N
    BY <1>1, <2>1, <2>3 DEF OneUse
  <2> QED BY <2>2, <2>3
<1>4. BootApart'
  <2>1. SUFFICES ASSUME NEW kind, NEW key, NEW f, UsedAs(kind, key, f)', f \in BootFrames
                 PROVE  kind = "page"
    BY DEF BootApart
  <2> QED BY <1>1, <2>1 DEF BootApart
<1> QED BY <1>3, <1>4

\* Pages get frames that nobody has, each page one.
LEMMA PagesMove ==
  ASSUME OneUse, PagesOnce, NEW M, SectionFrames \subseteq SectionFrames',
         \A f \in M : InHand(f),
         \A e \in DOMAIN pte' : pte'[e].present =>
           pte'[e].frame \in M \cup SectionFrames' \/ (e \in DOMAIN pte /\ pte'[e] = pte[e]),
         \A e, d \in DOMAIN pte' :
           pte'[e].present /\ pte'[d].present /\ pte'[e].frame = pte'[d].frame
             /\ pte'[e].frame \in M => e = d
  PROVE  PagesOnce'
<1>1. SUFFICES ASSUME NEW e \in DOMAIN pte', NEW d \in DOMAIN pte', pte'[e].present, pte'[d].present,
                      pte'[e].frame = pte'[d].frame, pte'[e].frame \notin SectionFrames'
               PROVE  e = d
  BY DEF PagesOnce
<1>2. CASE pte'[e].frame \in M
  BY <1>1, <1>2
<1>3. CASE pte'[e].frame \notin M
  <2>1. e \in DOMAIN pte /\ pte'[e] = pte[e] /\ d \in DOMAIN pte /\ pte'[d] = pte[d]
    BY <1>1, <1>3
  <2>2. pte[e].frame \notin SectionFrames
    BY <1>1, <2>1
  <2> QED BY <1>1, <2>1, <2>2 DEF PagesOnce
<1> QED BY <1>2, <1>3

\* A page stays one of its owner if its entry does.
LEMMA OwnedStays ==
  ASSUME OneUse, NEW e, Owned(e), e \in DOMAIN pte', pte'[e] = pte[e],
         \A f \in SectionFrames' \cup TopFrames' : f \in SectionFrames \cup TopFrames \/ InHand(f)
  PROVE  Owned(e)'
<1>1. e \in DOMAIN pte /\ pte[e].present /\ pte[e].frame \notin SectionFrames \cup TopFrames
  BY DEF Owned, OwnPages, TopFrames
<1>2. pte[e].frame \notin SectionFrames' \cup TopFrames'
  <2>1. ASSUME pte[e].frame \in SectionFrames' \cup TopFrames' PROVE FALSE
    <3>1. InHand(pte[e].frame)
      BY <1>1, <2>1
    <3> QED BY <1>1, <3>1, InHandInNoPage
  <2> QED BY <2>1
<1>3. e \in OwnPages'
  BY <1>1, <1>2 DEF OwnPages, TopFrames
<1> QED BY <1>3 DEF Owned

\* What is left of the list when its first frames are taken.
Remaining(n) == SubSeq(free, n + 1, Len(free))

\* The rest of the list is a list, without the frames that were taken.
LEMMA ListRest ==
  ASSUME ListsFit, NEW n \in 0 .. Len(free)
  PROVE  /\ Remaining(n) \in Seq(Frames) /\ IsInjective(Remaining(n)) /\ ToSet(Remaining(n)) \subseteq ToSet(free)
         /\ \A i \in 1 .. n : /\ i \in DOMAIN free /\ free[i] \in Frames /\ UsedAs("free", 0, free[i])
                             /\ free[i] \notin ToSet(Remaining(n))
         /\ \A i, j \in 1 .. n : free[i] = free[j] => i = j
<1> DEFINE l == Len(free)
           rest == Remaining(n)
<1>1. /\ l \in Nat /\ DOMAIN free = 1 .. l /\ \A i \in 1 .. l : free[i] \in Frames
      /\ n \in Nat /\ n <= l
  BY LenProperties, ElementOfSeq DEF ListsFit
<1>2. \A i, j \in 1 .. l : free[i] = free[j] => i = j
  BY <1>1 DEF ListsFit, IsInjective
<1>3. rest = SubSeq(free, n + 1, l)
  BY DEF Remaining
<1>4. /\ rest \in Seq(Frames) /\ Len(rest) = l - n
      /\ \A i \in 1 .. l - n : rest[i] = free[n + i]
  <2>1. \A i \in n + 1 .. l : free[i] \in Frames
    BY <1>1
  <2>2. n + 1 \in Int /\ l \in Int
    BY <1>1
  <2> HIDE DEF l, rest
  <2>3. /\ SubSeq(free, n + 1, l) \in Seq(Frames)
        /\ Len(SubSeq(free, n + 1, l)) = IF n + 1 <= l THEN l - (n + 1) + 1 ELSE 0
        /\ \A i \in 1 .. l - (n + 1) + 1 : SubSeq(free, n + 1, l)[i] = free[(n + 1) + i - 1]
    BY <2>1, <2>2, SubSeqProperties
  <2>4. l - (n + 1) + 1 = l - n /\ \A i \in 1 .. l - n : (n + 1) + i - 1 = n + i
    BY <1>1
  <2>5. Len(rest) = l - n
    BY <1>1, <1>3, <2>3
  <2>6. \A i \in 1 .. l - n : rest[i] = free[n + i]
    BY <1>3, <2>3, <2>4
  <2> QED BY <1>3, <2>3, <2>5, <2>6
<1> HIDE DEF rest
<1>5. DOMAIN rest = 1 .. l - n
  BY <1>4, LenProperties
<1>6. \A i \in 1 .. l - n : n + i \in 1 .. l /\ n + i > n
  BY <1>1
<1>7. IsInjective(rest)
  BY <1>1, <1>2, <1>4, <1>5, <1>6 DEF IsInjective
<1>8. ToSet(rest) \subseteq ToSet(free)
  BY <1>1, <1>4, <1>5, <1>6 DEF ToSet
<1>9. ASSUME NEW i \in 1 .. n
      PROVE  i \in DOMAIN free /\ free[i] \in Frames /\ UsedAs("free", 0, free[i]) /\ free[i] \notin ToSet(rest)
  <2>1. i \in 1 .. l
    BY <1>1
  <2>2. free[i] \in ToSet(free)
    BY <1>1, <2>1 DEF ToSet
  <2>3. ASSUME NEW j \in 1 .. l - n, rest[j] = free[i] PROVE FALSE
    BY <1>2, <1>4, <1>6, <1>1, <2>1, <2>3
  <2>4. free[i] \notin ToSet(rest)
    BY <1>5, <2>3 DEF ToSet
  <2> QED BY <1>1, <2>1, <2>2, <2>4 DEF UsedAs
<1>10. \A i, j \in 1 .. n : free[i] = free[j] => i = j
  BY <1>1, <1>2
<1> QED BY <1>4, <1>7, <1>8, <1>9, <1>10 DEF rest

\* The first frames of the list leave it.
LEMMA AllocatedFrames ==
  ASSUME ListsFit, NEW n \in 0 .. Len(free), MmAllocatePfn(n)
  PROVE  /\ free' \in Seq(Frames) /\ IsInjective(free') /\ ToSet(free') \subseteq ToSet(free)
         /\ \A i \in 1 .. n : /\ i \in DOMAIN free /\ free[i] \in Frames /\ UsedAs("free", 0, free[i])
                             /\ free[i] \notin ToSet(free')
         /\ \A i, j \in 1 .. n : free[i] = free[j] => i = j
         /\ \A f \in Frames : flags'[f] = 4 => flags[f] = 4
<1>1. free' = Remaining(n) /\ \A f \in Frames : flags'[f] = 4 => flags[f] = 4
  BY DEF MmAllocatePfn, Remaining
<1> QED BY <1>1, ListRest

\* The tables that are there stay, and the new ones take their frames from the list.
LEMMA TablesMade ==
  ASSUME NEW needs
  PROVE  /\ \A e \in DOMAIN NewTables(needs) :
              \/ e \in DOMAIN tables /\ NewTables(needs)[e] = tables[e]
              \/ \E i \in DOMAIN needs : needs[i] = e /\ IsTable(e) /\ NewTables(needs)[e] = free[i]
         /\ \A e \in DOMAIN tables : e \in DOMAIN NewTables(needs) /\ NewTables(needs)[e] = tables[e]
<1> DEFINE new == {i \in DOMAIN needs : IsTable(needs[i])}
<1>1. NewTables(needs) = [e \in DOMAIN tables \cup {needs[i] : i \in new} |->
                            IF e \in DOMAIN tables THEN tables[e]
                            ELSE free[CHOOSE i \in new : needs[i] = e]]
  BY DEF NewTables
<1>2. ASSUME NEW e \in DOMAIN NewTables(needs), e \notin DOMAIN tables
      PROVE  \E i \in DOMAIN needs : needs[i] = e /\ IsTable(e) /\ NewTables(needs)[e] = free[i]
  <2>1. \E i \in new : needs[i] = e
    BY <1>1, <1>2
  <2> DEFINE i == CHOOSE j \in new : needs[j] = e
  <2>2. i \in new /\ needs[i] = e
    BY <2>1
  <2>3. NewTables(needs)[e] = free[i]
    BY <1>1, <1>2
  <2> QED BY <2>2, <2>3
<1>3. \A e \in DOMAIN tables : e \in DOMAIN NewTables(needs) /\ NewTables(needs)[e] = tables[e]
  BY <1>1
<1> QED BY <1>2, <1>3

\* The section may get longer, but its pages stay.
MappingsStay ==
  /\ \A i \in DOMAIN mappings' : mappings'[i] = None \/ (i \in DOMAIN mappings /\ mappings'[i] = mappings[i])
  /\ \A i \in DOMAIN mappings : i \in DOMAIN mappings' /\ mappings'[i] = mappings[i]

\* Its frames stay too.
LEMMA SectionStays ==
  ASSUME MappingsStay
  PROVE  SectionFrames' = SectionFrames
BY DEF MappingsStay, SectionFrames

\* Cores hold what they held, or nothing.
RegsStay == \A c \in Cores : core'[c].reg = core[c].reg \/ core'[c].reg = <<>>

\* No core gets a frame.
LEMMA NothingHeld ==
  ASSUME RegsStay
  PROVE  \A c \in Cores : ToSet(core'[c].reg) \subseteq ToSet(core[c].reg)
BY DEF RegsStay, ToSet

\* An entry with a frame from the list for it, or one of the section.
Fresh(needs, e, entry) ==
  \E i \in DOMAIN needs : needs[i] = <<e[1], 0, e[2]>> /\ entry.frame = free[i]

\* Pages and their tables take their frames from the list.
LEMMA MapPages ==
  ASSUME ListsFit, OneUse, BootApart, PagesOnce, MappingsStay, RegsStay,
         NEW T, NEW needs \in Seq(T), NEW entries, PagingMapPage(needs, entries),
         \A e \in DOMAIN entries :
           /\ e = <<e[1], e[2]>> /\ entries[e].present
           /\ entries[e].frame \in SectionFrames \/ Fresh(needs, e, entries[e])
  PROVE  /\ free' \in Seq(Frames) /\ IsInjective(free')
         /\ OneUse' /\ BootApart' /\ PagesOnce'
         /\ DOMAIN pte' = DOMAIN pte \cup DOMAIN entries
         /\ \A e \in DOMAIN pte : e \notin DOMAIN entries => pte'[e] = pte[e]
         /\ \A f \in SectionFrames' \cup TopFrames' : f \in SectionFrames \cup TopFrames \/ InHand(f)
         /\ \A e \in DOMAIN entries : Fresh(needs, e, entries[e]) => Owned(e)'
         /\ \A f \in Frames : flags'[f] = 4 => flags[f] = 4
<1> DEFINE n == Len(needs)
           N == {free[i] : i \in 1 .. n}
           Turns(i, kind, key) ==
             \/ needs[i][2] # 0 /\ kind = "table" /\ key = needs[i]
             \/ needs[i][2] = 0 /\ kind = "page" /\ key = <<needs[i][1], needs[i][3]>>
<1>1. /\ n \in 0 .. Len(free) /\ DOMAIN needs = 1 .. n /\ MmAllocatePfn(n)
      /\ tables' = NewTables(needs) /\ pte' = With(pte, entries)
  BY LenProperties DEF PagingMapPage, ListsFit
<1>2. /\ free' \in Seq(Frames) /\ IsInjective(free') /\ ToSet(free') \subseteq ToSet(free)
      /\ \A i \in 1 .. n : /\ i \in DOMAIN free /\ free[i] \in Frames /\ UsedAs("free", 0, free[i])
                          /\ free[i] \notin ToSet(free')
      /\ \A i, j \in 1 .. n : free[i] = free[j] => i = j
      /\ \A f \in Frames : flags'[f] = 4 => flags[f] = 4
  BY <1>1, AllocatedFrames
<1>3. /\ \A e \in DOMAIN tables' : \/ e \in DOMAIN tables /\ tables'[e] = tables[e]
                                   \/ \E i \in 1 .. n : needs[i] = e /\ IsTable(e) /\ tables'[e] = free[i]
      /\ \A e \in DOMAIN tables : e \in DOMAIN tables' /\ tables'[e] = tables[e]
  BY <1>1, TablesMade
<1>4. /\ DOMAIN pte' = DOMAIN pte \cup DOMAIN entries
      /\ \A e \in DOMAIN entries : pte'[e] = entries[e]
      /\ \A e \in DOMAIN pte : e \notin DOMAIN entries => pte'[e] = pte[e]
  BY <1>1 DEF With
<1>5. SectionFrames' = SectionFrames
  BY SectionStays
<1>6. \A c \in Cores : ToSet(core'[c].reg) \subseteq ToSet(core[c].reg)
  BY NothingHeld
<1>7. \A f \in N : InHand(f)
  BY <1>2 DEF InHand
<1>8. TopFrames \subseteq TopFrames' /\ TopFrames' \subseteq TopFrames \cup N
  <2>1. \A d \in TopTables : d \in TopTables' /\ tables'[d] = tables[d]
    BY <1>3 DEF TopTables
  <2>2. \A d \in TopTables' : (d \in TopTables /\ tables'[d] = tables[d]) \/ tables'[d] \in N
    BY <1>3 DEF TopTables
  <2> HIDE DEF N
  <2> QED BY <2>1, <2>2 DEF TopFrames
<1>9. \A e \in DOMAIN pte' : pte'[e].present =>
        \/ e \in DOMAIN entries /\ pte'[e] = entries[e]
        \/ e \in DOMAIN pte /\ pte'[e] = pte[e]
  BY <1>4
<1>10. \A e \in DOMAIN entries : Fresh(needs, e, entries[e]) =>
         \E i \in 1 .. n : needs[i] = <<e[1], 0, e[2]>> /\ entries[e].frame = free[i]
  BY <1>1 DEF Fresh
<1> HIDE DEF n
<1>17. \A e \in DOMAIN pte' : pte'[e].present =>
         pte'[e].frame \in N \cup SectionFrames' \/ (e \in DOMAIN pte /\ pte'[e] = pte[e])
  <2>1. SUFFICES ASSUME NEW e \in DOMAIN entries, pte'[e] = entries[e]
                 PROVE  pte'[e].frame \in N \cup SectionFrames'
    BY <1>9
  <2>2. CASE entries[e].frame \in SectionFrames
    BY <1>5, <2>1, <2>2
  <2>3. CASE Fresh(needs, e, entries[e])
    BY <1>10, <2>1, <2>3
  <2> QED BY <2>2, <2>3
<1>11. OldOr(N)
  <2>2. \A e \in DOMAIN tables' : tables'[e] \in N \/ (e \in DOMAIN tables /\ tables'[e] = tables[e])
    BY <1>3
  <2> HIDE DEF N
  <2> QED BY <1>2, <1>5, <1>6, <1>8, <1>17, <2>2 DEF OldOr, MappingsStay
<1>12. ASSUME NEW i \in 1 .. n, NEW f, f = free[i], NEW kind, NEW key, Placed(kind, key, f)
       PROVE  Turns(i, kind, key)
  <2>0. UsedAs(kind, key, f)' /\ ~ UsedAs(kind, key, f) /\ InHand(f) /\ f \in N
    <3>1. f \in N
      BY <1>12
    <3>2. InHand(f)
      BY <1>7, <3>1
    <3> QED BY <1>12, <3>1, <3>2 DEF Placed
  <2>1. CASE kind = "free" /\ key = 0 /\ f \in ToSet(free')
    BY <1>2, <1>12, <2>1
  <2>2. CASE kind = "table" /\ key \in DOMAIN tables' /\ f = tables'[key]
    <3>1. ~ (key \in DOMAIN tables /\ tables'[key] = tables[key])
      BY <2>0, <2>2 DEF UsedAs
    <3>2. PICK j \in 1 .. n : needs[j] = key /\ IsTable(key) /\ tables'[key] = free[j]
      BY <1>3, <2>2, <3>1
    <3>3. j = i
      BY <1>2, <1>12, <2>2, <3>2
    <3> QED BY <2>2, <3>2, <3>3 DEF IsTable
  <2>3. CASE kind = "section" /\ key \in DOMAIN mappings' /\ f = mappings'[key] /\ f # None
    BY <2>0, <2>3 DEF UsedAs, MappingsStay
  <2>4. CASE kind = "device" /\ key = 0 /\ f \in Frames /\ flags'[f] = 4
    BY <1>2, <2>0, <2>4 DEF UsedAs
  <2>5. CASE kind = "held" /\ key \in Cores /\ f \in ToSet(core'[key].reg)
    BY <1>6, <2>0, <2>5 DEF UsedAs
  <2>6. CASE kind = "page" /\ key \in OwnPages' /\ f = pte'[key].frame
    <3>1. key \in DOMAIN pte' /\ pte'[key].present /\ f \notin SectionFrames'
      BY <2>6 DEF OwnPages
    <3>2. ~ (key \in DOMAIN pte /\ pte'[key] = pte[key])
      BY <2>0, <2>6, <3>1, InHandInNoPage
    <3>3. key \in DOMAIN entries /\ pte'[key] = entries[key] /\ entries[key].frame \notin SectionFrames
      BY <1>5, <1>9, <2>6, <3>1, <3>2
    <3>4. PICK j \in 1 .. n : needs[j] = <<key[1], 0, key[2]>> /\ entries[key].frame = free[j]
      BY <1>10, <3>3
    <3>5. j = i
      BY <1>2, <1>12, <2>6, <3>3, <3>4
    <3>6. needs[i][1] = key[1] /\ needs[i][2] = 0 /\ needs[i][3] = key[2] /\ key = <<key[1], key[2]>>
      BY <3>3, <3>4, <3>5
    <3> QED BY <2>6, <3>6
  <2>7. \/ kind = "free" /\ key = 0 /\ f \in ToSet(free')
        \/ kind = "table" /\ key \in DOMAIN tables' /\ f = tables'[key]
        \/ kind = "section" /\ key \in DOMAIN mappings' /\ f = mappings'[key] /\ f # None
        \/ kind = "device" /\ key = 0 /\ f \in Frames /\ flags'[f] = 4
        \/ kind = "held" /\ key \in Cores /\ f \in ToSet(core'[key].reg)
        \/ kind = "page" /\ key \in OwnPages' /\ f = pte'[key].frame
    BY <2>0 DEF UsedAs
  <2> QED BY <2>1, <2>2, <2>3, <2>4, <2>5, <2>6, <2>7
<1> HIDE DEF Turns
<1>13. OneUse' /\ BootApart'
  <2>1. \A f \in N : f \notin BootFrames /\ \E kind, key : UsedAs(kind, key, f) /\ ~ UsedAs(kind, key, f)'
    <3>1. ASSUME NEW i \in 1 .. n, NEW f, f = free[i]
          PROVE  f \notin BootFrames /\ \E kind, key : UsedAs(kind, key, f) /\ ~ UsedAs(kind, key, f)'
      <4>1. UsedAs("free", 0, f) /\ f \notin ToSet(free')
        BY <1>2, <3>1
      <4>2. ~ UsedAs("free", 0, f)'
        BY <4>1 DEF UsedAs
      <4>3. InHand(f)
        BY <1>7, <3>1
      <4>4. f \notin BootFrames
        BY <4>3, InHandInNoPage
      <4> QED BY <4>1, <4>2, <4>4
    <3> QED BY <3>1
  <2>2. \A f \in N : \A kind, other, key, index :
          Placed(kind, key, f) /\ Placed(other, index, f) => kind = other /\ key = index
    <3>1. ASSUME NEW i \in 1 .. n, NEW f, f = free[i], NEW kind, NEW other, NEW key, NEW index,
                 Placed(kind, key, f), Placed(other, index, f)
          PROVE  kind = other /\ key = index
      <4>1. Turns(i, kind, key) /\ Turns(i, other, index)
        BY <1>12, <3>1
      <4> QED BY <4>1 DEF Turns
    <3> QED BY <3>1
  <2> HIDE DEF N
  <2> QED BY <1>11, <2>1, <2>2, FramesMove
<1>14. PagesOnce'
  <2>2. ASSUME NEW e \in DOMAIN pte', pte'[e].present, NEW i \in 1 .. n, pte'[e].frame = free[i]
        PROVE  e = <<needs[i][1], needs[i][3]>>
    <3>1. ~ (e \in DOMAIN pte /\ pte'[e] = pte[e])
      BY <1>7, <2>2, InHandInNoPage
    <3>2. e \in DOMAIN entries /\ pte'[e] = entries[e]
      BY <1>9, <2>2, <3>1
    <3>3. entries[e].frame \notin SectionFrames
      <4>1. InHand(free[i])
        BY <1>7
      <4> QED BY <2>2, <3>2, <4>1, InHandInNoPage
    <3>4. PICK j \in 1 .. n : needs[j] = <<e[1], 0, e[2]>> /\ entries[e].frame = free[j]
      BY <1>10, <3>2, <3>3
    <3>5. j = i
      BY <1>2, <2>2, <3>2, <3>4
    <3> QED BY <3>2, <3>4, <3>5
  <2>3. \A e, d \in DOMAIN pte' :
          pte'[e].present /\ pte'[d].present /\ pte'[e].frame = pte'[d].frame
            /\ pte'[e].frame \in N => e = d
    <3>1. SUFFICES ASSUME NEW e \in DOMAIN pte', NEW d \in DOMAIN pte', pte'[e].present, pte'[d].present,
                          pte'[e].frame = pte'[d].frame, pte'[e].frame \in N
                   PROVE  e = d
      OBVIOUS
    <3>2. PICK i \in 1 .. n : pte'[e].frame = free[i]
      BY <3>1
    <3> QED BY <2>2, <3>1, <3>2
  <2> HIDE DEF N
  <2> QED BY <1>5, <1>7, <1>17, <2>3, PagesMove
<1>15. \A f \in SectionFrames' \cup TopFrames' : f \in SectionFrames \cup TopFrames \/ InHand(f)
  BY <1>5, <1>7, <1>8
<1>16. ASSUME NEW e \in DOMAIN entries, Fresh(needs, e, entries[e]) PROVE Owned(e)'
  <2>1. PICK i \in 1 .. n : needs[i] = <<e[1], 0, e[2]>> /\ entries[e].frame = free[i]
    BY <1>10, <1>16
  <2>2. e \in DOMAIN pte' /\ pte'[e].present /\ pte'[e].frame = free[i]
    BY <1>4, <2>1
  <2>3. InHand(free[i])
    BY <1>7
  <2>4. free[i] \notin SectionFrames \cup TopFrames \cup BootFrames
    BY <2>3, InHandInNoPage
  <2>5. free[i] \notin TopFrames'
    <3>1. SUFFICES ASSUME NEW d \in TopTables', tables'[d] = free[i] PROVE FALSE
      BY DEF TopFrames
    <3>2. d \in DOMAIN tables'
      BY DEF TopTables
    <3>3. CASE d \in DOMAIN tables /\ tables'[d] = tables[d]
      <4>1. d \in TopTables
        BY <3>3 DEF TopTables
      <4> QED BY <2>4, <3>1, <3>3, <4>1 DEF TopFrames
    <3>4. CASE \E j \in 1 .. n : needs[j] = d /\ IsTable(d) /\ tables'[d] = free[j]
      <4>1. PICK j \in 1 .. n : needs[j] = d /\ IsTable(d) /\ tables'[d] = free[j]
        BY <3>4
      <4>2. j = i
        BY <1>2, <3>1, <4>1
      <4>3. d[2] = 0
        BY <2>1, <4>1, <4>2
      <4> QED BY <4>1, <4>3 DEF IsTable
    <3> QED BY <1>3, <3>2, <3>3, <3>4
  <2>6. e \in OwnPages'
    BY <1>5, <2>2, <2>4, <2>5 DEF OwnPages, TopFrames
  <2> QED BY <2>2, <2>4, <2>6 DEF Owned
<1> QED BY <1>2, <1>4, <1>13, <1>14, <1>15, <1>16

\* A run of pages that get frames of their own.
Block(at, n) == {<<Kernel, at + i>> : i \in 0 .. n - 1}
Moved(block) ==
  /\ free' \in Seq(Frames) /\ IsInjective(free')
  /\ OneUse' /\ BootApart' /\ PagesOnce'
  /\ DOMAIN pte' = DOMAIN pte \cup block
  /\ \A e \in DOMAIN pte : e \notin block => pte'[e] = pte[e]
  /\ \A f \in SectionFrames' \cup TopFrames' : f \in SectionFrames \cup TopFrames \/ InHand(f)
  /\ \A f \in Frames : flags'[f] = 4 => flags[f] = 4

\* The pages of a run.
LEMMA PagesInARow ==
  ASSUME NEW at \in Int, NEW n \in Nat
  PROVE  /\ PageRun(at, n) \in Seq(Int) /\ Len(PageRun(at, n)) = n
         /\ \A i \in 0 .. n - 1 : i + 1 \in 1 .. n /\ PageRun(at, n)[i + 1] = at + i
<1>1. PageRun(at, n) \in [1 .. n -> Int]
  BY DEF PageRun
<1>2. \A i \in 0 .. n - 1 : i + 1 \in 1 .. n /\ at + (i + 1) - 1 = at + i
  OBVIOUS
<1>3. \A i \in 1 .. n : PageRun(at, n)[i] = at + i - 1
  BY DEF PageRun
<1> QED BY <1>1, <1>2, <1>3, FunctionsAreSequences

\* A block of pages gets its frames from the list.
LEMMA FreshBlockMoves ==
  ASSUME ListsFit, OneUse, BootApart, PagesOnce, MappingsStay, RegsStay,
         NEW at \in Int, NEW n \in Nat, FreshBlock(Kernel, at, n)
  PROVE  Moved(Block(at, n)) /\ \A e \in Block(at, n) : Owned(e)'
<1> DEFINE run == PageRun(at, n)
           needs == Needs(Kernel, run, TRUE)
           entries == [e \in Block(at, n) |-> Present(FrameFor(needs, e[1], e[2]), TRUE)]
<1>1. \A v : Space(Kernel, v) = Kernel
  BY DEF Space
<1>2. PagingMapPage(needs, entries)
  <2>1. PICK space : space = Space(Kernel, at)
    OBVIOUS
  <2>2. PagingMapPage(Needs(space, run, TRUE),
                      [e \in {<<space, at + i>> : i \in 0 .. n - 1} |->
                         Present(FrameFor(Needs(space, run, TRUE), e[1], e[2]), TRUE)])
    BY <2>1, Zenon DEF FreshBlock
  <2>3. space = Kernel
    BY <1>1, <2>1
  <2> QED BY <2>2, <2>3 DEF Block
<1>3. run \in Seq(Int) /\ Len(run) = n /\ \A i \in 0 .. n - 1 : i + 1 \in 1 .. n /\ run[i + 1] = at + i
  BY PagesInARow
<1> HIDE DEF run
<1>4. /\ needs \in Seq(NeedsOf(Kernel))
      /\ \A k \in 1 .. n : \E i \in 1 .. Len(needs) : needs[i] = <<Kernel, 0, run[k]>>
  <2>1. /\ Needs(Kernel, run, TRUE) \in Seq(NeedsOf(Kernel))
        /\ TRUE = TRUE => \A k \in 1 .. Len(run) :
             \E i \in 1 .. Len(Needs(Kernel, run, TRUE)) : Needs(Kernel, run, TRUE)[i] = <<Kernel, 0, run[k]>>
    BY <1>3, NeedsProperties
  <2> QED BY <1>3, <2>1
<1> HIDE DEF needs
<1>5. DOMAIN needs = 1 .. Len(needs)
  BY <1>4, LenProperties
<1>6. ASSUME NEW e \in Block(at, n)
      PROVE  e = <<e[1], e[2]>> /\ entries[e].present /\ Fresh(needs, e, entries[e])
  <2>1. PICK i \in 0 .. n - 1 : e = <<Kernel, at + i>>
    BY DEF Block
  <2>2. e[1] = Kernel /\ e[2] = at + i /\ e = <<e[1], e[2]>>
    BY <2>1
  <2>3. \E j \in DOMAIN needs : needs[j] = <<e[1], 0, e[2]>>
    <3>1. i + 1 \in 1 .. n /\ run[i + 1] = at + i
      BY <1>3
    <3>2. PICK j \in 1 .. Len(needs) : needs[j] = <<Kernel, 0, run[i + 1]>>
      BY <1>4, <3>1
    <3> QED BY <1>5, <2>2, <3>1, <3>2
  <2> DEFINE j == CHOOSE k \in DOMAIN needs : needs[k] = <<e[1], 0, e[2]>>
  <2>4. j \in DOMAIN needs /\ needs[j] = <<e[1], 0, e[2]>>
    BY <2>3
  <2>5. entries[e].present /\ entries[e].frame = free[j]
    BY DEF Present, FrameFor
  <2> HIDE DEF j, entries
  <2> QED BY <2>2, <2>4, <2>5 DEF Fresh
<1>7. DOMAIN entries = Block(at, n)
  OBVIOUS
<1> HIDE DEF entries
<1>8. /\ free' \in Seq(Frames) /\ IsInjective(free')
      /\ OneUse' /\ BootApart' /\ PagesOnce'
      /\ DOMAIN pte' = DOMAIN pte \cup DOMAIN entries
      /\ \A e \in DOMAIN pte : e \notin DOMAIN entries => pte'[e] = pte[e]
      /\ \A f \in SectionFrames' \cup TopFrames' : f \in SectionFrames \cup TopFrames \/ InHand(f)
      /\ \A e \in DOMAIN entries : Fresh(needs, e, entries[e]) => Owned(e)'
      /\ \A f \in Frames : flags'[f] = 4 => flags[f] = 4
  <2>1. \A e \in DOMAIN entries :
           /\ e = <<e[1], e[2]>> /\ entries[e].present
           /\ entries[e].frame \in SectionFrames \/ Fresh(needs, e, entries[e])
    BY <1>6, <1>7
  <2> QED BY <1>2, <1>4, <2>1, MapPages
<1> QED BY <1>6, <1>7, <1>8 DEF Moved

-----------------------------------------------------------------------------
\* The entries of the kernel's pages stay.
KernelSame ==
  \A v \in Int : Mapped(v) =>
    <<Kernel, v>> \in DOMAIN pte' /\ pte'[<<Kernel, v>>] = pte[<<Kernel, v>>]

\* Those of the outer pages of other cores' stacks stay.
OtherGuardsStay(c) ==
  \A d \in Cores \ {c} : core[d].pc = "guards" =>
    \A e \in {<<Kernel, core[d].at>>, <<Kernel, core[d].at + Doing(d).n + 1>>} :
      e \in DOMAIN pte' /\ pte'[e] = pte[e]

\* If the kernel's pages stay, the outer pages of stacks do.
LEMMA KernelSameGuards ==
  ASSUME MemoryInv, FrameInv, KernelSame, NEW c \in Cores
  PROVE  OtherGuardsStay(c)
<1>1. SUFFICES ASSUME NEW d \in Cores, core[d].pc = "guards",
                      NEW v \in {core[d].at, core[d].at + Doing(d).n + 1}
               PROVE  <<Kernel, v>> \in DOMAIN pte' /\ pte'[<<Kernel, v>>] = pte[<<Kernel, v>>]
  BY DEF OtherGuardsStay
<1>2. core[d].at \in Int /\ Doing(d).n \in Nat
  BY <1>1, Numbers
<1>3. v \in Int
  BY <1>1, <1>2
<1>4. Owned(<<Kernel, v>>)
  BY <1>1 DEF FrameInv, GuardOwned
<1>5. Mapped(v)
  BY <1>4 DEF Owned, OwnPages, Mapped
<1> QED BY <1>3, <1>5 DEF KernelSame

\* The invariant after a step of a core.
LEMMA CoreStepFits ==
  ASSUME MemoryInv, FrameInv, NEW c \in Cores, OthersStay(c), phase' = "running",
         free' \in Seq(Frames), IsInjective(free'), mappings' \in Seq(Int),
         OneUse', BootApart', PagesOnce', OtherGuardsStay(c),
         \A f \in SectionFrames' \cup TopFrames' : f \in SectionFrames \cup TopFrames \/ InHand(f),
         RegFits(c)', GuardOwned(c)'
  PROVE  FrameInv'
<1>1. ASSUME NEW d \in Cores \ {c} PROVE RegFits(d)' /\ GuardOwned(d)'
  <2>1. core'[d] = core[d] /\ Doing(d)' = Doing(d) /\ RegFits(d) /\ GuardOwned(d)
    BY DEF OthersStay, Doing, FrameInv
  <2>2. RegFits(d)'
    BY <2>1 DEF RegFits, NeedsReg
  <2>3. ASSUME core[d].pc = "guards",
               NEW e \in {<<Kernel, core[d].at>>, <<Kernel, core[d].at + Doing(d).n + 1>>}
        PROVE  Owned(e)'
    <3>1. Owned(e) /\ e \in DOMAIN pte' /\ pte'[e] = pte[e]
      BY <2>1, <2>3 DEF OtherGuardsStay, GuardOwned
    <3>2. PICK x : x = e
      OBVIOUS
    <3>3. Owned(x) /\ x \in DOMAIN pte' /\ pte'[x] = pte[x]
      BY <3>1, <3>2
    <3>4. Owned(x)'
      BY <3>3, OwnedStays DEF FrameInv
    <3> QED BY <3>2, <3>4
  <2>4. GuardOwned(d)'
    BY <2>1, <2>3 DEF GuardOwned
  <2> QED BY <2>2, <2>4
<1>2. BootFits'
  BY DEF BootFits
<1> QED BY <1>1, <1>2 DEF FrameInv, ListsFit

\* Frames stay where they are, and the cores hold them or drop them.
QuietCore(d) ==
  /\ core'[d].reg = core[d].reg \/ core'[d].reg = <<>>
  /\ NeedsReg(d)' => core'[d].reg = core[d].reg /\ NeedsReg(d)
  /\ core'[d].pc = "guards" => core'[d] = core[d]

\* Then the invariant stays.
LEMMA QuietFits ==
  ASSUME FrameInv, phase' = phase,
         UNCHANGED <<free, flags, tables, pte, mappings>>, \A d \in Cores : QuietCore(d)
  PROVE  FrameInv'
<1>1. \A d \in Cores : ToSet(core'[d].reg) \subseteq ToSet(core[d].reg)
  BY DEF QuietCore, ToSet
<1>2. SectionFrames' = SectionFrames /\ TopFrames' = TopFrames /\ OwnPages' = OwnPages
  BY DEF SectionFrames, TopFrames, TopTables, OwnPages
<1>3. OldOr({})
  BY <1>1, <1>2 DEF OldOr
<1>4. OneUse' /\ BootApart'
  BY <1>3, FramesMove DEF FrameInv
<1>5. PagesOnce' /\ ListsFit' /\ BootFits'
  BY <1>2 DEF FrameInv, PagesOnce, ListsFit, BootFits
<1>6. ASSUME NEW d \in Cores PROVE RegFits(d)' /\ GuardOwned(d)'
  <2>1. QuietCore(d) /\ RegFits(d) /\ GuardOwned(d)
    BY DEF FrameInv
  <2>2. RegFits(d)'
    <3>1. <<>> \in Seq(ToSet(<<>>)) /\ IsInjective(<<>>)
      BY DEF IsInjective
    <3> QED BY <2>1, <3>1 DEF RegFits, QuietCore
  <2>3. GuardOwned(d)'
    <3>1. SUFFICES ASSUME core'[d].pc = "guards",
                          NEW e \in {<<Kernel, core'[d].at>>, <<Kernel, core'[d].at + Doing(d)'.n + 1>>}
                   PROVE  Owned(e)'
      BY DEF GuardOwned
    <3>2. core'[d] = core[d] /\ Doing(d)' = Doing(d)
      BY <2>1, <3>1 DEF QuietCore, Doing
    <3>3. Owned(e)
      BY <2>1, <3>1, <3>2 DEF GuardOwned
    <3> QED BY <1>2, <3>3 DEF Owned
  <2> QED BY <2>2, <2>3
<1> QED BY <1>4, <1>5, <1>6 DEF FrameInv

\* How one core changes.
After(c, todo, pc, at, reg) ==
  /\ OthersStay(c)
  /\ core'[c].todo = todo /\ core'[c].pc = pc /\ core'[c].at = at /\ core'[c].reg = reg

\* How the steps of a core change it.
LEMMA CoreAfter ==
  ASSUME Typed, NEW c \in Cores
  PROVE  /\ \A pc : Goes(c, pc) => After(c, core[c].todo, pc, core[c].at, core[c].reg)
         /\ Finishes(c) => After(c, Tail(core[c].todo), "start", None, <<>>)
         /\ \A pc, at :
              core' = [core EXCEPT ![c].pc = pc, ![c].at = at] => After(c, core[c].todo, pc, at, core[c].reg)
         /\ \A pc, reg :
              core' = [core EXCEPT ![c].pc = pc, ![c].reg = reg] => After(c, core[c].todo, pc, core[c].at, reg)
         /\ \A todo : Does(c, todo) => After(c, todo, core[c].pc, core[c].at, core[c].reg)
<1>1. /\ core = [d \in Cores |-> core[d]]
      /\ core[c] = [todo |-> core[c].todo, pc |-> core[c].pc, at |-> core[c].at, reg |-> core[c].reg]
  BY DEF Typed
<1>2. ASSUME NEW pc, Goes(c, pc) PROVE After(c, core[c].todo, pc, core[c].at, core[c].reg)
  BY <1>1, <1>2 DEF Goes, After, OthersStay
<1>3. ASSUME Finishes(c) PROVE After(c, Tail(core[c].todo), "start", None, <<>>)
  BY <1>1, <1>3 DEF Finishes, Nothing, After, OthersStay
<1>4. ASSUME NEW pc, NEW at, core' = [core EXCEPT ![c].pc = pc, ![c].at = at]
      PROVE  After(c, core[c].todo, pc, at, core[c].reg)
  BY <1>1, <1>4 DEF After, OthersStay
<1>5. ASSUME NEW pc, NEW reg, core' = [core EXCEPT ![c].pc = pc, ![c].reg = reg]
      PROVE  After(c, core[c].todo, pc, core[c].at, reg)
  BY <1>1, <1>5 DEF After, OthersStay
<1>6. ASSUME NEW todo, Does(c, todo) PROVE After(c, todo, core[c].pc, core[c].at, core[c].reg)
  BY <1>1, <1>6 DEF Does, After, OthersStay
<1> QED BY <1>2, <1>3, <1>4, <1>5, <1>6

\* A step that has nothing to do with frames.
LEMMA QuietStepFits ==
  ASSUME FrameInv, phase' = phase, UNCHANGED <<free, flags, tables, pte, mappings>>, NEW c \in Cores,
         NEW todo, NEW pc, NEW at, NEW reg, After(c, todo, pc, at, reg),
         reg = core[c].reg \/ reg = <<>>, pc \notin {"find", "map", "guards"}
  PROVE  FrameInv'
<1>1. ASSUME NEW d \in Cores PROVE QuietCore(d)
  <2>1. CASE d = c
    BY <2>1 DEF After, QuietCore, NeedsReg
  <2>2. CASE d # c
    <3>1. core'[d] = core[d]
      BY <2>2 DEF After, OthersStay
    <3> QED BY <3>1 DEF QuietCore, NeedsReg, Doing
  <2> QED BY <2>1, <2>2
<1> QED BY <1>1, QuietFits

\* The system stops, and frames stay where they are.
LEMMA StopFits ==
  ASSUME FrameInv, NEW why, Stop(why)
  PROVE  FrameInv'
<1>1. phase' = phase /\ core' = core /\ UNCHANGED <<free, flags, tables, pte, mappings>>
  BY DEF Stop, frameVars, sectionVars
<1>2. \A d \in Cores : QuietCore(d)
  BY <1>1 DEF QuietCore, NeedsReg, Doing
<1> QED BY <1>1, <1>2, QuietFits

\* Calls of the dispatcher and of the loader that have nothing to do with frames.
LEMMA QuietActionsFit ==
  ASSUME MemoryInv, FrameInv, NEW c \in Cores,
         \/ Start(c) \/ KiAcquireDispatcherLock(c) \/ KiReleaseDispatcherLock(c)
         \/ CountCore(c) \/ CheckCores(c) \/ LockView(c) \/ Access(c)
         \/ PageFaultHandler(c) \/ NtReadFile(c)
  PROVE  FrameInv'
<1>1. Typed /\ core[c].todo = <<>> => core[c].pc = "start"
  BY DEF MemoryInv, StepsFit
<1>2. CASE Start(c)
  <2>1. PICK todo : Does(c, todo)
    BY <1>2 DEF Start
  <2>2. core[c].pc = "start" /\ phase' = phase /\ UNCHANGED <<free, flags, tables, pte, mappings>>
    BY <1>1, <1>2 DEF Start, Idle, MemoryInv, StepsFit, frameVars, sectionVars
  <2>3. After(c, todo, core[c].pc, core[c].at, core[c].reg)
    BY <2>1, CoreAfter DEF MemoryInv
  <2> QED BY <2>2, <2>3, QuietStepFits
<1>3. CASE KiAcquireDispatcherLock(c) \/ KiReleaseDispatcherLock(c) \/ CountCore(c)
  <2>1. Finishes(c) /\ phase' = phase /\ UNCHANGED <<free, flags, tables, pte, mappings>>
    BY <1>3 DEF KiAcquireDispatcherLock, KiReleaseDispatcherLock, CountCore, frameVars, sectionVars
  <2>2. After(c, Tail(core[c].todo), "start", None, <<>>)
    BY <2>1, CoreAfter DEF MemoryInv
  <2> QED BY <2>1, <2>2, QuietStepFits
<1>4. CASE CheckCores(c)
  <2>1. PICK todo : Does(c, todo)
    BY <1>4 DEF CheckCores
  <2>2. core[c].pc = "start" /\ phase' = phase /\ UNCHANGED <<free, flags, tables, pte, mappings>>
    BY <1>4 DEF CheckCores, At, frameVars, sectionVars
  <2>3. After(c, todo, core[c].pc, core[c].at, core[c].reg)
    BY <2>1, CoreAfter DEF MemoryInv
  <2> QED BY <2>2, <2>3, QuietStepFits
<1>5. CASE LockView(c)
  <2>1. Goes(c, "locked") /\ phase' = phase /\ UNCHANGED <<free, flags, tables, pte, mappings>>
    BY <1>5 DEF LockView, frameVars, sectionVars
  <2>2. After(c, core[c].todo, "locked", core[c].at, core[c].reg)
    BY <2>1, CoreAfter DEF MemoryInv
  <2> QED BY <2>1, <2>2, QuietStepFits
<1>6. CASE Access(c)
  <2>1. /\ Finishes(c) \/ Goes(c, "fault")
        /\ phase' = phase /\ UNCHANGED <<free, flags, tables, pte, mappings>>
    BY <1>6 DEF Access, frameVars
  <2>2. \/ After(c, Tail(core[c].todo), "start", None, <<>>)
        \/ After(c, core[c].todo, "fault", core[c].at, core[c].reg)
    BY <2>1, CoreAfter DEF MemoryInv
  <2> QED BY <2>1, <2>2, QuietStepFits
<1>7. CASE PageFaultHandler(c)
  <2>1. CASE Stop("present")
    BY <2>1, StopFits
  <2>2. CASE ~ Stop("present")
    <3>1. Goes(c, "handle") /\ phase' = phase /\ UNCHANGED <<free, flags, tables, pte, mappings>>
      BY <1>7, <2>2 DEF PageFaultHandler, frameVars, sectionVars
    <3>2. After(c, core[c].todo, "handle", core[c].at, core[c].reg)
      BY <3>1, CoreAfter DEF MemoryInv
    <3> QED BY <3>1, <3>2, QuietStepFits
  <2> QED BY <2>1, <2>2
<1>8. CASE NtReadFile(c)
  <2>1. CASE Stop("dispatch")
    BY <2>1, StopFits
  <2>2. CASE ~ Stop("dispatch")
    <3>1. /\ core' = [core EXCEPT ![c].pc = "start", ![c].at = None]
          /\ phase' = phase /\ UNCHANGED <<free, flags, tables, pte, mappings>>
      BY <1>8, <2>2 DEF NtReadFile, frameVars
    <3>2. After(c, core[c].todo, "start", None, core[c].reg)
      BY <3>1, CoreAfter DEF MemoryInv
    <3> QED BY <3>1, <3>2, QuietStepFits
  <2> QED BY <2>1, <2>2
<1> QED BY <1>2, <1>3, <1>4, <1>5, <1>6, <1>7, <1>8

\* A core that is woken, and the one that wakes it.
LEMMA ApStartupFits ==
  ASSUME MemoryInv, FrameInv, NEW c \in Cores, ApStartup(c)
  PROVE  FrameInv'
<1>1. PICK o \in Cores \ {c} :
        /\ core[o].todo = <<>> /\ core[c].pc = "start"
        /\ core' = [core EXCEPT ![o].todo = ApProcessorInit(o), ![c].todo = Tail(@)]
  BY PlansWake
<1>2. phase' = phase /\ UNCHANGED <<free, flags, tables, pte, mappings>>
  BY DEF ApStartup, frameVars, sectionVars
<1>3. core[o].pc = "start"
  BY <1>1 DEF MemoryInv, StepsFit
<1>4. /\ core = [d \in Cores |-> core[d]]
      /\ \A d \in Cores : core[d] = [todo |-> core[d].todo, pc |-> core[d].pc, at |-> core[d].at, reg |-> core[d].reg]
  BY DEF MemoryInv, Typed
<1>5. /\ \A d \in Cores \ {c, o} : core'[d] = core[d]
      /\ \A d \in {c, o} : core'[d].pc = "start" /\ core'[d].reg = core[d].reg
  BY <1>1, <1>3, <1>4
<1>6. ASSUME NEW d \in Cores PROVE QuietCore(d)
  <2>1. CASE d \in {c, o}
    BY <1>5, <2>1 DEF QuietCore, NeedsReg
  <2>2. CASE d \notin {c, o}
    <3>1. core'[d] = core[d]
      BY <1>5, <2>2
    <3> QED BY <3>1 DEF QuietCore, NeedsReg, Doing
  <2> QED BY <2>1, <2>2
<1> QED BY <1>2, <1>6, QuietFits

\* A core that looks for pages keeps the frame it has for them.
LEMMA FindPagesFits ==
  ASSUME MemoryInv, FrameInv, NEW c \in Cores, FindPages(c)
  PROVE  FrameInv'
<1>1. PICK at : core' = [core EXCEPT ![c].pc = "map", ![c].at = at]
  BY DEF FindPages
<1>2. phase' = phase /\ UNCHANGED <<free, flags, tables, pte, mappings>>
  BY DEF FindPages, frameVars, sectionVars
<1>3. After(c, core[c].todo, "map", at, core[c].reg)
  BY <1>1, CoreAfter DEF MemoryInv
<1>4. Doing(c).do \in {"space", "thread"} => core[c].pc = "find"
  BY DEF FindPages, At, Doing
<1>5. ASSUME NEW d \in Cores PROVE QuietCore(d)
  <2>1. CASE d = c
    <3>1. core'[c].pc = "map" /\ core'[c].reg = core[c].reg /\ Doing(c)' = Doing(c)
      BY <1>3 DEF After, Doing
    <3> QED BY <1>4, <2>1, <3>1 DEF QuietCore, NeedsReg
  <2>2. CASE d # c
    <3>1. core'[d] = core[d]
      BY <1>3, <2>2 DEF After, OthersStay
    <3> QED BY <3>1 DEF QuietCore, NeedsReg, Doing
  <2> QED BY <2>1, <2>2
<1> QED BY <1>2, <1>5, QuietFits
-----------------------------------------------------------------------------
\* Frames go from the free list to a core, or from a core to the free list.
LEMMA HandsMove ==
  ASSUME OneUse, BootApart, PagesOnce, UNCHANGED <<tables, pte, mappings>>,
         \A f \in Frames : flags'[f] = 4 => flags[f] = 4,
         NEW c \in Cores, OthersStay(c),
         NEW N, \A f \in N : InHand(f),
         ToSet(free') \subseteq ToSet(free) \cup N,
         ToSet(core'[c].reg) \subseteq ToSet(core[c].reg) \cup N,
         \A f \in N : \E kind, key : UsedAs(kind, key, f) /\ ~ UsedAs(kind, key, f)',
         N \cap ToSet(free') = {} \/ ToSet(core'[c].reg) = {}
  PROVE  /\ OneUse' /\ BootApart' /\ PagesOnce'
         /\ SectionFrames' = SectionFrames /\ TopFrames' = TopFrames /\ OwnPages' = OwnPages
<1>1. SectionFrames' = SectionFrames /\ TopFrames' = TopFrames /\ OwnPages' = OwnPages
  BY DEF SectionFrames, TopFrames, TopTables, OwnPages
<1>2. \A d \in Cores \ {c} : core'[d] = core[d]
  BY DEF OthersStay
<1>3. OldOr(N)
  <2>1. \A d \in Cores : ToSet(core'[d].reg) \subseteq ToSet(core[d].reg) \cup N
    BY <1>2
  <2> QED BY <1>1, <2>1 DEF OldOr
<1>4. ASSUME NEW f \in N, NEW kind, NEW key, Placed(kind, key, f)
      PROVE  \/ kind = "free" /\ key = 0 /\ f \in ToSet(free')
             \/ kind = "held" /\ key = c /\ f \in ToSet(core'[c].reg)
  <2>1. UsedAs(kind, key, f)' /\ ~ UsedAs(kind, key, f) /\ InHand(f)
    BY <1>4 DEF Placed
  <2>2. CASE kind = "free" /\ key = 0 /\ f \in ToSet(free')
    BY <2>2
  <2>3. CASE kind = "table" /\ key \in DOMAIN tables' /\ f = tables'[key]
    BY <2>1, <2>3 DEF UsedAs
  <2>4. CASE kind = "section" /\ key \in DOMAIN mappings' /\ f = mappings'[key] /\ f # None
    BY <2>1, <2>4 DEF UsedAs
  <2>5. CASE kind = "device" /\ key = 0 /\ f \in Frames /\ flags'[f] = 4
    BY <2>1, <2>5 DEF UsedAs
  <2>6. CASE kind = "held" /\ key \in Cores /\ f \in ToSet(core'[key].reg)
    <3>1. CASE key = c
      BY <2>6, <3>1
    <3>2. CASE key # c
      BY <1>2, <2>1, <2>6, <3>2 DEF UsedAs
    <3> QED BY <3>1, <3>2
  <2>7. CASE kind = "page" /\ key \in OwnPages' /\ f = pte'[key].frame
    BY <1>1, <2>1, <2>7 DEF UsedAs
  <2> QED BY <2>1, <2>2, <2>3, <2>4, <2>5, <2>6, <2>7 DEF UsedAs
<1>5. \A f \in N : \A kind, other, key, index :
        Placed(kind, key, f) /\ Placed(other, index, f) => kind = other /\ key = index
  BY <1>4
<1>6. \A f \in N : f \notin BootFrames
  BY InHandInNoPage
<1>7. OneUse' /\ BootApart'
  BY <1>3, <1>5, <1>6, FramesMove
<1>8. PagesOnce'
  BY <1>1 DEF PagesOnce
<1> QED BY <1>1, <1>7, <1>8

\* A core takes a frame from the free list.
LEMMA GetFrameFits ==
  ASSUME MemoryInv, FrameInv, NEW c \in Cores, GetFrame(c)
  PROVE  FrameInv'
<1>1. CASE Stop("frames")
  BY <1>1, StopFits
<1>2. CASE ~ Stop("frames")
  <2>1. /\ free # <<>> /\ MmAllocatePfn(1)
        /\ core' = [core EXCEPT ![c].pc = "find", ![c].reg = <<Head(free)>>]
        /\ UNCHANGED <<phase, tables, pte, sectionVars, stacks, threads, locks, history, stopped>>
    BY <1>2 DEF GetFrame
  <2>2. free \in Seq(Frames) /\ mappings \in Seq(Int) /\ ListsFit
    BY DEF FrameInv, ListsFit
  <2>3. PICK f : f = free[1]
    OBVIOUS
  <2>4. Head(free) = f /\ 1 \in 0 .. Len(free)
    BY <2>1, <2>2, <2>3, HeadTailProperties, EmptySeq, LenProperties
  <2>5. After(c, core[c].todo, "find", core[c].at, <<f>>) /\ phase' = "running"
    <3>1. phase = "running"
      BY AtCommand DEF GetFrame
    <3>2. core' = [core EXCEPT ![c].pc = "find", ![c].reg = <<f>>]
      BY <2>1, <2>4
    <3> QED BY <2>1, <3>1, <3>2, CoreAfter DEF MemoryInv
  <2>6. UNCHANGED <<tables, pte, mappings>>
    BY <2>1 DEF sectionVars
  <2>7. /\ free' \in Seq(Frames) /\ IsInjective(free') /\ ToSet(free') \subseteq ToSet(free)
        /\ UsedAs("free", 0, f) /\ f \notin ToSet(free')
        /\ \A g \in Frames : flags'[g] = 4 => flags[g] = 4
    BY <2>1, <2>2, <2>3, <2>4, AllocatedFrames
  <2>8. ToSet(<<f>>) = {f} /\ <<f>> \in Seq(ToSet(<<f>>)) /\ IsInjective(<<f>>) /\ <<f>> # <<>>
    BY DEF ToSet, IsInjective
  <2>9. OthersStay(c) /\ core'[c].reg = <<f>> /\ core'[c].pc = "find"
    BY <2>5 DEF After
  <2>10. InHand(f) /\ ~ UsedAs("free", 0, f)'
    <3>1. InHand(f)
      BY <2>7 DEF InHand
    <3>2. ~ UsedAs("free", 0, f)'
      BY <2>7 DEF UsedAs
    <3> QED BY <3>1, <3>2
  <2>11. /\ OneUse' /\ BootApart' /\ PagesOnce'
         /\ SectionFrames' = SectionFrames /\ TopFrames' = TopFrames
    <3> DEFINE N == {f}
    <3>1. \A g \in N : InHand(g) /\ \E kind, key : UsedAs(kind, key, g) /\ ~ UsedAs(kind, key, g)'
      BY <2>7, <2>10
    <3>2. N \cap ToSet(free') = {} /\ ToSet(core'[c].reg) = N
      BY <2>7, <2>8, <2>9
    <3> HIDE DEF N
    <3> QED BY <2>6, <2>7, <2>9, <3>1, <3>2, HandsMove DEF FrameInv
  <2>12. OtherGuardsStay(c)
    <3>1. KernelSame
      BY <2>6 DEF KernelSame, Mapped
    <3> QED BY <3>1, KernelSameGuards
  <2>13. RegFits(c)' /\ GuardOwned(c)'
    BY <2>8, <2>9 DEF RegFits, GuardOwned
  <2>14. mappings' \in Seq(Int)
    BY <2>2, <2>6
  <2> QED BY <2>5, <2>7, <2>9, <2>11, <2>12, <2>13, <2>14, CoreStepFits
<1> QED BY <1>1, <1>2

\* A block of pages gets frames of its own, and so do the outer pages of a stack.
LEMMA PagingAllocatePageBlockExFits ==
  ASSUME MemoryInv, FrameInv, NEW c \in Cores, PagingAllocatePageBlockEx(c)
  PROVE  FrameInv'
<1> DEFINE at == core[c].at
           n == PagesOf(Doing(c))
<1>1. /\ phase = "running" /\ core[c].todo # <<>> /\ Typed
      /\ Doing(c).do \in {"stack", "block"} /\ core[c].pc = "map"
  BY AtCommand DEF PagingAllocatePageBlockEx
<1>2. CASE Stop("address") \/ Stop("frames")
  BY <1>2, StopFits
<1>3. CASE ~ (Stop("address") \/ Stop("frames"))
  <2>1. /\ at # None /\ FreshBlock(Kernel, at, n)
        /\ IF Doing(c).do = "stack" THEN Goes(c, "guards") ELSE Finishes(c)
        /\ UNCHANGED <<phase, sectionVars>>
    BY <1>3 DEF PagingAllocatePageBlockEx
  <2>2. at \in Int /\ n \in Nat \ {0} /\ Doing(c).n \in Nat
    BY <1>1, Numbers
  <2>3. \A i \in 0 .. n - 1 : ~ Mapped(at + i)
    BY <1>1, <2>1 DEF MemoryInv, PlacesAreFree, Place
  <2>4. \/ Doing(c).do = "stack" /\ After(c, core[c].todo, "guards", at, core[c].reg)
        \/ After(c, Tail(core[c].todo), "start", None, <<>>)
    BY <1>1, <2>1, CoreAfter
  <2>5. mappings' = mappings /\ phase' = "running"
    BY <1>1, <2>1 DEF sectionVars
  <2>6. OthersStay(c) /\ RegsStay
    <3>1. core'[c].reg = core[c].reg \/ core'[c].reg = <<>>
      BY <2>4 DEF After
    <3>2. \A d \in Cores \ {c} : core'[d] = core[d]
      BY <2>4 DEF After, OthersStay
    <3> QED BY <3>1, <3>2 DEF RegsStay, OthersStay
  <2>7. MappingsStay
    BY <2>5 DEF MappingsStay
  <2> HIDE DEF at, n
  <2>8. Moved(Block(at, n)) /\ \A e \in Block(at, n) : Owned(e)'
    <3>1. n \in Nat
      BY <2>2
    <3> QED BY <2>1, <2>2, <2>6, <2>7, <3>1, FreshBlockMoves DEF FrameInv
  <2>9. KernelSame
    <3>1. ASSUME NEW v \in Int, Mapped(v) PROVE <<Kernel, v>> \notin Block(at, n)
      BY <2>3, <3>1 DEF Block
    <3> QED BY <2>8, <3>1 DEF KernelSame, Mapped, Moved
  <2>10. OtherGuardsStay(c)
    BY <2>9, KernelSameGuards
  <2>11. RegFits(c)'
    <3>1. <<>> \in Seq(ToSet(<<>>)) /\ IsInjective(<<>>)
      BY DEF IsInjective
    <3>2. core[c].reg \in Seq(ToSet(core[c].reg)) /\ IsInjective(core[c].reg)
      BY DEF FrameInv, RegFits
    <3>3. /\ core'[c].reg = core[c].reg \/ core'[c].reg = <<>>
          /\ core'[c].pc \notin {"find", "map"}
      BY <2>4 DEF After
    <3> QED BY <3>1, <3>2, <3>3 DEF RegFits, NeedsReg
  <2>12. GuardOwned(c)'
    <3>1. CASE Doing(c).do = "stack" /\ After(c, core[c].todo, "guards", at, core[c].reg)
      <4>1. core'[c].at = at /\ Doing(c)' = Doing(c)
        BY <3>1 DEF After, Doing
      <4>2. n = Doing(c).n + 2
        BY <3>1 DEF n, PagesOf
      <4>3. 0 \in 0 .. n - 1 /\ at + 0 = at
        BY <2>2
      <4>4. Doing(c).n + 1 \in 0 .. n - 1 /\ at + (Doing(c).n + 1) = at + Doing(c).n + 1
        BY <2>2, <4>2
      <4>5. <<Kernel, at>> \in Block(at, n)
        BY <4>3 DEF Block
      <4>6. <<Kernel, at + Doing(c).n + 1>> \in Block(at, n)
        BY <4>4 DEF Block
      <4>7. PICK e, d : e = <<Kernel, at>> /\ d = <<Kernel, at + Doing(c).n + 1>>
        OBVIOUS
      <4>8. Owned(e)' /\ Owned(d)'
        BY <2>8, <4>5, <4>6, <4>7
      <4>9. e \in OwnPages' /\ pte'[e].frame \notin BootFrames /\ d \in OwnPages' /\ pte'[d].frame \notin BootFrames
        BY <4>8 DEF Owned
      <4> QED BY <4>1, <4>7, <4>9 DEF GuardOwned, Owned
    <3>2. CASE After(c, Tail(core[c].todo), "start", None, <<>>)
      BY <3>2 DEF After, GuardOwned
    <3> QED BY <2>4, <3>1, <3>2
  <2>13. mappings' \in Seq(Int)
    BY <2>5 DEF FrameInv, ListsFit
  <2>14. /\ free' \in Seq(Frames) /\ IsInjective(free') /\ OneUse' /\ BootApart' /\ PagesOnce'
         /\ \A f \in SectionFrames' \cup TopFrames' : f \in SectionFrames \cup TopFrames \/ InHand(f)
    BY <2>8 DEF Moved
  <2> QED BY <2>5, <2>6, <2>10, <2>11, <2>12, <2>13, <2>14, CoreStepFits
<1> QED BY <1>2, <1>3

\* A frame that a core holds gets a page, and may become a top table.
LEMMA MapHeld ==
  ASSUME ListsFit, OneUse, BootApart, PagesOnce, mappings' = mappings,
         NEW c \in Cores, OthersStay(c), ToSet(core'[c].reg) = {},
         NEW f, UsedAs("held", c, f),
         NEW T, NEW needs \in Seq(T), Len(needs) <= Len(free), MmAllocatePfn(Len(needs)),
         NEW page, pte' = With(pte, [e \in {page} |-> Present(f, TRUE)]),
         NEW tops \in SUBSET {TopTable(p) : p \in Processes}, \A d, e \in tops : d = e,
         DOMAIN tables' = DOMAIN NewTables(needs) \cup tops,
         \A e \in tops : tables'[e] = f,
         \A e \in DOMAIN NewTables(needs) : e \notin tops => tables'[e] = NewTables(needs)[e]
  PROVE  /\ free' \in Seq(Frames) /\ IsInjective(free') /\ OneUse' /\ BootApart' /\ PagesOnce'
         /\ \A g \in SectionFrames' \cup TopFrames' : g \in SectionFrames \cup TopFrames \/ InHand(g)
<1> DEFINE n == Len(needs)
           Taken == {free[i] : i \in 1 .. n}
           Gone == {tables[d] : d \in tops \cap DOMAIN tables}
           N == {f} \cup Taken \cup Gone
<1>1. n \in 0 .. Len(free) /\ DOMAIN needs = 1 .. n
  BY LenProperties DEF ListsFit
<1>2. /\ free' \in Seq(Frames) /\ IsInjective(free') /\ ToSet(free') \subseteq ToSet(free)
      /\ \A i \in 1 .. n : /\ i \in DOMAIN free /\ free[i] \in Frames /\ UsedAs("free", 0, free[i])
                          /\ free[i] \notin ToSet(free')
      /\ \A i, j \in 1 .. n : free[i] = free[j] => i = j
      /\ \A g \in Frames : flags'[g] = 4 => flags[g] = 4
  BY <1>1, AllocatedFrames
<1>3. /\ \A e \in DOMAIN tables' : \/ e \in tops /\ tables'[e] = f
                                   \/ e \notin tops /\ e \in DOMAIN tables /\ tables'[e] = tables[e]
                                   \/ e \notin tops /\ \E i \in 1 .. n : needs[i] = e /\ tables'[e] = free[i]
      /\ \A e \in DOMAIN tables : e \in DOMAIN tables' /\ (e \notin tops => tables'[e] = tables[e])
      /\ \A e \in tops : e \in DOMAIN tables' /\ tables'[e] = f
  <2>1. /\ \A e \in DOMAIN NewTables(needs) :
              \/ e \in DOMAIN tables /\ NewTables(needs)[e] = tables[e]
              \/ \E i \in 1 .. n : needs[i] = e /\ IsTable(e) /\ NewTables(needs)[e] = free[i]
        /\ \A e \in DOMAIN tables : e \in DOMAIN NewTables(needs) /\ NewTables(needs)[e] = tables[e]
    BY <1>1, TablesMade
  <2>2. PICK t : t = NewTables(needs)
    OBVIOUS
  <2>3. /\ \A e \in DOMAIN t :
              (e \in DOMAIN tables /\ t[e] = tables[e]) \/ (\E i \in 1 .. n : needs[i] = e /\ t[e] = free[i])
        /\ \A e \in DOMAIN tables : e \in DOMAIN t /\ t[e] = tables[e]
    BY <2>1, <2>2
  <2>4. /\ DOMAIN tables' = DOMAIN t \cup tops /\ \A e \in tops : tables'[e] = f
        /\ \A e \in DOMAIN t : e \notin tops => tables'[e] = t[e]
    BY <2>2
  <2>5. ASSUME NEW e \in DOMAIN tables'
        PROVE  \/ e \in tops /\ tables'[e] = f
               \/ e \notin tops /\ e \in DOMAIN tables /\ tables'[e] = tables[e]
               \/ e \notin tops /\ \E i \in 1 .. n : needs[i] = e /\ tables'[e] = free[i]
    <3>1. CASE e \in tops
      BY <2>4, <3>1
    <3>2. CASE e \notin tops
      <4>1. e \in DOMAIN t /\ tables'[e] = t[e]
        BY <2>4, <3>2
      <4> QED BY <2>3, <3>2, <4>1
    <3> QED BY <3>1, <3>2
  <2> QED BY <2>3, <2>4, <2>5
<1>4. /\ page \in DOMAIN pte' /\ pte'[page].frame = f
      /\ \A e \in DOMAIN pte' : e = page \/ (e \in DOMAIN pte /\ pte'[e] = pte[e])
  BY DEF With, Present
<1>5. SectionFrames' = SectionFrames
  BY DEF SectionFrames
<1>6. \A d \in Cores \ {c} : core'[d] = core[d]
  BY DEF OthersStay
<1>7. ASSUME NEW i \in 1 .. n, NEW g, g = free[i]
      PROVE  UsedAs("free", 0, g) /\ g \notin ToSet(free') /\ InHand(g) /\ g # f
  <2>1. UsedAs("free", 0, g) /\ g \notin ToSet(free')
    BY <1>2, <1>7
  <2>2. InHand(g)
    BY <2>1 DEF InHand
  <2>3. g # f
    BY <2>1 DEF OneUse
  <2> QED BY <2>1, <2>2, <2>3
<1>8. InHand(f)
  BY DEF InHand
<1>9. ASSUME NEW d \in tops \cap DOMAIN tables, NEW g, g = tables[d]
      PROVE  UsedAs("table", d, g) /\ g # f /\ ~ InHand(g) /\ g \notin SectionFrames
  <2>1. UsedAs("table", d, g)
    BY <1>9 DEF UsedAs
  <2>2. ASSUME g \in SectionFrames PROVE FALSE
    <3>1. PICK i \in DOMAIN mappings : g = mappings[i] /\ g # None
      BY <2>2 DEF SectionFrames
    <3>2. UsedAs("section", i, g)
      BY <3>1 DEF UsedAs
    <3> QED BY <2>1, <3>2 DEF OneUse
  <2> QED BY <1>8, <2>1, <2>2 DEF OneUse, InHand
<1>10. TopFrames \subseteq TopFrames' \cup N
  <2>1. SUFFICES ASSUME NEW d \in TopTables PROVE tables[d] \in TopFrames' \cup N
    BY DEF TopFrames
  <2>2. d \in DOMAIN tables /\ d \in TopTables'
    BY <1>3 DEF TopTables
  <2>3. CASE d \in tops
    BY <2>2, <2>3
  <2>4. CASE d \notin tops
    <3>1. tables'[d] = tables[d]
      BY <1>3, <2>2, <2>4
    <3> QED BY <2>2, <3>1 DEF TopFrames
  <2> QED BY <2>3, <2>4
<1>11. OldOr(N)
  <2>1. \A e \in DOMAIN tables' : tables'[e] \in N \/ (e \in DOMAIN tables /\ tables'[e] = tables[e])
    BY <1>3
  <2>2. \A e \in DOMAIN pte' : pte'[e].frame \in N \/ (e \in DOMAIN pte /\ pte'[e] = pte[e])
    BY <1>4
  <2>3. \A d \in Cores : ToSet(core'[d].reg) \subseteq ToSet(core[d].reg)
    BY <1>6
  <2> HIDE DEF N
  <2> QED BY <1>2, <1>5, <1>10, <2>1, <2>2, <2>3 DEF OldOr
<1>12. ASSUME NEW g \in N, NEW kind, NEW key, Placed(kind, key, g)
       PROVE  \/ kind = "table" /\ key \in DOMAIN tables' /\ g = tables'[key]
                 /\ (key \in tops \/ \E i \in 1 .. n : needs[i] = key /\ g = free[i])
              \/ kind = "page" /\ key \in OwnPages' /\ g = pte'[key].frame
  <2>1. UsedAs(kind, key, g)' /\ ~ UsedAs(kind, key, g)
    BY <1>12 DEF Placed
  <2>2. CASE kind = "free" /\ key = 0 /\ g \in ToSet(free')
    BY <1>2, <2>1, <2>2 DEF UsedAs
  <2>3. CASE kind = "table" /\ key \in DOMAIN tables' /\ g = tables'[key]
    <3>1. ~ (key \in DOMAIN tables /\ g = tables[key])
      BY <2>1, <2>3 DEF UsedAs
    <3>2. \/ key \in tops
          \/ \E i \in 1 .. n : needs[i] = key /\ tables'[key] = free[i]
      BY <1>3, <2>3, <3>1
    <3> QED BY <2>3, <3>2
  <2>4. CASE kind = "section" /\ key \in DOMAIN mappings' /\ g = mappings'[key] /\ g # None
    BY <2>1, <2>4 DEF UsedAs
  <2>5. CASE kind = "device" /\ key = 0 /\ g \in Frames /\ flags'[g] = 4
    BY <1>2, <2>1, <2>5 DEF UsedAs
  <2>6. CASE kind = "held" /\ key \in Cores /\ g \in ToSet(core'[key].reg)
    BY <1>6, <2>1, <2>6 DEF UsedAs
  <2>7. CASE kind = "page" /\ key \in OwnPages' /\ g = pte'[key].frame
    BY <2>7
  <2> QED BY <2>1, <2>2, <2>3, <2>4, <2>5, <2>6, <2>7 DEF UsedAs
<1>13. ASSUME NEW g, NEW e \in OwnPages', g = pte'[e].frame
       PROVE  /\ g \notin TopFrames' /\ e \in DOMAIN pte' /\ pte'[e].present
              /\ e = page \/ (e \in DOMAIN pte /\ pte[e].present /\ pte[e].frame = g)
  BY <1>4, <1>13 DEF OwnPages, TopFrames
<1>14. ASSUME NEW g \in Taken, NEW kind, NEW key, Placed(kind, key, g)
       PROVE  kind = "table" /\ \E i \in 1 .. n : g = free[i] /\ key = needs[i]
  <2>1. PICK j \in 1 .. n : g = free[j]
    BY <1>14
  <2>2. g # f /\ InHand(g)
    BY <1>7, <2>1
  <2>3. CASE kind = "table" /\ key \in DOMAIN tables' /\ g = tables'[key]
             /\ (key \in tops \/ \E i \in 1 .. n : needs[i] = key /\ g = free[i])
    BY <1>3, <2>2, <2>3
  <2>4. CASE kind = "page" /\ key \in OwnPages' /\ g = pte'[key].frame
    BY <1>4, <1>13, <2>2, <2>4, InHandInNoPage
  <2> QED BY <1>12, <1>14, <2>3, <2>4
<1>15. ASSUME NEW kind, NEW key, Placed(kind, key, f)
       PROVE  IF tops = {} THEN kind = "page" /\ key = page ELSE kind = "table" /\ key \in tops
  <2>1. CASE kind = "table" /\ key \in DOMAIN tables' /\ f = tables'[key]
             /\ (key \in tops \/ \E i \in 1 .. n : needs[i] = key /\ f = free[i])
    <3>1. key \in tops
      BY <1>7, <2>1
    <3> QED BY <2>1, <3>1
  <2>2. CASE kind = "page" /\ key \in OwnPages' /\ f = pte'[key].frame
    <3>1. f \notin TopFrames' /\ (key = page \/ (key \in DOMAIN pte /\ pte[key].present /\ pte[key].frame = f))
      BY <1>13, <2>2
    <3>2. key = page
      BY <1>8, <3>1, InHandInNoPage
    <3>3. ASSUME NEW d \in tops PROVE FALSE
      <4>1. d \in TopTables' /\ tables'[d] = f
        BY <1>3 DEF TopTables
      <4> QED BY <3>1, <4>1 DEF TopFrames
    <3>4. tops = {}
      BY <3>3
    <3> QED BY <2>2, <3>2, <3>4
  <2> QED BY <1>12, <1>15, <2>1, <2>2
<1>16. ASSUME NEW g \in Gone, NEW kind, NEW key, Placed(kind, key, g)
       PROVE  kind = "page" /\ key \in DOMAIN pte /\ pte[key].present /\ pte[key].frame = g
  <2>1. g # f /\ ~ InHand(g)
    BY <1>9
  <2>2. CASE kind = "table" /\ key \in DOMAIN tables' /\ g = tables'[key]
             /\ (key \in tops \/ \E i \in 1 .. n : needs[i] = key /\ g = free[i])
    BY <1>3, <1>7, <2>1, <2>2
  <2>3. CASE kind = "page" /\ key \in OwnPages' /\ g = pte'[key].frame
    BY <1>4, <1>13, <2>1, <2>3
  <2> QED BY <1>12, <1>16, <2>2, <2>3
<1>17. \A g \in N : g \notin BootFrames /\ \E kind, key : UsedAs(kind, key, g) /\ ~ UsedAs(kind, key, g)'
  <2>1. ASSUME NEW i \in 1 .. n, NEW g, g = free[i]
        PROVE  g \notin BootFrames /\ \E kind, key : UsedAs(kind, key, g) /\ ~ UsedAs(kind, key, g)'
    <3>1. UsedAs("free", 0, g) /\ g \notin ToSet(free') /\ InHand(g)
      BY <1>7, <2>1
    <3>2. ~ UsedAs("free", 0, g)'
      BY <3>1 DEF UsedAs
    <3>3. g \notin BootFrames
      BY <3>1, InHandInNoPage
    <3> QED BY <3>1, <3>2, <3>3
  <2>2. f \notin BootFrames /\ UsedAs("held", c, f) /\ ~ UsedAs("held", c, f)'
    <3>1. f \notin BootFrames
      BY <1>8, InHandInNoPage
    <3>2. ~ UsedAs("held", c, f)'
      BY DEF UsedAs
    <3> QED BY <3>1, <3>2
  <2>3. ASSUME NEW d \in tops \cap DOMAIN tables, NEW g, g = tables[d]
        PROVE  g \notin BootFrames /\ \E kind, key : UsedAs(kind, key, g) /\ ~ UsedAs(kind, key, g)'
    <3>1. UsedAs("table", d, g) /\ g # f
      BY <1>9, <2>3
    <3>2. g \notin BootFrames
      BY <3>1 DEF BootApart
    <3>3. ~ UsedAs("table", d, g)'
      BY <1>3, <3>1 DEF UsedAs
    <3> QED BY <3>1, <3>2, <3>3
  <2> QED BY <2>1, <2>2, <2>3
<1>18. ASSUME NEW g \in N, NEW kind, NEW other, NEW key, NEW index,
              Placed(kind, key, g), Placed(other, index, g)
       PROVE  kind = other /\ key = index
  <2>1. CASE g \in Taken
    <3>1. PICK i \in 1 .. n : kind = "table" /\ g = free[i] /\ key = needs[i]
      BY <1>14, <1>18, <2>1
    <3>2. PICK j \in 1 .. n : other = "table" /\ g = free[j] /\ index = needs[j]
      BY <1>14, <1>18, <2>1
    <3>3. i = j
      BY <1>2, <3>1, <3>2
    <3> QED BY <3>1, <3>2, <3>3
  <2>2. CASE g = f
    BY <1>15, <1>18, <2>2
  <2>3. CASE g \in Gone
    <3>1. /\ kind = "page" /\ key \in DOMAIN pte /\ pte[key].present /\ pte[key].frame = g
          /\ other = "page" /\ index \in DOMAIN pte /\ pte[index].present /\ pte[index].frame = g
      BY <1>16, <1>18, <2>3
    <3>2. g \notin SectionFrames
      BY <1>9, <2>3
    <3> QED BY <3>1, <3>2 DEF PagesOnce
  <2> QED BY <2>1, <2>2, <2>3
<1>19. OneUse' /\ BootApart'
  <2> HIDE DEF N
  <2> QED BY <1>11, <1>17, <1>18, FramesMove
<1>20. PagesOnce'
  <2> DEFINE M == {f}
  <2>1. \A g \in M : InHand(g)
    BY <1>8
  <2>2. \A e \in DOMAIN pte' : pte'[e].present =>
          pte'[e].frame \in M \cup SectionFrames' \/ (e \in DOMAIN pte /\ pte'[e] = pte[e])
    BY <1>4
  <2>3. ASSUME NEW e \in DOMAIN pte', pte'[e].present, pte'[e].frame \in M PROVE e = page
    <3>1. CASE e \in DOMAIN pte /\ pte'[e] = pte[e]
      BY <1>8, <2>3, <3>1, InHandInNoPage
    <3> QED BY <1>4, <3>1
  <2>4. \A e, d \in DOMAIN pte' :
          pte'[e].present /\ pte'[d].present /\ pte'[e].frame = pte'[d].frame
            /\ pte'[e].frame \in M => e = d
    BY <2>3
  <2> HIDE DEF M
  <2> QED BY <1>5, <2>1, <2>2, <2>4, PagesMove
<1>21. ASSUME NEW g \in SectionFrames' \cup TopFrames' PROVE g \in SectionFrames \cup TopFrames \/ InHand(g)
  <2>1. CASE g \in SectionFrames'
    BY <1>5, <2>1
  <2>2. CASE g \in TopFrames'
    <3>1. PICK d \in TopTables' : g = tables'[d]
      BY <2>2 DEF TopFrames
    <3>2. d \in DOMAIN tables' /\ d \in {TopTable(p) : p \in Processes}
      BY DEF TopTables
    <3>3. CASE d \in DOMAIN tables /\ tables'[d] = tables[d]
      BY <3>1, <3>2, <3>3 DEF TopTables, TopFrames
    <3>4. CASE \E i \in 1 .. n : tables'[d] = free[i]
      BY <1>7, <3>1, <3>4
    <3>5. CASE tables'[d] = f
      BY <1>8, <3>1, <3>5
    <3> QED BY <1>3, <3>2, <3>3, <3>4, <3>5
  <2> QED BY <1>21, <2>1, <2>2
<1> QED BY <1>2, <1>19, <1>20, <1>21

\* The page of a thread's stack, or the kernel's page for a top table.
LEMMA PagingAllocatePageWithPhysicalAddressFits ==
  ASSUME MemoryInv, FrameInv, NEW c \in Cores, PagingAllocatePageWithPhysicalAddress(c)
  PROVE  FrameInv'
<1> DEFINE at == core[c].at
           p == Doing(c).p
           f == Head(core[c].reg)
           space == Space(p, at)
           needs == Needs(space, <<at>>, FALSE)
           page == <<space, at>>
<1>1. /\ phase = "running" /\ core[c].todo # <<>> /\ Typed /\ p \in Processes
      /\ Doing(c).do \in {"space", "thread"} /\ core[c].pc = "map"
  BY AtCommand DEF PagingAllocatePageWithPhysicalAddress
<1>2. CASE Stop("address") \/ Stop("frames")
  BY <1>2, StopFits
<1>3. CASE ~ (Stop("address") \/ Stop("frames"))
  <2>1. /\ at # None /\ ~ Exhausts(p, <<at>>, FALSE) /\ MmAllocatePfn(Len(needs))
        /\ tables' = IF Doing(c).do = "space" THEN With(NewTables(needs), [e \in {TopTable(p)} |-> f])
                     ELSE NewTables(needs)
        /\ pte' = With(pte, [e \in {page} |-> Present(f, TRUE)])
        /\ Finishes(c)
        /\ UNCHANGED <<phase, sectionVars>>
    <3>1. PICK q, place, frame :
            /\ q = p /\ place = at /\ frame = f
            /\ \/ /\ place # None /\ ~Exhausts(q, <<place>>, FALSE)
                  /\ \E list \in {Needs(Space(q, place), <<place>>, FALSE)} :
                       /\ MmAllocatePfn(Len(list))
                       /\ tables' = IF Doing(c).do = "space"
                                    THEN With(NewTables(list), [e \in {TopTable(q)} |-> frame])
                                    ELSE NewTables(list)
                       /\ pte' = With(pte, [e \in {<<Space(q, place), place>>} |-> Present(frame, TRUE)])
                  /\ Finishes(c)
                  /\ UNCHANGED <<phase, sectionVars, stacks, history, stopped>>
               \/ Stop("address")
               \/ Stop("frames")
      BY Zenon DEF PagingAllocatePageWithPhysicalAddress
    <3> QED BY <1>3, <3>1
  <2>2. at \in Int /\ Place(c)
    BY <1>1, Numbers DEF MemoryInv, PlacesAreFree
  <2>3. core[c].reg \in Seq(ToSet(core[c].reg)) /\ core[c].reg # <<>>
    BY <1>1 DEF FrameInv, RegFits, NeedsReg
  <2>4. UsedAs("held", c, f)
    <3>1. f \in ToSet(core[c].reg)
      BY <2>3, HeadTailProperties
    <3> QED BY <3>1 DEF UsedAs
  <2>5. After(c, Tail(core[c].todo), "start", None, <<>>) /\ phase' = "running" /\ mappings' = mappings
    BY <1>1, <2>1, CoreAfter DEF sectionVars
  <2>6. /\ OthersStay(c) /\ core'[c].reg = <<>> /\ ToSet(core'[c].reg) = {} /\ core'[c].pc = "start"
    BY <2>5 DEF After, ToSet
  <2>7. needs \in Seq(NeedsOf(space)) /\ Len(needs) <= Len(free)
    <3>1. <<at>> \in Seq(Int) /\ Head(<<at>>) = at
      BY <2>2
    <3>2. needs \in Seq(NeedsOf(space))
      <4> HIDE DEF space, at
      <4> QED BY <3>1, NeedsProperties
    <3>3. Len(needs) \in Nat /\ Len(free) \in Nat
      BY <3>2, LenProperties DEF FrameInv, ListsFit
    <3>4. ~ (Len(needs) > Len(free))
      <4>1. Head(<<at>>) = at
        BY <3>1
      <4> HIDE DEF at, p
      <4> QED BY <2>1, <4>1 DEF Exhausts
    <3>5. \A x, y \in Nat : ~ (x > y) => x <= y
      OBVIOUS
    <3> HIDE DEF needs, space
    <3> QED BY <3>2, <3>3, <3>4, <3>5
  <2> DEFINE tops == IF Doing(c).do = "space" THEN {TopTable(p)} ELSE {}
  <2>8. /\ tops \in SUBSET {TopTable(q) : q \in Processes} /\ \A d, e \in tops : d = e
    BY <1>1
  <2>9. /\ DOMAIN tables' = DOMAIN NewTables(needs) \cup tops
        /\ \A e \in tops : tables'[e] = f
        /\ \A e \in DOMAIN NewTables(needs) : e \notin tops => tables'[e] = NewTables(needs)[e]
    <3>1. PICK t : t = NewTables(needs)
      OBVIOUS
    <3>2. tables' = IF Doing(c).do = "space" THEN With(t, [e \in {TopTable(p)} |-> f]) ELSE t
      BY <2>1, <3>1
    <3> HIDE DEF f, p, needs
    <3> QED BY <3>1, <3>2 DEF With
  <2>10. \A v \in Int : Mapped(v) => <<Kernel, v>> # page
    <3>1. CASE Doing(c).do = "thread"
      <4>1. at \in 0 .. UserEnd - 1
        BY <2>1, <2>2, <3>1 DEF Place
      <4>2. UserEnd \in Nat /\ KernelStart \in Nat /\ UserEnd < KernelStart
        BY MemoryAssumption
      <4>3. ~ at >= KernelStart
        BY <4>1, <4>2
      <4>4. space = p /\ p # Kernel
        BY <1>1, <4>3, SpacesDiffer DEF Space
      <4> QED BY <4>4
    <3>2. CASE Doing(c).do = "space"
      <4>1. PagesOf(Doing(c)) = 1
        BY <3>2 DEF PagesOf
      <4>2. \A i \in 0 .. PagesOf(Doing(c)) - 1 : ~ Mapped(at + i)
        BY <2>1, <2>2, <3>2 DEF Place
      <4>3. ~ Mapped(at + 0) /\ at + 0 = at
        BY <2>2, <4>1, <4>2
      <4> HIDE DEF at
      <4> QED BY <4>3
    <3> QED BY <1>1, <3>1, <3>2
  <2>11. KernelSame
    <3> HIDE DEF page, f
    <3> QED BY <2>1, <2>10 DEF KernelSame, Mapped, With
  <2>12. OtherGuardsStay(c)
    BY <2>11, KernelSameGuards
  <2>13. RegFits(c)' /\ GuardOwned(c)'
    <3>1. <<>> \in Seq(ToSet(<<>>)) /\ IsInjective(<<>>)
      BY DEF IsInjective
    <3> QED BY <2>6, <3>1 DEF RegFits, NeedsReg, GuardOwned
  <2>14. mappings' \in Seq(Int)
    BY <2>5 DEF FrameInv, ListsFit
  <2> HIDE DEF needs, page, f, tops, space
  <2>15. /\ free' \in Seq(Frames) /\ IsInjective(free') /\ OneUse' /\ BootApart' /\ PagesOnce'
         /\ \A g \in SectionFrames' \cup TopFrames' : g \in SectionFrames \cup TopFrames \/ InHand(g)
    BY <2>1, <2>4, <2>5, <2>6, <2>7, <2>8, <2>9, MapHeld DEF FrameInv
  <2> QED BY <2>5, <2>6, <2>12, <2>13, <2>14, <2>15, CoreStepFits
<1> QED BY <1>2, <1>3

\* The outer pages of a stack become guards, and the core holds their frames.
LEMMA PspCreateKernelStackFits ==
  ASSUME MemoryInv, FrameInv, NEW c \in Cores, PspCreateKernelStack(c)
  PROVE  FrameInv'
<1>1. /\ phase = "running" /\ core[c].todo # <<>> /\ Typed /\ core[c].pc = "guards"
  BY AtCommand DEF PspCreateKernelStack
<1>2. PICK at, n : at = core[c].at /\ n = Doing(c).n
  OBVIOUS
<1>3. /\ pte' = GuardEntries(at, n)
      /\ core' = [core EXCEPT ![c].pc = "free", ![c].reg = GuardFrames(at, n)]
      /\ UNCHANGED <<phase, free, flags, tables, mappings>>
  BY <1>2 DEF PspCreateKernelStack, frameVars, sectionVars
<1>4. at \in Int /\ n \in Nat
  BY <1>1, <1>2, Numbers
<1>5. PICK d, e : d = <<Kernel, at>> /\ e = <<Kernel, at + n + 1>>
  OBVIOUS
<1>6. d # e /\ Owned(d) /\ Owned(e)
  <2>1. at # at + n + 1
    BY <1>4
  <2>2. GuardOwned(c)
    BY DEF FrameInv
  <2> QED BY <1>1, <1>2, <1>5, <2>1, <2>2 DEF GuardOwned
<1>7. PICK f, g : f = pte[d].frame /\ g = pte[e].frame
  OBVIOUS
<1>8. UsedAs("page", d, f) /\ UsedAs("page", e, g) /\ f # g /\ f \notin BootFrames /\ g \notin BootFrames
  <2>1. UsedAs("page", d, f) /\ UsedAs("page", e, g) /\ f \notin BootFrames /\ g \notin BootFrames
    BY <1>6, <1>7 DEF Owned, UsedAs
  <2> QED BY <1>6, <2>1 DEF FrameInv, OneUse
<1>9. ToSet(Guards(at, n)) = {d, e}
  BY <1>5 DEF Guards, ToSet
<1>10. /\ DOMAIN pte' = DOMAIN pte /\ ~ pte'[d].present /\ ~ pte'[e].present
       /\ \A x \in DOMAIN pte : x \notin {d, e} => pte'[x] = pte[x]
  <2>1. pte' = With(pte, [x \in {d, e} |-> GuardEntry])
    BY <1>3, <1>9 DEF GuardEntries
  <2>2. d \in DOMAIN pte /\ e \in DOMAIN pte
    BY <1>6 DEF Owned, OwnPages
  <2>3. ~ GuardEntry.present
    BY DEF GuardEntry
  <2> QED BY <2>1, <2>2, <2>3 DEF With
<1>11. GuardFrames(at, n) = [i \in 1 .. 2 |-> IF i = 1 THEN f ELSE g]
  <2>1. \A i \in 1 .. 2 : pte[Guards(at, n)[i]].frame = IF i = 1 THEN f ELSE g
    <3>1. Guards(at, n)[1] = d /\ Guards(at, n)[2] = e
      BY <1>5 DEF Guards
    <3>2. \A i \in 1 .. 2 : i = 1 \/ i = 2
      OBVIOUS
    <3> QED BY <1>7, <3>1, <3>2
  <2> QED BY <2>1 DEF GuardFrames
<1>12. PICK reg : reg = GuardFrames(at, n)
  OBVIOUS
<1>13. ToSet(reg) = {f, g} /\ reg \in Seq(ToSet(reg)) /\ IsInjective(reg)
  <2>1. reg \in [1 .. 2 -> {f, g}] /\ reg[1] = f /\ reg[2] = g /\ DOMAIN reg = 1 .. 2
    BY <1>11, <1>12
  <2>2. reg \in Seq({f, g})
    BY <2>1, FunctionsAreSequences
  <2>3. ToSet(reg) = {f, g}
    BY <2>1 DEF ToSet
  <2>4. IsInjective(reg)
    BY <1>8, <2>1 DEF IsInjective
  <2> QED BY <2>2, <2>3, <2>4
<1>14. After(c, core[c].todo, "free", at, reg)
  BY <1>1, <1>2, <1>3, <1>12, CoreAfter
<1>15. /\ OthersStay(c) /\ core'[c].reg = reg /\ core'[c].pc = "free"
       /\ \A k \in Cores \ {c} : core'[k] = core[k]
  BY <1>14 DEF After, OthersStay
<1>16. SectionFrames' = SectionFrames /\ TopFrames' = TopFrames
  BY <1>3 DEF SectionFrames, TopFrames, TopTables
<1> DEFINE N == {f, g}
<1>17. OldOr(N)
  <2>1. \A k \in Cores : ToSet(core'[k].reg) \subseteq ToSet(core[k].reg) \cup N
    BY <1>13, <1>15
  <2>2. \A x \in DOMAIN pte' : pte'[x].present => x \in DOMAIN pte /\ pte'[x] = pte[x]
    BY <1>10
  <2> HIDE DEF N
  <2> QED BY <1>3, <1>16, <2>1, <2>2 DEF OldOr
<1>18. ASSUME NEW h \in N, NEW kind, NEW key, Placed(kind, key, h)
       PROVE  kind = "held" /\ key = c
  <2>1. UsedAs(kind, key, h)' /\ ~ UsedAs(kind, key, h)
    BY <1>18 DEF Placed
  <2>2. CASE kind = "free" /\ key = 0 /\ h \in ToSet(free')
    BY <1>3, <2>1, <2>2 DEF UsedAs
  <2>3. CASE kind = "table" /\ key \in DOMAIN tables' /\ h = tables'[key]
    BY <1>3, <2>1, <2>3 DEF UsedAs
  <2>4. CASE kind = "section" /\ key \in DOMAIN mappings' /\ h = mappings'[key] /\ h # None
    BY <1>3, <2>1, <2>4 DEF UsedAs
  <2>5. CASE kind = "device" /\ key = 0 /\ h \in Frames /\ flags'[h] = 4
    BY <1>3, <2>1, <2>5 DEF UsedAs
  <2>6. CASE kind = "held" /\ key \in Cores /\ h \in ToSet(core'[key].reg)
    BY <1>15, <2>1, <2>6 DEF UsedAs
  <2>7. CASE kind = "page" /\ key \in OwnPages' /\ h = pte'[key].frame
    <3>1. key \in DOMAIN pte' /\ pte'[key].present /\ h \notin SectionFrames' \cup TopFrames'
      BY <2>7 DEF OwnPages, TopFrames
    <3>2. key \in DOMAIN pte /\ pte'[key] = pte[key]
      BY <1>10, <3>1
    <3>3. key \in OwnPages /\ h = pte[key].frame
      BY <1>16, <2>7, <3>1, <3>2 DEF OwnPages, TopFrames
    <3> QED BY <2>1, <2>7, <3>3 DEF UsedAs
  <2> QED BY <2>1, <2>2, <2>3, <2>4, <2>5, <2>6, <2>7 DEF UsedAs
<1>19. ~ UsedAs("page", d, f)' /\ ~ UsedAs("page", e, g)'
  BY <1>10 DEF UsedAs, OwnPages
<1>20. OneUse' /\ BootApart'
  <2>1. \A h \in N : h \notin BootFrames /\ \E kind, key : UsedAs(kind, key, h) /\ ~ UsedAs(kind, key, h)'
    BY <1>8, <1>19
  <2>2. \A h \in N : \A kind, other, key, index :
          Placed(kind, key, h) /\ Placed(other, index, h) => kind = other /\ key = index
    BY <1>18
  <2> HIDE DEF N
  <2> QED BY <1>17, <2>1, <2>2, FramesMove DEF FrameInv
<1>21. PagesOnce'
  BY <1>10, <1>16 DEF FrameInv, PagesOnce
<1>22. OtherGuardsStay(c)
  <2>1. SUFFICES ASSUME NEW k \in Cores \ {c}, core[k].pc = "guards",
                        NEW v \in {core[k].at, core[k].at + Doing(k).n + 1}
                 PROVE  <<Kernel, v>> \in DOMAIN pte' /\ pte'[<<Kernel, v>>] = pte[<<Kernel, v>>]
    BY DEF OtherGuardsStay
  <2>2. core[k].at \in Int /\ Doing(k).n \in Nat
    BY <2>1, Numbers
  <2>3. Apart(StackOf(c), StackOf(k))
    BY <1>1, <2>1 DEF MemoryInv, StacksApart, MakesStack
  <2>4. at + n + 1 < core[k].at \/ core[k].at + Doing(k).n + 1 < at
    BY <1>2, <2>3 DEF Apart, StackOf
  <2>5. v # at /\ v # at + n + 1
    BY <1>4, <2>1, <2>2, <2>4
  <2>6. <<Kernel, v>> \notin {d, e}
    BY <1>5, <2>5
  <2>7. Owned(<<Kernel, v>>)
    BY <2>1 DEF FrameInv, GuardOwned
  <2>8. <<Kernel, v>> \in DOMAIN pte
    BY <2>7 DEF Owned, OwnPages
  <2> QED BY <1>10, <2>6, <2>8
<1>23. RegFits(c)' /\ GuardOwned(c)'
  BY <1>13, <1>15 DEF RegFits, NeedsReg, GuardOwned
<1>24. free' \in Seq(Frames) /\ IsInjective(free') /\ mappings' \in Seq(Int) /\ phase' = "running"
  BY <1>1, <1>3 DEF FrameInv, ListsFit
<1> QED BY <1>15, <1>16, <1>20, <1>21, <1>22, <1>23, <1>24, CoreStepFits

\* The frames of a stack's guards go back to the free list.
LEMMA FreeGuardsFits ==
  ASSUME MemoryInv, FrameInv, NEW c \in Cores, FreeGuards(c)
  PROVE  FrameInv'
<1>1. /\ phase = "running" /\ core[c].todo # <<>> /\ Typed
  BY AtCommand DEF FreeGuards
<1>2. /\ MmFreePfn(core[c].reg) /\ Finishes(c)
      /\ UNCHANGED <<phase, tables, pte, mappings>>
  BY DEF FreeGuards, sectionVars
<1>3. PICK reg : reg = core[c].reg
  OBVIOUS
<1>4. reg \in Seq(ToSet(reg)) /\ IsInjective(reg)
  BY <1>3 DEF FrameInv, RegFits
<1>5. PICK set : Freed(reg) = Among(reg, set) /\ set \subseteq Frames \ ToSet(free)
  BY DEF Freed
<1>6. PICK back : back = Freed(reg)
  OBVIOUS
<1>7. /\ back \in Seq(ToSet(reg)) /\ ToSet(back) = ToSet(reg) \cap set /\ IsInjective(back)
  BY <1>4, <1>5, <1>6, AmongProperties
<1>8. free' = free \o back /\ flags' = flags
  BY <1>2, <1>3, <1>6 DEF MmFreePfn
<1>9. free \in Seq(Frames) /\ IsInjective(free)
  BY DEF FrameInv, ListsFit
<1>10. back \in Seq(Frames)
  <2>1. \A i \in 1 .. Len(back) : back[i] \in Frames
    BY <1>5, <1>7 DEF ToSet
  <2> QED BY <1>7, <2>1
<1>11. /\ free \o back \in Seq(Frames) /\ IsInjective(free \o back)
       /\ ToSet(free \o back) = ToSet(free) \cup ToSet(back)
  <2>1. /\ free \o back \in Seq(Frames) /\ Len(free \o back) = Len(free) + Len(back)
        /\ Len(free) \in Nat /\ Len(back) \in Nat
        /\ \A i \in 1 .. Len(free) + Len(back) :
             (free \o back)[i] = IF i <= Len(free) THEN free[i] ELSE back[i - Len(free)]
    BY <1>9, <1>10, ConcatProperties, LenProperties
  <2>2. /\ DOMAIN free = 1 .. Len(free) /\ DOMAIN back = 1 .. Len(back)
        /\ DOMAIN (free \o back) = 1 .. Len(free) + Len(back)
    BY <1>9, <1>10, <2>1, LenProperties
  <2>3. \A i \in DOMAIN free : \A j \in DOMAIN back : free[i] # back[j]
    BY <1>5, <1>7 DEF ToSet
  <2>4. PICK r, l, m : r = free \o back /\ l = Len(free) /\ m = Len(back)
    OBVIOUS
  <2>5. /\ l \in Nat /\ m \in Nat /\ DOMAIN r = 1 .. l + m /\ DOMAIN free = 1 .. l /\ DOMAIN back = 1 .. m
        /\ \A i \in 1 .. l + m : r[i] = IF i <= l THEN free[i] ELSE back[i - l]
    BY <2>1, <2>2, <2>4
  <2>6. \A i \in 1 .. l + m : (i <= l /\ i \in 1 .. l) \/ (~ (i <= l) /\ i - l \in 1 .. m)
    BY <2>5
  <2>7. IsInjective(r)
    <3>1. SUFFICES ASSUME NEW i \in 1 .. l + m, NEW j \in 1 .. l + m, r[i] = r[j] PROVE i = j
      BY <2>5 DEF IsInjective
    <3>2. CASE i <= l /\ j <= l
      BY <1>9, <2>5, <2>6, <3>1, <3>2 DEF IsInjective
    <3>3. CASE ~ (i <= l) /\ ~ (j <= l)
      <4>1. back[i - l] = back[j - l] /\ i - l \in 1 .. m /\ j - l \in 1 .. m
        BY <2>5, <2>6, <3>1, <3>3
      <4>2. i - l = j - l
        BY <1>7, <2>5, <4>1 DEF IsInjective
      <4> QED BY <2>5, <4>2
    <3>4. CASE (i <= l /\ ~ (j <= l)) \/ (~ (i <= l) /\ j <= l)
      BY <2>3, <2>5, <2>6, <3>1, <3>4
    <3> QED BY <3>2, <3>3, <3>4
  <2>8. ToSet(r) = ToSet(free) \cup ToSet(back)
    <3>1. \A i \in 1 .. l : i \in 1 .. l + m /\ i <= l
      BY <2>5
    <3>2. \A j \in 1 .. m : j + l \in 1 .. l + m /\ ~ (j + l <= l) /\ (j + l) - l = j
      BY <2>5
    <3>3. \A i \in 1 .. l : r[i] = free[i] /\ i \in 1 .. l + m
      BY <2>5, <3>1
    <3>4. \A j \in 1 .. m : r[j + l] = back[j] /\ j + l \in 1 .. l + m
      BY <2>5, <3>2
    <3>5. \A i \in 1 .. l + m : (i \in 1 .. l /\ r[i] = free[i]) \/ (i - l \in 1 .. m /\ r[i] = back[i - l])
      BY <2>5, <2>6
    <3>6. /\ ToSet(r) = {r[i] : i \in 1 .. l + m} /\ ToSet(free) = {free[i] : i \in 1 .. l}
          /\ ToSet(back) = {back[i] : i \in 1 .. m}
      BY <2>5 DEF ToSet
    <3>7. ASSUME NEW x \in ToSet(r) PROVE x \in ToSet(free) \cup ToSet(back)
      BY <3>5, <3>6
    <3>8. \A x \in ToSet(free) : x \in ToSet(r)
      BY <3>3, <3>6
    <3>9. \A x \in ToSet(back) : x \in ToSet(r)
      BY <3>4, <3>6
    <3> QED BY <3>7, <3>8, <3>9
  <2> QED BY <2>1, <2>4, <2>7, <2>8
<1>12. After(c, Tail(core[c].todo), "start", None, <<>>) /\ phase' = "running"
  BY <1>1, <1>2, CoreAfter
<1>13. OthersStay(c) /\ core'[c].reg = <<>> /\ ToSet(core'[c].reg) = {} /\ core'[c].pc = "start"
  BY <1>12 DEF After, ToSet
<1>14. /\ OneUse' /\ BootApart' /\ PagesOnce'
       /\ SectionFrames' = SectionFrames /\ TopFrames' = TopFrames
  <2> DEFINE N == ToSet(reg)
  <2>1. ASSUME NEW f \in N
        PROVE  InHand(f) /\ \E kind, key : UsedAs(kind, key, f) /\ ~ UsedAs(kind, key, f)'
    <3>1. UsedAs("held", c, f)
      BY <1>3 DEF UsedAs
    <3>2. ~ UsedAs("held", c, f)'
      BY <1>13 DEF UsedAs
    <3>3. InHand(f)
      BY <3>1 DEF InHand
    <3> QED BY <3>1, <3>2, <3>3
  <2>2. ToSet(free') \subseteq ToSet(free) \cup N
    BY <1>7, <1>8, <1>11
  <2>3. \A f \in Frames : flags'[f] = 4 => flags[f] = 4
    BY <1>8
  <2>4. ToSet(core'[c].reg) \subseteq ToSet(core[c].reg) \cup N
    BY <1>13
  <2> HIDE DEF N
  <2> QED BY <1>2, <1>13, <2>1, <2>2, <2>3, <2>4, HandsMove DEF FrameInv
<1>15. OtherGuardsStay(c)
  <2>1. KernelSame
    BY <1>2 DEF KernelSame, Mapped
  <2> QED BY <2>1, KernelSameGuards
<1>16. RegFits(c)' /\ GuardOwned(c)'
  <2>1. <<>> \in Seq(ToSet(<<>>)) /\ IsInjective(<<>>)
    BY DEF IsInjective
  <2> QED BY <1>13, <2>1 DEF RegFits, NeedsReg, GuardOwned
<1>17. mappings' \in Seq(Int) /\ free' \in Seq(Frames) /\ IsInjective(free')
  BY <1>2, <1>8, <1>11 DEF FrameInv, ListsFit
<1> QED BY <1>12, <1>13, <1>14, <1>15, <1>16, <1>17, CoreStepFits

\* A core that has ended its command holds nothing.
LEMMA DoneFits ==
  ASSUME NEW c \in Cores, NEW todo, NEW at, After(c, todo, "start", at, <<>>)
  PROVE  OthersStay(c) /\ RegsStay /\ RegFits(c)' /\ GuardOwned(c)'
<1>1. OthersStay(c) /\ core'[c].reg = <<>> /\ core'[c].pc = "start"
  BY DEF After
<1>2. <<>> \in Seq(ToSet(<<>>)) /\ IsInjective(<<>>)
  BY DEF IsInjective
<1>3. RegsStay
  <2>1. \A d \in Cores \ {c} : core'[d] = core[d]
    BY <1>1 DEF OthersStay
  <2> QED BY <1>1, <2>1 DEF RegsStay
<1>4. RegFits(c)' /\ GuardOwned(c)'
  BY <1>1, <1>2 DEF RegFits, NeedsReg, GuardOwned
<1> QED BY <1>1, <1>3, <1>4

\* The numbers of a view.
LEMMA ViewNumbers ==
  ASSUME mappings \in Seq(Int), NEW p, NEW n \in 0 .. Len(ImageSections)
  PROVE  /\ View(p, n).p = p /\ View(p, n).base \in Int
         /\ View(p, n).pages \in Nat /\ View(p, n).start \in Nat
<1>1. Len(mappings) \in Nat
  BY LenProperties
<1>2. InitialView \in Nat /\ ImageBase \in Nat
      /\ ImageSections \in Seq([first : Nat, pages : Nat \ {0}, offset : Nat, write : BOOLEAN])
  BY MemoryAssumption
<1>3. CASE n = 0
  BY <1>1, <1>2, <1>3 DEF View
<1>4. CASE n # 0
  <2>1. n \in 1 .. Len(ImageSections)
    BY <1>2, <1>4, LenProperties
  <2>2. ImageSections[n] \in [first : Nat, pages : Nat \ {0}, offset : Nat, write : BOOLEAN]
    BY <1>2, <2>1, ElementOfSeq
  <2>3. ImageSections[n].first \in Nat /\ ImageSections[n].pages \in Nat
    BY <2>2
  <2>4. /\ View(p, n).p = p /\ View(p, n).base = ImageBase + ImageSections[n].first
        /\ View(p, n).pages = ImageSections[n].pages /\ View(p, n).start = ImageSections[n].first
    BY <1>4 DEF View
  <2> QED BY <1>2, <2>3, <2>4
<1> QED BY <1>3, <1>4

\* The section only gets longer.
LEMMA SectionGrows ==
  ASSUME mappings \in Seq(Int), NEW view, view.start \in Nat, view.pages \in Nat,
         mappings' = MiResizeSection(view)
  PROVE  mappings' \in Seq(Int) /\ MappingsStay
<1>1. /\ Len(mappings) \in Nat /\ DOMAIN mappings = 1 .. Len(mappings)
      /\ \A i \in 1 .. Len(mappings) : mappings[i] \in Int
  BY LenProperties, ElementOfSeq
<1> DEFINE m == IF Len(mappings) <= view.start + view.pages THEN view.start + view.pages ELSE Len(mappings)
<1>2. m \in Nat /\ 1 .. Len(mappings) \cup 1 .. view.start + view.pages = 1 .. m
  BY <1>1
<1>3. mappings' = [i \in 1 .. m |-> IF i <= Len(mappings) THEN mappings[i] ELSE None]
  BY <1>2 DEF MiResizeSection
<1>4. \A i \in 1 .. m : i <= Len(mappings) => i \in 1 .. Len(mappings)
  BY <1>1, <1>2
<1>5. mappings' \in [1 .. m -> Int]
  <2>1. None \in Int
    BY DEF None
  <2> HIDE DEF m
  <2> QED BY <1>1, <1>3, <1>4, <2>1
<1>6. MappingsStay
  <2>1. \A i \in 1 .. Len(mappings) : i \in 1 .. m /\ i <= Len(mappings)
    BY <1>1, <1>2
  <2> HIDE DEF m
  <2> QED BY <1>1, <1>3, <1>4, <2>1 DEF MappingsStay
<1> HIDE DEF m
<1> QED BY <1>2, <1>5, <1>6, FunctionsAreSequences

\* A view shows pages of the section, and takes frames for tables only.
LEMMA MmCreateViewFits ==
  ASSUME MemoryInv, FrameInv, NEW c \in Cores, MmCreateView(c)
  PROVE  FrameInv'
<1> DEFINE p == Doing(c).p
           view == View(p, Doing(c).n)
           needs == Needs(view.p, ViewPages(view), FALSE)
           entries == ViewEntries(view)
<1>1. /\ Typed /\ phase = "running" /\ core[c].todo # <<>> /\ p \in Processes
      /\ Doing(c).do = "view" /\ Doing(c) \in Commands
  BY AtCommand DEF MmCreateView
<1>2. CASE Stop("conflict") \/ Stop("frames")
  BY <1>2, StopFits
<1>3. CASE ~ (Stop("conflict") \/ Stop("frames"))
  <2>1. /\ PagingMapPage(needs, entries) /\ mappings' = MiResizeSection(view)
        /\ Finishes(c) /\ phase' = phase
    BY <1>3 DEF MmCreateView
  <2>2. view.p = p /\ view.base \in Int /\ view.pages \in Nat /\ view.start \in Nat
    <3>1. Doing(c).n \in 0 .. Len(ImageSections)
      BY <1>1 DEF Commands
    <3> QED BY <3>1, ViewNumbers DEF FrameInv, ListsFit
  <2> HIDE DEF view, p
  <2>3. needs \in Seq(NeedsOf(view.p))
    <3>1. ViewPages(view) \in Seq(Int)
      BY <2>2, PagesInARow DEF ViewPages
    <3> QED BY <3>1, NeedsProperties
  <2>4. mappings' \in Seq(Int) /\ MappingsStay
    BY <2>1, <2>2, SectionGrows DEF FrameInv, ListsFit
  <2>5. ASSUME NEW e \in DOMAIN entries
        PROVE  e = <<e[1], e[2]>> /\ entries[e].present /\ entries[e].frame \in SectionFrames /\ e[1] = p
    <3> DEFINE there == {v \in ToSet(ViewPages(view)) :
                           /\ MappingIndex(view, v) \in DOMAIN mappings
                           /\ mappings[MappingIndex(view, v)] # None}
    <3>1. PICK v \in there : e = <<view.p, v>>
      BY DEF ViewEntries
    <3>2. e[1] = p /\ e[2] = v /\ e = <<e[1], e[2]>>
      BY <2>2, <3>1
    <3>3. entries[e] = Present(mappings[MappingIndex(view, e[2])], view.write)
      BY DEF ViewEntries
    <3>4. entries[e].present /\ entries[e].frame = mappings[MappingIndex(view, v)]
      BY <3>2, <3>3 DEF Present
    <3>5. mappings[MappingIndex(view, v)] \in SectionFrames
      BY DEF SectionFrames
    <3> QED BY <3>2, <3>4, <3>5
  <2>6. After(c, Tail(core[c].todo), "start", None, <<>>) /\ phase' = "running"
    BY <1>1, <2>1, CoreAfter
  <2>7. OthersStay(c) /\ RegsStay /\ RegFits(c)' /\ GuardOwned(c)'
    BY <2>6, DoneFits
  <2> HIDE DEF needs, entries
  <2>8. /\ free' \in Seq(Frames) /\ IsInjective(free')
        /\ OneUse' /\ BootApart' /\ PagesOnce'
        /\ DOMAIN pte' = DOMAIN pte \cup DOMAIN entries
        /\ \A e \in DOMAIN pte : e \notin DOMAIN entries => pte'[e] = pte[e]
        /\ \A f \in SectionFrames' \cup TopFrames' : f \in SectionFrames \cup TopFrames \/ InHand(f)
    <3>1. \A e \in DOMAIN entries :
            /\ e = <<e[1], e[2]>> /\ entries[e].present
            /\ entries[e].frame \in SectionFrames \/ Fresh(needs, e, entries[e])
      BY <2>5
    <3> QED BY <2>1, <2>3, <2>4, <2>7, <3>1, MapPages DEF FrameInv
  <2>9. OtherGuardsStay(c)
    <3>1. \A v : <<Kernel, v>> \notin DOMAIN entries
      <4>1. \A v : <<Kernel, v>>[1] = Kernel
        OBVIOUS
      <4> QED BY <1>1, <2>5, <4>1, SpacesDiffer
    <3>2. KernelSame
      BY <2>8, <3>1 DEF KernelSame, Mapped
    <3> QED BY <3>2, KernelSameGuards
  <2> QED BY <2>4, <2>6, <2>7, <2>8, <2>9, CoreStepFits
<1> QED BY <1>2, <1>3

\* A view that is deleted takes its entries with it, and the section keeps its pages.
LEMMA MmDeleteViewFits ==
  ASSUME MemoryInv, FrameInv, NEW c \in Cores, MmDeleteView(c)
  PROVE  FrameInv'
<1> DEFINE p == Doing(c).p
           view == Head(views[p])
<1>1. /\ Typed /\ phase = "running" /\ core[c].todo # <<>> /\ p \in Processes
      /\ Doing(c).do = "delete"
  BY AtCommand DEF MmDeleteView
<1>2. /\ pte' = Without(pte, DeletedEntries(view)) /\ Finishes(c)
      /\ UNCHANGED <<phase, free, flags, tables, mappings>>
  BY DEF MmDeleteView, frameVars
<1>3. /\ DOMAIN pte' = DOMAIN pte \ DeletedEntries(view)
      /\ \A e \in DOMAIN pte' : e \in DOMAIN pte /\ pte'[e] = pte[e]
  BY <1>2 DEF Without
<1>4. After(c, Tail(core[c].todo), "start", None, <<>>) /\ phase' = "running"
  BY <1>1, <1>2, CoreAfter
<1>5. OthersStay(c) /\ RegsStay /\ RegFits(c)' /\ GuardOwned(c)'
  BY <1>4, DoneFits
<1>6. SectionFrames' = SectionFrames /\ TopFrames' = TopFrames
  BY <1>2 DEF SectionFrames, TopFrames, TopTables
<1>7. OldOr({})
  BY <1>2, <1>3, <1>5, <1>6, NothingHeld DEF OldOr
<1>8. OneUse' /\ BootApart'
  BY <1>7, FramesMove DEF FrameInv
<1>9. PagesOnce'
  BY <1>3, <1>6 DEF FrameInv, PagesOnce
<1>10. OtherGuardsStay(c)
  <2>1. view.p = p
    <3>1. views[p] # <<>>
      <4>1. 1 \in DOMAIN core[c].todo /\ core[c].todo[1].do = "delete" /\ core[c].todo[1].p = p
        BY AtCommand DEF MmDeleteView
      <4>2. core[c].todo[1].p = Image(c) /\ (views[Image(c)] = <<>> => 1 > 2)
        BY <4>1 DEF MemoryInv, Plans, DeletesItsView
      <4> QED BY <4>1, <4>2
    <3>2. views[p] \in Seq(Range(views[p])) /\ \A v \in Range(views[p]) : v.p = p
      BY <1>1 DEF Typed
    <3>3. view \in Range(views[p])
      BY <3>1, <3>2, HeadTailProperties
    <3> QED BY <3>2, <3>3
  <2>2. \A e \in DeletedEntries(view) : e[1] = p
    BY <2>1 DEF DeletedEntries
  <2>3. \A v : <<Kernel, v>> \notin DeletedEntries(view)
    <3>1. \A v : <<Kernel, v>>[1] = Kernel
      OBVIOUS
    <3> QED BY <1>1, <2>2, <3>1, SpacesDiffer
  <2>4. KernelSame
    BY <1>3, <2>3 DEF KernelSame, Mapped
  <2> QED BY <2>4, KernelSameGuards
<1>11. free' \in Seq(Frames) /\ IsInjective(free') /\ mappings' \in Seq(Int)
  BY <1>2 DEF FrameInv, ListsFit
<1> QED BY <1>4, <1>5, <1>6, <1>8, <1>9, <1>10, <1>11, CoreStepFits

\* A page of the section, or of the process alone, gets the first free frame.
LEMMA PageBroughtIn ==
  ASSUME ListsFit, OneUse, BootApart, PagesOnce, free # <<>>, MmAllocatePfn(1),
         NEW index, mappings[index] = None,
         mappings' = [mappings EXCEPT ![index] = Head(free)],
         NEW page, NEW write, pte' = With(pte, [e \in {page} |-> Present(Head(free), write)]),
         tables' = tables, \A d \in Cores : core'[d].reg = core[d].reg
  PROVE  /\ free' \in Seq(Frames) /\ IsInjective(free') /\ OneUse' /\ BootApart' /\ PagesOnce'
         /\ mappings' \in Seq(Int)
         /\ \A g \in SectionFrames' \cup TopFrames' : g \in SectionFrames \cup TopFrames \/ InHand(g)
<1>1. free \in Seq(Frames) /\ mappings \in Seq(Int)
  BY DEF ListsFit
<1>2. PICK f : f = free[1]
  OBVIOUS
<1>3. Head(free) = f /\ 1 \in 0 .. Len(free)
  BY <1>1, <1>2, HeadTailProperties, EmptySeq, LenProperties
<1>4. /\ free' \in Seq(Frames) /\ IsInjective(free') /\ ToSet(free') \subseteq ToSet(free)
      /\ UsedAs("free", 0, f) /\ f \notin ToSet(free') /\ f \in Frames
      /\ \A g \in Frames : flags'[g] = 4 => flags[g] = 4
  BY <1>2, <1>3, AllocatedFrames
<1>5. InHand(f) /\ ~ UsedAs("free", 0, f)'
  <2>1. InHand(f)
    BY <1>4 DEF InHand
  <2>2. ~ UsedAs("free", 0, f)'
    BY <1>4 DEF UsedAs
  <2> QED BY <2>1, <2>2
<1>6. f \in Int /\ f # None
  <2>1. NumberOfPfnEntries \in Nat
    BY MemoryAssumption
  <2> QED BY <1>4, <2>1 DEF Frames, None
<1>7. /\ DOMAIN mappings' = DOMAIN mappings
      /\ \A i \in DOMAIN mappings : mappings'[i] = IF i = index THEN f ELSE mappings[i]
  BY <1>3
<1>8. mappings' \in Seq(Int)
  <2>1. /\ Len(mappings) \in Nat /\ DOMAIN mappings = 1 .. Len(mappings)
        /\ \A i \in 1 .. Len(mappings) : mappings[i] \in Int
    BY <1>1, LenProperties, ElementOfSeq
  <2>2. mappings' = [mappings EXCEPT ![index] = f] /\ mappings \in [1 .. Len(mappings) -> Int]
    BY <1>1, <1>3, LenProperties
  <2>3. mappings' \in [1 .. Len(mappings) -> Int]
    BY <1>6, <2>1, <2>2
  <2> QED BY <2>1, <2>3, FunctionsAreSequences
<1>9. /\ page \in DOMAIN pte' /\ pte'[page].frame = f
      /\ \A e \in DOMAIN pte' : e = page \/ (e \in DOMAIN pte /\ pte'[e] = pte[e])
  BY <1>3 DEF With, Present
<1>10. /\ SectionFrames \subseteq SectionFrames' /\ SectionFrames' \subseteq SectionFrames \cup {f}
       /\ index \in DOMAIN mappings => f \in SectionFrames'
  BY <1>6, <1>7 DEF SectionFrames
<1>11. TopFrames' = TopFrames
  BY DEF TopFrames, TopTables
<1>12. \A d \in Cores : ToSet(core'[d].reg) = ToSet(core[d].reg)
  BY DEF ToSet
<1> DEFINE N == {f}
<1>13. \A e \in DOMAIN pte' : pte'[e].present =>
         pte'[e].frame \in N \cup SectionFrames' \/ (e \in DOMAIN pte /\ pte'[e] = pte[e])
  BY <1>9
<1>14. OldOr(N)
  <2>1. \A i \in DOMAIN mappings' :
          mappings'[i] \in N \cup {None} \/ (i \in DOMAIN mappings /\ mappings'[i] = mappings[i])
    BY <1>7
  <2> HIDE DEF N
  <2> QED BY <1>4, <1>10, <1>11, <1>12, <1>13, <2>1 DEF OldOr
<1>15. ASSUME NEW kind, NEW key, Placed(kind, key, f)
       PROVE  IF index \in DOMAIN mappings THEN kind = "section" /\ key = index
              ELSE kind = "page" /\ key = page
  <2>1. UsedAs(kind, key, f)' /\ ~ UsedAs(kind, key, f)
    BY <1>15 DEF Placed
  <2>2. CASE kind = "free" /\ key = 0 /\ f \in ToSet(free')
    BY <1>4, <2>2
  <2>3. CASE kind = "table" /\ key \in DOMAIN tables' /\ f = tables'[key]
    BY <2>1, <2>3 DEF UsedAs
  <2>4. CASE kind = "section" /\ key \in DOMAIN mappings' /\ f = mappings'[key] /\ f # None
    <3>1. key = index
      BY <1>7, <2>1, <2>4 DEF UsedAs
    <3> QED BY <1>7, <2>4, <3>1
  <2>5. CASE kind = "device" /\ key = 0 /\ f \in Frames /\ flags'[f] = 4
    BY <1>4, <2>1, <2>5 DEF UsedAs
  <2>6. CASE kind = "held" /\ key \in Cores /\ f \in ToSet(core'[key].reg)
    BY <1>12, <2>1, <2>6 DEF UsedAs
  <2>7. CASE kind = "page" /\ key \in OwnPages' /\ f = pte'[key].frame
    <3>1. key \in DOMAIN pte' /\ pte'[key].present /\ f \notin SectionFrames'
      BY <2>7 DEF OwnPages
    <3>2. key = page
      BY <1>5, <1>9, <2>7, <3>1, InHandInNoPage
    <3> QED BY <1>10, <2>7, <3>1, <3>2
  <2> QED BY <2>1, <2>2, <2>3, <2>4, <2>5, <2>6, <2>7 DEF UsedAs
<1>16. OneUse' /\ BootApart'
  <2>1. \A g \in N : g \notin BootFrames /\ \E kind, key : UsedAs(kind, key, g) /\ ~ UsedAs(kind, key, g)'
    BY <1>4, <1>5, InHandInNoPage
  <2>2. \A g \in N : \A kind, other, key, i :
          Placed(kind, key, g) /\ Placed(other, i, g) => kind = other /\ key = i
    BY <1>15
  <2> HIDE DEF N
  <2> QED BY <1>14, <2>1, <2>2, FramesMove
<1>17. PagesOnce'
  <2>1. \A g \in N : InHand(g)
    BY <1>5
  <2>2. ASSUME NEW e \in DOMAIN pte', pte'[e].present, pte'[e].frame \in N PROVE e = page
    <3>1. CASE e \in DOMAIN pte /\ pte'[e] = pte[e]
      BY <1>5, <2>2, <3>1, InHandInNoPage
    <3> QED BY <1>9, <3>1
  <2>3. \A e, d \in DOMAIN pte' :
          pte'[e].present /\ pte'[d].present /\ pte'[e].frame = pte'[d].frame
            /\ pte'[e].frame \in N => e = d
    BY <2>2
  <2> HIDE DEF N
  <2> QED BY <1>10, <1>13, <2>1, <2>3, PagesMove
<1>18. \A g \in SectionFrames' \cup TopFrames' : g \in SectionFrames \cup TopFrames \/ InHand(g)
  BY <1>5, <1>10, <1>11
<1> QED BY <1>4, <1>8, <1>16, <1>17, <1>18

\* A page fault.
LEMMA MmHandlePageFaultFits ==
  ASSUME MemoryInv, FrameInv, NEW c \in Cores, MmHandlePageFault(c)
  PROVE  FrameInv'
<1>1. /\ Typed /\ phase = "running" /\ core[c].todo # <<>> /\ Doing(c).p \in Processes
  BY AtCommand DEF MmHandlePageFault
<1>2. CASE Stop("frames")
  BY <1>2, StopFits
<1>3. CASE ~ Stop("frames")
  <2>1. PICK view, index, at :
          /\ mappings[index] # None \/ free # <<>>
          /\ IF mappings[index] # None THEN UNCHANGED <<frameVars, pte, mappings>>
             ELSE /\ MmAllocatePfn(1)
                  /\ mappings' = [mappings EXCEPT ![index] = Head(free)]
                  /\ pte' = With(pte, [e \in {Accessed(c)} |-> Present(Head(free), view.write)])
          /\ core' = [core EXCEPT ![c].pc = "file", ![c].at = at]
          /\ UNCHANGED <<phase, tables>>
    <3>1. PICK i, view, index :
            \/ /\ mappings[index] # None \/ free # <<>>
               /\ IF mappings[index] # None THEN UNCHANGED <<frameVars, pte, mappings>>
                  ELSE /\ MmAllocatePfn(1)
                       /\ mappings' = [mappings EXCEPT ![index] = Head(free)]
                       /\ pte' = With(pte, [e \in {Accessed(c)} |-> Present(Head(free), view.write)])
               /\ core' = [core EXCEPT ![c].pc = "file", ![c].at = FilePage(view, Doing(c).n)]
               /\ UNCHANGED <<phase, tables, contents, views, stacks, threads, history, stopped>>
            \/ mappings[index] = None /\ free = <<>> /\ Stop("frames")
      BY Zenon DEF MmHandlePageFault
    <3>2. PICK at : at = FilePage(view, Doing(c).n)
      OBVIOUS
    <3>3. /\ mappings[index] # None \/ free # <<>>
          /\ IF mappings[index] # None THEN UNCHANGED <<frameVars, pte, mappings>>
             ELSE /\ MmAllocatePfn(1)
                  /\ mappings' = [mappings EXCEPT ![index] = Head(free)]
                  /\ pte' = With(pte, [e \in {Accessed(c)} |-> Present(Head(free), view.write)])
          /\ core' = [core EXCEPT ![c].pc = "file", ![c].at = at]
          /\ UNCHANGED <<phase, tables>>
      BY <1>3, <3>1, <3>2
    <3> QED BY <3>3
  <2>2. After(c, core[c].todo, "file", at, core[c].reg)
    BY <1>1, <2>1, CoreAfter
  <2>3. CASE mappings[index] # None
    <3>1. phase' = phase /\ UNCHANGED <<free, flags, tables, pte, mappings>>
      BY <2>1, <2>3 DEF frameVars
    <3> QED BY <2>2, <3>1, QuietStepFits
  <2>4. CASE mappings[index] = None
    <3>1. OthersStay(c) /\ core'[c].reg = core[c].reg /\ core'[c].pc = "file" /\ phase' = "running"
      BY <1>1, <2>1, <2>2 DEF After
    <3>2. \A d \in Cores : core'[d].reg = core[d].reg
      BY <3>1 DEF OthersStay
    <3>3. PICK page, write : page = Accessed(c) /\ write = view.write
      OBVIOUS
    <3>4. /\ free # <<>> /\ MmAllocatePfn(1) /\ tables' = tables
          /\ mappings' = [mappings EXCEPT ![index] = Head(free)]
          /\ pte' = With(pte, [e \in {page} |-> Present(Head(free), write)])
      BY <2>1, <2>4, <3>3
    <3>5. /\ free' \in Seq(Frames) /\ IsInjective(free') /\ OneUse' /\ BootApart' /\ PagesOnce'
          /\ mappings' \in Seq(Int)
          /\ \A g \in SectionFrames' \cup TopFrames' : g \in SectionFrames \cup TopFrames \/ InHand(g)
      BY <2>4, <3>2, <3>4, PageBroughtIn DEF FrameInv
    <3>6. OtherGuardsStay(c)
      <4>1. \A v : <<Kernel, v>> # page
        BY <1>1, <3>3, SpacesDiffer DEF Accessed
      <4>2. KernelSame
        BY <3>4, <4>1 DEF KernelSame, Mapped, With
      <4> QED BY <4>2, KernelSameGuards
    <3>7. RegFits(c)' /\ GuardOwned(c)'
      BY <3>1 DEF FrameInv, RegFits, NeedsReg, GuardOwned
    <3> QED BY <3>1, <3>5, <3>6, <3>7, CoreStepFits
  <2> QED BY <2>3, <2>4
<1> QED BY <1>2, <1>3
-----------------------------------------------------------------------------
\* The list of the frames that have no flags.
LEMMA FreeOfProperties ==
  ASSUME NEW new
  PROVE  /\ FreeOf(new) \in Seq(Frames) /\ IsInjective(FreeOf(new))
         /\ ToSet(FreeOf(new)) = {f \in Frames : new[f] = 0}
         /\ FrameTable \in Seq(Frames) /\ IsInjective(FrameTable) /\ ToSet(FrameTable) = Frames
<1>1. NumberOfPfnEntries \in Nat
  BY MemoryAssumption
<1>2. FrameTable \in [1 .. NumberOfPfnEntries -> Frames] /\ DOMAIN FrameTable = 1 .. NumberOfPfnEntries
  BY <1>1 DEF FrameTable, Frames
<1>3. FrameTable \in Seq(Frames)
  BY <1>1, <1>2, FunctionsAreSequences
<1>4. \A i \in 1 .. NumberOfPfnEntries : FrameTable[i] = i - 1
  BY DEF FrameTable
<1>5. IsInjective(FrameTable)
  BY <1>1, <1>2, <1>4 DEF IsInjective
<1>6. ToSet(FrameTable) = Frames
  <2>1. \A f \in Frames : f + 1 \in 1 .. NumberOfPfnEntries /\ FrameTable[f + 1] = f
    BY <1>1, <1>4 DEF Frames
  <2> QED BY <1>2, <2>1 DEF ToSet
<1>7. PICK set : set = {f \in Frames : new[f] = 0}
  OBVIOUS
<1>8. FreeOf(new) = Among(FrameTable, set)
  BY <1>7 DEF FreeOf
<1>9. /\ Among(FrameTable, set) \in Seq(Frames) /\ ToSet(Among(FrameTable, set)) = ToSet(FrameTable) \cap set
      /\ IsInjective(Among(FrameTable, set))
  BY <1>3, <1>5, AmongProperties
<1> QED BY <1>3, <1>5, <1>6, <1>7, <1>8, <1>9

\* Before the kernel runs its cores do nothing, and no page of the section is there.
LEMMA BootFacts ==
  ASSUME MemoryInv, FrameInv, phase # "running"
  PROVE  /\ \A c \in Cores : core[c].reg = <<>> /\ core[c].pc = "start" /\ ToSet(core[c].reg) = {}
         /\ core = [c \in Cores |-> Nothing]
         /\ SectionFrames = {} /\ \A i \in DOMAIN mappings : mappings[i] = None
         /\ \A f \in Frames : flags[f] # 4
<1>1. core = [c \in Cores |-> Nothing]
  BY DEF MemoryInv, Typed
<1>2. \A c \in Cores : core[c].reg = <<>> /\ core[c].pc = "start" /\ ToSet(core[c].reg) = {}
  BY <1>1 DEF Nothing, ToSet
<1>3. /\ \A i \in DOMAIN mappings : mappings[i] = None
      /\ \A f \in Frames : flags[f] # 4
  BY DEF FrameInv, BootFits
<1> QED BY <1>1, <1>2, <1>3 DEF SectionFrames

\* Cores that do nothing fit.
LEMMA IdleCoresFit ==
  ASSUME \A c \in Cores : core'[c].reg = <<>> /\ core'[c].pc = "start"
  PROVE  \A c \in Cores : RegFits(c)' /\ GuardOwned(c)'
<1>1. <<>> \in Seq(ToSet(<<>>)) /\ IsInjective(<<>>)
  BY DEF IsInjective
<1> QED BY <1>1 DEF RegFits, NeedsReg, GuardOwned

\* The stub starts with all frames that the boot loader did not mark.
LEMMA KeLoadStubFits ==
  ASSUME MemoryInv, FrameInv, KeLoadStub
  PROVE  FrameInv'
<1>1. /\ phase = "loaded" /\ phase' = "init"
      /\ flags' = Reinitialised(flags) /\ free' = FreeOf(Reinitialised(flags))
      /\ UNCHANGED <<tables, pte, mappings, core>>
  BY DEF KeLoadStub, MmReinitPhysAllocator, sectionVars
<1>2. /\ \A c \in Cores : core'[c].reg = <<>> /\ core'[c].pc = "start" /\ ToSet(core'[c].reg) = {}
      /\ \A i \in DOMAIN mappings' : mappings'[i] = None
  BY <1>1, BootFacts
<1>3. DOMAIN tables' = {} /\ DOMAIN pte' = {} /\ \A f \in Frames : flags[f] = 0 <=> f \notin BootFrames
  BY <1>1 DEF FrameInv, BootFits
<1>4. \A f \in Frames : flags'[f] = IF flags[f] # 0 THEN 3 ELSE 0
  BY <1>1 DEF Reinitialised
<1>5. free' \in Seq(Frames) /\ IsInjective(free') /\ ToSet(free') = {f \in Frames : flags'[f] = 0}
  BY <1>1, FreeOfProperties
<1>6. \A f \in Frames : flags'[f] # 4
  BY <1>4
<1>7. ASSUME NEW kind, NEW key, NEW f, UsedAs(kind, key, f)'
      PROVE  kind = "free" /\ key = 0 /\ f \in ToSet(free')
  <2>1. OwnPages' = {}
    BY <1>3 DEF OwnPages
  <2> QED BY <1>2, <1>3, <1>6, <1>7, <2>1 DEF UsedAs
<1>8. OneUse'
  BY <1>7 DEF OneUse
<1>9. \A f \in ToSet(free') : f \notin BootFrames
  BY <1>3, <1>4, <1>5
<1>10. BootApart'
  BY <1>7, <1>9 DEF BootApart
<1>11. PagesOnce'
  BY <1>3 DEF PagesOnce
<1>12. ListsFit'
  BY <1>1, <1>5 DEF FrameInv, ListsFit
<1>13. BootFits'
  BY <1>1, <1>2, <1>3, <1>6 DEF BootFits
<1> QED BY <1>2, <1>8, <1>10, <1>11, <1>12, <1>13, IdleCoresFit DEF FrameInv

\* The frames that are not free keep their flags, so that the list stays.
LEMMA FlagPfnsFits ==
  ASSUME MemoryInv, FrameInv, FlagPfns \/ KeEntry
  PROVE  FrameInv'
<1>1. /\ phase # "running" /\ phase' \in {"entry", "pools"}
      /\ UNCHANGED <<tables, pte, mappings, core>>
  BY DEF FlagPfns, KeEntry, sectionVars
<1>2. /\ \A c \in Cores : core'[c].reg = <<>> /\ core'[c].pc = "start"
      /\ \A i \in DOMAIN mappings' : mappings'[i] = None
  BY <1>1, BootFacts
<1>3. free \in Seq(Frames) /\ IsInjective(free) /\ mappings \in Seq(Int)
  BY DEF FrameInv, ListsFit
<1>4. /\ free' \in Seq(Frames) /\ IsInjective(free') /\ ToSet(free') = ToSet(free)
      /\ \A f \in Frames : flags'[f] # 4
      /\ phase' = "entry" => \A f \in Frames : flags'[f] = 0 <=> f \in ToSet(free')
  <2>1. CASE FlagPfns
    <3>1. free' = free /\ flags' = [f \in Frames |-> IF f \in ToSet(free) THEN 0 ELSE 1]
      BY <2>1 DEF FlagPfns, MiFlagPfnsForRemap
    <3> QED BY <1>3, <3>1
  <2>2. CASE KeEntry
    <3>1. /\ phase = "entry" /\ phase' = "pools"
          /\ flags' = Reinitialised(flags) /\ free' = FreeOf(flags')
      BY <2>2 DEF KeEntry, MmReinitPhysAllocator
    <3>2. \A f \in Frames : flags'[f] = IF flags[f] # 0 THEN 3 ELSE 0
      BY <3>1 DEF Reinitialised
    <3>3. \A f \in Frames : flags[f] = 0 <=> f \in ToSet(free)
      BY <3>1 DEF FrameInv, BootFits
    <3>4. PICK new : new = flags'
      OBVIOUS
    <3>5. free' \in Seq(Frames) /\ IsInjective(free') /\ ToSet(free') = {f \in Frames : new[f] = 0}
      BY <3>1, <3>4, FreeOfProperties
    <3>6. ToSet(free) \subseteq Frames
      BY <1>3, ElementOfSeq, LenProperties DEF ToSet
    <3> QED BY <3>1, <3>2, <3>3, <3>4, <3>5, <3>6
  <2> QED BY <2>1, <2>2
<1>5. SectionFrames' = SectionFrames /\ TopFrames' = TopFrames
  BY <1>1 DEF SectionFrames, TopFrames, TopTables
<1>6. OldOr({})
  BY <1>1, <1>4, <1>5 DEF OldOr
<1>7. OneUse' /\ BootApart'
  BY <1>6, FramesMove DEF FrameInv
<1>8. PagesOnce'
  BY <1>1, <1>5 DEF FrameInv, PagesOnce
<1>9. ListsFit' /\ BootFits'
  BY <1>1, <1>2, <1>3, <1>4 DEF ListsFit, BootFits
<1> QED BY <1>2, <1>7, <1>8, <1>9, IdleCoresFit DEF FrameInv

\* The stub's last block, and the pools.
LEMMA BootBlocksFit ==
  ASSUME MemoryInv, FrameInv, HandlePreloadedFiles \/ ExInitializePool
  PROVE  FrameInv'
<1>1. /\ phase # "running" /\ phase' \in {"flag", "devices"}
      /\ UNCHANGED <<mappings, core>>
      /\ \E n \in {1, PoolPages} : FreshBlock(Kernel, PagingFindFreePages(Kernel, KernelStart, KernelEnd, n), n)
  BY DEF HandlePreloadedFiles, ExInitializePool, sectionVars
<1>2. PICK n \in {1, PoolPages} : FreshBlock(Kernel, PagingFindFreePages(Kernel, KernelStart, KernelEnd, n), n)
  BY <1>1
<1>3. PICK at : at = PagingFindFreePages(Kernel, KernelStart, KernelEnd, n)
  OBVIOUS
<1>4. KernelStart \in Nat /\ KernelEnd \in Nat /\ n \in Nat
  BY MemoryAssumption
<1>5. at \in Int /\ FreshBlock(Kernel, at, n)
  BY <1>2, <1>3, <1>4, FoundPlaces
<1>6. /\ \A c \in Cores : core'[c].reg = <<>> /\ core'[c].pc = "start"
      /\ \A i \in DOMAIN mappings' : mappings'[i] = None
      /\ \A f \in Frames : flags[f] # 4
  BY <1>1, BootFacts
<1>7. MappingsStay /\ RegsStay
  BY <1>1 DEF MappingsStay, RegsStay
<1>8. Moved(Block(at, n))
  BY <1>4, <1>5, <1>7, FreshBlockMoves DEF FrameInv
<1>9. ListsFit' /\ BootFits'
  BY <1>1, <1>6, <1>8 DEF FrameInv, ListsFit, BootFits, Moved
<1> QED BY <1>6, <1>8, <1>9, IdleCoresFit DEF FrameInv, Moved

\* The tables that the stub makes get its first free frames, and the modules' pages
\* frames that the boot loader marked; the others stay free.
LEMMA PagingInitFits ==
  ASSUME MemoryInv, FrameInv, PagingInit
  PROVE  FrameInv'
<1> DEFINE marked == Among(FrameTable, BootFrames)
<1>1. PICK needs : /\ needs = <<TopTable(Kernel)>> \o Needs(Kernel, PageRun(KernelStart, ModulePages), FALSE)
                   /\ Len(needs) <= Len(free) /\ tables' = NewTables(needs)
                   /\ pte' = [e \in {<<Kernel, KernelStart + i - 1>> : i \in 1..ModulePages} |->
                                Present(marked[e[2] - KernelStart + 1], TRUE)]
                   /\ MmReinitPhysAllocator(MiFlagPfnsForRemap(SubSeq(free, Len(needs) + 1, Len(free))))
  BY Zenon DEF PagingInit
<1>2. phase = "init" /\ phase' = "stub" /\ UNCHANGED <<mappings, core>>
  BY DEF PagingInit, sectionVars
<1>3. /\ \A c \in Cores : core'[c].reg = <<>> /\ core'[c].pc = "start" /\ ToSet(core'[c].reg) = {}
      /\ \A i \in DOMAIN mappings' : mappings'[i] = None
      /\ SectionFrames' = {}
  <2>1. /\ \A c \in Cores : core[c].reg = <<>> /\ core[c].pc = "start" /\ ToSet(core[c].reg) = {}
        /\ \A i \in DOMAIN mappings : mappings[i] = None
    BY <1>2, BootFacts
  <2> QED BY <1>2, <2>1 DEF SectionFrames
<1>4. KernelStart \in Nat /\ ModulePages \in Nat /\ ModulePages <= Cardinality(BootFrames)
      /\ BootFrames \subseteq Frames /\ Cardinality(BootFrames) \in Nat
  <2>1. NumberOfPfnEntries \in Nat /\ BootFrames \subseteq 0 .. NumberOfPfnEntries - 1
    BY MemoryAssumption DEF Frames
  <2>2. IsFiniteSet(0 .. NumberOfPfnEntries - 1)
    BY <2>1, FS_Interval
  <2>3. Cardinality(BootFrames) \in Nat
    BY <2>1, <2>2, FS_Subset, FS_CardinalityType
  <2> QED BY <2>3, MemoryAssumption
<1> DEFINE n == Len(needs)
<1>5. needs \in Seq(NeedsOf(Kernel) \cup {TopTable(Kernel)})
  <2>1. PageRun(KernelStart, ModulePages) \in Seq(Int)
    BY <1>4, PagesInARow
  <2>2. PICK run, got : run = PageRun(KernelStart, ModulePages) /\ got = Needs(Kernel, run, FALSE)
    OBVIOUS
  <2>3. got \in Seq(NeedsOf(Kernel))
    BY <2>1, <2>2, NeedsProperties
  <2>4. PICK T, top : T = NeedsOf(Kernel) \cup {TopTable(Kernel)} /\ top = TopTable(Kernel)
    OBVIOUS
  <2>5. got \in Seq(T) /\ <<top>> \in Seq(T)
    BY <2>3, <2>4
  <2>6. <<top>> \o got \in Seq(T)
    BY <2>5
  <2> QED BY <1>1, <2>2, <2>4, <2>6
<1>6. n \in 0 .. Len(free) /\ DOMAIN needs = 1 .. n
  <2>1. n \in Nat /\ Len(free) \in Nat
    BY <1>5, LenProperties DEF FrameInv, ListsFit
  <2>2. n <= Len(free) /\ DOMAIN needs = 1 .. n
    BY <1>1, <1>5, LenProperties
  <2> HIDE DEF n
  <2> QED BY <2>1, <2>2
<1>7. /\ Remaining(n) \in Seq(Frames) /\ ToSet(Remaining(n)) \subseteq ToSet(free)
      /\ \A i \in 1 .. n : /\ free[i] \in Frames /\ UsedAs("free", 0, free[i])
                          /\ free[i] \notin ToSet(Remaining(n))
      /\ \A i, j \in 1 .. n : free[i] = free[j] => i = j
  BY <1>6, ListRest DEF FrameInv
<1>8. /\ free' \in Seq(Frames) /\ IsInjective(free') /\ ToSet(free') \subseteq ToSet(Remaining(n))
      /\ \A f \in Frames : flags'[f] # 4
  <2>1. PICK old : old = MiFlagPfnsForRemap(Remaining(n))
    OBVIOUS
  <2>2. flags' = Reinitialised(old) /\ free' = FreeOf(flags')
    BY <1>1, <2>1 DEF MmReinitPhysAllocator, Remaining
  <2>3. \A f \in Frames : flags'[f] = IF old[f] # 0 THEN 3 ELSE 0
    BY <2>2 DEF Reinitialised
  <2>4. \A f \in Frames : old[f] = 0 => f \in ToSet(Remaining(n))
    BY <2>1 DEF MiFlagPfnsForRemap
  <2>5. PICK new : new = flags'
    OBVIOUS
  <2>6. free' \in Seq(Frames) /\ IsInjective(free') /\ ToSet(free') = {f \in Frames : new[f] = 0}
    BY <2>2, <2>5, FreeOfProperties
  <2> QED BY <2>3, <2>4, <2>5, <2>6
<1> HIDE DEF n
<1>9. \A e \in DOMAIN tables' : \E i \in 1 .. n : needs[i] = e /\ tables'[e] = free[i]
  <2>1. DOMAIN tables = {}
    BY <1>2 DEF FrameInv, BootFits
  <2>2. tables' = NewTables(needs)
    BY <1>1
  <2>3. \A e \in DOMAIN NewTables(needs) :
          \/ e \in DOMAIN tables /\ NewTables(needs)[e] = tables[e]
          \/ \E i \in DOMAIN needs : needs[i] = e /\ IsTable(e) /\ NewTables(needs)[e] = free[i]
    BY TablesMade
  <2> QED BY <1>6, <2>1, <2>2, <2>3
<1>10. /\ marked \in Seq(Frames) /\ IsInjective(marked) /\ ToSet(marked) = BootFrames
       /\ Len(marked) = Cardinality(BootFrames) /\ DOMAIN marked = 1 .. Len(marked)
  <2>1. FrameTable \in Seq(Frames) /\ IsInjective(FrameTable) /\ ToSet(FrameTable) = Frames
    BY FreeOfProperties
  <2>2. marked \in Seq(Frames) /\ IsInjective(marked) /\ ToSet(marked) = Frames \cap BootFrames
    BY <2>1, AmongProperties
  <2> HIDE DEF marked
  <2>3. ToSet(marked) = BootFrames
    BY <1>4, <2>2
  <2> QED BY <2>2, <2>3, InjectiveCardinality, LenProperties
<1> HIDE DEF marked
<1>11. \A i \in 1 .. ModulePages : marked[i] \in BootFrames
  BY <1>4, <1>10 DEF ToSet
<1>12. \A i, j \in 1 .. ModulePages : marked[i] = marked[j] => i = j
  BY <1>4, <1>10 DEF IsInjective
<1>13. ASSUME NEW e \in DOMAIN pte'
       PROVE  \E i \in 1 .. ModulePages : e = <<Kernel, KernelStart + i - 1>> /\ pte'[e].frame = marked[i]
  <2>1. PICK i \in 1 .. ModulePages : e = <<Kernel, KernelStart + i - 1>>
    BY <1>1
  <2>2. e[2] = KernelStart + i - 1 /\ (KernelStart + i - 1) - KernelStart + 1 = i
    BY <1>4, <2>1
  <2>3. pte'[e].frame = marked[i]
    BY <1>1, <2>2 DEF Present
  <2> QED BY <2>1, <2>3
<1>14. \A e, d \in DOMAIN pte' : pte'[e].frame = pte'[d].frame => e = d
  BY <1>12, <1>13
<1>15. \A e \in DOMAIN pte' : pte'[e].frame \in BootFrames
  BY <1>11, <1>13
<1>16. ASSUME NEW f \in ToSet(free) PROVE f \notin BootFrames
  <2>1. UsedAs("free", 0, f)
    BY DEF UsedAs
  <2> QED BY <2>1 DEF FrameInv, BootApart
<1>17. ASSUME NEW kind, NEW key, NEW f, UsedAs(kind, key, f)'
       PROVE  \/ kind = "free" /\ key = 0 /\ f \in ToSet(Remaining(n)) /\ f \notin BootFrames
              \/ /\ kind = "table" /\ f \notin BootFrames
                 /\ \E i \in 1 .. n : key = needs[i] /\ f = free[i]
              \/ kind = "page" /\ key \in DOMAIN pte' /\ f = pte'[key].frame
  <2>1. CASE kind = "free" /\ key = 0 /\ f \in ToSet(free')
    BY <1>7, <1>8, <1>16, <2>1
  <2>2. CASE kind = "table" /\ key \in DOMAIN tables' /\ f = tables'[key]
    <3>1. PICK i \in 1 .. n : needs[i] = key /\ f = free[i]
      BY <1>9, <2>2
    <3>2. f \in ToSet(free)
      BY <1>7, <3>1 DEF UsedAs
    <3> QED BY <1>16, <2>2, <3>1, <3>2
  <2>3. CASE kind = "page" /\ key \in OwnPages' /\ f = pte'[key].frame
    BY <2>3 DEF OwnPages
  <2> QED BY <1>3, <1>8, <1>17, <2>1, <2>2, <2>3 DEF UsedAs
<1>18. OneUse'
  <2>1. SUFFICES ASSUME NEW kind, NEW other, NEW key, NEW index, NEW f,
                        UsedAs(kind, key, f)', UsedAs(other, index, f)'
                 PROVE  kind = other /\ key = index
    BY DEF OneUse
  <2>2. /\ \/ kind = "free" /\ key = 0 /\ f \in ToSet(Remaining(n)) /\ f \notin BootFrames
           \/ /\ kind = "table" /\ f \notin BootFrames
              /\ \E i \in 1 .. n : key = needs[i] /\ f = free[i]
           \/ kind = "page" /\ key \in DOMAIN pte' /\ f = pte'[key].frame
        /\ \/ other = "free" /\ index = 0 /\ f \in ToSet(Remaining(n)) /\ f \notin BootFrames
           \/ /\ other = "table" /\ f \notin BootFrames
              /\ \E i \in 1 .. n : index = needs[i] /\ f = free[i]
           \/ other = "page" /\ index \in DOMAIN pte' /\ f = pte'[index].frame
    BY <1>17, <2>1
  <2> QED BY <1>7, <1>14, <1>15, <2>2
<1>19. BootApart'
  BY <1>17 DEF BootApart
<1>20. PagesOnce'
  BY <1>14 DEF PagesOnce
<1>21. ListsFit' /\ BootFits'
  BY <1>2, <1>3, <1>8 DEF FrameInv, ListsFit, BootFits
<1> QED BY <1>3, <1>18, <1>19, <1>20, <1>21, IdleCoresFit DEF FrameInv

\* The device's buffer takes frames out of the middle of the list.
LEMMA RegionTaken ==
  ASSUME ListsFit, NEW n \in Nat \ {0}, NEW i \in Regions(n), MmAllocatePfnRegion(n, i)
  PROVE  /\ free' \in Seq(Frames) /\ IsInjective(free') /\ ToSet(free') \subseteq ToSet(free)
         /\ \A f \in free[i] .. free[i] + n - 1 : f \in ToSet(free) /\ f \notin ToSet(free')
         /\ \A f \in Frames : flags'[f] = IF f \in free[i] .. free[i] + n - 1 THEN 4 ELSE flags[f]
<1> DEFINE l == Len(free)
<1>1. /\ l \in Nat /\ DOMAIN free = 1 .. l /\ \A j \in 1 .. l : free[j] \in Frames
      /\ \A j, k \in 1 .. l : free[j] = free[k] => j = k
  <2>1. free \in Seq(Frames) /\ IsInjective(free)
    BY DEF ListsFit
  <2>2. l \in Nat /\ DOMAIN free = 1 .. l /\ \A j \in 1 .. l : free[j] \in Frames
    BY <2>1, LenProperties, ElementOfSeq
  <2> QED BY <2>1, <2>2 DEF IsInjective
<1>2. i \in 1 .. l - n + 1 /\ \A j \in 1 .. n - 1 : free[i + j] = free[i] + j
  BY DEF Regions
<1>3. /\ free' = SubSeq(free, 1, i - 1) \o SubSeq(free, i + n, l)
      /\ flags' = [f \in Frames |-> IF f \in free[i] .. free[i] + n - 1 THEN 4 ELSE flags[f]]
  BY DEF MmAllocatePfnRegion
<1> HIDE DEF l
<1>4. i \in Nat /\ i >= 1 /\ i + n <= l + 1 /\ n \in Nat /\ n >= 1
  BY <1>1, <1>2
<1>5. PICK before, after : before = SubSeq(free, 1, i - 1) /\ after = SubSeq(free, i + n, l)
  OBVIOUS
<1>6. /\ before \in Seq(Frames) /\ Len(before) = i - 1
      /\ \A j \in 1 .. i - 1 : before[j] = free[j]
  <2>1. \A j \in 1 .. i - 1 : free[j] \in Frames
    BY <1>1, <1>4
  <2>2. /\ SubSeq(free, 1, i - 1) \in Seq(Frames)
        /\ Len(SubSeq(free, 1, i - 1)) = IF 1 <= i - 1 THEN (i - 1) - 1 + 1 ELSE 0
        /\ \A j \in 1 .. (i - 1) - 1 + 1 : SubSeq(free, 1, i - 1)[j] = free[1 + j - 1]
    BY <1>4, <2>1, SubSeqProperties
  <2> QED BY <1>4, <1>5, <2>2
<1>7. /\ after \in Seq(Frames) /\ Len(after) = l - (i + n) + 1
      /\ \A j \in 1 .. l - (i + n) + 1 : after[j] = free[i + n + j - 1]
  <2>1. \A j \in i + n .. l : free[j] \in Frames
    BY <1>1, <1>4
  <2>2. /\ SubSeq(free, i + n, l) \in Seq(Frames)
        /\ Len(SubSeq(free, i + n, l)) = IF i + n <= l THEN l - (i + n) + 1 ELSE 0
        /\ \A j \in 1 .. l - (i + n) + 1 : SubSeq(free, i + n, l)[j] = free[i + n + j - 1]
    BY <1>1, <1>4, <2>1, SubSeqProperties
  <2> QED BY <1>1, <1>4, <1>5, <2>2
<1>8. PICK m : m = l - n
  OBVIOUS
<1>9. /\ m \in Nat /\ free' \in Seq(Frames) /\ Len(free') = m /\ DOMAIN free' = 1 .. m
      /\ \A j \in 1 .. m : free'[j] = IF j <= i - 1 THEN free[j] ELSE free[j + n]
  <2>1. /\ before \o after \in Seq(Frames) /\ Len(before \o after) = Len(before) + Len(after)
        /\ \A j \in 1 .. Len(before) + Len(after) :
             (before \o after)[j] = IF j <= Len(before) THEN before[j] ELSE after[j - Len(before)]
    BY <1>6, <1>7, ConcatProperties
  <2>2. Len(before) + Len(after) = m /\ m \in Nat
    BY <1>1, <1>4, <1>6, <1>7, <1>8
  <2>3. ASSUME NEW j \in 1 .. m
        PROVE  (before \o after)[j] = IF j <= i - 1 THEN free[j] ELSE free[j + n]
    <3>1. CASE j <= i - 1
      BY <1>4, <1>6, <2>1, <2>2, <3>1
    <3>2. CASE ~ (j <= i - 1)
      <4>1. PICK k : k = j - (i - 1)
        OBVIOUS
      <4>2. k \in 1 .. l - (i + n) + 1 /\ i + n + k - 1 = j + n
        BY <1>1, <1>4, <1>8, <3>2, <4>1
      <4>3. after[k] = free[j + n]
        BY <1>7, <4>2
      <4> QED BY <1>6, <2>1, <2>2, <3>2, <4>1, <4>3
    <3> QED BY <3>1, <3>2
  <2>4. free' = before \o after
    BY <1>3, <1>5
  <2> QED BY <2>1, <2>2, <2>3, <2>4, LenProperties
<1>10. ASSUME NEW j \in 1 .. m
       PROVE  \E k \in 1 .. l : /\ free'[j] = free[k] /\ ~ (k >= i /\ k <= i + n - 1)
                                /\ k = IF j <= i - 1 THEN j ELSE j + n
  <2>1. CASE j <= i - 1
    BY <1>1, <1>4, <1>8, <1>9, <2>1
  <2>2. CASE ~ (j <= i - 1)
    BY <1>1, <1>4, <1>8, <1>9, <2>2
  <2> QED BY <2>1, <2>2
<1>11. IsInjective(free')
  <2>1. ASSUME NEW j \in 1 .. m, NEW k \in 1 .. m, free'[j] = free'[k] PROVE j = k
    <3>1. PICK x \in 1 .. l : free'[j] = free[x] /\ x = IF j <= i - 1 THEN j ELSE j + n
      BY <1>10
    <3>2. PICK y \in 1 .. l : free'[k] = free[y] /\ y = IF k <= i - 1 THEN k ELSE k + n
      BY <1>10
    <3>3. x = y
      BY <1>1, <2>1, <3>1, <3>2
    <3> QED BY <1>4, <1>9, <3>1, <3>2, <3>3
  <2> QED BY <1>9, <2>1 DEF IsInjective
<1>12. ToSet(free') \subseteq ToSet(free)
  BY <1>1, <1>9, <1>10 DEF ToSet
<1>13. ASSUME NEW f \in free[i] .. free[i] + n - 1
       PROVE  f \in ToSet(free) /\ f \notin ToSet(free')
  <2>1. free[i] \in Int
    <3>1. free[i] \in Frames /\ NumberOfPfnEntries \in Nat
      BY <1>1, <1>4, MemoryAssumption
    <3> QED BY <3>1 DEF Frames
  <2>2. PICK j : j = f - free[i]
    OBVIOUS
  <2>3. j \in 0 .. n - 1 /\ f = free[i] + j
    BY <1>4, <2>1, <2>2
  <2>4. f = free[i + j]
    <3>1. CASE j = 0
      BY <1>4, <2>1, <2>3, <3>1
    <3>2. CASE j # 0
      BY <1>2, <2>3, <3>2
    <3> QED BY <3>1, <3>2
  <2>5. i + j \in 1 .. l /\ i + j >= i /\ i + j <= i + n - 1
    BY <1>1, <1>4, <2>3
  <2>6. f \in ToSet(free)
    BY <1>1, <2>4, <2>5 DEF ToSet
  <2>7. ASSUME NEW k \in 1 .. m, free'[k] = f PROVE FALSE
    <3>1. PICK x \in 1 .. l : free'[k] = free[x] /\ ~ (x >= i /\ x <= i + n - 1)
      BY <1>10
    <3>2. x = i + j
      BY <1>1, <2>4, <2>5, <2>7, <3>1
    <3> QED BY <2>5, <3>1, <3>2
  <2> QED BY <1>9, <2>6, <2>7 DEF ToSet
<1>14. \A f \in Frames : flags'[f] = IF f \in free[i] .. free[i] + n - 1 THEN 4 ELSE flags[f]
  BY <1>3
<1> QED BY <1>9, <1>11, <1>12, <1>13, <1>14

\* The network card gets its buffer, or there is no card, and the kernel runs.
LEMMA RT8139InitFits ==
  ASSUME MemoryInv, FrameInv, RT8139Init
  PROVE  FrameInv'
<1>1. /\ phase = "devices" /\ phase' = "running"
      /\ core' = [core EXCEPT ![First].todo = MpInitialize]
      /\ UNCHANGED <<tables, pte, mappings>>
      /\ \/ UNCHANGED <<free, flags>>
         \/ \E i \in Regions(RxPages) : MmAllocatePfnRegion(RxPages, i)
  BY DEF RT8139Init, sectionVars, frameVars
<1>2. /\ core = [c \in Cores |-> Nothing]
      /\ \A f \in Frames : flags[f] # 4
      /\ \A c \in Cores : ToSet(core[c].reg) = {}
  BY <1>1, BootFacts
<1>3. \A c \in Cores : core'[c].reg = <<>> /\ core'[c].pc = "start" /\ ToSet(core'[c].reg) = {}
  <2>1. PICK todo : todo = MpInitialize
    OBVIOUS
  <2>2. core' = [core EXCEPT ![First].todo = todo]
    BY <1>1, <2>1
  <2>3. \A c \in Cores : core'[c].reg = <<>> /\ core'[c].pc = "start"
    BY <1>2, <2>2 DEF Nothing
  <2> QED BY <2>3 DEF ToSet
<1>4. ListsFit /\ OneUse /\ BootApart /\ PagesOnce
  BY DEF FrameInv
<1>5. SectionFrames' = SectionFrames /\ TopFrames' = TopFrames
  BY <1>1 DEF SectionFrames, TopFrames, TopTables
<1>6. /\ free' \in Seq(Frames) /\ IsInjective(free') /\ ToSet(free') \subseteq ToSet(free)
      /\ \A f \in Frames : flags'[f] = 4 => f \in ToSet(free) /\ f \notin ToSet(free')
  <2>1. CASE UNCHANGED <<free, flags>>
    BY <1>2, <1>4, <2>1 DEF ListsFit
  <2>2. CASE \E i \in Regions(RxPages) : MmAllocatePfnRegion(RxPages, i)
    <3>1. PICK i \in Regions(RxPages) : MmAllocatePfnRegion(RxPages, i)
      BY <2>2
    <3>2. RxPages \in Nat \ {0}
      BY MemoryAssumption
    <3>3. /\ free' \in Seq(Frames) /\ IsInjective(free') /\ ToSet(free') \subseteq ToSet(free)
          /\ \A f \in free[i] .. free[i] + RxPages - 1 : f \in ToSet(free) /\ f \notin ToSet(free')
          /\ \A f \in Frames : flags'[f] = IF f \in free[i] .. free[i] + RxPages - 1 THEN 4 ELSE flags[f]
      BY <1>4, <3>1, <3>2, RegionTaken
    <3> QED BY <1>2, <3>3
  <2> QED BY <1>1, <2>1, <2>2
<1> DEFINE N == {f \in Frames : flags'[f] = 4}
<1>7. OldOr(N)
  <2>1. \A f \in Frames : flags'[f] = 4 => f \in N
    OBVIOUS
  <2>2. \A c \in Cores : ToSet(core'[c].reg) \subseteq ToSet(core[c].reg) \cup N
    BY <1>3
  <2> HIDE DEF N
  <2> QED BY <1>1, <1>5, <1>6, <2>1, <2>2 DEF OldOr
<1>8. ASSUME NEW f \in N, NEW kind, NEW key, UsedAs(kind, key, f)' PROVE kind = "device" /\ key = 0
  <2>1. UsedAs("free", 0, f) /\ f \notin ToSet(free')
    BY <1>6 DEF UsedAs
  <2>2. \A k, x : UsedAs(k, x, f) => k = "free"
    BY <1>4, <2>1 DEF OneUse
  <2>3. CASE kind = "free"
    BY <1>8, <2>1, <2>3 DEF UsedAs
  <2>4. CASE kind = "table" \/ kind = "section" \/ kind = "page"
    <3>1. UsedAs(kind, key, f)
      BY <1>1, <1>8, <2>4 DEF UsedAs, OwnPages, SectionFrames, TopTables
    <3> QED BY <2>2, <2>4, <3>1
  <2>5. CASE kind = "held"
    BY <1>3, <1>8, <2>5 DEF UsedAs
  <2> QED BY <1>8, <2>3, <2>4, <2>5 DEF UsedAs
<1>9. OneUse' /\ BootApart'
  <2>1. \A f \in N : f \notin BootFrames /\ \E kind, key : UsedAs(kind, key, f) /\ ~ UsedAs(kind, key, f)'
    <3>1. ASSUME NEW f \in N PROVE UsedAs("free", 0, f) /\ ~ UsedAs("free", 0, f)' /\ f \notin BootFrames
      BY <1>4, <1>6 DEF UsedAs, BootApart
    <3> QED BY <3>1
  <2>2. \A f \in N : \A kind, other, key, index :
          Placed(kind, key, f) /\ Placed(other, index, f) => kind = other /\ key = index
    BY <1>8 DEF Placed
  <2> HIDE DEF N
  <2> QED BY <1>4, <1>7, <2>1, <2>2, FramesMove
<1>10. PagesOnce'
  BY <1>1, <1>4, <1>5 DEF PagesOnce
<1>11. ListsFit' /\ BootFits'
  BY <1>1, <1>4, <1>6 DEF ListsFit, BootFits
<1> QED BY <1>3, <1>9, <1>10, <1>11, IdleCoresFit DEF FrameInv

\* At the beginning no frame is free, and there are no tables and no pages.
LEMMA FrameInvInit == Init => FrameInv
<1> SUFFICES ASSUME Init PROVE FrameInv
  OBVIOUS
<1>1. /\ phase = "loaded" /\ free = <<>> /\ tables = <<>> /\ pte = <<>>
      /\ flags = [f \in Frames |-> IF f \in BootFrames THEN 1 ELSE 0]
      /\ mappings = [i \in 1..FilePages |-> None]
      /\ core = [c \in Cores |-> Nothing]
  BY DEF Init
<1>2. /\ \A c \in Cores : core[c].reg = <<>> /\ core[c].pc = "start" /\ ToSet(core[c].reg) = {}
      /\ ToSet(free) = {} /\ DOMAIN tables = {} /\ DOMAIN pte = {}
      /\ \A i \in DOMAIN mappings : mappings[i] = None
      /\ \A f \in Frames : flags[f] # 4 /\ (flags[f] = 0 <=> f \notin BootFrames)
  BY <1>1 DEF Nothing, ToSet
<1>3. ASSUME NEW kind, NEW key, NEW f, UsedAs(kind, key, f) PROVE FALSE
  <2>1. OwnPages = {}
    BY <1>2 DEF OwnPages
  <2> QED BY <1>2, <1>3, <2>1 DEF UsedAs
<1>4. OneUse /\ BootApart
  BY <1>3 DEF OneUse, BootApart
<1>5. ListsFit
  <2>1. FilePages \in Nat /\ None \in Int
    BY MemoryAssumption DEF None
  <2>2. mappings \in [1 .. FilePages -> Int]
    BY <1>1, <2>1
  <2>3. mappings \in Seq(Int)
    BY <2>1, <2>2, FunctionsAreSequences
  <2>4. <<>> \in Seq(Frames) /\ IsInjective(<<>>)
    BY DEF IsInjective
  <2> QED BY <1>1, <2>3, <2>4 DEF ListsFit
<1>6. PagesOnce /\ BootFits
  BY <1>1, <1>2 DEF PagesOnce, BootFits
<1>7. \A c \in Cores : RegFits(c) /\ GuardOwned(c)
  <2>1. <<>> \in Seq(ToSet(<<>>)) /\ IsInjective(<<>>)
    BY DEF IsInjective
  <2> QED BY <1>2, <2>1 DEF RegFits, NeedsReg, GuardOwned
<1> QED BY <1>4, <1>5, <1>6, <1>7 DEF FrameInv

\* Every step of the boot and of the cores keeps it.
LEMMA FramesKept ==
  ASSUME MemoryInv, FrameInv, [Next]_vars
  PROVE  FrameInv'
<1>1. CASE UNCHANGED vars
  <2>1. /\ phase' = phase /\ core' = core /\ UNCHANGED <<free, flags, tables, pte, mappings>>
    BY <1>1 DEF vars
  <2>2. \A d \in Cores : QuietCore(d)
    BY <2>1 DEF QuietCore, NeedsReg, Doing
  <2> QED BY <2>1, <2>2, QuietFits
<1>2. CASE Boot
  BY <1>2, KeLoadStubFits, PagingInitFits, BootBlocksFit, FlagPfnsFits, RT8139InitFits DEF Boot
<1>3. ASSUME NEW c \in Cores, Start(c) PROVE FrameInv'
  BY <1>3, QuietActionsFit
<1>4. ASSUME NEW c \in Cores, Step(c) PROVE FrameInv'
  <2>1. CASE ApStartup(c)
    BY <2>1, ApStartupFits
  <2>2. CASE \/ KiAcquireDispatcherLock(c) \/ KiReleaseDispatcherLock(c) \/ CountCore(c) \/ CheckCores(c)
             \/ LockView(c) \/ Access(c) \/ PageFaultHandler(c) \/ NtReadFile(c)
    BY <2>2, QuietActionsFit
  <2>3. CASE GetFrame(c)
    BY <2>3, GetFrameFits
  <2>4. CASE FindPages(c)
    BY <2>4, FindPagesFits
  <2>5. CASE PagingAllocatePageWithPhysicalAddress(c)
    BY <2>5, PagingAllocatePageWithPhysicalAddressFits
  <2>6. CASE PagingAllocatePageBlockEx(c)
    BY <2>6, PagingAllocatePageBlockExFits
  <2>7. CASE PspCreateKernelStack(c)
    BY <2>7, PspCreateKernelStackFits
  <2>8. CASE FreeGuards(c)
    BY <2>8, FreeGuardsFits
  <2>9. CASE MmCreateView(c)
    BY <2>9, MmCreateViewFits
  <2>10. CASE MmDeleteView(c)
    BY <2>10, MmDeleteViewFits
  <2>11. CASE MmHandlePageFault(c)
    BY <2>11, MmHandlePageFaultFits
  <2> QED BY <1>4, <2>1, <2>2, <2>3, <2>4, <2>5, <2>6, <2>7, <2>8, <2>9, <2>10, <2>11 DEF Step
<1> QED BY <1>1, <1>2, <1>3, <1>4 DEF Next

\* A use as the invariant has it.
Known(use, key) ==
  /\ UsedAs(use[1], key, FrameOf(use))
  /\ use[1] = "free" => use = <<"free", use[2]>> /\ use[2] \in DOMAIN free /\ FrameOf(use) = free[use[2]]
  /\ use[1] = "device" => use = <<"device", FrameOf(use)>>
  /\ use[1] = "held" => /\ use = <<"held", key, use[3]>> /\ use[3] \in DOMAIN core[key].reg
                        /\ FrameOf(use) = core[key].reg[use[3]]
  /\ use[1] \in {"table", "section", "page"} => use = <<use[1], key>>

\* Every use is one that the invariant knows.
LEMMA UsesAreKnown ==
  ASSUME NEW use \in Uses
  PROVE  \E key : Known(use, key)
<1>1. ASSUME NEW i \in DOMAIN free, use = <<"free", i>> PROVE Known(use, 0)
  <2>1. use[1] = "free" /\ use[2] = i /\ FrameOf(use) = free[i] /\ free[i] \in ToSet(free)
    BY <1>1 DEF FrameOf, ToSet
  <2> QED BY <1>1, <2>1 DEF Known, UsedAs
<1>2. ASSUME NEW e \in DOMAIN tables, use = <<"table", e>> PROVE Known(use, e)
  <2>1. use[1] = "table" /\ use[2] = e /\ FrameOf(use) = tables[e]
    BY <1>2 DEF FrameOf
  <2> QED BY <1>2, <2>1 DEF Known, UsedAs
<1>3. ASSUME NEW i \in DOMAIN mappings, mappings[i] # None, use = <<"section", i>> PROVE Known(use, i)
  <2>1. use[1] = "section" /\ use[2] = i /\ FrameOf(use) = mappings[i]
    BY <1>3 DEF FrameOf
  <2> QED BY <1>3, <2>1 DEF Known, UsedAs
<1>4. ASSUME NEW f \in Frames, flags[f] = 4, use = <<"device", f>> PROVE Known(use, 0)
  <2>1. use[1] = "device" /\ use[2] = f /\ FrameOf(use) = f
    BY <1>4 DEF FrameOf
  <2> QED BY <1>4, <2>1 DEF Known, UsedAs
<1>5. ASSUME NEW c \in Cores, NEW i \in DOMAIN core[c].reg, use = <<"held", c, i>> PROVE Known(use, c)
  <2>1. /\ use[1] = "held" /\ use[2] = c /\ use[3] = i
        /\ FrameOf(use) = core[c].reg[i] /\ core[c].reg[i] \in ToSet(core[c].reg)
    BY <1>5 DEF FrameOf, ToSet
  <2> QED BY <1>5, <2>1 DEF Known, UsedAs
<1>6. ASSUME NEW e \in OwnPages, use = <<"page", e>> PROVE Known(use, e)
  <2>1. use[1] = "page" /\ use[2] = e /\ FrameOf(use) = pte[e].frame
    BY <1>6 DEF FrameOf
  <2> QED BY <1>6, <2>1 DEF Known, UsedAs
<1> HIDE DEF Known
<1>7. \/ \E i \in DOMAIN free : use = <<"free", i>>
      \/ \E e \in DOMAIN tables : use = <<"table", e>>
      \/ \E i \in DOMAIN mappings : mappings[i] # None /\ use = <<"section", i>>
      \/ \E f \in Frames : flags[f] = 4 /\ use = <<"device", f>>
      \/ \E c \in Cores : \E i \in DOMAIN core[c].reg : use = <<"held", c, i>>
      \/ \E e \in OwnPages : use = <<"page", e>>
  <2> DEFINE A == {<<"free", i>> : i \in DOMAIN free}
             B == {<<"table", e>> : e \in DOMAIN tables}
             C == {<<"section", i>> : i \in {j \in DOMAIN mappings : mappings[j] # None}}
             D == {<<"device", f>> : f \in {g \in Frames : flags[g] = 4}}
             E == UNION {{<<"held", c, i>> : i \in DOMAIN core[c].reg} : c \in Cores}
             F == {<<"page", e>> : e \in OwnPages}
  <2>1. use \in A \cup B \cup C \cup D \cup E \cup F
    BY Zenon DEF Uses
  <2>2. use \in A => \E i \in DOMAIN free : use = <<"free", i>>
    OBVIOUS
  <2>3. use \in B => \E e \in DOMAIN tables : use = <<"table", e>>
    OBVIOUS
  <2>4. use \in C => \E i \in DOMAIN mappings : mappings[i] # None /\ use = <<"section", i>>
    OBVIOUS
  <2>5. use \in D => \E f \in Frames : flags[f] = 4 /\ use = <<"device", f>>
    OBVIOUS
  <2>6. use \in E => \E c \in Cores : \E i \in DOMAIN core[c].reg : use = <<"held", c, i>>
    OBVIOUS
  <2>7. use \in F => \E e \in OwnPages : use = <<"page", e>>
    OBVIOUS
  <2> HIDE DEF A, B, C, D, E, F
  <2> QED BY <2>1, <2>2, <2>3, <2>4, <2>5, <2>6, <2>7
<1> QED BY <1>1, <1>2, <1>3, <1>4, <1>5, <1>6, <1>7

\* Two uses of a frame are the same.
LEMMA KnownUsesDiffer ==
  ASSUME FrameInv
  PROVE  FramesHaveOneUse
<1>1. ASSUME NEW use \in Uses, NEW other \in Uses, FrameOf(use) = FrameOf(other) PROVE use = other
  <2>1. PICK key : Known(use, key)
    BY UsesAreKnown
  <2>2. PICK index : Known(other, index)
    BY UsesAreKnown
  <2>3. PICK f, kind : f = FrameOf(use) /\ kind = use[1]
    OBVIOUS
  <2>4. UsedAs(kind, key, f) /\ UsedAs(other[1], index, f)
    BY <1>1, <2>1, <2>2, <2>3 DEF Known
  <2>5. other[1] = kind /\ index = key
    BY <2>4 DEF FrameInv, OneUse
  <2>6. CASE kind = "free"
    <3>1. /\ use = <<"free", use[2]>> /\ use[2] \in DOMAIN free /\ f = free[use[2]]
          /\ other = <<"free", other[2]>> /\ other[2] \in DOMAIN free /\ f = free[other[2]]
      BY <1>1, <2>1, <2>2, <2>3, <2>5, <2>6 DEF Known
    <3>2. use[2] = other[2]
      BY <3>1 DEF FrameInv, ListsFit, IsInjective
    <3> QED BY <3>1, <3>2
  <2>7. CASE kind = "device"
    <3>1. use = <<"device", f>> /\ other = <<"device", f>>
      BY <1>1, <2>1, <2>2, <2>3, <2>5, <2>7 DEF Known
    <3> QED BY <3>1
  <2>8. CASE kind = "held"
    <3>1. /\ use = <<"held", key, use[3]>> /\ use[3] \in DOMAIN core[key].reg /\ f = core[key].reg[use[3]]
          /\ other = <<"held", key, other[3]>> /\ other[3] \in DOMAIN core[key].reg
          /\ f = core[key].reg[other[3]]
      BY <1>1, <2>1, <2>2, <2>3, <2>5, <2>8 DEF Known
    <3>2. key \in Cores
      BY <2>4, <2>8 DEF UsedAs
    <3>3. IsInjective(core[key].reg)
      BY <3>2 DEF FrameInv, RegFits
    <3>4. use[3] = other[3]
      BY <3>1, <3>3 DEF IsInjective
    <3> QED BY <3>1, <3>4
  <2>9. CASE kind \in {"table", "section", "page"}
    <3>1. use = <<kind, key>> /\ other = <<kind, key>>
      BY <2>1, <2>2, <2>3, <2>5, <2>9 DEF Known
    <3> QED BY <3>1
  <2> QED BY <2>4, <2>6, <2>7, <2>8, <2>9 DEF UsedAs
<1>2. IsInjective([use \in Uses |-> FrameOf(use)])
  BY <1>1 DEF IsInjective
<1>3. ASSUME NEW use \in Uses, FrameOf(use) \in BootFrames PROVE use[1] = "page"
  <2>1. PICK key : UsedAs(use[1], key, FrameOf(use))
    BY UsesAreKnown DEF Known
  <2> QED BY <1>3, <2>1 DEF FrameInv, BootApart
<1> QED BY <1>2, <1>3 DEF FramesHaveOneUse

\* Whatever the cores do, in whatever order, the free list, the page tables, the
\* section, the device, what cores hold and the pages of their own have no frame in
\* common, from the first list of the stub to page faults in the running kernel
\* (MmReinitPhysAllocator, MiFlagPfnsForRemap, MmAllocatePfn, MmAllocatePfnRegion,
\* MmFreePfn, PagingMapPage, PspCreateKernelStack).
THEOREM FrameInvariance == Spec => []FrameInv
<1>1. Init => FrameInv
  BY FrameInvInit
<1>2. MemoryInv /\ FrameInv /\ [Next]_vars => FrameInv'
  BY FramesKept
<1> QED BY <1>1, <1>2, MemoryInvariance, PTL DEF Spec

\* A page frame is never used for two things, and what the boot loader marked is in
\* pages only (MmReinitPhysAllocator, MmAllocatePfn, MmFreePfn).
THEOREM FramesAreKeptApart == Spec => []FramesHaveOneUse
<1>1. FrameInv => FramesHaveOneUse
  BY KnownUsesDiffer
<1> QED BY <1>1, FrameInvariance, PTL
=============================================================================
