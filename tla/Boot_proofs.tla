----------------------------- MODULE Boot_proofs -----------------------------
(***************************************************************************)
(* The boot loads each module once, binds its imports to exports of the    *)
(* right name, and hands the kernel modules, pages, frames and files that  *)
(* are where it says, for any images that fit together.                    *)
(***************************************************************************)
EXTENDS Boot, ListLemmas

(***************************************************************************)
(* The inductive invariant.                                                *)
(***************************************************************************)

\* What a module's record holds, whatever happens to the module later: its
\* exports are those of its image at the place where it is now.
IsModule(m) ==
  /\ m = [name |-> m.name, start |-> m.start, base |-> m.base, original |-> m.original,
          exports |-> m.exports, slots |-> m.slots, pointers |-> m.pointers]
  /\ m.name \in DOMAIN Images /\ m.start \in Frames /\ m.base \in Nat
  /\ m.exports = HandleExportDirectory(m.name, m.base)
  /\ m.slots = [i \in DOMAIN Images[m.name].imports |->
                  [export |-> m.slots[i].export, value |-> m.slots[i].value]]

StackRecords == [image : DOMAIN Images, import : Nat \ {0}]
FileRecords == [name : DOMAIN FileFrames, start : Frames]

TypesInv ==
  /\ TypeOK
  /\ modules \in Seq(ToSet(modules)) /\ \A i \in DOMAIN modules : IsModule(modules[i])
  /\ stack \in Seq(StackRecords)
  /\ files \in Seq(FileRecords) /\ preloaded \in Seq(FileRecords)
  /\ safeBase \in Nat

\* What has not begun yet.
PhaseInv ==
  /\ phase \notin {"load", "stopped"} => stack = <<>>
  /\ phase \in {"load", "preload", "map"} => table = {}
  /\ phase \notin {"remap", "bind", "kernel"} => next = 1
  /\ phase \notin {"bind", "kernel"} => preloaded = <<>>

\* The images being loaded are in LoadedModules, each once on the stack.
StackInv ==
  /\ \A j \in DOMAIN stack : stack[j].image \in Loaded
  /\ \A j, k \in DOMAIN stack : stack[j].image = stack[k].image => j = k

FileRun(i) == Run(files[i].start, FileFrames[files[i].name])

\* Until the map is taken the frames are allocated, and then none is marked free.
FramesInv ==
  /\ phase \in {"load", "preload", "map"} =>
       /\ \A i \in DOMAIN modules : ModuleFrames(i) \subseteq used
       /\ \A i \in DOMAIN files : FileRun(i) \subseteq used
  /\ phase \in {"exit", "remap", "bind", "kernel"} =>
       \A f \in DOMAIN flags : flags[f] = 0 =>
         /\ \A i \in DOMAIN modules : f \notin ModuleFrames(i)
         /\ \A i \in DOMAIN files : f \notin FileRun(i)

FilesInv ==
  /\ data = {files[i].name : i \in DOMAIN files}
  /\ \A i \in DOMAIN preloaded : preloaded[i] = files[i]
  /\ phase = "kernel" => Len(preloaded) = Len(files)

ExportName(n, o) == HandleExportDirectory(n, 0)[o].name
ImportOf(m, i) == Images[modules[m].name].imports[i]

\* The import is bound: its module is not being loaded, or is further on.
Handled(m, i) ==
  \A j \in DOMAIN stack : stack[j].image = modules[m].name => i < stack[j].import

\* A bound slot leads to an export of the name it asks for.
SlotsInv ==
  \A m \in DOMAIN modules : \A i \in DOMAIN Images[modules[m].name].imports :
    Handled(m, i) =>
      \E e \in DOMAIN modules, o \in 1 .. Images[ImportOf(m, i).from].functions :
        /\ modules[m].slots[i].export = <<e, o>>
        /\ modules[e].name = ImportOf(m, i).from
        /\ ExportName(ImportOf(m, i).from, o) = ImportOf(m, i).name

\* The slots of the modules that the stub has bound are those of the export's
\* module where it is now.
ValuesInv ==
  \A m \in DOMAIN modules : phase = "kernel" \/ (phase = "bind" /\ m < next) =>
    \A i \in DOMAIN Images[modules[m].name].imports :
      modules[m].slots[i].value =
        Address(modules[modules[m].slots[i].export[1]].exports[modules[m].slots[i].export[2]])

BInv == TypesInv /\ PhaseInv /\ LoadedOnce /\ StackInv /\ FramesInv /\ FilesInv
        /\ SlotsInv /\ ValuesInv

\* The stub has moved module i.
Moved(i) == phase \in {"bind", "kernel"} \/ (phase = "remap" /\ i < next)

\* The pages of the modules that have been moved are mapped, below all others.
PagesInv ==
  /\ \A page \in DOMAIN mapped : page \in Nat /\ page < safeBase
  /\ \A i \in DOMAIN modules : Moved(i) =>
       \A s \in SectionPages(modules[i]) :
         /\ modules[i].base + s.page \in DOMAIN mapped
         /\ mapped[modules[i].base + s.page] =
              [frame |-> modules[i].original + s.page, user |-> s.user, write |-> s.write]

\* The images fit together: every import is exported, and the names are in the
\* order of their ordinals, for the name of an export is looked up with its
\* ordinal.
ImagesFit ==
  \A n \in DOMAIN Images :
    /\ \A k \in DOMAIN Images[n].ordinals :
         /\ Images[n].ordinals[k] \in 1 .. Images[n].functions
         /\ Images[n].names[Images[n].ordinals[k]] = Images[n].names[k]
    /\ \A i \in DOMAIN Images[n].imports :
         LET import == Images[n].imports[i]
         IN  /\ import.name # "none"
             /\ \E k \in DOMAIN Images[import.from].names :
                  Images[import.from].names[k] = import.name

\* No page belongs to two sections of an image.
SectionsApart ==
  \A n \in DOMAIN Images : \A i, j \in DOMAIN Images[n].sections :
    LET a == Images[n].sections[i]
        b == Images[n].sections[j]
    IN  i # j => a.first + a.pages <= b.first \/ b.first + b.pages <= a.first
-----------------------------------------------------------------------------
(***************************************************************************)
(* Sequences of records.                                                   *)
(***************************************************************************)

\* A sequence is one of its own elements.
LEMMA Tight ==
  ASSUME NEW S, NEW s \in Seq(S)
  PROVE  s \in Seq(ToSet(s)) /\ Len(s) \in Nat /\ DOMAIN s = 1 .. Len(s)
BY DEF ToSet

\* A sequence with one more element.
LEMMA Appended ==
  ASSUME NEW S, NEW s \in Seq(S), NEW e
  PROVE  /\ Append(s, e) \in Seq(ToSet(Append(s, e)))
         /\ Len(Append(s, e)) = Len(s) + 1 /\ DOMAIN Append(s, e) = 1 .. Len(s) + 1
         /\ \A i \in 1 .. Len(s) : Append(s, e)[i] = s[i]
         /\ Append(s, e)[Len(s) + 1] = e
<1>1. s \in Seq(S \cup {e}) /\ e \in S \cup {e}
  OBVIOUS
<1>2. PICK w : w = Append(s, e)
  OBVIOUS
<1>3. w \in Seq(S \cup {e}) /\ Len(w) = Len(s) + 1 /\ w[Len(s) + 1] = e
      /\ \A i \in 1 .. Len(s) : w[i] = s[i]
  BY <1>1, <1>2, AppendProperties
<1>4. w \in Seq(ToSet(w))
  BY <1>3, Tight
<1> QED BY <1>2, <1>3, <1>4

\* A sequence with another element in one place.
LEMMA Replaced ==
  ASSUME NEW S, NEW s \in Seq(S), NEW k \in 1 .. Len(s), NEW e
  PROVE  /\ [s EXCEPT ![k] = e] \in Seq(ToSet([s EXCEPT ![k] = e]))
         /\ Len([s EXCEPT ![k] = e]) = Len(s) /\ DOMAIN [s EXCEPT ![k] = e] = DOMAIN s
         /\ \A i \in 1 .. Len(s) : [s EXCEPT ![k] = e][i] = IF i = k THEN e ELSE s[i]
<1>1. PICK w : w = [s EXCEPT ![k] = e]
  OBVIOUS
<1>2. w \in Seq(S \cup {e}) /\ Len(w) = Len(s)
  BY <1>1
<1>3. w \in Seq(ToSet(w))
  BY <1>2, Tight
<1>4. \A i \in 1 .. Len(s) : w[i] = IF i = k THEN e ELSE s[i]
  BY <1>1
<1> QED BY <1>1, <1>2, <1>3, <1>4

\* A sequence behind one more element.
LEMMA Pushed ==
  ASSUME NEW S, NEW s \in Seq(S), NEW e \in S
  PROVE  /\ <<e>> \o s \in Seq(S) /\ Len(<<e>> \o s) = Len(s) + 1
         /\ (<<e>> \o s)[1] = e
         /\ \A j \in 1 .. Len(s) : (<<e>> \o s)[j + 1] = s[j]
<1>1. <<e>> \in Seq(S) /\ Len(<<e>>) = 1 /\ <<e>>[1] = e
  OBVIOUS
<1>2. /\ <<e>> \o s \in Seq(S) /\ Len(<<e>> \o s) = 1 + Len(s)
      /\ \A i \in 1 .. 1 + Len(s) : (<<e>> \o s)[i] = IF i <= 1 THEN <<e>>[i] ELSE s[i - 1]
  BY <1>1, ConcatProperties
<1>3. Len(s) \in Nat
  OBVIOUS
<1>4. (<<e>> \o s)[1] = e
  BY <1>1, <1>2, <1>3
<1>5. \A j \in 1 .. Len(s) : (<<e>> \o s)[j + 1] = s[j]
  BY <1>2, <1>3
<1> QED BY <1>2, <1>3, <1>4, <1>5

\* What all records of LoadedModules have.
LEMMA ModuleShape ==
  ASSUME TypesInv
  PROVE  /\ Len(modules) \in Nat /\ DOMAIN modules = 1 .. Len(modules)
         /\ \A i \in 1 .. Len(modules) : IsModule(modules[i])
         /\ Len(stack) \in Nat /\ DOMAIN stack = 1 .. Len(stack)
         /\ \A j \in 1 .. Len(stack) :
              stack[j] \in StackRecords /\ stack[j].image \in DOMAIN Images
              /\ stack[j].import \in Nat \ {0}
<1>1. Len(modules) \in Nat /\ DOMAIN modules = 1 .. Len(modules)
  BY DEF TypesInv
<1>2. Len(stack) \in Nat /\ DOMAIN stack = 1 .. Len(stack)
  BY DEF TypesInv
<1>3. \A j \in 1 .. Len(stack) : stack[j] \in StackRecords
  BY DEF TypesInv
<1> QED BY <1>1, <1>2, <1>3 DEF TypesInv, StackRecords

\* The module of a name in LoadedModules is found.
LEMMA Found ==
  ASSUME NEW n, n \in Loaded
  PROVE  /\ TryFindLoadedModule(n) \in DOMAIN modules
         /\ modules[TryFindLoadedModule(n)].name = n
BY DEF Loaded, TryFindLoadedModule

-----------------------------------------------------------------------------
(***************************************************************************)
(* The steps.                                                              *)
(***************************************************************************)

\* The exports of an image and their names do not depend on where it is.
LEMMA ExportNames ==
  ASSUME NEW f, NEW b
  PROVE  /\ DOMAIN HandleExportDirectory(f, b) = 1 .. Images[f].functions
         /\ \A o \in 1 .. Images[f].functions :
              HandleExportDirectory(f, b)[o].name = ExportName(f, o)
<1>1. DOMAIN HandleExportDirectory(f, b) = 1 .. Images[f].functions
  BY DEF HandleExportDirectory
<1>2. ASSUME NEW o \in 1 .. Images[f].functions
      PROVE  HandleExportDirectory(f, b)[o].name = ExportName(f, o)
  <2>1. PICK s : s = IF \E i \in DOMAIN Images[f].ordinals : Images[f].ordinals[i] = o
                     THEN Images[f].names[o] ELSE "none"
    OBVIOUS
  <2>2. HandleExportDirectory(f, b)[o] = [base |-> b, fn |-> o, name |-> s]
    BY <2>1 DEF HandleExportDirectory
  <2>3. HandleExportDirectory(f, 0)[o] = [base |-> 0, fn |-> o, name |-> s]
    BY <2>1 DEF HandleExportDirectory
  <2> QED BY <2>2, <2>3 DEF ExportName
<1> QED BY <1>1, <1>2

\* Nothing is loaded at the start.
LEMMA InitialBoot ==
  ASSUME Init
  PROVE  BInv /\ PagesInv /\ ImportsResolve
<1>1. modules = <<>> /\ stack = <<>> /\ files = <<>> /\ preloaded = <<>> /\ flags = <<>>
      /\ mapped = <<>> /\ data = {} /\ phase = "load" /\ used = Reserved /\ table = {}
      /\ paths = 1 /\ next = 1 /\ safeBase = 0
  BY DEF Init
<1>2. TypesInv
  <2>1. DOMAIN modules = {} /\ DOMAIN flags = {} /\ Len(modules) = 0 /\ Len(files) = 0
        /\ Len(preloaded) = 0 /\ Len(Preload) \in Nat
    BY <1>1, BootAssumption
  <2>2. TypeOK
    BY <1>1, <2>1, BootAssumption DEF TypeOK, Frames
  <2>3. modules \in Seq(ToSet(modules)) /\ stack \in Seq(StackRecords)
        /\ files \in Seq(FileRecords) /\ preloaded \in Seq(FileRecords)
    BY <1>1
  <2> QED BY <1>1, <2>1, <2>2, <2>3 DEF TypesInv
<1>3. DOMAIN modules = {} /\ DOMAIN stack = {} /\ DOMAIN files = {} /\ DOMAIN preloaded = {}
      /\ DOMAIN flags = {} /\ DOMAIN mapped = {}
  BY <1>1
<1>4. PhaseInv /\ LoadedOnce /\ StackInv /\ FramesInv
  BY <1>1, <1>3 DEF PhaseInv, LoadedOnce, StackInv, FramesInv
<1>5. FilesInv /\ SlotsInv /\ ValuesInv /\ PagesInv /\ ImportsResolve
  BY <1>1, <1>3 DEF FilesInv, SlotsInv, ValuesInv, PagesInv, ImportsResolve
<1> QED BY <1>2, <1>4, <1>5 DEF BInv

\* The steps that leave the modules and the stack alone, and do not go from
\* one half of the boot to the other.
LEMMA ModulesUnchanged ==
  ASSUME BInv, modules' = modules, stack' = stack
  PROVE  /\ LoadedOnce' /\ StackInv' /\ SlotsInv'
         /\ \A i : ModuleFrames(i)' = ModuleFrames(i)
         /\ modules' \in Seq(ToSet(modules')) /\ \A i \in DOMAIN modules' : IsModule(modules'[i])
         /\ stack' \in Seq(StackRecords)
<1>1. LoadedOnce'
  BY DEF BInv, LoadedOnce
<1>2. StackInv'
  BY DEF BInv, StackInv, Loaded
<1>3. \A m, i : Handled(m, i)' <=> Handled(m, i)
  BY DEF Handled
<1>4. \A m, i : ImportOf(m, i)' = ImportOf(m, i)
  BY DEF ImportOf
<1>5. SlotsInv'
  BY <1>3, <1>4 DEF BInv, SlotsInv
<1>6. \A i : ModuleFrames(i)' = ModuleFrames(i)
  BY DEF ModuleFrames
<1> QED BY <1>1, <1>2, <1>5, <1>6 DEF BInv, TypesInv

\* An image that is not there yet is loaded behind all others and put on the
\* stack before its imports are looked at.
LEMMA LoadStep ==
  ASSUME BInv, phase = "load", phase' = "load",
         NEW n \in DOMAIN Images, n \notin Loaded, NEW start \in Frames,
         LoadImage(n, start, stack),
         UNCHANGED <<paths, files, data, bootVars, stubVars, failures>>
  PROVE  BInv'
<1>1. PICK e : e = [name |-> n, start |-> start, base |-> start + 1, original |-> start + 1,
                    exports |-> HandleExportDirectory(n, start + 1),
                    slots |-> [i \in DOMAIN Images[n].imports |->
                                 [export |-> <<>>, value |-> <<>>]],
                    pointers |-> Images[n].preferred]
  OBVIOUS
<1>2. PICK L : L = Len(modules)
  OBVIOUS
<1>3. PICK top : top = [image |-> n, import |-> 1]
  OBVIOUS
<1>4. /\ modules' = Append(modules, e) /\ stack' = <<top>> \o stack
      /\ used' = used \cup Run(start, TotalPages(n))
      /\ Run(start, TotalPages(n)) \subseteq Frames
  BY <1>1, <1>3 DEF LoadImage, FreeRuns
<1>5. /\ paths' = paths /\ files' = files /\ data' = data /\ flags' = flags /\ table' = table
      /\ mapSize' = mapSize /\ mapped' = mapped /\ safeBase' = safeBase /\ next' = next
      /\ preloaded' = preloaded
  BY DEF bootVars, stubVars
<1>6. TypesInv /\ L \in Nat /\ DOMAIN modules = 1 .. L
      /\ \A i \in 1 .. L : IsModule(modules[i])
  BY <1>2, ModuleShape DEF BInv
<1>7. /\ modules' \in Seq(ToSet(modules')) /\ Len(modules') = L + 1 /\ DOMAIN modules' = 1 .. L + 1
      /\ \A i \in 1 .. L : modules'[i] = modules[i]
      /\ modules'[L + 1] = e
  <2>1. modules \in Seq(ToSet(modules))
    BY <1>6 DEF TypesInv
  <2> QED BY <1>2, <1>4, <2>1, Appended
<1>8. IsModule(e) /\ e.name = n /\ e.start = start
  <2>1. start + 1 \in Nat
    BY BootAssumption DEF Frames
  <2> QED BY <1>1, <2>1 DEF IsModule
<1>9. top \in StackRecords /\ stack \in Seq(StackRecords) /\ Len(stack) \in Nat
      /\ DOMAIN stack = 1 .. Len(stack)
  BY <1>3, <1>6, ModuleShape DEF StackRecords, TypesInv
<1>10. /\ stack' \in Seq(StackRecords) /\ Len(stack') = Len(stack) + 1
       /\ stack'[1] = top /\ \A j \in 1 .. Len(stack) : stack'[j + 1] = stack[j]
       /\ DOMAIN stack' = 1 .. Len(stack) + 1
  BY <1>4, <1>9, Pushed
<1>11. \A j \in 1 .. Len(stack) + 1 : j = 1 \/ (j - 1 \in 1 .. Len(stack) /\ stack'[j] = stack[j - 1])
  <2> TAKE j \in 1 .. Len(stack) + 1
  <2>1. CASE j = 1
    BY <2>1
  <2>2. CASE j # 1
    <3>1. j - 1 \in 1 .. Len(stack) /\ j - 1 + 1 = j
      BY <1>9, <2>2
    <3> QED BY <1>10, <3>1
  <2> QED BY <2>1, <2>2
<1>12. TypesInv'
  <2>1. \A i \in DOMAIN modules' : IsModule(modules'[i])
    BY <1>6, <1>7, <1>8
  <2>2. \A i \in DOMAIN modules' : modules'[i].name \in DOMAIN Images /\ modules'[i].start \in Frames
    BY <2>1 DEF IsModule
  <2>3. used' \subseteq Frames /\ table' \subseteq used'
    BY <1>4, <1>5, <1>6 DEF TypesInv, TypeOK
  <2>4. next' \in 1 .. Len(modules') + 1
    BY <1>2, <1>5, <1>6, <1>7 DEF TypesInv, TypeOK
  <2>5. TypeOK'
    BY <1>5, <1>6, <2>2, <2>3, <2>4 DEF TypesInv, TypeOK
  <2> QED BY <1>5, <1>6, <1>7, <1>10, <2>1, <2>5 DEF TypesInv
<1>13. PhaseInv'
  BY <1>5 DEF BInv, PhaseInv
<1>14. Loaded' = Loaded \cup {n}
  BY <1>6, <1>7, <1>8 DEF Loaded
<1>15. LoadedOnce'
  <2>1. \A i \in 1 .. L : modules[i].name # n
    BY <1>6 DEF Loaded
  <2> QED BY <1>6, <1>7, <1>8, <2>1 DEF BInv, LoadedOnce
<1>16. StackInv'
  <2>1. /\ \A j \in 1 .. Len(stack) : stack[j].image \in Loaded
        /\ \A j, k \in 1 .. Len(stack) : stack[j].image = stack[k].image => j = k
    BY <1>9 DEF BInv, StackInv
  <2>2. top.image = n
    BY <1>3
  <2>3. \A j \in 1 .. Len(stack) + 1 : stack'[j].image \in Loaded'
    BY <1>10, <1>11, <1>14, <2>1, <2>2
  <2>4. ASSUME NEW j \in 1 .. Len(stack) + 1, NEW k \in 1 .. Len(stack) + 1,
               stack'[j].image = stack'[k].image
        PROVE  j = k
    <3>1. CASE j = 1 /\ k = 1
      BY <3>1
    <3>2. CASE j = 1 /\ k # 1
      <4>1. k - 1 \in 1 .. Len(stack) /\ stack[k - 1].image = n
        BY <1>10, <1>11, <2>2, <2>4, <3>2
      <4> QED BY <2>1, <4>1
    <3>3. CASE j # 1 /\ k = 1
      <4>1. j - 1 \in 1 .. Len(stack) /\ stack[j - 1].image = n
        BY <1>10, <1>11, <2>2, <2>4, <3>3
      <4> QED BY <2>1, <4>1
    <3>4. CASE j # 1 /\ k # 1
      <4>1. j - 1 \in 1 .. Len(stack) /\ k - 1 \in 1 .. Len(stack)
            /\ stack[j - 1].image = stack[k - 1].image
        BY <1>11, <2>4, <3>4
      <4>2. j - 1 = k - 1
        BY <2>1, <4>1
      <4> QED BY <1>9, <4>2
    <3> QED BY <3>1, <3>2, <3>3, <3>4
  <2> QED BY <1>10, <2>3, <2>4 DEF StackInv
<1>17. FramesInv'
  <2>1. /\ \A i \in 1 .. L : ModuleFrames(i) \subseteq used
        /\ \A i \in DOMAIN files : FileRun(i) \subseteq used
    BY <1>6 DEF BInv, FramesInv
  <2>2. \A i \in 1 .. L : ModuleFrames(i)' = ModuleFrames(i)
    BY <1>7 DEF ModuleFrames
  <2>3. ModuleFrames(L + 1)' = Run(start, TotalPages(n))
    BY <1>7, <1>8 DEF ModuleFrames
  <2>4. \A i : FileRun(i)' = FileRun(i)
    BY <1>5 DEF FileRun
  <2>5. \A i \in DOMAIN modules' : ModuleFrames(i)' \subseteq used'
    BY <1>4, <1>6, <1>7, <2>1, <2>2, <2>3
  <2>6. \A i \in DOMAIN files' : FileRun(i)' \subseteq used'
    BY <1>4, <1>5, <2>1, <2>4
  <2> QED BY <2>5, <2>6 DEF FramesInv
<1>18. FilesInv'
  BY <1>5 DEF BInv, FilesInv
<1>19. SlotsInv'
  <2>1. ASSUME NEW m \in 1 .. L + 1, NEW i \in DOMAIN Images[modules'[m].name].imports,
               Handled(m, i)'
        PROVE  \E x \in DOMAIN modules', o \in 1 .. Images[ImportOf(m, i)'.from].functions :
                 /\ modules'[m].slots[i].export = <<x, o>>
                 /\ modules'[x].name = ImportOf(m, i)'.from
                 /\ ExportName(ImportOf(m, i)'.from, o) = ImportOf(m, i)'.name
    <3>1. CASE m = L + 1
      <4>1. 1 \in DOMAIN stack' /\ stack'[1].image = modules'[m].name /\ stack'[1].import = 1
        BY <1>3, <1>7, <1>8, <1>9, <1>10, <3>1
      <4>2. i < 1
        BY <2>1, <4>1 DEF Handled
      <4>3. i \in 1 .. Len(Images[n].imports) /\ Len(Images[n].imports) \in Nat
        <5>1. i \in DOMAIN Images[n].imports
          BY <1>7, <1>8, <3>1
        <5>2. Images[n].imports \in Seq([from : DOMAIN Images, name : STRING])
          BY BootAssumption
        <5> QED BY <5>1, <5>2
      <4> QED BY <4>2, <4>3
    <3>2. CASE m \in 1 .. L
      <4>1. modules'[m] = modules[m] /\ ImportOf(m, i)' = ImportOf(m, i)
        BY <1>7, <3>2 DEF ImportOf
      <4>2. Handled(m, i)
        <5>1. ASSUME NEW j \in DOMAIN stack, stack[j].image = modules[m].name
              PROVE  i < stack[j].import
          <6>1. j + 1 \in DOMAIN stack' /\ stack'[j + 1] = stack[j]
            BY <1>9, <1>10
          <6> QED BY <2>1, <4>1, <5>1, <6>1 DEF Handled
        <5> QED BY <5>1 DEF Handled
      <4>3. PICK x \in DOMAIN modules, o \in 1 .. Images[ImportOf(m, i).from].functions :
              /\ modules[m].slots[i].export = <<x, o>>
              /\ modules[x].name = ImportOf(m, i).from
              /\ ExportName(ImportOf(m, i).from, o) = ImportOf(m, i).name
        BY <1>6, <2>1, <3>2, <4>1, <4>2 DEF BInv, SlotsInv
      <4>4. x \in DOMAIN modules' /\ modules'[x] = modules[x]
        BY <1>6, <1>7
      <4> QED BY <4>1, <4>3, <4>4
    <3> QED BY <1>6, <3>1, <3>2
  <2> QED BY <1>7, <2>1 DEF SlotsInv
<1>20. ValuesInv'
  BY DEF ValuesInv
<1> QED BY <1>12, <1>13, <1>15, <1>16, <1>17, <1>18, <1>19, <1>20 DEF BInv

\* The boot stops and leaves the rest as it is.
LEMMA StopStep ==
  ASSUME BInv, phase' = "stopped", phase \in {"load", "preload", "map", "exit"},
         UNCHANGED <<used, modules, stack, paths, files, data, bootVars, stubVars>>
  PROVE  BInv'
<1>1. /\ modules' = modules /\ stack' = stack
      /\ used' = used /\ paths' = paths /\ files' = files /\ data' = data /\ flags' = flags
      /\ table' = table
      /\ mapSize' = mapSize /\ mapped' = mapped /\ safeBase' = safeBase /\ next' = next
      /\ preloaded' = preloaded
  BY DEF bootVars, stubVars
<1>2. LoadedOnce' /\ StackInv' /\ SlotsInv'
  BY <1>1, ModulesUnchanged
<1>3. TypesInv'
  BY <1>1, ModulesUnchanged DEF BInv, TypesInv, TypeOK
<1>4. PhaseInv' /\ FramesInv' /\ FilesInv' /\ ValuesInv'
  BY <1>1 DEF BInv, PhaseInv, FramesInv, FilesInv, ValuesInv
<1> QED BY <1>2, <1>3, <1>4 DEF BInv

\* The steps that change modules keep their names and their frames.
LEMMA ModulesKept ==
  ASSUME BInv, modules' \in Seq(ToSet(modules')), Len(modules') = Len(modules),
         \A i \in 1 .. Len(modules) :
           /\ IsModule(modules'[i])
           /\ modules'[i].name = modules[i].name /\ modules'[i].start = modules[i].start
  PROVE  /\ DOMAIN modules' = DOMAIN modules /\ DOMAIN modules = 1 .. Len(modules)
         /\ \A i \in DOMAIN modules' : IsModule(modules'[i])
         /\ Loaded' = Loaded /\ LoadedOnce'
         /\ \A i \in DOMAIN modules : ModuleFrames(i)' = ModuleFrames(i)
         /\ \A i \in DOMAIN modules' :
              modules'[i].name \in DOMAIN Images /\ modules'[i].start \in Frames
         /\ \A m \in DOMAIN modules : \A i : ImportOf(m, i)' = ImportOf(m, i)
<1>1. DOMAIN modules = 1 .. Len(modules)
  BY ModuleShape DEF BInv
<1>2. DOMAIN modules' = DOMAIN modules
  BY <1>1
<1>3. Loaded' = Loaded
  BY <1>1, <1>2 DEF Loaded
<1>4. LoadedOnce'
  BY <1>1, <1>2 DEF BInv, LoadedOnce
<1>5. \A i \in DOMAIN modules : ModuleFrames(i)' = ModuleFrames(i)
  BY <1>1 DEF ModuleFrames
<1>6. \A i \in DOMAIN modules' : IsModule(modules'[i])
  BY <1>1, <1>2
<1>7. \A m \in DOMAIN modules : \A i : ImportOf(m, i)' = ImportOf(m, i)
  BY <1>1 DEF ImportOf
<1> QED BY <1>1, <1>2, <1>3, <1>4, <1>5, <1>6, <1>7 DEF IsModule

\* An import whose module is there is bound to the first export of its name.
LEMMA BindStep ==
  ASSUME BInv, HandleImportDirectory
  PROVE  BInv'
<1>1. /\ phase = "load" /\ stack # <<>> /\ Current.import <= Len(Imports) /\ Wanted.from \in Loaded
      /\ UNCHANGED <<used, paths, files, data, bootVars, stubVars, failures>>
  BY DEF HandleImportDirectory, Importing
<1>2. PICK a, b, c : /\ a = TryFindLoadedModule(Current.image)
                     /\ b = TryFindLoadedModule(Wanted.from) /\ c = Current.import
  OBVIOUS
<1>3. CASE Stops /\ UNCHANGED <<modules, stack>>
  BY <1>1, <1>3, StopStep DEF Stops
<1>4. ASSUME NEW o \in TryFindLoadedExport(b, Wanted.name),
             modules' = [modules EXCEPT ![a].slots[c] =
                           [export |-> <<b, o>>, value |-> Address(modules[b].exports[o])]],
             stack' = [stack EXCEPT ![1].import = @ + 1], UNCHANGED phase
      PROVE  BInv'
  <2>1. /\ paths' = paths /\ files' = files /\ data' = data /\ flags' = flags /\ table' = table
        /\ used' = used /\ mapSize' = mapSize /\ mapped' = mapped /\ safeBase' = safeBase
        /\ next' = next /\ preloaded' = preloaded /\ phase' = "load"
    BY <1>1, <1>4 DEF bootVars, stubVars
  <2>2. PICK L : L = Len(modules)
    OBVIOUS
  <2>3. /\ TypesInv /\ L \in Nat /\ DOMAIN modules = 1 .. L
        /\ \A i \in 1 .. L : IsModule(modules[i])
        /\ Len(stack) \in Nat /\ DOMAIN stack = 1 .. Len(stack)
        /\ \A j \in 1 .. Len(stack) :
             stack[j] \in StackRecords /\ stack[j].image \in DOMAIN Images
             /\ stack[j].import \in Nat \ {0}
    BY <2>2, ModuleShape DEF BInv
  <2>4. stack \in Seq(StackRecords) /\ modules \in Seq(ToSet(modules))
    BY <2>3 DEF TypesInv
  <2>5. Current = stack[1] /\ 1 \in 1 .. Len(stack)
    BY <1>1, <2>3, <2>4 DEF Current
  <2>6. PICK n : n = Current.image
    OBVIOUS
  <2>7. n \in DOMAIN Images /\ n \in Loaded /\ c \in Nat \ {0} /\ stack[1].image = n
        /\ stack[1].import = c
    BY <1>2, <2>3, <2>5, <2>6 DEF BInv, StackInv
  <2>8. a \in 1 .. L /\ modules[a].name = n /\ b \in 1 .. L /\ modules[b].name = Wanted.from
    BY <1>1, <1>2, <2>3, <2>6, <2>7, Found
  <2>9. /\ Images[n].imports \in Seq([from : DOMAIN Images, name : STRING])
        /\ Imports = Images[n].imports /\ c \in 1 .. Len(Images[n].imports)
        /\ Len(Images[n].imports) \in Nat /\ DOMAIN Images[n].imports = 1 .. Len(Images[n].imports)
    <3>1. Images[n].imports \in Seq([from : DOMAIN Images, name : STRING])
      BY <2>7, BootAssumption
    <3>2. Imports = Images[n].imports
      BY <2>6 DEF Imports
    <3> QED BY <1>1, <1>2, <2>7, <3>1, <3>2
  <2>10. PICK w : w = Wanted
    OBVIOUS
  <2>11. w = Images[n].imports[c]
    BY <1>2, <2>9, <2>10 DEF Wanted
  <2>12. PICK slot : slot = [export |-> <<b, o>>, value |-> Address(modules[b].exports[o])]
    OBVIOUS
  <2>13. PICK M : M = modules[a]
    OBVIOUS
  <2>14. PICK N : N = [M EXCEPT !.slots[c] = slot]
    OBVIOUS
  <2>15. modules' = [modules EXCEPT ![a] = N]
    BY <1>4, <2>12, <2>13, <2>14
  <2>16. /\ modules' \in Seq(ToSet(modules')) /\ Len(modules') = L /\ DOMAIN modules' = 1 .. L
         /\ \A i \in 1 .. L : modules'[i] = IF i = a THEN N ELSE modules[i]
    BY <2>2, <2>3, <2>4, <2>8, <2>15, Replaced
  <2>17. /\ IsModule(M) /\ M.name = n
    BY <2>3, <2>8, <2>13
  <2>18. /\ N.name = M.name /\ N.start = M.start /\ N.base = M.base /\ N.exports = M.exports
         /\ N.original = M.original /\ N.pointers = M.pointers
         /\ N.slots = [M.slots EXCEPT ![c] = slot]
         /\ N = [name |-> N.name, start |-> N.start, base |-> N.base, original |-> N.original,
                 exports |-> N.exports, slots |-> N.slots, pointers |-> N.pointers]
    <3>1. M = [name |-> M.name, start |-> M.start, base |-> M.base, original |-> M.original,
               exports |-> M.exports, slots |-> M.slots, pointers |-> M.pointers]
      BY <2>17 DEF IsModule
    <3> QED BY <2>14, <3>1
  <2>19. DOMAIN M.slots = DOMAIN Images[n].imports /\ c \in DOMAIN M.slots
    BY <2>9, <2>17 DEF IsModule
  <2>20. \A i \in DOMAIN Images[n].imports : N.slots[i] = IF i = c THEN slot ELSE M.slots[i]
    BY <2>18, <2>19
  <2>21. IsModule(N)
    <3>1. N.slots = [i \in DOMAIN Images[n].imports |-> N.slots[i]]
      <4>1. M.slots = [i \in DOMAIN Images[n].imports |-> M.slots[i]]
        BY <2>17 DEF IsModule
      <4> QED BY <2>18, <4>1
    <3>2. \A i \in DOMAIN Images[n].imports :
            N.slots[i] = [export |-> N.slots[i].export, value |-> N.slots[i].value]
      <4> TAKE i \in DOMAIN Images[n].imports
      <4>1. CASE i = c
        BY <2>12, <2>20, <4>1
      <4>2. CASE i # c
        <5>1. N.slots[i] = M.slots[i]
          BY <2>20, <4>2
        <5>2. M.slots[i] = [export |-> M.slots[i].export, value |-> M.slots[i].value]
          BY <2>17 DEF IsModule
        <5> QED BY <5>1, <5>2
      <4> QED BY <4>1, <4>2
    <3>3. N.slots = [i \in DOMAIN Images[n].imports |->
                       [export |-> N.slots[i].export, value |-> N.slots[i].value]]
      BY <3>1, <3>2
    <3>4. /\ M.name \in DOMAIN Images /\ M.start \in Frames /\ M.base \in Nat
          /\ M.exports = HandleExportDirectory(M.name, M.base)
      BY <2>17 DEF IsModule
    <3>5. /\ N.name \in DOMAIN Images /\ N.start \in Frames /\ N.base \in Nat
          /\ N.exports = HandleExportDirectory(N.name, N.base) /\ N.name = n
      BY <2>17, <2>18, <3>4
    <3> QED BY <2>18, <3>3, <3>5 DEF IsModule
  <2>22. \A i \in 1 .. L : /\ IsModule(modules'[i])
                           /\ modules'[i].name = modules[i].name
                           /\ modules'[i].start = modules[i].start
                           /\ modules'[i].exports = modules[i].exports
    BY <2>3, <2>13, <2>16, <2>18, <2>21
  <2>23. /\ DOMAIN modules' = DOMAIN modules
         /\ \A i \in DOMAIN modules' : IsModule(modules'[i])
         /\ Loaded' = Loaded /\ LoadedOnce'
         /\ \A i \in DOMAIN modules : ModuleFrames(i)' = ModuleFrames(i)
         /\ \A i \in DOMAIN modules' :
              modules'[i].name \in DOMAIN Images /\ modules'[i].start \in Frames
         /\ \A m \in DOMAIN modules : \A i : ImportOf(m, i)' = ImportOf(m, i)
    BY <2>2, <2>16, <2>22, ModulesKept
  <2>24. /\ stack' \in Seq(StackRecords) /\ Len(stack') = Len(stack)
         /\ \A j \in 1 .. Len(stack) :
              /\ stack'[j].image = stack[j].image
              /\ stack'[j].import = IF j = 1 THEN c + 1 ELSE stack[j].import
    <3>1. PICK top : top = [stack[1] EXCEPT !.import = c + 1]
      OBVIOUS
    <3>2. top \in StackRecords /\ top.image = n /\ top.import = c + 1
      BY <2>3, <2>5, <2>7, <3>1 DEF StackRecords
    <3>3. stack' = [stack EXCEPT ![1] = top]
      BY <1>4, <2>5, <2>7, <3>1
    <3> QED BY <2>3, <2>4, <2>5, <2>7, <3>2, <3>3
  <2>25. TypesInv'
    <3>1. TypeOK'
      BY <2>1, <2>2, <2>3, <2>16, <2>23 DEF TypesInv, TypeOK
    <3> QED BY <2>1, <2>3, <2>16, <2>23, <2>24, <3>1 DEF TypesInv
  <2>26. PhaseInv'
    BY <2>1, <1>1 DEF BInv, PhaseInv
  <2>27. StackInv'
    BY <2>3, <2>23, <2>24, SMTT(30) DEF BInv, StackInv
  <2>28. FramesInv'
    <3>1. \A i : FileRun(i)' = FileRun(i)
      BY <2>1 DEF FileRun
    <3> QED BY <1>1, <2>1, <2>23, <3>1 DEF BInv, FramesInv
  <2>29. FilesInv'
    BY <2>1, <1>1 DEF BInv, FilesInv
  <2>30. SlotsInv'
    <3>1. ASSUME NEW m \in 1 .. L, NEW i \in DOMAIN Images[modules'[m].name].imports,
                 Handled(m, i)'
          PROVE  \E x \in DOMAIN modules', p \in 1 .. Images[ImportOf(m, i)'.from].functions :
                   /\ modules'[m].slots[i].export = <<x, p>>
                   /\ modules'[x].name = ImportOf(m, i)'.from
                   /\ ExportName(ImportOf(m, i)'.from, p) = ImportOf(m, i)'.name
      <4>1. CASE m = a /\ i = c
        <5>1. modules'[m].slots[i] = slot
          BY <2>9, <2>16, <2>20, <4>1
        <5>2. ImportOf(m, i)' = w /\ w.from = modules[b].name
          BY <2>8, <2>10, <2>11, <2>16, <2>17, <2>18, <4>1 DEF ImportOf
        <5>3. /\ modules[b].exports = HandleExportDirectory(w.from, modules[b].base)
              /\ o \in DOMAIN modules[b].exports /\ modules[b].exports[o].name = w.name
          BY <2>3, <2>8, <2>10, <5>2 DEF IsModule, TryFindLoadedExport
        <5>4. o \in 1 .. Images[w.from].functions /\ ExportName(w.from, o) = w.name
          <6>1. PICK f, x, E : f = w.from /\ x = modules[b].base
                               /\ E = HandleExportDirectory(f, x)
            OBVIOUS
          <6>2. /\ DOMAIN E = 1 .. Images[f].functions
                /\ \A p \in 1 .. Images[f].functions : E[p].name = ExportName(f, p)
            BY <6>1, ExportNames
          <6>3. o \in DOMAIN E /\ E[o].name = w.name
            BY <5>3, <6>1
          <6> QED BY <6>1, <6>2, <6>3
        <5>5. b \in DOMAIN modules' /\ modules'[b].name = w.from
          BY <2>8, <2>16, <2>22, <5>2
        <5> QED BY <2>12, <5>1, <5>2, <5>4, <5>5
      <4>2. CASE ~(m = a /\ i = c)
        <5>1. Handled(m, i)
          <6>1. ASSUME NEW j \in 1 .. Len(stack), stack[j].image = modules[m].name
                PROVE  i < stack[j].import
            <7>1. i < stack'[j].import
              BY <2>3, <2>22, <2>24, <3>1, <6>1 DEF Handled
            <7>2. CASE j = 1
              <8>1. m = a
                BY <2>3, <2>7, <2>8, <6>1, <7>2 DEF BInv, LoadedOnce
              <8>2. i # c /\ i < c + 1 /\ i \in Nat
                <9>1. i \in 1 .. Len(Images[n].imports)
                  BY <2>8, <2>9, <2>22, <3>1, <8>1
                <9> QED BY <2>9, <2>24, <4>2, <7>1, <7>2, <8>1, <9>1
              <8> QED BY <2>7, <7>2, <8>2
            <7>3. CASE j # 1
              BY <2>24, <7>1, <7>3
            <7> QED BY <7>2, <7>3
          <6> QED BY <2>3, <6>1 DEF Handled
        <5>2. ImportOf(m, i)' = ImportOf(m, i)
          BY <2>3, <2>23, <3>1
        <5>3. i \in DOMAIN Images[modules[m].name].imports
          BY <2>22, <3>1
        <5>4. modules'[m].slots[i] = modules[m].slots[i]
          BY <2>8, <2>13, <2>16, <2>20, <4>2, <5>3
        <5>5. PICK x \in DOMAIN modules, p \in 1 .. Images[ImportOf(m, i).from].functions :
                /\ modules[m].slots[i].export = <<x, p>>
                /\ modules[x].name = ImportOf(m, i).from
                /\ ExportName(ImportOf(m, i).from, p) = ImportOf(m, i).name
          BY <2>3, <3>1, <5>1, <5>3 DEF BInv, SlotsInv
        <5>6. x \in DOMAIN modules' /\ modules'[x].name = modules[x].name
          BY <2>3, <2>22, <2>23
        <5> QED BY <5>2, <5>4, <5>5, <5>6
      <4> QED BY <4>1, <4>2
    <3> QED BY <2>16, <3>1 DEF SlotsInv
  <2>31. ValuesInv'
    BY <2>1 DEF ValuesInv
  <2> QED BY <2>23, <2>25, <2>26, <2>27, <2>28, <2>29, <2>30, <2>31 DEF BInv
<1> QED BY <1>2, <1>3, <1>4 DEF HandleImportDirectory

\* When the imports of an image are bound it leaves the stack.
LEMMA FinishStep ==
  ASSUME BInv, FinishImage
  PROVE  BInv'
<1>1. /\ phase = "load" /\ stack # <<>> /\ Current.import > Len(Imports)
      /\ stack' = Tail(stack) /\ phase' = (IF Len(stack) = 1 THEN "preload" ELSE phase)
      /\ used' = used /\ paths' = paths /\ files' = files /\ data' = data /\ flags' = flags
      /\ table' = table /\ mapSize' = mapSize /\ mapped' = mapped /\ safeBase' = safeBase
      /\ next' = next /\ preloaded' = preloaded
  BY DEF FinishImage, bootVars, stubVars
<1>2. PICK a, L, n : a = TryFindLoadedModule(Current.image) /\ L = Len(modules) /\ n = Current.image
  OBVIOUS
<1>3. /\ TypesInv /\ L \in Nat /\ DOMAIN modules = 1 .. L
      /\ \A i \in 1 .. L : IsModule(modules[i])
      /\ Len(stack) \in Nat /\ DOMAIN stack = 1 .. Len(stack)
      /\ \A j \in 1 .. Len(stack) :
           stack[j] \in StackRecords /\ stack[j].image \in DOMAIN Images
           /\ stack[j].import \in Nat \ {0}
  BY <1>2, ModuleShape DEF BInv
<1>4. stack \in Seq(StackRecords) /\ modules \in Seq(ToSet(modules))
  BY <1>3 DEF TypesInv
<1>5. Current = stack[1] /\ 1 \in 1 .. Len(stack)
  BY <1>1, <1>3, <1>4 DEF Current
<1>6. n \in DOMAIN Images /\ n \in Loaded /\ stack[1].image = n
      /\ stack[1].import > Len(Images[n].imports)
  BY <1>1, <1>2, <1>3, <1>5 DEF BInv, StackInv, Imports
<1>7. a \in 1 .. L /\ modules[a].name = n
  BY <1>2, <1>3, <1>6, Found
<1>8. PICK M, N : M = modules[a] /\ N = HandleBaseRelocationDirectory(M)
  OBVIOUS
<1>9. modules' = [modules EXCEPT ![a] = N]
  BY <1>2, <1>7, <1>8 DEF FinishImage
<1>10. /\ modules' \in Seq(ToSet(modules')) /\ Len(modules') = L /\ DOMAIN modules' = 1 .. L
       /\ \A i \in 1 .. L : modules'[i] = IF i = a THEN N ELSE modules[i]
  BY <1>2, <1>3, <1>4, <1>7, <1>9, Replaced
<1>11. IsModule(N) /\ N.name = M.name /\ N.start = M.start /\ N.slots = M.slots
  <2>1. IsModule(M)
    BY <1>3, <1>7, <1>8
  <2>2. CASE Images[M.name].relocatable
    <3>1. N = [M EXCEPT !.pointers = M.base]
      BY <1>8, <2>2 DEF HandleBaseRelocationDirectory
    <3>2. M = [name |-> M.name, start |-> M.start, base |-> M.base, original |-> M.original,
               exports |-> M.exports, slots |-> M.slots, pointers |-> M.pointers]
      BY <2>1 DEF IsModule
    <3>3. /\ N = [name |-> M.name, start |-> M.start, base |-> M.base, original |-> M.original,
                  exports |-> M.exports, slots |-> M.slots, pointers |-> M.base]
      BY <3>1, <3>2
    <3> QED BY <2>1, <3>3 DEF IsModule
  <2>3. CASE ~Images[M.name].relocatable
    BY <1>8, <2>1, <2>3 DEF HandleBaseRelocationDirectory
  <2> QED BY <2>2, <2>3
<1>12. \A i \in 1 .. L : /\ IsModule(modules'[i])
                         /\ modules'[i].name = modules[i].name
                         /\ modules'[i].start = modules[i].start
                         /\ modules'[i].slots = modules[i].slots
  BY <1>3, <1>8, <1>10, <1>11
<1>13. /\ DOMAIN modules' = DOMAIN modules
       /\ \A i \in DOMAIN modules' : IsModule(modules'[i])
       /\ Loaded' = Loaded /\ LoadedOnce'
       /\ \A i \in DOMAIN modules : ModuleFrames(i)' = ModuleFrames(i)
       /\ \A i \in DOMAIN modules' :
            modules'[i].name \in DOMAIN Images /\ modules'[i].start \in Frames
       /\ \A m \in DOMAIN modules : \A i : ImportOf(m, i)' = ImportOf(m, i)
  BY <1>2, <1>10, <1>12, ModulesKept
<1>14. /\ stack' \in Seq(StackRecords) /\ Len(stack') = Len(stack) - 1
       /\ \A j \in 1 .. Len(stack) - 1 : stack'[j] = stack[j + 1]
       /\ DOMAIN stack' = 1 .. Len(stack) - 1
  BY <1>1, <1>3, <1>4
<1>15. TypesInv'
  <2>1. TypeOK'
    BY <1>1, <1>2, <1>3, <1>10, <1>13 DEF TypesInv, TypeOK
  <2> QED BY <1>1, <1>3, <1>10, <1>13, <1>14, <2>1 DEF TypesInv
<1>16. PhaseInv'
  <2>1. phase' = "preload" => stack' = <<>>
    BY <1>1, <1>14
  <2> QED BY <1>1, <2>1 DEF BInv, PhaseInv
<1>17. StackInv'
  <2>1. \A j \in 1 .. Len(stack) - 1 : j + 1 \in 1 .. Len(stack)
    BY <1>3
  <2>2. \A j, k \in 1 .. Len(stack) - 1 : j + 1 = k + 1 => j = k
    BY <1>3
  <2>3. /\ \A j \in 1 .. Len(stack) : stack[j].image \in Loaded
        /\ \A j, k \in 1 .. Len(stack) : stack[j].image = stack[k].image => j = k
    BY <1>3 DEF BInv, StackInv
  <2>4. \A j \in DOMAIN stack' : stack'[j].image \in Loaded'
    BY <1>13, <1>14, <2>1, <2>3
  <2>5. \A j, k \in DOMAIN stack' : stack'[j].image = stack'[k].image => j = k
    BY <1>14, <2>1, <2>2, <2>3
  <2> QED BY <2>4, <2>5 DEF StackInv
<1>18. FramesInv'
  <2>1. \A i : FileRun(i)' = FileRun(i)
    BY <1>1 DEF FileRun
  <2> QED BY <1>1, <1>13, <2>1 DEF BInv, FramesInv
<1>19. FilesInv'
  BY <1>1 DEF BInv, FilesInv
<1>20. SlotsInv'
  <2>1. ASSUME NEW m \in 1 .. L, NEW i \in DOMAIN Images[modules'[m].name].imports,
               Handled(m, i)'
        PROVE  \E x \in DOMAIN modules', p \in 1 .. Images[ImportOf(m, i)'.from].functions :
                 /\ modules'[m].slots[i].export = <<x, p>>
                 /\ modules'[x].name = ImportOf(m, i)'.from
                 /\ ExportName(ImportOf(m, i)'.from, p) = ImportOf(m, i)'.name
    <3>1. i \in DOMAIN Images[modules[m].name].imports
      BY <1>12, <2>1
    <3>2. Handled(m, i)
      <4>1. ASSUME NEW j \in 1 .. Len(stack), stack[j].image = modules[m].name
            PROVE  i < stack[j].import
        <5>1. CASE j = 1
          <6>1. Images[n].imports \in Seq([from : DOMAIN Images, name : STRING])
            BY <1>6, BootAssumption
          <6>2. i \in 1 .. Len(Images[n].imports) /\ Len(Images[n].imports) \in Nat
            BY <1>6, <3>1, <4>1, <5>1, <6>1
          <6>3. stack[1].import \in Nat
            BY <1>3, <1>5
          <6> QED BY <1>6, <5>1, <6>2, <6>3
        <5>2. CASE j # 1
          <6>1. j - 1 \in 1 .. Len(stack) - 1 /\ j - 1 + 1 = j
            BY <1>3, <5>2
          <6>2. j - 1 \in DOMAIN stack' /\ stack'[j - 1] = stack[j]
            BY <1>14, <6>1
          <6> QED BY <1>12, <2>1, <4>1, <6>2 DEF Handled
        <5> QED BY <5>1, <5>2
      <4> QED BY <1>3, <4>1 DEF Handled
    <3>3. ImportOf(m, i)' = ImportOf(m, i)
      BY <1>3, <1>13, <2>1
    <3>4. PICK x \in DOMAIN modules, p \in 1 .. Images[ImportOf(m, i).from].functions :
            /\ modules[m].slots[i].export = <<x, p>>
            /\ modules[x].name = ImportOf(m, i).from
            /\ ExportName(ImportOf(m, i).from, p) = ImportOf(m, i).name
      BY <1>3, <2>1, <3>1, <3>2 DEF BInv, SlotsInv
    <3>5. x \in DOMAIN modules' /\ modules'[x].name = modules[x].name
          /\ modules'[m].slots[i] = modules[m].slots[i]
      BY <1>3, <1>12, <1>13
    <3> QED BY <3>3, <3>4, <3>5
  <2> QED BY <1>10, <2>1 DEF SlotsInv
<1>21. ValuesInv'
  BY <1>1 DEF ValuesInv
<1> QED BY <1>13, <1>15, <1>16, <1>17, <1>18, <1>19, <1>20, <1>21 DEF BInv

\* A file to preload is there with its data, or not at all.
LEMMA PreloadStep ==
  ASSUME BInv, PreloadBootFiles
  PROVE  BInv'
<1>1. PICK n : n = Preload[paths]
  OBVIOUS
<1>2. /\ phase = "preload" /\ paths <= Len(Preload) /\ paths' = paths + 1
      /\ phase' = phase /\ modules' = modules /\ stack' = stack /\ flags' = flags
      /\ table' = table /\ mapSize' = mapSize /\ mapped' = mapped /\ safeBase' = safeBase
      /\ next' = next /\ preloaded' = preloaded
      /\ \/ \E start \in FreeRuns(FileFrames[n]) :
              /\ files' = Append(files, [name |-> n, start |-> start])
              /\ data' = data \cup {n}
              /\ used' = used \cup Run(start, FileFrames[n])
         \/ files' = files /\ data' = data /\ used' = used
  BY <1>1 DEF PreloadBootFiles, PreloadFailed, bootVars, stubVars
<1>3. /\ LoadedOnce' /\ StackInv' /\ SlotsInv'
      /\ \A i : ModuleFrames(i)' = ModuleFrames(i)
      /\ modules' \in Seq(ToSet(modules')) /\ \A i \in DOMAIN modules' : IsModule(modules'[i])
      /\ stack' \in Seq(StackRecords)
  BY <1>2, ModulesUnchanged
<1>4. paths \in 1 .. Len(Preload) /\ paths' \in 1 .. Len(Preload) + 1
      /\ Preload \in Seq(DOMAIN FileFrames) /\ Len(Preload) \in Nat
  BY <1>2, BootAssumption DEF BInv, TypesInv, TypeOK
<1>5. n \in DOMAIN FileFrames
  BY <1>1, <1>4
<1>6. TypesInv /\ files \in Seq(FileRecords) /\ preloaded = <<>> /\ Len(preloaded) = 0
      /\ preloaded \in Seq(FileRecords) /\ Len(files) \in Nat /\ DOMAIN files = 1 .. Len(files)
  BY <1>2 DEF BInv, TypesInv, PhaseInv
<1>7. PhaseInv' /\ ValuesInv'
  BY <1>2 DEF BInv, PhaseInv, ValuesInv
<1>8. CASE files' = files /\ data' = data /\ used' = used
  <2>1. TypesInv'
    BY <1>2, <1>3, <1>4, <1>8 DEF BInv, TypesInv, TypeOK
  <2>2. FramesInv'
    BY <1>2, <1>3, <1>8 DEF BInv, FramesInv, FileRun
  <2>3. FilesInv'
    BY <1>2, <1>8 DEF BInv, FilesInv
  <2> QED BY <1>3, <1>7, <2>1, <2>2, <2>3 DEF BInv
<1>9. ASSUME NEW start \in FreeRuns(FileFrames[n]),
             files' = Append(files, [name |-> n, start |-> start]), data' = data \cup {n},
             used' = used \cup Run(start, FileFrames[n])
      PROVE  BInv'
  <2>1. PICK e : e = [name |-> n, start |-> start]
    OBVIOUS
  <2>2. e \in FileRecords /\ e.name = n /\ e.start = start /\ start \in Frames
        /\ Run(start, FileFrames[n]) \subseteq Frames
    BY <1>5, <2>1 DEF FileRecords, FreeRuns
  <2>3. /\ files' \in Seq(FileRecords) /\ Len(files') = Len(files) + 1
        /\ DOMAIN files' = 1 .. Len(files) + 1
        /\ \A i \in 1 .. Len(files) : files'[i] = files[i]
        /\ files'[Len(files) + 1] = e
    BY <1>6, <1>9, <2>1, <2>2
  <2>4. TypesInv'
    <3>1. used' \subseteq Frames /\ table' \subseteq used'
      BY <1>2, <1>6, <1>9, <2>2 DEF TypesInv, TypeOK
    <3>2. Len(preloaded') <= Len(files')
      BY <1>2, <1>6, <2>3
    <3> QED BY <1>2, <1>3, <1>4, <1>6, <2>3, <3>1, <3>2 DEF TypesInv, TypeOK
  <2>5. FramesInv'
    <3>1. \A i \in 1 .. Len(files) : FileRun(i)' = FileRun(i)
      BY <2>3 DEF FileRun
    <3>2. \A i : i = Len(files) + 1 => FileRun(i)' = Run(start, FileFrames[n])
      BY <2>2, <2>3 DEF FileRun
    <3>3. /\ \A i \in DOMAIN modules : ModuleFrames(i) \subseteq used
          /\ \A i \in DOMAIN files : FileRun(i) \subseteq used
      BY <1>2 DEF BInv, FramesInv
    <3>4. \A i \in DOMAIN files' : FileRun(i)' \subseteq used'
      <4> SUFFICES ASSUME NEW i \in 1 .. Len(files) + 1 PROVE FileRun(i)' \subseteq used'
        BY <2>3
      <4>1. i \in 1 .. Len(files) \/ i = Len(files) + 1
        BY <1>6
      <4> QED BY <1>6, <1>9, <3>1, <3>2, <3>3, <4>1
    <3>5. \A i \in DOMAIN modules' : ModuleFrames(i)' \subseteq used'
      BY <1>2, <1>3, <1>9, <3>3
    <3> QED BY <1>2, <3>4, <3>5 DEF FramesInv
  <2>6. FilesInv'
    <3>1. data' = {files'[i].name : i \in DOMAIN files'}
      <4>1. data = {files[i].name : i \in 1 .. Len(files)}
        BY <1>6 DEF BInv, FilesInv
      <4> QED BY <1>6, <1>9, <2>2, <2>3, <4>1
    <3> QED BY <1>2, <1>6, <3>1 DEF FilesInv
  <2> QED BY <1>3, <1>7, <2>4, <2>5, <2>6 DEF BInv
<1> QED BY <1>2, <1>8, <1>9

\* All preloaded files are given back.
LEMMA RundownStep ==
  ASSUME BInv, RundownLoadedFiles
  PROVE  BInv'
<1>1. /\ phase = "preload" /\ phase' = "stopped" /\ modules' = modules /\ stack' = stack
      /\ paths' = paths /\ flags' = flags /\ table' = table /\ mapped' = mapped
      /\ safeBase' = safeBase /\ next' = next /\ preloaded' = preloaded
      /\ files' = <<>> /\ data' = data \ {files[i].name : i \in DOMAIN files}
      /\ used' \subseteq used
  BY DEF RundownLoadedFiles, bootVars, stubVars, Stops
<1>2. /\ LoadedOnce' /\ StackInv' /\ SlotsInv'
      /\ modules' \in Seq(ToSet(modules')) /\ \A i \in DOMAIN modules' : IsModule(modules'[i])
      /\ stack' \in Seq(StackRecords)
  BY <1>1, ModulesUnchanged
<1>3. preloaded = <<>> /\ table = {} /\ next = 1
  BY <1>1 DEF BInv, PhaseInv
<1>4. TypesInv'
  <2>1. files' \in Seq(FileRecords) /\ Len(files') = 0 /\ preloaded' \in Seq(FileRecords)
        /\ Len(preloaded') = 0
    BY <1>1, <1>3
  <2> QED BY <1>1, <1>2, <1>3, <2>1 DEF BInv, TypesInv, TypeOK
<1>5. PhaseInv' /\ FramesInv' /\ ValuesInv'
  BY <1>1, <1>3 DEF PhaseInv, FramesInv, ValuesInv
<1>6. FilesInv'
  <2>1. data' = {}
    BY <1>1 DEF BInv, FilesInv
  <2>2. DOMAIN files' = {} /\ DOMAIN preloaded' = {}
    BY <1>1, <1>3
  <2> QED BY <1>1, <2>1, <2>2 DEF FilesInv
<1> QED BY <1>2, <1>4, <1>5, <1>6 DEF BInv

\* The preloading ends.
LEMMA PreloadEndsStep ==
  ASSUME BInv, PreloadEnds
  PROVE  BInv'
<1>1. /\ phase = "preload" /\ phase' = "map" /\ modules' = modules /\ stack' = stack
      /\ used' = used /\ paths' = paths /\ files' = files /\ data' = data /\ flags' = flags
      /\ table' = table /\ mapSize' = mapSize /\ mapped' = mapped /\ safeBase' = safeBase
      /\ next' = next /\ preloaded' = preloaded
  BY DEF PreloadEnds, bootVars, stubVars
<1>2. LoadedOnce' /\ StackInv' /\ SlotsInv' /\ \A i : ModuleFrames(i)' = ModuleFrames(i)
  BY <1>1, ModulesUnchanged
<1>3. TypesInv'
  BY <1>1, ModulesUnchanged DEF BInv, TypesInv, TypeOK
<1>4. FramesInv'
  BY <1>1, <1>2 DEF BInv, FramesInv, FileRun
<1>5. PhaseInv' /\ FilesInv' /\ ValuesInv'
  BY <1>1 DEF BInv, PhaseInv, FilesInv, ValuesInv
<1> QED BY <1>2, <1>3, <1>4, <1>5 DEF BInv

\* The map marks the frames of the modules and of the files.
LEMMA MapStep ==
  ASSUME BInv, QueryMemoryMap
  PROVE  BInv'
<1>1. /\ phase = "map" /\ modules' = modules /\ stack' = stack /\ paths' = paths
      /\ files' = files /\ data' = data /\ mapSize' = mapSize /\ mapped' = mapped
      /\ safeBase' = safeBase /\ next' = next /\ preloaded' = preloaded
  BY DEF QueryMemoryMap, stubVars
<1>2. CASE Stops /\ UNCHANGED <<table, used, flags>>
  BY <1>1, <1>2, StopStep DEF Stops, bootVars, stubVars
<1>3. ASSUME NEW start \in FreeRuns(TableFrames(Pages)), table' = Run(start, TableFrames(Pages)),
             used' = used \cup table', phase' = "exit",
             flags' = [f \in 0 .. Pages - 1 |-> EntryFlags(f, start, Pages)]
      PROVE  BInv'
  <2>1. /\ LoadedOnce' /\ StackInv' /\ SlotsInv'
        /\ \A i : ModuleFrames(i)' = ModuleFrames(i)
        /\ modules' \in Seq(ToSet(modules')) /\ \A i \in DOMAIN modules' : IsModule(modules'[i])
        /\ stack' \in Seq(StackRecords)
    BY <1>1, ModulesUnchanged
  <2>2. table' \subseteq Frames
    BY <1>3 DEF FreeRuns
  <2>3. \A f \in DOMAIN flags' : flags'[f] \in {0, 1} /\ (flags'[f] = 0 => f \notin used)
    <3>1. PICK P : P = Pages
      OBVIOUS
    <3>2. flags' = [f \in 0 .. P - 1 |-> EntryFlags(f, start, P)]
      BY <1>3, <3>1
    <3>3. \A f : EntryFlags(f, start, P) \in {0, 1} /\ (EntryFlags(f, start, P) = 0 => f \notin used)
      BY DEF EntryFlags
    <3> QED BY <3>2, <3>3
  <2>4. TypesInv'
    BY <1>1, <1>3, <2>1, <2>2, <2>3 DEF BInv, TypesInv, TypeOK
  <2>5. FramesInv'
    <3>1. /\ \A i \in DOMAIN modules : ModuleFrames(i) \subseteq used
          /\ \A i \in DOMAIN files : FileRun(i) \subseteq used
      BY <1>1 DEF BInv, FramesInv
    <3>2. \A i : FileRun(i)' = FileRun(i)
      BY <1>1 DEF FileRun
    <3> QED BY <1>1, <1>3, <2>1, <2>3, <3>1, <3>2 DEF FramesInv
  <2>6. PhaseInv' /\ FilesInv' /\ ValuesInv'
    BY <1>1, <1>3 DEF BInv, PhaseInv, FilesInv, ValuesInv
  <2> QED BY <2>1, <2>4, <2>5, <2>6 DEF BInv
<1> QED BY <1>2, <1>3 DEF QueryMemoryMap

\* The exit is tried until it succeeds or the boot stops.
LEMMA ExitStep ==
  ASSUME BInv, ExitBootServices
  PROVE  BInv'
<1>1. /\ phase = "exit" /\ modules' = modules /\ stack' = stack
      /\ used' = used /\ paths' = paths /\ files' = files /\ data' = data /\ flags' = flags
      /\ table' = table /\ mapped' = mapped /\ safeBase' = safeBase
      /\ next' = next /\ preloaded' = preloaded /\ phase' \in {"exit", "remap", "stopped"}
  BY DEF ExitBootServices, AskAgain, stubVars, Stops
<1>2. LoadedOnce' /\ StackInv' /\ SlotsInv' /\ \A i : ModuleFrames(i)' = ModuleFrames(i)
  BY <1>1, ModulesUnchanged
<1>3. TypesInv'
  BY <1>1, ModulesUnchanged DEF BInv, TypesInv, TypeOK
<1>4. FramesInv'
  BY <1>1, <1>2 DEF BInv, FramesInv, FileRun
<1>5. PhaseInv'
  BY <1>1 DEF BInv, PhaseInv
<1>6. FilesInv' /\ ValuesInv'
  BY <1>1 DEF BInv, FilesInv, ValuesInv
<1> QED BY <1>2, <1>3, <1>4, <1>5, <1>6 DEF BInv

\* The sections of an image are records of numbers and rights.
LEMMA SectionRecords ==
  ASSUME NEW n \in DOMAIN Images
  PROVE  /\ Len(Images[n].sections) \in Nat
         /\ DOMAIN Images[n].sections = 1 .. Len(Images[n].sections)
         /\ \A i \in DOMAIN Images[n].sections :
              Images[n].sections[i].first \in Nat /\ Images[n].sections[i].pages \in Nat
<1>1. PICK s, R : s = Images[n].sections
                  /\ R = [first : Nat, pages : Nat, user : BOOLEAN, write : BOOLEAN]
  OBVIOUS
<1>2. s \in Seq(R)
  BY <1>1, BootAssumption
<1>3. Len(s) \in Nat /\ DOMAIN s = 1 .. Len(s) /\ \A i \in 1 .. Len(s) : s[i] \in R
  BY <1>2
<1>4. \A x \in R : x.first \in Nat /\ x.pages \in Nat
  BY <1>1
<1> QED BY <1>1, <1>3, <1>4

\* The sections of an image end somewhere.
LEMMA SectionsEnd ==
  ASSUME NEW n \in DOMAIN Images
  PROVE  \E b \in Nat : \A i \in DOMAIN Images[n].sections :
           Images[n].sections[i].first + Images[n].sections[i].pages <= b
<1>1. PICK s : s = Images[n].sections
  OBVIOUS
<1>3. /\ Len(s) \in Nat /\ DOMAIN s = 1 .. Len(s)
      /\ \A i \in 1 .. Len(s) : s[i].first \in Nat /\ s[i].pages \in Nat
  BY <1>1, SectionRecords
<1>4. PICK S : S = {k \in 0 .. Len(s) : \E b \in Nat : \A i \in 1 .. k : s[i].first + s[i].pages <= b}
  OBVIOUS
<1>5. 0 \in S
  BY <1>3, <1>4
<1>6. ASSUME NEW k \in 0 .. Len(s), k \in S, k < Len(s) PROVE k + 1 \in S
  <2>1. PICK b \in Nat : \A i \in 1 .. k : s[i].first + s[i].pages <= b
    BY <1>4, <1>6
  <2>2. PICK c : c = s[k + 1].first + s[k + 1].pages
    OBVIOUS
  <2>3. k + 1 \in 1 .. Len(s) /\ k + 1 \in 0 .. Len(s) /\ k \in Nat
    BY <1>3, <1>6
  <2>4. c \in Nat
    BY <1>3, <2>2, <2>3
  <2>5. \A i \in 1 .. k + 1 : s[i].first + s[i].pages <= b + c
    <3> TAKE i \in 1 .. k + 1
    <3>1. CASE i = k + 1
      BY <2>1, <2>2, <2>4, <3>1
    <3>2. CASE i # k + 1
      <4>1. i \in 1 .. k /\ i \in 1 .. Len(s)
        BY <1>3, <2>3, <3>2
      <4>2. s[i].first + s[i].pages <= b /\ s[i].first + s[i].pages \in Nat
        BY <1>3, <2>1, <4>1
      <4> QED BY <2>4, <4>2
    <3> QED BY <3>1, <3>2
  <2>6. b + c \in Nat
    BY <2>4
  <2> QED BY <1>4, <2>3, <2>5, <2>6
<1>7. 0 .. Len(s) \subseteq S
  BY <1>3, <1>5, <1>6, CountingUp
<1>8. Len(s) \in S
  BY <1>3, <1>7
<1> QED BY <1>1, <1>3, <1>4, <1>8

\* The greatest of a set of numbers that is not empty and has a bound.
LEMMA GreatestOf ==
  ASSUME NEW S \in SUBSET Nat, S # {}, NEW b \in Nat, \A x \in S : x <= b
  PROVE  Greatest(S) \in S /\ \A y \in S : y <= Greatest(S)
<1>1. S \in SUBSET (0 .. b)
  OBVIOUS
<1>2. PICK x \in S : \A y \in S : y <= x
  BY <1>1, GreatestBelow
<1> QED BY <1>2 DEF Greatest

\* The next safe base is behind the pages of the module and not before the last.
LEMMA SafeBaseGrows ==
  ASSUME NEW m, IsModule(m), safeBase \in Nat
  PROVE  /\ NextSafeBase(m, safeBase) \in Nat /\ safeBase <= NextSafeBase(m, safeBase)
         /\ \A s \in SectionPages(m) : /\ s.page \in Nat
                                       /\ safeBase + s.page < NextSafeBase(m, safeBase)
<1>1. PICK n, b : n = m.name /\ b = safeBase
  OBVIOUS
<1>2. n \in DOMAIN Images /\ b \in Nat
  BY <1>1 DEF IsModule
<1>3. PICK c \in Nat : \A i \in DOMAIN Images[n].sections :
        Images[n].sections[i].first + Images[n].sections[i].pages <= c
  BY <1>2, SectionsEnd
<1>4. \A s \in SectionPages(m) : s.page \in Nat /\ s.page < c
  <2> TAKE s \in SectionPages(m)
  <2>1. PICK i \in DOMAIN Images[n].sections :
          \E j \in 0 .. Images[n].sections[i].pages - 1 :
            s = [page |-> Images[n].sections[i].first + j, user |-> Images[n].sections[i].user,
                 write |-> Images[n].sections[i].write]
    BY <1>1 DEF SectionPages, Sections
  <2>6. PICK j \in 0 .. Images[n].sections[i].pages - 1 :
          s = [page |-> Images[n].sections[i].first + j, user |-> Images[n].sections[i].user,
               write |-> Images[n].sections[i].write]
    BY <2>1
  <2>2. Images[n].sections[i].first \in Nat /\ Images[n].sections[i].pages \in Nat
    BY <1>2, SectionRecords
  <2>3. s.page = Images[n].sections[i].first + j
    BY <2>6
  <2>4. PICK f, p : f = Images[n].sections[i].first /\ p = Images[n].sections[i].pages
    OBVIOUS
  <2>5. f \in Nat /\ p \in Nat /\ f + p <= c /\ j \in 0 .. p - 1 /\ s.page = f + j
    BY <1>3, <2>2, <2>3, <2>4
  <2> QED BY <2>5
<1>5. PICK T : T = {b} \cup {page + 1 : page \in NewPages(m, b)}
  OBVIOUS
<1>6. T \in SUBSET Nat /\ T # {} /\ \A x \in T : x <= b + c + 1
  <2>1. ASSUME NEW x \in T, x # b PROVE x \in Nat /\ x <= b + c + 1
    <3>1. PICK s \in SectionPages(m) : x = b + s.page + 1
      BY <1>5, <2>1 DEF NewPages
    <3>2. PICK q : q = s.page
      OBVIOUS
    <3>3. q \in Nat /\ q < c
      BY <1>4, <3>2
    <3> QED BY <1>2, <3>1, <3>2, <3>3
  <2>2. b \in T /\ b \in Nat /\ b <= b + c + 1
    BY <1>2, <1>3, <1>5
  <2>3. \A x \in T : x \in Nat /\ x <= b + c + 1
    BY <2>1, <2>2
  <2> QED BY <2>2, <2>3
<1>7. PICK g : g = Greatest(T)
  OBVIOUS
<1>8. g \in T /\ \A y \in T : y <= g
  <2>1. b + c + 1 \in Nat
    BY <1>2, <1>3
  <2> QED BY <1>6, <1>7, <2>1, GreatestOf
<1>9. NextSafeBase(m, safeBase) = g
  BY <1>1, <1>5, <1>7 DEF NextSafeBase
<1>10. g \in Nat /\ b <= g
  BY <1>5, <1>6, <1>8
<1>11. ASSUME NEW s \in SectionPages(m) PROVE s.page \in Nat /\ b + s.page < g
  <2>1. s.page \in Nat
    BY <1>4
  <2>2. b + s.page + 1 \in T
    BY <1>5 DEF NewPages
  <2> QED BY <1>2, <1>8, <1>10, <2>1, <2>2
<1> QED BY <1>1, <1>9, <1>10, <1>11

\* A module moves, with its exports.
LEMMA RemapStep ==
  ASSUME BInv, RemapModule
  PROVE  BInv'
<1>1. PICK M, L, k : M = modules[next] /\ L = Len(modules) /\ k = next
  OBVIOUS
<1>2. PICK N : N = [M EXCEPT !.original = M.base, !.base = safeBase,
                      !.exports = [o \in DOMAIN M.exports |->
                                     [M.exports[o] EXCEPT !.base = safeBase]]]
  OBVIOUS
<1>3. /\ phase = "remap" /\ k <= L /\ modules' = [modules EXCEPT ![k] = N]
      /\ safeBase' = NextSafeBase(M, safeBase)
      /\ next' = (IF k = L THEN 1 ELSE k + 1)
      /\ phase' = (IF k = L THEN "bind" ELSE phase)
      /\ used' = used /\ stack' = stack /\ paths' = paths /\ files' = files /\ data' = data
      /\ flags' = flags /\ table' = table /\ mapSize' = mapSize /\ preloaded' = preloaded
  BY <1>1, <1>2 DEF RemapModule, bootVars
<1>4. /\ TypesInv /\ L \in Nat /\ DOMAIN modules = 1 .. L
      /\ \A i \in 1 .. L : IsModule(modules[i])
  BY <1>1, ModuleShape DEF BInv
<1>5. stack = <<>> /\ stack' = <<>> /\ stack' \in Seq(StackRecords) /\ DOMAIN stack = {}
      /\ DOMAIN stack' = {}
  BY <1>3 DEF BInv, PhaseInv
<1>6. modules \in Seq(ToSet(modules)) /\ k \in 1 .. L /\ safeBase \in Nat
  BY <1>1, <1>3, <1>4 DEF TypesInv, TypeOK
<1>7. /\ modules' \in Seq(ToSet(modules')) /\ Len(modules') = L /\ DOMAIN modules' = 1 .. L
      /\ \A i \in 1 .. L : modules'[i] = IF i = k THEN N ELSE modules[i]
  BY <1>1, <1>3, <1>4, <1>6, Replaced
<1>8. IsModule(M)
  BY <1>1, <1>4, <1>6
<1>9. PICK E : E = [o \in DOMAIN M.exports |-> [M.exports[o] EXCEPT !.base = safeBase]]
  OBVIOUS
<1>10. N = [name |-> M.name, start |-> M.start, base |-> safeBase, original |-> M.base,
            exports |-> E, slots |-> M.slots, pointers |-> M.pointers]
  <2>1. M = [name |-> M.name, start |-> M.start, base |-> M.base, original |-> M.original,
             exports |-> M.exports, slots |-> M.slots, pointers |-> M.pointers]
    BY <1>8 DEF IsModule
  <2> QED BY <1>2, <1>9, <2>1
<1>11. E = HandleExportDirectory(M.name, safeBase)
  <2>1. PICK X : X = HandleExportDirectory(M.name, M.base)
    OBVIOUS
  <2>2. M.exports = X
    BY <1>8, <2>1 DEF IsModule
  <2>3. E = [o \in DOMAIN X |-> [X[o] EXCEPT !.base = safeBase]]
    BY <1>9, <2>2
  <2>4. DOMAIN X = 1 .. Images[M.name].functions
    BY <2>1 DEF HandleExportDirectory
  <2>5. PICK F : F = HandleExportDirectory(M.name, safeBase)
    OBVIOUS
  <2>6. ASSUME NEW o \in 1 .. Images[M.name].functions
        PROVE  [X[o] EXCEPT !.base = safeBase] = F[o]
    <3>1. PICK s : s = IF \E i \in DOMAIN Images[M.name].ordinals : Images[M.name].ordinals[i] = o
                       THEN Images[M.name].names[o] ELSE "none"
      OBVIOUS
    <3>2. X[o] = [base |-> M.base, fn |-> o, name |-> s]
      BY <2>1, <3>1 DEF HandleExportDirectory
    <3>3. F[o] = [base |-> safeBase, fn |-> o, name |-> s]
      BY <2>5, <3>1 DEF HandleExportDirectory
    <3> QED BY <3>2, <3>3
  <2>7. F = [o \in 1 .. Images[M.name].functions |-> F[o]]
    BY <2>5 DEF HandleExportDirectory
  <2> QED BY <2>3, <2>4, <2>5, <2>6, <2>7
<1>12. IsModule(N) /\ N.name = M.name /\ N.start = M.start /\ N.slots = M.slots
  <2>1. /\ N.name = M.name /\ N.start = M.start /\ N.slots = M.slots /\ N.base = safeBase
        /\ N.exports = E /\ N.original = M.base /\ N.pointers = M.pointers
    BY <1>10
  <2> QED BY <1>6, <1>8, <1>10, <1>11, <2>1 DEF IsModule
<1>13. \A i \in 1 .. L : /\ IsModule(modules'[i])
                         /\ modules'[i].name = modules[i].name
                         /\ modules'[i].start = modules[i].start
                         /\ modules'[i].slots = modules[i].slots
  BY <1>1, <1>4, <1>7, <1>12
<1>14. /\ DOMAIN modules' = DOMAIN modules
       /\ \A i \in DOMAIN modules' : IsModule(modules'[i])
       /\ Loaded' = Loaded /\ LoadedOnce'
       /\ \A i \in DOMAIN modules : ModuleFrames(i)' = ModuleFrames(i)
       /\ \A i \in DOMAIN modules' :
            modules'[i].name \in DOMAIN Images /\ modules'[i].start \in Frames
       /\ \A m \in DOMAIN modules : \A i : ImportOf(m, i)' = ImportOf(m, i)
  BY <1>1, <1>7, <1>13, ModulesKept
<1>15. safeBase' \in Nat
  BY <1>3, <1>6, <1>8, SafeBaseGrows
<1>16. TypesInv'
  <2>1. next' \in 1 .. L + 1
    BY <1>3, <1>4, <1>6
  <2>2. TypeOK'
    BY <1>3, <1>4, <1>7, <1>14, <2>1 DEF TypesInv, TypeOK
  <2> QED BY <1>3, <1>4, <1>5, <1>7, <1>14, <1>15, <2>2 DEF TypesInv
<1>17. PhaseInv'
  BY <1>3, <1>5 DEF BInv, PhaseInv
<1>18. StackInv'
  BY <1>5 DEF StackInv
<1>19. FramesInv'
  <2>1. \A i : FileRun(i)' = FileRun(i)
    BY <1>3 DEF FileRun
  <2> QED BY <1>3, <1>14, <2>1 DEF BInv, FramesInv
<1>20. FilesInv'
  BY <1>3 DEF BInv, FilesInv
<1>21. SlotsInv'
  <2>1. ASSUME NEW m \in 1 .. L, NEW i \in DOMAIN Images[modules'[m].name].imports
        PROVE  \E x \in DOMAIN modules', p \in 1 .. Images[ImportOf(m, i)'.from].functions :
                 /\ modules'[m].slots[i].export = <<x, p>>
                 /\ modules'[x].name = ImportOf(m, i)'.from
                 /\ ExportName(ImportOf(m, i)'.from, p) = ImportOf(m, i)'.name
    <3>1. i \in DOMAIN Images[modules[m].name].imports
      BY <1>13, <2>1
    <3>2. Handled(m, i)
      BY <1>5 DEF Handled
    <3>3. ImportOf(m, i)' = ImportOf(m, i)
      BY <1>4, <1>14, <2>1
    <3>4. PICK x \in DOMAIN modules, p \in 1 .. Images[ImportOf(m, i).from].functions :
            /\ modules[m].slots[i].export = <<x, p>>
            /\ modules[x].name = ImportOf(m, i).from
            /\ ExportName(ImportOf(m, i).from, p) = ImportOf(m, i).name
      BY <1>4, <2>1, <3>1, <3>2 DEF BInv, SlotsInv
    <3>5. x \in DOMAIN modules' /\ modules'[x].name = modules[x].name
          /\ modules'[m].slots = modules[m].slots
      BY <1>4, <1>13, <1>14
    <3> QED BY <3>3, <3>4, <3>5
  <2> QED BY <1>7, <2>1 DEF SlotsInv
<1>22. ValuesInv'
  <2>1. phase' # "kernel" /\ (phase' = "bind" => next' = 1)
    BY <1>3
  <2>2. \A m \in 1 .. L : ~(m < 1)
    BY <1>4
  <2> QED BY <1>7, <2>1, <2>2 DEF ValuesInv
<1> QED BY <1>14, <1>16, <1>17, <1>18, <1>19, <1>20, <1>21, <1>22 DEF BInv

\* The slots of a module get the addresses of its imports.
LEMMA RebindStep ==
  ASSUME BInv, BindRelocatedImports
  PROVE  BInv'
<1>1. PICK M, L, k, N : M = modules[next] /\ L = Len(modules) /\ k = next /\ N = Rebound(M)
  OBVIOUS
<1>2. /\ phase = "bind" /\ phase' = "bind" /\ k <= L /\ modules' = [modules EXCEPT ![k] = N]
      /\ next' = k + 1 /\ safeBase' = safeBase
      /\ used' = used /\ stack' = stack /\ paths' = paths /\ files' = files /\ data' = data
      /\ flags' = flags /\ table' = table /\ mapSize' = mapSize /\ preloaded' = preloaded
      /\ mapped' = mapped
  BY <1>1 DEF BindRelocatedImports, bootVars
<1>3. /\ TypesInv /\ L \in Nat /\ DOMAIN modules = 1 .. L
      /\ \A i \in 1 .. L : IsModule(modules[i])
  BY <1>1, ModuleShape DEF BInv
<1>4. stack = <<>> /\ stack' = <<>> /\ stack' \in Seq(StackRecords) /\ DOMAIN stack = {}
      /\ DOMAIN stack' = {}
  BY <1>2 DEF BInv, PhaseInv
<1>5. modules \in Seq(ToSet(modules)) /\ k \in 1 .. L
  BY <1>1, <1>2, <1>3 DEF TypesInv, TypeOK
<1>6. /\ modules' \in Seq(ToSet(modules')) /\ Len(modules') = L /\ DOMAIN modules' = 1 .. L
      /\ \A i \in 1 .. L : modules'[i] = IF i = k THEN N ELSE modules[i]
  BY <1>1, <1>2, <1>3, <1>5, Replaced
<1>7. IsModule(M)
  BY <1>1, <1>3, <1>5
<1>8. PICK S : S = [i \in DOMAIN M.slots |->
                      [M.slots[i] EXCEPT !.value =
                         Address(modules[M.slots[i].export[1]].exports[M.slots[i].export[2]])]]
  OBVIOUS
<1>9. N = [name |-> M.name, start |-> M.start, base |-> M.base, original |-> M.original,
           exports |-> M.exports, slots |-> S, pointers |-> M.pointers]
  <2>1. M = [name |-> M.name, start |-> M.start, base |-> M.base, original |-> M.original,
             exports |-> M.exports, slots |-> M.slots, pointers |-> M.pointers]
    BY <1>7 DEF IsModule
  <2>2. N = [M EXCEPT !.slots = S]
    BY <1>1, <1>8 DEF Rebound
  <2> QED BY <2>1, <2>2
<1>10. /\ N.name = M.name /\ N.start = M.start /\ N.slots = S /\ N.base = M.base
       /\ N.exports = M.exports /\ N.original = M.original /\ N.pointers = M.pointers
  BY <1>9
<1>11. DOMAIN S = DOMAIN Images[M.name].imports /\ DOMAIN M.slots = DOMAIN Images[M.name].imports
  BY <1>7, <1>8 DEF IsModule
<1>12. \A i \in DOMAIN Images[M.name].imports :
         /\ S[i].export = M.slots[i].export
         /\ S[i].value = Address(modules[M.slots[i].export[1]].exports[M.slots[i].export[2]])
         /\ S[i] = [export |-> S[i].export, value |-> S[i].value]
  <2> TAKE i \in DOMAIN Images[M.name].imports
  <2>1. PICK v : v = Address(modules[M.slots[i].export[1]].exports[M.slots[i].export[2]])
    OBVIOUS
  <2>2. S[i] = [M.slots[i] EXCEPT !.value = v]
    BY <1>8, <1>11, <2>1
  <2>3. M.slots[i] = [export |-> M.slots[i].export, value |-> M.slots[i].value]
    BY <1>7 DEF IsModule
  <2>4. S[i] = [export |-> M.slots[i].export, value |-> v]
    BY <2>2, <2>3
  <2>5. S[i].export = M.slots[i].export
    BY <2>4
  <2>6. S[i].value = v
    BY <2>4
  <2>7. S[i] = [export |-> S[i].export, value |-> S[i].value]
    BY <2>4, <2>5, <2>6
  <2> QED BY <2>1, <2>5, <2>6, <2>7
<1>13. IsModule(N)
  <2>1. S = [i \in DOMAIN Images[M.name].imports |-> S[i]]
    BY <1>8, <1>11
  <2>2. S = [i \in DOMAIN Images[M.name].imports |-> [export |-> S[i].export, value |-> S[i].value]]
    BY <1>12, <2>1
  <2> QED BY <1>7, <1>9, <1>10, <2>2 DEF IsModule
<1>14. \A i \in 1 .. L : /\ IsModule(modules'[i])
                         /\ modules'[i].name = modules[i].name
                         /\ modules'[i].start = modules[i].start
                         /\ modules'[i].exports = modules[i].exports
  BY <1>1, <1>3, <1>6, <1>10, <1>13
<1>15. /\ DOMAIN modules' = DOMAIN modules
       /\ \A i \in DOMAIN modules' : IsModule(modules'[i])
       /\ Loaded' = Loaded /\ LoadedOnce'
       /\ \A i \in DOMAIN modules : ModuleFrames(i)' = ModuleFrames(i)
       /\ \A i \in DOMAIN modules' :
            modules'[i].name \in DOMAIN Images /\ modules'[i].start \in Frames
       /\ \A m \in DOMAIN modules : \A i : ImportOf(m, i)' = ImportOf(m, i)
  BY <1>1, <1>6, <1>14, ModulesKept
<1>16. TypesInv'
  <2>1. next' \in 1 .. L + 1
    BY <1>2, <1>3, <1>5
  <2>2. TypeOK'
    BY <1>2, <1>3, <1>6, <1>15, <2>1 DEF TypesInv, TypeOK
  <2> QED BY <1>2, <1>3, <1>4, <1>6, <1>15, <2>2 DEF TypesInv
<1>17. PhaseInv'
  BY <1>2, <1>4 DEF BInv, PhaseInv
<1>18. StackInv'
  BY <1>4 DEF StackInv
<1>19. FramesInv'
  <2>1. \A i : FileRun(i)' = FileRun(i)
    BY <1>2 DEF FileRun
  <2> QED BY <1>2, <1>15, <2>1 DEF BInv, FramesInv
<1>20. FilesInv'
  BY <1>2 DEF BInv, FilesInv
<1>21. ASSUME NEW m \in 1 .. L, NEW i \in DOMAIN Images[modules[m].name].imports
       PROVE  /\ modules'[m].slots[i].export = modules[m].slots[i].export
              /\ \E x \in DOMAIN modules, p \in 1 .. Images[ImportOf(m, i).from].functions :
                   /\ modules[m].slots[i].export = <<x, p>>
                   /\ modules[x].name = ImportOf(m, i).from
                   /\ ExportName(ImportOf(m, i).from, p) = ImportOf(m, i).name
  <2>1. Handled(m, i)
    BY <1>4 DEF Handled
  <2>2. \E x \in DOMAIN modules, p \in 1 .. Images[ImportOf(m, i).from].functions :
          /\ modules[m].slots[i].export = <<x, p>>
          /\ modules[x].name = ImportOf(m, i).from
          /\ ExportName(ImportOf(m, i).from, p) = ImportOf(m, i).name
    BY <1>3, <1>21, <2>1 DEF BInv, SlotsInv
  <2>3. modules'[m].slots[i].export = modules[m].slots[i].export
    BY <1>1, <1>6, <1>10, <1>12, <1>21, ZenonT(60)
  <2> QED BY <2>2, <2>3
<1>22. SlotsInv'
  <2>1. ASSUME NEW m \in 1 .. L, NEW i \in DOMAIN Images[modules'[m].name].imports
        PROVE  \E x \in DOMAIN modules', p \in 1 .. Images[ImportOf(m, i)'.from].functions :
                 /\ modules'[m].slots[i].export = <<x, p>>
                 /\ modules'[x].name = ImportOf(m, i)'.from
                 /\ ExportName(ImportOf(m, i)'.from, p) = ImportOf(m, i)'.name
    <3>1. i \in DOMAIN Images[modules[m].name].imports
      BY <1>14, <2>1
    <3>2. ImportOf(m, i)' = ImportOf(m, i)
      BY <1>3, <1>15, <2>1
    <3>3. PICK x \in DOMAIN modules, p \in 1 .. Images[ImportOf(m, i).from].functions :
            /\ modules[m].slots[i].export = <<x, p>>
            /\ modules[x].name = ImportOf(m, i).from
            /\ ExportName(ImportOf(m, i).from, p) = ImportOf(m, i).name
      BY <1>21, <3>1
    <3>4. x \in DOMAIN modules' /\ modules'[x].name = modules[x].name
          /\ modules'[m].slots[i].export = modules[m].slots[i].export
      BY <1>3, <1>14, <1>15, <1>21, <3>1
    <3> QED BY <3>2, <3>3, <3>4
  <2> QED BY <1>6, <2>1 DEF SlotsInv
<1>23. ValuesInv'
  <2>1. ASSUME NEW m \in 1 .. L, m < k + 1, NEW i \in DOMAIN Images[modules'[m].name].imports
        PROVE  modules'[m].slots[i].value =
                 Address(modules'[modules'[m].slots[i].export[1]].exports[modules'[m].slots[i].export[2]])
    <3>1. i \in DOMAIN Images[modules[m].name].imports
      BY <1>14, <2>1
    <3>2. PICK x, p : x \in DOMAIN modules /\ modules[m].slots[i].export = <<x, p>>
      BY <1>21, <3>1
    <3>3. modules'[m].slots[i].export = <<x, p>>
      BY <1>21, <3>1, <3>2
    <3>4. modules'[x].exports = modules[x].exports
      BY <1>3, <1>14, <3>2
    <3>5. CASE m = k
      <4>3. modules'[k] = N
        BY <1>5, <1>6
      <4>4. M = modules[m] /\ modules'[m].slots = S
        BY <1>1, <1>10, <3>5, <4>3
      <4>1. modules'[m].slots[i] = S[i] /\ M = modules[m]
        BY <4>4
      <4>5. M.slots[i].export = <<x, p>> /\ i \in DOMAIN Images[M.name].imports
        BY <3>1, <3>2, <4>4
      <4>6. PICK e : e = M.slots[i].export
        OBVIOUS
      <4>7. e[1] = x /\ e[2] = p
        BY <4>5, <4>6
      <4>8. S[i].value = Address(modules[e[1]].exports[e[2]])
        BY <1>12, <4>5, <4>6
      <4>2. S[i].value = Address(modules[x].exports[p])
        BY <4>7, <4>8
      <4> QED BY <3>3, <3>4, <4>1, <4>2
    <3>6. CASE m # k
      <4>1. m < k /\ modules'[m] = modules[m]
        BY <1>5, <1>6, <2>1, <3>6
      <4>3. PICK e : e = modules[m].slots[i].export
        OBVIOUS
      <4>4. e[1] = x /\ e[2] = p
        BY <3>2, <4>3
      <4>5. m < next /\ m \in DOMAIN modules
        BY <1>1, <1>3, <4>1
      <4>6. modules[m].slots[i].value = Address(modules[e[1]].exports[e[2]])
        BY <1>2, <3>1, <4>3, <4>5 DEF BInv, ValuesInv
      <4>2. modules[m].slots[i].value = Address(modules[x].exports[p])
        BY <4>4, <4>6
      <4> QED BY <3>3, <3>4, <4>1, <4>2
    <3> QED BY <3>5, <3>6
  <2> QED BY <1>2, <1>6, <2>1 DEF ValuesInv
<1> QED BY <1>15, <1>16, <1>17, <1>18, <1>19, <1>20, <1>22, <1>23 DEF BInv

\* The list of preloaded files is rebuilt, one file after the other.
LEMMA FilesStep ==
  ASSUME BInv, HandlePreloadedFiles
  PROVE  BInv'
<1>1. /\ phase = "bind" /\ next > Len(modules) /\ modules' = modules /\ stack' = stack
      /\ used' = used /\ paths' = paths /\ files' = files /\ data' = data /\ flags' = flags
      /\ table' = table /\ mapSize' = mapSize /\ mapped' = mapped /\ safeBase' = safeBase
      /\ next' = next
      /\ IF Len(preloaded) < Len(files)
         THEN preloaded' = Append(preloaded, files[Len(preloaded) + 1]) /\ phase' = phase
         ELSE phase' = "kernel" /\ preloaded' = preloaded
  BY DEF HandlePreloadedFiles, bootVars
<1>2. /\ LoadedOnce' /\ StackInv' /\ SlotsInv' /\ \A i : ModuleFrames(i)' = ModuleFrames(i)
      /\ modules' \in Seq(ToSet(modules')) /\ \A i \in DOMAIN modules' : IsModule(modules'[i])
      /\ stack' \in Seq(StackRecords)
  BY <1>1, ModulesUnchanged
<1>3. /\ TypesInv /\ files \in Seq(FileRecords) /\ preloaded \in Seq(FileRecords)
      /\ Len(files) \in Nat /\ Len(preloaded) \in Nat /\ Len(preloaded) <= Len(files)
      /\ DOMAIN files = 1 .. Len(files) /\ DOMAIN preloaded = 1 .. Len(preloaded)
  BY DEF BInv, TypesInv, TypeOK
<1>4. FramesInv'
  BY <1>1, <1>2 DEF BInv, FramesInv, FileRun
<1>5. PhaseInv'
  BY <1>1 DEF BInv, PhaseInv
<1>6. ValuesInv'
  <2>1. \A m \in DOMAIN modules : m < next
    <3>1. DOMAIN modules = 1 .. Len(modules) /\ Len(modules) \in Nat /\ next \in Nat
      BY <1>3, ModuleShape DEF TypesInv, TypeOK
    <3> QED BY <1>1, <3>1
  <2> QED BY <1>1, <2>1 DEF BInv, ValuesInv
<1>7. /\ preloaded' \in Seq(FileRecords) /\ Len(preloaded') <= Len(files)
      /\ \A i \in DOMAIN preloaded' : preloaded'[i] = files[i]
      /\ phase' = "kernel" => Len(preloaded') = Len(files)
  <2>1. \A i \in 1 .. Len(preloaded) : preloaded[i] = files[i]
    BY <1>3 DEF BInv, FilesInv
  <2>2. CASE Len(preloaded) < Len(files)
    <3>1. PICK e, P : e = files[P + 1] /\ P = Len(preloaded)
      OBVIOUS
    <3>2. P + 1 \in 1 .. Len(files) /\ e \in FileRecords
      BY <1>3, <2>2, <3>1
    <3>3. preloaded' = Append(preloaded, e) /\ phase' = "bind"
      BY <1>1, <2>2, <3>1
    <3>4. /\ preloaded' \in Seq(FileRecords) /\ Len(preloaded') = P + 1
          /\ DOMAIN preloaded' = 1 .. P + 1
          /\ \A i \in 1 .. P : preloaded'[i] = preloaded[i]
          /\ preloaded'[P + 1] = e
      BY <1>3, <3>1, <3>2, <3>3
    <3>5. \A i \in 1 .. P + 1 : i \in 1 .. P \/ i = P + 1
      BY <1>3, <3>1
    <3> QED BY <2>1, <3>1, <3>2, <3>3, <3>4, <3>5
  <2>3. CASE ~(Len(preloaded) < Len(files))
    <3>1. preloaded' = preloaded
      BY <1>1, <2>3
    <3>3. PICK a, b : a = Len(preloaded) /\ b = Len(files)
      OBVIOUS
    <3>4. a \in Nat /\ b \in Nat /\ a <= b /\ ~(a < b)
      BY <1>3, <2>3, <3>3
    <3>2. Len(preloaded) = Len(files)
      BY <3>3, <3>4
    <3> QED BY <1>3, <2>1, <3>1, <3>2
  <2> QED BY <2>2, <2>3
<1>8. TypesInv'
  <2>1. phase' \in {"bind", "kernel"}
    BY <1>1
  <2> QED BY <1>1, <1>2, <1>3, <1>7, <2>1 DEF TypesInv, TypeOK
<1>9. FilesInv'
  BY <1>1, <1>7 DEF BInv, FilesInv
<1> QED BY <1>2, <1>4, <1>5, <1>6, <1>8, <1>9 DEF BInv
\* The import that is handled next, and the image that asks for it.
LEMMA WantedImport ==
  ASSUME TypesInv, Importing
  PROVE  /\ Current.image \in DOMAIN Images /\ Current.import \in DOMAIN Imports
         /\ Wanted.from \in DOMAIN Images
<1>1. PICK c, I, R : c = stack[1] /\ I = Images[c.image].imports
                     /\ R = [from : DOMAIN Images, name : STRING]
  OBVIOUS
<1>2. Current = c
  <2>1. stack \in Seq(StackRecords) /\ stack # <<>>
    BY DEF TypesInv, Importing
  <2> QED BY <1>1, <2>1 DEF Current
<1>3. c.image \in DOMAIN Images /\ c.import \in Nat \ {0}
  <2>1. Len(stack) \in Nat /\ stack # <<>> /\ stack \in Seq(StackRecords)
    BY DEF TypesInv, Importing
  <2>2. 1 \in 1 .. Len(stack)
    BY <2>1
  <2> QED BY <1>1, <2>2, ModuleShape
<1>4. I \in Seq(R)
  BY <1>1, <1>3, BootAssumption
<1>5. Len(I) \in Nat /\ DOMAIN I = 1 .. Len(I) /\ \A i \in 1 .. Len(I) : I[i] \in R
  BY <1>4
<1>6. Imports = I /\ c.import <= Len(I)
  BY <1>1, <1>2 DEF Importing, Imports
<1>7. c.import \in 1 .. Len(I)
  BY <1>3, <1>5, <1>6
<1>8. I[c.import] \in R
  BY <1>5, <1>7
<1>9. I[c.import].from \in DOMAIN Images
  BY <1>1, <1>8
<1>10. Wanted = I[c.import]
  BY <1>2, <1>6 DEF Wanted
<1> QED BY <1>2, <1>3, <1>5, <1>6, <1>7, <1>9, <1>10

\* Every step keeps the invariant.
LEMMA BootStep ==
  ASSUME BInv, [Next]_vars
  PROVE  BInv'
<1>1. ASSUME OpenKernel PROVE BInv'
  <2>1. phase = "load" /\ stack = <<>> /\ modules = <<>>
        /\ UNCHANGED <<paths, files, data, bootVars, stubVars, failures>>
    BY <1>1 DEF OpenKernel
  <2>2. Kernel \in DOMAIN Images /\ Kernel \notin Loaded
    BY <2>1, BootAssumption DEF Loaded
  <2>3. ASSUME NEW start \in Frames, LoadImage(Kernel, start, <<>>), phase' = phase PROVE BInv'
    <3>1. LoadImage(Kernel, start, stack) /\ phase' = "load"
      BY <2>1, <2>3
    <3> QED BY <2>1, <2>2, <3>1, LoadStep
  <2>4. CASE Stops /\ UNCHANGED <<used, modules, stack>>
    <3>1. phase' = "stopped"
          /\ UNCHANGED <<used, modules, stack, paths, files, data, bootVars, stubVars>>
      BY <2>1, <2>4 DEF Stops
    <3> QED BY <2>1, <3>1, StopStep
  <2> QED BY <1>1, <2>3, <2>4 DEF OpenKernel
<1>2. ASSUME TryToLoadModule PROVE BInv'
  <2>1. phase = "load" /\ Importing /\ Wanted.from \notin Loaded
        /\ UNCHANGED <<paths, files, data, bootVars, stubVars, failures>>
    BY <1>2 DEF TryToLoadModule, Importing
  <2>2. Wanted.from \in DOMAIN Images
    BY <2>1, WantedImport DEF BInv
  <2>3. ASSUME NEW start \in Frames, LoadImage(Wanted.from, start, stack), phase' = phase
        PROVE  BInv'
    <3>1. phase' = "load"
      BY <2>1, <2>3
    <3> QED BY <2>1, <2>2, <2>3, <3>1, LoadStep
  <2>4. CASE Stops /\ UNCHANGED <<used, modules, stack>>
    <3>1. phase' = "stopped"
          /\ UNCHANGED <<used, modules, stack, paths, files, data, bootVars, stubVars>>
      BY <2>1, <2>4 DEF Stops
    <3> QED BY <2>1, <3>1, StopStep
  <2> QED BY <1>2, <2>3, <2>4 DEF TryToLoadModule
<1>3. CASE UNCHANGED vars
  <2>1. /\ modules' = modules /\ stack' = stack /\ used' = used /\ paths' = paths
        /\ files' = files /\ data' = data /\ flags' = flags /\ table' = table
        /\ mapSize' = mapSize /\ mapped' = mapped /\ safeBase' = safeBase
        /\ next' = next /\ preloaded' = preloaded /\ phase' = phase
    BY <1>3 DEF vars
  <2>2. LoadedOnce' /\ StackInv' /\ SlotsInv' /\ \A i : ModuleFrames(i)' = ModuleFrames(i)
    BY <2>1, ModulesUnchanged
  <2>3. TypesInv'
    BY <2>1, ModulesUnchanged DEF BInv, TypesInv, TypeOK
  <2>4. FramesInv'
    BY <2>1, <2>2 DEF BInv, FramesInv, FileRun
  <2>5. PhaseInv' /\ FilesInv' /\ ValuesInv'
    BY <2>1 DEF BInv, PhaseInv, FilesInv, ValuesInv
  <2> QED BY <2>2, <2>3, <2>4, <2>5 DEF BInv
<1> QED
  BY <1>1, <1>2, <1>3, BindStep, FinishStep, PreloadStep, RundownStep, PreloadEndsStep, MapStep,
     ExitStep, RemapStep, RebindStep, FilesStep DEF Next, KeLoadStub

\* Each image is loaded once, its frames and those of the files are not free,
\* and a slot that has been bound leads to an export of the name it asks for
\* (LoadImage, HandleImportDirectory, RemapModule).
THEOREM BootInvariance == Spec => []BInv
<1>1. Init => BInv
  BY InitialBoot
<1>2. BInv /\ [Next]_vars => BInv'
  BY BootStep
<1> QED BY <1>1, <1>2, PTL DEF Spec

\* A free page frame entry is not that of a module or of a preloaded file
\* (QueryMemoryMap).
THEOREM FreeFramesStayApart == Spec => []FreeFramesAreFree
<1>1. BInv => FreeFramesAreFree
  BY DEF BInv, FramesInv, FileRun, FreeFramesAreFree
<1> QED BY <1>1, BootInvariance, PTL

\* The preloaded files are those whose data are in use, and the kernel gets them
\* all in their order (PreloadBootFiles, RundownLoadedFiles, HandlePreloadedFiles).
THEOREM PreloadedFilesAccounted == Spec => []PreloadedAccounted
<1>1. ASSUME BInv PROVE PreloadedAccounted
  <2>1. ASSUME phase = "kernel" PROVE preloaded = files
    <3>1. /\ files \in Seq(FileRecords) /\ preloaded \in Seq(FileRecords)
          /\ Len(preloaded) = Len(files)
          /\ \A i \in DOMAIN preloaded : preloaded[i] = files[i]
      BY <1>1, <2>1 DEF BInv, TypesInv, FilesInv
    <3> QED BY <3>1
  <2> QED BY <1>1, <2>1 DEF BInv, FilesInv, PreloadedAccounted
<1> QED BY <1>1, BootInvariance, PTL
-----------------------------------------------------------------------------
(***************************************************************************)
(* Imports that are found, and pages that stay where they are put.         *)
(***************************************************************************)

\* An image that fits exports the names that are imported from it.
LEMMA NameIsExported ==
  ASSUME ImagesFit, NEW n \in DOMAIN Images, NEW i \in DOMAIN Images[n].imports,
         Images[n].imports[i].from \in DOMAIN Images
  PROVE  \E o \in 1 .. Images[Images[n].imports[i].from].functions :
           \A b : HandleExportDirectory(Images[n].imports[i].from, b)[o].name
                    = Images[n].imports[i].name
<1>1. PICK f, s : f = Images[n].imports[i].from /\ s = Images[n].imports[i].name
  OBVIOUS
<1>2. PICK k \in DOMAIN Images[f].names : Images[f].names[k] = s
  BY <1>1 DEF ImagesFit
<1>3. DOMAIN Images[f].names = DOMAIN Images[f].ordinals
  <2>1. PICK a, b : a = Images[f].names /\ b = Images[f].ordinals
    OBVIOUS
  <2>2. f \in DOMAIN Images /\ a \in Seq(STRING) /\ b \in Seq(Nat) /\ Len(a) = Len(b)
    BY <1>1, <2>1, BootAssumption
  <2>3. DOMAIN a = 1 .. Len(a) /\ DOMAIN b = 1 .. Len(b)
    BY <2>2
  <2> QED BY <2>1, <2>2, <2>3
<1>4. PICK o : o = Images[f].ordinals[k]
  OBVIOUS
<1>5. o \in 1 .. Images[f].functions /\ Images[f].names[o] = s
  BY <1>1, <1>2, <1>3, <1>4 DEF ImagesFit
<1>6. \E j \in DOMAIN Images[f].ordinals : Images[f].ordinals[j] = o
  BY <1>2, <1>3, <1>4
<1>7. \A b : HandleExportDirectory(f, b)[o].name = s
  <2> TAKE b
  <2>1. HandleExportDirectory(f, b)[o] = [base |-> b, fn |-> o, name |-> Images[f].names[o]]
    BY <1>5, <1>6 DEF HandleExportDirectory
  <2> QED BY <1>5, <2>1
<1> QED BY <1>1, <1>5, <1>7

\* So the import is found in the module that is loaded, even while that module is
\* still waiting for its own imports.
LEMMA ImportIsFound ==
  ASSUME BInv, ImagesFit, Importing, Wanted.from \in Loaded
  PROVE  TryFindLoadedExport(TryFindLoadedModule(Wanted.from), Wanted.name) # {}
<1>1. PICK n, i, f, s, x : /\ n = Current.image /\ i = Current.import
                           /\ f = Wanted.from /\ s = Wanted.name
                           /\ x = TryFindLoadedModule(Wanted.from)
  OBVIOUS
<1>2. n \in DOMAIN Images /\ i \in DOMAIN Images[n].imports /\ f \in DOMAIN Images
      /\ f = Images[n].imports[i].from /\ s = Images[n].imports[i].name
  BY <1>1, WantedImport DEF BInv, Imports, Wanted
<1>3. PICK o \in 1 .. Images[f].functions : \A b : HandleExportDirectory(f, b)[o].name = s
  BY <1>2, NameIsExported
<1>4. x \in DOMAIN modules /\ modules[x].name = f
  BY <1>1, Found
<1>5. modules[x].exports = HandleExportDirectory(f, modules[x].base)
  BY <1>4 DEF BInv, TypesInv, IsModule
<1>6. DOMAIN modules[x].exports = 1 .. Images[f].functions /\ modules[x].exports[o].name = s
  <2>1. \A b : DOMAIN HandleExportDirectory(f, b) = 1 .. Images[f].functions
    BY DEF HandleExportDirectory
  <2> QED BY <1>3, <1>5, <2>1
<1>7. PICK S : S = {p \in 1 .. Images[f].functions : modules[x].exports[p].name = s}
  OBVIOUS
<1>8. S \in SUBSET Nat /\ o \in S /\ Images[f].functions \in Nat
  BY <1>2, <1>3, <1>6, <1>7, BootAssumption
<1>9. PICK p \in S : \A q \in S : p <= q
  BY <1>8, LeastNatural
<1>10. ASSUME NEW lower \in 1 .. p - 1 PROVE modules[x].exports[lower].name # s
  <2>1. p \in 1 .. Images[f].functions
    BY <1>7, <1>9
  <2>2. lower \in 1 .. Images[f].functions /\ ~(p <= lower)
    BY <1>8, <1>10, <2>1
  <2> QED BY <1>7, <1>9, <2>2
<1>11. p \in TryFindLoadedExport(x, s)
  BY <1>6, <1>7, <1>9, <1>10 DEF TryFindLoadedExport
<1> QED BY <1>1, <1>11

\* A step that stops the boot over an import does so for want of memory.
LEMMA ImportStep ==
  ASSUME ImagesFit, BInv, ImportsResolve, [Next]_vars
  PROVE  ImportsResolve'
<1> SUFFICES ASSUME phase' = "stopped", stack' # <<>>
             PROVE  (Wanted.from \notin Loaded /\ FreeRuns(TotalPages(Wanted.from)) = {})'
  BY DEF ImportsResolve
<1>1. CASE OpenKernel
  <2>1. phase = "load" /\ stack = <<>>
    BY <1>1 DEF OpenKernel
  <2>2. UNCHANGED stack
    BY <1>1, <2>1 DEF OpenKernel
  <2> QED BY <2>1, <2>2
<1>2. CASE TryToLoadModule
  <2>1. phase = "load" /\ Wanted.from \notin Loaded
    BY <1>2 DEF TryToLoadModule, Importing
  <2>2. FreeRuns(TotalPages(Wanted.from)) = {} /\ UNCHANGED <<used, modules, stack>>
    BY <1>2, <2>1 DEF TryToLoadModule
  <2>3. Wanted' = Wanted /\ Loaded' = Loaded
    BY <2>2 DEF Wanted, Imports, Current, Loaded
  <2>4. \A n : FreeRuns(n)' = FreeRuns(n)
    BY <2>2 DEF FreeRuns
  <2> QED BY <2>1, <2>2, <2>3, <2>4
<1>3. CASE HandleImportDirectory
  <2>1. phase = "load" /\ Importing /\ Wanted.from \in Loaded
    BY <1>3 DEF HandleImportDirectory, Importing
  <2>2. TryFindLoadedExport(TryFindLoadedModule(Wanted.from), Wanted.name) = {}
    BY <1>3, <2>1 DEF HandleImportDirectory
  <2> QED BY <2>1, <2>2, ImportIsFound
<1>4. CASE FinishImage
  BY <1>4 DEF FinishImage
<1>5. CASE PreloadBootFiles \/ RundownLoadedFiles \/ PreloadEnds \/ QueryMemoryMap
           \/ ExitBootServices
  <2>1. phase \in {"preload", "map", "exit"} /\ stack' = stack
    BY <1>5 DEF PreloadBootFiles, RundownLoadedFiles, PreloadEnds, QueryMemoryMap,
                ExitBootServices
  <2> QED BY <2>1 DEF BInv, PhaseInv
<1>6. CASE KeLoadStub
  BY <1>6 DEF KeLoadStub, RemapModule, BindRelocatedImports, HandlePreloadedFiles
<1>7. CASE UNCHANGED vars
  <2>1. stack' = stack /\ modules' = modules /\ used' = used /\ phase' = phase
    BY <1>7 DEF vars
  <2>2. Wanted' = Wanted /\ Loaded' = Loaded
    BY <2>1 DEF Wanted, Imports, Current, Loaded
  <2>3. \A n : FreeRuns(n)' = FreeRuns(n)
    BY <2>1 DEF FreeRuns
  <2> QED BY <2>1, <2>2, <2>3 DEF ImportsResolve
<1> QED BY <1>1, <1>2, <1>3, <1>4, <1>5, <1>6, <1>7 DEF Next

\* Each image is loaded once and finds all its imports, whatever cycles they
\* form, unless there is no memory for a module (LoadImage,
\* HandleImportDirectory).
THEOREM ModulesAreFound == ASSUME ImagesFit PROVE Spec => []ModulesFound
<1>1. Init => BInv /\ ImportsResolve
  BY InitialBoot
<1>2. BInv /\ ImportsResolve /\ [Next]_vars => (BInv /\ ImportsResolve)'
  BY BootStep, ImportStep
<1>3. BInv /\ ImportsResolve => ModulesFound
  BY DEF BInv, TypesInv, ModulesFound
<1> QED BY <1>1, <1>2, <1>3, PTL DEF Spec

\* A page of a module belongs to one section.
LEMMA OnePage ==
  ASSUME SectionsApart, NEW m, m.name \in DOMAIN Images,
         NEW s \in SectionPages(m), NEW t \in SectionPages(m), s.page = t.page
  PROVE  s = t
<1>1. PICK S : S = Images[m.name].sections
  OBVIOUS
<1>2. PICK i \in DOMAIN S : \E a \in 0 .. S[i].pages - 1 :
        s = [page |-> S[i].first + a, user |-> S[i].user, write |-> S[i].write]
  BY <1>1 DEF SectionPages, Sections
<1>3. PICK a \in 0 .. S[i].pages - 1 :
        s = [page |-> S[i].first + a, user |-> S[i].user, write |-> S[i].write]
  BY <1>2
<1>4. PICK j \in DOMAIN S : \E b \in 0 .. S[j].pages - 1 :
        t = [page |-> S[j].first + b, user |-> S[j].user, write |-> S[j].write]
  BY <1>1 DEF SectionPages, Sections
<1>5. PICK b \in 0 .. S[j].pages - 1 :
        t = [page |-> S[j].first + b, user |-> S[j].user, write |-> S[j].write]
  BY <1>4
<1>6. PICK c, d, e, f : c = S[i].first /\ d = S[i].pages /\ e = S[j].first /\ f = S[j].pages
  OBVIOUS
<1>7. c \in Nat /\ d \in Nat /\ e \in Nat /\ f \in Nat
  BY <1>1, <1>2, <1>4, <1>6, SectionRecords
<1>8. c + a = e + b /\ a \in 0 .. d - 1 /\ b \in 0 .. f - 1
  BY <1>3, <1>5, <1>6
<1>9. i = j
  <2>1. i # j => c + d <= e \/ e + f <= c
    BY <1>1, <1>2, <1>4, <1>6 DEF SectionsApart
  <2> QED BY <1>7, <1>8, <2>1
<1> QED BY <1>3, <1>5, <1>9
\* The pages of a module that moves are put behind those that are there.
LEMMA PagesRemapped ==
  ASSUME SectionsApart, BInv, PagesInv, RemapModule
  PROVE  PagesInv'
<1>1. PICK M, L, k, b, P : /\ M = modules[next] /\ L = Len(modules) /\ k = next /\ b = safeBase
                           /\ P = NewPages(M, b)
  OBVIOUS
<1>2. PICK N : N = [M EXCEPT !.original = M.base, !.base = b,
                      !.exports = [o \in DOMAIN M.exports |->
                                     [M.exports[o] EXCEPT !.base = b]]]
  OBVIOUS
<1>3. /\ phase = "remap" /\ k <= L /\ safeBase' = NextSafeBase(M, b)
      /\ next' = (IF k = L THEN 1 ELSE k + 1)
      /\ phase' = (IF k = L THEN "bind" ELSE phase)
      /\ modules' = [modules EXCEPT ![k] = N]
      /\ mapped' = [page \in DOMAIN mapped \cup P |->
                      IF page \in P THEN RemappedPage(M, b, page) ELSE mapped[page]]
  BY <1>1, <1>2 DEF RemapModule
<1>4. /\ L \in Nat /\ DOMAIN modules = 1 .. L /\ k \in 1 .. L /\ b \in Nat
      /\ \A i \in 1 .. L : IsModule(modules[i])
  <2>1. /\ TypesInv /\ L \in Nat /\ DOMAIN modules = 1 .. L
        /\ \A i \in 1 .. L : IsModule(modules[i])
    BY <1>1, ModuleShape DEF BInv
  <2> QED BY <1>1, <1>3, <2>1 DEF TypesInv, TypeOK
<1>5. IsModule(M) /\ M = modules[k]
  BY <1>1, <1>4
<1>6. \A i \in 1 .. L : modules'[i] = IF i = k THEN N ELSE modules[i]
  <2>1. modules \in Seq(ToSet(modules))
    BY DEF BInv, TypesInv
  <2> QED BY <1>1, <1>3, <1>4, <2>1, Replaced
<1>7. DOMAIN modules' = 1 .. L
  BY <1>3, <1>4
<1>8. N.name = M.name /\ N.base = b /\ N.original = M.base
  <2>1. M = [name |-> M.name, start |-> M.start, base |-> M.base, original |-> M.original,
             exports |-> M.exports, slots |-> M.slots, pointers |-> M.pointers]
    BY <1>5 DEF IsModule
  <2> QED BY <1>2, <2>1
<1>9. PICK g : g = NextSafeBase(M, b)
  OBVIOUS
<1>10. g \in Nat /\ b <= g /\ \A s \in SectionPages(M) : s.page \in Nat /\ b + s.page < g
  BY <1>1, <1>4, <1>5, <1>9, SafeBaseGrows
<1>11. /\ \A page \in DOMAIN mapped : page \in Nat /\ page < b
       /\ \A i \in 1 .. L : i < k =>
            \A s \in SectionPages(modules[i]) :
              /\ modules[i].base + s.page \in DOMAIN mapped
              /\ mapped[modules[i].base + s.page] =
                   [frame |-> modules[i].original + s.page, user |-> s.user, write |-> s.write]
  BY <1>1, <1>3, <1>4 DEF PagesInv, Moved
<1>12. \A page \in P : page \in Nat /\ b <= page /\ page < g
  <2> TAKE page \in P
  <2>1. PICK s \in SectionPages(M) : page = b + s.page
    BY <1>1 DEF NewPages
  <2>2. PICK q : q = s.page
    OBVIOUS
  <2>3. q \in Nat /\ b + q < g /\ page = b + q
    BY <1>10, <2>1, <2>2
  <2> QED BY <1>4, <2>3
<1>13. DOMAIN mapped' = DOMAIN mapped \cup P
  BY <1>3
<1>14. \A page \in DOMAIN mapped' : page \in Nat /\ page < safeBase'
  <2>1. ASSUME NEW page \in DOMAIN mapped PROVE page \in Nat /\ page < g
    <3>1. page \in Nat /\ page < b
      BY <1>11
    <3> QED BY <1>4, <1>10, <3>1
  <2> QED BY <1>3, <1>9, <1>12, <1>13, <2>1
<1>15. ASSUME NEW i \in 1 .. L, i < k, NEW s \in SectionPages(modules'[i])
       PROVE  /\ modules'[i].base + s.page \in DOMAIN mapped'
              /\ mapped'[modules'[i].base + s.page] =
                   [frame |-> modules'[i].original + s.page, user |-> s.user, write |-> s.write]
  <2>1. modules'[i] = modules[i] /\ s \in SectionPages(modules[i])
    BY <1>4, <1>6, <1>15
  <2>2. PICK page : page = modules[i].base + s.page
    OBVIOUS
  <2>3. /\ page \in DOMAIN mapped
        /\ mapped[page] = [frame |-> modules[i].original + s.page, user |-> s.user,
                           write |-> s.write]
    BY <1>11, <1>15, <2>1, <2>2
  <2>4. page \notin P
    <3>1. page \in Nat /\ page < b
      BY <1>11, <2>3
    <3> QED BY <1>4, <1>12, <3>1
  <2>5. page \in DOMAIN mapped' /\ mapped'[page] = mapped[page]
    BY <1>3, <2>3, <2>4
  <2> QED BY <2>1, <2>2, <2>3, <2>5
<1>16. ASSUME NEW s \in SectionPages(modules'[k])
       PROVE  /\ modules'[k].base + s.page \in DOMAIN mapped'
              /\ mapped'[modules'[k].base + s.page] =
                   [frame |-> modules'[k].original + s.page, user |-> s.user, write |-> s.write]
  <2>1. modules'[k] = N
    BY <1>4, <1>6
  <2>2. s \in SectionPages(M)
    BY <1>8, <2>1 DEF SectionPages, Sections
  <2>3. b + s.page \in P
    BY <1>1, <2>2 DEF NewPages
  <2>4. PICK t : t = CHOOSE p \in SectionPages(M) : b + p.page = b + s.page
    OBVIOUS
  <2>5. t \in SectionPages(M) /\ b + t.page = b + s.page
    BY <2>2, <2>4
  <2>6. t.page = s.page
    <3>1. PICK x, y : x = t.page /\ y = s.page
      OBVIOUS
    <3>2. x \in Nat /\ y \in Nat /\ b + x = b + y
      BY <1>10, <2>2, <2>5, <3>1
    <3> QED BY <1>4, <3>1, <3>2
  <2>7. M.name \in DOMAIN Images
    BY <1>5 DEF IsModule
  <2>8. t = s
    BY <2>2, <2>5, <2>6, <2>7, OnePage
  <2>9. RemappedPage(M, b, b + s.page) =
          [frame |-> M.base + s.page, user |-> s.user, write |-> s.write]
    BY <2>4, <2>8 DEF RemappedPage
  <2>10. mapped'[b + s.page] = RemappedPage(M, b, b + s.page) /\ b + s.page \in DOMAIN mapped'
    BY <1>3, <2>3
  <2> QED BY <1>8, <2>1, <2>9, <2>10
<1>17. ASSUME NEW i \in 1 .. L, Moved(i)' PROVE i < k \/ i = k
  <2>1. CASE k = L
    BY <1>4, <2>1
  <2>2. CASE k # L
    <3>1. i < k + 1
      BY <1>3, <1>17, <2>2 DEF Moved
    <3> QED BY <1>4, <3>1
  <2> QED BY <2>1, <2>2
<1> QED BY <1>7, <1>14, <1>15, <1>16, <1>17 DEF PagesInv

\* The pages stay where they are in every other step.
LEMMA PagesStep ==
  ASSUME SectionsApart, BInv, PagesInv, [Next]_vars
  PROVE  PagesInv'
<1>1. ASSUME mapped' = mapped, safeBase' = safeBase, phase \notin {"remap", "bind", "kernel"},
             phase' \notin {"bind", "kernel"}, phase' = "remap" => next' = 1,
             DOMAIN modules' \subseteq Nat \ {0}
      PROVE  PagesInv'
  <2>1. \A i \in DOMAIN modules' : ~Moved(i)'
    BY <1>1 DEF Moved
  <2> QED BY <1>1, <2>1 DEF PagesInv
<1>2. DOMAIN modules' \subseteq Nat \ {0}
  <2>1. BInv'
    BY BootStep
  <2>2. PICK m : m = modules'
    OBVIOUS
  <2>3. m \in Seq(ToSet(m))
    BY <2>1, <2>2 DEF BInv, TypesInv
  <2>4. DOMAIN m = 1 .. Len(m) /\ Len(m) \in Nat
    BY <2>3
  <2> QED BY <2>2, <2>4
<1>3. CASE OpenKernel \/ TryToLoadModule \/ HandleImportDirectory \/ FinishImage
  <2>1. /\ mapped' = mapped /\ safeBase' = safeBase /\ phase = "load"
        /\ phase' \in {"load", "stopped", "preload"}
    BY <1>3 DEF OpenKernel, TryToLoadModule, HandleImportDirectory, FinishImage, Importing, Stops,
                stubVars
  <2> QED BY <1>1, <1>2, <2>1
<1>4. CASE PreloadBootFiles \/ RundownLoadedFiles \/ PreloadEnds \/ QueryMemoryMap
  <2>1. /\ mapped' = mapped /\ safeBase' = safeBase /\ phase \in {"preload", "map"}
        /\ phase' \in {"preload", "map", "exit", "stopped"}
    BY <1>4 DEF PreloadBootFiles, RundownLoadedFiles, PreloadEnds, QueryMemoryMap, Stops, stubVars
  <2> QED BY <1>1, <1>2, <2>1
<1>5. CASE ExitBootServices
  <2>1. /\ mapped' = mapped /\ safeBase' = safeBase /\ next' = next /\ phase = "exit"
        /\ phase' \in {"exit", "remap", "stopped"}
    BY <1>5 DEF ExitBootServices, AskAgain, Stops, stubVars
  <2>2. next = 1
    BY <2>1 DEF BInv, PhaseInv
  <2> QED BY <1>1, <1>2, <2>1, <2>2
<1>6. CASE RemapModule
  BY <1>6, PagesRemapped
<1>7. CASE BindRelocatedImports
  <2>1. PICK L, k, N : L = Len(modules) /\ k = next /\ N = Rebound(modules[next])
    OBVIOUS
  <2>2. /\ phase = "bind" /\ phase' = "bind" /\ mapped' = mapped /\ safeBase' = safeBase
        /\ modules' = [modules EXCEPT ![k] = N] /\ k <= L
    BY <1>7, <2>1 DEF BindRelocatedImports
  <2>3. /\ L \in Nat /\ DOMAIN modules = 1 .. L /\ k \in 1 .. L /\ modules \in Seq(ToSet(modules))
        /\ IsModule(modules[k])
    <3>1. TypesInv /\ L \in Nat /\ DOMAIN modules = 1 .. L /\ modules \in Seq(ToSet(modules))
      BY <2>1, ModuleShape DEF BInv, TypesInv
    <3>2. k \in 1 .. L
      BY <2>1, <2>2, <3>1 DEF TypesInv, TypeOK
    <3> QED BY <3>1, <3>2 DEF TypesInv
  <2>4. /\ DOMAIN modules' = 1 .. L
        /\ \A i \in 1 .. L : modules'[i] = IF i = k THEN N ELSE modules[i]
    BY <2>1, <2>2, <2>3, Replaced
  <2>5. PICK M : M = modules[k]
    OBVIOUS
  <2>6. N.name = M.name /\ N.base = M.base /\ N.original = M.original
    <3>1. M = [name |-> M.name, start |-> M.start, base |-> M.base, original |-> M.original,
               exports |-> M.exports, slots |-> M.slots, pointers |-> M.pointers]
      BY <2>3, <2>5 DEF IsModule
    <3>2. PICK S : N = [M EXCEPT !.slots = S]
      BY <2>1, <2>5 DEF Rebound
    <3> QED BY <3>1, <3>2
  <2>7. \A i \in 1 .. L : /\ modules'[i].name = modules[i].name
                          /\ modules'[i].base = modules[i].base
                          /\ modules'[i].original = modules[i].original
    BY <2>3, <2>4, <2>5, <2>6
  <2>8. \A i \in 1 .. L : SectionPages(modules'[i]) = SectionPages(modules[i])
    BY <2>7 DEF SectionPages, Sections
  <2>9. \A i \in 1 .. L : Moved(i)
    BY <2>2 DEF Moved
  <2> QED BY <2>2, <2>3, <2>4, <2>7, <2>8, <2>9 DEF PagesInv
<1>8. CASE HandlePreloadedFiles \/ UNCHANGED vars
  <2>1. /\ mapped' = mapped /\ safeBase' = safeBase /\ modules' = modules /\ next' = next
        /\ phase' = phase \/ (phase = "bind" /\ phase' = "kernel")
    BY <1>8 DEF HandlePreloadedFiles, vars
  <2>2. \A i : Moved(i)' <=> Moved(i)
    BY <2>1 DEF Moved
  <2>3. \A i : SectionPages(modules'[i]) = SectionPages(modules[i])
    BY <2>1
  <2> QED BY <2>1, <2>2, <2>3 DEF PagesInv
<1> QED BY <1>3, <1>4, <1>5, <1>6, <1>7, <1>8 DEF Next, KeLoadStub

\* The name of an export is looked up with its ordinal, which is the place of an
\* equal name when the image fits.
LEMMA OrdinalOfName ==
  ASSUME ImagesFit, NEW f \in DOMAIN Images, NEW o \in 1 .. Images[f].functions,
         ExportName(f, o) # "none"
  PROVE  \E k \in DOMAIN Images[f].names :
           Images[f].names[k] = ExportName(f, o) /\ Images[f].ordinals[k] = o
<1>1. \E i \in DOMAIN Images[f].ordinals : Images[f].ordinals[i] = o
  BY DEF ExportName, HandleExportDirectory
<1>2. PICK k \in DOMAIN Images[f].ordinals : Images[f].ordinals[k] = o
  BY <1>1
<1>3. ExportName(f, o) = Images[f].names[o]
  BY <1>1 DEF ExportName, HandleExportDirectory
<1>4. Images[f].names[o] = Images[f].names[k]
  BY <1>2 DEF ImagesFit
<1>5. DOMAIN Images[f].names = DOMAIN Images[f].ordinals
  <2>1. PICK a, b : a = Images[f].names /\ b = Images[f].ordinals
    OBVIOUS
  <2>2. a \in Seq(STRING) /\ b \in Seq(Nat) /\ Len(a) = Len(b)
    BY <2>1, BootAssumption
  <2>3. DOMAIN a = 1 .. Len(a) /\ DOMAIN b = 1 .. Len(b)
    BY <2>2
  <2> QED BY <2>1, <2>2, <2>3
<1> QED BY <1>2, <1>3, <1>4, <1>5

\* In the kernel the slots hold what the images ask for.
LEMMA SlotsAreBound ==
  ASSUME ImagesFit, BInv
  PROVE  ImportsBound
<1> SUFFICES ASSUME phase = "kernel", NEW m \in DOMAIN modules,
                    NEW i \in DOMAIN Images[modules[m].name].imports
             PROVE  \E k \in DOMAIN Images[ImportOf(m, i).from].names :
                      /\ Images[ImportOf(m, i).from].names[k] = ImportOf(m, i).name
                      /\ modules[m].slots[i].value =
                           [base |-> modules[TryFindLoadedModule(ImportOf(m, i).from)].base,
                            fn |-> Images[ImportOf(m, i).from].ordinals[k]]
  BY DEF ImportsBound, ImportOf
<1>1. PICK f, s : f = ImportOf(m, i).from /\ s = ImportOf(m, i).name
  OBVIOUS
<1>2. Handled(m, i)
  <2>1. stack = <<>>
    BY DEF BInv, PhaseInv
  <2> QED BY <2>1 DEF Handled
<1>3. PICK x \in DOMAIN modules, o \in 1 .. Images[f].functions :
        /\ modules[m].slots[i].export = <<x, o>> /\ modules[x].name = f /\ ExportName(f, o) = s
  BY <1>1, <1>2 DEF BInv, SlotsInv
<1>4. PICK e : e = modules[m].slots[i].export
  OBVIOUS
<1>5. e[1] = x /\ e[2] = o
  BY <1>3, <1>4
<1>6. modules[m].slots[i].value = Address(modules[e[1]].exports[e[2]])
  BY <1>4 DEF BInv, ValuesInv
<1>7. IsModule(modules[x]) /\ IsModule(modules[m])
  BY DEF BInv, TypesInv
<1>8. modules[x].exports[o].base = modules[x].base /\ modules[x].exports[o].fn = o
  BY <1>3, <1>7 DEF IsModule, HandleExportDirectory
<1>9. modules[m].slots[i].value = [base |-> modules[x].base, fn |-> o]
  BY <1>5, <1>6, <1>8 DEF Address
<1>10. TryFindLoadedModule(f) = x
  <2>1. f \in Loaded
    BY <1>3 DEF Loaded
  <2> QED BY <1>3, <2>1, Found DEF BInv, LoadedOnce
<1>11. f \in DOMAIN Images /\ s # "none"
  <2>1. modules[m].name \in DOMAIN Images /\ modules[x].name \in DOMAIN Images
    BY <1>7 DEF IsModule
  <2>2. s # "none"
    BY <1>1, <2>1 DEF ImagesFit, ImportOf
  <2> QED BY <1>3, <2>1, <2>2
<1>12. PICK k \in DOMAIN Images[f].names : Images[f].names[k] = s /\ Images[f].ordinals[k] = o
  BY <1>3, <1>11, OrdinalOfName
<1> QED BY <1>1, <1>9, <1>10, <1>12

\* In the kernel each slot holds the place where the function it asks for is now,
\* and each page of a section is mapped to the frame it was loaded to with the
\* section's rights (KeLoadStub).
THEOREM ModulesAreMoved == ASSUME ImagesFit, SectionsApart PROVE Spec => []ModulesMoved
<1>1. Init => BInv /\ PagesInv
  BY InitialBoot
<1>2. BInv /\ PagesInv /\ [Next]_vars => (BInv /\ PagesInv)'
  BY BootStep, PagesStep
<1>3. BInv /\ PagesInv => ModulesMoved
  BY SlotsAreBound DEF ModulesMoved, PagesKeepTheirRights, PagesInv, Moved
<1> QED BY <1>1, <1>2, <1>3, PTL DEF Spec

=============================================================================
