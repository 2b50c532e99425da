-------------------------------- MODULE Boot --------------------------------
(***************************************************************************)
(* From the firmware to the kernel's entry (bootloader/boot.c,             *)
(* bootloader/fswrapperfile.c, NNXOSKRN/loadstub.c): the boot loader loads *)
(* the kernel and the modules it imports, one inside the other, reads the  *)
(* files to preload, turns the memory map into page frame entries and      *)
(* leaves the boot services; the kernel's stub moves the modules to the    *)
(* kernel's addresses and binds their imports again.                       *)
(*                                                                         *)
(* Memory is a row of frames.  The firmware gives any free run of them.    *)
(* An address is a base and an offset; physical bases are frames, and the  *)
(* kernel's pages are counted from its desired location.  Every failure    *)
(* but that of a preloaded file stops the boot (RETURN_IF_ERROR).          *)
(***************************************************************************)
EXTENDS Integers, Sequences, FiniteSets

CONSTANTS Kernel,         \* the name of the kernel's image
          Images,         \* the images on the boot device, by name
          Preload,        \* names of the files to preload, in order
          FileFrames,     \* frames of a preloaded file's data, by name
          LastFrame,      \* frames are numbered from 0
          Reserved,       \* frames the firmware keeps
          EntryBytes,     \* sizeof(MMPFN_ENTRY), 32 in the code
          FrameBytes,     \* PAGE_SIZE, 4096 in the code
          PoolOffset,     \* where in its first frame a large pool block starts
          MaxFailures     \* bound: failures of a preloaded file or of the exit

\* An image: its sections (first page, pages, rights), what it exports (the
\* table of names and the ordinals that go with them) and what it imports.
ASSUME BootAssumption ==
  /\ Kernel \in DOMAIN Images /\ Reserved \subseteq 0..LastFrame
  /\ LastFrame \in Nat /\ EntryBytes \in Nat \ {0} /\ FrameBytes \in Nat \ {0}
  /\ Preload \in Seq(DOMAIN FileFrames) /\ \A n \in DOMAIN FileFrames : FileFrames[n] \in Nat
  /\ \A n \in DOMAIN Images :
       /\ Images[n].names \in Seq(STRING) /\ Images[n].ordinals \in Seq(Nat)
       /\ Len(Images[n].names) = Len(Images[n].ordinals) /\ Images[n].functions \in Nat
       /\ Images[n].imports \in Seq([from : DOMAIN Images, name : STRING])
       /\ Images[n].sections \in
            Seq([first : Nat, pages : Nat, user : BOOLEAN, write : BOOLEAN])

VARIABLES
  phase,      \* "load", "preload", "map", "exit", "remap", "bind", "kernel" or "stopped"
  used,       \* frames that are not EfiConventionalMemory
  modules,    \* LoadedModules
  stack,      \* the running calls of LoadImage: image, next import, open ".."
  paths,      \* index of the next file to preload
  files,      \* PreloadedFiles
  data,       \* pool blocks of preloaded files in use
  flags,      \* page frame entries: Flags
  table,      \* frames of the array of page frame entries
  mapSize,    \* MemoryMapSize in efi_main: "none", "known"
  mapped,     \* the kernel's pages: frame and rights
  safeBase,   \* CurrentBase in KeLoadStub
  next,       \* index of the module the stub works on
  preloaded,  \* the list of preloaded files the stub rebuilds
  failures

vars == <<phase, used, modules, stack, paths, files, data, flags, table, mapSize, mapped,
          safeBase, next, preloaded, failures>>
bootVars == <<flags, table, mapSize>>
stubVars == <<mapped, safeBase, next, preloaded>>

Frames == 0..LastFrame
Run(start, n) == start..(start + n - 1)
\* Where the firmware can put n frames.
FreeRuns(n) == {start \in Frames : Run(start, n) \subseteq Frames \ used}
Greatest(S) == CHOOSE x \in S : \A y \in S : y <= x
Fails == failures < MaxFailures /\ failures' = failures + 1
Stops == phase' = "stopped"

ImagePages(n) == Greatest({s.first + s.pages : s \in {Images[n].sections[i] :
                                                        i \in DOMAIN Images[n].sections}})
\* One frame for the module's own record, its exports and its section headers.
TotalPages(n) == 1 + ImagePages(n)

Init ==
  /\ phase = "load"
  /\ used = Reserved
  /\ modules = <<>>
  /\ stack = <<>>
  /\ paths = 1
  /\ files = <<>>
  /\ data = {}
  /\ flags = <<>>
  /\ table = {}
  /\ mapSize = "none"
  /\ mapped = <<>>
  /\ safeBase = 0
  /\ next = 1
  /\ preloaded = <<>>
  /\ failures = 0

-----------------------------------------------------------------------------
\* Loading images.

\* Mutant: a module is in the list only when its imports are done.
LoadedAfterImports ==
  {modules[i].name : i \in DOMAIN modules} \ {stack[i].image : i \in DOMAIN stack}
Loaded == {modules[i].name : i \in DOMAIN modules}
TryFindLoadedModule(n) == CHOOSE i \in DOMAIN modules : modules[i].name = n

\* An export's address and name, by ordinal.  The name is looked up with the
\* ordinal, and not with the index of the ordinal, in the table of names.
HandleExportDirectory(n, base) ==
  [o \in 1..Images[n].functions |->
     [base |-> base, fn |-> o,
      name |-> IF \E i \in DOMAIN Images[n].ordinals : Images[n].ordinals[i] = o
               THEN Images[n].names[o] ELSE "none"]]

\* The image is read twice, the first time into frames that are freed again, for
\* the number of its exports.  Its record is in LoadedModules before its
\* imports are looked at, and its exports are filled in before them.
LoadImage(n, start, rest) ==
  /\ start \in FreeRuns(TotalPages(n))
  /\ used' = used \cup Run(start, TotalPages(n))
  /\ modules' = Append(modules,
       [name |-> n, start |-> start, base |-> start + 1, original |-> start + 1,
        exports |-> HandleExportDirectory(n, start + 1),
        slots |-> [i \in DOMAIN Images[n].imports |-> [export |-> <<>>, value |-> <<>>]],
        pointers |-> Images[n].preferred])
  /\ stack' = <<[image |-> n, import |-> 1]>> \o rest

\* efi_main opens the root of the drive and the kernel's file in it.
OpenKernel ==
  /\ phase = "load" /\ stack = <<>> /\ modules = <<>>
  /\ \/ \E start \in Frames : LoadImage(Kernel, start, <<>>) /\ UNCHANGED phase
     \/ FreeRuns(TotalPages(Kernel)) = {} /\ Stops /\ UNCHANGED <<used, modules, stack>>
  /\ UNCHANGED <<paths, files, data, bootVars, stubVars, failures>>

Current == Head(stack)
Imports == Images[Current.image].imports
Importing == phase = "load" /\ stack # <<>> /\ Current.import <= Len(Imports)
Wanted == Imports[Current.import]

\* A module that is imported and not there yet is loaded before the import is bound.
TryToLoadModule ==
  /\ Importing
  /\ Wanted.from \notin Loaded
  /\ \/ \E start \in Frames : LoadImage(Wanted.from, start, stack) /\ UNCHANGED phase
     \/ FreeRuns(TotalPages(Wanted.from)) = {} /\ Stops /\ UNCHANGED <<used, modules, stack>>
  /\ UNCHANGED <<paths, files, data, bootVars, stubVars, failures>>

TryFindLoadedExport(m, name) ==
  {o \in DOMAIN modules[m].exports :
     /\ modules[m].exports[o].name = name
     /\ \A lower \in 1..o-1 : modules[m].exports[lower].name # name}
Address(export) == [base |-> export.base, fn |-> export.fn]

\* A slot gets the address of the export, and OriginalFirstThunk the place of
\* the export in the exporter's table, for the stub.
HandleImportDirectory ==
  /\ Importing
  /\ Wanted.from \in Loaded
  /\ LET importer == TryFindLoadedModule(Current.image)
         exporter == TryFindLoadedModule(Wanted.from)
     IN  \/ \E o \in TryFindLoadedExport(exporter, Wanted.name) :
              /\ modules' = [modules EXCEPT ![importer].slots[Current.import] =
                   [export |-> <<exporter, o>>, value |-> Address(modules[exporter].exports[o])]]
              /\ stack' = [stack EXCEPT ![1].import = @ + 1]
              /\ UNCHANGED phase
         \/ /\ TryFindLoadedExport(exporter, Wanted.name) = {}
            /\ Stops /\ UNCHANGED <<modules, stack>>
  /\ UNCHANGED <<used, paths, files, data, bootVars, stubVars, failures>>

\* After the imports the absolute addresses in the image are moved from the
\* preferred base to the base it has, and ".." is closed.
HandleBaseRelocationDirectory(m) ==
  IF Images[m.name].relocatable THEN [m EXCEPT !.pointers = m.base] ELSE m

FinishImage ==
  /\ phase = "load" /\ stack # <<>>
  /\ Current.import > Len(Imports)
  /\ modules' = [modules EXCEPT ![TryFindLoadedModule(Current.image)] =
                   HandleBaseRelocationDirectory(@)]
  /\ stack' = Tail(stack)
  /\ phase' = IF Len(stack) = 1 THEN "preload" ELSE phase
  /\ UNCHANGED <<used, paths, files, data, bootVars, stubVars, failures>>

-----------------------------------------------------------------------------
\* Preloaded files.

\* Mutant: the entry of a file that could not be read stays in the list.
PreloadFailedKeepsEntry(n) ==
  Fails /\ files' = Append(files, [name |-> n, start |-> 0]) /\ UNCHANGED <<data, used>>
PreloadFailed(n) == Fails /\ UNCHANGED <<files, data, used>>

\* One round of the loop: the entry is in the list before its data are there,
\* and is taken out again if they do not come.
PreloadBootFiles ==
  /\ phase = "preload" /\ paths <= Len(Preload)
  /\ paths' = paths + 1
  /\ LET n == Preload[paths]
     IN  \/ \E start \in FreeRuns(FileFrames[n]) :
              /\ files' = Append(files, [name |-> n, start |-> start])
              /\ data' = data \cup {n}
              /\ used' = used \cup Run(start, FileFrames[n])
              /\ UNCHANGED failures
         \/ PreloadFailed(n)
  /\ UNCHANGED <<phase, modules, stack, bootVars, stubVars>>

\* No memory for an entry or its data ends the boot, with every file given back.
RundownLoadedFiles ==
  /\ phase = "preload" /\ paths <= Len(Preload)
  /\ FreeRuns(FileFrames[Preload[paths]]) = {}
  /\ Stops
  /\ used' = used \ UNION {Run(files[i].start, FileFrames[files[i].name]) : i \in DOMAIN files}
  /\ files' = <<>>
  /\ data' = data \ {files[i].name : i \in DOMAIN files}
  /\ UNCHANGED <<modules, stack, paths, bootVars, stubVars, failures>>

PreloadEnds ==
  /\ phase = "preload" /\ paths > Len(Preload)
  /\ phase' = "map"
  /\ UNCHANGED <<used, modules, stack, paths, files, data, bootVars, stubVars, failures>>

-----------------------------------------------------------------------------
\* The memory map.

\* Page frame entries reach to the end of the last conventional memory.
Pages == IF used = Frames THEN 0 ELSE Greatest(Frames \ used) + 1
TableFrames(pages) == (PoolOffset + pages * EntryBytes + FrameBytes - 1) \div FrameBytes

\* The entries of the array's own frames are marked, over as many bytes as there
\* are entries.
OfTable(frame, start, pages) ==
  LET array == start * FrameBytes + PoolOffset
  IN  frame * FrameBytes >= array /\ frame * FrameBytes <= array + pages

\* Mutant: only what the firmware keeps is marked.
ReservedAlone(f, start, pages) == IF f = 0 \/ f \in Reserved \/ OfTable(f, start, pages) THEN 1 ELSE 0
EntryFlags(f, start, pages) == IF f = 0 \/ f \in used \/ OfTable(f, start, pages) THEN 1 ELSE 0

\* The map is taken before the array is allocated.  Frame 0 is never free.  Whether
\* there was memory for the array is not asked; the boot is not followed further
\* when there was none.
QueryMemoryMap ==
  /\ phase = "map"
  /\ \E pages \in {Pages} :
       \/ \E start \in FreeRuns(TableFrames(pages)) :
            /\ table' = Run(start, TableFrames(pages))
            /\ used' = used \cup table'
            /\ flags' = [f \in 0..pages-1 |-> EntryFlags(f, start, pages)]
            /\ phase' = "exit"
       \/ FreeRuns(TableFrames(pages)) = {} /\ Stops /\ UNCHANGED <<table, used, flags>>
  /\ UNCHANGED <<modules, stack, paths, files, data, mapSize, stubVars, failures>>

AskAgain(grown) ==
  IF grown THEN mapSize' = "none" /\ UNCHANGED <<phase, failures>>
           ELSE Stops /\ UNCHANGED <<mapSize, failures>>

\* The loop expects its first question to be answered with "too small".  After
\* an exit that failed it asks with the size of the last map, and goes on only
\* if the map has grown.
ExitBootServices ==
  /\ phase = "exit"
  /\ \/ mapSize = "none" /\ phase' = "remap" /\ UNCHANGED <<mapSize, failures>>
     \/ mapSize = "none" /\ Fails /\ mapSize' = "known" /\ UNCHANGED phase
     \/ mapSize = "known" /\ \E grown \in BOOLEAN : AskAgain(grown)
  /\ UNCHANGED <<used, modules, stack, paths, files, data, flags, table, stubVars>>

-----------------------------------------------------------------------------
\* The kernel's stub.

Sections(m) == {Images[m.name].sections[i] : i \in DOMAIN Images[m.name].sections}
SectionPages(m) == UNION {{[page |-> s.first + j, user |-> s.user, write |-> s.write] :
                             j \in 0..s.pages-1} : s \in Sections(m)}

\* The pages of a module's sections, from a new base on.
NewPages(m, newBase) == {newBase + s.page : s \in SectionPages(m)}
RemappedPage(m, newBase, page) ==
  LET s == CHOOSE s \in SectionPages(m) : newBase + s.page = page
  IN  [frame |-> m.base + s.page, user |-> s.user, write |-> s.write]
\* The first page behind a module.
NextSafeBase(m, newBase) ==
  Greatest({safeBase} \cup {page + 1 : page \in NewPages(m, newBase)})

\* A module moves; the addresses in its table of exports move with it.
RemapModule ==
  /\ phase = "remap" /\ next <= Len(modules)
  /\ \E m \in {modules[next]} :
       /\ mapped' = [page \in DOMAIN mapped \cup NewPages(m, safeBase) |->
                       IF page \in NewPages(m, safeBase) THEN RemappedPage(m, safeBase, page)
                       ELSE mapped[page]]
       /\ modules' = [modules EXCEPT ![next] =
                        [m EXCEPT !.original = m.base, !.base = safeBase,
                           !.exports = [o \in DOMAIN m.exports |->
                                          [m.exports[o] EXCEPT !.base = safeBase]]]]
       /\ safeBase' = NextSafeBase(m, safeBase)
  /\ next' = IF next = Len(modules) THEN 1 ELSE next + 1
  /\ phase' = IF next = Len(modules) THEN "bind" ELSE phase
  /\ UNCHANGED <<used, stack, paths, files, data, bootVars, preloaded, failures>>

\* Mutant: the first slot is left as it is.
ReboundFromTheSecond(m) ==
  [m EXCEPT !.slots = [i \in DOMAIN m.slots |->
     IF i = 1 THEN m.slots[i]
     ELSE [m.slots[i] EXCEPT !.value =
        Address(modules[m.slots[i].export[1]].exports[m.slots[i].export[2]])]]]
\* Each slot is filled again through the place kept in OriginalFirstThunk.
Rebound(m) ==
  [m EXCEPT !.slots = [i \in DOMAIN m.slots |->
     [m.slots[i] EXCEPT !.value =
        Address(modules[m.slots[i].export[1]].exports[m.slots[i].export[2]])]]]

BindRelocatedImports ==
  /\ phase = "bind" /\ next <= Len(modules)
  /\ modules' = [modules EXCEPT ![next] = Rebound(@)]
  /\ next' = next + 1
  /\ UNCHANGED <<phase, used, stack, paths, files, data, bootVars, mapped, safeBase,
                 preloaded, failures>>

\* The files move to a new list, in their order.
HandlePreloadedFiles ==
  /\ phase = "bind" /\ next > Len(modules)
  /\ IF Len(preloaded) < Len(files)
     THEN preloaded' = Append(preloaded, files[Len(preloaded) + 1]) /\ UNCHANGED phase
     ELSE phase' = "kernel" /\ UNCHANGED preloaded
  /\ UNCHANGED <<used, modules, stack, paths, files, data, bootVars, mapped, safeBase,
                 next, failures>>

\* What the stub does before it enters the kernel, in this order.
KeLoadStub == RemapModule \/ BindRelocatedImports \/ HandlePreloadedFiles

-----------------------------------------------------------------------------
Next ==
  \/ OpenKernel \/ TryToLoadModule \/ HandleImportDirectory \/ FinishImage
  \/ PreloadBootFiles \/ RundownLoadedFiles \/ PreloadEnds
  \/ QueryMemoryMap \/ ExitBootServices
  \/ KeLoadStub

Spec == Init /\ [][Next]_vars

-----------------------------------------------------------------------------
TypeOK ==
  /\ phase \in {"load", "preload", "map", "exit", "remap", "bind", "kernel", "stopped"}
  /\ used \subseteq Frames /\ table \subseteq used
  /\ \A i \in DOMAIN modules : modules[i].name \in DOMAIN Images /\ modules[i].start \in Frames
  /\ paths \in 1..Len(Preload) + 1 /\ Len(preloaded) <= Len(files)
  /\ \A f \in DOMAIN flags : flags[f] \in {0, 1}
  /\ next \in 1..Len(modules) + 1

ModuleFrames(i) == Run(modules[i].start, TotalPages(modules[i].name))

\* An image is loaded once, however many modules import it and although the
\* kernel and the HAL import each other (boot.c:688 before boot.c:714).
LoadedOnce ==
  \A i, j \in DOMAIN modules : modules[i].name = modules[j].name => i = j

\* The boot stops while it loads modules only for want of memory: in a cycle of
\* imports an importer always finds the exports of the module that is still
\* being loaded.
ImportsResolve ==
  phase = "stopped" /\ stack # <<>> =>
    Wanted.from \notin Loaded /\ FreeRuns(TotalPages(Wanted.from)) = {}

\* Whatever the images import of each other, each module is loaded once and finds
\* all its imports: the parts above.
ModulesFound ==
  /\ TypeOK
  /\ LoadedOnce
  /\ ImportsResolve

\* In the kernel every import leads to the function of that name at the place
\* where its module is now, for modules moved before and after the importer.
ImportsBound ==
  phase = "kernel" =>
    \A m \in DOMAIN modules : \A i \in DOMAIN Images[modules[m].name].imports :
      LET import == Images[modules[m].name].imports[i]
          exporter == modules[TryFindLoadedModule(import.from)]
          image == Images[import.from]
      IN  \E k \in DOMAIN image.names :
            /\ image.names[k] = import.name
            /\ modules[m].slots[i].value = [base |-> exporter.base, fn |-> image.ordinals[k]]

\* In the kernel every page of every section is where its module is now, in the
\* frame it was loaded to and with the rights of its section: no module was
\* mapped over another, and the user's pages are those of ".user" alone.
PagesKeepTheirRights ==
  phase = "kernel" =>
    \A i \in DOMAIN modules : \A s \in SectionPages(modules[i]) :
      /\ modules[i].base + s.page \in DOMAIN mapped
      /\ mapped[modules[i].base + s.page] =
           [frame |-> modules[i].original + s.page, user |-> s.user, write |-> s.write]

\* When the kernel starts, each module is where its importers and its pages say,
\* though it was moved after it had been loaded and bound: the parts above.
ModulesMoved ==
  /\ ImportsBound
  /\ PagesKeepTheirRights

\* What the kernel may take as free memory holds no module and no preloaded
\* file: the map is taken after the last of them was allocated.
FreeFramesAreFree ==
  phase = "kernel" =>
    \A f \in DOMAIN flags : flags[f] = 0 =>
      /\ \A i \in DOMAIN modules : f \notin ModuleFrames(i)
      /\ \A i \in DOMAIN files : f \notin Run(files[i].start, FileFrames[files[i].name])

\* A file in the list has its data, and data in use are those of a file in the
\* list, also after a file that failed and after the rundown; the kernel's list
\* is the loader's, in its order.
PreloadedAccounted ==
  /\ data = {files[i].name : i \in DOMAIN files}
  /\ phase = "kernel" => preloaded = files

=============================================================================
