--------------------------- MODULE ObjectClients ---------------------------
(***************************************************************************)
(* The kernel's calls to the object manager: files (fileio.c), sections    *)
(* and views (mmobj.c), processes and threads (scheduler.c, ldr.c).  Each  *)
(* call is written as the steps of Objects in the order of its code, the   *)
(* last argument of a step saying what its error path does.                *)
(*                                                                         *)
(* The locks of sections and address spaces and the contents of files and  *)
(* pages are left out.                                                     *)
(***************************************************************************)
EXTENDS Objects, SequencesExt

CONSTANTS
  NamespaceUsers,  \* the threads that open files and names
  Files,           \* the names of files
  MaxCalls         \* bound: calls of a behaviour

ASSUME ClientsAssumption ==
  /\ NamespaceUsers \subseteq Threads
  /\ MissingFiles \cup EmptyFiles \subseteq Files
  /\ Files \cap {TypesName, TypeName, NULL} = {}
  /\ MaxCalls \in Nat

VARIABLES
  Given,  \* handles that finished calls returned
  Calls   \* the number of calls so far

clientVars == <<Given, Calls>>

Close(reg) == Do("close", reg, NULL)
Forget(reg) == Do("forget", reg, NULL)
Return(reg) == Do("return", reg, NULL)
Give(reg) == Do("give", reg, NULL)
-----------------------------------------------------------------------------
\* The new instance keeps the second reference to the shared file; the first
\* one goes at the end.  So does none of the instance's own two.
NtCreateFile(name, then, fail) ==
  LET noInstance == <<Dereference("file"), Dereference("file")>> \o fail
      noHandle == <<Dereference("instance"), Dereference("file")>> \o fail
      instance == <<Reference("file")>>
                    \o CreateNameless("instance", "instance", noInstance)
                    \o <<Else(Do("createHandle", "instance", "hFile"), noHandle),
                         Forget("instance"),
                         Dereference("file")>>
  IN CreateNamed("file", name, "file", instance \o then, fail)

NtReadFile(h) == ByHandle(h, "instance", <<>>) \o <<Dereference("instance")>>

NnxGetImageSection(fail) ==
  ByHandle("hFile", "instance", fail)
    \o <<Do("getImage", "instance", "hSection"), Dereference("instance")>>

\* Mutant: the file does not learn of its section.
ImageSectionNotSet(fail) ==
  ByHandle("hFile", "instance", fail) \o <<Dereference("instance")>>

NnxSetImageSection(fail) ==
  ByHandle("hFile", "instance", fail)
    \o <<Do("setImage", "instance", "hSection"), Dereference("instance")>>

ObCloneHandle(fail) ==
  <<Else(Do("extract", "hFile", "object"), fail),
    Else(Do("createHandle", "object", "hClone"),
         <<Dereference("object")>> \o fail),
    Dereference("object")>>

\* The clone of the file's handle is not closed when there is no memory.
MiCreateSectionObject(fail) ==
  ObCloneHandle(fail) \o CreateNameless("section", "section", fail)

NtReferenceSectionFromFile(name) ==
  LET close == <<Close("hFile")>>
      unset == <<Dereference("section"), Close("hFile"), Close("hSection")>>
      known == ByHandle("hSection", "section", <<Give("hSection")>> \o close)
                 \o <<Forget("section"), Give("hSection")>> \o close
      size == ByHandle("hFile", "instance", close)
                \o <<Dereference("instance")>>
      create == size \o MiCreateSectionObject(close)
                  \o <<Else(Do("createHandle", "section", "hSection"),
                            <<Dereference("section")>> \o close),
                       Dereference("section")>>
                  \o NnxSetImageSection(unset)
                  \o <<Give("hSection")>> \o close
  IN NtCreateFile(name,
       NnxGetImageSection(close)
         \o <<Else(Do("ifNone", "hSection", NULL), known)>> \o create,
       <<>>)

\* MiMapView opens the section once more; the pages may be taken.  The view
\* keeps the first reference.
MmCreateView(h) ==
  ByHandle(h, "section", <<>>)
    \o ByHandle(h, "object", <<Dereference("section")>>)
    \o <<Else(Do("map", NULL, NULL),
              <<Dereference("object"), Dereference("section")>>),
         Dereference("object"), Return("section")>>

\* The view is the caller's reference to the section.
MmDeleteView(h, section) ==
  ByHandle(h, "section", <<Return(section)>>)
    \o <<Dereference("section"), Dereference("section")>>

PspCreateProcessInternal ==
  CreateNameless("process", "process", <<>>) \o <<Return("process")>>

PspCreateThreadInternal ==
  CreateNameless("thread", "object", <<>>) \o <<Return("object")>>

\* The pointer to the process is dropped by no one; the thread runs and is
\* dereferenced when it has ended.
NnxStartUserProcess ==
  CreateNameless("process", "process", <<>>)
    \o CreateNameless("thread", "object", <<Forget("process")>>)
    \o <<Return("object"), Forget("process"),
         Else(Do("createHandle", "process", "hFile"), <<>>), Give("hFile")>>

\* DirObjTypeOpenObject with a path of two names, as in ObpTestNamespace.
DirObjTypeOpenObject ==
  LET noParent == <<Dereference("root")>>
      noChild == <<Dereference("parent"), Dereference("root")>>
  IN ByHandle(NamespaceHandle, "root", <<>>)
       \o <<Lookup("root", TypesName, "parent", noParent),
            Lookup("parent", TypeName, "object", noChild),
            Dereference("parent"), Forget("object"), Dereference("root")>>
-----------------------------------------------------------------------------
(***************************************************************************)
(* The steps of the clients themselves.                                    *)
(***************************************************************************)
managerOnly == <<Entries, Children, HandleManagerLock, Held, Forgotten>>

GetImageSection(t) ==
  /\ At(t, "getImage")
  /\ Load(t, Target(t), Header[Header[Argument(t)].owner].data)
  /\ Continue(t, <<>>)
  /\ UNCHANGED <<Header, managerOnly, clientVars>>

SetImageSection(t) ==
  /\ At(t, "setImage")
  /\ Header' = [Header EXCEPT ![Header[Argument(t)].owner].data =
                  Value(t, Target(t))]
  /\ Continue(t, <<>>)
  /\ UNCHANGED <<register, managerOnly, clientVars>>

ImageSectionIsThere(t) ==
  /\ At(t, "ifNone")
  /\ IF Argument(t) = NULL THEN Continue(t, <<>>) ELSE Fail(t)
  /\ UNCHANGED <<Header, register, managerOnly, clientVars>>

MiMapView(t) ==
  /\ At(t, "map")
  /\ Continue(t, <<>>) \/ Fail(t)
  /\ UNCHANGED <<Header, register, managerOnly, clientVars>>

GiveHandle(t) ==
  /\ At(t, "give")
  /\ Given' = Given \cup {Argument(t)}
  /\ Continue(t, <<>>)
  /\ UNCHANGED <<Header, register, managerOnly, Calls>>

Locals == [r \in Registers |-> NULL]

Start(t, locals, steps) ==
  /\ code[t] = <<>>
  /\ Calls < MaxCalls
  /\ Calls' = Calls + 1
  /\ code' = [code EXCEPT ![t] = steps]
  /\ register' = [register EXCEPT ![t] = locals]
  /\ UNCHANGED <<Header, Entries, Children, HandleManagerLock, Forgotten>>

Pointers(t, types) ==
  {o \in Objects : Held[t][o] > 0 /\ Header[o].type \in types}

HandlesTo(type) == {h \in Given : Header[Entries[h]].type = type}

OpensFile(t) ==
  /\ t \in NamespaceUsers
  /\ \/ \E name \in Files :
          \/ Start(t, Locals, NtCreateFile(name, <<Give("hFile")>>, <<>>))
          \/ Start(t, Locals, NtReferenceSectionFromFile(name))
     \/ Start(t, Locals, DirObjTypeOpenObject)
  /\ UNCHANGED <<Held, Given>>

UsesHandle(t) ==
  /\ \/ \E h \in HandlesTo("instance") : Start(t, Locals, NtReadFile(h))
     \/ \E h \in HandlesTo("section") : Start(t, Locals, MmCreateView(h))
  /\ UNCHANGED <<Held, Given>>

DeletesView(t) ==
  \E h \in HandlesTo("section") :
    LET section == Entries[h]
    IN /\ Held[t][section] > 0
       /\ Start(t, [Locals EXCEPT !["section"] = section],
                MmDeleteView(h, section))
       /\ Held' = [Held EXCEPT ![t][section] = @ - 1]
       /\ UNCHANGED Given

ClosesHandle(t) ==
  \E h \in HandlesTo("instance") \cup HandlesTo("process") :
    /\ Start(t, Locals, <<Close(h)>>)
    /\ Given' = Given \ {h}
    /\ UNCHANGED Held

CreatesProcess(t) ==
  /\ \/ Start(t, Locals, PspCreateProcessInternal)
     \/ \E p \in Pointers(t, {"process"}) :
          Start(t, [Locals EXCEPT !["process"] = p], PspCreateThreadInternal)
     \/ Start(t, Locals, NnxStartUserProcess)
  /\ UNCHANGED <<Held, Given>>

DropsPointer(t) ==
  \E o \in Pointers(t, {"process", "thread"}) :
    /\ Start(t, Locals, <<Dereference(o)>>)
    /\ Held' = [Held EXCEPT ![t][o] = @ - 1]
    /\ UNCHANGED Given

ClientInit == Init /\ Given = {} /\ Calls = 0

Step(t) ==
  \/ ManagerStep(t) /\ UNCHANGED clientVars
  \/ GetImageSection(t) \/ SetImageSection(t) \/ ImageSectionIsThere(t)
  \/ MiMapView(t) \/ GiveHandle(t)

Next ==
  \E t \in Threads :
    \/ Step(t)
    \/ OpensFile(t)
    \/ UsesHandle(t)
    \/ DeletesView(t)
    \/ ClosesHandle(t)
    \/ CreatesProcess(t)
    \/ DropsPointer(t)

Spec == ClientInit /\ [][Next]_<<vars, clientVars>>
-----------------------------------------------------------------------------
TypeOK ==
  /\ \A o \in Objects : Header[o] = NULL \/
       /\ Header[o].ReferenceCount \in Nat
       /\ Header[o].HandleCount \in Nat
       /\ Header[o].Root \in Handles \cup {NULL}
       /\ Header[o].owner \in Objects \cup {NULL}
  /\ Entries \in [Handles -> Objects \cup {NULL}]
  /\ \A d \in {Namespace, Types} : Children[d] \in Seq(Objects)
  /\ HandleManagerLock \in Threads \cup {NULL}
  /\ register \in [Threads -> [Registers -> Objects \cup Handles \cup {NULL}]]
  /\ Held \in [Threads -> [Objects -> Nat]]
  /\ Forgotten \in [Objects -> Nat]
  /\ Given \subseteq Handles
  /\ Calls \in 0..MaxCalls

\* A step that is still to come takes one reference to an object, or gives
\* one up.
Gives == {"extract", "byPointer", "reference", "allocate", "lookup", "visit",
          "unlink", "clear"}
Takes == {"dereference", "return", "forget", "link"}

Subject(t, step) ==
  CASE step.op \in {"extract", "allocate", "lookup", "visit"} ->
         register[t][step.reg]
    [] step.op \in {"link", "unlink"} -> Value(t, step.reg)
    [] step.op = "clear" -> Entries[Value(t, step.arg)]
    [] OTHER -> Value(t, step.arg)

Consumes(t, step, o) ==
  \/ step.op \in Takes /\ Subject(t, step) = o
  \/ step.op = "onCreate" /\ step.arg = "instance" /\ register[t]["file"] = o

Owed(t, o) ==
  Len(SelectSeq(code[t], LAMBDA step : Consumes(t, step, o)))
    - Len(SelectSeq(code[t], LAMBDA step : step.op \in Gives
                                             /\ Subject(t, step) = o))

Allocated == {o \in Objects : Header[o] # NULL}

\* What an object is referenced by: handles, children, threads of a process
\* or instances of a file, callers, calls under way, and no one.
ReferencesTo(o) ==
  Cardinality({h \in Handles : Entries[h] = o})
    + (IF o \in {Namespace, Types} THEN Len(Children[o]) ELSE 0)
    + Cardinality({x \in Allocated : Header[x].owner = o})
    + MapThenSumSet(LAMBDA t : Held[t][o] + Owed(t, o), Threads)
    + Forgotten[o]

\* Every object's ReferenceCount is the number of references there are: no
\* interleaving of the calls, and no error path, drops one twice or leaves
\* one behind that the code does not leave behind by design.
ReferencesAccounted ==
  \A o \in Allocated : Header[o].ReferenceCount = ReferencesTo(o)

\* The entries that ObCloseHandle has not begun to close.
OpenEntries ==
  {h \in Handles : Entries[h] # NULL
     /\ ~\E t \in Threads : \E i \in DOMAIN code[t] :
          code[t][i].op = "clear" /\ Value(t, code[t][i].arg) = h}

\* HandleCount is the number of entries with the object; the one that
\* ObCloseHandle is about to clear does not count any more.
HandlesAccounted ==
  \A o \in Allocated :
    Header[o].HandleCount = Cardinality({h \in OpenEntries : Entries[h] = o})

\* Both counts of every object are those of the references and handles there
\* are.
CountsAccounted == TypeOK /\ ReferencesAccounted /\ HandlesAccounted

\* The objects a thread's next step reads or writes.
Touched(t) ==
  IF code[t] = <<>> THEN {}
  ELSE LET step == Head(code[t])
       IN CASE step.op = "visit" -> {step.arg.child} \ {NULL}
            [] step.op \in {"reference", "byPointer", "dereference", "delete",
                            "onDelete", "free", "onCreate", "createHandle",
                            "getImage", "setImage"} -> {Argument(t)}
            [] step.op = "lookup" -> {Value(t, step.arg.dir)}
            [] step.op = "unlink" -> {Argument(t), Value(t, step.reg)}
            [] OTHER -> {}

\* Memory that went back to the pool is not used: not by the next step of a
\* call, not through a handle, a directory, an owner or a caller's pointer.
NothingFreedInUse ==
  /\ \A t \in Threads : Touched(t) \subseteq Allocated
  /\ \A h \in OpenEntries : Entries[h] \in Allocated
  /\ \A d \in {Namespace, Types} : ToSet(Children[d]) \subseteq Allocated
  /\ \A o \in Allocated : Header[o].owner \in Allocated \cup {NULL}
  /\ \A t \in Threads, o \in Objects : Held[t][o] > 0 => o \in Allocated

\* The file of a section that was created for one.
FileOf(section) == Header[Entries[Header[section].data]].owner

\* NtReferenceSectionFromFile gives every caller the same section of a file:
\* handles to two sections are handles to the sections of two files.
ImageSectionShared ==
  \A h, k \in HandlesTo("section") :
    h # k => FileOf(Entries[h]) # FileOf(Entries[k])

NeedsManagerLock(t) == At(t, "extract") \/ At(t, "createHandle") \/ At(t, "close")

\* ObCloseHandle keeps the HandleManagerLock while it dereferences the object,
\* and nothing that leads to needs the lock itself: the holder gets to the end
\* of its call and gives the lock back.
HolderGoesOn ==
  HandleManagerLock # NULL =>
    /\ code[HandleManagerLock] # <<>>
    /\ ~NeedsManagerLock(HandleManagerLock)
=============================================================================
