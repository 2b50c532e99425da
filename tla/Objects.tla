------------------------------ MODULE Objects ------------------------------
(***************************************************************************)
(* The object manager: objects.c, handle.c and namespace.c.  A call is a   *)
(* sequence of steps that several processors interleave.  code[t] is what  *)
(* is left of the call thread t is in, in program order; a step is one     *)
(* critical section of an object's Lock or of the HandleManagerLock, or    *)
(* one access to memory that no lock protects.  An operation that calls    *)
(* others puts their steps in front of the rest of code[t].                *)
(*                                                                         *)
(* Callers are in kernel mode, so the access checks of                     *)
(* ObReferenceObjectByPointer let everything through.  Handles of a        *)
(* process do not exist in the code yet: every handle is a kernel handle.  *)
(* Namespace is the root directory, Types its directory ObjectTypes.       *)
(***************************************************************************)
EXTENDS Integers, Sequences, FiniteSets, TLC

CONSTANTS
  Threads,       \* the threads that call the object manager
  Namespace,     \* the object of GlobalNamespace
  Types,         \* the directory ObjectTypes
  Type,          \* a type object in it
  TypesName,     \* the name of Types
  TypeName,      \* the name of Type
  Slots,         \* the further objects that the pool has memory for
  Handles,       \* the entries of the handle database
  NamespaceHandle, TypesHandle,  \* those of the two directories
  MissingFiles,  \* names of files that the file system does not have
  EmptyFiles,    \* names of files of size zero
  NULL           \* no object, no handle, no name, no thread

Permanent == {Namespace, Types, Type}
Objects == Slots \cup Permanent

Registers == {"root", "parent", "object", "process", "file", "instance",
              "hFile", "hClone", "section", "hSection"}

ASSUME ObjectsAssumption ==
  /\ IsFiniteSet(Slots) /\ IsFiniteSet(Handles)
  /\ Cardinality(Permanent) = 3
  /\ Permanent \cap Slots = {}
  /\ {NamespaceHandle, TypesHandle} \subseteq Handles
  /\ NamespaceHandle # TypesHandle
  /\ NULL \notin Objects \cup Handles \cup Threads

VARIABLES
  Header,             \* the header and body of each object, NULL when freed
  Entries,            \* the handle database: Entries[h].Object
  Children,           \* ChildrenHead of the directories
  HandleManagerLock,  \* the thread that holds it, or NULL
  code,               \* the steps each thread has still to take
  register,           \* the local variables of the calls
  Held,               \* pointers that finished calls returned to a thread
  Forgotten           \* history: references that nobody will ever drop

vars == <<Header, Entries, Children, HandleManagerLock, code, register, Held,
          Forgotten>>

Do(op, arg, reg) == [op |-> op, arg |-> arg, reg |-> reg, fail |-> <<>>]
Else(step, fail) == [step EXCEPT !.fail = fail]

At(t, op) == code[t] # <<>> /\ Head(code[t]).op = op
Value(t, x) == IF x \in Registers THEN register[t][x] ELSE x
Argument(t) == Value(t, Head(code[t]).arg)
Target(t) == Head(code[t]).reg
Continue(t, steps) == code' = [code EXCEPT ![t] = steps \o Tail(@)]
Fail(t) == code' = [code EXCEPT ![t] = Head(@).fail]
Load(t, reg, x) == register' = [register EXCEPT ![t][reg] = x]

ByPointer(reg) == Do("byPointer", reg, NULL)
Reference(reg) == Do("reference", reg, NULL)
Dereference(reg) == Do("dereference", reg, NULL)

\* Mutant: the reference that protects the checks is not dropped.
ByHandleKeeps(h, reg, fail) ==
  <<Else(Do("extract", h, reg), fail), ByPointer(reg)>>

\* ObReferenceObjectByHandle: a reference to keep the object while the checks
\* of the second one are made.
ByHandle(h, reg, fail) ==
  <<Else(Do("extract", h, reg), fail), ByPointer(reg), Dereference(reg)>>

NewHeader(type, name, root) ==
  [type |-> type, ReferenceCount |-> 1, HandleCount |-> 0, Name |-> name,
   Root |-> root, owner |-> NULL, data |-> NULL, created |-> FALSE]

Kept(header, refs, handles) ==
  [header EXCEPT !.ReferenceCount = refs, !.HandleCount = handles,
                 !.created = TRUE]

\* After ObInit.  The creators keep the first reference of the permanent
\* objects; a child references its root.
Init ==
  /\ Header = [o \in Objects |->
       CASE o = Namespace -> Kept(NewHeader("directory", NULL, NULL), 3, 1)
         [] o = Types -> Kept(NewHeader("directory", TypesName,
                                        NamespaceHandle), 3, 1)
         [] o = Type -> Kept(NewHeader("type", TypeName, TypesHandle), 1, 0)
         [] OTHER -> NULL]
  /\ Entries = [h \in Handles |-> CASE h = NamespaceHandle -> Namespace
                                    [] h = TypesHandle -> Types
                                    [] OTHER -> NULL]
  /\ Children = (Namespace :> <<Types>>) @@ (Types :> <<Type>>)
  /\ HandleManagerLock = NULL
  /\ code = [t \in Threads |-> <<>>]
  /\ register = [t \in Threads |-> [r \in Registers |-> NULL]]
  /\ Held = [t \in Threads |-> [o \in Objects |-> 0]]
  /\ Forgotten = [o \in Objects |-> IF o \in Permanent THEN 1 ELSE 0]
-----------------------------------------------------------------------------
(***************************************************************************)
(* Handles.                                                                *)
(***************************************************************************)
ObExtractAndReferenceObjectFromHandle(t) ==
  /\ At(t, "extract")
  /\ HandleManagerLock = NULL
  /\ LET h == Argument(t)
         object == IF h = NULL THEN NULL ELSE Entries[h]
     IN IF object = NULL
        THEN Fail(t) /\ UNCHANGED <<Header, register>>
        ELSE /\ Header' = [Header EXCEPT ![object].ReferenceCount = @ + 1]
             /\ Load(t, Target(t), object)
             /\ Continue(t, <<>>)
  /\ UNCHANGED <<Entries, Children, HandleManagerLock, Held, Forgotten>>

FreeEntries == {h \in Handles : Entries[h] = NULL}

\* The entry is filled with the lock held, the reference taken without it.  The
\* entries of the database may all be taken, by these threads or by others.
ObCreateHandle(t) ==
  /\ At(t, "createHandle")
  /\ HandleManagerLock = NULL
  /\ \/ /\ Fail(t)
        /\ UNCHANGED <<Header, Entries, register>>
     \/ /\ FreeEntries # {}
        /\ LET h == CHOOSE entry \in FreeEntries : TRUE
               object == Argument(t)
           IN /\ Entries' = [Entries EXCEPT ![h] = object]
              /\ Header' = [Header EXCEPT ![object].HandleCount = @ + 1]
              /\ Load(t, Target(t), h)
              /\ Continue(t, <<Reference(object)>>)
  /\ UNCHANGED <<Children, HandleManagerLock, Held, Forgotten>>

\* ObCloseHandleByEntry dereferences the object, and deletes it if it must,
\* while ObCloseHandle holds the lock; the entry is cleared after that.
ObCloseHandle(t) ==
  /\ At(t, "close")
  /\ HandleManagerLock = NULL
  /\ LET h == Argument(t)
         object == IF h = NULL THEN NULL ELSE Entries[h]
     IN IF object = NULL
        THEN /\ Continue(t, <<>>)
             /\ UNCHANGED <<Header, HandleManagerLock>>
        ELSE /\ Header' = [Header EXCEPT ![object].HandleCount = @ - 1]
             /\ HandleManagerLock' = t
             /\ Continue(t, <<Dereference(object), Do("clear", h, NULL)>>)
  /\ UNCHANGED <<Entries, Children, register, Held, Forgotten>>

\* Mutant: the lock is not released.
KeepManagerLock(t) ==
  /\ At(t, "clear")
  /\ Entries' = [Entries EXCEPT ![Argument(t)] = NULL]
  /\ Continue(t, <<>>)
  /\ UNCHANGED <<Header, Children, HandleManagerLock, register, Held, Forgotten>>

ClearEntry(t) ==
  /\ At(t, "clear")
  /\ Entries' = [Entries EXCEPT ![Argument(t)] = NULL]
  /\ HandleManagerLock' = NULL
  /\ Continue(t, <<>>)
  /\ UNCHANGED <<Header, Children, register, Held, Forgotten>>
-----------------------------------------------------------------------------
(***************************************************************************)
(* References and deletion.                                                *)
(***************************************************************************)
ObReferenceObject(t) ==
  /\ At(t, "reference") \/ At(t, "byPointer")
  /\ Header[Argument(t)] # NULL
  /\ Header' = [Header EXCEPT ![Argument(t)].ReferenceCount = @ + 1]
  /\ Continue(t, <<>>)
  /\ UNCHANGED <<Entries, Children, HandleManagerLock, register, Held,
                 Forgotten>>

\* The last reference takes the name away and deletes the object.
ObDereferenceObject(t) ==
  /\ At(t, "dereference")
  /\ LET object == Argument(t)
     IN /\ Header[object] # NULL
        /\ IF Header[object].ReferenceCount = 1
           THEN /\ Header' = [Header EXCEPT ![object].ReferenceCount = 0,
                                            ![object].Name = NULL]
                /\ Continue(t, <<Do("delete", object, NULL)>>)
           ELSE /\ Header' = [Header EXCEPT ![object].ReferenceCount = @ - 1]
                /\ Continue(t, <<>>)
  /\ UNCHANGED <<Entries, Children, HandleManagerLock, register, Held,
                 Forgotten>>

\* Mutant: the child stays in the root's list.
LeaveLinked(object, root, rest) ==
  ByHandle(root, "parent", rest)
    \o <<Dereference("parent"), Dereference("parent")>>

\* The root is found through its handle, unlinked from, and dereferenced for
\* the lookup and for the child that goes.  If the handle is of no use the
\* deletion is given up.
Unroot(object, root, rest) ==
  ByHandle(root, "parent", rest)
    \o <<Do("unlink", object, "parent"),
         Dereference("parent"), Dereference("parent")>>

ObpDeleteObject(t) ==
  /\ At(t, "delete")
  /\ LET object == Argument(t)
         onDelete == <<Do("onDelete", object, NULL)>>
         root == Header[object].Root
     IN Continue(t, CASE Header[object].HandleCount > 0 -> <<>>
                      [] root = NULL -> onDelete
                      [] OTHER -> Unroot(object, root, Tail(code[t]))
                                    \o onDelete)
  /\ UNCHANGED <<Header, Entries, Children, HandleManagerLock, register, Held,
                 Forgotten>>

UnlinkChild(t) ==
  /\ At(t, "unlink")
  /\ Children' = [Children EXCEPT ![Value(t, Target(t))] =
                    SelectSeq(@, LAMBDA child : child # Argument(t))]
  /\ Continue(t, <<>>)
  /\ UNCHANGED <<Header, Entries, HandleManagerLock, register, Held,
                 Forgotten>>

\* OnDelete of the object's type, if it has one: MiDeleteSection closes the
\* section's file.  No OnDelete drops the reference that a thread has to its
\* process or an open instance to its file: the pointer is freed with the
\* object.
OnDelete(t) ==
  /\ At(t, "onDelete")
  /\ LET object == Argument(t)
         hFile == Header[object].data
         close == IF Header[object].type = "section" /\ hFile # NULL
                  THEN <<Do("close", hFile, NULL)>> ELSE <<>>
     IN Continue(t, close \o <<Do("free", object, NULL)>>)
  /\ UNCHANGED <<Header, Entries, Children, HandleManagerLock, register, Held,
                 Forgotten>>

ExFreePool(t) ==
  /\ At(t, "free")
  /\ LET owner == Header[Argument(t)].owner
     IN Forgotten' = IF owner = NULL THEN Forgotten
                     ELSE [Forgotten EXCEPT ![owner] = @ + 1]
  /\ Header' = [Header EXCEPT ![Argument(t)] = NULL]
  /\ Continue(t, <<>>)
  /\ UNCHANGED <<Entries, Children, HandleManagerLock, register, Held>>
-----------------------------------------------------------------------------
(***************************************************************************)
(* Names and creation.                                                     *)
(***************************************************************************)
\* DirObjTypeOpenObjectWithNameDecoded walks the list without a lock: a step
\* per child.  The entry it is at is all it knows.
Lookup(dir, name, reg, missing) ==
  Else(Do("lookup", [dir |-> dir, name |-> name], reg), missing)

Visit(t, step, child) ==
  code' = [code EXCEPT ![t] =
    <<[step EXCEPT !.op = "visit",
                   !.arg = [child |-> child, name |-> step.arg.name,
                            dir |-> Value(t, step.arg.dir)]]>> \o Tail(@)]

StartLookup(t) ==
  /\ At(t, "lookup")
  /\ LET step == Head(code[t])
         list == Children[Value(t, step.arg.dir)]
     IN Visit(t, step, IF list = <<>> THEN NULL ELSE Head(list))
  /\ UNCHANGED <<Header, Entries, Children, HandleManagerLock, register, Held,
                 Forgotten>>

\* CurrentListEntry->Next; where an entry that is no longer linked leads is
\* taken to be the end of the list.
NextChild(dir, child) ==
  LET list == Children[dir]
      after == {i \in 2..Len(list) : list[i - 1] = child}
  IN IF after = {} THEN NULL ELSE list[CHOOSE i \in after : TRUE]

DirObjTypeOpenObjectWithNameDecoded(t) ==
  /\ At(t, "visit")
  /\ LET step == Head(code[t])
         child == step.arg.child
     IN \/ /\ child = NULL
           /\ Fail(t)
           /\ UNCHANGED register
        \/ /\ child # NULL
           /\ Header[child] # NULL
           /\ IF Header[child].Name = step.arg.name
              THEN /\ Load(t, step.reg, child)
                   /\ Continue(t, <<ByPointer(child)>>)
              ELSE /\ Visit(t, step, NextChild(step.arg.dir, child))
                   /\ UNCHANGED register
  /\ UNCHANGED <<Header, Entries, Children, HandleManagerLock, Held, Forgotten>>

FreeSlots == {o \in Slots : Header[o] = NULL}

\* ObCreateObject once the name is known to be free.
Allocate(type, name, root, reg, fail) ==
  Else(Do("allocate", [type |-> type, name |-> name, root |-> root], reg), fail)

ExAllocatePoolWithTag(t) ==
  /\ At(t, "allocate")
  /\ IF FreeSlots = {}
     THEN Fail(t) /\ UNCHANGED <<Header, register>>
     ELSE LET new == Head(code[t]).arg
              object == CHOOSE slot \in FreeSlots : TRUE
          IN /\ Header' = [Header EXCEPT ![object] =
                             NewHeader(new.type, new.name, new.root)]
             /\ Load(t, Target(t), object)
             /\ Continue(t, <<>>)
  /\ UNCHANGED <<Entries, Children, HandleManagerLock, Held, Forgotten>>

\* InsertHeadList without a lock: one step here, so two at once lose nothing.
DirObjTypeAddChildObject(t) ==
  /\ At(t, "link")
  /\ Children' = [Children EXCEPT ![Value(t, Target(t))] = <<Argument(t)>> \o @]
  /\ Continue(t, <<>>)
  /\ UNCHANGED <<Header, Entries, HandleManagerLock, register, Held, Forgotten>>

\* What OnCreate of the object's type says.
Creatable(t, object) ==
  CASE Header[object].type = "file" -> Header[object].Name \notin MissingFiles
    [] Header[object].type = "section" ->
         Header[register[t]["file"]].Name \notin EmptyFiles
    [] OTHER -> TRUE

OwnerOf(t, object) ==
  CASE Header[object].type = "instance" -> register[t]["file"]
    [] Header[object].type = "thread" -> register[t]["process"]
    [] OTHER -> NULL

\* If OnCreate fails the object is deleted, but only if it has a root: the
\* creation of an object without a name is reported as a success.
OnCreate(t) ==
  /\ At(t, "onCreate")
  /\ LET object == Argument(t)
         owner == OwnerOf(t, object)
     IN IF Creatable(t, object)
        THEN /\ Header' = [Header EXCEPT
                  ![object].created = TRUE,
                  ![object].owner = owner,
                  ![object].data = IF Header[object].type = "section"
                                   THEN register[t]["hClone"] ELSE NULL]
             /\ Continue(t, IF Header[object].type = "thread"
                            THEN <<Reference(owner)>> ELSE <<>>)
        ELSE /\ code' = [code EXCEPT ![t] =
                           IF Header[object].Root # NULL
                           THEN <<Dereference(object)>> \o Head(@).fail
                           ELSE Tail(@)]
             /\ UNCHANGED Header
  /\ UNCHANGED <<Entries, Children, HandleManagerLock, register, Held,
                 Forgotten>>

\* ObCreateObject with a name, and with OBJ_OPENIF: an object that is there is
\* opened, and the reference to the root is then never dropped.
CreateNamed(type, name, reg, then, fail) ==
  ByHandle(NamespaceHandle, "root", fail)
    \o <<Lookup("root", name, reg,
           <<Allocate(type, name, NamespaceHandle, reg,
                      <<Do("forget", "root", NULL)>> \o fail),
             Do("link", reg, "root"),
             Else(Do("onCreate", reg, NULL), fail)>> \o then),
         Do("forget", "root", NULL)>>
    \o then

CreateNameless(type, reg, fail) ==
  <<Allocate(type, NULL, NULL, reg, fail),
    Else(Do("onCreate", reg, NULL), fail)>>

\* A call returns a pointer to its caller, or returns without dropping it.
ReturnPointer(t) ==
  /\ At(t, "return")
  /\ Held' = [Held EXCEPT ![t][Argument(t)] = @ + 1]
  /\ Continue(t, <<>>)
  /\ UNCHANGED <<Header, Entries, Children, HandleManagerLock, register,
                 Forgotten>>

ForgetPointer(t) ==
  /\ At(t, "forget")
  /\ Forgotten' = [Forgotten EXCEPT ![Argument(t)] = @ + 1]
  /\ Continue(t, <<>>)
  /\ UNCHANGED <<Header, Entries, Children, HandleManagerLock, register, Held>>

ManagerStep(t) ==
  \/ ObExtractAndReferenceObjectFromHandle(t)
  \/ ObCreateHandle(t)
  \/ ObCloseHandle(t)
  \/ ClearEntry(t)
  \/ ObReferenceObject(t)
  \/ ObDereferenceObject(t)
  \/ ObpDeleteObject(t)
  \/ UnlinkChild(t)
  \/ OnDelete(t)
  \/ ExFreePool(t)
  \/ StartLookup(t)
  \/ DirObjTypeOpenObjectWithNameDecoded(t)
  \/ ExAllocatePoolWithTag(t)
  \/ DirObjTypeAddChildObject(t)
  \/ OnCreate(t)
  \/ ReturnPointer(t)
  \/ ForgetPointer(t)
=============================================================================
