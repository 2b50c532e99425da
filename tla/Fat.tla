-------------------------------- MODULE Fat --------------------------------
(***************************************************************************)
(* The FAT file system of NNXOSKRN (drivers/builtin/fs/fat.c) on a FAT32   *)
(* volume.  A call of the VFS interface is made of the same operators as   *)
(* the code: an operator that has the name of a function takes the state   *)
(* of a call, a record, and returns what the function leaves of it.  The   *)
(* machine may stop between any two sector writes of a call.               *)
(*                                                                         *)
(* A cluster is one sector, a sector has Cells cells, and a cell is an     *)
(* entry of a directory or a unit of data.  Names are atoms, paths are     *)
(* sequences of names.  The faults are the places where the code goes      *)
(* wrong; nothing is claimed of a volume after one of them.                *)
(***************************************************************************)
EXTENDS Integers, Sequences, FiniteSets, SequencesExt

CONSTANTS
  LastCluster,    \* FatCalculateFatClusterCount + 1
  EntriesPerSector, \* entries of the allocation table in a sector
  Cells,          \* cells in a sector
  Volume,         \* the volume at the beginning
  Stored,         \* the contents of the files on it
  Files,          \* the paths that files are created at
  Directories,    \* the paths that directories are created at
  Shadows,        \* <<n, p>> where the name p is a proper prefix of n
  Data,           \* units of data
  Written,        \* those that are written
  Free, Deleted, Junk, NULL,
  Chunks,         \* bound: sizes of reads and writes
  MaxSize,        \* bound: largest size of a file
  MaxCalls        \* bound: number of calls, without the opening of files

Clusters == 2 .. LastCluster
Root == 2                     \* FatGetRootCluster
Eof == LastCluster + 1        \* FatGetClusterEof
NoCluster == LastCluster + 2  \* 0xFFFFFFFF
Paths == Files \cup Directories
Sizes == 0 .. MaxSize

ASSUME VolumeAssumption ==
  /\ LastCluster \in Nat /\ LastCluster > 2
  /\ {EntriesPerSector, Cells} \subseteq Nat \ {0}
  /\ Volume.fat \in [0 .. LastCluster -> 0 .. NoCluster]
  /\ DOMAIN Volume.data = Clusters
  /\ DOMAIN Stored \subseteq Files /\ Written \subseteq Data
  /\ Chunks \subseteq Nat /\ MaxSize \in Nat /\ MaxCalls \in Nat

VARIABLES
  disk,     \* fat, data, and whether the boot sector is intact
  cache,    \* CachedFatSector and CachedFatSectorNumber
  file,     \* the open VFS_FILE
  result,   \* what the last call returned
  store,    \* history: what was written to each path
  faults,   \* history: where the code went wrong
  stopped,  \* history: how often the machine was stopped inside a call
  calls     \* number of calls

vars == <<disk, cache, file, result, store, faults, stopped, calls>>

Times(n) == [i \in 1 .. n |-> i]
Walk == Times(LastCluster + 1)
Least(S) == CHOOSE x \in S : \A y \in S : x <= y
NoEntry == [name |-> NULL, dir |-> FALSE, cluster |-> 0, size |-> 0]
RootEntry == [NoEntry EXCEPT !.cluster = Root, !.dir = TRUE]
IsFileOrDir(cell) == cell \notin {Free, Deleted, Junk} \cup Data
Blank == [i \in 1 .. Cells |-> Free]
Garbage == [i \in 1 .. Cells |-> Junk]

\* The state of a call: status, entry, sector, at, last and done are what its
\* functions return, log holds the disk after each sector write.
Call ==
  [disk |-> disk, cache |-> cache, log |-> <<disk>>, faults |-> {}, shrinks |-> FALSE,
   status |-> "OK", entry |-> NoEntry, sector |-> Blank, at |-> 0, last |-> 0, first |-> 0,
   done |-> FALSE, read |-> <<>>, count |-> 0]

Then(v, Op(_)) == Op(v)
OnSuccess(v, Op(_)) == IF v.status = "OK" THEN Op(v) ELSE v
Fault(v, f) == [v EXCEPT !.faults = @ \cup {f}]
Returned(v, s) == [v EXCEPT !.status = s]
At(v, c) == [v EXCEPT !.at = c]
Logged(v) == [v EXCEPT !.log = Append(@, v.disk)]
-----------------------------------------------------------------------------
(* The allocation table                                                    *)

SectorOfEntry(c) == c \div EntriesPerSector
Loaded(v) ==
  IF v.cache.number = SectorOfEntry(v.at) THEN v
  ELSE [v EXCEPT !.cache =
          [number |-> SectorOfEntry(v.at),
           entries |-> [c \in {d \in 0 .. LastCluster : SectorOfEntry(d) = SectorOfEntry(v.at)}
                          |-> v.disk.fat[c]]]]

\* The table is read through one sector that is kept in memory, which the
\* writes do not refresh.
FatFollowClusterChain(v) ==
  Then(Loaded(v),
       LAMBDA w : IF w.cache.entries[w.at] = w.disk.fat[w.at] THEN At(w, w.disk.fat[w.at])
                  ELSE Fault(At(w, w.cache.entries[w.at]), "StaleCache"))

FatFollowClusterChainToAPoint(v, start, n) ==
  FoldLeft(LAMBDA w, i : IF w.at >= Eof THEN w ELSE FatFollowClusterChain(w),
           At(v, start), Times(n))

FatFollowClusterChainToEnd(v, start) ==
  FoldLeft(LAMBDA w, i : IF w.at >= Eof THEN w
                         ELSE FatFollowClusterChain([w EXCEPT !.last = w.at]),
           [v EXCEPT !.at = start, !.last = 0], Walk)

FatFindFreeCluster(v) ==
  LET free == {c \in 1 .. LastCluster : v.disk.fat[c] = 0}
  IN IF free = {} THEN NoCluster ELSE Least(free)

\* Without a free cluster the entry 0xFFFFFFFF lies beyond the disk: nothing
\* is read, and what should be its sector is written to sector 0.
FatWriteFatEntry(v, c, value) ==
  Logged(CASE c = NoCluster -> Fault([v EXCEPT !.disk.boot = FALSE], "VolumeFull")
           [] c = 0 -> Fault([v EXCEPT !.disk.fat[0] = value], "BareDirectory")
           [] OTHER -> [v EXCEPT !.disk.fat[c] = value])
-----------------------------------------------------------------------------
(* Sectors of files                                                        *)

FatReadSectorOfCluster(v) ==
  CASE v.at \in Clusters -> [v EXCEPT !.status = "OK", !.sector = v.disk.data[v.at]]
    [] v.at \in {0, 1} -> [v EXCEPT !.status = "OK", !.sector = Garbage]
    [] OTHER -> Returned(v, "DeviceError")

FatWriteSectorOfCluster(v, sector) ==
  CASE v.at \in Clusters -> Logged([v EXCEPT !.status = "OK", !.disk.data[v.at] = sector])
    [] v.at \in {0, 1} -> Logged(Fault(Returned(v, "OK"), "WrittenOutside"))
    [] OTHER -> Returned(v, "DeviceError")

FatReadSectorFromFile(v, first, k) ==
  FatReadSectorOfCluster(FatFollowClusterChainToAPoint(v, first, k))

\* The chain is followed once more after the sector.
FatWriteSectorsToFile(v, first, k, sector) ==
  Then(FatFollowClusterChainToAPoint(v, first, k),
       LAMBDA w : IF w.at >= Eof THEN Returned(w, "EOF")
                  ELSE FatFollowClusterChain(FatWriteSectorOfCluster(w, sector)))

\* A write that ends with the first cell of a sector is taken for one that
\* ends with the last: what lies behind the buffer is written to the rest.
FatWriteFile(v, first, offset, size, d) ==
  LET startSector == offset \div Cells
      endSector == (offset + size - 1) \div Cells
      upperBound(k) == IF k = endSector /\ (offset + size - 1) % Cells # 0
                       THEN ((offset + size - 1) % Cells) + 1 ELSE Cells
      lowerBound(k) == IF k = startSector THEN offset % Cells ELSE 0
      Input(n) == IF n < size THEN d ELSE Junk
      Merged(w, k) ==
        [j \in 1 .. Cells |-> IF j > lowerBound(k) /\ j <= upperBound(k)
                              THEN Input(w.count + j - 1 - lowerBound(k)) ELSE w.sector[j]]
      Counted(w, k) == [w EXCEPT !.count = @ + upperBound(k) - lowerBound(k)]
      WriteSector(w, k) ==
        Counted(FatWriteSectorsToFile(w, first, k, Merged(w, k)), k)
  IN FoldLeft(LAMBDA w, i :
                OnSuccess(w, LAMBDA u :
                  WriteSector(FatReadSectorFromFile(u, first, startSector + i - 1),
                              startSector + i - 1)),
              v, Times(endSector - startSector + 1))

FatReadFile(v, first, offset, size) ==
  LET startSector == offset \div Cells
      endSector == (offset + size - 1) \div Cells
      Part(w, k) ==
        SubSeq(w.sector, IF k = startSector THEN (offset % Cells) + 1 ELSE 1,
               IF k = endSector THEN ((offset + size - 1) % Cells) + 1 ELSE Cells)
  IN FoldLeft(LAMBDA w, i :
                OnSuccess(OnSuccess(w, LAMBDA u :
                            FatReadSectorFromFile(u, first, startSector + i - 1)),
                          LAMBDA u : [u EXCEPT !.read = @ \o Part(u, startSector + i - 1),
                                               !.count = @ + Len(Part(u, startSector + i - 1))]),
              v, Times(endSector - startSector + 1))
-----------------------------------------------------------------------------
(* Directories                                                             *)

\* The comparison ends with the name that is looked for.
FatCompareName(entry, name) == entry.name = name \/ <<entry.name, name>> \in Shadows

FatSearchForFileInDirectory(v, name) ==
  LET found == {i \in 1 .. Cells :
                  /\ IsFileOrDir(v.sector[i])
                  /\ FatCompareName(v.sector[i], name)}
      entry == v.sector[Least(found)]
      w == [v EXCEPT !.status = "OK", !.entry = entry]
  IN IF found = {} THEN Returned(v, "NotFound")
     ELSE IF entry.name = name THEN w ELSE Fault(w, "PrefixMatched")

\* One level of FatReccursivlyFindDirectoryEntry.
FatFindInDirectory(v, first, name) ==
  FoldLeft(LAMBDA w, i :
             IF w.status # "NotFound" \/ w.at >= Eof THEN w
             ELSE Then(FatSearchForFileInDirectory(FatReadSectorOfCluster(w), name),
                       LAMBDA u : IF u.status = "NotFound" THEN FatFollowClusterChain(u)
                                  ELSE u),
           [v EXCEPT !.status = "NotFound", !.at = first], Walk)

FatVfsInterfaceGetDirectoryEntry(v, path) ==
  FoldLeft(LAMBDA w, n :
             OnSuccess(w, LAMBDA u : IF u.entry.dir
                                     THEN FatFindInDirectory(u, u.entry.cluster, n)
                                     ELSE Returned(u, "NotADirectory")),
           [v EXCEPT !.status = "OK", !.entry = RootEntry], path)

FatCompareEntries(old, cell) ==
  IF IsFileOrDir(old) THEN IsFileOrDir(cell) /\ old.name = cell.name
                      ELSE cell \in {Free, Deleted}

\* The search ends with an error of the device after the last sector.
FatChangeDirectoryEntry(v, parent, old, new) ==
  LET Slots(w) == {i \in 1 .. Cells : FatCompareEntries(old, w.sector[i])}
      Done(w) == [w EXCEPT !.done = TRUE]
      Change(w, k) ==
        CASE w.status # "OK" -> Done(w)
          [] w.status = "OK" /\ Slots(w) # {} ->
               Done(FatWriteSectorsToFile(w, parent, k,
                                          [w.sector EXCEPT ![Least(Slots(w))] = new]))
          [] OTHER -> w
  IN IF parent = 0 THEN Returned(v, "EOF")
     ELSE FoldLeft(LAMBDA w, i :
                     IF w.done THEN w
                     ELSE Change(FatReadSectorFromFile(w, parent, i - 1), i - 1),
                   [v EXCEPT !.done = FALSE], Walk)

FatAddDirectoryEntry(v, parent, entry) ==
  FatChangeDirectoryEntry(v, parent, Free, entry)
-----------------------------------------------------------------------------
(* Chains                                                                  *)

\* Mutant: the chain is extended before the new cluster is marked.
LinkedFirst(v, start, n) ==
  LET Extended(w, c) == FatWriteFatEntry(FatWriteFatEntry(w, w.last, c), c, Eof)
  IN FoldLeft(LAMBDA w, i : Then(FatFindFreeCluster(w), LAMBDA c :
                              [Extended(w, c) EXCEPT !.last = c, !.status = "OK"]),
              FatFollowClusterChainToEnd(v, start), Times(n))

\* A new cluster is marked, linked to the end of the chain and cleared.
FatIncreaseClusterChainLengthBy(v, start, n) ==
  LET Extended(w, c) ==
        FatWriteSectorOfCluster(
          At(FatWriteFatEntry(FatWriteFatEntry(w, c, Eof), w.last, c), c), Blank)
  IN FoldLeft(LAMBDA w, i : Then(FatFindFreeCluster(w), LAMBDA c :
                              [Extended(w, c) EXCEPT !.last = c, !.status = "OK"]),
              FatFollowClusterChainToEnd(v, start), Times(n))

\* The new end of the chain is marked first, then the rest is freed.
FatDecreaseClusterChainLengthTo(v, start, removeFrom) ==
  LET Cut(w) == FatWriteFatEntry(FatFollowClusterChain(w), w.at, Eof)
      Rest == IF removeFrom = 0 THEN At(v, start)
              ELSE Cut(FatFollowClusterChainToAPoint(v, start, removeFrom - 1))
  IN FoldLeft(LAMBDA w, i :
                IF w.at >= Eof THEN w ELSE FatWriteFatEntry(FatFollowClusterChain(w), w.at, 0),
              [Rest EXCEPT !.shrinks = TRUE], Walk)

ClustersFor(size) == (size + Cells - 1) \div Cells

\* The chain is changed before the entry; first is the first cluster.
FatResizeFile(v, parent, name, newSize) ==
  LET Lengthened(w, change) ==
        IF change > 0 THEN FatIncreaseClusterChainLengthBy(w, w.first, change) ELSE w
      Allocated(w, c) == [FatWriteFatEntry(w, c, Eof) EXCEPT !.first = c]
      Started(w) == w.entry.size # 0 \/ w.first # 0
      Grown(w, change) ==
        Lengthened(IF Started(w) THEN w ELSE Then(FatFindFreeCluster(w), LAMBDA c : Allocated(w, c)),
                   IF Started(w) THEN change ELSE change - 1)
      Freed(w) == IF newSize # 0 THEN w
                  ELSE [FatWriteFatEntry(w, w.first, 0) EXCEPT !.first = 0]
      Resized(w, change) ==
        CASE change > 0 -> Grown(w, change)
          [] change < 0 ->
               Freed(FatDecreaseClusterChainLengthTo(w, w.first, ClustersFor(newSize)))
          [] OTHER -> w
      Saved(w) ==
        FatChangeDirectoryEntry(w, parent, w.entry,
                                [w.entry EXCEPT !.cluster = w.first, !.size = newSize])
  IN OnSuccess(FatFindInDirectory(v, parent, name), LAMBDA w :
       Saved(Resized([w EXCEPT !.first = w.entry.cluster],
                     ClustersFor(newSize) - ClustersFor(w.entry.size))))

\* A directory has the size 0, so its clusters stay allocated.
HasCluster(entry) == entry.dir /\ entry.cluster # 0
FatDeleteEntry(v, parent, entry) ==
  OnSuccess(OnSuccess(FatResizeFile(IF HasCluster(entry) THEN Fault(v, "LostDirectory") ELSE v,
                                    parent, entry.name, 0),
                      LAMBDA w : FatFindInDirectory(w, parent, entry.name)),
            LAMBDA w : FatChangeDirectoryEntry(w, parent, w.entry, Deleted))

\* The entries of a directory are deleted first, as they were when their
\* sector was read.
FatDeleteDirectoryEntry(v, parent, entry) ==
  LET OfSector(w) ==
        FoldLeft(LAMBDA u, cell :
                   IF ~IsFileOrDir(cell) THEN u
                   ELSE Returned(FatDeleteEntry(u, entry.cluster, cell), "OK"),
                 w, w.sector)
      Emptied == FoldLeft(LAMBDA w, i :
                            IF w.at >= Eof THEN w
                            ELSE FatFollowClusterChain(
                                   At(OfSector(FatReadSectorOfCluster(w)), w.at)),
                          At(v, entry.cluster), Walk)
  IN FatDeleteEntry(IF HasCluster(entry) THEN Emptied ELSE v, parent, entry)
-----------------------------------------------------------------------------
(* The interface of the VFS                                                *)

Name(path) == path[Len(path)]
Parent(path) == SubSeq(path, 1, Len(path) - 1)

\* In a directory that has no cluster, or does not exist, a cluster is
\* allocated and forgotten, and another is appended to the chain of cluster 0.
FatVfsInterfaceCreateFile(v, path) ==
  LET new == [name |-> Name(path), dir |-> FALSE, cluster |-> 0, size |-> 0]
      ParentCluster(w) == IF w.status = "OK" THEN w.entry.cluster ELSE 0
      Add(w, parent) ==
        Then(FatAddDirectoryEntry(
               IF parent # 0 THEN w ELSE FatWriteFatEntry(w, FatFindFreeCluster(w), Eof),
               parent, new),
             LAMBDA u : IF u.status # "EOF" THEN u
                        ELSE Returned(FatIncreaseClusterChainLengthBy(u, parent, 1), "EOF"))
  IN Then(FatVfsInterfaceGetDirectoryEntry(v, path), LAMBDA there :
       IF there.status = "OK" THEN Returned(there, "Exists")
       ELSE Then(FatVfsInterfaceGetDirectoryEntry(there, Parent(path)),
                 LAMBDA w : Add(w, ParentCluster(w))))

\* The new directory gets no cluster, its "." and ".." are not added.
FatVfsInterfaceCreateDirectory(v, path) ==
  LET MakeDirectory(w, entry) ==
        FatChangeDirectoryEntry(w, w.entry.cluster, entry, [entry EXCEPT !.dir = TRUE])
  IN OnSuccess(
       OnSuccess(FatVfsInterfaceCreateFile(v, path),
                 LAMBDA w : FatVfsInterfaceGetDirectoryEntry(w, path)),
       LAMBDA w : MakeDirectory(FatVfsInterfaceGetDirectoryEntry(w, Parent(path)), w.entry))

FatVfsInterfaceDeleteFileFromPath(v, path) ==
  LET FatDeleteFile(w, parent) ==
        Then(FatFindInDirectory(w, parent, Name(path)),
             LAMBDA u : FatDeleteDirectoryEntry(u, parent, u.entry))
  IN OnSuccess(FatVfsInterfaceGetDirectoryEntry(v, path), LAMBDA found :
       Then(FatVfsInterfaceGetDirectoryEntry(found, Parent(path)),
            LAMBDA w : FatDeleteFile(w, w.entry.cluster)))

FatVfsInterfaceResizeFile(v, path, newSize) ==
  OnSuccess(FatVfsInterfaceGetDirectoryEntry(v, Parent(path)),
            LAMBDA w : FatResizeFile(w, w.entry.cluster, Name(path), newSize))

Checks(v, f, size) ==
  Returned(v, IF size = 0 \/ f.size < f.pointer THEN "Invalid" ELSE "OK")

FatVfsInterfaceWriteFile(v, f, size, d) ==
  OnSuccess(OnSuccess(Checks(v, f, size),
                      LAMBDA w : FatVfsInterfaceGetDirectoryEntry(w, f.path)),
            LAMBDA w : FatWriteFile(w, w.entry.cluster, f.pointer, size, d))

\* Mutant: the file is read from its beginning.
ReadFromStart(v, f, size) ==
  OnSuccess(OnSuccess(Checks(v, f, size),
                      LAMBDA w : FatVfsInterfaceGetDirectoryEntry(w, f.path)),
            LAMBDA w : FatReadFile(w, w.entry.cluster, 0, size))

FatVfsInterfaceReadFile(v, f, size) ==
  OnSuccess(OnSuccess(Checks(v, f, size),
                      LAMBDA w : FatVfsInterfaceGetDirectoryEntry(w, f.path)),
            LAMBDA w : FatReadFile(w, w.entry.cluster, f.pointer, size))

\* Mutant: written at the file pointer.
AppendAtPointer(v, f, size, d) ==
  OnSuccess(
    OnSuccess(OnSuccess(Checks(v, f, size),
                        LAMBDA w : FatVfsInterfaceResizeFile(w, f.path, f.size + size)),
              LAMBDA w : FatVfsInterfaceGetDirectoryEntry(w, f.path)),
    LAMBDA w : FatWriteFile(w, w.entry.cluster, f.pointer, size, d))

\* Mutant: the file is not grown first.
AppendWithoutResize(v, f, size, d) ==
  OnSuccess(OnSuccess(Checks(v, f, size),
                      LAMBDA w : FatVfsInterfaceGetDirectoryEntry(w, f.path)),
            LAMBDA w : FatWriteFile(w, w.entry.cluster, f.size, size, d))

FatVfsInterfaceAppendFile(v, f, size, d) ==
  OnSuccess(
    OnSuccess(OnSuccess(Checks(v, f, size),
                        LAMBDA w : FatVfsInterfaceResizeFile(w, f.path, f.size + size)),
              LAMBDA w : FatVfsInterfaceGetDirectoryEntry(w, f.path)),
    LAMBDA w : FatWriteFile(w, w.entry.cluster, f.size, size, d))
-----------------------------------------------------------------------------
(* Calls                                                                   *)

NoFile == [path |-> <<>>, size |-> 0, pointer |-> 0]
NoResult == [call |-> "none", status |-> "OK", path |-> <<>>, offset |-> 0, read |-> <<>>]
NoCache == [number |-> -1, entries |-> <<>>]

Ready == calls < MaxCalls /\ faults = {}
IsOpen == file # NoFile

\* A call returns what is left of the disk and of the open file ...
Returns(v, name, path, newFile, written) ==
  /\ disk' = v.disk /\ cache' = v.cache /\ file' = newFile
  /\ faults' = faults \cup v.faults
  /\ store' = [store EXCEPT ![path] = written]
  /\ result' = [call |-> name, status |-> v.status, path |-> path,
                offset |-> file.pointer, read |-> v.read]
  /\ calls' = IF name = "open" THEN calls ELSE calls + 1
  /\ UNCHANGED stopped

\* ... or the machine stops after one of its writes and starts again.
Stops(v, path) ==
  /\ \E n \in 2 .. Len(v.log) - 1 : disk' = v.log[n]
  /\ cache' = NoCache /\ file' = NoFile /\ result' = NoResult
  /\ faults' = v.faults \cup IF v.shrinks THEN {"StoppedShrinking"} ELSE {}
  /\ store' = [store EXCEPT ![path] = Junk]
  /\ stopped' = stopped + 1 /\ calls' = calls + 1

Performs(v, name, path, newFile, written) ==
  Returns(v, name, path, newFile, written) \/ Stops(v, path)

CreateFile(path) ==
  \E v \in {FatVfsInterfaceCreateFile(Call, path)} :
     Ready /\ Performs(v, "create", path, file,
                       IF v.status = "OK" THEN <<>> ELSE store[path])

\* In the root directory the parent's path of length -1 is copied over the
\* memory of the system, which is not modelled.
CreateDirectory(path) ==
  Ready /\ Len(path) > 1 /\ Performs(FatVfsInterfaceCreateDirectory(Call, path), "mkdir", path, file, NULL)

DeleteFile(path) ==
  \E v \in {FatVfsInterfaceDeleteFileFromPath(Call, path)} :
     Ready /\ Performs(v, "delete", path, file,
                       IF v.status = "OK" THEN NULL ELSE store[path])

OpenFile(path) ==
  \E v \in {FatVfsInterfaceGetDirectoryEntry(FatVfsInterfaceGetDirectoryEntry(Call, path), path)} :
     /\ Ready /\ ~IsOpen
     /\ Returns(v, "open", path,
                IF v.status # "OK" THEN NoFile
                ELSE [path |-> path, size |-> v.entry.size, pointer |-> 0],
                store[path])

FatVfsInterfaceCloseFile ==
  /\ IsOpen
  /\ file' = NoFile /\ result' = NoResult
  /\ UNCHANGED <<disk, cache, store, faults, stopped, calls>>

\* The handle remembers a size that another call may have changed.
Current == FatVfsInterfaceGetDirectoryEntry(Call, file.path).entry
Stale(v) == IF v.status = "OK" /\ Current.size # file.size THEN Fault(v, "StaleSize") ELSE v

Padded(s, n) == [i \in 1 .. n |-> IF i <= Len(s) THEN s[i] ELSE Junk]

ResizeFile(newSize) ==
  /\ Ready /\ IsOpen
  /\ \E v \in {FatVfsInterfaceResizeFile(Call, file.path, newSize)} :
       Performs(Stale(v), "resize", file.path,
                IF v.status = "OK" THEN [file EXCEPT !.size = newSize] ELSE file,
                IF v.status = "OK" /\ store[file.path] \notin {NULL, Junk}
                 THEN Padded(store[file.path], newSize)
                 ELSE store[file.path])

AppendFile(size, d) ==
  /\ Ready /\ IsOpen /\ file.size + size <= MaxSize
  /\ \E v \in {FatVfsInterfaceAppendFile(Call, file, size, d)} :
       Performs(Stale(v), "append", file.path,
                IF v.status = "OK" THEN [file EXCEPT !.size = @ + size] ELSE file,
                IF v.status = "OK" /\ store[file.path] \notin {NULL, Junk}
                 THEN store[file.path] \o [i \in 1 .. size |-> d]
                 ELSE IF store[file.path] = NULL THEN NULL ELSE Junk)

\* The first cell of the last sector is written with the rest of the sector.
Overrun(v, size) ==
  IF v.status = "OK" /\ file.pointer + size < Current.size /\ (file.pointer + size - 1) % Cells = 0
  THEN Fault(v, "TailOverwritten") ELSE v

WriteFile(size, d) ==
  LET InRange(i) == i > file.pointer /\ i <= file.pointer + size
      old == store[file.path]
  IN /\ Ready /\ IsOpen
     /\ \E v \in {FatVfsInterfaceWriteFile(Call, file, size, d)} :
       Performs(Overrun(v, size), "write", file.path, [file EXCEPT !.pointer = @ + v.count],
                 IF old \in {NULL, Junk} THEN old
                 ELSE [i \in DOMAIN old |->
                         IF ~InRange(i) THEN old[i] ELSE IF v.status = "OK" THEN d ELSE Junk])

ReadFile(size) ==
  /\ Ready /\ IsOpen
  /\ \E v \in {FatVfsInterfaceReadFile(Call, file, size)} :
       Returns(v, "read", file.path, [file EXCEPT !.pointer = @ + v.count],
                store[file.path])
-----------------------------------------------------------------------------
Init ==
  /\ disk = Volume
  /\ cache = NoCache /\ file = NoFile /\ result = NoResult
  /\ store = [p \in Paths |-> IF p \in DOMAIN Stored THEN Stored[p] ELSE NULL]
  /\ faults = {} /\ stopped = 0 /\ calls = 0

Next ==
  \/ \E p \in Files : CreateFile(p) \/ OpenFile(p)
  \/ \E p \in Directories : CreateDirectory(p)
  \/ \E p \in Paths : DeleteFile(p)
  \/ FatVfsInterfaceCloseFile
  \/ \E n \in Sizes : ResizeFile(n)
  \/ \E n \in Chunks : ReadFile(n)
  \/ \E n \in Chunks, d \in Written : AppendFile(n, d) \/ WriteFile(n, d)

Spec == Init /\ [][Next]_vars
-----------------------------------------------------------------------------
(* Properties                                                              *)

Find(path) == FatVfsInterfaceGetDirectoryEntry([Call EXCEPT !.cache = NoCache], path)

\* The clusters of a chain, in order; it ends at a cluster it has visited.
Chain(first) ==
  FoldLeft(LAMBDA s, i : Then(IF s = <<>> THEN first ELSE disk.fat[s[Len(s)]],
                              LAMBDA c : IF c \in Clusters /\ c \notin ToSet(s)
                                         THEN Append(s, c) ELSE s),
           <<>>, Walk)
Owned(first) == ToSet(Chain(first))

\* The entries of the root directory and of the directories in it.
LiveIn(first) == {e \in UNION {ToSet(disk.data[c]) : c \in Owned(first)} : IsFileOrDir(e)}
Live == Then(LiveIn(Root), LAMBDA S : S \cup UNION {LiveIn(e.cluster) : e \in {d \in S : d.dir}})

Sound == faults = {}

\* The variables have their types; the cached sector is one of the table's.
TypeOK ==
  /\ disk.fat \in [0 .. LastCluster -> 0 .. NoCluster]
  /\ DOMAIN disk.data = Clusters
  /\ cache.number \in -1 .. LastCluster \div EntriesPerSector
  /\ file.path \in Paths \cup {<<>>}
  /\ DOMAIN store = Paths
  /\ stopped \in 0 .. MaxCalls /\ calls \in 0 .. MaxCalls

\* No cluster belongs to two files, every chain ends, and no file points to
\* a free cluster, also after a stop between any two writes of a call that
\* grows or writes a file.
ChainsDisjoint ==
  Sound => \A entries \in {Live} :
    LET heads == ({e.cluster : e \in entries} \cup {Root}) \ {0}
    IN /\ \A e, f \in entries : e # f /\ e.cluster # 0 => e.cluster \notin {f.cluster, Root}
       /\ \A c \in UNION {Owned(h) : h \in heads} :
            /\ disk.fat[c] # 0 /\ disk.fat[c] \notin heads
            /\ disk.fat[c] \in Clusters \cup Eof .. NoCluster
       /\ \A h \in heads : \A s \in {Chain(h)} : s # <<>> /\ disk.fat[s[Len(s)]] >= Eof
       /\ \A c, d \in Clusters : c # d /\ disk.fat[c] = disk.fat[d] => disk.fat[c] \notin Clusters

\* Calls that were not stopped lose no cluster, and a stop loses at most the
\* clusters of the resize that it interrupted.
NothingLeaks ==
  Sound =>
    Cardinality({c \in Clusters : disk.fat[c] # 0}
                  \ UNION {Owned(h) : h \in {e.cluster : e \in Live} \cup {Root}})
      <= stopped * ClustersFor(MaxSize)

\* The chain of a file is long enough for the size in its entry, and no longer
\* unless a resize was stopped.
SizesCovered ==
  Sound =>
    \A e \in {f \in Live : ~f.dir} : \A n \in {Len(Chain(e.cluster))} :
      /\ n >= ClustersFor(e.size)
      /\ stopped = 0 => n = ClustersFor(e.size)

\* The volume stays sound through every call, and every stop between two writes
\* leaves it such: the parts above.
VolumeSound ==
  /\ TypeOK
  /\ ChainsDisjoint
  /\ NothingLeaks
  /\ SizesCovered

\* What is on the disk for a path is what the calls on this path have put
\* there: no call on a path, and no stop inside it, changes another file.
ContentsKept ==
  Sound =>
    \A p \in {q \in Files : store[q] # Junk} : \A found \in {Find(p)} :
      IF store[p] = NULL THEN found.status # "OK" \/ found.faults # {}
      ELSE /\ found.status = "OK" /\ found.entry.size = Len(store[p])
           /\ \A chain \in {Chain(found.entry.cluster)} : \A i \in DOMAIN store[p] :
                store[p][i] \in
                  {Junk, disk.data[chain[((i - 1) \div Cells) + 1]][((i - 1) % Cells) + 1]}

\* A read returns what was last written at its offset.
ReadReturnsWhatWasWritten ==
  (Sound /\ result.call = "read" /\ result.status = "OK"
     /\ store[result.path] \notin {NULL, Junk}) =>
    LET written == store[result.path]
    IN \A i \in DOMAIN result.read :
         result.offset + i <= Len(written) =>
           written[result.offset + i] \in {Junk, result.read[i]}

\* An append to an open file that exists succeeds, if it is not empty.
AppendsSucceed ==
  [][(faults' = {} /\ result'.call = "append" /\ store[file.path] # NULL)
       => result'.status \in {"OK", "Invalid"}]_vars
=============================================================================
