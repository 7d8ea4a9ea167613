--------------------------------- MODULE FAT ---------------------------------
(***************************************************************************)
(* The FAT file system (kernel/FS/FAT.cpp) on a disk that is written       *)
(* sector after sector and whose power may fail in between.  A cell stands *)
(* for the 32 bytes of a directory entry; files are written and read by    *)
(* cells too.  The handlers change the memory and issue writes; they are   *)
(* operators on a record m of what they see and do.  One thread uses the   *)
(* disk, as in the kernel.                                                 *)
(***************************************************************************)
EXTENDS Naturals, FiniteSets, Sequences, FiniteSetsExt

CONSTANTS LastCluster,   \* clusters 2..LastCluster hold data; 0 is the root directory
          Cells,         \* the cells of a cluster
          RootCells,     \* and of the root directory
          Copies,        \* of the table on the disk
          Disks,         \* what may be on the disk at first
          Names,         \* that files and directories are created with
          Short(_),      \* what is read of a name once it was cut and put in capitals
          Bytes,         \* what is written to files
          DirHandles, FileHandles,
          MaxRefs, MaxSize, MaxCrashes   \* bounds

VARIABLES disk,          \* the table's copies and the contents of the clusters
          fat,           \* the table in memory
          cacheObjects,  \* the clusters in memory
          pending,       \* the writes that the handler has issued and the disk has not done
          status,        \* "ready"; "stopped" and "hung" for ever; "spoiled": not followed further
          dirs, files,   \* the open handles
          unsaved,       \* clusters with data that was written without a mark
          dangling,      \* clusters that were linked and not marked when the power failed
          crashes        \* how often it did

fatVars == <<disk, fat, cacheObjects, pending, status, dirs, files, unsaved, dangling, crashes>>

ClusterLast == 4088
None == 4095

Zero == [name |-> "", dir |-> FALSE, cluster |-> 0, size |-> 0]
Data(b) == [Zero EXCEPT !.name = b]
Size(c) == IF c = 0 THEN RootCells ELSE Cells
ZeroCells(c) == CHOOSE cells \in [0..(Size(c) - 1) -> {Zero}] : TRUE
Clusters == {0} \cup 2..LastCluster
AllCells == RootCells + LastCluster * Cells

ShortNames == {Short(name) : name \in Names}
CellOver(entries) == [name : {"", ".", "..", "old"} \cup ShortNames \cup Bytes, dir : BOOLEAN,
                      cluster : entries, size : 0..MaxSize]

\* What Format makes of a disk, and what becomes of that: tables that have an entry for
\* each cluster, and more if they are rounded up; links that lead to clusters in use, and
\* cells that name no other, also where there is no directory.
Formatted(d, last) ==
  /\ d = [fats |-> d.fats, data |-> [c \in Clusters |-> d.data[c]]]
  /\ d.fats \in [1..Copies -> [0..last -> 0..last \cup {ClusterLast}]]
  /\ \A c \in Clusters : d.data[c] \in [0..(Size(c) - 1) -> CellOver(0..last)]
  /\ LET taken == {c \in 0..last : d.fats[1][c] # 0}
     IN /\ {0, 1} \subseteq taken
        /\ \A c \in taken : d.fats[1][c] \in taken \cup {ClusterLast}
        /\ \A c \in Clusters : \A i \in 0..(Size(c) - 1) : d.data[c][i].cluster \in taken

ASSUME FATAssumption ==
  /\ {LastCluster, Cells, RootCells, Copies, MaxSize} \subseteq Nat \ {0}
  /\ \A d \in Disks : \E last \in LastCluster..(ClusterLast - 1) : Formatted(d, last)
  /\ IsFiniteSet(DirHandles) /\ IsFiniteSet(FileHandles)

Closed == [root |-> None]

Now == [fat |-> fat, cache |-> cacheObjects, disk |-> disk, log |-> <<>>,
        at |-> status, unsaved |-> unsaved]

-----------------------------------------------------------------------------
\* The table.

\* A free entry looks like the end of a chain, like anything below 2.
GetNextCluster(m, c) == IF c < 2 \/ m.fat[c] = ClusterLast THEN 0 ELSE m.fat[c]

Written(d, w) ==
  IF w.kind = "fat" THEN [d EXCEPT !.fats[w.place] = w.what]
  ELSE [d EXCEPT !.data[w.place] = w.what]

\* A cluster is written.  Beyond the partition that stops the machine, and nothing is
\* written after that.
Write(m, c, cells) ==
  LET w == [kind |-> "data", place |-> c, what |-> cells]
  IN IF m.at # "ready" THEN m
     ELSE IF c > LastCluster THEN [m EXCEPT !.at = "stopped"]
     ELSE [m EXCEPT !.disk = Written(m.disk, w), !.log = Append(@, w)]

\* The whole table is written, copy after copy.
SetCluster(m, c, next) ==
  LET table == [m.fat EXCEPT ![c] = next]
      copies == [k \in 1..Copies |-> [kind |-> "fat", place |-> k, what |-> table]]
  IN IF m.at # "ready" THEN [m EXCEPT !.fat = table]
     ELSE [m EXCEPT !.fat = table, !.disk.fats = [k \in 1..Copies |-> table],
                    !.log = @ \o copies]

FreeEntries(m) == {c \in DOMAIN m.fat : m.fat[c] = 0}
FirstFree(m) == CHOOSE c \in FreeEntries(m) : \A d \in FreeEntries(m) : c <= d

CanAddCluster(m, parent) ==
  /\ parent > 0 => GetNextCluster(m, parent) = 0
  /\ FreeEntries(m) # {}

\* AddCluster, had it not marked the new cluster.
MutantAddCluster(m, parent) ==
  IF parent > 0 THEN SetCluster(m, parent, FirstFree(m)) ELSE m

\* The link to the new cluster is written before its own mark.
AddCluster(m, parent) ==
  LET c == FirstFree(m)
      linked == IF parent > 0 THEN SetCluster(m, parent, c) ELSE m
  IN SetCluster(linked, c, ClusterLast)

-----------------------------------------------------------------------------
\* The cache.  nth is the place in the list of objects, 0 outside it.
Absent == [refs |-> 0, dirty |-> FALSE, nth |-> 0, cells |-> <<>>]
Cached(cache) == {c \in DOMAIN cache : cache[c].nth # 0}

\* The object, had it been made without a reference.
MutantLoaded(m, c) ==
  [refs |-> 0, dirty |-> FALSE, nth |-> Cardinality(Cached(m.cache)) + 1,
   cells |-> IF c \in Clusters THEN m.disk.data[c] ELSE ZeroCells(c)]

Loaded(m, c) ==
  [refs |-> 1, dirty |-> FALSE, nth |-> Cardinality(Cached(m.cache)) + 1,
   cells |-> IF c \in Clusters THEN m.disk.data[c] ELSE ZeroCells(c)]

GetCache(m, c) ==
  IF c \in Cached(m.cache) THEN [m EXCEPT !.cache[c].refs = @ + 1]
  ELSE [m EXCEPT !.cache[c] = Loaded(m, c),
                 !.at = IF c \in Clusters THEN @ ELSE "stopped"]

FlushCache(m, c) ==
  IF m.cache[c].dirty
  THEN [Write(m, c, m.cache[c].cells) EXCEPT !.cache[c].dirty = FALSE,
                                                     !.unsaved = @ \ {c}]
  ELSE m

\* FreeCache, had the count been tested before it is lowered.
MutantFreeCache(m, c) ==
  IF c = None THEN m
  ELSE LET freed == [m EXCEPT !.cache[c].refs = @ - 1]
       IN IF m.cache[c].refs = 0 THEN FlushCache(freed, c) ELSE freed

FreeCache(m, c) ==
  IF c = None THEN m
  ELSE LET freed == [m EXCEPT !.cache[c].refs = @ - 1]
       IN IF freed.cache[c].refs = 0 THEN FlushCache(freed, c) ELSE freed

\* All objects, in the order of the list.
Flush(m) ==
  LET all == Cardinality(Cached(m.cache))
      flushed[n \in 0..all] ==
        IF n = 0 THEN m
        ELSE FlushCache(flushed[n - 1], CHOOSE c \in Cached(m.cache) : m.cache[c].nth = n)
  IN flushed[all]

SetCell(m, c, i, cell) == [m EXCEPT !.cache[c].cells[i] = cell]

-----------------------------------------------------------------------------
\* Directories.  A handle d is at one cell of one cluster, which it holds.
DirectoryOpenRoot == [root |-> 0, offset |-> 0, cache |-> None]

Entry(m, d) == m.cache[d.cache].cells[d.offset]

\* What a cell holds, and the entries among it.
CellType == CellOver(DOMAIN fat)
Free == {cell \in CellType : cell.name = ""}
Valid == CellType \ Free

DirectoryReadInternal(m, d) ==
  LET At(c, machine) ==
        [m |-> GetCache(machine, c), d |-> [d EXCEPT !.cache = c, !.offset = 0], ok |-> TRUE]
      next == IF d.root = 0 THEN 0 ELSE GetNextCluster(m, d.cache)
  IN IF d.cache = None THEN At(d.root, m)
     ELSE IF d.offset + 1 < Size(d.cache)
          THEN [m |-> m, d |-> [d EXCEPT !.offset = @ + 1], ok |-> TRUE]
     ELSE IF next = 0 THEN [m |-> m, d |-> d, ok |-> FALSE]
     ELSE At(next, FreeCache(m, d.cache))

\* On to the first entry that is wanted: for ever, if it takes more reads than there
\* are cells.
Passes(r, wanted) == r.ok /\ r.m.at = "ready" /\ Entry(r.m, r.d) \notin wanted

ReadOn(m, d, wanted) ==
  LET read[n \in 0..AllCells] ==
        IF n = 0 THEN DirectoryReadInternal(m, d)
        ELSE LET r == read[n - 1]
             IN IF Passes(r, wanted) THEN DirectoryReadInternal(r.m, r.d) ELSE r
      last == read[AllCells]
  IN IF Passes(last, wanted) THEN [last EXCEPT !.m.at = "hung"] ELSE last

DirectoryRead(m, d) == ReadOn(m, d, Valid)

DirectoryRewind(m, d) ==
  [m |-> FreeCache(m, d.cache), d |-> [d EXCEPT !.cache = None, !.offset = 0], ok |-> TRUE]

DirectoryFollow(m, d) ==
  IF ~Entry(m, d).dir THEN [m |-> m, d |-> d, ok |-> FALSE]
  ELSE [m |-> FreeCache(m, d.cache), ok |-> TRUE,
        d |-> [root |-> Entry(m, d).cluster, offset |-> 0, cache |-> None]]

FindFree(m, d) == LET r == DirectoryRewind(m, d) IN ReadOn(r.m, r.d, Free)

\* A full directory: the root cannot grow; for any other the search for the last
\* cluster waits for 0xFF8, which GetNextCluster never returns.
Full(r) ==
  IF r.d.root = 0 THEN r ELSE [r EXCEPT !.m.at = "hung"]

SetEntry(r, cell) ==
  [r EXCEPT !.m = [SetCell(r.m, r.d.cache, r.d.offset, cell) EXCEPT !.cache[r.d.cache].dirty = TRUE]]

DirectoryAddEntry(m, d, cell) ==
  LET first == FindFree(m, d)
  IN IF first.ok THEN SetEntry(FindFree(first.m, first.d), cell) ELSE Full(first)

Clear(m, c) == Write(m, c, ZeroCells(c))

\* There and back again: two names may become one, and one another than itself.
LFNToF83(name) == Short(name)

DirCell(name, c) == [Zero EXCEPT !.name = name, !.dir = TRUE, !.cluster = c]

\* The handle for the new directory is forgotten, with the reference it holds.
\* Whether the entries could be added is not asked; nor whether there was a
\* cluster, and then whatever sector is named by its number is cleared.
DirectoryCreate(m, d, name) ==
  LET c == FirstFree(m)
      entered == DirectoryAddEntry(Clear(AddCluster(m, 0), c), d, DirCell(LFNToF83(name), c))
      dot == DirectoryAddEntry(entered.m, [DirectoryOpenRoot EXCEPT !.root = c], DirCell(".", c))
      dotdot == DirectoryAddEntry(dot.m, dot.d, DirCell("..", entered.d.root))
  IN IF ~CanAddCluster(m, 0) THEN [m |-> [m EXCEPT !.at = "spoiled"], d |-> d, ok |-> TRUE]
     ELSE IF entered.m.at # "ready" THEN entered
     ELSE [entered EXCEPT !.m = dotdot.m, !.ok = TRUE]

FileCreate(m, d, name) ==
  [DirectoryAddEntry(m, d, [Zero EXCEPT !.name = LFNToF83(name)]) EXCEPT !.ok = TRUE]

-----------------------------------------------------------------------------
\* Files.  update is not initialized.  astray is not in the code: the handle has
\* lost its place in the chain.
FileOpen(m, d, update) ==
  [root |-> Entry(m, d).cluster, parent |-> d.cache, slot |-> d.offset, update |-> update,
   offset |-> 0, size |-> Entry(m, d).size, cache |-> None, astray |-> FALSE]

Least(a, b) == IF a < b THEN a ELSE b
AtBoundary(f) == f.cache = None \/ f.offset % Size(f.cache) = 0

\* FileRead, had it not gone on to the next cluster at a boundary.
MutantFetched(m, f) ==
  IF AtBoundary(f) /\ f.offset = 0
  THEN [m |-> GetCache(m, f.root), f |-> [f EXCEPT !.cache = f.root], ok |-> TRUE]
  ELSE [m |-> m, f |-> f, ok |-> TRUE]

\* The cluster with the next cell, at the beginning of FileRead.
Fetched(m, f) ==
  LET next == GetNextCluster(m, f.cache)
  IN IF f.offset >= f.size \/ (AtBoundary(f) /\ f.offset > 0 /\ next = 0)
     THEN [m |-> m, f |-> f, ok |-> FALSE]
     ELSE IF ~AtBoundary(f) THEN [m |-> m, f |-> f, ok |-> TRUE]
     ELSE IF f.offset > 0
     THEN [m |-> GetCache(FreeCache(m, f.cache), next), f |-> [f EXCEPT !.cache = next], ok |-> TRUE]
     ELSE [m |-> GetCache(m, f.root), f |-> [f EXCEPT !.cache = f.root], ok |-> TRUE]

InBuffer(f) == Size(f.cache) - (f.offset % Size(f.cache))
Continues(r) == r.ok /\ r.m.at = "ready"

Advanced(r, count) == [r EXCEPT !.f.offset = Least(@ + count, r.f.size)]

\* A part fits the buffer, unless the file has run into the root directory.
Part(m, f, count) ==
  LET r == Fetched(m, f)
  IN IF ~Continues(r) THEN r
     ELSE IF count > InBuffer(r.f) THEN [r EXCEPT !.m.at = "spoiled"]
     ELSE Advanced(r, count)

\* More than the buffer holds is read in parts, each of which fetches again: at a
\* boundary a cluster is passed over, at offset 0 the reference is taken twice.
FileRead(m, f, count) ==
  LET first == Fetched(m, f)
      part[n \in 0..count] ==
        IF n = 0 THEN [first EXCEPT !.f.astray = @ \/ (AtBoundary(f) /\ f.offset > 0)]
        ELSE LET r == part[n - 1]
                 left == count - (r.f.offset - f.offset)
             IN IF Continues(r) /\ left > 0 THEN Part(r.m, r.f, Least(InBuffer(first.f), left)) ELSE r
  IN IF ~Continues(first) THEN first
     ELSE IF count > InBuffer(first.f) THEN part[count]
     ELSE Advanced(first, count)

\* The cluster for the next byte, at the beginning of FilePutByte.
Placed(m, f) ==
  LET At(c, machine) ==
        [m |-> GetCache(FreeCache(machine, f.cache), c), f |-> [f EXCEPT !.cache = c], ok |-> TRUE]
      next == GetNextCluster(m, f.cache)
      parent == IF f.cache = None THEN 0 ELSE f.cache
      new == FirstFree(m)
      first == At(new, AddCluster(m, 0))
  IN IF f.cache = None /\ f.root # 0 THEN At(f.root, m)
     ELSE IF f.cache # None /\ (f.offset = 0 \/ ~AtBoundary(f)) THEN [m |-> m, f |-> f, ok |-> TRUE]
     ELSE IF f.cache # None /\ next # 0 THEN At(next, m)
     ELSE IF ~CanAddCluster(m, parent) THEN [m |-> m, f |-> f, ok |-> FALSE]
     ELSE IF f.cache # None THEN At(new, AddCluster(m, parent))
     ELSE [first EXCEPT !.m.cache[new].cells = ZeroCells(new),
                        !.f.root = new, !.f.update = TRUE]

\* The entry in the directory, had its cluster not been set.
MutantUpdated(m, f) ==
  LET held == GetCache(m, f.parent)
      cell == held.cache[f.parent].cells[f.slot]
  IN IF ~f.update THEN m
     ELSE FreeCache([SetCell(held, f.parent, f.slot, [cell EXCEPT !.size = f.size])
                     EXCEPT !.cache[f.parent].dirty = TRUE], f.parent)

Updated(m, f) ==
  LET held == GetCache(m, f.parent)
      cell == held.cache[f.parent].cells[f.slot]
      first == IF cell.cluster = 0 THEN f.root ELSE cell.cluster
      changed == [cell EXCEPT !.cluster = first, !.size = f.size]
  IN IF ~f.update THEN m
     ELSE FreeCache([SetCell(held, f.parent, f.slot, changed)
                     EXCEPT !.cache[f.parent].dirty = TRUE], f.parent)

\* The byte changes the cluster in memory and leaves no mark.
PutAt(r, b) ==
  LET put == [SetCell(r.m, r.f.cache, r.f.offset % Size(r.f.cache), Data(b))
              EXCEPT !.unsaved = @ \cup {r.f.cache}]
      moved == [r.f EXCEPT !.offset = @ + 1,
                           !.size = IF r.f.offset + 1 > @ THEN r.f.offset + 1 ELSE @,
                           !.update = @ \/ r.f.offset + 1 > r.f.size]
  IN IF ~r.ok \/ r.m.at # "ready" THEN r
     ELSE [m |-> Updated(put, moved), f |-> moved, ok |-> TRUE]

FilePutByte(m, f, b) == PutAt(Placed(m, f), b)

\* To write more at once is as good as to write cell after cell.
FileWrite(m, f, b) == FilePutByte(m, f, b)

\* FileSetPointer walks the chain from its beginning; without a cluster at hand it
\* reads through a null pointer.  The last step has the length offset % Size,
\* which is none at a boundary.
Walked(w, offset) ==
  LET next == GetNextCluster(w.m, w.f.cache)
  IN IF w.f.cache = None THEN [w EXCEPT !.m.at = "stopped"]
     ELSE IF offset - w.a > Size(w.f.cache)
     THEN [m |-> GetCache(FreeCache(w.m, w.f.cache), next), f |-> [w.f EXCEPT !.cache = next],
           a |-> w.a + Size(w.f.cache)]
     ELSE IF offset % Size(w.f.cache) = 0 THEN [w EXCEPT !.m.at = "hung"]
     ELSE [w EXCEPT !.a = @ + (offset % Size(w.f.cache))]

Walk(m, f, offset) ==
  LET walk[n \in 0..offset] ==
        IF n = 0 THEN [m |-> m, f |-> f, a |-> 0]
        ELSE LET w == walk[n - 1]
             IN IF w.m.at = "ready" /\ w.a < offset THEN Walked(w, offset) ELSE w
  IN walk[offset]

FileSetPointer(m, f, offset) ==
  LET back == IF f.cache \in {None, f.root} THEN [m |-> m, f |-> f]
              ELSE [m |-> GetCache(FreeCache(m, f.cache), f.root), f |-> [f EXCEPT !.cache = f.root]]
      w == Walk(back.m, back.f, offset)
  IN [m |-> w.m, f |-> [w.f EXCEPT !.offset = offset]]

-----------------------------------------------------------------------------
\* Format: the second copy of the table is left as it was.
Format(d) ==
  [fats |-> [d.fats EXCEPT ![1] = [c \in DOMAIN @ |-> IF c < 2 THEN ClusterLast ELSE 0]],
   data |-> [d.data EXCEPT ![0] = ZeroCells(0)]]

\* Mount: the first copy counts.
Mount(d) ==
  /\ fat' = d.fats[1]
  /\ cacheObjects' = [c \in DOMAIN fat |-> Absent]
  /\ pending' = <<>>
  /\ status' = "ready"
  /\ dirs' = [h \in DirHandles |-> Closed]
  /\ files' = [h \in FileHandles |-> Closed]
  /\ unsaved' = {}

FATInit ==
  /\ disk \in Disks
  /\ fat = disk.fats[1]
  /\ cacheObjects = [c \in DOMAIN fat |-> Absent]
  /\ pending = <<>>
  /\ status = "ready"
  /\ dirs = [h \in DirHandles |-> Closed]
  /\ files = [h \in FileHandles |-> Closed]
  /\ unsaved = {}
  /\ dangling = {}
  /\ crashes = 0

\* A handler begins when the writes of the one before are done.
Ready == status = "ready" /\ pending = <<>>

Commit(m) ==
  /\ fat' = m.fat
  /\ cacheObjects' = m.cache
  /\ pending' = m.log
  /\ status' = m.at
  /\ unsaved' = m.unsaved
  /\ UNCHANGED <<disk, dangling, crashes>>

OpenDir(h) == dirs[h] # Closed
OpenFile(h) == files[h] # Closed
Room == FoldSet(LAMBDA c, n : n + cacheObjects[c].refs, 0, Cached(cacheObjects)) < MaxRefs

OnDir(h, r) == Commit(r.m) /\ dirs' = [dirs EXCEPT ![h] = r.d] /\ UNCHANGED files
OnFile(h, r) == Commit(r.m) /\ files' = [files EXCEPT ![h] = r.f] /\ UNCHANGED dirs

OpenRoot(h) == Ready /\ ~OpenDir(h) /\ OnDir(h, [m |-> Now, d |-> DirectoryOpenRoot])

CloseDir(h) ==
  Ready /\ OpenDir(h) /\ OnDir(h, [m |-> FreeCache(Now, dirs[h].cache), d |-> Closed])

Read(h) == Ready /\ OpenDir(h) /\ Room /\ OnDir(h, DirectoryRead(Now, dirs[h]))

Rewind(h) == Ready /\ OpenDir(h) /\ OnDir(h, DirectoryRewind(Now, dirs[h]))

\* Only the entry just read is followed, or opened.
AtEntry(h) == OpenDir(h) /\ dirs[h].cache # None /\ Entry(Now, dirs[h]) \in Valid

Follow(h) == Ready /\ AtEntry(h) /\ OnDir(h, DirectoryFollow(Now, dirs[h]))

Create(h, name) ==
  /\ Ready /\ OpenDir(h) /\ Room
  /\ \/ OnDir(h, DirectoryCreate(Now, dirs[h], name))
     \/ OnDir(h, FileCreate(Now, dirs[h], name))

Open(h, k) ==
  /\ Ready /\ AtEntry(h) /\ ~OpenFile(k)
  /\ ~Entry(Now, dirs[h]).dir
  /\ \E update \in BOOLEAN : files' = [files EXCEPT ![k] = FileOpen(Now, dirs[h], update)]
  /\ Commit(Now)
  /\ UNCHANGED dirs

Close(k) ==
  Ready /\ OpenFile(k) /\ OnFile(k, [m |-> FreeCache(Now, files[k].cache), f |-> Closed])

ReadFile(k) ==
  /\ Ready /\ OpenFile(k) /\ Room
  /\ \E count \in 1..(2 * Cells) : OnFile(k, FileRead(Now, files[k], count))

WriteFile(k) ==
  /\ Ready /\ OpenFile(k) /\ Room
  /\ \E b \in Bytes : files[k].offset < MaxSize /\ OnFile(k, FileWrite(Now, files[k], b))

Seek(k) ==
  /\ Ready /\ OpenFile(k)
  /\ \E offset \in 0..files[k].size : OnFile(k, FileSetPointer(Now, files[k], offset))

FlushAll == Ready /\ Commit(Flush(Now)) /\ UNCHANGED <<dirs, files>>

DiskWrite ==
  /\ pending # <<>>
  /\ disk' = Written(disk, Head(pending))
  /\ pending' = Tail(pending)
  /\ UNCHANGED <<fat, cacheObjects, status, dirs, files, unsaved, dangling, crashes>>

\* The power fails, at any time, and the disk is mounted again.
Crash ==
  /\ status # "spoiled" /\ crashes < MaxCrashes
  /\ Mount(disk)
  /\ crashes' = crashes + 1
  /\ dangling' = dangling \cup {c \in DOMAIN fat : /\ disk.fats[1][c] = 0
                                                  /\ \E p \in DOMAIN fat : disk.fats[1][p] = c /\ c # 0}
  /\ UNCHANGED disk

FATNext ==
  \/ \E h \in DirHandles :
       \/ OpenRoot(h) \/ CloseDir(h) \/ Read(h) \/ Rewind(h) \/ Follow(h)
       \/ \E name \in Names : Create(h, name)
       \/ \E k \in FileHandles : Open(h, k)
  \/ \E k \in FileHandles : Close(k) \/ ReadFile(k) \/ WriteFile(k) \/ Seek(k)
  \/ FlushAll
  \/ DiskWrite
  \/ Crash

FATSpec == FATInit /\ [][FATNext]_fatVars

-----------------------------------------------------------------------------
FATTypeOK ==
  /\ DOMAIN cacheObjects = DOMAIN fat
  /\ \A c \in Cached(cacheObjects) :
       /\ cacheObjects[c].refs \in Nat
       /\ cacheObjects[c].dirty \in BOOLEAN
       /\ cacheObjects[c].cells \in [0..(Size(c) - 1) -> CellType]
  /\ \A c \in Clusters : disk.data[c] \in [0..(Size(c) - 1) -> CellType]
  /\ \A c \in DOMAIN fat : fat[c] \in DOMAIN fat \cup {ClusterLast}
  /\ status \in {"ready", "stopped", "hung", "spoiled"}
  /\ \A k \in FileHandles : OpenFile(k) => /\ files[k].cache \in Cached(cacheObjects) \cup {None}
                                        /\ files[k].size \in 0..MaxSize
  /\ \A h \in DirHandles : OpenDir(h) => dirs[h].cache \in Cached(cacheObjects) \cup {None}

\* The clusters of the chain that begins with c, and the directories of a disk.
Chain(table, c) ==
  LET on[n \in 0..LastCluster] ==
        IF n = 0 THEN {c} \cap (2..LastCluster)
        ELSE LET known == on[n - 1] IN known \cup ({table[x] : x \in known} \cap (2..LastCluster))
  IN on[LastCluster]

CellsOf(data, table, c) ==
  UNION {{data[b][i] : i \in 0..(Size(b) - 1)} : b \in IF c = 0 THEN {0} ELSE Chain(table, c)}

Directories(data, table) ==
  LET reached[n \in 0..LastCluster] ==
        IF n = 0 THEN {0}
        ELSE LET known == reached[n - 1]
             IN known \cup {cell.cluster : cell \in
                  {x \in UNION {CellsOf(data, table, c) : c \in known} : x.dir}}
  IN reached[LastCluster]

\* The places of the entries that name a file or a directory, and what is in them.
Places(data, table) ==
  {p \in UNION {{b} \X (0..(Size(b) - 1)) :
                  b \in UNION {IF c = 0 THEN {0} ELSE Chain(table, c) :
                               c \in Directories(data, table)}} :
     data[p[1]][p[2]].name \notin {"", ".", ".."}}

\* The contents as the handlers see them.
Seen == [c \in Clusters |-> IF c \in Cached(cacheObjects) THEN cacheObjects[c].cells ELSE disk.data[c]]

Sound == status = "ready" /\ dangling = {}

\* No cluster belongs to two files or directories.
ChainsApart ==
  Sound =>
    \A p, q \in Places(Seen, fat) :
      p # q => Chain(fat, Seen[p[1]][p[2]].cluster) \cap Chain(fat, Seen[q[1]][q[2]].cluster) = {}

\* Whenever the power fails, what the directories on the disk name is there:
\* every cluster is taken in the first copy of the table, there are enough for
\* the size, and directories hold entries and nothing else.
DiskConsistent ==
  dangling = {} =>
    \A p \in Places(disk.data, disk.fats[1]) :
      LET cell == disk.data[p[1]][p[2]]
          chain == Chain(disk.fats[1], cell.cluster)
      IN /\ cell.name \in ShortNames
         /\ cell.cluster # 0 => cell.cluster \in chain
         /\ \A c \in chain : disk.fats[1][c] = 0 => pending # <<>>
         /\ cell.size <= Cells * Cardinality(chain)

\* Between the handlers, what is in memory is on the disk too, or marked and held
\* by someone who will have it written: except for the data of files.
MarkedOrSaved ==
  status = "ready" /\ pending = <<>> =>
    /\ fat = disk.fats[1]
    /\ \A c \in Cached(cacheObjects) :
         IF cacheObjects[c].dirty THEN cacheObjects[c].refs > 0
         ELSE cacheObjects[c].cells = disk.data[c] \/ c \in unsaved \cup dangling

\* A file's handle holds the cluster of the chain in which its offset lies, or
\* the one before at its end: unless a read has passed over a cluster.
CursorInChain ==
  status = "ready" =>
    \A k \in FileHandles : OpenFile(k) /\ files[k].cache # None /\ ~files[k].astray =>
      LET f == files[k]
          nth[n \in 0..MaxSize] ==
            IF n = 0 THEN f.root ELSE fat[nth[n - 1]]
      IN \E n \in {f.offset \div Cells, (f.offset + Cells - 1) \div Cells - 1} :
           n \in 0..MaxSize /\ f.cache = nth[n]
=============================================================================
