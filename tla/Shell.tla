--------------------------------- MODULE Shell ---------------------------------
(***************************************************************************)
(* The shell (kernel/Shell.cpp) and the virtual file system below it       *)
(* (kernel/FS/VFS.cpp) on the FAT file system of module FAT, with the      *)
(* bitmap that kmain loads from the same disk.  A command and the      *)
(* prompt after it are one step; their writes reach the disk one by one,   *)
(* and the power may fail between them.                                    *)
(***************************************************************************)
EXTENDS FAT, String

CONSTANTS Typed,   \* the names that are typed after a command
          Yolo,    \* the file that the command test writes
          Splash,  \* the one that splash and kmain read
          MaxPath  \* a bound on the path, which could grow for ever once it is astray

\* The name of that file is one to create, and a bitmap is longer than its headers.
ASSUME ShellAssumption == Yolo \in Names /\ Bytes # {} /\ MaxSize > 1

VARIABLES dir,     \* the shell's directory
          prompt   \* the path that it shows

shellVars == <<fatVars, dir, prompt>>

\* The one mount point of kmain; the names of mount points differ from those of files.
MountPoint == "fdd"

-----------------------------------------------------------------------------
\* A handle v of the virtual file system: at the mount points, or in a directory d of
\* the disk.  Which mount point it has read is left out: whoever reads them begins
\* again.  astray is not in the code: the handle has left the disk from a directory
\* below its root.
VFSDirectoryOpenRoot == [fs |-> FALSE, d |-> DirectoryOpenRoot, path |-> <<>>, astray |-> FALSE]

VFSDirectoryClose(m, v) == IF v.fs THEN FreeCache(m, v.d.cache) ELSE m

\* On to the first entry that is wanted, over and over as its callers do.  A mount
\* point is no file.
VFSDirectoryRead(m, v, wanted) ==
  LET r == ReadOn(m, v.d, wanted)
  IN IF v.fs THEN [m |-> r.m, v |-> [v EXCEPT !.d = r.d], ok |-> r.ok]
     ELSE [m |-> m, v |-> v, ok |-> FALSE]

VFSDirectoryRewind(m, v) ==
  LET r == DirectoryRewind(m, v.d)
  IN IF v.fs THEN [m |-> r.m, v |-> [v EXCEPT !.d = r.d], ok |-> TRUE]
     ELSE [m |-> m, v |-> v, ok |-> TRUE]

Named(name) == {cell \in CellType : cell.name = name}

\* The path, had it grown with every directory that is followed.
MutantMoved(path, name) == AddName(path, name)

Moved(path, name) == IF name = ".." THEN GoUp(path) ELSE AddName(path, name)

\* On to the next entry of that name, which is followed if it is a directory.
Searched(s, name) ==
  LET r == ReadOn(s.m, s.v.d, Named(name))
      f == DirectoryFollow(r.m, r.d)
      at == [s.v EXCEPT !.d = r.d]
  IN IF ~Continues(r) THEN [m |-> r.m, v |-> at, ok |-> s.ok, more |-> FALSE]
     ELSE IF ~f.ok THEN [m |-> r.m, v |-> at, ok |-> FALSE, more |-> TRUE]
     ELSE [m |-> f.m, v |-> [s.v EXCEPT !.d = f.d, !.path = Moved(@, name)], ok |-> TRUE,
           more |-> TRUE]

\* A directory that is followed is read on, and followed on where it holds the
\* name too: for ever, if that happens more often than there are cells.
Search(m, v, name) ==
  LET search[n \in 0..AllCells] ==
        IF n = 0 THEN [m |-> m, v |-> v, ok |-> FALSE, more |-> TRUE]
        ELSE LET s == search[n - 1]
             IN IF s.more /\ s.m.at = "ready" THEN Searched(s, name) ELSE s
      last == search[AllCells]
  IN IF last.more /\ last.m.at = "ready" THEN [last EXCEPT !.m.at = "hung"] ELSE last

AtMounts(m, v, name) ==
  [m |-> m, ok |-> name = MountPoint,
   v |-> IF name = MountPoint
         THEN [v EXCEPT !.fs = TRUE, !.d = DirectoryOpenRoot, !.path = AddName(@, name)] ELSE v]

\* Where ".." is not found the handle goes back to the mount points.
OffDisk(r) ==
  [m |-> FreeCache(r.m, r.v.d.cache), ok |-> TRUE,
   v |-> [r.v EXCEPT !.fs = FALSE, !.d = DirectoryOpenRoot, !.path = GoUp(@),
                     !.astray = @ \/ r.v.d.root # 0]]

Changed(r, name) == IF r.ok \/ name # ".." \/ r.m.at # "ready" THEN r ELSE OffDisk(r)

OnDisk(start, v, name) ==
  Changed(Search(start.m, [v EXCEPT !.d = start.d], name), name)

DirectoryChange(m, v, name) ==
  IF v.fs THEN OnDisk(DirectoryRewind(m, v.d), v, name) ELSE AtMounts(m, v, name)

VFSDirectoryCreate(m, v, name) ==
  LET r == DirectoryCreate(m, v.d, name)
  IN IF v.fs THEN [m |-> r.m, v |-> [v EXCEPT !.d = r.d], ok |-> TRUE] ELSE [m |-> m, v |-> v, ok |-> FALSE]

\* Where there is no such name the last place of the directory is opened.  Only
\* writing looks at update.
OpenFound(r, v, update) ==
  [m |-> r.m, v |-> [v EXCEPT !.d = r.d], ok |-> TRUE,
   f |-> FileOpen(r.m, r.d, update), file |-> ~Entry(r.m, r.d).dir]

VFSFileOpen(m, v, name, update) ==
  LET start == DirectoryRewind(m, v.d)
  IN IF v.fs THEN OpenFound(ReadOn(start.m, start.d, Named(name)), v, update)
     ELSE [m |-> m, v |-> v, ok |-> FALSE]

\* The paths that are opened have one directory, at the mount points.  If it is
\* not found it is passed over.
FileOpenPath(m, text) ==
  LET at == AtMounts(m, VFSDirectoryOpenRoot, Head(PathOf(text)))
      o == VFSFileOpen(m, at.v, Last(PathOf(text)), FALSE)
  IN [o EXCEPT !.m = VFSDirectoryClose(@, o.v)]

VFSFileClose(r) == FreeCache(r.m, r.f.cache)

-----------------------------------------------------------------------------
\* The commands.  Each returns what the machine and the shell's handle become.
List(m, v) ==
  LET start == VFSDirectoryRewind(m, v)
      r == VFSDirectoryRead(start.m, start.v, {})
  IN VFSDirectoryRewind(r.m, r.v)

\* Part after part, until nothing is left to be read.
ReadOften(at, count, times) ==
  LET read[n \in 0..times] ==
        IF n = 0 THEN at
        ELSE LET r == read[n - 1] IN IF Continues(r) THEN FileRead(r.m, r.f, count) ELSE r
  IN read[times]

\* The buffer is as long as a cluster of the floppy.
Shown(o) ==
  LET r == ReadOften([m |-> o.m, f |-> o.f, ok |-> TRUE], Cells, o.f.size + 1)
  IN [m |-> VFSFileClose(r), v |-> o.v]

\* The file is looked for among the files, and then opened by its name.
Cat(m, v, name) ==
  LET start == VFSDirectoryRewind(m, v)
      r == VFSDirectoryRead(start.m, start.v, {cell \in Named(name) : ~cell.dir})
  IN IF Continues(r) THEN Shown(VFSFileOpen(r.m, r.v, name, FALSE)) ELSE r

\* test and splash go from the mount points to the disk with a handle of their own,
\* which they forget.
RootOf(m) == AtMounts(m, VFSDirectoryOpenRoot, MountPoint).v

\* If the name is that of a directory, or there is no room for it and the last
\* entry is one, its contents are overwritten.
WriteFound(o) ==
  IF o.file THEN VFSFileClose(FileWrite(o.m, o.f, CHOOSE b \in Bytes : TRUE))
  ELSE [o.m EXCEPT !.at = "spoiled"]

Test(m, update) ==
  LET created == FileCreate(m, RootOf(m).d, Yolo)
  IN WriteFound(VFSFileOpen(created.m, [RootOf(m) EXCEPT !.d = created.d], Yolo, update))

\* The file is not closed either.
ShowSplash(m) ==
  LET o == VFSFileOpen(m, RootOf(m), Splash, FALSE) IN FileRead(o.m, o.f, MaxSize).m

\* One cell stands for both headers; a bitmap that ends early is not closed.
\* offset and pixels are what the headers say.
ReadPixels(at, pixels) ==
  LET r == ReadOften(at, 1, pixels) IN IF Continues(r) THEN VFSFileClose(r) ELSE r.m

SkipHeader(r, offset) ==
  LET at == FileSetPointer(r.m, r.f, offset)
  IN IF Continues(r) THEN [m |-> at.m, f |-> at.f, ok |-> TRUE] ELSE r

LoadBitmap(m, text, offset, pixels) ==
  LET o == FileOpenPath(m, text)
  IN IF ~o.ok THEN o.m
     ELSE ReadPixels(SkipHeader(FileRead(o.m, o.f, 1), offset), pixels)

-----------------------------------------------------------------------------
ShellInit == FATInit /\ dir = VFSDirectoryOpenRoot /\ prompt = TextOf(<<>>).text

\* The prompt, had it not flushed.
MutantPrompt(m, text) == m

\* There is one mount point.
VFSFlush(m) == Flush(m)

\* A path too long for its string has been put over the string's pointer.
Prompt(m, text) ==
  IF m.at # "ready" THEN m
  ELSE IF text.over THEN [VFSFlush(m) EXCEPT !.at = "spoiled"] ELSE VFSFlush(m)

Perform(r) ==
  LET text == TextOf(r.v.path)
  IN /\ Commit(Prompt(r.m, text))
     /\ dir' = r.v
     /\ prompt' = text.text
     /\ UNCHANGED <<dirs, files>>

Command == Ready /\ Room

ShellDir == Command /\ Perform(List(Now, dir))
ShellCd(name) ==
  /\ Command
  /\ Len(dir.path) < MaxPath \/ name = ".."
  /\ Perform(DirectoryChange(Now, dir, name))
ShellCat(name) == Command /\ Perform(Cat(Now, dir, name))
ShellMkdir(name) == Command /\ Perform(VFSDirectoryCreate(Now, dir, name))
ShellTest == Command /\ \E update \in BOOLEAN : Perform([m |-> Test(Now, update), v |-> dir])
ShellSplash == Command /\ Perform([m |-> ShowSplash(Now), v |-> dir])

\* Bitmaps say of themselves what the file can hold.
KmainLoadBitmap ==
  /\ Command
  /\ \E offset \in 1..MaxSize, pixels \in {0, MaxSize - 2} :
       Perform([m |-> LoadBitmap(Now, <<Slash, MountPoint, Slash, Splash>>, offset, pixels), v |-> dir])

Restart == Crash /\ dir' = VFSDirectoryOpenRoot /\ prompt' = TextOf(<<>>).text

ShellNext ==
  \/ ShellDir \/ ShellTest \/ ShellSplash \/ KmainLoadBitmap
  \/ \E name \in Typed : ShellCd(name) \/ ShellCat(name)
  \/ \E name \in Typed \cap Names : ShellMkdir(name)
  \/ DiskWrite /\ UNCHANGED <<dir, prompt>>
  \/ Restart

ShellSpec == ShellInit /\ [][ShellNext]_shellVars

-----------------------------------------------------------------------------
\* The directories that the names of a path lead to from the root of the disk.
Reached(path) ==
  LET Below(c, name) == {cell.cluster : cell \in {x \in CellsOf(Seen, fat, c) : x.dir /\ x.name = name}}
  IN FoldLeft(LAMBDA cs, name : UNION {Below(c, name) : c \in cs}, {0}, path)

\* The path that the prompt shows leads to the directory in which the commands
\* work, however deep one command has gone: unless the shell has left the disk from
\* a directory without "..", which only a power failure makes.
PathAgrees ==
  status = "ready" /\ ~dir.astray =>
    LET path == PathOf(prompt)
    IN IF dir.fs THEN /\ path # <<>> /\ Head(path) = MountPoint
                      /\ dir.d.root \in Reached(Tail(path))
       ELSE path = <<>>

\* Between the commands everything that any handle, closed, open or forgotten,
\* has changed is on the disk, except for the data of files.
PromptSaves ==
  status = "ready" /\ pending = <<>> =>
    /\ fat = disk.fats[1]
    /\ \A c \in Cached(cacheObjects) :
         cacheObjects[c].cells = disk.data[c] \/ c \in unsaved \cup dangling
=============================================================================
