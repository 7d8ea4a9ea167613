SPECIFICATION FATSpec
CONSTANTS
  LastCluster = 3
  Cells = 2
  RootCells = 2
  Copies = 2
  Disks <- MCDisks
  Names = {"A"}
  Short <- MCShort
  Bytes = {"x"}
  DirHandles = {d1}
  FileHandles = {f1}
  MaxRefs = 2
  MaxSize = 3
  MaxCrashes = 1
INVARIANTS    MarkedOrSaved CursorInChain
CHECK_DEADLOCK FALSE
