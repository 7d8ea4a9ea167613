SPECIFICATION ShellSpec
CONSTANTS
  LastCluster = 5
  Cells = 3
  RootCells = 3
  Copies = 1
  Disks <- MCDisks
  Names = {"A", "s", "y"}
  Short <- MCShort
  Bytes = {"x"}
  DirHandles = {}
  FileHandles = {}
  MaxRefs = 3
  MaxSize = 4
  MaxCrashes = 1
  Typed = {"a", "A", "s", ".", "..", "fdd"}
  Yolo = "y"
  Splash = "s"
  MaxPath = 4
  Inner = 32
  Width <- MCWidth
INVARIANTS PathAgrees PromptSaves
CHECK_DEADLOCK FALSE
