SPECIFICATION LogicalSpec
CONSTANTS
  PageUnits = 2
  Word = 64
  BitmapPages = 10
  ByteBits = 2
  KernelBeg = 2
  KernelEnd = 5
  Reserved <- MCReserved
  BootMaps <- MCBootMaps
  Tables = 4
  PerTable = 2
  StackTop = 8
  Requests = {1, 2}
INVARIANTS MemoryTypeOK KernelKept FreeIsMemory MapShown 
PROPERTIES  BootEnds
CHECK_DEADLOCK FALSE
