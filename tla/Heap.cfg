SPECIFICATION ArraySpec
CONSTANTS
  HeaderSize = 1
  PageSize = 4
  MinPages = 2
  Sizes = {2, 6, 9}
  HeapEnd = 16
  Arrays = {"a", "b"}
  Values = {1, 2}
  FirstCapacity = 2
  MaxCapacity = 4
  MaxElements = 3
  MaxOthers = 1
INVARIANTS HeapTypeOK BlocksTile DataOwned
PROPERTIES ImplementsAllocator ImplementsVector
CHECK_DEADLOCK FALSE
