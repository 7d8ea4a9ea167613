SPECIFICATION HeapSpec
CONSTANTS
  HeaderSize = 1
  PageSize = 4
  MinPages = 2
  Sizes = {2, 6, 9}
  HeapEnd = 16
INVARIANT NothingLost
CHECK_DEADLOCK FALSE
