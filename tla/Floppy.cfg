SPECIFICATION FloppySpec
CONSTANTS
  Sectors = 1
  Cylinders = 2
  Values = {"b", "x"}
  Media <- MCMedia
  Tables <- MCTables
  DmaPhys = 1118208
  MaxLocks = 1
  MaxRetries = 1
INVARIANTS FloppyTypeOK CommandPrepared TransferRight
 
CHECK_DEADLOCK FALSE
