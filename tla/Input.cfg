SPECIFICATION InputSpec
CONSTANTS
  Keys = {"shift"}
  Shift = "shift"
  Buttons <- MCButtons
  Packets <- MCPackets
  MaxKeyBytes = 2
  MaxBytes = 7
  MaxLost = 1
INVARIANTS  MouseEventsKept 
 
CHECK_DEADLOCK FALSE
