\* The port may stay silent for ever: kmain then waits in its loop.
SPECIFICATION SerialSpec
CONSTANTS
  Chars = {"m", "n"}
  Depth = 2
  Trigger = 2
  Tries = 5
  FifoLeft = {FALSE, TRUE}
  MaxChars = 3
CHECK_DEADLOCK FALSE
INVARIANTS
  PortFound
  ReadInOrder
