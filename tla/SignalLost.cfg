SPECIFICATION SignalSpec
CONSTANTS
  InitThread = kmain
  idleThread = idle
  Threads = {kmain, idle}
  keyboard = keyboard
  floppy = floppy
  Signals = {keyboard}
  Irq <- IrqOf
  Quiet = {keyboard}
  Calls = {"NextThread"}
  MaxNest = 5
  MaxDisable = 1
INVARIANT RunnableScheduled
