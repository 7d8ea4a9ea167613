SPECIFICATION SignalSpec
CONSTANTS
  InitThread = kmain
  idleThread = idle
  Threads = {kmain, idle, t1}
  keyboard = keyboard
  floppy = floppy
  Signals = {keyboard, floppy}
  Irq <- IrqOf
  Quiet = {keyboard}
  Calls = {"Create", "Start", "NextThread", "Disable", "Exit"}
  MaxNest = 4
  MaxDisable = 1
INVARIANT SectionsHold NoWakeUpLost WaitersParked ServiceCounted
