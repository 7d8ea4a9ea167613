SPECIFICATION FairSpec
CONSTANTS
  InitThread = kmain
  idleThread = idle
  Threads = {kmain, idle, t1}
  Calls = {"Create", "Start", "Pause", "NextThread", "Disable", "Delay", "Exit"}
  MaxNest = 3
  MaxDisable = 1
PROPERTY ReadyRuns
