SPECIFICATION Spec
CONSTANTS
  InitThread = kmain
  idleThread = idle
  Threads = {kmain, idle, t1}
  Calls = {"Create", "Start", "Pause", "Kill", "Lock", "NextThread", "Disable", "Delay", "Exit"}
  MaxNest = 3
  MaxDisable = 1
INVARIANT TypeOK ReadyQueueOK SectionsHold UnstoppableRuns TerminatedNeverReady
PROPERTY ImplementsRoundRobin
