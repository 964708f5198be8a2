SPECIFICATION LiveSpec
CONSTANTS
  NPROC = 3
  CPUs = {c1}
  Chans = {}
  KillArgs = {}
  MaxPid = 3
  TickCPUs = {c0, c1}
  Cpu0 = c0
  Sleepers = {s1}
  WORD = 8
  SCHED_INTERVAL = 3
  Naps = {1, 3}
  MaxDelay = 1
  JobTable = {1, 2, 3, 4, 5, 6, 7}
  NFDS = 5
  JobSlots = 5
  a = a
  b = b
  Lines <- Typed
  Apics = {0, 1, 2, 3}
  Bsp = 0
  NCPU = 3
  Tables <- Bios
  PCpus = {x1, x2}
  NoHolder = NoHolder
  Chars = 2
CHECK_DEADLOCK FALSE
 
PROPERTIES ProcessesRun OrphanReaped SleepReturns AlwaysPrompts BootEnds PanicReported
