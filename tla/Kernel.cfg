SPECIFICATION KernelSpec
CONSTANTS
  NPROC = 3
  CPUs = {c1, c2}
  Chans = {ch}
  KillArgs = {0, 1, 2}
  MaxPid = 3
  SCPUs = {u1, u2}
  Threads = {t1, t2}
  NoCpu = NoCpu
  MaxFrames = 2
  FProcs = {q1, q2}
  NFILE = 3
  NOFILE = 2
  FInodes = {i1}
  Pipes = {k1}
  MaxRefs = 2
SYMMETRY Symmetry
INVARIANTS StackSafe TableSound WaitNotLost
INVARIANTS LockExclusive NoLockStop InterruptsRestored
INVARIANT RefsCounted
