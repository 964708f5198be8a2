SPECIFICATION Spec
CONSTANTS
  NPROC = 2
  CPUs = {c1}
  Chans = {ch}
  KillArgs = {0, 2, 3}
  MaxPid = 3
INVARIANT KilledOnPurpose
