SPECIFICATION TreeSpec
CONSTANTS
  FsProcs = {p1, p2}
  p1 = p1
  p2 = p2
  NoProc = NoProc
  NInodes = 2
  Names = {"a"}
  FsCalls <- Makers
CHECK_DEADLOCK FALSE
INVARIANT FreedWhenUnused
