SPECIFICATION Spec
CONSTANTS
  Procs = {p1, p2}
  Blocks = {b1, b2, b3}
  Values = {v0, v1}
  InitValue = v0
  p1 = p1
  p2 = p2
  b1 = b1
  b2 = b2
  b3 = b3
  v0 = v0
  v1 = v1
  NoData = NoData
  NoBlock = NoBlock
  MAXOPBLOCKS = 3
  LOGSIZE = 6
  NLOG = 6
  OpBlocks = 2
SYMMETRY Symmetry
INVARIANT CommitAlone
PROPERTY Atomicity
