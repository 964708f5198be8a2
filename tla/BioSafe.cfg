SPECIFICATION Spec
CONSTANTS
  Procs = {p1, p2}
  Blocks = {k1, k2, k3, k4}
  Values = {v0, v1}
  InitValue = v0
  Bufs = {b1, b2, b3}
  NoBlock = NoBlock
  NoProc = NoProc
  NoBuf = NoBuf
  MaxPinned = 1
SYMMETRY Symmetry
 
PROPERTY IsBlockStore
