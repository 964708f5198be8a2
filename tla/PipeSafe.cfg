SPECIFICATION Spec
CONSTANTS
  Readers = {r1, r2}
  Writers = {w1, w2}
  Killable = {r1, r2, w1, w2}
  Bytes = {a, b}
  Nobody = Nobody
  NoByte = NoByte
  PIPESIZE = 2
  UINT = 4
  MaxCall = 2
SYMMETRY Symmetry
INVARIANTS PipeSound NoLostWakeup
PROPERTY IsFifo
