SPECIFICATION FairSpec
CONSTANTS
  Readers = {r1}
  Writers = {w1}
  Killable = {w1}
  Bytes = {a}
  Nobody = Nobody
  NoByte = NoByte
  PIPESIZE = 1
  UINT = 2
  MaxCall = 2
PROPERTY KilledLeaves
