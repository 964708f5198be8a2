SPECIFICATION PartsSpec
CONSTANTS
  FsProcs = {p1, p2}
  p1 = p1
  p2 = p2
  NoProc = NoProc
  NInodes = 3
  Names = {"a", "b"}
  FsCalls <- FsCallSets
  w1 = w1
  w2 = w2
  w3 = w3
  s1 = s1
  s2 = s2
  f1 = f1
  f2 = f2
  OpenFiles <- TheOpenFiles
  Users <- TheUsers
  ByteOf <- TheBytes
  BSIZE = 2
  NDIRECT = 1
  NINDIRECT = 2
  NBLOCKS = 4
  MAXOPBLOCKS = 6
  UINT32 = 16
  WriteSizes = {5}
  ReadSizes = {2, 15}
  MProcs = {m1, m2}
  NPAGES = 13
  PGSIZE = 2
  NPTENTRIES = 2
  KERNBASE = 8
  UINT = 16
  Deltas <- Growths
  Programs <- Images
  ArgSizes = {3}
  WORDS = 16
  INT = 2
  NSYS = 2
  NOFD = 2
  MAXARG = 2
  Sizes = {8}
  ObjSize = 3
  MSIZE = 4
  Chr = {0, 1, 2}
  IBITS = 32
  LOW = 12
  HIGH = 2
  Noise = {0, 17}
  SECTSIZE = 4
  MEMSIZE = 20
  Kernels <- KernelImages
  HEADER = 2
  MINCORE = 4
  MAXBRK = 10
  Requests = {0, 3, 5}
  FSBLOCKS = 26
  BPLACES = 4
  NLOG = 1
  NINO = 4
  NDIR = 1
  FileSizes = {0, 3, 4, 9}
  MaxFiles = 3
  Words = {"a"}
  MAXARGS = 3
  MaxTokens = 5
  Patterns <- GrepPatterns
  Letters = {"a", "b"}
  NL = "nl"
  GBUF = 5
  MaxText = 4
CHECK_DEADLOCK FALSE
INVARIANTS CountsRight  
INVARIANTS BlocksOwned ChunkFits
INVARIANTS  ArgsInside  DateWhole KernelLoaded
INVARIANTS HeapSound ImageUsable  GrepSound
PROPERTY IsByteFile
