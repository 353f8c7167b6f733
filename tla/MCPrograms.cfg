SPECIFICATION MCSpec
CONSTANTS
  MinUnits = 4
  MaxBrk = 13
  Slots = {1, 2, 3, 4, 5, 6, 7, 8}
  Lines <- Typed
  MaxLines = 2
  MaxArgs = 3
  DIRSIZ = 2
  Bits = 8
  BufSize = 4
  MaxFails = 1
  PGSIZE = 2
  VaBits = 3
  MAXVA = 6
  Word = 2
  FSSIZE = 18
  BSIZE = 4
  BPB = 17
  IPB = 2
  NINODES = 5
  LOGSIZE = 1
  NDIRECT = 1
  NINDIRECT = 3
  MaxFiles = 3
  None = None
INVARIANTS LinesRunRight HeapIsExact ParserIsGrammar  OutputIsRight CopiesAreExact ImageIsSound
CHECK_DEADLOCK FALSE
