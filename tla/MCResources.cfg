SPECIFICATION Spec
CONSTANTS
  u1 = u1
  u2 = u2
  Opened = {f1}
  Inodes = {i1, i2}
  Pipes = {g1}
  None = None
  NFILE = 3
  NOFILE = 2
  MaxOff = 2
  MaxIo = 2
  LogBlocks = {b1, b2, b3, b4, b5}
  MAXOPBLOCKS = 3
  LOGSIZE = 6
  NBLOCKS = 4
  NDIRECT = 1
  NINDIRECT = 2
  BSIZE = 2
  Bytes = {1}
  BlocksWord = 8
  Pages = {1, 2, 3, 4, 5, 6, 7, 8, 9, 10, 11, 12, 13, 14, 15, 16}
  PGSIZE = 2
  FAN = 4
  VmWord = 256
  trampoline = 0
  Heads = {h1, h2}
  Nodes = {n1, n2, n3}
SYMMETRY Symmetry
VIEW View
INVARIANTS
  FilesAreExact BlocksAccounted  PagesAccounted ListsAreRight
PROPERTY FailureIsClean
