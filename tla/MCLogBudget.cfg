SPECIFICATION MCSpec
CONSTANTS
  Parts = {"log"}
  Procs = {p1, p2}
  Blocks = {b1, b2, b3, b4}
  Data = {d}
  MAXOPBLOCKS = 2
  LOGSIZE = 4
  NLOG = 4
  OpBlocks = 2
  NoBuf = NoBuf
  Nobody = Nobody
  Spare = b5
  NBUF = 3
  MaxPins = 1
INVARIANTS
  NoPanic
