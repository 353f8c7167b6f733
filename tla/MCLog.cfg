SPECIFICATION MCSpec
CONSTANTS
  Parts = {"log", "cache"}
  Procs = {p1, p2}
  Blocks = {b1, b2, b3}
  Data = {old, new}
  MAXOPBLOCKS = 4
  LOGSIZE = 8
  NLOG = 8
  OpBlocks = 2
  NoBuf = NoBuf
  Nobody = Nobody
  Spare = b4
  NBUF = 3
  MaxPins = 1
SYMMETRY Symmetry
INVARIANTS
  TypeOK
  NoMissedWakeup
  PinsBalanced
  DurableAtReturn
  NoPanic
  
  SeesLatest
PROPERTIES
  LogIsAtomic
