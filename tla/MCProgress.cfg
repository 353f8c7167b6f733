SPECIFICATION FairSpec
CONSTANTS
  Procs = {p1, p2, p3}
  Block = b1
  Data = {d}
  MAXOPBLOCKS = 3
  LOGSIZE = 6
  OpBlocks = 1
  Users = {p1, p2}
  Inums = {root, i1}
  Root = root
  Names = {a}
  DotDot = DotDot
  NUM = 4
  IdxMod = 8
  UART_TX_BUF_SIZE = 2
  FIFO_SIZE = 3
  UartMod = 4
  MaxChars = 5
  Reader = p1
  PIPESIZE = 2
  UINT = 4
  MaxCount = 2
  TickMod = 6
  Delays <- Naps
  None = None
PROPERTIES WaitersGoOn SleepsRight
CHECK_DEADLOCK FALSE
