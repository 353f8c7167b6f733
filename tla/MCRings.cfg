SPECIFICATION Spec
CONSTANTS
  Procs = {p1, p2, p3}
  Users = {u1, u2}
  Cpus = {c1, c2}
  INPUT_BUF_SIZE = 3
  ConsoleMod = 6
  MaxN = 2
  UART_TX_BUF_SIZE = 2
  FIFO_SIZE = 3
  UartMod = 4
  MaxChars = 6
  NUM = 8
  IdxMod = 16
  PIPESIZE = 2
  UINT = 4
  MaxCount = 3
  None = None
SYMMETRY Symmetry
VIEW View
INVARIANTS OutputInOrder RequestsAreRight SleepersHaveReason
PROPERTIES InputInOrder PipeIsQueue
