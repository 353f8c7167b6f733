CONSTANTS
  c0 = c0
  c1 = c1
  t1 = t1
  t2 = t2
  Cpus = {c0, c1}
  Cpu0 = c0
  Threads = {t1, t2}
  Tickslock = Tickslock
  Inner = Inner
  None = None
  Harts = {h1, h2}
  Users = {u1, u2}
  Kernel = Kernel
SPECIFICATION MCSpec
INVARIANTS OffAndCounted NoPanic InterruptsRestored RegistersKept
SYMMETRY Symm
VIEW View
