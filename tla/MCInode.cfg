SPECIFICATION MCSpec
CONSTANTS
  Procs = {p1, p2}
  Inums = {root, i1, i2}
  Root = root
  Names = {a, b}
  DotDot = DotDot
  Paths <- Deep
  Calls = {"create", "unlink", "mkdir", "open", "fstat"}
  Crashes = FALSE
  None = None
SYMMETRY Symmetry
VIEW View
INVARIANTS TableIsExact NoPanic NamedOrOpenLives
