SPECIFICATION Spec
CONSTANTS
  Procs = {p1}
  Inums = {root, i1, i2}
  Root = root
  Names = {a}
  DotDot = DotDot
  Paths <- DeepUp
  Calls = {"mkdir", "unlink", "chdir", "open"}
  Crashes = FALSE
  None = None
INVARIANT NoPanic
