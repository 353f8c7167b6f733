SPECIFICATION Spec
CONSTANTS
  Procs = {p1, p2}
  Inums = {root, i1}
  Root = root
  Names = {a}
  DotDot = DotDot
  Paths <- Short
  Calls = {"create", "unlink"}
  Crashes = FALSE
  None = None
INVARIANT UnlinkedIsFreed
