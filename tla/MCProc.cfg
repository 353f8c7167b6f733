SPECIFICATION Spec
CONSTANTS
  c1 = c1
  c2 = c2
  Free = Free
INVARIANTS OneCpu NoLostExit
