SPECIFICATION MCSpec
CONSTANTS
  NPROC = 3
  CPUs = {c1}
  Free = Free
  Slots = {1, 2, 3, 4, 5, 6, 7, 8}
  Lines <- Typed
  MaxArgs = 3
  MaxLines = 2
  MaxFails = 1
  None = None
PROPERTIES OrphansReaped RunnableRuns PromptComesBack
