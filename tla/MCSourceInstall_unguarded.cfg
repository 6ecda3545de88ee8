SPECIFICATION Spec
CONSTANTS
  r1 = r1
  r2 = r2
  Runners = {r1, r2}
  Inodes = {1, 2, 3, 4}
  NoInode = 0
  NoRunner = none
  EditBudget = 0
  StopBudget = 0
  TornWrites = TRUE
  LateEdits = FALSE
  Unguarded = TRUE
INVARIANT SourceKept
CHECK_DEADLOCK FALSE
