SPECIFICATION FilesSpec
CONSTANTS
  r1 = r1
  r2 = r2
  Runners = {r1, r2}
  Inodes = {1, 2, 3, 4}
  NoInode = 0
  NoRunner = none
  EditBudget = 1
  StopBudget = 2
  TornWrites = TRUE
  LateEdits = FALSE
  Unguarded = FALSE
  Fetcher = {g, h}
  Faithful = g
  Size = 2
  NoFile = nofile
  TryBudget = 1
  FetchFaultBudget = 1
  FetchStopBudget = 1
  CleanBudget = 1
  Command = {i, u}
  Remover = u
  NoCommand = nocommand
  CommandBudget = 4
  KillBudget = 1
CHECK_DEADLOCK FALSE
INVARIANTS EvidenceFirst NoClobber SourceKept ModelWhole InstallKept
PROPERTIES EndsInstalled StaysSettled ModelPrepared UninstallEnds
