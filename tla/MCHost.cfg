SPECIFICATION HostSpec
CONSTANTS
  Client = {c1, c2}
  First = c1
  Gens = 2
  Sides = 2
  None = none
  Empty = empty
  CrashBudget = 1
  FaultBudget = 1
  CommandBudget = 1
  Starter = {p1, p2}
  Stopper = {q}
  Server = {s1, s2, s3}
  NoServer = noserver
  Torn = torn
  DeathBudget = 1
  ToolCall = {t1, t2, t3}
  Command = {t1}
  MaxModelTurns = 4
  MaxToolCalls = 2
  ModelWindow = 2
  ToolWindow = 1
  Reserve = 1
  MaxObservation = 2
  MaxCumulative = 3
  Size = {1, 3}
  Caller = {u, v}
  Workers = 2
  Slots = 1
  MaxCalls = 4
  NoJob = nojob
CHECK_DEADLOCK FALSE
INVARIANTS AdmissionKept ServersFound RequestKept
PROPERTIES Settles TurnInTime PoolServes
