CONSTANTS
  p1 = p1
  p2 = p2
  NoProject = none
  Projects = {p1, p2}
  Short = {p2}
  StopBudget = 1
  EditBudget = 1
  FaultBudget = 1
SPECIFICATION FairSpec
CHECK_DEADLOCK FALSE
INVARIANTS OnDisk SourceAgrees CommandApproved
PROPERTIES NothingTakenBack LifeSpec Recovered
