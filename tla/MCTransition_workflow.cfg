SPECIFICATION FairSpec
CONSTANTS
    p1 = p1
    p2 = p2
    x = x
    y = y
    Proc = {p1, p2}
    NoProc = NoProc
    Project = {x}
    Absent = Absent
    Damaged = Damaged
    NoBundle = NoBundle
    Kinds = {"init", "create", "advance", "repair", "record", "session", "select", "recover"}
    TornWrites = FALSE
    MaxEvents = 3
    MaxKills = 2
INVARIANTS RecoveredWhole Recoverable
PROPERTIES JournalsEmptied
