SPECIFICATION Spec
CONSTANTS
    p1 = p1
    p2 = p2
    x = x
    y = y
    Proc = {p1, p2}
    NoProc = NoProc
    Project = {x, y}
    Absent = Absent
    Damaged = Damaged
    NoBundle = NoBundle
    Kinds = {"init", "recover"}
    TornWrites = FALSE
    MaxEvents = 2
    MaxKills = 1
INVARIANTS Recoverable

