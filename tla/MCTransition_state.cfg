SPECIFICATION Spec
CONSTANTS
    p1 = p1
    p2 = p2
    x = x
    y = y
    Proc = {p1, p2}
    NoProc = NoProc
    Project = {x, y}
    Absent = Absent
    Damaged = Damaged
    NoBundle = NoBundle
    Kinds = {"record", "session", "compact", "reconcile", "lose", "append", "recover"}
    TornWrites = TRUE
    MaxEvents = 3
    MaxKills = 1
SYMMETRY Alike
INVARIANTS CurrentInstalled
PROPERTIES ReplacementsKept ImplementsAtomic
