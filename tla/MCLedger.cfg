SPECIFICATION Spec
CONSTANTS
    e1 = e1
    e2 = e2
    e3 = e3
    x = x
    y = y
    Proc = {p1, p2}
    NoProc = NoProc
    Reader = {r1}
    Event = {e1, e2, e3}
    PayloadOf <- Payloads
    NoEvent = NoEvent
    Torn = Torn
    Missing = Missing
    Project = {x, y}
    ProjectOf <- TwoProjects
INVARIANTS HistoryKept ReaderConsistent
PROPERTIES DerivedKept ImplementsEventLog
