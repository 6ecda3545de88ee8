SPECIFICATION LeaseSpec
CONSTANTS
    Proc = {p1, p2, p3}
    OtherProc = {q1, q2}
    NoProc = NoProc
    SplitGuard = FALSE
    Displaceable = {"lock"}
    ScanLimit = 1
    MaxDisplaced = 2
INVARIANTS MutualExclusion ScanKept
PROPERTIES BlockedByTheLiving AcquiresReturn
