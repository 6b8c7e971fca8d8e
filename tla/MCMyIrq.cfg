CONSTANTS
    CPUs = {c1, c2}
    NoCPU = NoCPU
    Lines = {l1, l2}
    MaxIrqs = 3
SPECIFICATION FairSpec
INVARIANTS
    FaultNeedsWindow
    CountAccounts
    LagAtMostOne
PROPERTIES
    EarlyIsFatal
    BottomHalfRuns
    ExitReturns
CHECK_DEADLOCK FALSE
