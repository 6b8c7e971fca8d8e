CONSTANTS
    N = 6
    MaxTimes = 2
SPECIFICATION FairListSpec
INVARIANTS
    ListAndHeap
    CleanUnload
PROPERTIES
    ExitReturns
