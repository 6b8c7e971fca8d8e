CONSTANTS
    Procs = {reader, writer}
    PageCnt = 2
    MaxGrow = 2
    MaxPuts = 2
SPECIFICATION Spec
INVARIANTS
    RefsCover
    FaultHasCause
    RightPage
PROPERTIES
    StepsKeepUsers
CHECK_DEADLOCK FALSE
