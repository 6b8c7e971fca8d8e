CONSTANTS
    Procs = {reader, writer}
    PageCnt = 2
    MaxGrow = 2
    MaxPuts = 0
SPECIFICATION Spec
INVARIANTS
    LogTellsTruth
CHECK_DEADLOCK FALSE
