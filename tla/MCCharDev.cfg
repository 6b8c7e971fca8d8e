CONSTANTS
    Procs <- MCProcs
    Cells = 2
SPECIFICATION Spec
INVARIANTS
    TornNeedsOverlap
    RegionOwned
    BufferOutlivesFiles
PROPERTIES
    GoesWithoutUsers
CHECK_DEADLOCK FALSE
