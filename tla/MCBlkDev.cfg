CONSTANTS
    IntMod = 16
    PageSize = 4
    SectorSize = 2
    Mega = 6
    Sizes <- MCSizes
    Vals <- MCVals
    MaxQueue = 2
SPECIFICATION Spec
INVARIANTS
    RequestsAreSafe
    CleanFailure
PROPERTIES
    ServesDisk
CHECK_DEADLOCK FALSE
