CONSTANTS
    IntMod = 16
    PageSize = 4
    Ptrs <- MCPtrs
    Pfns = {3}
    NxBit = 16
    Flags = 3
    Targets = {0, 3, 6}
    Counts = {0, 1, 2, 5, 7, 12}
    Widths = {1, 2}
    BarPages = 3
    Words = {0, 1}
    BarPa = 8
    MapLen = 10
    GpuOffset = 5
    Tries = 2
    MaxCycles = 5
    MinStart = 9
    Direct = {2, 5}
    Trapped = {6, 10}
    IrqCycles = 4
SPECIFICATION OneShotSpec
INVARIANTS
    MapsBeforeContainer
    WalkFindsPage
    AccessInWindow
    DumpTellsAll
    ReportIsRight
PROPERTIES
    ChildProceeds
CHECK_DEADLOCK FALSE
