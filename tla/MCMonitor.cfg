CONSTANTS
    Interval = 3
    Throttle = 7
    Avenrun <- MCAvenrun
    MaxLate = 4
SPECIFICATION Spec
INVARIANTS
    TimerOwned
    OnGrid
PROPERTIES
    DumpSpacing
