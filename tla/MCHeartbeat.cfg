CONSTANTS
    First = 1
    Period = 3
SPECIFICATION FairSpec
INVARIANTS
    SafeUnload
    RaceDoomed
PROPERTIES
    BeatSpacing
    RaceIsFatal
    KeepsBeating
CHECK_DEADLOCK FALSE
