CONSTANTS
    DramSize = 1016
    PageSize = 512
    FileSize = 300
    IncMax = 4096
    Steps <- MCSteps
    Digits <- MCDigits
    InbufMax = 3
    AddrMax = 4096
SPECIFICATION Spec
INVARIANTS
    NoReadPastEnd
