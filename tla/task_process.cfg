SPECIFICATION Spec
CONSTANTS
    MaxWrites = 2
    PipeSize = 1
    Quirks <- AnyQuirks
CHECK_DEADLOCK FALSE
INVARIANTS
    TypeOK
    DoneIsComplete
    NothingLeftBehind
PROPERTIES
    SignalsAreAimed
    StderrNeverBlocks
    TaskEnds
