SPECIFICATION Spec
CONSTANTS
    MaxWrites = 2
    PipeSize = 1
    Quirks <- NoQuirk
CHECK_DEADLOCK FALSE
INVARIANT CompletedIsNotCancelled
