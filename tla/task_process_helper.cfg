SPECIFICATION Spec
CONSTANTS
    MaxWrites = 2
    PipeSize = 1
    Quirks <- HelperStays
CHECK_DEADLOCK FALSE
PROPERTY CancelConverges
