SPECIFICATION Spec
CONSTANTS
    a = a  b = b  c = c  dot = dot
    Name = {a, b, c, dot}
    FileStem = {a, b, c}
    Inputs <- MCInputs
CHECK_DEADLOCK FALSE
INVARIANTS
    TypeOK
    PlannedIffWellFormed
    WavesRespectDeps
    WavesAreEarliest
    NothingDropped
PROPERTY PlanningEnds
