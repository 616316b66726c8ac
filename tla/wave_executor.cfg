SPECIFICATION Spec
CONSTANTS
    a = a  b = b  c = c  d = d
    Task = {a, b, c, d}
    Plans <- MCPlans
    Panics = TRUE
CHECK_DEADLOCK FALSE
INVARIANTS
    TypeOK
    StartsAfterEarlierWaves
    ReportIsTruthful
PROPERTIES
    FinalMetaStays
    ImplementsTaskGraph
    CommandEnds
