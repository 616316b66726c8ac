SPECIFICATION Spec
CONSTANTS
    a = a  b = b  x = x  k = k
    Task = {a, b, x}
    Client = {k}
    Plans <- MCPlans
    Capacity = 2
    Panics = TRUE
CHECK_DEADLOCK FALSE
INVARIANTS
    TypeOK
    StartsAfterDone
    DoneMeansAllDone
    VerdictMeansSettled
    AcceptedSetsAgree
    DepsAcceptedFirst
    NeverStuck
PROPERTIES
    FinalMetaStays
    ImplementsTaskGraph
