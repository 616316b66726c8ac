SPECIFICATION FairSpec
CONSTANTS
    r1 = r1  r2 = r2  a = a  b = b
    Run = {r1, r2}
    Task = {a, b}
    None = None
    MaxMishaps = 1
CHECK_DEADLOCK FALSE
INVARIANTS
    TypeOK
    RunIsRegistered
    RunningMeansOwned
    StatusIsTruthful
PROPERTY StartedRunEnds
