SPECIFICATION Spec
CONSTANTS
    a = a  b = b  x = x  k = k
    Task = {a, b}
    Client = {k}
    Plans <- MCPlans
    Capacity = 2
    Panics = TRUE
CHECK_DEADLOCK FALSE
INVARIANT PanicMarkedFailed
