SPECIFICATION Spec
CONSTANTS
    Items = {a, b}
    MaxAsks = 2
    MaxStops = 0
    MaxLines = 2
    MaxArchived = 0
INVARIANT NoMutualWait
CHECK_DEADLOCK FALSE
