SPECIFICATION Spec
CONSTANTS
    Items = {a, b}
    MaxAsks = 2
    MaxStops = 1
    MaxLines = 1
    MaxArchived = 1
INVARIANT TypeOK
INVARIANT SettledTogether
INVARIANT WaitingHasItsWait
PROPERTY AnsweredOnce
CHECK_DEADLOCK FALSE
