SPECIFICATION Spec
CONSTANTS
    Jobs = {p, d}
    Desks = {d}
    MaxTurns = 3
    MaxRuns = 3
INVARIANT TypeOK
INVARIANT GoesOnOnce
INVARIANT ToldOfItsOwnEnd
INVARIANT CutIsTold
INVARIANT DrainedIsQuiet
PROPERTY CutGoesOn
CHECK_DEADLOCK FALSE
