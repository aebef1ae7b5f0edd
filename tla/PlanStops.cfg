SPECIFICATION Spec
CONSTANTS
    Plans = {p, q}
    Conv = Conv
    MaxStops = 2
INVARIANT TypeOK
INVARIANT OneKeeps
INVARIANT ParkedUnderAStop
PROPERTY OnlyWritesMoveIt
CHECK_DEADLOCK FALSE
