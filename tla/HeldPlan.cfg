SPECIFICATION Spec
CONSTANTS
    Plans = {p, q}
    Conv = Conv
    MaxStops = 2
INVARIANT StaysParked
CHECK_DEADLOCK FALSE
