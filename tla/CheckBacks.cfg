SPECIFICATION Spec
CONSTANTS
    Jobs = {j, k}
    Limit = 1
    MaxRows = 2
    MaxStops = 2
    MaxLines = 2
    MaxLeaves = 1
    MaxCrashes = 1
INVARIANT TypeOK
INVARIANT OneStands
INVARIANT AsideUnderAStop
INVARIANT AgainOnlyIfGivenBack
PROPERTY SpentIsTold
 
CHECK_DEADLOCK FALSE
