SPECIFICATION Spec
CONSTANTS
    Items = {a, b}
    MaxAsks = 1
    MaxStops = 1
    MaxLines = 2
    MaxArchived = 1
PROPERTY MailIsRead
PROPERTY BrokenWaitIsLeft
CHECK_DEADLOCK FALSE
