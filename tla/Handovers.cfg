SPECIFICATION Spec
CONSTANTS
    Tickets = {t1}
    MaxSubs = 2
    MaxComplaints = 1
    MaxEdits = 1
INVARIANTS TypeOK TakenUp
PROPERTIES ImplementsHandOver WordsWaitOnYou DeliveredIsKept DroppedStays StaysSentBack YourWordCounts
CHECK_DEADLOCK FALSE
