SPECIFICATION FairSpec
CONSTANTS
  b1 = b1
  p = p
  q = q
  p1 = p1
  Desk = Desk
  Bots = {b1}
  Plans = {p}
  Jobs = {p, p1}
  Limit = 1
  MaxTurns = 3
  MaxItems = 3
  MaxMail = 2
  MaxLines = 2
  MaxHolds = 0
  MaxCrashes = 0
  PlanOf <- MCPlanOf
  Scopes <- NoStops
PROPERTIES
  WaitingMailIsTaken
CHECK_DEADLOCK FALSE
