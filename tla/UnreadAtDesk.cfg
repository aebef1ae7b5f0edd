SPECIFICATION Spec
CONSTANTS
  b1 = b1
  p = p
  q = q
  p1 = p1
  Desk = Desk
  Bots = {b1}
  Plans = {p}
  Jobs = {p}
  Limit = 1
  MaxTurns = 2
  MaxItems = 2
  MaxMail = 3
  MaxLines = 3
  MaxHolds = 0
  MaxCrashes = 0
  PlanOf <- MCPlanOf
  Scopes <- NoStops
INVARIANTS
  UnreadIsTakenOver
CHECK_DEADLOCK FALSE
