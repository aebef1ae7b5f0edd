SPECIFICATION Spec
CONSTANTS
  b1 = b1
  p = p
  q = q
  p1 = p1
  Desk = Desk
  Bots = {b1}
  Plans = {p, q}
  Jobs = {p, q}
  Limit = 1
  MaxTurns = 2
  MaxItems = 2
  MaxMail = 2
  MaxLines = 2
  MaxHolds = 2
  MaxCrashes = 0
  PlanOf <- MCPlanOf
  Scopes <- ButtonAndCap
INVARIANTS
  TypeOK
  StopsHold
  OneWayBack
  WithinLimit
PROPERTIES
  RoutedLineLands
CHECK_DEADLOCK FALSE
