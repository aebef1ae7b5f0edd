SPECIFICATION Spec
CONSTANTS
  b1 = b1
  p = p
  q = q
  p1 = p1
  Desk = Desk
  Bots = {b1}
  Plans = {p}
  Jobs = {p, p1}
  Limit = 2
  MaxTurns = 2
  MaxItems = 2
  MaxMail = 2
  MaxLines = 2
  MaxHolds = 2
  MaxCrashes = 1
  PlanOf <- MCPlanOf
  Scopes <- DeskAndCap
INVARIANT OneLivePerPlan
INVARIANT LeaseHeld
INVARIANT HeldMeansCovered
INVARIANT RunningIsRun
CHECK_DEADLOCK FALSE
