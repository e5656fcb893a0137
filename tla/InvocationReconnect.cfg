SPECIFICATION SpecBoth
CONSTANTS
  r1 = r1  r2 = r2
  s1 = s1  s2 = s2
  i1 = i1  i2 = i2
  Request = {r1, r2}
  RequestId = {i1, i2}
  Session = {s1, s2}
  IdOf <- MCIdOf
  SessionOf <- TurnSessionOf
  DeadlineOf <- MCDeadline
  PlanRequests = {}
  Unauthorized = {}
  SimAttached = TRUE
  MaxConcurrent = 1
  ReplayWindow = 2
  LeaseDuration = 1
  LeaseSlack = 0
  RequestTimeout = 1
  AutoRenew = FALSE
  MaxOutput = 0
  MaxTime = 0
  MaxRenewals = 0
INVARIANT SessionsApart
VIEW WithoutRefusals
CHECK_DEADLOCK FALSE
