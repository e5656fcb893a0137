SPECIFICATION Spec
CONSTANTS
  r1 = r1  r2 = r2  r3 = r3
  s1 = s1  s2 = s2
  i1 = i1  i2 = i2  i3 = i3
  Request = {r1, r2, r3}
  RequestId = {i1, i2}
  Session = {s1, s2}
  IdOf <- ReusedIdOf
  SessionOf <- MCSessionOf
  DeadlineOf <- MCDeadline
  PlanRequests = {}
  Unauthorized = {}
  SimAttached = FALSE
  MaxConcurrent = 2
  ReplayWindow = 1
  LeaseDuration = 4
  LeaseSlack = 0
  RequestTimeout = 2
  AutoRenew = FALSE
  MaxOutput = 0
  MaxTime = 3
  MaxRenewals = 0
INVARIANT AtMostOnce
VIEW WithoutRefusals
CHECK_DEADLOCK FALSE
