SPECIFICATION Spec
CONSTANTS
  r1 = r1  r2 = r2  r3 = r3
  s1 = s1  s2 = s2
  i1 = i1  i2 = i2  i3 = i3
  Request = {r1, r2, r3}
  RequestId = {i1, i2, i3}
  Session = {s1, s2}
  IdOf <- MCIdOf
  SessionOf <- MCSessionOf
  DeadlineOf <- MCDeadline
  PlanRequests = {r3}
  Unauthorized = {}
  SimAttached = TRUE
  MaxConcurrent = 2
  ReplayWindow = 2
  LeaseDuration = 3
  LeaseSlack = 0
  RequestTimeout = 1
  AutoRenew = FALSE
  MaxOutput = 0
  MaxTime = 3
  MaxRenewals = 0
INVARIANT TypeOK
INVARIANT AtMostOnce
INVARIANT SlotsMatchWork
PROPERTY CancelledNeverCompletes
PROPERTY ImplementsService
CHECK_DEADLOCK FALSE
