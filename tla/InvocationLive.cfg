SPECIFICATION FairSpec
CONSTANTS
  r1 = r1  r2 = r2  r3 = r3
  s1 = s1  s2 = s2
  i1 = i1  i2 = i2  i3 = i3
  Request = {r1, r3}
  RequestId = {i1, i3}
  Session = {s1, s2}
  IdOf <- PairIdOf
  SessionOf <- PairSessionOf
  DeadlineOf <- PairDeadline
  PlanRequests = {}
  Unauthorized = {}
  SimAttached = FALSE
  MaxConcurrent = 1
  ReplayWindow = 4
  LeaseDuration = 2
  LeaseSlack = 0
  RequestTimeout = 2
  AutoRenew = TRUE
  MaxOutput = 1
  MaxTime = 2
  MaxRenewals = 2
INVARIANT LeaseBounded
PROPERTY ExpiredStaysExpired
PROPERTY NoDeltaAfterAnswer
PROPERTY CancelEndsConnection
PROPERTY RenewalResolved
PROPERTY ReturnedIsResolved
VIEW WithoutRefusals
CHECK_DEADLOCK FALSE
