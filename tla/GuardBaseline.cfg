SPECIFICATION GuardSpec
CONSTANTS
  p1 = p1  p2 = p2  q1 = q1
  runA = runA  runB = runB
  Config = {p1, p2, q1}
  NoConfig = NoConfig
  Run = {runA, runB}
  RunOf <- MCRunOf
  CredOf <- MCCredOf
  Baseline = {p2}
  Telemetry = {p1, q1}
  Attack = {}
  Hooked = {p1}
  Worker = {w1}
  MaxInjections = 0
  MaxOpen = 2
  Request <- MCRequest
INVARIANT RemoteNeverUnprotected
CHECK_DEADLOCK FALSE
