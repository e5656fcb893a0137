SPECIFICATION Spec
CONSTANTS
  a1 = a1  a2 = a2  a3 = a3  b1 = b1
  runA = runA  runB = runB
  Config = {a1, a2, a3, b1}
  NoConfig = NoConfig
  Run = {runA, runB}
  RunOf <- MCRunOf
  CredOf <- MCCredOf
  Baseline = {a3}
  Telemetry = {a1, a2, b1}
  Attack = {a2, b1}
  Hooked = {a1}
  Worker = {w1}
  MaxInjections = 1
  MaxOpen = 3
INVARIANT TypeOK
INVARIANT InjectorOfRun
INVARIANT InjectorFresh
INVARIANT EventsOnOwnRun
INVARIANT NothingLeaks
CHECK_DEADLOCK FALSE
