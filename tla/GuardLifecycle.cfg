SPECIFICATION GuardSpec
CONSTANTS
  c1 = c1  c2 = c2  r1 = r1
  gateway = gateway  blockA = blockA
  Caller = {c1, c2}
  Logger = {r1}
  MaxLogged = 1
  Unencodable = {1}
  Answer <- MCAnswer
  Modes = {gateway}
  Block = {blockA}
  NoBlock = NoBlock
  NoMode = NoMode
  MaxConnects = 1
  MaxPolls = 2
INVARIANT LifecycleTypeOK
INVARIANT MediaOnlyIfGranted
INVARIANT SimulationFollows
INVARIANT CloseIsFinal
PROPERTY CloseTerminates
CHECK_DEADLOCK FALSE
