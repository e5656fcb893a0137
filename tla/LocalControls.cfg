SPECIFICATION LocalSpec
CONSTANTS
  db = db  chat = chat
  Component = {db, chat}
  DatabaseTools = {db}
  Versions = 3
  Rules <- MCRules
  Garbled = {}
  Syncer = {1, 2}
  Host = {h1}
  h1 = h1
  HostSets = {1}
  Worker = {w1}
  w1 = w1
  Request <- MCRequest
  MaxBuilds = 3
  MaxCalls = 2
INVARIANT LocalTypeOK
INVARIANT VerdictIsStrongest
INVARIANT BudgetHeld
INVARIANT ReportHonest
PROPERTY Converges
CHECK_DEADLOCK FALSE
