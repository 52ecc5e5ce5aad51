SPECIFICATION Spec
CONSTANTS
  Runs = {r1, r2}
  Tokens = {r1, r2}
  Brokers = {b1, b2}
  Conns = {c1}
  Resources = {t1}
  Ports = {p1, p2}
  NoToken = NoToken
  NoBroker = NoBroker
  NoId = NoId
  NoPort = NoPort
  Limit = 1
  Attempts = 2
  MaxUpsets = 1
  Apart = TRUE
  Asks <- MCAsks
  Options <- MCOptions
  HostedOptions <- MCHostedOptions
  NoRun = NoRun
  MaxVersion = 2
  MaxNames = 2
  t1 = t1
  r1 = r1
  r2 = r2
INVARIANTS
  GuardedBrokers
  TokenShared
  PermitsExact
PROPERTIES
  ReadyIsReachable
  CacheHitCurrent
  WorkersReturn
CHECK_DEADLOCK FALSE
