SPECIFICATION Spec
CONSTANTS
  k1 = k1
  k2 = k2
  ip1 = ip1
  ip2 = ip2
  t1 = t1
  t2 = t2
  a1 = a1
  Ids = {k1, k2}
  NameOf <- MCNames
  Ips = {ip1, ip2}
  NoIp = NoIp
  NoId = NoId
  Lookups = {}
  Apis = {}
  Consumers = {Cleaner}
  Capacity = 1
  Signals = {"kill"}
  MaxChanges = 2
  MaxBreaks = 1
  Callers = {a1}
  Cleaner = Cleaner
  Tokens = {t1, t2}
  NoToken = NoToken
  Classes = {"permission"}
  LookupPermits = 1
  MaxSessions = 1
  Limit = 2
  Window = 1
  EvalPermits = 1
  MaxClock = 3
SYMMETRY Symmetry
INVARIANTS
  DeadSessionExplained
  RateHolds
  EvaluationsBounded
CHECK_DEADLOCK FALSE
