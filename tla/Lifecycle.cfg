SPECIFICATION LifeSpec
CONSTANTS
  k1 = k1
  k2 = k2
  n1 = n1
  n2 = n2
  ip1 = ip1
  web = web
  a1 = a1
  Ids = {k1, k2}
  NameOf <- MCTwoNames
  Ips = {ip1}
  NoIp = NoIp
  NoId = NoId
  Lookups = {i1}
  Apis = {a1}
  Consumers = {EventTask}
  Capacity = 1
  Signals = {"kill"}
  MaxChanges = 3
  MaxBreaks = 1
  Containers = {n1, n2}
  SrcIps = {ip1}
  Flows = {web}
  Requests <- MCRequests
  Inserters = {i1}
  Flushers = {}
  EventTask = EventTask
  ExpiryTask = ExpiryTask
  NoTask = NoTask
  NoRequest = NoRequest
  NoJob = NoJob
  NoContainer = NoContainer
  LookupError = LookupError
  NoDeadline = NoDeadline
  MaxTtl = 1
  MaxRules = 2
  MaxTime = 0
  MaxHandle = 2
  MaxFaults = 0
  MaxRebuilds = 0
INVARIANTS
  DeadRuleExplained
CHECK_DEADLOCK FALSE
