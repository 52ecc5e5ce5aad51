SPECIFICATION FairSpec
CONSTANTS
  c1 = c1
  c2 = c2
  ip1 = ip1
  ip2 = ip2
  web = web
  ssh = ssh
  i1 = i1
  i2 = i2
  f1 = f1
  Containers = {c1, c2}
  SrcIps = {ip1, ip2}
  Flows = {web, ssh}
  Requests <- MCOneContainer
  Inserters = {i1}
  Flushers = {f1}
  EventTask = EventTask
  ExpiryTask = ExpiryTask
  NoTask = NoTask
  NoRequest = NoRequest
  NoJob = NoJob
  NoContainer = NoContainer
  LookupError = LookupError
  NoDeadline = NoDeadline
  MaxTtl = 2
  MaxRules = 2
  MaxTime = 1
  MaxHandle = 2
  MaxFaults = 2
  MaxRebuilds = 0
PROPERTIES
  ExpiredRulesLeave
