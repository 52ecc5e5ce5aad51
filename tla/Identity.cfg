SPECIFICATION IdFairSpec
CONSTANTS
  k1 = k1
  k2 = k2
  n1 = n1
  ip1 = ip1
  ip2 = ip2
  Ids = {k1, k2}
  NameOf <- MCOneName
  Ips = {ip1, ip2}
  NoIp = NoIp
  NoId = NoId
  Lookups = {l1}
  Apis = {a1}
  Consumers = {c1}
  Capacity = 1
  Signals = {"kill"}
  MaxChanges = 3
  MaxBreaks = 1
INVARIANTS
  StaleEntryExplained
PROPERTIES
  CacheConverges
CHECK_DEADLOCK FALSE
