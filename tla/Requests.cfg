SPECIFICATION RequestSpec
CONSTANTS
  r1 = r1
  r2 = r2
  u1 = u1
  u2 = u2
  h1 = h1
  a1 = a1
  Requests = {r1, r2}
  Agents = {a1}
  NoRequest = NoRequest
  MaxRequests = 1
  MaxOrphans = 1
  MaxSlips = 1
  Files = {r1, r2}
  Updaters = {u1, u2}
  Handlers = {h1}
  NoTask = NoTask
  NoFile = NoFile
  MaxFaults = 1
  MaxEdits = 0
SYMMETRY
  Symmetry
INVARIANTS
  RejectedNotInForce
  AcknowledgedDurable
  ApprovedInForce
PROPERTIES
  DecisionsFinal
  ImplementsPolicyReload
