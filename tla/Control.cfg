SPECIFICATION ControlSpec
CONSTANTS
  n1 = n1
  n2 = n2
  c1 = c1
  c2 = c2
  h1 = h1
  h2 = h2
  ApiCalls = {h1, h2}
  NoCall = NoCall
  Nets = {n1, n2}
  Default = n1
  Ctrs = {c1}
  Blocks = 4
  Explicit <- Wide
  Foreign <- Half
  Unit = 2
  MaxJobs = 4
  MaxGivenUp = 1
SYMMETRY Symmetry
INVARIANTS
  NothingWithoutBridge
  FailureUndone
  SubnetsDisjoint
  PolicyBehindContainers
CHECK_DEADLOCK FALSE
