SPECIFICATION FairSpec
CONSTANTS
  f1 = f1
  u1 = u1
  u2 = u2
  h1 = h1
  h2 = h2
  Files = {f1}
  Updaters = {u1, u2}
  Handlers = {h1, h2}
  NoTask = NoTask
  NoFile = NoFile
  MaxFaults = 2
  MaxEdits = 1
INVARIANTS
  GrantsFollowPolicy
PROPERTIES
  UpdatesReturn
  GrantsAreLive
