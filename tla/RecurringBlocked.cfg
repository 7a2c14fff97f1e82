\* A due rule behind one that cannot be executed.
SPECIFICATION FairSpec
CONSTANTS
  r1 = r1
  r2 = r2
  p1 = p1
  p2 = p2
  c1 = c1
  NoRule = NoRule
  Gone = Gone
  Rules = {r1, r2}
  Schedulers = {p1}
  Clients = {}
  MaxTime = 1
  Horizon <- OneTick
  Intervals = {1}
  Ends <- Forever
  BatchSize = 2
  MaxUpdates = 0
PROPERTIES
  ExecutableRulesRun
