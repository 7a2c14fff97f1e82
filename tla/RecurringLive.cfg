\* Every due rule is executed: failures, updates, losses of access.
SPECIFICATION FairSpec
CONSTANTS
  r1 = r1
  r2 = r2
  p1 = p1
  p2 = p2
  c1 = c1
  NoRule = NoRule
  Gone = Gone
  Rules = {r1, r2}
  Schedulers = {p1}
  Clients = {}
  MaxTime = 1
  Horizon <- OneTick
  Intervals = {1}
  Ends <- OneEnd
  BatchSize = 1
  MaxUpdates = 1
PROPERTIES
  DueRulesRun
