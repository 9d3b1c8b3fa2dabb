SPECIFICATION FairSpec
CONSTANTS
  g1 = g1
  g2 = g2
  g3 = g3
  f1 = f1
  f2 = f2
  f3 = f3
  None = None
  Guards <- FewGuards
  DefaultGuard = g1
  Feeds <- MCFeeds
  Events <- FewEvents
  FirstHead = 2
  MaxLedger = 3
  MaxRounds = 1
  MaxLate = 1
  Retention = 2
  History = 1
  Limit = 1
  Width = 2
  GapLimit = 1
  Cap = 2
PROPERTY WatchedIsPolled
