SPECIFICATION Spec
CONSTANTS
  g1 = g1
  g2 = g2
  g3 = g3
  f1 = f1
  f2 = f2
  f3 = f3
  None = None
  Guards <- MCGuards
  DefaultGuard = g1
  Feeds <- MCFeeds
  Events <- MCEvents
  FirstHead = 2
  MaxLedger = 4
  MaxRounds = 2
  MaxLate = 0
  Retention = 1
  History = 1
  Limit = 1
  Width = 2
  GapLimit = 1
  Cap = 2
CONSTRAINT MCBounds
SYMMETRY MCSymmetry
INVARIANT TypeOK
INVARIANT NoSilentLoss
INVARIANT OwnCursor
