\* One tab, two guards, two of the snapshot's fields, two reads in flight.
SPECIFICATION FairSpec
CONSTANTS
  None = None
  Tabs = {tab}
  Guards = {gA, gB}
  Fields = {status, policy}
  Slots = {s1, s2}
  DefaultGuard = gA
  MaxVersion = 1
  MaxEpoch = 2
INVARIANT TypeOK
INVARIANT SnapshotForSelectedGuard
INVARIANT RetryAccounted
PROPERTY ChangeShows
