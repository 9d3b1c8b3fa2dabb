SPECIFICATION SessionSpec
CONSTANTS
  None = None
  Tabs = {tab}
  Guards = {gA, gB}
  Fields = {status}
  Slots = {r1, r2}
  DefaultGuard = gA
  MaxVersion = 1
  MaxEpoch = 1
INVARIANT SnapshotForSelectedGuard
