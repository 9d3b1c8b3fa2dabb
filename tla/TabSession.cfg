\* One tab, two guards, one field per snapshot, two reads in flight.
SPECIFICATION SessionFairSpec
CONSTANTS
  None = None
  Tabs = {tab}
  Guards = {gA, gB}
  Fields = {status}
  Slots = {r1, r2}
  DefaultGuard = gA
  MaxVersion = 1
  MaxEpoch = 2
INVARIANT SessionTypeOK
PROPERTY PaintHeals
PROPERTY ShowsWhileTimed
