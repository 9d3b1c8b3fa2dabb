SPECIFICATION Spec
CONSTANTS
  t1 = t1
  t2 = t2
  d = d
  a = a
  b = b
  l = l
  None = None
  Tabs <- MCTabs
  Hands <- MCHands
  Guards <- MCGuards
  Links <- MCLinks
  Known <- MCKnown
  MaxActs = 4
  Prompt = TRUE
INVARIANT TypeOK
INVARIANT FollowsSelection
INVARIANT RegistryAgrees
INVARIANT RemovedIsLeft
CHECK_DEADLOCK FALSE
