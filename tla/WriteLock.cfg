\* Two tabs, one guard and action, two writes alive at once.
SPECIFICATION FairLockSpec
CONSTANTS
  Nobody = Nobody
  Tabs = {tA, tB}
  Guards = {g1}
  Actions = {freeze}
  Watcher = tB
  Watched = w1
  Owners = {w1, w2}
  TTL = 2
INVARIANT LockTypeOK
INVARIANT NoOrphanClaim
PROPERTY ForeignClaimKept
PROPERTY PendingShown
PROPERTY PendingClears
