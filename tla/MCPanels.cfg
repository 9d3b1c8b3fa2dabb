SPECIFICATION Spec
CONSTANTS
  Parts = {"deploy", "wallet", "webhooks", "buffer"}
  None = None
  Accounts = {x, y}
  Salts = {s1, s2}
  MaxAttempts = 2
  MaxMoves = 2
  Tabs = {t1, t2}
  Providers = {freighter, albedo}
  Switches = {freighter}
  Timeout = 2
  MaxActs = 4
  Conditions = {freeze, dms}
  Interval = 2
  MaxClock = 4
  MaxFlights = 2
  Events = {e1, e2, e3, e4}
  Limit = 2
  Memory = 3
  MaxBatch = 2
INVARIANT PanelTypes
INVARIANT DeployTold
INVARIANT NothingIsDoneTwice
INVARIANT SessionIsWhole
INVARIANT OnsetTold
INVARIANT PauseLosesNothing
INVARIANT RowChimesOnce
PROPERTY LocksAtLast
CHECK_DEADLOCK FALSE
