SPECIFICATION Spec
CONSTANTS
  Parts = {"talk", "panic", "approvals", "envelopes", "move", "status", "bytecode",
           "storage", "funds", "replay", "wallets", "events",
           "access"}
  Nil = Nil
  x = x
  y = y
  z = z
  p = p
  q = q
  HeardGuards = {"g"}
  Refusals = {"r1", "r2"}
  QueueCap = 2
  PanicGuards = {"g", "h"}
  MaxReads = 2
  MaxWrites = 1
  MoveGuards = {"g", "h"}
  SourcePolicies <- Installed
  Network = "testnet"
  Keys = {x, y, z}
  Alike = {x, z}
  Rules <- AccountRules
  Pasted <- Envelopes
  Copies <- SignedCopies
  Lone = {x}
  Fit = {p}
  Payers = {x, y}
  XbullBuilds = {{}, {"getPublicKey", "getNetwork"}, {"getPublicKey", "signAuthEntry"}}
  Networks <- WalletNetworks
  Target = "test"
  KnownNames <- NetworkNames
  Graces = {3}
  WarningOf = 1
  CriticalOf = 2
  Soon = 1
  MaxAge = 1
  MaxRead = 1
  MaxTime = 3
  MaxBeats = 1
  NotRead = NotRead
  Entries = 1
  Upgrades = 1
  HeldGuards = {"g", "h"}
  DataKeys = {"p"}
  Lives = {0, 99}
  MaxLoads = 2
  FaucetLimit = 1
  MaxRounds = 2
  RowLimit = 3
  SimGrace = 2
  Horizon = 1
  MaxClock = 4
  MaxAsks = 1
  Window = 4
  Bucket = 2
  All = All
  MaxRequests = 3
  Retries = 2
  BaseDelay = 1
  Ceiling = 2
  HintCeiling = 2
  MaxNow = 4
  MaxFlights = 2
  MaxProbes = 2
INVARIANTS
  ScreenTypes
  SignedAsChecked
PROPERTIES
  SaidAsRead
CHECK_DEADLOCK FALSE
