SPECIFICATION Spec
CONSTANTS
  Parts = {"history", "book", "form", "shell", "webhooks", "fleet", "records",
           "layout", "setup", "picks", "links",
           "channel", "toasts", "alerts", "caps", "labels"}
  Nil = Nil
  x = x
  y = y
  z = z
  HistTabs = {"t1", "t2"}
  Txs = {"x1", "x2", "x3"}
  Kept = 2
  MaxAge = 0
  MaxDay = 1
  DialogTabs = {"t1"}
  Addresses = {x, y, z}
  Names = {"name"}
  Files <- Backups
  Capacity = 2
  FormGuards = {"g", "h"}
  Depth = 2
  MaxEdits = 1
  Pages = {"t1", "t2"}
  MaxBuild = 2
  Risks = {"draft"}
  AlertTypes = {"freeze", "blocks"}
  MaxBlocks = 2
  Registrable = {x, y}
  Seeded <- BuiltIn
  Reports <- Told
  Room = 1
  MaxPolls = 2
  NoCountdown = NoCountdown
  StoreKeys = {"tx", "theme", "legacy", "webhooks"}
  MaxItems = 2
  GridPages = {"p", "q"}
  MaxNamed = 2
  MaxChanges = 2
  SetupGuards = {"g", "h"}
  MaxAsked = 2
  Every = Every
  MaxVisits = 3
  Remembered = 1
  MaxSaid = 2
  MaxFaults = 2
  Visible = 2
  MaxToasts = 5
  MaxClicks = 6
  TooMuch = 9
  MaxSteps = 3
  MaxFetches = 2
  MaxNow = 2
  TTL = 1
INVARIANTS
  RecordTypes
  ScreensAgree
PROPERTIES
  RecordsOutlive
CHECK_DEADLOCK FALSE
