\* What the database keeps, with those who write it, and the pure functions: each part by itself.
SPECIFICATION RecordsSpec
CONSTANTS
  MaxDay = 4
  Horizon = 2
  Lead = 1
  Length = 1
  Services = {"s1", "s2"}
  Askers = {a1}
  MaxChanges = 2
  Footage = {1, 2}
  Tails = {0, 1}
  Titles = {t1}
  Told = TRUE
  KeepLast = 1
  KeepFor = 0
  Ttl = 0
  Sweeps = {hourly, asked}
  MaxTime = 1
  MaxMeddling = 1
  Devices = {"d1", "d2"}
  Recorders = {"d2"}
  Sinks = {"k1"}
  Events = {"e1"}
  Outs = {o1}
  Hands = {h1, h2}
  MaxEdits = 2
  Channels = {c1}
  Clients = {k1}
  Flows = {f1}
  Opened = {p1, p2}
  MaxTokens = 4
  MaxIds = 2
  MaxTrouble = 1
  SessionTokens = {1, 2}
  Addresses = {n1}
  Browsers = {b1, b2}
  FreeAttempts = 1
  MaxDelay = 2
  ForgetAfter = 2
  SessionTtl = 2
  MaxSet = 1
  MaxClock = 3
  Keys = {"key"}
  MaxWork = 1
  Keep = 1
  MaxCopies = 2
  DiskFills = TRUE
  MaxKills = 1
  KillPoints = {"up", "manifest", "aside", "drop", "swap", "clear", "key"}
  Ahead = {1, 2}
  LeadHours = 2
  Percents = {1, 2}
  LastHour = 1
  MaxUpsets = 3
  DayLength = 2
  LastWall = 6
  Shifts = {0, 1}
  Spare = 2
  PlanCount = 3
  Cap = 2
  TypeCount = 3
  FolderCount = 2
  PageSize = 2
  PageLimit = 4
  PastedTokens = 2
  Odd = FALSE
  MaxPlanned = 2
INVARIANTS RecordsTypeOK NothingDangles AccessHolds
PROPERTIES OperatorsWordStands  SweepsAreSafe  DatabaseSurvives
CHECK_DEADLOCK FALSE
