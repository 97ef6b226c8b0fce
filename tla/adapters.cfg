\* The adapters and services, each with its device or channel, and the browser: each by itself.
SPECIFICATION AdaptersSpec
CONSTANTS
  Destinations = {d1, d2}
  MaxFailures = 1
  MaxFiles = 2
  MaxAsked = 4
  Urls = {u1, u2}
  Users = {x1, x2}
  Reports = TRUE
  SaveLocal = TRUE
  MaxPointed = 3
  Slots = {s1}
  Codecs = {h264, prores}
  DeckCalls = {c1, c2}
  MaxCalls = 2
  EncoderKinds = {"atem", "encoder", "vmix", "mock"}
  Faults = {"none", "ignores-writes", "slow-to-settle", "flaky"}
  Targets = {u1, u2}
  Callers = {x1, x2}
  Reads = 2
  SlowReads = 1
  EncCalls = 5
  EncTrouble = 2
  Runs = {r1, r2}
  Limit = 12
  Reserve = 5
  Reusable = TRUE
  Playlist = TRUE
  AutoStop = FALSE
  MaxMade = 2
  MaxDays = 1
  MaxMishaps = 2
  LastVersion = 1
  MaxSockets = 2
  MaxPending = 2
  MaxBreaks = 2
  Hasty = FALSE
  LastTime = 2
  OutputCount = 2
  MaxLost = 2
  Patient = TRUE
  Editors = {w1, w2}
  MaxWords = 2
  Airings = {"s1", "s2"}
  MaxTitle = 2
  MaxOwner = 1
CHECK_DEADLOCK FALSE
INVARIANTS AdaptersTypeOK   BroadcastReady
PROPERTIES CallsComeBack BrowsersKeepFaith
