\* A copy of a database that was restored from one, on a disk that is never full.
SPECIFICATION BackupSpec
CONSTANTS
  MaxWork = 1
  Keep = 1
  MaxCopies = 2
  DiskFills = FALSE
  MaxKills = 0
  KillPoints = {}
INVARIANT CopyCanBeTaken
CHECK_DEADLOCK FALSE
