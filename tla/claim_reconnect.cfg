\* A device whose adapter answers health() with "disconnected", as every adapter here does.
SPECIFICATION ConnSpec
CONSTANTS
  Equipment = {e1}
  SaysSo = {e1}
  Rounds = {t1}
  Requests = {r1}
  Jobs = {"open"}
  MaxInstances = 2
  MaxConfigs = 1
  MaxWait = 1
  Polls = 0
  MaxTrouble = 1
CHECK_DEADLOCK FALSE
PROPERTY EventuallyConnected
