\* Ticks that overrun, and the devices they keep connected.
SPECIFICATION LoopSpec
CONSTANTS
  Ticks = {1, 2, 3, 4}
  Deadline = 3
  Equipment = {e1}
  SaysSo = {}
  Rounds = {t1}
  Requests = {r1}
  Jobs = {"open", "invoke", "apply", "change", "delete"}
  MaxInstances = 3
  MaxConfigs = 2
  MaxWait = 2
  Polls = 1
  MaxTrouble = 2
CHECK_DEADLOCK FALSE
INVARIANTS NoLeak SettingsHold
PROPERTIES TakesTurns NextTickComes BackoffRespected Reconnects
