\* One scheduler that crashes and comes back, with a fault and an edit, under fairness.
SPECIFICATION Spec
CONSTANTS
  Outputs <- MCOutputs
  ScheduledStart = 1
  ScheduledEnd = 3
  Offset <- MCOffset
  Duration <- MCDuration
  FollowsWindow = {2}
  PrepareLead = 1
  Preroll = 0
  Postroll = 0
  Grace = 1
  Slots = {1, 2}
  MaxBroadcasts = 3
  Enabled <- MCEnabledShift
  Plan <- MCPlanShift
  Slot <- MCSlot
  Devices = {1, 2}
  Device <- MCOwnEncoder
  MaxAttempts = 2
  Ticks = {t1}
  Operators = {}
  Presses = {}
  Forced = {FALSE, TRUE}
  MaxTime = 4
  MaxFaults = 1
  MaxCrashes = 1
  MaxEdits = 1
  MaxPresses = 0
INVARIANTS TypeOK OneBroadcast CallsMatchRows
PROPERTIES EventuallyOver StopIsTried
