\* One scheduler, three services, two of which share an encoder; faults and late clocks.
SPECIFICATION Spec
CONSTANTS
  Outputs <- MCThree
  ScheduledStart = 1
  ScheduledEnd = 3
  Offset <- MCOffset3
  Duration <- MCDuration3
  FollowsWindow = {2}
  PrepareLead = 1
  Preroll = 0
  Postroll = 0
  Grace = 0
  Slots = {1, 2, 3}
  MaxBroadcasts = 3
  Enabled <- MCEnabled3
  Plan <- MCPlan3
  Slot <- MCSlot3
  Devices = {1, 2}
  Device <- MCSharedEncoder
  MaxAttempts = 2
  Ticks = {t1}
  Operators = {}
  Presses = {}
  Forced = {FALSE, TRUE}
  MaxTime = 4
  MaxFaults = 2
  MaxCrashes = 0
  MaxEdits = 0
  MaxPresses = 0
INVARIANTS OnTarget StreamAccounted CompletedMeansAired ServiceKept NoLitter KeysGone
PROPERTY NotCutOff
