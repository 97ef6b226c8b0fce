\* A tick given up on, the next one, and an operator.
SPECIFICATION Spec
CONSTANTS
  Outputs <- MCSingle
  ScheduledStart = 1
  ScheduledEnd = 2
  Offset <- MCOffset1
  Duration <- MCDuration1
  FollowsWindow = {}
  PrepareLead = 1
  Preroll = 0
  Postroll = 0
  Grace = 0
  Slots = {1}
  MaxBroadcasts = 3
  Enabled <- MCEnabled1
  Plan <- MCPlan1
  Slot <- MCSlot1
  Devices = {1}
  Device <- MCDevice1
  MaxAttempts = 2
  Ticks = {t1, t2}
  Operators = {p1}
  Presses = {"cancel", "prepareNow", "startNow"}
  Forced = {FALSE}
  MaxTime = 2
  MaxFaults = 0
  MaxCrashes = 0
  MaxEdits = 0
  MaxPresses = 1
CONSTRAINT MCTwoAdvance
SYMMETRY MCTickSymmetry
INVARIANTS SettledAgrees NoOrphan
PROPERTIES TerminalIsFinal 
