--------------------------- MODULE RunProperties ---------------------------
(***************************************************************************)
(* What a run promises, stated over RunEngine.                             *)
(***************************************************************************)
EXTENDS RunEngine

\* Every variable stays in its range.
TypeOK ==
  /\ now \in 0..MaxTime
  /\ run \in RunState
  /\ forced \in BOOLEAN
  /\ occ \in {"running", "done", "failed", "cancelled"}
  /\ row \in [Seqs -> StepState]
  /\ ext \in [Seqs -> BroadcastId]
  /\ told \subseteq Outputs \cup {0}
  /\ version \in Versions
  /\ boot \in {"up", "recovering"}
  /\ drv \in [Drivers -> DriverState]
  /\ channel \in ChannelType
  /\ encoder \in [Devices -> [active : BOOLEAN, target : BroadcastId]]
  /\ vault \subseteq Outputs
  /\ left \in [faults : 0..MaxFaults, crashes : 0..MaxCrashes, edits : 0..MaxEdits,
               presses : 0..MaxPresses]

AllIdle == \A d \in Drivers : Is(d, "idle")

\* The run has ended and no call chain works on it any more.
Finished == ~Active /\ AllIdle /\ boot = "up"

RowOf(o, kind) == {s \in Seqs : Committed[s].output = o /\ Committed[s].kind = kind}
RowFailed(o, kind) == \E s \in RowOf(o, kind) : row[s] = "failed"

RowDone(o, kind) == \E s \in RowOf(o, kind) : row[s] = "done"

\* Its encoder was started, and the program knows it.
WentOnAir(o) == RowDone(o, "startStreaming")

\* Started, and nothing has begun to stop it.
OnAir(o) == WentOnAir(o) /\ \A s \in RowOf(o, "stopStreaming") : row[s] = "pending"

BroadcastsOf(o) == {b \in Broadcast : channel[b].slot = Slot[o]}

-----------------------------------------------------------------------------
(* Safety *)

\* There is never a second broadcast for one service on the channel, whatever
\* answers are lost and whenever the program crashes (executor.ts reconcileRun,
\* docs/plan/03-scheduling-engine.md "Idempotency and crash recovery").
OneBroadcast ==
  \A b, c \in Broadcast :
    /\ channel[b].state \in OnChannel /\ channel[c].state \in OnChannel
    /\ channel[b].slot = channel[c].slot
    => b = c

\* Whatever is upcoming on the channel has a step row that admits to it: the
\* row was committed before the call (executor.ts executeSteps), so no crash can
\* leave a broadcast the database has never heard of.
NoOrphan ==
  \A b \in Broadcast : channel[b].state = "upcoming" =>
    \E s \in Seqs : /\ Committed[s].kind = "prepare"
                    /\ Slot[Committed[s].output] = channel[b].slot
                    /\ row[s] # "pending"

\* The occurrence never reports an end that its run has not come to (engine.ts
\* writes the run first, in complete, fail and cancel).
SettledAgrees ==
  /\ occ = "done" => run = "completed"
  /\ occ = "failed" => run = "failed"
  /\ occ = "cancelled" => run = "cancelled"

\* A run that finished by itself has left no stream running that no step row
\* accounts for as failed.
StreamAccounted ==
  Finished => \A o \in Outputs : encoder[Device[o]].active =>
    \E p \in Outputs : /\ Device[p] = Device[o]
                       /\ RowFailed(p, "startStreaming") \/ RowFailed(p, "stopStreaming")

\* "Completed" means that something was delivered: the broadcast of some output
\* went out and its encoder was stopped (engine.ts complete, nothing_aired).
CompletedMeansAired ==
  run = "completed" =>
    \E o \in Outputs :
      /\ \E s \in RowOf(o, "stopStreaming") : row[s] = "done"
      /\ RowOf(o, "prepare") # {} =>
           \E b \in BroadcastsOf(o) : channel[b].state \in Aired

\* One output's failure takes down no other: as long as the run itself is not
\* being failed, an output that went on air keeps its broadcast, even when its
\* encoder would not stop (engine.ts failOutput, onAir; compensateOutput).
ServiceKept ==
  (run # "failed" /\ \A d \in Drivers : drv[d].why # "failed") =>
    \A o \in Outputs : WentOnAir(o) =>
      \A b \in BroadcastsOf(o) : channel[b].state # "erased"

\* For as long as the rows say that a service is on air, its encoder points at
\* the service's own broadcast, although an encoder holds one target and is
\* handed over from service to service (event-planner.ts, retargeting at the
\* output's own start; engine.ts, stops before starts).
OnTarget ==
  \A o \in Outputs : OnAir(o) => encoder[Device[o]].target = PreparedId(o)

\* When nothing outside failed, a finished run leaves no broadcast behind that
\* never aired: what was prepared and then missed is litter, and is discarded
\* (engine.ts markMissed, fail).
NoLitter ==
  Finished /\ left.faults = MaxFaults =>
    \A b \in Broadcast : channel[b].state # "upcoming"

\* A finished run leaves no stream key in the vault (event-planner.ts compensate
\* and finalize), whatever failed on the way.
KeysGone == Finished /\ run # "cancelled" => vault = {}

\* An edit of the event never turns one step into another: whatever call the
\* scheduler has in flight is the call of the step that its row was committed
\* for (engine.ts planDrift: "stop the 9:00 service" would be executed against
\* the row recording the recorder).
CallsMatchRows ==
  \A d \in Drivers : Is(d, "call") =>
    /\ StepOf(d).kind = Committed[drv[d].seq].kind
    /\ StepOf(d).output = Committed[drv[d].seq].output

-----------------------------------------------------------------------------
(* Steps *)

\* A run that has ended stays ended, whoever still works on it.
TerminalIsFinal == [][~Active => run' = run]_vars

\* An output on air is stopped by its own stop step only: an encoder handed
\* over from one output to the next is not stopped under the next one.
NotCutOff ==
  [][\A o \in Outputs :
       /\ Progress(1, o) = "started"
       /\ encoder[Device[o]].active /\ ~encoder'[Device[o]].active
       => \E s \in RowOf(o, "stopStreaming") : row[s] = "running"]_vars

\* The scheduler's ticks take turns as app.ts's guard promises (TickGuard shows
\* that the guard does), across restarts and whatever the operator presses.
Turns == INSTANCE TickTurns WITH
  turn <- [t \in Ticks |-> IF Is(t, "idle") THEN "idle"
                          ELSE IF drv[t].late THEN "late" ELSE "going"]
TicksTakeTurns == Turns!Spec

-----------------------------------------------------------------------------
(* Liveness *)

\* Whatever fails and whenever it restarts, the run comes to an end, and is not
\* driven for ever.
EventuallyOver == <>[](~Active /\ AllIdle)

\* No encoder is forgotten: whatever went on air is eventually told to stop,
\* across restarts and the failures of other outputs, unless the event was
\* edited meanwhile (engine.ts planDrift then leaves it to the operator).
StopIsTried == \A o \in Outputs : OnAir(o) ~> ~OnAir(o) \/ version = 2
=============================================================================
