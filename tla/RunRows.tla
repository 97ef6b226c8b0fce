------------------------------- MODULE RunRows -------------------------------
(***************************************************************************)
(* How the rows of a run, its state, the driver at work and the vault keep *)
(* in step while one scheduler drives a run whose event nobody edits: the  *)
(* inductive invariant behind the properties of RunProperties that are     *)
(* about services, and what it takes for granted of the plan.              *)
(***************************************************************************)
EXTENDS RunProperties

KindOf(s) == Committed[s].kind
OutputOf(s) == Committed[s].output
PhaseOf(s) == Committed[s].phase

\* The steps of each phase.
KindsIn ==
  [prepare |-> {"prepare"}, start |-> {"applyStreamTarget", "startStreaming"},
   stop |-> {"stopStreaming"}, complete |-> {"finalize"}]

\* Of one output's steps, those that come before a step of kind k.
Precede(k) ==
  CASE k = "applyStreamTarget" -> {"prepare"}
    [] k = "startStreaming" -> {"prepare", "applyStreamTarget"}
    [] OTHER -> {}

\* What event-planner.ts makes of every event: an output's encoder is pointed,
\* started and stopped by one step each, in that order; if it has a broadcast,
\* the broadcast is prepared before and finalized.
WellPlanned ==
  /\ \A s \in Seqs : OutputOf(s) \in Live(1) /\ KindOf(s) \in KindsIn[PhaseOf(s)]
  /\ \A s, t \in Seqs : KindOf(s) = KindOf(t) /\ OutputOf(s) = OutputOf(t) => s = t
  /\ \A o \in Live(1), k \in {"applyStreamTarget", "startStreaming", "stopStreaming"} :
       \E s \in Seqs : KindOf(s) = k /\ OutputOf(s) = o
  /\ \A s, t \in Seqs : OutputOf(s) = OutputOf(t) /\ KindOf(s) \in Precede(KindOf(t)) => s < t
  /\ \A s \in Seqs : KindOf(s) = "prepare" =>
       \E t \in Seqs : KindOf(t) = "finalize" /\ OutputOf(t) = OutputOf(s)

\* One tick at a time and no operator: nothing overlaps the driver at work.
Alone == Operators = {} /\ \A t, u \in Ticks : t = u

\* No two steps of the run create a broadcast with the same title and start.
SlotsOnce ==
  \A s, t \in Seqs :
    /\ KindOf(s) = "prepare" /\ KindOf(t) = "prepare"
    /\ Slot[OutputOf(s)] = Slot[OutputOf(t)]
    => s = t

-----------------------------------------------------------------------------
(* The driver at work *)

Made(s) == row[s] \in {"done", "compensated"}

InLoop(d) == drv[d].pc \in {"loop", "call", "failed"}
Undoing(d) == drv[d].pc \in {"undo", "undoing"}

\* Where the driver is goes with its job, and its job with the run's state.
JobFits(d) ==
  /\ drv[d].pc \in {"idle", "step"} => drv[d].job = "none"
  /\ drv[d].pc = "next" => drv[d].job = "prepare"
  /\ InLoop(d) => drv[d].job \in {"prepare", "start", "stop", "complete"}
  /\ Undoing(d) => drv[d].job \in {"none", "prepare", "start", "complete"} /\ Active
  /\ drv[d].pc # "settle" =>
       /\ drv[d].job = "prepare" => run = "preparing"
       /\ drv[d].job \in {"start", "stop"} => run \in {"ready", "running"}
       /\ drv[d].job = "complete" => run = "completing"
  /\ InLoop(d) /\ drv[d].job # "complete" => drv[d].out \in Live(1)
  /\ drv[d].queue \subseteq Live(1)

\* The rows that the driver's loop is about.
Selected(d, s) ==
  /\ PhaseOf(s) \in PhasesOf(drv[d].job)
  /\ drv[d].job = "complete" \/ OutputOf(s) = drv[d].out

\* The loop has left nothing behind that it was to do.
LoopFits(d) ==
  /\ Is(d, "call") => Selected(d, drv[d].seq)
  /\ Is(d, "loop") =>
       \A s \in Seqs : Selected(d, s) /\ s <= drv[d].seq => Made(s)
  /\ Is(d, "call") =>
       \A s \in Seqs : Selected(d, s) /\ s < drv[d].seq => Made(s)
  /\ Is(d, "failed") => \E s \in Seqs : Selected(d, s) /\ row[s] = "failed"
  /\ InLoop(d) /\ drv[d].job = "stop" =>
       \A s \in Seqs : OutputOf(s) = drv[d].out /\ PhaseOf(s) = "start" => row[s] = "done"
  /\ Is(d, "call") /\ KindOf(drv[d].seq) \in {"applyStreamTarget", "finalize"} =>
       drv[d].arg = PreparedId(OutputOf(drv[d].seq))

\* What is yet to be undone is done, and an undo for one output's sake is of
\* that output alone.
UndoFits(d) ==
  /\ Undoing(d) =>
       /\ drv[d].why \in {"output", "failed"}
       /\ \A s \in drv[d].todo : KindOf(s) = "prepare" /\ row[s] = "done"
  /\ Undoing(d) /\ drv[d].why = "output" =>
       /\ drv[d].job \in {"prepare", "start"} /\ drv[d].out \in Live(1)
       /\ \A s \in drv[d].todo : OutputOf(s) = drv[d].out
  /\ Is(d, "undoing") =>
       /\ drv[d].seq \in Seqs \ drv[d].todo
       /\ KindOf(drv[d].seq) = "prepare" /\ row[drv[d].seq] = "done"
       /\ drv[d].why = "output" => OutputOf(drv[d].seq) = drv[d].out

-----------------------------------------------------------------------------
(* The rows, the run and the vault *)

\* A row is running for the call in flight, or until recovery has seen to it.
RunningOwned ==
  \A s \in Seqs : row[s] = "running" =>
    \/ \E d \in Drivers : Is(d, "call") /\ drv[d].seq = s
    \/ MaxCrashes > 0 /\ (boot = "recovering" \/ ~Active)

\* An output's rows are done in the order of its plan.
RowOrder ==
  \A s, t \in Seqs : OutputOf(s) = OutputOf(t) =>
    /\ KindOf(s) \in Precede(KindOf(t)) /\ row[t] \in {"running", "done"} => Made(s)
    /\ KindOf(s) = "startStreaming" /\ KindOf(t) = "stopStreaming" /\ row[t] # "pending" =>
         row[s] = "done"

OnlyPreparesUndone == \A s \in Seqs : row[s] = "compensated" => KindOf(s) = "prepare"

\* The run is through with the output: it was stopped, or something of it failed.
Through(o) ==
  \E s \in Seqs : /\ OutputOf(s) = o
                  /\ \/ KindOf(s) = "stopStreaming" /\ row[s] = "done"
                     \/ KindOf(s) # "finalize" /\ row[s] = "failed"

\* What the state of the run says of its rows.
RunSays ==
  /\ \A s \in Seqs : PhaseOf(s) # "prepare" /\ row[s] # "pending" =>
       run \notin {"scheduled", "preparing"}
  /\ \A s \in Seqs : PhaseOf(s) = "complete" /\ row[s] # "pending" =>
       run \in {"completing"} \cup TerminalStates
  /\ run = "completing" =>
       /\ \A o \in Live(1) : Through(o)
       /\ \A s \in Seqs : row[s] = "running" => PhaseOf(s) = "complete"
  /\ run # "cancelled"

\* A stored key is of a prepared broadcast, goes before the broadcast does and
\* with its finalizing, and is gone when the run has ended.
VaultFits ==
  /\ \A o \in vault : \E s \in Seqs : KindOf(s) = "prepare" /\ OutputOf(s) = o /\ row[s] = "done"
  /\ \A d \in Drivers : Is(d, "undoing") => OutputOf(drv[d].seq) \notin vault
  /\ \A d \in Drivers : Undoing(d) /\ drv[d].why = "failed" =>
       \A o \in vault : \E s \in drv[d].todo : OutputOf(s) = o
  /\ \A s \in Seqs : KindOf(s) = "finalize" /\ row[s] = "done" => OutputOf(s) \notin vault
  /\ run \in TerminalStates => vault = {}

InStep ==
  /\ \A d \in Drivers : JobFits(d) /\ LoopFits(d) /\ UndoFits(d)
  /\ RunningOwned /\ RowOrder /\ OnlyPreparesUndone /\ RunSays /\ VaultFits

\* Something of the output's start failed.
StartFailed(o) == \E s \in Seqs : OutputOf(s) = o /\ PhaseOf(s) = "start" /\ row[s] = "failed"

\* A start or a stop goes on while nothing of its output has failed, and an undo
\* for an output's sake discards something only if the output did not start.
CleanFits(d) ==
  /\ drv[d].pc \in {"loop", "call"} /\ drv[d].job \in {"start", "stop"} =>
       \A s \in Seqs : OutputOf(s) = drv[d].out => row[s] # "failed"
  /\ Undoing(d) /\ drv[d].why = "output" /\ (drv[d].todo # {} \/ Is(d, "undoing")) =>
       drv[d].job = "start" /\ StartFailed(drv[d].out)

Clean == \A d \in Drivers : CleanFits(d)

-----------------------------------------------------------------------------
(* The encoders, while the program does not crash *)

\* No two outputs have broadcasts with the same title and start.
SlotsApart == \A o, p \in Outputs : Slot[o] = Slot[p] => o = p

\* The broadcast is one of output o.
Of(b, o) == b \in Broadcast /\ channel[b].state # "absent" /\ channel[b].slot = Slot[o]

\* What was started has been stopped, or would not stop.
NothingOn ==
  \A s, t \in Seqs :
    /\ OutputOf(s) = OutputOf(t)
    /\ KindOf(s) = "startStreaming" /\ KindOf(t) = "stopStreaming" /\ row[s] = "done"
    => row[t] \in {"done", "failed"}

\* The run is undone when nothing is on.
UndoSpares(d) ==
  /\ Undoing(d) /\ drv[d].why = "failed" => NothingOn
  /\ Is(d, "undoing") => Of(drv[d].arg, OutputOf(drv[d].seq))

EndsOff == run \in TerminalStates => NothingOn

\* The step has started its encoder, or tries to, and nothing has stopped it.
Streams(s) ==
  /\ KindOf(s) = "startStreaming"
  /\ \/ row[s] \in {"running", "failed"}
     \/ /\ row[s] = "done"
        /\ \A t \in Seqs : OutputOf(t) = OutputOf(s) /\ KindOf(t) = "stopStreaming" => row[t] # "done"

StreamsKnown ==
  \A e \in Devices : encoder[e].active => \E s \in Seqs : Device[OutputOf(s)] = e /\ Streams(s)

\* A stop that has landed has stopped its encoder.
StopFits(d) ==
  Is(d, "call") /\ KindOf(drv[d].seq) = "stopStreaming" /\ drv[d].call = "landed" =>
    ~encoder[Device[OutputOf(drv[d].seq)]].active

InStream ==
  /\ \A d \in Drivers : UndoSpares(d) /\ StopFits(d)
  /\ EndsOff /\ StreamsKnown /\ boot = "up"

\* What people had watched is discarded with its run, or when it did not start.
ErasedKnown ==
  \A b \in Broadcast, o \in Outputs : channel[b].state = "erased" /\ channel[b].slot = Slot[o] =>
    run = "failed" \/ (\E d \in Drivers : Undoing(d) /\ drv[d].why = "failed") \/ StartFailed(o)

-----------------------------------------------------------------------------
(* Encoders that are handed over *)

\* Output o comes before output p, on the same encoder.
Before(o, p) ==
  /\ Device[o] = Device[p]
  /\ \E i, j \in DOMAIN Enabled[1] : i < j /\ Enabled[1][i] = o /\ Enabled[1][j] = p

\* No output starts on an encoder before the ones before it are to have stopped.
HandedOver ==
  /\ \A i, j \in DOMAIN Enabled[1] : Enabled[1][i] = Enabled[1][j] => i = j
  /\ \A o, p \in Outputs, f \in Forced :
       Before(o, p) => EndsAt(f, o) + Postroll <= StartsAt(f, p) - Preroll

\* An output is started, or something of it pointed, when those before it are
\* through.
StartsFit(d) ==
  InLoop(d) /\ drv[d].job = "start" =>
    \A o \in Outputs : Before(o, drv[d].out) => Through(o)

TurnsTaken ==
  \A o \in Outputs, s \in Seqs :
    KindOf(s) = "applyStreamTarget" /\ Before(o, OutputOf(s)) /\ row[s] # "pending" => Through(o)

\* A target that has landed is on the encoder.
PointFits(d) ==
  Is(d, "call") /\ KindOf(drv[d].seq) = "applyStreamTarget" /\ drv[d].call = "landed" =>
    encoder[Device[OutputOf(drv[d].seq)]].target = drv[d].arg

\* Until the output is through, the encoder points where it was pointed.
Pointed ==
  \A s \in Seqs :
    /\ KindOf(s) = "applyStreamTarget" /\ row[s] = "done"
    /\ \A t \in Seqs : OutputOf(t) = OutputOf(s) => row[t] # "compensated"
    /\ ~Through(OutputOf(s))
    => encoder[Device[OutputOf(s)]].target = PreparedId(OutputOf(s))

\* Every output has missed its window, and nobody is at one of them.
Abandoned ==
  /\ MissedItsWindow
  /\ \A d \in Drivers : drv[d].job \notin {"prepare", "start", "stop"}
  /\ \A s \in Seqs : row[s] # "running"

\* The output is not to be started again.
Lost(o) ==
  \/ StartFailed(o)
  \/ \E s \in Seqs : OutputOf(s) = o /\ KindOf(s) = "stopStreaming" /\ row[s] \in {"done", "failed"}
  \/ /\ \A s \in Seqs : OutputOf(s) = o /\ KindOf(s) = "startStreaming" => row[s] # "done"
     /\ ~Active \/ Abandoned

\* The driver undoes the step, or is yet to.
Undoes(d, s) == Undoing(d) /\ (s \in drv[d].todo \/ (Is(d, "undoing") /\ s = drv[d].seq))

\* What is undone is not to be started again.
UndoneLost ==
  \A s \in Seqs : row[s] = "compensated" \/ (\E d \in Drivers : Undoes(d, s)) => Lost(OutputOf(s))

\* Until one output is prepared, all that were tried have failed.
PrepareFits(d) ==
  /\ (InLoop(d) \/ Is(d, "next") \/ Undoing(d)) /\ drv[d].job = "prepare" /\ ~drv[d].good =>
       \A o \in Live(1) \ drv[d].queue :
         \/ o = drv[d].out /\ drv[d].pc \in {"loop", "call"}
         \/ \E s \in Seqs : KindOf(s) = "prepare" /\ OutputOf(s) = o /\ row[s] = "failed"
  /\ Undoing(d) /\ drv[d].job = "prepare" => drv[d].todo = {} /\ Is(d, "undo")

InTurn ==
  /\ \A d \in Drivers : StartsFit(d) /\ PointFits(d) /\ PrepareFits(d)
  /\ TurnsTaken /\ Pointed /\ UndoneLost
-----------------------------------------------------------------------------
(* What was watched *)

\* The broadcast prepared by step s went out.
AiredAs(s) == Made(s) /\ Of(ext[s], OutputOf(s)) /\ channel[ext[s]].state \in Aired

\* The call that starts an encoder has landed, or is known to have.
HasStarted(t) ==
  /\ KindOf(t) = "startStreaming"
  /\ \/ row[t] = "done"
     \/ \E d \in Drivers : Is(d, "call") /\ drv[d].seq = t /\ drv[d].call = "landed"

\* What was started with a broadcast of its own has put it on the air.
StartsAired ==
  \A s, t \in Seqs :
    KindOf(s) = "prepare" /\ OutputOf(s) = OutputOf(t) /\ HasStarted(t) => AiredAs(s)

\* What is undone is the broadcast of its own output, and whoever has lost it that
\* way, unwatched, is not to be started any more.
UndoesItsOwn(d) ==
  Is(d, "undoing") => drv[d].arg = ext[drv[d].seq] /\ Of(drv[d].arg, OutputOf(drv[d].seq))

GoneLost ==
  \A b \in Broadcast, s \in Seqs :
    KindOf(s) = "prepare" /\ channel[b].state = "gone" /\ channel[b].slot = Slot[OutputOf(s)] =>
      Lost(OutputOf(s))

\* The run is completed for the sake of what was stopped.
GoodFits ==
  (run = "completed" \/ \E d \in Drivers : InLoop(d) /\ drv[d].job = "complete" /\ drv[d].good) =>
    \E s \in Seqs : KindOf(s) = "stopStreaming" /\ row[s] = "done"

\* No output with a broadcast of its own takes an encoder over from another.
FreshEncoders ==
  \A s \in Seqs, o \in Outputs : KindOf(s) = "prepare" => ~Before(o, OutputOf(s))

\* An encoder that streams has put the broadcast of its first output on the air, or
\* the run is through with that output.
ActiveAired ==
  \A s \in Seqs : KindOf(s) = "prepare" /\ encoder[Device[OutputOf(s)]].active =>
    run \notin {"scheduled", "preparing"} /\ (AiredAs(s) \/ Through(OutputOf(s)))

InAir ==
  /\ \A d \in Drivers : UndoesItsOwn(d)
  /\ StartsAired /\ GoneLost /\ GoodFits /\ ActiveAired

-----------------------------------------------------------------------------
(* As long as nothing outside fails *)

Faultless == left.faults = MaxFaults

\* Only a start that is not made any more fails.
FewFail == \A s \in Seqs : row[s] = "failed" => PhaseOf(s) = "start"

\* Whoever streams was started, or is just being, and has not been stopped.
OnlyStarted ==
  \A e \in Devices : encoder[e].active => \E s \in Seqs :
    /\ Device[OutputOf(s)] = e /\ HasStarted(s)
    /\ \A t \in Seqs : OutputOf(t) = OutputOf(s) /\ KindOf(t) = "stopStreaming" => row[t] # "done"

\* Step s is being undone, and the broadcast has been discarded.
Discards(s) == \E d \in Drivers : Is(d, "undoing") /\ drv[d].seq = s /\ drv[d].call = "landed"

\* What is prepared is on the channel from its landing until its undo has landed.
PrepareLands(d) ==
  Is(d, "call") /\ KindOf(drv[d].seq) = "prepare" /\ drv[d].call = "landed" =>
    channel[drv[d].arg].state \in OnChannel

PreparedStands ==
  /\ \A d \in Drivers : PrepareLands(d)
  /\ \A s \in Seqs : KindOf(s) = "prepare" /\ row[s] = "done" =>
       channel[ext[s]].state \in OnChannel \/ Discards(s)

\* What is undone is off the channel.
UndoneIsOff ==
  \A b \in Broadcast, s \in Seqs :
    /\ KindOf(s) = "prepare" /\ channel[b].slot = Slot[OutputOf(s)]
    /\ row[s] = "compensated" \/ Discards(s)
    => channel[b].state # "upcoming"

\* Who fails to start is undone, and so is everything that was prepared for a run
\* that fails.
FailedUndone ==
  /\ \A s \in Seqs : KindOf(s) = "prepare" /\ row[s] = "done" /\ StartFailed(OutputOf(s)) =>
       \E d \in Drivers :
         \/ Is(d, "failed") /\ drv[d].job = "start" /\ drv[d].out = OutputOf(s)
         \/ Undoes(d, s)
  /\ \A s \in Seqs : KindOf(s) = "prepare" /\ row[s] = "done" =>
       /\ run # "failed"
       /\ \A d \in Drivers : Undoing(d) /\ drv[d].why = "failed" => Undoes(d, s)

CompletesThrough == run = "completed" => \A o \in Live(1) : Through(o)

Tidy ==
  Faultless =>
    /\ FewFail /\ OnlyStarted /\ PreparedStands /\ UndoneIsOff /\ FailedUndone
    /\ StartsAired /\ CompletesThrough
=============================================================================
