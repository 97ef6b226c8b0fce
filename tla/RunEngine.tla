----------------------------- MODULE RunEngine -----------------------------
(***************************************************************************)
(* One run of the scheduling engine, from its creation to its end:         *)
(* runs/engine.ts (step, prepare, complete, fail, cancel, prepareNow),     *)
(* runs/executor.ts (executeSteps, compensateSelected, reconcileRun) and   *)
(* the rows of runs/store.ts, against the streaming service, the encoders  *)
(* and the vault that its steps drive.                                     *)
(*                                                                         *)
(* A driver is one asynchronous call chain that works on the run: a        *)
(* scheduler tick (Ticks) or an operator's request (Operators). An action  *)
(* is what one driver does between two committed writes or two calls, so a *)
(* crash may fall between any two writes; drivers interleave where one of  *)
(* them waits for the world (Quiet). Everything a driver remembers is lost *)
(* in a crash; the run, its rows, the occurrence and the outbox are not,   *)
(* and neither is what already happened in the world.                      *)
(***************************************************************************)
EXTENDS RunStates, Timeline, Broadcasts

CONSTANTS
  Enabled,        \* <<outputs enabled when the run was created, after the edit>>
  Plan,           \* <<the committed plan, the plan after the edit>>
  Slot,           \* [Outputs -> Slots]: title and start of the output's broadcast
  Devices, Device,\* [Outputs -> Devices]: the encoder of each output
  MaxAttempts,    \* DEFAULT_MAX_ATTEMPTS of a retryable step
  Ticks,          \* scheduler ticks that may be in flight at once
  Operators,      \* operator requests that may be in flight at once
  Presses,        \* the buttons operators may press
  Forced,         \* the values of run.forced_at # null
  MaxTime, MaxFaults, MaxCrashes, MaxEdits, MaxPresses   \* bounds

Drivers == Ticks \cup Operators
Versions == 1..2
Committed == Plan[1]
Seqs == DOMAIN Committed        \* the positions of the run's step rows

ASSUME EngineAssumption ==
  /\ Outputs \subseteq Nat \ {0}
  /\ Enabled \in [Versions -> Seq(Outputs)]
  /\ Plan \in [Versions -> Seq(StepDefinition(Outputs))]
  /\ Slot \in [Outputs -> Slots] /\ Slots # {}
  /\ Device \in [Outputs -> Devices]
  /\ MaxAttempts \in Nat \ {0}
  /\ MaxBroadcasts \in Nat
  /\ Ticks \cap Operators = {}
  /\ Presses \subseteq {"cancel", "prepareNow", "startNow"}
  /\ Forced \subseteq BOOLEAN /\ Forced # {}
  /\ MaxTime \in Nat /\ MaxFaults \in Nat /\ MaxCrashes \in Nat
  /\ MaxEdits \in Nat /\ MaxPresses \in Nat

VARIABLES
  now,       \* the clock
  run,       \* run.state
  forced,    \* run.forced_at # null
  occ,       \* occurrence.status
  row,       \* [Seqs -> StepState], run_step.state
  ext,       \* [Seqs -> BroadcastId], run_step.external_id
  told,      \* whose failure the outbox holds: outputs, or 0 for the run itself
  version,   \* which version of the event the database holds
  boot,      \* "up", or "recovering" after a crash
  drv,       \* [Drivers -> DriverState]
  channel,   \* the broadcasts on the channel
  encoder,   \* [Devices -> [active, target]]
  vault,     \* the outputs whose stream key is stored in the vault
  left       \* what is left of each bound

database == <<run, forced, occ, row, ext, told, version>>
world == <<channel, encoder>>
vars == <<now, run, forced, occ, row, ext, told, version, boot, drv,
          channel, encoder, vault, left>>

-----------------------------------------------------------------------------
(* Drivers *)

\* pc:    where the driver is
\* job:   the phase its executeSteps loop runs, "cancel" for an operator's stop
\* again: whether advance() takes another pass when the job is finished
\* v:     the version of the event that it planned with
\* queue: the outputs its job has yet to get to; out is the current one
\* seq, att, call, arg: the step, its attempt, how far its call has got, and
\*        the broadcast that the call is about
\* why, todo: what an undo is for, and the rows it has yet to compensate
\* good:  some output was prepared, or some output was delivered
\* late:  this tick has outlived TICK_DEADLINE_MS
DriverState ==
  [ pc    : {"idle", "step", "next", "loop", "call", "failed", "undo", "undoing", "settle"},
    job   : Phase \cup {"none", "cancel"},
    again : BOOLEAN,
    v     : Versions,
    queue : SUBSET Outputs,
    out   : Outputs \cup {0},
    seq   : Nat,
    att   : Nat,
    call  : {"none", "sent", "absent", "landed"},
    arg   : BroadcastId,
    why   : {"none", "output"} \cup TerminalStates,
    todo  : SUBSET Seqs,
    good  : BOOLEAN,
    late  : BOOLEAN ]

IdleDriver ==
  [ pc |-> "idle", job |-> "none", again |-> FALSE, v |-> 1, queue |-> {}, out |-> 0,
    seq |-> 0, att |-> 0, call |-> "none", arg |-> 0, why |-> "none", todo |-> {},
    good |-> FALSE, late |-> FALSE ]

Is(d, pc) == drv[d].pc = pc

\* All that a driver can do is wait: for the world, or for its next turn.
Waiting(d) == drv[d].pc \in {"idle", "call", "undoing"}

\* One call chain runs at a time, and whatever wakes another one (an answer, a
\* timer, a request) comes in when none can run any further.
Quiet == \A d \in Drivers : Waiting(d)

Become(d, r) == drv' = [drv EXCEPT ![d] = r]

Rest(d) == Become(d, IdleDriver)

\* A new job: nothing of the previous one is left but what the driver is.
Job(d, job, pc) ==
  [IdleDriver EXCEPT !.pc = pc, !.job = job, !.again = TRUE, !.v = version,
                     !.late = drv[d].late]

\* The next pass of advance(), or the end of a request that does not advance.
NextPass(d) ==
  IF drv[d].again
    THEN [IdleDriver EXCEPT !.pc = "step", !.again = TRUE, !.late = drv[d].late]
    ELSE IdleDriver

-----------------------------------------------------------------------------
(* What the rows say *)

Mine(v, o) == {s \in DOMAIN Plan[v] : Plan[v][s].output = o}

\* Mutants: an output's stop rows taken for its start rows, or its closing rows.
MineStopIsStart(v, o, ph) ==
  {s \in Mine(v, o) : Plan[v][s].phase = IF ph = "stop" THEN "start" ELSE ph}
MineStopIsComplete(v, o, ph) ==
  {s \in Mine(v, o) : Plan[v][s].phase = IF ph = "stop" THEN "complete" ELSE ph}

MineIn(v, o, ph) == {s \in Mine(v, o) : Plan[v][s].phase = ph}

\* records[seq]?.state: a plan may be longer than the rows.
RowIs(s, state) == s \in Seqs /\ row[s] = state

Progress(v, o) ==
  LET allDone(ph) == /\ MineIn(v, o, ph) # {}
                     /\ \A s \in MineIn(v, o, ph) : RowIs(s, "done")
  IN  IF \E s \in Mine(v, o) : RowIs(s, "failed") THEN "failed"
      ELSE IF allDone("stop") THEN "stopped"
      ELSE IF allDone("start") THEN "started"
      ELSE "pending"

Live(v) == {Enabled[v][i] : i \in DOMAIN Enabled[v]}

\* ctx.outputs["<output>.prepare"]?.externalId: from a completed row only.
PreparedRows(o) ==
  {s \in Seqs : /\ Committed[s].kind = "prepare" /\ Committed[s].output = o
                /\ row[s] = "done"}

\* Mutant: no broadcast is -1.
PreparedIdOrMinusOne(o) ==
  IF PreparedRows(o) = {} THEN -1 ELSE ext[CHOOSE s \in PreparedRows(o) : TRUE]

PreparedId(o) ==
  IF PreparedRows(o) = {} THEN 0 ELSE ext[CHOOSE s \in PreparedRows(o) : TRUE]

\* Mutant: only a plan that grew has drifted.
DriftedIfLonger == Len(Plan[version]) > Len(Committed)

\* planDrift: steps are matched to rows by position.
Drifted ==
  ~ ( /\ Len(Plan[version]) = Len(Committed)
      /\ \A s \in Seqs : /\ Plan[version][s].kind = Committed[s].kind
                         /\ Plan[version][s].output = Committed[s].output )

MissedItsWindow ==
  /\ ~forced
  /\ \A o \in Live(version) : /\ Progress(version, o) = "pending"
                              /\ now > StartsAt(forced, o) + Grace

Doomed == Enabled[version] = <<>> \/ Drifted \/ MissedItsWindow

\* Mutants: the stop is due one unit late; it is due inside the window only.
StopDueLate(o) ==
  /\ Progress(version, o) = "started"
  /\ now > EndsAt(forced, o) + Postroll
StopDueInWindow(o) ==
  /\ Progress(version, o) = "started"
  /\ now >= EndsAt(forced, o) + Postroll /\ now <= WindowEnd(forced)

StopDue(o) ==
  /\ Progress(version, o) = "started"
  /\ now >= EndsAt(forced, o) + Postroll

StartDue(o) ==
  /\ Progress(version, o) = "pending"
  /\ now >= StartsAt(forced, o) - Preroll

TooLate(o) == ~forced /\ now > StartsAt(forced, o) + Grace

\* The first enabled output, in the event's order, of a set of outputs.
First(v, o, S) ==
  /\ o \in S
  /\ \E i \in DOMAIN Enabled[v] :
       /\ Enabled[v][i] = o
       /\ \A j \in 1..(i - 1) : Enabled[v][j] \notin S

StopsDue == {o \in Live(version) : StopDue(o)}
StartsDue == {o \in Live(version) : StartDue(o)}

\* Only the first failure of a run reaches the outbox: the dedupe key of its
\* notification names the run and the attempt, and the insert ignores repeats.
Tell(x) == told' = IF told = {} THEN {x} ELSE told

\* Mutants: every output's steps are undone; failed steps are, not completed ones.
ToUndoEverything(v, outs) ==
  {s \in Seqs : row[s] = "done" /\ s \in DOMAIN Plan[v] /\ Guarded(Plan[v][s])}
ToUndoFailed(v, outs) ==
  {s \in Seqs : /\ row[s] = "failed" /\ s \in DOMAIN Plan[v]
                /\ Guarded(Plan[v][s]) /\ Plan[v][s].output \in outs}

\* compensateSelected: the completed rows of these outputs that can be undone.
ToUndo(v, outs) ==
  {s \in Seqs : /\ row[s] = "done"
                /\ s \in DOMAIN Plan[v]
                /\ Guarded(Plan[v][s])
                /\ Plan[v][s].output \in outs}

-----------------------------------------------------------------------------
(* One pass of step(): the first thing that is due *)

\* The tick guard of app.ts: a tick begins when no other is in flight, or when
\* the one in flight is past its deadline and has been given up on.
MayTickAtOnce(t) == t \in Ticks /\ Is(t, "idle") /\ Quiet   \* mutant: no guard
MayTick(t) ==
  /\ t \in Ticks
  /\ Is(t, "idle") /\ Quiet
  /\ \A u \in Ticks \ {t} : Is(u, "idle") \/ drv[u].late

Ready(d) == boot = "up" /\ (Is(d, "step") \/ MayTick(d))

Active == ~IsTerminal(run)

\* Nothing to do for this driver: the run is over, or nothing is due.
NothingDue ==
  \/ ~Active
  \/ /\ ~Doomed
     /\ IF run \in {"scheduled", "preparing"}
          THEN ~(forced \/ now >= WindowStart(forced) - PrepareLead)
          ELSE /\ StopsDue = {} /\ StartsDue = {}
               /\ \/ \E o \in Live(version) : Progress(version, o) \in {"pending", "started"}
                  \/ ~EventOver(forced, Live(version), now)

StopPass(d) ==
  /\ Ready(d) /\ Is(d, "step") /\ NothingDue
  /\ Rest(d)
  /\ UNCHANGED <<now, database, boot, world, vault, left>>

\* fail(): no outputs, an edit under way, or every output past its grace.
BeginFail(d) ==
  /\ Ready(d) /\ Active /\ Doomed
  /\ Become(d, [Job(d, "none", "undo") EXCEPT !.why = "failed", !.todo = ToUndo(version, Outputs)])
  /\ UNCHANGED <<now, database, boot, world, vault, left>>

\* prepare(): creates everything the event will need, one output at a time.
Prepares(d, again) ==
  /\ run' = "preparing"
  /\ Become(d, [Job(d, "prepare", "next") EXCEPT !.again = again, !.queue = Live(version)])
  /\ UNCHANGED <<now, forced, occ, row, ext, told, version, boot, world, vault>>

BeginPrepare(d) ==
  /\ Ready(d) /\ Active /\ ~Doomed
  /\ run \in {"scheduled", "preparing"}
  /\ forced \/ now >= WindowStart(forced) - PrepareLead
  /\ Prepares(d, TRUE)
  /\ UNCHANGED left

InWindow(d) == Ready(d) /\ Active /\ ~Doomed /\ run \notin {"scheduled", "preparing"}

BeginStop(d) ==
  /\ InWindow(d)
  /\ \E o \in StopsDue :
       /\ First(version, o, StopsDue)
       /\ Become(d, [Job(d, "stop", "loop") EXCEPT !.out = o])
  /\ UNCHANGED <<now, database, boot, world, vault, left>>

\* markMissed: the clock ran past this output; its pending start steps fail and
\* its broadcast is discarded.
MarkMissed(d) ==
  /\ InWindow(d) /\ StopsDue = {}
  /\ \E o \in StartsDue :
       /\ First(version, o, StartsDue) /\ TooLate(o)
       /\ row' = [s \in Seqs |-> IF s \in MineIn(version, o, "start") /\ row[s] = "pending"
                                   THEN "failed" ELSE row[s]]
       /\ Become(d, [Job(d, "start", "undo") EXCEPT !.out = o, !.why = "output",
                                                         !.todo = ToUndo(version, {o})])
  /\ UNCHANGED <<now, run, forced, occ, ext, told, version, boot, world, vault, left>>

BeginStart(d) ==
  /\ InWindow(d) /\ StopsDue = {}
  /\ \E o \in StartsDue :
       /\ First(version, o, StartsDue) /\ ~TooLate(o)
       /\ Become(d, [Job(d, "start", "loop") EXCEPT !.out = o])
  /\ run' = IF run = "ready" THEN "running" ELSE run
  /\ UNCHANGED <<now, forced, occ, row, ext, told, version, boot, world, vault, left>>

\* Mutant: an output that was tried counts as delivered.
DeliveredAnyway == \E o \in Live(version) : Progress(version, o) # "pending"
Delivered == \E o \in Live(version) : Progress(version, o) = "stopped"

BeginComplete(d) ==
  /\ InWindow(d) /\ StopsDue = {} /\ StartsDue = {}
  /\ \A o \in Live(version) : Progress(version, o) \in {"failed", "stopped"}
  /\ EventOver(forced, Live(version), now)
  /\ run' = "completing"
  /\ Become(d, [Job(d, "complete", "loop") EXCEPT !.good = Delivered])
  /\ UNCHANGED <<now, forced, occ, row, ext, told, version, boot, world, vault, left>>

Pass(d) ==
  \/ StopPass(d) \/ BeginFail(d) \/ BeginPrepare(d) \/ BeginStop(d)
  \/ MarkMissed(d) \/ BeginStart(d) \/ BeginComplete(d)

-----------------------------------------------------------------------------
(* executeSteps: the selected steps, in plan order *)

PhasesOf(job) ==
  CASE job = "start" -> {"prepare", "start"}
    [] job = "cancel" -> {"stop"}
    [] OTHER -> {job}

\* The steps the loop has yet to come to and would not skip.
Outstanding(d) ==
  {s \in DOMAIN Plan[drv[d].v] :
     /\ s > drv[d].seq
     /\ Plan[drv[d].v][s].phase \in PhasesOf(drv[d].job)
     /\ drv[d].job = "complete" \/ Plan[drv[d].v][s].output = drv[d].out
     /\ ~RowIs(s, "done") /\ ~RowIs(s, "compensated")}

StepOf(d) == Plan[drv[d].v][drv[d].seq]

\* Mutant: the target of whatever output was prepared first.
ArgumentOfFirst(v, s) ==
  IF Plan[v][s].kind \in {"applyStreamTarget", "finalize"} THEN PreparedId(Plan[v][1].output) ELSE 0

\* What a call is about, read from the rows when it is made.
Argument(v, s) ==
  IF Plan[v][s].kind \in {"applyStreamTarget", "finalize"}
    THEN PreparedId(Plan[v][s].output) ELSE 0

\* Mutant: the row is left alone until the call is answered.
MarkedNothing(s) == row
MarkedRunning(s) == [row EXCEPT ![s] = "running"]

\* executeStep: the row is marked running, then the call is made. A plan that
\* grew has steps without a row, which the store refuses.
NextStep(d) ==
  /\ Is(d, "loop") /\ Outstanding(d) # {}
  /\ \E s \in Outstanding(d) :
       /\ \A t \in Outstanding(d) : s <= t
       /\ IF s \in Seqs
            THEN /\ row' = MarkedRunning(s)
                 /\ Become(d, [drv[d] EXCEPT !.pc = "call", !.seq = s, !.att = 1,
                                             !.call = "sent", !.arg = Argument(drv[d].v, s)])
            ELSE Rest(d) /\ UNCHANGED row
  /\ UNCHANGED <<now, run, forced, occ, ext, told, version, boot, world, vault, left>>

\* The phase is over for the current output, or for the run.
LoopDone(d) ==
  /\ Is(d, "loop") /\ Outstanding(d) = {}
  /\ CASE drv[d].job \in {"prepare", "cancel"} ->
            /\ Become(d, [drv[d] EXCEPT !.pc = "next", !.good = TRUE])
            /\ UNCHANGED run
       [] drv[d].job = "complete" /\ drv[d].good ->
            IF Accepts(run, "completed")
              THEN /\ run' = "completed"
                   /\ Become(d, [drv[d] EXCEPT !.pc = "settle", !.why = "completed"])
              ELSE Rest(d) /\ UNCHANGED run
       [] drv[d].job = "complete" /\ ~drv[d].good ->
            /\ Become(d, [drv[d] EXCEPT !.pc = "undo", !.why = "failed",
                             !.todo = ToUndo(drv[d].v, Outputs)])
            /\ UNCHANGED run
       [] OTHER -> Become(d, NextPass(d)) /\ UNCHANGED run
  /\ UNCHANGED <<now, forced, occ, row, ext, told, version, boot, world, vault, left>>

\* A step failed for good. Only an output that never went on air is undone.
StepFailed(d) ==
  /\ Is(d, "failed")
  /\ CASE drv[d].job \in {"prepare", "start"} ->
            /\ Become(d, [drv[d] EXCEPT !.pc = "undo", !.why = "output",
                             !.todo = ToUndo(drv[d].v, {drv[d].out})])
            /\ UNCHANGED told
       [] drv[d].job = "stop" -> Become(d, NextPass(d)) /\ Tell(drv[d].out)
       [] drv[d].job = "complete" ->
            /\ Become(d, [drv[d] EXCEPT !.pc = "undo", !.why = "failed",
                             !.todo = ToUndo(drv[d].v, Outputs)])
            /\ UNCHANGED told
       [] OTHER -> Become(d, [drv[d] EXCEPT !.pc = "next"]) /\ UNCHANGED told
  /\ UNCHANGED <<now, run, forced, occ, row, ext, version, boot, world, vault, left>>

\* The loop over outputs of prepare() and of cancel().
NextOutput(d) ==
  /\ Is(d, "next")
  /\ \E o \in drv[d].queue :
       /\ First(drv[d].v, o, drv[d].queue)
       /\ Become(d, [drv[d] EXCEPT !.pc = "loop", !.out = o, !.seq = 0, !.queue = @ \ {o}])
  /\ UNCHANGED <<now, database, boot, world, vault, left>>

\* The loop's end: something was prepared, nothing was, or the operator's stop
\* has stopped all it found. The store throws if the run has moved meanwhile.
OutputsDone(d) ==
  /\ Is(d, "next") /\ drv[d].queue = {}
  /\ CASE drv[d].job = "prepare" /\ drv[d].good ->
            IF Accepts(run, "ready")
              THEN run' = "ready" /\ Become(d, NextPass(d))
              ELSE Rest(d) /\ UNCHANGED run
       [] drv[d].job = "prepare" /\ ~drv[d].good ->
            /\ Become(d, [drv[d] EXCEPT !.pc = "undo", !.why = "failed",
                             !.todo = ToUndo(drv[d].v, Outputs)])
            /\ UNCHANGED run
       [] OTHER ->
            IF Accepts(run, "cancelled")
              THEN /\ run' = "cancelled"
                   /\ Become(d, [drv[d] EXCEPT !.pc = "settle", !.why = "cancelled"])
              ELSE Rest(d) /\ UNCHANGED run
  /\ UNCHANGED <<now, forced, occ, row, ext, told, version, boot, world, vault, left>>

-----------------------------------------------------------------------------
(* A call on the world, from its sending to its answer *)

Calling(d, kind) == Is(d, "call") /\ Quiet /\ StepOf(d).kind = kind

Answered(d) == Become(d, [drv[d] EXCEPT !.call = "landed"])

\* destination.prepare looks for a broadcast of an earlier attempt and adopts it.
LookForBroadcast(d) ==
  /\ Calling(d, "prepare") /\ drv[d].call = "sent"
  /\ LET found == Matching(channel, Slot[StepOf(d).output])
     IN  IF found = {}
           THEN Become(d, [drv[d] EXCEPT !.call = "absent"])
           ELSE \E b \in found : Become(d, [drv[d] EXCEPT !.call = "landed", !.arg = b])
  /\ UNCHANGED <<now, database, boot, world, vault, left>>

CreateBroadcast(d) ==
  /\ Calling(d, "prepare") /\ drv[d].call = "absent"
  /\ \E b \in FreshIds(channel) :
       /\ channel' = Inserted(channel, b, Slot[StepOf(d).output])
       /\ Become(d, [drv[d] EXCEPT !.call = "landed", !.arg = b])
  /\ UNCHANGED <<now, database, boot, encoder, vault, left>>

NeedsBroadcast(v, o) == MineIn(v, o, "prepare") # {}

\* targetFromDestination: the ingest address of the prepared broadcast and the
\* key in the vault, or an error.
HasTarget(d) ==
  NeedsBroadcast(drv[d].v, StepOf(d).output) =>
    drv[d].arg # 0 /\ StepOf(d).output \in vault

PointEncoder(d) ==
  /\ Calling(d, "applyStreamTarget") /\ drv[d].call = "sent" /\ HasTarget(d)
  /\ encoder' = [encoder EXCEPT ![Device[StepOf(d).output]].target = drv[d].arg]
  /\ Answered(d)
  /\ UNCHANGED <<now, database, boot, channel, vault, left>>

\* Starting an encoder that streams already is a verified no-op.
StartEncoder(d) ==
  /\ Calling(d, "startStreaming") /\ drv[d].call = "sent"
  /\ LET e == Device[StepOf(d).output] IN
       /\ encoder' = [encoder EXCEPT ![e].active = TRUE]
       /\ channel' = IF encoder[e].active THEN channel
                     ELSE VideoArrives(channel, encoder[e].target)
  /\ Answered(d)
  /\ UNCHANGED <<now, database, boot, vault, left>>

StopEncoder(d) ==
  /\ Calling(d, "stopStreaming") /\ drv[d].call = "sent"
  /\ LET e == Device[StepOf(d).output] IN
       /\ encoder' = [encoder EXCEPT ![e].active = FALSE]
       /\ channel' = VideoStops(channel, encoder[e].target)
  /\ Answered(d)
  /\ UNCHANGED <<now, database, boot, vault, left>>

\* finalize leaves the broadcast for the channel to complete.
CloseBroadcast(d) ==
  /\ Calling(d, "finalize") /\ drv[d].call = "sent"
  /\ Answered(d)
  /\ UNCHANGED <<now, database, boot, world, vault, left>>

\* Mutant: finalize leaves the key where it is.
VaultKept(d) ==
  IF StepOf(d).kind = "prepare" THEN vault \cup {StepOf(d).output} ELSE vault
VaultAfter(d) ==
  IF StepOf(d).kind = "prepare" THEN vault \cup {StepOf(d).output}
  ELSE IF StepOf(d).kind = "finalize" /\ drv[d].arg # 0 THEN vault \ {StepOf(d).output}
  ELSE vault

\* The call succeeded: a broadcast's key is stored, or dropped once finalized.
CallOk(d) ==
  /\ Is(d, "call") /\ Quiet /\ drv[d].call = "landed"
  /\ row' = [row EXCEPT ![drv[d].seq] = "done"]
  /\ ext' = [ext EXCEPT ![drv[d].seq] = IF StepOf(d).kind = "prepare" THEN drv[d].arg ELSE 0]
  /\ vault' = VaultAfter(d)
  /\ Become(d, [drv[d] EXCEPT !.pc = "loop", !.att = 0, !.call = "none", !.arg = 0])
  /\ UNCHANGED <<now, run, forced, occ, told, version, boot, world, left>>

\* The call failed, or its answer was lost: another attempt, or the step fails.
CallFailed(d) ==
  /\ IF drv[d].att < MaxAttempts
       THEN /\ row' = MarkedRunning(drv[d].seq)
            /\ Become(d, [drv[d] EXCEPT !.att = @ + 1, !.call = "sent",
                                        !.arg = Argument(drv[d].v, drv[d].seq)])
       ELSE /\ row' = [row EXCEPT ![drv[d].seq] = "failed"]
            /\ Become(d, [drv[d] EXCEPT !.pc = "failed", !.att = 0, !.call = "none", !.arg = 0])
  /\ UNCHANGED <<now, run, forced, occ, ext, told, version, boot, world>>

\* A fault outside. Finalize drops the key whether or not it succeeds, unless
\* the destination could not even be opened; without a broadcast it does nothing.
Fault(d) ==
  /\ Is(d, "call") /\ Quiet /\ left.faults > 0
  /\ CallFailed(d)
  /\ left' = [left EXCEPT !.faults = @ - 1]
  /\ IF StepOf(d).kind = "finalize"
       THEN drv[d].arg # 0 /\ vault' \in {vault, vault \ {StepOf(d).output}}
       ELSE UNCHANGED vault

NoTarget(d) ==
  /\ Calling(d, "applyStreamTarget") /\ drv[d].call = "sent" /\ ~HasTarget(d)
  /\ CallFailed(d)
  /\ UNCHANGED <<vault, left>>

Call(d) ==
  \/ LookForBroadcast(d) \/ CreateBroadcast(d) \/ PointEncoder(d) \/ StartEncoder(d)
  \/ StopEncoder(d) \/ CloseBroadcast(d) \/ CallOk(d) \/ Fault(d) \/ NoTarget(d)

-----------------------------------------------------------------------------
(* compensateSelected: completed steps, in reverse order, best effort *)

\* The key goes first; a step that has no broadcast is compensated at once.
UndoStep(d) ==
  /\ Is(d, "undo") /\ drv[d].todo # {}
  /\ \E s \in drv[d].todo :
       /\ \A t \in drv[d].todo : s >= t
       /\ LET o == Plan[drv[d].v][s].output IN
           /\ vault' = vault \ {o}
           /\ IF PreparedId(o) = 0
                THEN /\ row' = [row EXCEPT ![s] = "compensated"]
                     /\ Become(d, [drv[d] EXCEPT !.todo = @ \ {s}])
                ELSE /\ Become(d, [drv[d] EXCEPT !.pc = "undoing", !.seq = s, !.call = "sent",
                                                 !.arg = PreparedId(o), !.todo = @ \ {s}])
                     /\ UNCHANGED row
  /\ UNCHANGED <<now, run, forced, occ, ext, told, version, boot, world, left>>

DiscardBroadcast(d) ==
  /\ Is(d, "undoing") /\ Quiet /\ drv[d].call = "sent"
  /\ channel' = Discarded(channel, drv[d].arg)
  /\ Answered(d)
  /\ UNCHANGED <<now, database, boot, encoder, vault, left>>

Undone(d, state) ==
  /\ row' = [row EXCEPT ![drv[d].seq] = state]
  /\ Become(d, [drv[d] EXCEPT !.pc = "undo", !.call = "none", !.arg = 0])
  /\ UNCHANGED <<now, run, forced, occ, ext, told, version, boot, world, vault>>

UndoOk(d) ==
  /\ Is(d, "undoing") /\ Quiet /\ drv[d].call = "landed"
  /\ Undone(d, "compensated")
  /\ UNCHANGED left

\* The account cannot be opened, and the row stays as it was; or the service
\* refuses both the deletion and the change to private, which is swallowed.
UndoFault(d) ==
  /\ Is(d, "undoing") /\ Quiet /\ drv[d].call = "sent" /\ left.faults > 0
  /\ \E state \in {row[drv[d].seq], "compensated"} : Undone(d, state)
  /\ left' = [left EXCEPT !.faults = @ - 1]

\* What the undo was for: an output taken out, the run failed, or cancelled.
UndoDone(d) ==
  /\ Is(d, "undo") /\ drv[d].todo = {}
  /\ IF drv[d].why = "output"
       THEN /\ Tell(drv[d].out)
            /\ Become(d, IF drv[d].job = "prepare"
                           THEN [drv[d] EXCEPT !.pc = "next", !.why = "none"] ELSE NextPass(d))
            /\ UNCHANGED run
       ELSE /\ IF Accepts(run, drv[d].why)
                 THEN run' = drv[d].why /\ Become(d, [drv[d] EXCEPT !.pc = "settle"])
                 ELSE Rest(d) /\ UNCHANGED run
            /\ UNCHANGED told
  /\ UNCHANGED <<now, forced, occ, row, ext, version, boot, world, vault, left>>

\* The occurrence follows the run, in a write of its own.
Settle(d) ==
  /\ Is(d, "settle")
  /\ occ' = CASE drv[d].why = "completed" -> "done"
              [] drv[d].why = "failed" -> "failed"
              [] OTHER -> "cancelled"
  /\ IF drv[d].why = "failed" THEN Tell(0) ELSE UNCHANGED told
  /\ Rest(d)
  /\ UNCHANGED <<now, run, forced, row, ext, version, boot, world, vault, left>>

Undo(d) ==
  \/ UndoStep(d) \/ DiscardBroadcast(d) \/ UndoOk(d) \/ UndoFault(d) \/ UndoDone(d)

Work(d) ==
  \/ Pass(d) \/ NextStep(d) \/ LoopDone(d) \/ StepFailed(d) \/ NextOutput(d)
  \/ OutputsDone(d) \/ Call(d) \/ Undo(d) \/ Settle(d)

-----------------------------------------------------------------------------
(* Operators, the event's editor, the clock, crashes *)

\* A request that finds its button enabled. It counts against MaxPresses.
Press(d, button) ==
  /\ boot = "up" /\ Quiet /\ d \in Operators /\ Is(d, "idle")
  /\ button \in Presses /\ left.presses > 0
  /\ left' = [left EXCEPT !.presses = @ - 1]

\* cancel(): on air, the stop steps of what has started; otherwise an undo.
Cancel(d) ==
  /\ Press(d, "cancel") /\ Active
  /\ Become(d,
       IF IsOnAir(run)
         THEN [Job(d, "cancel", "next") EXCEPT !.again = FALSE,
                 !.queue = {o \in Live(version) : Progress(version, o) = "started"}]
         ELSE [Job(d, "cancel", "undo") EXCEPT !.again = FALSE, !.why = "cancelled",
                 !.todo = ToUndo(version, Outputs)])
  /\ UNCHANGED <<now, database, boot, world, vault>>

\* prepareNow() on a run that exists.
PrepareNow(d) ==
  /\ Press(d, "prepareNow")
  /\ run \in {"scheduled", "preparing"}
  /\ Prepares(d, FALSE)

\* POST start-now on a run that exists: the request itself advances the run.
StartNow(d) ==
  /\ Press(d, "startNow") /\ Active
  /\ Become(d, [Job(d, "none", "step") EXCEPT !.v = 1])
  /\ UNCHANGED <<now, database, boot, world, vault>>

\* An output added, removed or switched off. The routes do not ask whether a
\* run is under way.
EditEvent ==
  /\ boot = "up" /\ Quiet /\ left.edits > 0 /\ version = 1
  /\ version' = 2
  /\ left' = [left EXCEPT !.edits = @ - 1]
  /\ UNCHANGED <<now, run, forced, occ, row, ext, told, boot, drv, world, vault>>

\* A tick in flight passes TICK_DEADLINE_MS; nothing in it is cancelled.
Overrun(t) ==
  /\ t \in Ticks /\ ~Is(t, "idle") /\ ~drv[t].late /\ Quiet
  /\ Ticks # {t}
  /\ Become(t, [drv[t] EXCEPT !.late = TRUE])
  /\ UNCHANGED <<now, database, boot, world, vault, left>>

Clock ==
  /\ now < MaxTime /\ Quiet
  /\ now' = now + 1
  /\ UNCHANGED <<database, boot, drv, world, vault, left>>

Crash ==
  /\ left.crashes > 0
  /\ left' = [left EXCEPT !.crashes = @ - 1]
  /\ drv' = [d \in Drivers |-> IdleDriver]
  /\ boot' = "recovering"
  /\ UNCHANGED <<now, database, world, vault>>

\* reconcileRun, over the steps a crash left mid-flight.
Interrupted == {s \in Seqs : row[s] = "running"}

Reconcile ==
  /\ boot = "recovering" /\ Active
  /\ \E s \in Interrupted :
       /\ \A t \in Interrupted : s <= t
       /\ IF s \notin DOMAIN Plan[version]
            THEN /\ row' = [row EXCEPT ![s] = "failed"]
                 /\ UNCHANGED <<ext, vault, left>>
          ELSE IF ~Guarded(Plan[version][s])
            THEN /\ row' = [row EXCEPT ![s] = "pending"]
                 /\ UNCHANGED <<ext, vault, left>>
          ELSE LET o == Plan[version][s].output
                   found == Matching(channel, Slot[o])
               IN  \/ /\ found = {}
                      /\ row' = [row EXCEPT ![s] = "pending"]
                      /\ UNCHANGED <<ext, vault, left>>
                   \/ \E b \in found :
                        /\ row' = [row EXCEPT ![s] = "done"]
                        /\ ext' = [ext EXCEPT ![s] = b]
                        /\ vault' = vault \cup {o}
                        /\ UNCHANGED left
                   \/ /\ left.faults > 0
                      /\ left' = [left EXCEPT !.faults = @ - 1]
                      /\ row' = [row EXCEPT ![s] = "failed"]
                      /\ UNCHANGED <<ext, vault>>
  /\ UNCHANGED <<now, run, forced, occ, told, version, boot, drv, world>>

Recovered ==
  /\ boot = "recovering"
  /\ ~Active \/ Interrupted = {}
  /\ boot' = "up"
  /\ UNCHANGED <<now, database, drv, world, vault, left>>

\* The run is over and nobody works on it.
Over ==
  /\ ~Active /\ boot = "up" /\ \A d \in Drivers : Is(d, "idle")
  /\ UNCHANGED vars

-----------------------------------------------------------------------------

Init ==
  /\ now = 0
  /\ run = "scheduled"
  /\ forced \in Forced
  /\ occ = "running"
  /\ row = [s \in Seqs |-> "pending"]
  /\ ext = [s \in Seqs |-> 0]
  /\ told = {}
  /\ version = 1
  /\ boot = "up"
  /\ drv = [d \in Drivers |-> IdleDriver]
  /\ channel = EmptyChannel
  /\ encoder = [e \in Devices |-> [active |-> FALSE, target |-> 0]]
  /\ vault = {}
  /\ left = [faults |-> MaxFaults, crashes |-> MaxCrashes, edits |-> MaxEdits,
             presses |-> MaxPresses]

Next ==
  \/ \E d \in Drivers : Work(d) \/ Cancel(d) \/ PrepareNow(d) \/ StartNow(d) \/ Overrun(d)
  \/ EditEvent \/ Clock \/ Crash \/ Reconcile \/ Recovered
  \/ Over

\* Ticks come round by themselves (setInterval), every call is bounded by the
\* adapters' time-outs and the executor's attempts, the clock runs on, and a
\* crashed program is started again. Nobody is bound to press a button.
Fairness ==
  /\ \A d \in Drivers : WF_vars(Work(d))
  /\ WF_vars(Clock)
  /\ WF_vars(Reconcile) /\ WF_vars(Recovered)

Spec == Init /\ [][Next]_vars /\ Fairness
=============================================================================
