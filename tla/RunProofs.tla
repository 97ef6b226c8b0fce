----------------------------- MODULE RunProofs -----------------------------
(***************************************************************************)
(* What holds of RunEngine for every event, plan, number of ticks and      *)
(* operators, and bound: its type invariant, and that a run that ended     *)
(* stays ended, the occurrence follows the run, the ticks take turns, and  *)
(* no broadcast is ever unknown to the database.                           *)
(*                                                                         *)
(* For the types, each action has a lemma: a driver's new value is named r *)
(* and shown to have its type. The rest shares one strengthening,          *)
(* DriversOrderly: what a driver is about to write agrees with what is     *)
(* written already.                                                        *)
(***************************************************************************)
EXTENDS RunProperties, TLAPS

-----------------------------------------------------------------------------
(* What the operators of the model return *)

LEMMA LiveOutputs == ASSUME NEW v \in Versions PROVE Live(v) \subseteq Outputs
BY EngineAssumption DEF Live

LEMMA Steps ==
  ASSUME NEW v \in Versions, NEW s \in DOMAIN Plan[v]
  PROVE  Plan[v][s] \in StepDefinition(Outputs) /\ s \in Nat
BY EngineAssumption

LEMMA SeqsAreNumbers == Seqs \subseteq Nat
BY EngineAssumption DEF Seqs, Committed, Versions

LEMMA PreparedIds ==
  ASSUME NEW o, ext \in [Seqs -> BroadcastId] PROVE PreparedId(o) \in BroadcastId
<1>1. CASE PreparedRows(o) = {}
  BY <1>1, EngineAssumption DEF PreparedId, BroadcastId
<1>2. CASE PreparedRows(o) # {}
  <2>1. (CHOOSE s \in PreparedRows(o) : TRUE) \in Seqs
    BY <1>2 DEF PreparedRows
  <2>2. QED
    BY <1>2, <2>1 DEF PreparedId
<1>3. QED
  BY <1>1, <1>2

LEMMA Arguments ==
  ASSUME NEW v, NEW s, ext \in [Seqs -> BroadcastId] PROVE Argument(v, s) \in BroadcastId
BY PreparedIds, EngineAssumption DEF Argument, BroadcastId

LEMMA NoBroadcastTyped == 0 \in BroadcastId
BY EngineAssumption DEF BroadcastId

LEMMA UndoRows == ASSUME NEW v, NEW outs PROVE ToUndo(v, outs) \subseteq Seqs
BY DEF ToUndo

\* The store accepts only states of a run, and none after a terminal one.
LEMMA Accepted ==
  ASSUME NEW from \in RunState, NEW to, Accepts(from, to)
  PROVE  to \in RunState /\ (IsTerminal(from) => to = from)
BY DEF Accepts, CanTransition, Transitions, RunState, TerminalStates, IsTerminal

LEMMA Channels ==
  ASSUME channel \in ChannelType, NEW b, NEW from, NEW to \in BroadcastState
  PROVE  Moved(channel, b, from, to) \in ChannelType
BY DEF Moved, ChannelType

-----------------------------------------------------------------------------
(* Drivers keep their type *)

DriverTyped == drv \in [Drivers -> DriverState]

\* A call in flight is the call of a step that has a row and is in the plan.
AtStep(r) == r.pc = "call" => r.seq \in Seqs /\ r.seq \in DOMAIN Plan[r.v]
Placed == \A d \in Drivers : AtStep(drv[d])

LEMMA DriverOf == ASSUME DriverTyped, NEW d \in Drivers PROVE drv[d] \in DriverState
BY DEF DriverTyped

LEMMA IdleTyped == IdleDriver \in DriverState /\ AtStep(IdleDriver)
BY EngineAssumption DEF IdleDriver, DriverState, Versions, BroadcastId, AtStep

LEMMA Moves ==
  ASSUME NEW d \in Drivers, NEW r \in DriverState, AtStep(r), Become(d, r),
         DriverTyped, Placed
  PROVE  DriverTyped' /\ Placed'
BY DEF DriverTyped, Placed, Become, AtStep

LEMMA Rests ==
  ASSUME NEW d \in Drivers, Rest(d), DriverTyped, Placed
  PROVE  DriverTyped' /\ Placed'
BY IdleTyped, Moves DEF Rest

LEMMA Jobs ==
  ASSUME DriverTyped, version \in Versions, NEW d \in Drivers,
         NEW job \in Phase \cup {"none", "cancel"},
         NEW pc \in {"step", "next", "loop", "undo"}
  PROVE  Job(d, job, pc) \in DriverState /\ Job(d, job, pc).pc = pc
<1>1. drv[d].late \in BOOLEAN
  BY DriverOf DEF DriverState
<1>2. QED
  BY <1>1, IdleTyped, ZenonT(60) DEF Job, DriverState

LEMMA NextPasses ==
  ASSUME DriverTyped, NEW d \in Drivers
  PROVE  NextPass(d) \in DriverState /\ AtStep(NextPass(d))
<1>1. drv[d].late \in BOOLEAN
  BY DriverOf DEF DriverState
<1>2. CASE drv[d].again
  <2> DEFINE r == [IdleDriver EXCEPT !.pc = "step", !.again = TRUE, !.late = drv[d].late]
  <2>1. r \in DriverState /\ r.pc = "step"
    BY <1>1, IdleTyped DEF DriverState
  <2>2. QED
    BY <1>2, <2>1 DEF NextPass, AtStep
<1>3. CASE ~drv[d].again
  BY <1>3, IdleTyped DEF NextPass
<1>4. QED
  BY <1>2, <1>3

-----------------------------------------------------------------------------
(* Every action keeps the type invariant *)

WellTyped == TypeOK /\ Placed

LEMMA WellTypedDrivers == WellTyped => DriverTyped /\ Placed /\ version \in Versions
BY DEF WellTyped, TypeOK, DriverTyped

LEMMA StopPassTyped == ASSUME WellTyped, NEW d \in Drivers, StopPass(d) PROVE WellTyped'
<1>1. DriverTyped' /\ Placed'
  BY WellTypedDrivers, Rests DEF StopPass
<1>2. QED
  BY <1>1 DEF WellTyped, TypeOK, DriverTyped, StopPass, database, world

LEMMA BeginFailTyped == ASSUME WellTyped, NEW d \in Drivers, BeginFail(d) PROVE WellTyped'
<1> DEFINE r == [Job(d, "none", "undo") EXCEPT !.why = "failed", !.todo = ToUndo(version, Outputs)]
<1>1. Job(d, "none", "undo") \in DriverState /\ Job(d, "none", "undo").pc = "undo"
  BY WellTypedDrivers, Jobs
<1>2. r \in DriverState /\ AtStep(r)
  BY <1>1, UndoRows, ZenonT(60) DEF DriverState, TerminalStates, AtStep
<1>3. DriverTyped' /\ Placed'
  BY <1>2, WellTypedDrivers, Moves DEF BeginFail
<1>4. QED
  BY <1>3 DEF WellTyped, TypeOK, DriverTyped, BeginFail, database, world

LEMMA PreparesTyped ==
  ASSUME WellTyped, NEW d \in Drivers, NEW again \in BOOLEAN, Prepares(d, again)
  PROVE  DriverTyped' /\ Placed' /\ run' \in RunState
<1> DEFINE r == [Job(d, "prepare", "next") EXCEPT !.again = again, !.queue = Live(version)]
<1>1. Job(d, "prepare", "next") \in DriverState /\ Job(d, "prepare", "next").pc = "next"
  BY WellTypedDrivers, Jobs DEF Phase
<1>2. r \in DriverState /\ AtStep(r)
  BY <1>1, LiveOutputs, WellTypedDrivers, ZenonT(60) DEF DriverState, AtStep
<1>3. QED
  BY <1>2, WellTypedDrivers, Moves DEF Prepares, RunState

LEMMA BeginPrepareTyped == ASSUME WellTyped, NEW d \in Drivers, BeginPrepare(d) PROVE WellTyped'
<1>1. DriverTyped' /\ Placed' /\ run' \in RunState
  BY PreparesTyped DEF BeginPrepare
<1>2. QED
  BY <1>1 DEF WellTyped, TypeOK, DriverTyped, BeginPrepare, Prepares, world

LEMMA BeginStopTyped == ASSUME WellTyped, NEW d \in Drivers, BeginStop(d) PROVE WellTyped'
<1>1. PICK o \in StopsDue : Become(d, [Job(d, "stop", "loop") EXCEPT !.out = o])
  BY DEF BeginStop
<1> DEFINE r == [Job(d, "stop", "loop") EXCEPT !.out = o]
<1>2. Job(d, "stop", "loop") \in DriverState /\ Job(d, "stop", "loop").pc = "loop"
  BY WellTypedDrivers, Jobs DEF Phase
<1>3. o \in Outputs
  BY LiveOutputs, WellTypedDrivers DEF StopsDue
<1>4. r \in DriverState /\ AtStep(r)
  BY <1>2, <1>3, ZenonT(60) DEF DriverState, AtStep
<1>5. DriverTyped' /\ Placed'
  BY <1>1, <1>4, WellTypedDrivers, Moves
<1>6. QED
  BY <1>5 DEF WellTyped, TypeOK, DriverTyped, BeginStop, database, world

LEMMA MarkMissedTyped == ASSUME WellTyped, NEW d \in Drivers, MarkMissed(d) PROVE WellTyped'
<1>1. PICK o \in StartsDue :
        /\ row' = [s \in Seqs |-> IF s \in MineIn(version, o, "start") /\ row[s] = "pending"
                                   THEN "failed" ELSE row[s]]
        /\ Become(d, [Job(d, "start", "undo") EXCEPT !.out = o, !.why = "output",
                                                          !.todo = ToUndo(version, {o})])
  BY DEF MarkMissed
<1> DEFINE r == [Job(d, "start", "undo") EXCEPT !.out = o, !.why = "output",
                                                !.todo = ToUndo(version, {o})]
<1>2. Job(d, "start", "undo") \in DriverState /\ Job(d, "start", "undo").pc = "undo"
  BY WellTypedDrivers, Jobs DEF Phase
<1>3. o \in Outputs
  BY LiveOutputs, WellTypedDrivers DEF StartsDue
<1>4. r \in DriverState /\ AtStep(r)
  BY <1>2, <1>3, UndoRows, ZenonT(60) DEF DriverState, AtStep
<1>5. DriverTyped' /\ Placed'
  BY <1>1, <1>4, WellTypedDrivers, Moves
<1>6. row' \in [Seqs -> StepState]
  BY <1>1 DEF WellTyped, TypeOK, StepState
<1>7. QED
  BY <1>5, <1>6 DEF WellTyped, TypeOK, DriverTyped, MarkMissed, world

LEMMA BeginStartTyped == ASSUME WellTyped, NEW d \in Drivers, BeginStart(d) PROVE WellTyped'
<1>1. PICK o \in StartsDue : Become(d, [Job(d, "start", "loop") EXCEPT !.out = o])
  BY DEF BeginStart
<1> DEFINE r == [Job(d, "start", "loop") EXCEPT !.out = o]
<1>2. Job(d, "start", "loop") \in DriverState /\ Job(d, "start", "loop").pc = "loop"
  BY WellTypedDrivers, Jobs DEF Phase
<1>3. o \in Outputs
  BY LiveOutputs, WellTypedDrivers DEF StartsDue
<1>4. r \in DriverState /\ AtStep(r)
  BY <1>2, <1>3, ZenonT(60) DEF DriverState, AtStep
<1>5. DriverTyped' /\ Placed'
  BY <1>1, <1>4, WellTypedDrivers, Moves
<1>6. run' \in RunState
  BY DEF BeginStart, WellTyped, TypeOK, RunState
<1>7. QED
  BY <1>5, <1>6 DEF WellTyped, TypeOK, DriverTyped, BeginStart, world

LEMMA BeginCompleteTyped == ASSUME WellTyped, NEW d \in Drivers, BeginComplete(d) PROVE WellTyped'
<1> DEFINE r == [Job(d, "complete", "loop") EXCEPT !.good = Delivered]
<1>1. Job(d, "complete", "loop") \in DriverState /\ Job(d, "complete", "loop").pc = "loop"
  BY WellTypedDrivers, Jobs DEF Phase
<1>2. Delivered \in BOOLEAN
  BY DEF Delivered
<1>3. r \in DriverState /\ AtStep(r)
  BY <1>1, <1>2, ZenonT(60) DEF DriverState, AtStep
<1>4. DriverTyped' /\ Placed'
  BY <1>3, WellTypedDrivers, Moves DEF BeginComplete
<1>5. QED
  BY <1>4 DEF WellTyped, TypeOK, DriverTyped, BeginComplete, world, RunState

LEMMA PassTyped == ASSUME WellTyped, NEW d \in Drivers, Pass(d) PROVE WellTyped'
BY StopPassTyped, BeginFailTyped, BeginPrepareTyped, BeginStopTyped, MarkMissedTyped,
   BeginStartTyped, BeginCompleteTyped DEF Pass

LEMMA NextStepTyped == ASSUME WellTyped, NEW d \in Drivers, NextStep(d) PROVE WellTyped'
<1>1. drv[d] \in DriverState
  BY WellTypedDrivers, DriverOf
<1>2. PICK s \in Outstanding(d) :
        IF s \in Seqs
          THEN /\ row' = MarkedRunning(s)
               /\ Become(d, [drv[d] EXCEPT !.pc = "call", !.seq = s, !.att = 1,
                                           !.call = "sent", !.arg = Argument(drv[d].v, s)])
          ELSE Rest(d) /\ UNCHANGED row
  BY DEF NextStep
<1>3. s \in DOMAIN Plan[drv[d].v]
  BY DEF Outstanding
<1>4. (DriverTyped' /\ Placed') /\ row' \in [Seqs -> StepState]
  <2>1. CASE s \in Seqs
    <3> DEFINE r == [drv[d] EXCEPT !.pc = "call", !.seq = s, !.att = 1,
                                   !.call = "sent", !.arg = Argument(drv[d].v, s)]
    <3>1. s \in Nat /\ Argument(drv[d].v, s) \in BroadcastId
      BY <2>1, SeqsAreNumbers, Arguments DEF WellTyped, TypeOK
    <3>2. r \in DriverState /\ AtStep(r)
      BY <1>1, <1>3, <2>1, <3>1, ZenonT(60) DEF DriverState, AtStep
    <3>3. DriverTyped' /\ Placed'
      BY <1>2, <2>1, <3>2, WellTypedDrivers, Moves
    <3>4. row' \in [Seqs -> StepState]
      BY <1>2, <2>1 DEF WellTyped, TypeOK, StepState, MarkedRunning
    <3>5. QED
      BY <3>3, <3>4
  <2>2. CASE s \notin Seqs
    BY <1>2, <2>2, WellTypedDrivers, Rests DEF WellTyped, TypeOK
  <2>3. QED
    BY <2>1, <2>2
<1>5. QED
  BY <1>4 DEF WellTyped, TypeOK, DriverTyped, NextStep, world

LEMMA LoopDoneTyped == ASSUME WellTyped, NEW d \in Drivers, LoopDone(d) PROVE WellTyped'
<1>1. drv[d] \in DriverState /\ Is(d, "loop")
  BY WellTypedDrivers, DriverOf DEF LoopDone
<1>2. DriverTyped' /\ Placed' /\ run' \in RunState
  <2>1. CASE drv[d].job \in {"prepare", "cancel"}
    <3> DEFINE r == [drv[d] EXCEPT !.pc = "next", !.good = TRUE]
    <3>1. r \in DriverState /\ AtStep(r)
      BY <1>1, ZenonT(60) DEF DriverState, AtStep
    <3>2. Become(d, r) /\ run' = run
      BY <2>1 DEF LoopDone
    <3>3. QED
      BY <3>1, <3>2, WellTypedDrivers, Moves DEF WellTyped, TypeOK
  <2>2. CASE drv[d].job = "complete" /\ drv[d].good
    <3> DEFINE r == [drv[d] EXCEPT !.pc = "settle", !.why = "completed"]
    <3>1. r \in DriverState /\ AtStep(r)
      BY <1>1, ZenonT(60) DEF DriverState, TerminalStates, AtStep
    <3>2. CASE Accepts(run, "completed")
      BY <2>2, <3>1, <3>2, WellTypedDrivers, Moves DEF LoopDone, RunState, TerminalStates
    <3>3. CASE ~Accepts(run, "completed")
      BY <2>2, <3>3, WellTypedDrivers, Rests DEF LoopDone, WellTyped, TypeOK
    <3>4. QED
      BY <3>2, <3>3
  <2>3. CASE drv[d].job = "complete" /\ ~drv[d].good
    <3> DEFINE r == [drv[d] EXCEPT !.pc = "undo", !.why = "failed",
                                   !.todo = ToUndo(drv[d].v, Outputs)]
    <3>1. r \in DriverState /\ AtStep(r)
      BY <1>1, UndoRows, ZenonT(60) DEF DriverState, TerminalStates, AtStep
    <3>2. Become(d, r) /\ run' = run
      BY <2>3 DEF LoopDone
    <3>3. QED
      BY <3>1, <3>2, WellTypedDrivers, Moves DEF WellTyped, TypeOK
  <2>4. CASE drv[d].job \notin {"prepare", "cancel", "complete"}
    BY <2>4, WellTypedDrivers, NextPasses, Moves DEF LoopDone, WellTyped, TypeOK
  <2>5. QED
    BY <1>1, <2>1, <2>2, <2>3, <2>4
<1>3. QED
  BY <1>2 DEF WellTyped, TypeOK, DriverTyped, LoopDone, world

LEMMA Tells ==
  ASSUME told \subseteq Outputs \cup {0}, NEW x \in Outputs \cup {0}, Tell(x)
  PROVE  told' \subseteq Outputs \cup {0}
BY DEF Tell

LEMMA StepFailedTyped == ASSUME WellTyped, NEW d \in Drivers, StepFailed(d) PROVE WellTyped'
<1>1. drv[d] \in DriverState
  BY WellTypedDrivers, DriverOf
<1>2. drv[d].out \in Outputs \cup {0}
  BY <1>1 DEF DriverState
<1>3. DriverTyped' /\ Placed' /\ told' \subseteq Outputs \cup {0}
  <2>1. CASE drv[d].job \in {"prepare", "start"}
    <3> DEFINE r == [drv[d] EXCEPT !.pc = "undo", !.why = "output",
                                   !.todo = ToUndo(drv[d].v, {drv[d].out})]
    <3>1. r \in DriverState /\ AtStep(r)
      BY <1>1, UndoRows, ZenonT(60) DEF DriverState, AtStep
    <3>2. Become(d, r) /\ told' = told
      BY <2>1 DEF StepFailed
    <3>3. QED
      BY <3>1, <3>2, WellTypedDrivers, Moves DEF WellTyped, TypeOK
  <2>2. CASE drv[d].job = "stop"
    <3>1. Become(d, NextPass(d)) /\ Tell(drv[d].out)
      BY <2>2 DEF StepFailed
    <3>2. QED
      BY <1>2, <3>1, WellTypedDrivers, NextPasses, Moves, Tells DEF WellTyped, TypeOK
  <2>3. CASE drv[d].job = "complete"
    <3> DEFINE r == [drv[d] EXCEPT !.pc = "undo", !.why = "failed",
                                   !.todo = ToUndo(drv[d].v, Outputs)]
    <3>1. r \in DriverState /\ AtStep(r)
      BY <1>1, UndoRows, ZenonT(60) DEF DriverState, TerminalStates, AtStep
    <3>2. Become(d, r) /\ told' = told
      BY <2>3 DEF StepFailed
    <3>3. QED
      BY <3>1, <3>2, WellTypedDrivers, Moves DEF WellTyped, TypeOK
  <2>4. CASE drv[d].job \notin {"prepare", "start", "stop", "complete"}
    <3> DEFINE r == [drv[d] EXCEPT !.pc = "next"]
    <3>1. r \in DriverState /\ AtStep(r)
      BY <1>1, ZenonT(60) DEF DriverState, AtStep
    <3>2. Become(d, r) /\ told' = told
      BY <2>4 DEF StepFailed
    <3>3. QED
      BY <3>1, <3>2, WellTypedDrivers, Moves DEF WellTyped, TypeOK
  <2>5. QED
    BY <2>1, <2>2, <2>3, <2>4
<1>4. QED
  BY <1>3 DEF WellTyped, TypeOK, DriverTyped, StepFailed, world

LEMMA NextOutputTyped == ASSUME WellTyped, NEW d \in Drivers, NextOutput(d) PROVE WellTyped'
<1>1. drv[d] \in DriverState
  BY WellTypedDrivers, DriverOf
<1>2. PICK o \in drv[d].queue :
        Become(d, [drv[d] EXCEPT !.pc = "loop", !.out = o, !.seq = 0, !.queue = @ \ {o}])
  BY DEF NextOutput
<1> DEFINE r == [drv[d] EXCEPT !.pc = "loop", !.out = o, !.seq = 0, !.queue = @ \ {o}]
<1>3. o \in Outputs /\ drv[d].queue \ {o} \subseteq Outputs
  BY <1>1 DEF DriverState
<1>4. r \in DriverState /\ AtStep(r)
  BY <1>1, <1>3, ZenonT(60) DEF DriverState, AtStep
<1>5. DriverTyped' /\ Placed'
  BY <1>2, <1>4, WellTypedDrivers, Moves
<1>6. QED
  BY <1>5 DEF WellTyped, TypeOK, DriverTyped, NextOutput, database, world

LEMMA OutputsDoneTyped == ASSUME WellTyped, NEW d \in Drivers, OutputsDone(d) PROVE WellTyped'
<1>1. drv[d] \in DriverState
  BY WellTypedDrivers, DriverOf
<1>2. DriverTyped' /\ Placed' /\ run' \in RunState
  <2>1. CASE drv[d].job = "prepare" /\ drv[d].good
    <3>1. CASE Accepts(run, "ready")
      BY <2>1, <3>1, WellTypedDrivers, NextPasses, Moves DEF OutputsDone, RunState
    <3>2. CASE ~Accepts(run, "ready")
      BY <2>1, <3>2, WellTypedDrivers, Rests DEF OutputsDone, WellTyped, TypeOK
    <3>3. QED
      BY <3>1, <3>2
  <2>2. CASE drv[d].job = "prepare" /\ ~drv[d].good
    <3> DEFINE r == [drv[d] EXCEPT !.pc = "undo", !.why = "failed",
                                   !.todo = ToUndo(drv[d].v, Outputs)]
    <3>1. r \in DriverState /\ AtStep(r)
      BY <1>1, UndoRows, ZenonT(60) DEF DriverState, TerminalStates, AtStep
    <3>2. Become(d, r) /\ run' = run
      BY <2>2 DEF OutputsDone
    <3>3. QED
      BY <3>1, <3>2, WellTypedDrivers, Moves DEF WellTyped, TypeOK
  <2>3. CASE drv[d].job # "prepare"
    <3> DEFINE r == [drv[d] EXCEPT !.pc = "settle", !.why = "cancelled"]
    <3>1. r \in DriverState /\ AtStep(r)
      BY <1>1, ZenonT(60) DEF DriverState, TerminalStates, AtStep
    <3>2. CASE Accepts(run, "cancelled")
      BY <2>3, <3>1, <3>2, WellTypedDrivers, Moves DEF OutputsDone, RunState, TerminalStates
    <3>3. CASE ~Accepts(run, "cancelled")
      BY <2>3, <3>3, WellTypedDrivers, Rests DEF OutputsDone, WellTyped, TypeOK
    <3>4. QED
      BY <3>2, <3>3
  <2>4. QED
    BY <2>1, <2>2, <2>3
<1>3. QED
  BY <1>2 DEF WellTyped, TypeOK, DriverTyped, OutputsDone, world

LEMMA Calls ==
  ASSUME WellTyped, NEW d \in Drivers, Is(d, "call")
  PROVE  /\ drv[d] \in DriverState
         /\ drv[d].seq \in Seqs
         /\ StepOf(d) \in StepDefinition(Outputs)
         /\ StepOf(d).output \in Outputs
<1>1. drv[d] \in DriverState
  BY WellTypedDrivers, DriverOf
<1>2. drv[d].seq \in Seqs /\ drv[d].seq \in DOMAIN Plan[drv[d].v]
  BY DEF WellTyped, Placed, AtStep, Is
<1>3. drv[d].v \in Versions
  BY <1>1 DEF DriverState
<1>4. StepOf(d) \in StepDefinition(Outputs)
  BY <1>2, <1>3, Steps DEF StepOf
<1>5. QED
  BY <1>1, <1>2, <1>4 DEF StepDefinition

LEMMA AnsweredTyped ==
  ASSUME WellTyped, NEW d \in Drivers, Answered(d)
  PROVE  DriverTyped' /\ Placed'
<1> DEFINE r == [drv[d] EXCEPT !.call = "landed"]
<1>1. drv[d] \in DriverState /\ AtStep(drv[d])
  BY WellTypedDrivers, DriverOf DEF Placed
<1>2. r \in DriverState /\ AtStep(r)
  BY <1>1, ZenonT(60) DEF DriverState, AtStep
<1>3. QED
  BY <1>2, WellTypedDrivers, Moves DEF Answered

LEMMA LookForBroadcastTyped ==
  ASSUME WellTyped, NEW d \in Drivers, LookForBroadcast(d) PROVE WellTyped'
<1>1. drv[d] \in DriverState /\ AtStep(drv[d])
  BY WellTypedDrivers, DriverOf DEF Placed
<1>2. DriverTyped' /\ Placed'
  <2> DEFINE found == Matching(channel, Slot[StepOf(d).output])
  <2>1. CASE found = {}
    <3> DEFINE r == [drv[d] EXCEPT !.call = "absent"]
    <3>1. r \in DriverState /\ AtStep(r)
      BY <1>1, ZenonT(60) DEF DriverState, AtStep
    <3>2. QED
      BY <2>1, <3>1, WellTypedDrivers, Moves DEF LookForBroadcast
  <2>2. CASE found # {}
    <3>1. PICK b \in found : Become(d, [drv[d] EXCEPT !.call = "landed", !.arg = b])
      BY <2>2 DEF LookForBroadcast
    <3> DEFINE r == [drv[d] EXCEPT !.call = "landed", !.arg = b]
    <3>2. b \in BroadcastId
      BY <3>1, EngineAssumption DEF Matching, Broadcast, BroadcastId
    <3>3. r \in DriverState /\ AtStep(r)
      BY <1>1, <3>2, ZenonT(60) DEF DriverState, AtStep
    <3>4. QED
      BY <3>1, <3>3, WellTypedDrivers, Moves
  <2>3. QED
    BY <2>1, <2>2
<1>3. QED
  BY <1>2 DEF WellTyped, TypeOK, DriverTyped, LookForBroadcast, database, world

LEMMA CreateBroadcastTyped ==
  ASSUME WellTyped, NEW d \in Drivers, CreateBroadcast(d) PROVE WellTyped'
<1>1. drv[d] \in DriverState /\ AtStep(drv[d]) /\ StepOf(d).output \in Outputs
  BY WellTypedDrivers, Calls DEF Placed, CreateBroadcast, Calling
<1>2. PICK b \in FreshIds(channel) :
        /\ channel' = Inserted(channel, b, Slot[StepOf(d).output])
        /\ Become(d, [drv[d] EXCEPT !.call = "landed", !.arg = b])
  BY DEF CreateBroadcast
<1> DEFINE r == [drv[d] EXCEPT !.call = "landed", !.arg = b]
<1>3. b \in BroadcastId
  BY <1>2, EngineAssumption DEF FreshIds, Broadcast, BroadcastId
<1>4. r \in DriverState /\ AtStep(r)
  BY <1>1, <1>3, ZenonT(60) DEF DriverState, AtStep
<1>5. DriverTyped' /\ Placed'
  BY <1>2, <1>4, WellTypedDrivers, Moves
<1>6. Slot[StepOf(d).output] \in Slots
  BY <1>1, EngineAssumption
<1>7. channel' \in ChannelType
  BY <1>2, <1>6 DEF Inserted, ChannelType, BroadcastState, WellTyped, TypeOK
<1>8. QED
  BY <1>5, <1>7 DEF WellTyped, TypeOK, DriverTyped, CreateBroadcast, database

EncoderTyped == encoder \in [Devices -> [active : BOOLEAN, target : BroadcastId]]

LEMMA EncoderOf ==
  ASSUME EncoderTyped, NEW o \in Outputs
  PROVE  /\ Device[o] \in Devices
         /\ encoder[Device[o]] \in [active : BOOLEAN, target : BroadcastId]
BY EngineAssumption DEF EncoderTyped

LEMMA PointEncoderTyped == ASSUME WellTyped, NEW d \in Drivers, PointEncoder(d) PROVE WellTyped'
<1>1. drv[d].arg \in BroadcastId /\ StepOf(d).output \in Outputs
  BY Calls DEF PointEncoder, Calling, DriverState
<1>2. DriverTyped' /\ Placed'
  BY AnsweredTyped DEF PointEncoder
<1>3. EncoderTyped'
  BY <1>1, EncoderOf DEF PointEncoder, EncoderTyped, WellTyped, TypeOK
<1>4. QED
  BY <1>2, <1>3 DEF WellTyped, TypeOK, DriverTyped, EncoderTyped, PointEncoder, database

LEMMA StartEncoderTyped == ASSUME WellTyped, NEW d \in Drivers, StartEncoder(d) PROVE WellTyped'
<1>1. StepOf(d).output \in Outputs
  BY Calls DEF StartEncoder, Calling
<1>2. DriverTyped' /\ Placed'
  BY AnsweredTyped DEF StartEncoder
<1>3. EncoderTyped'
  BY <1>1, EncoderOf DEF StartEncoder, EncoderTyped, WellTyped, TypeOK
<1>4. channel' \in ChannelType
  BY Channels DEF StartEncoder, VideoArrives, BroadcastState, WellTyped, TypeOK
<1>5. QED
  BY <1>2, <1>3, <1>4 DEF WellTyped, TypeOK, DriverTyped, EncoderTyped, StartEncoder, database

LEMMA StopEncoderTyped == ASSUME WellTyped, NEW d \in Drivers, StopEncoder(d) PROVE WellTyped'
<1>1. StepOf(d).output \in Outputs
  BY Calls DEF StopEncoder, Calling
<1>2. DriverTyped' /\ Placed'
  BY AnsweredTyped DEF StopEncoder
<1>3. EncoderTyped'
  BY <1>1, EncoderOf DEF StopEncoder, EncoderTyped, WellTyped, TypeOK
<1>4. channel' \in ChannelType
  BY Channels DEF StopEncoder, VideoStops, BroadcastState, WellTyped, TypeOK
<1>5. QED
  BY <1>2, <1>3, <1>4 DEF WellTyped, TypeOK, DriverTyped, EncoderTyped, StopEncoder, database

LEMMA CloseBroadcastTyped ==
  ASSUME WellTyped, NEW d \in Drivers, CloseBroadcast(d) PROVE WellTyped'
<1>1. DriverTyped' /\ Placed'
  BY AnsweredTyped DEF CloseBroadcast
<1>2. QED
  BY <1>1 DEF WellTyped, TypeOK, DriverTyped, CloseBroadcast, database, world

LEMMA CallOkTyped == ASSUME WellTyped, NEW d \in Drivers, CallOk(d) PROVE WellTyped'
<1>1. drv[d] \in DriverState /\ StepOf(d).output \in Outputs
  BY Calls DEF CallOk
<1> DEFINE r == [drv[d] EXCEPT !.pc = "loop", !.att = 0, !.call = "none", !.arg = 0]
<1>2. r \in DriverState /\ AtStep(r)
  BY <1>1, NoBroadcastTyped, ZenonT(60) DEF DriverState, AtStep
<1>3. DriverTyped' /\ Placed'
  BY <1>2, WellTypedDrivers, Moves DEF CallOk
<1>4. row' \in [Seqs -> StepState] /\ ext' \in [Seqs -> BroadcastId]
  <2>1. row' \in [Seqs -> StepState]
    BY DEF CallOk, WellTyped, TypeOK, StepState
  <2>2. (IF StepOf(d).kind = "prepare" THEN drv[d].arg ELSE 0) \in BroadcastId
    BY <1>1, NoBroadcastTyped DEF DriverState
  <2>3. ext' \in [Seqs -> BroadcastId]
    BY <2>2 DEF CallOk, WellTyped, TypeOK
  <2>4. QED
    BY <2>1, <2>3
<1>5. vault' \subseteq Outputs
  BY <1>1 DEF CallOk, VaultAfter, WellTyped, TypeOK
<1>6. QED
  BY <1>3, <1>4, <1>5 DEF WellTyped, TypeOK, DriverTyped, CallOk, world

LEMMA CallFailedTyped ==
  ASSUME WellTyped, NEW d \in Drivers, Is(d, "call"), CallFailed(d)
  PROVE  DriverTyped' /\ Placed' /\ row' \in [Seqs -> StepState]
<1>1. drv[d] \in DriverState /\ AtStep(drv[d])
  BY Calls, WellTypedDrivers DEF Placed
<1>2. CASE drv[d].att < MaxAttempts
  <2> DEFINE a == Argument(drv[d].v, drv[d].seq)
             r == [drv[d] EXCEPT !.att = @ + 1, !.call = "sent", !.arg = a]
  <2>1. a \in BroadcastId /\ drv[d].att + 1 \in Nat
    BY <1>1, Arguments DEF WellTyped, TypeOK, DriverState
  <2> HIDE DEF a
  <2>2. r \in DriverState /\ AtStep(r)
    <3>1. r \in DriverState
      BY <1>1, <2>1 DEF DriverState
    <3>2. r.pc = drv[d].pc /\ r.seq = drv[d].seq /\ r.v = drv[d].v
      BY <1>1 DEF DriverState
    <3>3. QED
      BY <1>1, <3>1, <3>2 DEF AtStep
  <2>3. DriverTyped' /\ Placed'
    BY <1>2, <2>2, WellTypedDrivers, Moves DEF CallFailed, a
  <2>4. row' \in [Seqs -> StepState]
    BY <1>2 DEF CallFailed, MarkedRunning, WellTyped, TypeOK, StepState
  <2>5. QED
    BY <2>3, <2>4
<1>3. CASE ~(drv[d].att < MaxAttempts)
  <2> DEFINE r == [drv[d] EXCEPT !.pc = "failed", !.att = 0, !.call = "none", !.arg = 0]
  <2>1. r \in DriverState /\ AtStep(r)
    BY <1>1, NoBroadcastTyped, ZenonT(60) DEF DriverState, AtStep
  <2>2. DriverTyped' /\ Placed'
    BY <1>3, <2>1, WellTypedDrivers, Moves DEF CallFailed
  <2>3. row' \in [Seqs -> StepState]
    BY <1>3 DEF CallFailed, WellTyped, TypeOK, StepState
  <2>4. QED
    BY <2>2, <2>3
<1>4. QED
  BY <1>2, <1>3

LeftState == [faults : 0..MaxFaults, crashes : 0..MaxCrashes, edits : 0..MaxEdits,
              presses : 0..MaxPresses]
LeftTyped == left \in LeftState

LEMMA OneLess ==
  ASSUME NEW max \in Nat, NEW n \in 0..max, n > 0 PROVE n - 1 \in 0..max
OBVIOUS

LEMMA LeftSpent ==
  ASSUME LeftTyped
  PROVE  /\ left.faults > 0 => [left EXCEPT !.faults = @ - 1] \in LeftState
         /\ left.crashes > 0 => [left EXCEPT !.crashes = @ - 1] \in LeftState
         /\ left.edits > 0 => [left EXCEPT !.edits = @ - 1] \in LeftState
         /\ left.presses > 0 => [left EXCEPT !.presses = @ - 1] \in LeftState
<1> USE DEF LeftTyped, LeftState
<1>1. /\ left.faults \in 0..MaxFaults /\ left.crashes \in 0..MaxCrashes
      /\ left.edits \in 0..MaxEdits /\ left.presses \in 0..MaxPresses
  OBVIOUS
<1>2. ASSUME left.faults > 0 PROVE [left EXCEPT !.faults = @ - 1] \in LeftState
  <2>1. left.faults - 1 \in 0..MaxFaults
    BY <1>1, <1>2, OneLess, EngineAssumption
  <2>2. QED
    BY <2>1
<1>3. ASSUME left.crashes > 0 PROVE [left EXCEPT !.crashes = @ - 1] \in LeftState
  <2>1. left.crashes - 1 \in 0..MaxCrashes
    BY <1>1, <1>3, OneLess, EngineAssumption
  <2>2. QED
    BY <2>1
<1>4. ASSUME left.edits > 0 PROVE [left EXCEPT !.edits = @ - 1] \in LeftState
  <2>1. left.edits - 1 \in 0..MaxEdits
    BY <1>1, <1>4, OneLess, EngineAssumption
  <2>2. QED
    BY <2>1
<1>5. ASSUME left.presses > 0 PROVE [left EXCEPT !.presses = @ - 1] \in LeftState
  <2>1. left.presses - 1 \in 0..MaxPresses
    BY <1>1, <1>5, OneLess, EngineAssumption
  <2>2. QED
    BY <2>1
<1>6. QED
  BY <1>2, <1>3, <1>4, <1>5

LEMMA FaultTyped == ASSUME WellTyped, NEW d \in Drivers, Fault(d) PROVE WellTyped'
<1>1. DriverTyped' /\ Placed' /\ row' \in [Seqs -> StepState]
  BY CallFailedTyped DEF Fault
<1>2. LeftTyped'
  BY LeftSpent DEF Fault, LeftTyped, LeftState, WellTyped, TypeOK
<1>3. vault' \subseteq Outputs
  BY DEF Fault, WellTyped, TypeOK
<1>4. QED
  BY <1>1, <1>2, <1>3 DEF WellTyped, TypeOK, DriverTyped, LeftTyped, LeftState, Fault, CallFailed, world

LEMMA NoTargetTyped == ASSUME WellTyped, NEW d \in Drivers, NoTarget(d) PROVE WellTyped'
<1>1. DriverTyped' /\ Placed' /\ row' \in [Seqs -> StepState]
  BY CallFailedTyped DEF NoTarget, Calling
<1>2. QED
  BY <1>1 DEF WellTyped, TypeOK, DriverTyped, NoTarget, CallFailed, world

LEMMA CallTyped == ASSUME WellTyped, NEW d \in Drivers, Call(d) PROVE WellTyped'
BY LookForBroadcastTyped, CreateBroadcastTyped, PointEncoderTyped, StartEncoderTyped,
   StopEncoderTyped, CloseBroadcastTyped, CallOkTyped, FaultTyped, NoTargetTyped DEF Call

LEMMA UndoStepTyped == ASSUME WellTyped, NEW d \in Drivers, UndoStep(d) PROVE WellTyped'
<1>1. drv[d] \in DriverState /\ AtStep(drv[d]) /\ Is(d, "undo")
  BY WellTypedDrivers, DriverOf DEF Placed, UndoStep
<1>2. PICK s \in drv[d].todo :
        LET o == Plan[drv[d].v][s].output IN
          /\ vault' = vault \ {o}
          /\ IF PreparedId(o) = 0
               THEN /\ row' = [row EXCEPT ![s] = "compensated"]
                    /\ Become(d, [drv[d] EXCEPT !.todo = @ \ {s}])
               ELSE /\ Become(d, [drv[d] EXCEPT !.pc = "undoing", !.seq = s, !.call = "sent",
                                                !.arg = PreparedId(o), !.todo = @ \ {s}])
                    /\ UNCHANGED row
  BY DEF UndoStep
<1> DEFINE o == Plan[drv[d].v][s].output
<1>3. s \in Nat /\ drv[d].todo \ {s} \subseteq Seqs
  BY <1>1, SeqsAreNumbers DEF DriverState
<1>4. DriverTyped' /\ Placed' /\ row' \in [Seqs -> StepState]
  <2>1. CASE PreparedId(o) = 0
    <3> DEFINE r == [drv[d] EXCEPT !.todo = @ \ {s}]
    <3>1. r \in DriverState /\ AtStep(r)
      BY <1>1, <1>3, ZenonT(60) DEF DriverState, AtStep
    <3>2. Become(d, r) /\ row' = [row EXCEPT ![s] = "compensated"]
      BY <1>2, <2>1
    <3>3. DriverTyped' /\ Placed'
      BY <3>1, <3>2, WellTypedDrivers, Moves
    <3>4. QED
      BY <3>2, <3>3 DEF WellTyped, TypeOK, StepState
  <2>2. CASE PreparedId(o) # 0
    <3> DEFINE b == PreparedId(o)
               r == [drv[d] EXCEPT !.pc = "undoing", !.seq = s, !.call = "sent",
                                   !.arg = b, !.todo = @ \ {s}]
    <3>1. b \in BroadcastId
      BY PreparedIds DEF WellTyped, TypeOK
    <3>2. r \in DriverState /\ AtStep(r)
      BY <1>1, <1>3, <3>1, ZenonT(60) DEF DriverState, AtStep
    <3>3. Become(d, r) /\ row' = row
      BY <1>2, <2>2
    <3>4. DriverTyped' /\ Placed'
      BY <3>2, <3>3, WellTypedDrivers, Moves
    <3>5. QED
      BY <3>3, <3>4 DEF WellTyped, TypeOK
  <2>3. QED
    BY <2>1, <2>2
<1>5. vault' \subseteq Outputs
  BY <1>2 DEF WellTyped, TypeOK
<1>6. QED
  BY <1>4, <1>5 DEF WellTyped, TypeOK, DriverTyped, UndoStep, world

LEMMA DiscardBroadcastTyped ==
  ASSUME WellTyped, NEW d \in Drivers, DiscardBroadcast(d) PROVE WellTyped'
<1>1. DriverTyped' /\ Placed'
  BY AnsweredTyped DEF DiscardBroadcast
<1>2. channel' \in ChannelType
  BY DEF DiscardBroadcast, Discarded, ChannelType, BroadcastState, WellTyped, TypeOK
<1>3. QED
  BY <1>1, <1>2 DEF WellTyped, TypeOK, DriverTyped, DiscardBroadcast, database

LEMMA UndoneTyped ==
  ASSUME WellTyped, NEW d \in Drivers, Is(d, "undoing"), NEW state \in StepState, Undone(d, state)
  PROVE  DriverTyped' /\ Placed' /\ row' \in [Seqs -> StepState]
<1> DEFINE r == [drv[d] EXCEPT !.pc = "undo", !.call = "none", !.arg = 0]
<1>1. drv[d] \in DriverState
  BY WellTypedDrivers, DriverOf
<1>2. r \in DriverState /\ AtStep(r)
  BY <1>1, NoBroadcastTyped, ZenonT(60) DEF DriverState, AtStep
<1>3. DriverTyped' /\ Placed'
  BY <1>2, WellTypedDrivers, Moves DEF Undone
<1>4. QED
  BY <1>3 DEF Undone, WellTyped, TypeOK

LEMMA UndoOkTyped == ASSUME WellTyped, NEW d \in Drivers, UndoOk(d) PROVE WellTyped'
<1>1. DriverTyped' /\ Placed' /\ row' \in [Seqs -> StepState]
  BY UndoneTyped DEF UndoOk, StepState
<1>2. QED
  BY <1>1 DEF WellTyped, TypeOK, DriverTyped, UndoOk, Undone, world

LEMMA UndoFaultTyped == ASSUME WellTyped, NEW d \in Drivers, UndoFault(d) PROVE WellTyped'
<1>1. PICK state \in {row[drv[d].seq], "compensated"} : Undone(d, state)
  BY DEF UndoFault
<1>2. DriverTyped' /\ Placed' /\ row' \in [Seqs -> StepState]
  <2>1. CASE state = "compensated"
    BY <1>1, <2>1, UndoneTyped DEF UndoFault, StepState
  <2>2. CASE state = row[drv[d].seq] /\ drv[d].seq \in Seqs
    <3>1. state \in StepState
      BY <2>2 DEF WellTyped, TypeOK
    <3>2. QED
      BY <1>1, <3>1, UndoneTyped DEF UndoFault
  <2>3. CASE state = row[drv[d].seq] /\ drv[d].seq \notin Seqs
    <3>1. row' = row
      BY <1>1, <2>3 DEF Undone, WellTyped, TypeOK
    <3>2. Undone(d, "compensated")
      BY <1>1, <2>3, <3>1, ZenonT(60) DEF Undone, WellTyped, TypeOK
    <3>3. QED
      BY <3>2, UndoneTyped DEF UndoFault, StepState
  <2>4. QED
    BY <1>1, <2>1, <2>2, <2>3
<1>3. LeftTyped'
  BY LeftSpent DEF UndoFault, LeftTyped, LeftState, WellTyped, TypeOK
<1>4. QED
  BY <1>1, <1>2, <1>3
     DEF WellTyped, TypeOK, DriverTyped, LeftTyped, LeftState, UndoFault, Undone, world

LEMMA UndoDoneTyped == ASSUME WellTyped, NEW d \in Drivers, UndoDone(d) PROVE WellTyped'
<1>1. drv[d] \in DriverState
  BY WellTypedDrivers, DriverOf
<1>2. DriverTyped' /\ Placed' /\ run' \in RunState /\ told' \subseteq Outputs \cup {0}
  <2>1. CASE drv[d].why = "output"
    <3> DEFINE r == IF drv[d].job = "prepare"
                      THEN [drv[d] EXCEPT !.pc = "next", !.why = "none"] ELSE NextPass(d)
    <3>1. Become(d, r) /\ Tell(drv[d].out) /\ run' = run
      BY <2>1 DEF UndoDone
    <3>2. [drv[d] EXCEPT !.pc = "next", !.why = "none"] \in DriverState
          /\ AtStep([drv[d] EXCEPT !.pc = "next", !.why = "none"])
      BY <1>1, ZenonT(60) DEF DriverState, AtStep
    <3>3. r \in DriverState /\ AtStep(r)
      BY <3>2, WellTypedDrivers, NextPasses
    <3>4. DriverTyped' /\ Placed'
      BY <3>1, <3>3, WellTypedDrivers, Moves
    <3>5. drv[d].out \in Outputs \cup {0}
      BY <1>1 DEF DriverState
    <3>6. QED
      BY <3>1, <3>4, <3>5, Tells DEF WellTyped, TypeOK
  <2>2. CASE drv[d].why # "output" /\ Accepts(run, drv[d].why)
    <3> DEFINE r == [drv[d] EXCEPT !.pc = "settle"]
    <3>1. r \in DriverState /\ AtStep(r)
      BY <1>1, ZenonT(60) DEF DriverState, AtStep
    <3>2. Become(d, r) /\ run' = drv[d].why /\ told' = told
      BY <2>2 DEF UndoDone
    <3>3. DriverTyped' /\ Placed'
      BY <3>1, <3>2, WellTypedDrivers, Moves
    <3>4. QED
      BY <2>2, <3>2, <3>3, Accepted DEF WellTyped, TypeOK
  <2>3. CASE drv[d].why # "output" /\ ~Accepts(run, drv[d].why)
    BY <2>3, WellTypedDrivers, Rests DEF UndoDone, WellTyped, TypeOK
  <2>4. QED
    BY <2>1, <2>2, <2>3
<1>3. QED
  BY <1>2 DEF WellTyped, TypeOK, DriverTyped, UndoDone, world

LEMMA SettleTyped == ASSUME WellTyped, NEW d \in Drivers, Settle(d) PROVE WellTyped'
<1>1. DriverTyped' /\ Placed'
  BY WellTypedDrivers, Rests DEF Settle
<1>2. told' \subseteq Outputs \cup {0}
  BY Tells DEF Settle, WellTyped, TypeOK
<1>3. occ' \in {"running", "done", "failed", "cancelled"}
  BY DEF Settle
<1>4. QED
  BY <1>1, <1>2, <1>3 DEF WellTyped, TypeOK, DriverTyped, Settle, world

LEMMA WorkTyped == ASSUME WellTyped, NEW d \in Drivers, Work(d) PROVE WellTyped'
BY PassTyped, NextStepTyped, LoopDoneTyped, StepFailedTyped, NextOutputTyped, OutputsDoneTyped,
   CallTyped, UndoStepTyped, DiscardBroadcastTyped, UndoOkTyped, UndoFaultTyped, UndoDoneTyped,
   SettleTyped DEF Work, Undo

LEMMA CancelTyped == ASSUME WellTyped, NEW d \in Drivers, Cancel(d) PROVE WellTyped'
<1>1. version \in Versions
  BY WellTypedDrivers
<1> DEFINE started == {o \in Live(version) : Progress(version, o) = "started"}
           r1 == [Job(d, "cancel", "next") EXCEPT !.again = FALSE, !.queue = started]
           r2 == [Job(d, "cancel", "undo") EXCEPT !.again = FALSE, !.why = "cancelled",
                                                  !.todo = ToUndo(version, Outputs)]
<1>2. Job(d, "cancel", "next") \in DriverState /\ Job(d, "cancel", "next").pc = "next"
      /\ Job(d, "cancel", "undo") \in DriverState /\ Job(d, "cancel", "undo").pc = "undo"
  BY WellTypedDrivers, Jobs
<1>3. started \subseteq Outputs
  BY <1>1, LiveOutputs
<1>4. r1 \in DriverState /\ AtStep(r1)
  BY <1>2, <1>3, ZenonT(60) DEF DriverState, AtStep
<1>5. r2 \in DriverState /\ AtStep(r2)
  <2> DEFINE j == Job(d, "cancel", "undo")
             rows == ToUndo(version, Outputs)
  <2>1. j \in DriverState /\ j.pc = "undo" /\ rows \in SUBSET Seqs
        /\ "cancelled" \in {"none", "output"} \cup TerminalStates
    BY <1>2, UndoRows DEF TerminalStates
  <2> HIDE DEF j, rows
  <2>2. [j EXCEPT !.again = FALSE, !.why = "cancelled", !.todo = rows] \in DriverState
    BY <2>1 DEF DriverState
  <2>3. [j EXCEPT !.again = FALSE, !.why = "cancelled", !.todo = rows].pc = "undo"
    BY <2>1 DEF DriverState
  <2>4. r2 \in DriverState /\ r2.pc = "undo"
    BY <2>2, <2>3 DEF j, rows
  <2>5. QED
    BY <2>4 DEF AtStep
<1>6. Become(d, r1) \/ Become(d, r2)
  BY DEF Cancel
<1>7. DriverTyped' /\ Placed'
  BY <1>4, <1>5, <1>6, WellTypedDrivers, Moves
<1>8. LeftTyped'
  BY LeftSpent DEF Cancel, Press, LeftTyped, LeftState, WellTyped, TypeOK
<1>9. QED
  BY <1>7, <1>8 DEF WellTyped, TypeOK, DriverTyped, LeftTyped, LeftState, Cancel, database, world

LEMMA PrepareNowTyped == ASSUME WellTyped, NEW d \in Drivers, PrepareNow(d) PROVE WellTyped'
<1>1. DriverTyped' /\ Placed' /\ run' \in RunState
  BY PreparesTyped DEF PrepareNow
<1>2. LeftTyped'
  BY LeftSpent DEF PrepareNow, Press, LeftTyped, LeftState, WellTyped, TypeOK
<1>3. QED
  BY <1>1, <1>2
     DEF WellTyped, TypeOK, DriverTyped, LeftTyped, LeftState, PrepareNow, Prepares, world

LEMMA StartNowTyped == ASSUME WellTyped, NEW d \in Drivers, StartNow(d) PROVE WellTyped'
<1> DEFINE r == [Job(d, "none", "step") EXCEPT !.v = 1]
<1>1. Job(d, "none", "step") \in DriverState /\ Job(d, "none", "step").pc = "step"
  BY WellTypedDrivers, Jobs
<1>2. r \in DriverState /\ AtStep(r)
  BY <1>1 DEF DriverState, Versions, AtStep
<1>3. DriverTyped' /\ Placed'
  BY <1>2, WellTypedDrivers, Moves DEF StartNow
<1>4. LeftTyped'
  BY LeftSpent DEF StartNow, Press, LeftTyped, LeftState, WellTyped, TypeOK
<1>5. QED
  BY <1>3, <1>4 DEF WellTyped, TypeOK, DriverTyped, LeftTyped, LeftState, StartNow, database, world

LEMMA EditEventTyped == ASSUME WellTyped, EditEvent PROVE WellTyped'
<1>1. LeftTyped'
  BY LeftSpent DEF EditEvent, LeftTyped, LeftState, WellTyped, TypeOK
<1>2. Placed'
  BY DEF EditEvent, WellTyped, Placed, AtStep
<1>3. QED
  BY <1>1, <1>2 DEF WellTyped, TypeOK, LeftTyped, LeftState, EditEvent, Versions, world

LEMMA OverrunTyped == ASSUME WellTyped, NEW d \in Drivers, Overrun(d) PROVE WellTyped'
<1> DEFINE r == [drv[d] EXCEPT !.late = TRUE]
<1>1. drv[d] \in DriverState /\ AtStep(drv[d])
  BY WellTypedDrivers, DriverOf DEF Placed
<1>2. r \in DriverState /\ AtStep(r)
  BY <1>1, ZenonT(60) DEF DriverState, AtStep
<1>3. DriverTyped' /\ Placed'
  BY <1>2, WellTypedDrivers, Moves DEF Overrun
<1>4. QED
  BY <1>3 DEF WellTyped, TypeOK, DriverTyped, Overrun, database, world

LEMMA ClockTyped == ASSUME WellTyped, Clock PROVE WellTyped'
<1>1. now' \in 0..MaxTime
  BY EngineAssumption DEF Clock, WellTyped, TypeOK
<1>2. Placed'
  BY DEF Clock, WellTyped, Placed, AtStep
<1>3. QED
  BY <1>1, <1>2 DEF WellTyped, TypeOK, Clock, database, world

LEMMA CrashTyped == ASSUME WellTyped, Crash PROVE WellTyped'
<1>1. DriverTyped' /\ Placed'
  BY IdleTyped DEF Crash, DriverTyped, Placed, AtStep
<1>2. LeftTyped'
  BY LeftSpent DEF Crash, LeftTyped, LeftState, WellTyped, TypeOK
<1>3. QED
  BY <1>1, <1>2 DEF WellTyped, TypeOK, DriverTyped, LeftTyped, LeftState, Crash, database, world

LEMMA ReconcileTyped == ASSUME WellTyped, Reconcile PROVE WellTyped'
<1>1. PICK s \in Interrupted :
        IF s \notin DOMAIN Plan[version]
          THEN row' = [row EXCEPT ![s] = "failed"] /\ UNCHANGED <<ext, vault, left>>
        ELSE IF ~Guarded(Plan[version][s])
          THEN row' = [row EXCEPT ![s] = "pending"] /\ UNCHANGED <<ext, vault, left>>
        ELSE LET o == Plan[version][s].output
                 found == Matching(channel, Slot[o])
             IN  \/ /\ found = {}
                    /\ row' = [row EXCEPT ![s] = "pending"]
                    /\ UNCHANGED <<ext, vault, left>>
                 \/ \E b \in found :
                      /\ row' = [row EXCEPT ![s] = "done"]
                      /\ ext' = [ext EXCEPT ![s] = b]
                      /\ vault' = vault \cup {o}
                      /\ UNCHANGED left
                 \/ /\ left.faults > 0
                    /\ left' = [left EXCEPT !.faults = @ - 1]
                    /\ row' = [row EXCEPT ![s] = "failed"]
                    /\ UNCHANGED <<ext, vault>>
  BY DEF Reconcile
<1>2. /\ row \in [Seqs -> StepState] /\ ext \in [Seqs -> BroadcastId]
      /\ vault \subseteq Outputs /\ LeftTyped /\ version \in Versions
  BY DEF WellTyped, TypeOK, LeftTyped, LeftState
<1>3. row' \in [Seqs -> StepState]
  BY <1>1, <1>2 DEF StepState
<1>4. /\ ext' \in [Seqs -> BroadcastId] /\ vault' \subseteq Outputs /\ LeftTyped'
  <2>1. CASE UNCHANGED <<ext, vault, left>>
    BY <1>2, <2>1 DEF LeftTyped
  <2>2. CASE s \in DOMAIN Plan[version]
    <3>1. Plan[version][s].output \in Outputs
      BY <1>2, <2>2, Steps DEF StepDefinition
    <3>2. Matching(channel, Slot[Plan[version][s].output]) \subseteq BroadcastId
      BY DEF Matching, Broadcast, BroadcastId
    <3>3. CASE \E b \in BroadcastId : /\ ext' = [ext EXCEPT ![s] = b]
                                     /\ vault' = vault \cup {Plan[version][s].output}
                                     /\ UNCHANGED left
      BY <1>2, <3>1, <3>3 DEF LeftTyped
    <3>4. CASE /\ left.faults > 0 /\ left' = [left EXCEPT !.faults = @ - 1]
               /\ UNCHANGED <<ext, vault>>
      BY <1>2, <3>4, LeftSpent DEF LeftTyped
    <3>5. QED
      BY <1>1, <2>1, <3>2, <3>3, <3>4
  <2>3. QED
    BY <1>1, <2>1, <2>2
<1>5. Placed'
  BY DEF Reconcile, WellTyped, Placed, AtStep
<1>6. QED
  BY <1>3, <1>4, <1>5 DEF WellTyped, TypeOK, LeftTyped, LeftState, Reconcile, world

LEMMA RecoveredTyped == ASSUME WellTyped, Recovered PROVE WellTyped'
<1>1. Placed'
  BY DEF Recovered, WellTyped, Placed, AtStep
<1>2. QED
  BY <1>1 DEF WellTyped, TypeOK, Recovered, database, world

LEMMA StutterTyped == ASSUME WellTyped, UNCHANGED vars PROVE WellTyped'
<1>1. Placed'
  BY DEF vars, WellTyped, Placed, AtStep
<1>2. QED
  BY <1>1 DEF WellTyped, TypeOK, vars

LEMMA InitTyped == ASSUME Init PROVE WellTyped
<1>1. drv \in [Drivers -> DriverState] /\ Placed
  BY IdleTyped DEF Init, Placed, AtStep
<1>2. channel \in ChannelType
  BY EngineAssumption DEF Init, EmptyChannel, ChannelType, BroadcastState
<1>3. encoder \in [Devices -> [active : BOOLEAN, target : BroadcastId]]
  BY NoBroadcastTyped DEF Init
<1>4. left \in LeftState
  BY EngineAssumption DEF Init, LeftState
<1>5. ext \in [Seqs -> BroadcastId] /\ row \in [Seqs -> StepState]
  BY NoBroadcastTyped DEF Init, StepState
<1>6. now \in 0..MaxTime /\ forced \in BOOLEAN /\ run \in RunState /\ version \in Versions
  BY EngineAssumption DEF Init, RunState, Versions
<1>7. QED
  BY <1>1, <1>2, <1>3, <1>4, <1>5, <1>6 DEF Init, WellTyped, TypeOK, LeftState

LEMMA NextTyped == ASSUME WellTyped, [Next]_vars PROVE WellTyped'
<1>1. CASE \E d \in Drivers : Work(d)
  BY <1>1, WorkTyped
<1>2. CASE \E d \in Drivers : Cancel(d) \/ PrepareNow(d) \/ StartNow(d) \/ Overrun(d)
  BY <1>2, CancelTyped, PrepareNowTyped, StartNowTyped, OverrunTyped
<1>3. CASE EditEvent \/ Clock \/ Crash \/ Reconcile \/ Recovered
  BY <1>3, EditEventTyped, ClockTyped, CrashTyped, ReconcileTyped, RecoveredTyped
<1>4. CASE Over \/ UNCHANGED vars
  BY <1>4, StutterTyped DEF Over
<1>5. QED
  BY <1>1, <1>2, <1>3, <1>4 DEF Next

LEMMA SpecWellTyped == Spec => []WellTyped
<1>1. Init => WellTyped
  BY InitTyped
<1>2. WellTyped /\ [Next]_vars => WellTyped'
  BY NextTyped
<1>3. QED
  BY <1>1, <1>2, PTL DEF Spec

\* Every reachable state is well typed: in particular no row, external id or
\* driver ever holds a value that the code's types exclude, whatever fails,
\* crashes, is edited or pressed.
THEOREM TypeCorrect == Spec => []TypeOK
<1>1. WellTyped => TypeOK
  BY DEF WellTyped
<1>2. QED
  BY <1>1, SpecWellTyped, PTL

-----------------------------------------------------------------------------
(* The order of what drivers write *)

\* An undo is for something; a driver about to settle the occurrence has just
\* ended the run, the way it is about to report; one that rests is not late.
Orderly(r, state) ==
  /\ r.pc \in {"undo", "undoing"} => r.why # "none"
  /\ r.pc = "settle" => r.why \in TerminalStates /\ state = r.why
  /\ r.pc = "idle" => ~r.late

DriversOrderly == \A d \in Drivers : Orderly(drv[d], run)

\* A step of driver d touches no other driver, keeps the order, and makes no
\* call before the row of its step admits to it.
Admits(r, rows) == r.pc = "call" => rows[r.seq] # "pending"

Keeps(d) ==
  /\ drv' = [drv EXCEPT ![d] = drv'[d]]
  /\ Orderly(drv'[d], run')
  /\ drv'[d].pc = "idle" \/ drv'[d].late = drv[d].late
  /\ version = 1 /\ drv[d].v = 1 => drv'[d].v = 1
  /\ Admits(drv[d], row) => Admits(drv'[d], row')

LEMMA Becomes ==
  ASSUME DriverTyped, NEW d \in Drivers, NEW r, Become(d, r)
  PROVE  drv'[d] = r /\ drv' = [drv EXCEPT ![d] = drv'[d]]
BY DEF DriverTyped, Become

LEMMA RestKeeps ==
  ASSUME DriverTyped, NEW d \in Drivers, Rest(d) PROVE Keeps(d)
<1>1. drv'[d] = IdleDriver /\ drv' = [drv EXCEPT ![d] = drv'[d]]
  BY Becomes DEF Rest
<1>2. QED
  BY <1>1 DEF Keeps, Orderly, Admits, IdleDriver

LEMMA NextPassKeeps ==
  ASSUME DriverTyped, NEW d \in Drivers, Become(d, NextPass(d)) PROVE Keeps(d)
<1>1. drv'[d] = NextPass(d) /\ drv' = [drv EXCEPT ![d] = drv'[d]]
  BY Becomes
<1>2. CASE drv[d].again
  <2>1. /\ drv'[d].pc = "step" /\ drv'[d].late = drv[d].late /\ drv'[d].v = 1
    BY <1>1, <1>2 DEF NextPass, IdleDriver
  <2>2. QED
    BY <1>1, <2>1 DEF Keeps, Orderly, Admits
<1>3. CASE ~drv[d].again
  BY <1>1, <1>3 DEF Keeps, Orderly, Admits, IdleDriver, NextPass
<1>4. QED
  BY <1>2, <1>3

-----------------------------------------------------------------------------
(* One lemma for each action of a driver *)

LEMMA BeginFailKeeps == ASSUME WellTyped, NEW d \in Drivers, BeginFail(d) PROVE Keeps(d)
<1>1. /\ drv'[d] = [Job(d, "none", "undo") EXCEPT !.why = "failed", !.todo = ToUndo(version, Outputs)]
      /\ drv' = [drv EXCEPT ![d] = drv'[d]]
  BY WellTypedDrivers, Becomes DEF BeginFail
<1>2. QED
  BY <1>1 DEF Keeps, Orderly, Admits, Job, IdleDriver

LEMMA PreparesKeeps ==
  ASSUME WellTyped, NEW d \in Drivers, NEW again, Prepares(d, again) PROVE Keeps(d)
<1>1. /\ drv'[d] = [Job(d, "prepare", "next") EXCEPT !.again = again, !.queue = Live(version)]
      /\ drv' = [drv EXCEPT ![d] = drv'[d]]
  BY WellTypedDrivers, Becomes DEF Prepares
<1>2. QED
  BY <1>1 DEF Keeps, Orderly, Admits, Job, IdleDriver

LEMMA BeginStopKeeps == ASSUME WellTyped, NEW d \in Drivers, BeginStop(d) PROVE Keeps(d)
<1>1. PICK o \in StopsDue : Become(d, [Job(d, "stop", "loop") EXCEPT !.out = o])
  BY DEF BeginStop
<1>2. /\ drv'[d] = [Job(d, "stop", "loop") EXCEPT !.out = o]
      /\ drv' = [drv EXCEPT ![d] = drv'[d]]
  BY <1>1, WellTypedDrivers, Becomes
<1>3. QED
  BY <1>2 DEF Keeps, Orderly, Admits, Job, IdleDriver

LEMMA MarkMissedKeeps == ASSUME WellTyped, NEW d \in Drivers, MarkMissed(d) PROVE Keeps(d)
<1>1. PICK o \in StartsDue :
        Become(d, [Job(d, "start", "undo") EXCEPT !.out = o, !.why = "output",
                                                  !.todo = ToUndo(version, {o})])
  BY DEF MarkMissed
<1>2. /\ drv'[d] = [Job(d, "start", "undo") EXCEPT !.out = o, !.why = "output",
                                                  !.todo = ToUndo(version, {o})]
      /\ drv' = [drv EXCEPT ![d] = drv'[d]]
  BY <1>1, WellTypedDrivers, Becomes
<1>3. QED
  BY <1>2 DEF Keeps, Orderly, Admits, Job, IdleDriver

LEMMA BeginStartKeeps == ASSUME WellTyped, NEW d \in Drivers, BeginStart(d) PROVE Keeps(d)
<1>1. PICK o \in StartsDue : Become(d, [Job(d, "start", "loop") EXCEPT !.out = o])
  BY DEF BeginStart
<1>2. /\ drv'[d] = [Job(d, "start", "loop") EXCEPT !.out = o]
      /\ drv' = [drv EXCEPT ![d] = drv'[d]]
  BY <1>1, WellTypedDrivers, Becomes
<1>3. QED
  BY <1>2 DEF Keeps, Orderly, Admits, Job, IdleDriver

LEMMA BeginCompleteKeeps == ASSUME WellTyped, NEW d \in Drivers, BeginComplete(d) PROVE Keeps(d)
<1>1. /\ drv'[d] = [Job(d, "complete", "loop") EXCEPT !.good = Delivered]
      /\ drv' = [drv EXCEPT ![d] = drv'[d]]
  BY WellTypedDrivers, Becomes DEF BeginComplete
<1>2. QED
  BY <1>1 DEF Keeps, Orderly, Admits, Job, IdleDriver

LEMMA PassKeeps == ASSUME WellTyped, NEW d \in Drivers, Pass(d) PROVE Keeps(d)
<1>1. CASE StopPass(d)
  BY <1>1, WellTypedDrivers, RestKeeps DEF StopPass
<1>2. CASE BeginPrepare(d)
  BY <1>2, PreparesKeeps DEF BeginPrepare
<1>3. QED
  BY <1>1, <1>2, BeginFailKeeps, BeginStopKeeps, MarkMissedKeeps, BeginStartKeeps,
     BeginCompleteKeeps DEF Pass

LEMMA NextStepKeeps == ASSUME WellTyped, NEW d \in Drivers, NextStep(d) PROVE Keeps(d)
<1>1. PICK s \in Outstanding(d) :
        IF s \in Seqs
          THEN /\ row' = MarkedRunning(s)
               /\ Become(d, [drv[d] EXCEPT !.pc = "call", !.seq = s, !.att = 1,
                                           !.call = "sent", !.arg = Argument(drv[d].v, s)])
          ELSE Rest(d)
  BY DEF NextStep
<1>2. CASE s \in Seqs
  <2>1. /\ drv'[d] = [drv[d] EXCEPT !.pc = "call", !.seq = s, !.att = 1,
                                     !.call = "sent", !.arg = Argument(drv[d].v, s)]
        /\ drv' = [drv EXCEPT ![d] = drv'[d]]
    BY <1>1, <1>2, WellTypedDrivers, Becomes
  <2>2. /\ drv'[d].pc = "call" /\ drv'[d].seq = s
        /\ drv'[d].late = drv[d].late /\ drv'[d].v = drv[d].v
    BY <2>1, WellTypedDrivers, DriverOf DEF DriverState
  <2>3. row'[s] = "running"
    BY <1>1, <1>2 DEF MarkedRunning, WellTyped, TypeOK
  <2>4. QED
    BY <2>1, <2>2, <2>3 DEF Keeps, Orderly, Admits
<1>3. CASE s \notin Seqs
  BY <1>1, <1>3, WellTypedDrivers, RestKeeps
<1>4. QED
  BY <1>2, <1>3

\* A driver that moves on to an undo, or to its loop.
LEMMA MovesOn ==
  ASSUME WellTyped, NEW d \in Drivers, NEW r, Become(d, r),
         r.pc \in {"next", "loop", "failed", "undo", "undoing"},
         r.pc \in {"undo", "undoing"} => r.why # "none",
         r.late = drv[d].late, r.v = drv[d].v
  PROVE  Keeps(d)
<1>1. drv'[d] = r /\ drv' = [drv EXCEPT ![d] = drv'[d]]
  BY WellTypedDrivers, Becomes
<1>2. QED
  BY <1>1 DEF Keeps, Orderly, Admits

\* A driver that has just ended the run.
LEMMA Settles ==
  ASSUME WellTyped, NEW d \in Drivers, NEW r, Become(d, r),
         r.pc = "settle", r.why \in TerminalStates, run' = r.why,
         r.late = drv[d].late, r.v = drv[d].v
  PROVE  Keeps(d)
<1>1. drv'[d] = r /\ drv' = [drv EXCEPT ![d] = drv'[d]]
  BY WellTypedDrivers, Becomes
<1>2. QED
  BY <1>1 DEF Keeps, Orderly, Admits

\* A driver in a call, which goes on or has its answer.
LEMMA StaysInCall ==
  ASSUME WellTyped, NEW d \in Drivers, NEW r, Become(d, r), Is(d, "call"), r.pc = "call",
         r.seq = drv[d].seq, r.late = drv[d].late, r.v = drv[d].v,
         row[drv[d].seq] # "pending" => row'[drv[d].seq] # "pending"
  PROVE  Keeps(d)
<1>1. drv'[d] = r /\ drv' = [drv EXCEPT ![d] = drv'[d]]
  BY WellTypedDrivers, Becomes
<1>2. QED
  BY <1>1 DEF Keeps, Orderly, Admits, Is

LEMMA LoopDoneKeeps == ASSUME WellTyped, NEW d \in Drivers, LoopDone(d) PROVE Keeps(d)
<1>1. drv[d] \in DriverState
  BY WellTypedDrivers, DriverOf
<1>2. CASE drv[d].job \in {"prepare", "cancel"}
  <2>1. Become(d, [drv[d] EXCEPT !.pc = "next", !.good = TRUE])
    BY <1>2 DEF LoopDone
  <2>2. QED
    BY <1>1, <2>1, MovesOn DEF DriverState
<1>3. CASE drv[d].job = "complete" /\ drv[d].good
  <2>1. CASE Accepts(run, "completed")
    <3>1. /\ Become(d, [drv[d] EXCEPT !.pc = "settle", !.why = "completed"])
          /\ run' = "completed"
      BY <1>3, <2>1 DEF LoopDone
    <3>2. QED
      BY <1>1, <3>1, Settles DEF DriverState, TerminalStates
  <2>2. CASE ~Accepts(run, "completed")
    BY <1>3, <2>2, WellTypedDrivers, RestKeeps DEF LoopDone
  <2>3. QED
    BY <2>1, <2>2
<1>4. CASE drv[d].job = "complete" /\ ~drv[d].good
  <2>1. Become(d, [drv[d] EXCEPT !.pc = "undo", !.why = "failed",
                                 !.todo = ToUndo(drv[d].v, Outputs)])
    BY <1>4 DEF LoopDone
  <2>2. QED
    BY <1>1, <2>1, MovesOn DEF DriverState
<1>5. CASE drv[d].job \notin {"prepare", "cancel", "complete"}
  BY <1>5, WellTypedDrivers, NextPassKeeps DEF LoopDone
<1>6. QED
  BY <1>1, <1>2, <1>3, <1>4, <1>5

LEMMA StepFailedKeeps == ASSUME WellTyped, NEW d \in Drivers, StepFailed(d) PROVE Keeps(d)
<1>1. drv[d] \in DriverState
  BY WellTypedDrivers, DriverOf
<1>2. CASE drv[d].job \in {"prepare", "start"}
  <2>1. Become(d, [drv[d] EXCEPT !.pc = "undo", !.why = "output",
                                 !.todo = ToUndo(drv[d].v, {drv[d].out})])
    BY <1>2 DEF StepFailed
  <2>2. QED
    BY <1>1, <2>1, MovesOn DEF DriverState
<1>3. CASE drv[d].job = "stop"
  BY <1>3, WellTypedDrivers, NextPassKeeps DEF StepFailed
<1>4. CASE drv[d].job = "complete"
  <2>1. Become(d, [drv[d] EXCEPT !.pc = "undo", !.why = "failed",
                                 !.todo = ToUndo(drv[d].v, Outputs)])
    BY <1>4 DEF StepFailed
  <2>2. QED
    BY <1>1, <2>1, MovesOn DEF DriverState
<1>5. CASE drv[d].job \notin {"prepare", "start", "stop", "complete"}
  <2>1. Become(d, [drv[d] EXCEPT !.pc = "next"])
    BY <1>5 DEF StepFailed
  <2>2. QED
    BY <1>1, <2>1, MovesOn DEF DriverState
<1>6. QED
  BY <1>2, <1>3, <1>4, <1>5

LEMMA NextOutputKeeps == ASSUME WellTyped, NEW d \in Drivers, NextOutput(d) PROVE Keeps(d)
<1>1. PICK o \in drv[d].queue :
        Become(d, [drv[d] EXCEPT !.pc = "loop", !.out = o, !.seq = 0, !.queue = @ \ {o}])
  BY DEF NextOutput
<1>2. QED
  BY <1>1, WellTypedDrivers, DriverOf, MovesOn DEF DriverState

LEMMA OutputsDoneKeeps == ASSUME WellTyped, NEW d \in Drivers, OutputsDone(d) PROVE Keeps(d)
<1>1. drv[d] \in DriverState
  BY WellTypedDrivers, DriverOf
<1>2. CASE drv[d].job = "prepare" /\ drv[d].good
  BY <1>2, WellTypedDrivers, NextPassKeeps, RestKeeps DEF OutputsDone
<1>3. CASE drv[d].job = "prepare" /\ ~drv[d].good
  <2>1. Become(d, [drv[d] EXCEPT !.pc = "undo", !.why = "failed",
                                 !.todo = ToUndo(drv[d].v, Outputs)])
    BY <1>3 DEF OutputsDone
  <2>2. QED
    BY <1>1, <2>1, MovesOn DEF DriverState
<1>4. CASE drv[d].job # "prepare"
  <2>1. CASE Accepts(run, "cancelled")
    <3>1. /\ Become(d, [drv[d] EXCEPT !.pc = "settle", !.why = "cancelled"])
          /\ run' = "cancelled"
      BY <1>4, <2>1 DEF OutputsDone
    <3>2. QED
      BY <1>1, <3>1, Settles DEF DriverState, TerminalStates
  <2>2. CASE ~Accepts(run, "cancelled")
    BY <1>4, <2>2, WellTypedDrivers, RestKeeps DEF OutputsDone
  <2>3. QED
    BY <2>1, <2>2
<1>5. QED
  BY <1>1, <1>2, <1>3, <1>4

LEMMA AnsweredKeeps ==
  ASSUME WellTyped, NEW d \in Drivers, Answered(d), row' = row, Is(d, "call") \/ Is(d, "undoing"),
         Is(d, "undoing") => drv[d].why # "none"
  PROVE  Keeps(d)
<1>1. drv[d] \in DriverState
  BY WellTypedDrivers, DriverOf
<1>2. CASE Is(d, "call")
  BY <1>1, <1>2, StaysInCall DEF Answered, DriverState, Is
<1>3. CASE Is(d, "undoing")
  BY <1>1, <1>3, MovesOn DEF Answered, DriverState, Is
<1>4. QED
  BY <1>2, <1>3

LEMMA LookForBroadcastKeeps ==
  ASSUME WellTyped, NEW d \in Drivers, LookForBroadcast(d) PROVE Keeps(d)
<1>1. drv[d] \in DriverState /\ Is(d, "call") /\ row' = row
  BY WellTypedDrivers, DriverOf DEF LookForBroadcast, Calling, database
<1>2. CASE Become(d, [drv[d] EXCEPT !.call = "absent"])
  BY <1>1, <1>2, StaysInCall DEF DriverState, Is
<1>3. ASSUME NEW b, Become(d, [drv[d] EXCEPT !.call = "landed", !.arg = b]) PROVE Keeps(d)
  BY <1>1, <1>3, StaysInCall DEF DriverState, Is
<1>4. QED
  BY <1>2, <1>3 DEF LookForBroadcast

LEMMA CreateBroadcastKeeps ==
  ASSUME WellTyped, NEW d \in Drivers, CreateBroadcast(d) PROVE Keeps(d)
<1>1. drv[d] \in DriverState /\ Is(d, "call") /\ row' = row
  BY WellTypedDrivers, DriverOf DEF CreateBroadcast, Calling, database
<1>2. PICK b : Become(d, [drv[d] EXCEPT !.call = "landed", !.arg = b])
  BY DEF CreateBroadcast
<1>3. QED
  BY <1>1, <1>2, StaysInCall DEF DriverState, Is

LEMMA CallFailedKeeps ==
  ASSUME WellTyped, NEW d \in Drivers, Is(d, "call"), CallFailed(d) PROVE Keeps(d)
<1>1. drv[d] \in DriverState /\ drv[d].seq \in Seqs
  BY WellTypedDrivers, DriverOf DEF Placed, AtStep, Is
<1>2. CASE drv[d].att < MaxAttempts
  <2>1. Become(d, [drv[d] EXCEPT !.att = @ + 1, !.call = "sent",
                                 !.arg = Argument(drv[d].v, drv[d].seq)])
    BY <1>2 DEF CallFailed
  <2>2. row'[drv[d].seq] = "running"
    BY <1>1, <1>2 DEF CallFailed, MarkedRunning, WellTyped, TypeOK
  <2>3. QED
    BY <1>1, <2>1, <2>2, StaysInCall DEF DriverState, Is
<1>3. CASE ~(drv[d].att < MaxAttempts)
  <2>1. Become(d, [drv[d] EXCEPT !.pc = "failed", !.att = 0, !.call = "none", !.arg = 0])
    BY <1>3 DEF CallFailed
  <2>2. QED
    BY <1>1, <2>1, MovesOn DEF DriverState
<1>4. QED
  BY <1>2, <1>3

LEMMA CallOkKeeps == ASSUME WellTyped, NEW d \in Drivers, CallOk(d) PROVE Keeps(d)
<1>1. Become(d, [drv[d] EXCEPT !.pc = "loop", !.att = 0, !.call = "none", !.arg = 0])
  BY DEF CallOk
<1>2. QED
  BY <1>1, WellTypedDrivers, DriverOf, MovesOn DEF DriverState

LEMMA CallKeeps == ASSUME WellTyped, NEW d \in Drivers, Call(d) PROVE Keeps(d)
<1>1. CASE PointEncoder(d) \/ StartEncoder(d) \/ StopEncoder(d) \/ CloseBroadcast(d)
  <2>1. Answered(d) /\ row' = row /\ Is(d, "call")
    BY <1>1 DEF PointEncoder, StartEncoder, StopEncoder, CloseBroadcast, Calling, database
  <2>2. QED
    BY <2>1, AnsweredKeeps DEF Is
<1>2. CASE Fault(d) \/ NoTarget(d)
  BY <1>2, CallFailedKeeps DEF Fault, NoTarget, Calling
<1>3. QED
  BY <1>1, <1>2, LookForBroadcastKeeps, CreateBroadcastKeeps, CallOkKeeps DEF Call

LEMMA UndoStepKeeps ==
  ASSUME WellTyped, DriversOrderly, NEW d \in Drivers, UndoStep(d) PROVE Keeps(d)
<1>1. drv[d] \in DriverState /\ drv[d].pc = "undo" /\ drv[d].why # "none"
  BY WellTypedDrivers, DriverOf DEF UndoStep, Is, DriversOrderly, Orderly
<1>2. PICK s \in drv[d].todo :
        \/ Become(d, [drv[d] EXCEPT !.todo = @ \ {s}])
        \/ Become(d, [drv[d] EXCEPT !.pc = "undoing", !.seq = s, !.call = "sent",
                                    !.arg = PreparedId(Plan[drv[d].v][s].output),
                                    !.todo = @ \ {s}])
  BY DEF UndoStep
<1>3. QED
  BY <1>1, <1>2, MovesOn DEF DriverState

LEMMA UndoneKeeps ==
  ASSUME WellTyped, DriversOrderly, NEW d \in Drivers, Is(d, "undoing"), NEW state, Undone(d, state)
  PROVE  Keeps(d)
<1>1. drv[d] \in DriverState /\ drv[d].why # "none"
  BY WellTypedDrivers, DriverOf DEF Is, DriversOrderly, Orderly
<1>2. Become(d, [drv[d] EXCEPT !.pc = "undo", !.call = "none", !.arg = 0])
  BY DEF Undone
<1>3. QED
  BY <1>1, <1>2, MovesOn DEF DriverState

LEMMA UndoDoneKeeps ==
  ASSUME WellTyped, DriversOrderly, NEW d \in Drivers, UndoDone(d) PROVE Keeps(d)
<1>1. drv[d] \in DriverState /\ drv[d].why # "none"
  BY WellTypedDrivers, DriverOf DEF UndoDone, Is, DriversOrderly, Orderly
<1>2. CASE drv[d].why = "output" /\ drv[d].job = "prepare"
  <2>1. Become(d, [drv[d] EXCEPT !.pc = "next", !.why = "none"])
    BY <1>2 DEF UndoDone
  <2>2. QED
    BY <1>1, <2>1, MovesOn DEF DriverState
<1>3. CASE drv[d].why = "output" /\ drv[d].job # "prepare"
  BY <1>3, WellTypedDrivers, NextPassKeeps DEF UndoDone
<1>4. CASE drv[d].why # "output" /\ Accepts(run, drv[d].why)
  <2>1. Become(d, [drv[d] EXCEPT !.pc = "settle"]) /\ run' = drv[d].why
    BY <1>4 DEF UndoDone
  <2>2. drv[d].why \in TerminalStates
    BY <1>1, <1>4 DEF DriverState
  <2>3. QED
    BY <1>1, <2>1, <2>2, Settles DEF DriverState
<1>5. CASE drv[d].why # "output" /\ ~Accepts(run, drv[d].why)
  BY <1>5, WellTypedDrivers, RestKeeps DEF UndoDone
<1>6. QED
  BY <1>2, <1>3, <1>4, <1>5

LEMMA UndoKeeps == ASSUME WellTyped, DriversOrderly, NEW d \in Drivers, Undo(d) PROVE Keeps(d)
<1>1. CASE DiscardBroadcast(d)
  <2>1. Answered(d) /\ row' = row /\ Is(d, "undoing")
    BY <1>1 DEF DiscardBroadcast, database
  <2>2. QED
    BY <2>1, AnsweredKeeps DEF DriversOrderly, Orderly, Is
<1>2. CASE UndoOk(d) \/ UndoFault(d)
  BY <1>2, UndoneKeeps DEF UndoOk, UndoFault
<1>3. QED
  BY <1>1, <1>2, UndoStepKeeps, UndoDoneKeeps DEF Undo

LEMMA WorkKeeps == ASSUME WellTyped, DriversOrderly, NEW d \in Drivers, Work(d) PROVE Keeps(d)
<1>1. CASE Settle(d)
  BY <1>1, WellTypedDrivers, RestKeeps DEF Settle
<1>2. QED
  BY <1>1, PassKeeps, NextStepKeeps, LoopDoneKeeps, StepFailedKeeps, NextOutputKeeps,
     OutputsDoneKeeps, CallKeeps, UndoKeeps DEF Work

LEMMA RequestKeeps ==
  ASSUME WellTyped, NEW d \in Drivers, Cancel(d) \/ PrepareNow(d) \/ StartNow(d)
  PROVE  Keeps(d)
<1>1. CASE Cancel(d)
  <2> DEFINE started == {o \in Live(version) : Progress(version, o) = "started"}
             r1 == [Job(d, "cancel", "next") EXCEPT !.again = FALSE, !.queue = started]
             r2 == [Job(d, "cancel", "undo") EXCEPT !.again = FALSE, !.why = "cancelled",
                                                    !.todo = ToUndo(version, Outputs)]
  <2>1. /\ r1.pc = "next" /\ r1.late = drv[d].late /\ r1.v = version
        /\ r2.pc = "undo" /\ r2.why = "cancelled" /\ r2.late = drv[d].late /\ r2.v = version
    BY DEF Job, IdleDriver
  <2>2. Become(d, r1) \/ Become(d, r2)
    BY <1>1 DEF Cancel
  <2> HIDE DEF r1, r2
  <2>3. (drv'[d] = r1 \/ drv'[d] = r2) /\ drv' = [drv EXCEPT ![d] = drv'[d]]
    BY <2>2, WellTypedDrivers, Becomes
  <2>4. QED
    BY <2>1, <2>3 DEF Keeps, Orderly, Admits
<1>2. CASE PrepareNow(d)
  BY <1>2, PreparesKeeps DEF PrepareNow
<1>3. CASE StartNow(d)
  <2>1. /\ drv'[d] = [Job(d, "none", "step") EXCEPT !.v = 1]
        /\ drv' = [drv EXCEPT ![d] = drv'[d]]
    BY <1>3, WellTypedDrivers, Becomes DEF StartNow
  <2>2. QED
    BY <2>1 DEF Keeps, Orderly, Admits, Job, IdleDriver
<1>4. QED
  BY <1>1, <1>2, <1>3

-----------------------------------------------------------------------------
(* A run that has ended *)

\* Only a pass of an active run and the table of the store move it.
LEMMA RunMoves == ASSUME WellTyped, [Next]_vars, ~Active PROVE run' = run
<1>1. run \in RunState
  BY DEF WellTyped, TypeOK
<1>2. ASSUME NEW d \in Drivers, Pass(d) PROVE run' = run
  BY <1>2 DEF Pass, StopPass, BeginFail, BeginPrepare, BeginStop, MarkMissed, BeginStart,
              BeginComplete, InWindow, database
<1>3. ASSUME NEW d \in Drivers, LoopDone(d) \/ OutputsDone(d) \/ UndoDone(d) PROVE run' = run
  BY <1>1, <1>3, Accepted DEF LoopDone, OutputsDone, UndoDone, Active
<1>4. ASSUME NEW d \in Drivers, Call(d) PROVE run' = run
  BY <1>4 DEF Call, LookForBroadcast, CreateBroadcast, PointEncoder, StartEncoder, StopEncoder,
              CloseBroadcast, CallOk, Fault, NoTarget, CallFailed, database
<1>5. ASSUME NEW d \in Drivers, Undo(d) PROVE run' = run
  BY <1>3, <1>5 DEF Undo, UndoStep, DiscardBroadcast, UndoOk, UndoFault, Undone, database
<1>6. ASSUME NEW d \in Drivers, Work(d) PROVE run' = run
  BY <1>2, <1>3, <1>4, <1>5, <1>6 DEF Work, NextStep, StepFailed, NextOutput, Settle, database
<1>7. ASSUME NEW d \in Drivers, Cancel(d) \/ PrepareNow(d) \/ StartNow(d) \/ Overrun(d)
      PROVE  run' = run
  BY <1>7 DEF Cancel, PrepareNow, StartNow, Overrun, database, Active, IsTerminal, TerminalStates
<1>8. CASE EditEvent \/ Clock \/ Crash \/ Reconcile \/ Recovered \/ Over \/ UNCHANGED vars
  BY <1>8 DEF EditEvent, Clock, Crash, Reconcile, Recovered, Over, database, vars
<1>9. QED
  BY <1>6, <1>7, <1>8 DEF Next

\* A run that has ended stays ended, whoever still works on it: an abandoned
\* tick, an operator's request, the other of two that raced (store.transition).
THEOREM EndedStaysEnded == Spec => TerminalIsFinal
<1>1. WellTyped /\ [Next]_vars => [~Active => run' = run]_vars
  BY RunMoves
<1>2. QED
  BY <1>1, SpecWellTyped, PTL DEF Spec, TerminalIsFinal

-----------------------------------------------------------------------------
(* The drivers stay in order *)

LEMMA OrderKept ==
  ASSUME WellTyped, DriversOrderly, [Next]_vars, NEW d \in Drivers, Keeps(d)
  PROVE  DriversOrderly'
<1>1. ASSUME NEW e \in Drivers, e # d PROVE Orderly(drv'[e], run')
  <2>1. drv'[e] = drv[e]
    BY <1>1 DEF Keeps, WellTyped, TypeOK
  <2>2. drv[e].pc = "settle" => run' = run
    BY RunMoves DEF DriversOrderly, Orderly, Active, IsTerminal
  <2>3. QED
    BY <2>1, <2>2 DEF DriversOrderly, Orderly
<1>2. QED
  BY <1>1 DEF DriversOrderly, Keeps

LEMMA OrderlyInit == ASSUME Init PROVE DriversOrderly
BY DEF Init, DriversOrderly, Orderly, IdleDriver

LEMMA OrderlyNext == ASSUME WellTyped, DriversOrderly, [Next]_vars PROVE DriversOrderly'
<1>1. ASSUME NEW d \in Drivers, Work(d) \/ Cancel(d) \/ PrepareNow(d) \/ StartNow(d)
      PROVE  DriversOrderly'
  BY <1>1, WorkKeeps, RequestKeeps, OrderKept
<1>2. ASSUME NEW d \in Drivers, Overrun(d) PROVE DriversOrderly'
  <2>1. drv[d] \in DriverState /\ run' = run
    BY <1>2, WellTypedDrivers, DriverOf DEF Overrun, database
  <2>2. drv' = [drv EXCEPT ![d] = [drv[d] EXCEPT !.late = TRUE]] /\ drv[d].pc # "idle"
    BY <1>2 DEF Overrun, Become, Is
  <2>3. ASSUME NEW e \in Drivers PROVE /\ drv'[e].pc = drv[e].pc /\ drv'[e].why = drv[e].why
                                       /\ e = d \/ drv'[e].late = drv[e].late
    BY <2>1, <2>2 DEF WellTyped, TypeOK, DriverState
  <2>4. QED
    BY <2>1, <2>2, <2>3 DEF DriversOrderly, Orderly
<1>3. CASE Crash
  BY <1>3 DEF Crash, DriversOrderly, Orderly, IdleDriver
<1>4. CASE EditEvent \/ Clock \/ Reconcile \/ Recovered \/ Over \/ UNCHANGED vars
  BY <1>4 DEF EditEvent, Clock, Reconcile, Recovered, Over, database, vars, DriversOrderly
<1>5. QED
  BY <1>1, <1>2, <1>3, <1>4 DEF Next

LEMMA SpecOrderly == Spec => [](WellTyped /\ DriversOrderly)
<1>1. Init => DriversOrderly
  BY OrderlyInit
<1>2. WellTyped /\ DriversOrderly /\ [Next]_vars => DriversOrderly'
  BY OrderlyNext
<1>3. QED
  BY <1>1, <1>2, SpecWellTyped, PTL DEF Spec

-----------------------------------------------------------------------------
(* The occurrence follows the run *)

LEMMA OnlySettleSettles ==
  ASSUME [Next]_vars, \A d \in Drivers : ~Settle(d) PROVE occ' = occ
<1>1. ASSUME NEW d \in Drivers, Pass(d) PROVE occ' = occ
  BY <1>1 DEF Pass, StopPass, BeginFail, BeginPrepare, Prepares, BeginStop, MarkMissed,
              BeginStart, BeginComplete, database
<1>2. ASSUME NEW d \in Drivers, Call(d) PROVE occ' = occ
  BY <1>2 DEF Call, LookForBroadcast, CreateBroadcast, PointEncoder, StartEncoder, StopEncoder,
              CloseBroadcast, CallOk, Fault, NoTarget, CallFailed, database
<1>3. ASSUME NEW d \in Drivers, Undo(d) PROVE occ' = occ
  BY <1>3 DEF Undo, UndoStep, DiscardBroadcast, UndoOk, UndoFault, Undone, UndoDone, database
<1>4. ASSUME NEW d \in Drivers, Work(d) PROVE occ' = occ
  BY <1>1, <1>2, <1>3, <1>4
     DEF Work, NextStep, LoopDone, StepFailed, NextOutput, OutputsDone, database
<1>5. ASSUME NEW d \in Drivers, Cancel(d) \/ PrepareNow(d) \/ StartNow(d) \/ Overrun(d)
      PROVE  occ' = occ
  BY <1>5 DEF Cancel, PrepareNow, Prepares, StartNow, Overrun, database
<1>6. CASE EditEvent \/ Clock \/ Crash \/ Reconcile \/ Recovered \/ Over \/ UNCHANGED vars
  BY <1>6 DEF EditEvent, Clock, Crash, Reconcile, Recovered, Over, database, vars
<1>7. QED
  BY <1>4, <1>5, <1>6 DEF Next

\* The occurrence never reports an end that its run has not come to, in any
\* interleaving of ticks and operators and across crashes (engine.ts complete,
\* fail, cancel: the run first, then the occurrence).
THEOREM OccurrenceFollowsRun == Spec => []SettledAgrees
<1>1. Init => SettledAgrees
  BY DEF Init, SettledAgrees
<1>2. WellTyped /\ DriversOrderly /\ SettledAgrees /\ [Next]_vars => SettledAgrees'
  <2> SUFFICES ASSUME WellTyped, DriversOrderly, SettledAgrees, [Next]_vars PROVE SettledAgrees'
    OBVIOUS
  <2>1. CASE \E d \in Drivers : Settle(d)
    <3>1. PICK d \in Drivers : Settle(d)
      BY <2>1
    <3>2. drv[d].why \in TerminalStates /\ run = drv[d].why /\ run' = run
      BY <3>1 DEF Settle, Is, DriversOrderly, Orderly
    <3>3. QED
      BY <3>1, <3>2 DEF Settle, SettledAgrees, TerminalStates
  <2>2. CASE \A d \in Drivers : ~Settle(d)
    BY <2>2, OnlySettleSettles, RunMoves DEF SettledAgrees, Active, IsTerminal, TerminalStates
  <2>3. QED
    BY <2>1, <2>2
<1>3. QED
  BY <1>1, <1>2, SpecOrderly, PTL DEF Spec

-----------------------------------------------------------------------------
(* The ticks take turns *)

TurnOf(t) == IF Is(t, "idle") THEN "idle" ELSE IF drv[t].late THEN "late" ELSE "going"
Seen == [t \in Ticks |-> TurnOf(t)]

\* A tick leaves its rest only when the guard lets it.
LEMMA OnlyGuardedTicksWake ==
  ASSUME NEW t \in Ticks, Is(t, "idle"), ~MayTick(t),
         Work(t) \/ Cancel(t) \/ PrepareNow(t) \/ StartNow(t)
  PROVE  FALSE
<1>1. CASE Pass(t)
  BY <1>1 DEF Pass, StopPass, BeginFail, BeginPrepare, BeginStop, MarkMissed, BeginStart,
              BeginComplete, InWindow, Ready, Is
<1>2. CASE Call(t)
  BY <1>2 DEF Call, LookForBroadcast, CreateBroadcast, PointEncoder, StartEncoder, StopEncoder,
              CloseBroadcast, CallOk, Fault, NoTarget, Calling, Is
<1>3. CASE Undo(t)
  BY <1>3 DEF Undo, UndoStep, DiscardBroadcast, UndoOk, UndoFault, UndoDone, Is
<1>4. CASE Work(t)
  BY <1>1, <1>2, <1>3, <1>4
     DEF Work, NextStep, LoopDone, StepFailed, NextOutput, OutputsDone, Settle, Is
<1>5. CASE Cancel(t) \/ PrepareNow(t) \/ StartNow(t)
  BY <1>5, EngineAssumption DEF Cancel, PrepareNow, StartNow, Press
<1>6. QED
  BY <1>4, <1>5

\* What one driver's step is to the ticks.
LEMMA StepTurns ==
  ASSUME WellTyped, DriversOrderly, NEW d \in Drivers, Keeps(d),
         Work(d) \/ Cancel(d) \/ PrepareNow(d) \/ StartNow(d)
  PROVE  (d \in Ticks /\ (Turns!Begin(d) \/ Turns!End(d))) \/ Seen' = Seen
<1>1. ASSUME NEW t \in Ticks, t # d PROVE TurnOf(t)' = TurnOf(t)
  <2>1. drv'[t] = drv[t]
    BY <1>1 DEF Keeps, WellTyped, TypeOK, Drivers
  <2>2. QED
    BY <2>1 DEF TurnOf, Is
<1>2. CASE d \notin Ticks
  BY <1>1, <1>2 DEF Seen
<1>3. CASE d \in Ticks /\ TurnOf(d)' = TurnOf(d)
  BY <1>1, <1>3 DEF Seen
<1>4. CASE d \in Ticks /\ ~Is(d, "idle") /\ TurnOf(d)' # TurnOf(d)
  <2>1. TurnOf(d)' = "idle" /\ TurnOf(d) # "idle"
    BY <1>4 DEF Keeps, TurnOf, Is
  <2>2. Seen' = [Seen EXCEPT ![d] = "idle"] /\ Seen[d] # "idle"
    BY <1>1, <1>4, <2>1 DEF Seen
  <2>3. QED
    BY <1>4, <2>2 DEF Turns!End, Seen, TurnOf
<1>5. CASE d \in Ticks /\ Is(d, "idle") /\ TurnOf(d)' # TurnOf(d)
  <2>1. \A u \in Ticks : TurnOf(u) # "going"
    BY <1>5, OnlyGuardedTicksWake DEF MayTick, TurnOf, Is
  <2>2. ~drv[d].late /\ TurnOf(d)' = "going" /\ TurnOf(d) = "idle"
    BY <1>5 DEF Keeps, TurnOf, Is, DriversOrderly, Orderly
  <2>3. Seen' = [Seen EXCEPT ![d] = "going"] /\ Seen[d] = "idle" /\ \A u \in Ticks : Seen[u] # "going"
    BY <1>1, <1>5, <2>1, <2>2 DEF Seen
  <2>4. QED
    BY <1>5, <2>3 DEF Turns!Begin, Seen, TurnOf
<1>6. QED
  BY <1>2, <1>3, <1>4, <1>5

\* The ticks of the engine take turns as the guard of app.ts promises: across
\* crashes, whatever an abandoned tick still does and whatever is pressed.
THEOREM TicksInTurn == Spec => TicksTakeTurns
<1>1. Init => Turns!Init
  BY DEF Init, Turns!Init, Is, IdleDriver, Drivers
<1>2. WellTyped /\ DriversOrderly /\ [Next]_vars => [Turns!Next]_Seen
  <2> SUFFICES ASSUME WellTyped, DriversOrderly, [Next]_vars PROVE Turns!Next \/ Seen' = Seen
    OBVIOUS
  <2>1. ASSUME NEW d \in Drivers, Work(d) \/ Cancel(d) \/ PrepareNow(d) \/ StartNow(d)
        PROVE  Turns!Next \/ Seen' = Seen
    BY <2>1, WorkKeeps, RequestKeeps, StepTurns DEF Turns!Next
  <2>2. ASSUME NEW t \in Drivers, Overrun(t) PROVE Turns!Next \/ Seen' = Seen
    <3>1. t \in Ticks /\ drv' = [drv EXCEPT ![t].late = TRUE] /\ ~Is(t, "idle") /\ ~drv[t].late
      BY <2>2 DEF Overrun, Become
    <3>2. drv[t] \in DriverState
      BY <2>2, WellTypedDrivers, DriverOf
    <3>3. drv'[t].pc = drv[t].pc /\ drv'[t].late /\ \A u \in Drivers \ {t} : drv'[u] = drv[u]
      BY <2>2, <3>1, <3>2 DEF WellTyped, TypeOK, DriverState
    <3>4. Seen' = [Seen EXCEPT ![t] = "late"] /\ Seen[t] = "going"
      BY <3>1, <3>3 DEF Seen, TurnOf, Is, Drivers
    <3>5. Turns!GiveUp(t)
      BY <3>4 DEF Turns!GiveUp, Seen, TurnOf
    <3>6. QED
      BY <3>1, <3>5 DEF Turns!Next
  <2>3. CASE Crash
    <3>1. Turns!Restart
      BY <2>3 DEF Crash, Turns!Restart, Is, IdleDriver, Drivers
    <3>2. QED
      BY <3>1 DEF Turns!Next
  <2>4. CASE EditEvent \/ Clock \/ Reconcile \/ Recovered \/ Over \/ UNCHANGED vars
    BY <2>4 DEF EditEvent, Clock, Reconcile, Recovered, Over, database, vars, Seen, TurnOf, Is
  <2>5. QED
    BY <2>1, <2>2, <2>3, <2>4 DEF Next
<1>3. QED
  BY <1>1, <1>2, SpecOrderly, PTL DEF Spec, TicksTakeTurns, Turns!Spec, Seen, TurnOf

-----------------------------------------------------------------------------
(* No broadcast is unknown to the database *)

\* Everybody plans with the version of the event that the rows were made from.
Unedited == version = 1 /\ left.edits = 0 /\ \A d \in Drivers : drv[d].v = 1

\* A call's row was committed before the call, and nobody calls while the
\* interrupted rows are being reconciled.
RowsAdmit ==
  /\ \A d \in Drivers : Admits(drv[d], row)
  /\ boot = "recovering" => AllIdle

Known == Unedited /\ RowsAdmit /\ NoOrphan

\* No action but recovery takes a row back to pending.
LEMMA RowsStayAdmitted ==
  ASSUME WellTyped, [Next]_vars, ~Reconcile, NEW s \in Seqs, row[s] # "pending"
  PROVE  row'[s] # "pending"
<1>1. row \in [Seqs -> StepState]
  BY DEF WellTyped, TypeOK
<1>2. ASSUME NEW d \in Drivers, Pass(d) PROVE row'[s] # "pending"
  BY <1>1, <1>2 DEF Pass, StopPass, BeginFail, BeginPrepare, Prepares, BeginStop, MarkMissed,
                    BeginStart, BeginComplete, database
<1>3. ASSUME NEW d \in Drivers, Call(d) PROVE row'[s] # "pending"
  BY <1>1, <1>3 DEF Call, LookForBroadcast, CreateBroadcast, PointEncoder, StartEncoder, StopEncoder,
                    CloseBroadcast, CallOk, Fault, NoTarget, CallFailed, MarkedRunning, database
<1>4. ASSUME NEW d \in Drivers, UndoFault(d) PROVE row'[s] # "pending"
  <2>1. PICK state \in {row[drv[d].seq], "compensated"} : row' = [row EXCEPT ![drv[d].seq] = state]
    BY <1>4 DEF UndoFault, Undone
  <2>2. QED
    BY <1>1, <2>1
<1>5. ASSUME NEW d \in Drivers, Undo(d) PROVE row'[s] # "pending"
  BY <1>1, <1>4, <1>5 DEF Undo, UndoStep, DiscardBroadcast, UndoOk, Undone, UndoDone, database
<1>6. ASSUME NEW d \in Drivers, NextStep(d) PROVE row'[s] # "pending"
  BY <1>1, <1>6 DEF NextStep, MarkedRunning
<1>7. ASSUME NEW d \in Drivers, Work(d) PROVE row'[s] # "pending"
  BY <1>2, <1>3, <1>5, <1>6, <1>7
     DEF Work, LoopDone, StepFailed, NextOutput, OutputsDone, Settle, database
<1>8. ASSUME NEW d \in Drivers, Cancel(d) \/ PrepareNow(d) \/ StartNow(d) \/ Overrun(d)
      PROVE  row'[s] # "pending"
  BY <1>8 DEF Cancel, PrepareNow, Prepares, StartNow, Overrun, database
<1>9. CASE EditEvent \/ Clock \/ Crash \/ Recovered \/ Over \/ UNCHANGED vars
  BY <1>9 DEF EditEvent, Clock, Crash, Recovered, Over, database, vars
<1>10. QED
  BY <1>7, <1>8, <1>9 DEF Next

\* Nothing but a prepare's insert puts a broadcast on the channel.
LEMMA OnlyInsertAdds ==
  ASSUME WellTyped, [Next]_vars, \A d \in Drivers : ~CreateBroadcast(d),
         NEW b \in Broadcast, channel'[b].state = "upcoming"
  PROVE  channel[b].state = "upcoming" /\ channel'[b].slot = channel[b].slot
<1> DEFINE Same == channel[b].state = "upcoming" /\ channel'[b].slot = channel[b].slot
<1>1. channel \in ChannelType
  BY DEF WellTyped, TypeOK
<1>2. ASSUME NEW c, NEW to, to # "upcoming", NEW from, channel' = Moved(channel, c, from, to)
      PROVE  Same
  BY <1>1, <1>2 DEF Moved, ChannelType
<1>3. ASSUME NEW d \in Drivers, Pass(d) PROVE Same
  BY <1>3 DEF Pass, StopPass, BeginFail, BeginPrepare, Prepares, BeginStop, MarkMissed,
              BeginStart, BeginComplete, world
<1>4. ASSUME NEW d \in Drivers, Call(d) PROVE Same
  <2>1. CASE StartEncoder(d)
    BY <1>2, <2>1 DEF StartEncoder, VideoArrives
  <2>2. CASE StopEncoder(d)
    BY <1>2, <2>2 DEF StopEncoder, VideoStops
  <2>3. QED
    BY <1>4, <2>1, <2>2 DEF Call, LookForBroadcast, PointEncoder, CloseBroadcast, CallOk, Fault,
                            NoTarget, CallFailed, world
<1>5. ASSUME NEW d \in Drivers, Undo(d) PROVE Same
  <2>1. CASE DiscardBroadcast(d)
    BY <1>1, <2>1 DEF DiscardBroadcast, Discarded, ChannelType
  <2>2. QED
    BY <1>5, <2>1 DEF Undo, UndoStep, UndoOk, UndoFault, Undone, UndoDone, world
<1>6. ASSUME NEW d \in Drivers, Work(d) PROVE Same
  BY <1>3, <1>4, <1>5, <1>6
     DEF Work, NextStep, LoopDone, StepFailed, NextOutput, OutputsDone, Settle, world
<1>7. ASSUME NEW d \in Drivers, Cancel(d) \/ PrepareNow(d) \/ StartNow(d) \/ Overrun(d)
      PROVE  Same
  BY <1>7 DEF Cancel, PrepareNow, Prepares, StartNow, Overrun, world
<1>8. CASE EditEvent \/ Clock \/ Crash \/ Reconcile \/ Recovered \/ Over \/ UNCHANGED vars
  BY <1>8 DEF EditEvent, Clock, Crash, Reconcile, Recovered, Over, world, vars
<1>9. QED
  BY <1>6, <1>7, <1>8 DEF Next

\* The insert is made for a step whose row is no longer pending.
LEMMA InsertKnown ==
  ASSUME WellTyped, Known, NEW d \in Drivers, CreateBroadcast(d) PROVE NoOrphan'
<1>1. PICK f \in FreshIds(channel) :
        channel' = [channel EXCEPT ![f] = [slot |-> Slot[StepOf(d).output], state |-> "upcoming"]]
  BY DEF CreateBroadcast, Inserted
<1>2. channel \in ChannelType /\ row' = row
  BY DEF WellTyped, TypeOK, CreateBroadcast, database
<1>3. StepOf(d) = Committed[drv[d].seq] /\ drv[d].seq \in Seqs
  BY DEF Known, Unedited, StepOf, Committed, CreateBroadcast, Calling, Is, WellTyped, Placed, AtStep
<1>4. row[drv[d].seq] # "pending" /\ StepOf(d).kind = "prepare"
  BY DEF Known, RowsAdmit, Admits, CreateBroadcast, Calling, Is
<1>5. ASSUME NEW b \in Broadcast, channel'[b].state = "upcoming", b # f
      PROVE  channel'[b] = channel[b]
  BY <1>1, <1>2, <1>5 DEF ChannelType
<1>6. f \in Broadcast /\ channel'[f].slot = Slot[Committed[drv[d].seq].output]
  BY <1>1, <1>2, <1>3 DEF ChannelType, FreshIds
<1>7. ASSUME NEW b \in Broadcast, channel'[b].state = "upcoming"
      PROVE  \E s \in Seqs : /\ Committed[s].kind = "prepare"
                             /\ Slot[Committed[s].output] = channel'[b].slot
                             /\ row'[s] # "pending"
  <2>1. CASE b = f
    BY <1>2, <1>3, <1>4, <1>6, <2>1
  <2>2. CASE b # f
    BY <1>2, <1>5, <1>7, <2>2 DEF Known, NoOrphan
  <2>3. QED
    BY <2>1, <2>2
<1>8. QED
  BY <1>7 DEF NoOrphan

\* Recovery takes a row back to pending only after the channel has been asked
\* and has no broadcast of its slot, or when the step creates none.
LEMMA RecoveryKnown == ASSUME WellTyped, Known, Reconcile PROVE NoOrphan'
<1>1. PICK s \in Interrupted :
        IF s \notin DOMAIN Plan[version]
          THEN row' = [row EXCEPT ![s] = "failed"]
        ELSE IF ~Guarded(Plan[version][s])
          THEN row' = [row EXCEPT ![s] = "pending"]
        ELSE \/ /\ Matching(channel, Slot[Plan[version][s].output]) = {}
                /\ row' = [row EXCEPT ![s] = "pending"]
             \/ row' = [row EXCEPT ![s] = "done"]
             \/ row' = [row EXCEPT ![s] = "failed"]
  BY DEF Reconcile
<1>2. s \in Seqs /\ Plan[version] = Committed /\ channel' = channel /\ row \in [Seqs -> StepState]
  BY DEF Interrupted, Known, Unedited, Committed, Reconcile, world, WellTyped, TypeOK
<1>3. ASSUME NEW b \in Broadcast, channel[b].state = "upcoming"
      PROVE  \E r \in Seqs : /\ Committed[r].kind = "prepare"
                             /\ Slot[Committed[r].output] = channel[b].slot
                             /\ row'[r] # "pending"
  <2>1. PICK r \in Seqs : /\ Committed[r].kind = "prepare"
                          /\ Slot[Committed[r].output] = channel[b].slot
                          /\ row[r] # "pending"
    BY <1>3 DEF Known, NoOrphan
  <2>2. r = s => row'[s] \in {"done", "failed"}
    <3>1. r = s => b \in Matching(channel, Slot[Plan[version][s].output])
      BY <1>2, <1>3, <2>1 DEF Matching
    <3>2. QED
      BY <1>1, <1>2, <2>1, <3>1 DEF Guarded, Seqs
  <2>3. r # s => row'[r] = row[r]
    BY <1>1, <1>2
  <2>4. QED
    BY <2>1, <2>2, <2>3
<1>4. QED
  BY <1>2, <1>3 DEF NoOrphan

LEMMA NoOrphanNext == ASSUME WellTyped, Known, [Next]_vars PROVE NoOrphan'
<1>1. CASE Reconcile
  BY <1>1, RecoveryKnown
<1>2. CASE \E d \in Drivers : CreateBroadcast(d)
  BY <1>2, InsertKnown
<1>3. CASE ~Reconcile /\ \A d \in Drivers : ~CreateBroadcast(d)
  <2>1. \A b \in Broadcast : channel'[b].state = "upcoming" =>
          channel[b].state = "upcoming" /\ channel'[b].slot = channel[b].slot
    BY <1>3, OnlyInsertAdds
  <2>2. \A s \in Seqs : row[s] # "pending" => row'[s] # "pending"
    BY <1>3, RowsStayAdmitted
  <2>3. QED
    BY <2>1, <2>2 DEF Known, NoOrphan
<1>4. QED
  BY <1>1, <1>2, <1>3

\* Only the editor of the event changes the version, and it has no edits left.
LEMMA VersionKept ==
  ASSUME [Next]_vars, Known, WellTyped PROVE version' = 1 /\ left'.edits = 0
<1> DEFINE Kept == version' = version /\ left'.edits = left.edits
<1>1. left \in LeftState
  BY DEF WellTyped, TypeOK, LeftState
<1>2. ASSUME NEW d \in Drivers, Pass(d) PROVE Kept
  BY <1>2 DEF Pass, StopPass, BeginFail, BeginPrepare, Prepares, BeginStop, MarkMissed,
              BeginStart, BeginComplete, database
<1>3. ASSUME NEW d \in Drivers, Call(d) PROVE Kept
  BY <1>1, <1>3 DEF Call, LookForBroadcast, CreateBroadcast, PointEncoder, StartEncoder, StopEncoder,
                    CloseBroadcast, CallOk, Fault, NoTarget, CallFailed, database, LeftState
<1>4. ASSUME NEW d \in Drivers, Undo(d) PROVE Kept
  BY <1>1, <1>4 DEF Undo, UndoStep, DiscardBroadcast, UndoOk, UndoFault, Undone, UndoDone, database,
                    LeftState
<1>5. ASSUME NEW d \in Drivers, Work(d) PROVE Kept
  BY <1>2, <1>3, <1>4, <1>5
     DEF Work, NextStep, LoopDone, StepFailed, NextOutput, OutputsDone, Settle, database
<1>6. ASSUME NEW d \in Drivers, Cancel(d) \/ PrepareNow(d) \/ StartNow(d) \/ Overrun(d) PROVE Kept
  BY <1>1, <1>6 DEF Cancel, PrepareNow, Prepares, StartNow, Overrun, Press, database, LeftState
<1>7. ASSUME Clock \/ Crash \/ Reconcile \/ Recovered \/ Over \/ UNCHANGED vars PROVE Kept
  BY <1>1, <1>7 DEF Clock, Crash, Reconcile, Recovered, Over, database, vars, LeftState
<1>8. ~EditEvent
  BY DEF EditEvent, Known, Unedited
<1>9. QED
  BY <1>5, <1>6, <1>7, <1>8 DEF Next, Known, Unedited

\* Nobody begins anything while the program is recovering.
LEMMA RecoveryAlone ==
  ASSUME WellTyped, AllIdle, boot = "recovering", NEW d \in Drivers,
         Work(d) \/ Cancel(d) \/ PrepareNow(d) \/ StartNow(d) \/ Overrun(d)
  PROVE  FALSE
<1>1. Is(d, "idle")
  BY DEF AllIdle
<1>2. CASE Pass(d)
  BY <1>2 DEF Pass, StopPass, BeginFail, BeginPrepare, BeginStop, MarkMissed, BeginStart,
              BeginComplete, InWindow, Ready
<1>3. CASE Call(d)
  BY <1>1, <1>3 DEF Call, LookForBroadcast, CreateBroadcast, PointEncoder, StartEncoder, StopEncoder,
                    CloseBroadcast, CallOk, Fault, NoTarget, Calling, Is
<1>4. CASE Undo(d)
  BY <1>1, <1>4 DEF Undo, UndoStep, DiscardBroadcast, UndoOk, UndoFault, UndoDone, Is
<1>5. CASE Work(d)
  BY <1>1, <1>2, <1>3, <1>4, <1>5
     DEF Work, NextStep, LoopDone, StepFailed, NextOutput, OutputsDone, Settle, Is
<1>6. CASE Cancel(d) \/ PrepareNow(d) \/ StartNow(d)
  BY <1>6 DEF Cancel, PrepareNow, StartNow, Press
<1>7. CASE Overrun(d)
  BY <1>1, <1>7 DEF Overrun
<1>8. QED
  BY <1>5, <1>6, <1>7

LEMMA KnownByDriver ==
  ASSUME WellTyped, Known, [Next]_vars, NEW d \in Drivers, Keeps(d), boot # "recovering",
         ~Reconcile, boot' = boot
  PROVE  Known'
<1>1. version = 1 /\ version' = 1 /\ left'.edits = 0
  BY VersionKept DEF Known, Unedited
<1>2. ASSUME NEW e \in Drivers PROVE drv'[e].v = 1 /\ Admits(drv'[e], row')
  <2>1. CASE e = d
    BY <1>1, <2>1 DEF Keeps, Known, Unedited, RowsAdmit
  <2>2. CASE e # d
    <3>1. drv'[e] = drv[e]
      BY <2>2 DEF Keeps, WellTyped, TypeOK
    <3>2. drv[e].pc = "call" => row'[drv[e].seq] # "pending"
      BY RowsStayAdmitted DEF Known, RowsAdmit, Admits, WellTyped, Placed, AtStep
    <3>3. QED
      BY <3>1, <3>2 DEF Admits, Known, Unedited
  <2>3. QED
    BY <2>1, <2>2
<1>3. QED
  BY <1>1, <1>2, NoOrphanNext DEF Known, Unedited, RowsAdmit

LEMMA BootKept ==
  ASSUME NEW d \in Drivers, Work(d) \/ Cancel(d) \/ PrepareNow(d) \/ StartNow(d) \/ Overrun(d)
  PROVE  boot' = boot
<1>1. CASE Pass(d)
  BY <1>1 DEF Pass, StopPass, BeginFail, BeginPrepare, Prepares, BeginStop, MarkMissed,
              BeginStart, BeginComplete
<1>2. CASE Call(d)
  BY <1>2 DEF Call, LookForBroadcast, CreateBroadcast, PointEncoder, StartEncoder, StopEncoder,
              CloseBroadcast, CallOk, Fault, NoTarget, CallFailed
<1>3. CASE Undo(d)
  BY <1>3 DEF Undo, UndoStep, DiscardBroadcast, UndoOk, UndoFault, Undone, UndoDone
<1>4. CASE Work(d)
  BY <1>1, <1>2, <1>3, <1>4
     DEF Work, NextStep, LoopDone, StepFailed, NextOutput, OutputsDone, Settle
<1>5. QED
  BY <1>4 DEF Cancel, PrepareNow, Prepares, StartNow, Overrun

LEMMA KnownNext == ASSUME WellTyped, DriversOrderly, Known, [Next]_vars PROVE Known'
<1>1. version' = 1 /\ left'.edits = 0 /\ NoOrphan'
  BY VersionKept, NoOrphanNext
<1>2. CASE Reconcile
  <2>1. UNCHANGED <<drv, boot>> /\ AllIdle
    BY <1>2 DEF Reconcile, Known, RowsAdmit
  <2>2. \A d \in Drivers : drv'[d].pc = "idle" /\ drv'[d].v = 1
    BY <2>1 DEF AllIdle, Is, Known, Unedited
  <2>3. QED
    BY <1>1, <2>1, <2>2 DEF Known, Unedited, RowsAdmit, Admits, AllIdle, Is
<1>3. ASSUME ~Reconcile, NEW d \in Drivers, Work(d) \/ Cancel(d) \/ PrepareNow(d) \/ StartNow(d)
      PROVE  Known'
  <2>1. boot # "recovering" /\ boot' = boot /\ Keeps(d)
    BY <1>3, RecoveryAlone, BootKept, WorkKeeps, RequestKeeps DEF Known, RowsAdmit
  <2>2. QED
    BY <1>3, <2>1, KnownByDriver
<1>4. ASSUME ~Reconcile, NEW d \in Drivers, Overrun(d) PROVE Known'
  <2>1. boot # "recovering" /\ boot' = boot /\ row' = row
    BY <1>4, RecoveryAlone, BootKept DEF Overrun, database, Known, RowsAdmit
  <2>2. drv' = [drv EXCEPT ![d] = [drv[d] EXCEPT !.late = TRUE]] /\ drv[d] \in DriverState
    BY <1>4, WellTypedDrivers, DriverOf DEF Overrun, Become
  <2>3. \A e \in Drivers : /\ drv'[e].pc = drv[e].pc /\ drv'[e].seq = drv[e].seq
                            /\ drv'[e].v = drv[e].v
    BY <2>2 DEF WellTyped, TypeOK, DriverState
  <2>4. QED
    BY <1>1, <2>1, <2>3 DEF Known, Unedited, RowsAdmit, Admits
<1>5. CASE Crash
  <2>1. \A d \in Drivers : drv'[d].pc = "idle" /\ drv'[d].v = 1
    BY <1>5 DEF Crash, IdleDriver
  <2>2. QED
    BY <1>1, <2>1 DEF Known, Unedited, RowsAdmit, Admits, AllIdle, Is
<1>6. CASE Clock \/ Recovered \/ Over \/ UNCHANGED vars
  <2>1. UNCHANGED <<drv, row>> /\ (boot' = boot \/ boot' = "up")
    BY <1>6 DEF Clock, Recovered, Over, database, vars
  <2>2. QED
    BY <1>1, <2>1 DEF Known, Unedited, RowsAdmit, AllIdle, Is
<1>7. ~EditEvent
  BY DEF EditEvent, Known, Unedited
<1>8. QED
  BY <1>2, <1>3, <1>4, <1>5, <1>6, <1>7 DEF Next

LEMMA KnownInit == ASSUME MaxEdits = 0, Init PROVE Known
<1>1. Unedited
  BY DEF Init, Unedited, IdleDriver
<1>2. RowsAdmit
  BY DEF Init, RowsAdmit, Admits, IdleDriver
<1>3. NoOrphan
  BY DEF Init, NoOrphan, EmptyChannel
<1>4. QED
  BY <1>1, <1>2, <1>3 DEF Known

\* As long as the event is not edited under the run, whatever is upcoming on the
\* channel has a row that admits to it: across lost answers, crashes, recovery,
\* abandoned ticks and everything an operator may press (executor.ts commits
\* the row before the call; reconcileRun forgets it only when the channel says so).
THEOREM NothingUnknown == ASSUME MaxEdits = 0 PROVE Spec => []NoOrphan
<1>1. Init => Known
  BY KnownInit
<1>2. WellTyped /\ DriversOrderly /\ Known /\ [Next]_vars => Known'
  BY KnownNext
<1>3. Known => NoOrphan
  BY DEF Known
<1>4. QED
  BY <1>1, <1>2, <1>3, SpecOrderly, PTL DEF Spec
=============================================================================
