--------------------------- MODULE RunRowsProofs ---------------------------
(***************************************************************************)
(* InStep is an invariant of a run whose event nobody edits and that one   *)
(* scheduler drives, through faults and crashes; what it says of the vault *)
(* and of the services follows.                                            *)
(***************************************************************************)
EXTENDS RunServiceProofs

\* What the theorems take for granted.
Undisturbed == Alone /\ SlotsOnce /\ WellPlanned /\ MaxEdits = 0

\* Everything that RunProofs and RunServiceProofs establish.
Settled == Served /\ DriversOrderly /\ Known

-----------------------------------------------------------------------------
(* What the plan and the rows say *)

LEMMA PlanIsCommitted ==
  ASSUME Settled
  PROVE  /\ version = 1 /\ \A d \in Drivers : drv[d].v = 1
         /\ DOMAIN Plan[1] = Seqs /\ \A s : Plan[1][s] = Committed[s]
BY DEF Settled, Known, Unedited, Seqs, Committed

\* A step is of the kinds of its phase and of an enabled output.
LEMMA StepsAre ==
  ASSUME WellPlanned, NEW s \in Seqs
  PROVE  /\ s \in Nat \ {0} /\ OutputOf(s) \in Live(1) /\ OutputOf(s) \in Outputs
         /\ KindOf(s) \in StepKind /\ PhaseOf(s) \in Phase
         /\ PhaseOf(s) = "prepare" <=> KindOf(s) = "prepare"
         /\ PhaseOf(s) = "start" <=> KindOf(s) \in {"applyStreamTarget", "startStreaming"}
         /\ PhaseOf(s) = "stop" <=> KindOf(s) = "stopStreaming"
         /\ PhaseOf(s) = "complete" <=> KindOf(s) = "finalize"
<1>1. Committed[s] \in StepDefinition(Outputs) /\ s \in Nat \ {0}
  BY EngineAssumption DEF Committed, Seqs, Versions
<1>2. KindOf(s) \in KindsIn[PhaseOf(s)] /\ OutputOf(s) \in Live(1)
  BY DEF WellPlanned
<1>3. PhaseOf(s) \in Phase /\ KindOf(s) \in StepKind /\ OutputOf(s) \in Outputs
  BY <1>1 DEF StepDefinition, KindOf, PhaseOf, OutputOf
<1>4. QED
  BY <1>1, <1>2, <1>3 DEF KindsIn, Phase

\* The steps of an output in a phase.
LEMMA MineAre ==
  ASSUME Settled, NEW o, NEW ph
  PROVE  MineIn(1, o, ph) = {s \in Seqs : OutputOf(s) = o /\ PhaseOf(s) = ph}
BY PlanIsCommitted DEF MineIn, Mine, OutputOf, PhaseOf

LEMMA ProgressIs ==
  ASSUME Settled, WellPlanned, NEW o \in Live(1)
  PROVE  /\ Progress(1, o) \in {"failed", "stopped", "started", "pending"}
         /\ Progress(1, o) = "failed" <=> \E s \in Seqs : OutputOf(s) = o /\ row[s] = "failed"
         /\ Progress(1, o) = "stopped" =>
              \A s \in Seqs : OutputOf(s) = o /\ KindOf(s) = "stopStreaming" => row[s] = "done"
         /\ Progress(1, o) = "started" =>
              /\ \A s \in Seqs : OutputOf(s) = o /\ PhaseOf(s) = "start" => row[s] = "done"
              /\ \A s \in Seqs : OutputOf(s) = o /\ KindOf(s) = "stopStreaming" => row[s] # "done"
         /\ Progress(1, o) = "pending" =>
              /\ \E s \in Seqs : OutputOf(s) = o /\ PhaseOf(s) = "start" /\ row[s] # "done"
              /\ \A s \in Seqs : OutputOf(s) = o /\ KindOf(s) = "stopStreaming" => row[s] # "done"
<1> DEFINE starts == {s \in Seqs : OutputOf(s) = o /\ PhaseOf(s) = "start"}
           stops == {s \in Seqs : OutputOf(s) = o /\ PhaseOf(s) = "stop"}
<1>1. MineIn(1, o, "start") = starts /\ MineIn(1, o, "stop") = stops
  BY MineAre
<1>2. Mine(1, o) = {s \in Seqs : OutputOf(s) = o}
  BY PlanIsCommitted DEF Mine, OutputOf
<1>3. PICK c \in Seqs : KindOf(c) = "stopStreaming" /\ OutputOf(c) = o
  BY DEF WellPlanned
<1>4. stops = {c} /\ \A s \in Seqs : OutputOf(s) = o /\ KindOf(s) = "stopStreaming" => s = c
  BY <1>3, StepsAre DEF WellPlanned
<1>5. starts # {}
  BY StepsAre DEF WellPlanned
<1> HIDE DEF starts, stops
<1>6. Progress(1, o) = IF \E s \in Mine(1, o) : RowIs(s, "failed") THEN "failed"
                       ELSE IF stops # {} /\ \A s \in stops : RowIs(s, "done") THEN "stopped"
                       ELSE IF starts # {} /\ \A s \in starts : RowIs(s, "done") THEN "started"
                       ELSE "pending"
  BY <1>1 DEF Progress
<1>7. Progress(1, o) = IF \E s \in Seqs : OutputOf(s) = o /\ row[s] = "failed" THEN "failed"
                       ELSE IF row[c] = "done" THEN "stopped"
                       ELSE IF \A s \in starts : row[s] = "done" THEN "started"
                       ELSE "pending"
  BY <1>2, <1>3, <1>4, <1>5, <1>6 DEF RowIs, starts
<1>8. QED
  BY <1>3, <1>4, <1>7 DEF starts

\* An undo takes the done rows of prepared broadcasts.
LEMMA ToUndoIs ==
  ASSUME Settled, NEW outs
  PROVE  ToUndo(1, outs) = {s \in Seqs : row[s] = "done" /\ KindOf(s) = "prepare" /\ OutputOf(s) \in outs}
BY PlanIsCommitted DEF ToUndo, Guarded, KindOf, OutputOf

LEMMA InStepBy ==
  ASSUME Alone, NEW d \in Drivers, JobFits(d)', LoopFits(d)', UndoFits(d)',
         RunningOwned', RowOrder', OnlyPreparesUndone', RunSays', VaultFits'
  PROVE  InStep'
BY OnlyOne DEF InStep

-----------------------------------------------------------------------------
(* A pass *)

\* A driver that begins a pass finds no row running.
LEMMA PassFresh ==
  ASSUME Alone, InStep, NEW d \in Drivers, Ready(d), Active
  PROVE  /\ \A s \in Seqs : row[s] # "running"
         /\ boot = "up" /\ drv[d].pc \in {"idle", "step"}
<1>1. boot = "up" /\ drv[d].pc \in {"idle", "step"}
  BY DEF Ready, MayTick, Is
<1>2. ~Is(d, "call")
  BY <1>1 DEF Is
<1>3. QED
  BY <1>1, <1>2, OnlyOne DEF InStep, RunningOwned

\* A driver that turns to something else, with the rows as they are and no call in
\* flight before or after.
LEMMA TurnsTo ==
  ASSUME Undisturbed, Settled, InStep, NEW d \in Drivers, UNCHANGED <<row, ext, vault>>, boot' = boot,
         ~Is(d, "call"), drv'[d].pc # "call", JobFits(d)', LoopFits(d)', UndoFits(d)',
         ~Active => run' = run, RunSays', run' \in TerminalStates => vault = {} \/ run' = run,
         drv'[d].pc \in {"undo", "undoing"} /\ drv'[d].why = "failed" =>
           \A o \in vault : \E s \in drv'[d].todo : OutputOf(s) = o,
         drv'[d].pc # "undoing"
  PROVE  InStep'
<1>1. RowOrder' /\ OnlyPreparesUndone'
  BY DEF InStep, RowOrder, OnlyPreparesUndone, Made
<1>2. RunningOwned'
  <2>1. \A e \in Drivers : ~Is(e, "call")
    BY OnlyOne DEF Undisturbed
  <2>2. QED
    BY <2>1 DEF InStep, RunningOwned, Active, IsTerminal
<1>3. VaultFits'
  BY OnlyOne DEF InStep, VaultFits, Undoing, Is, Undisturbed
<1>4. QED
  BY <1>1, <1>2, <1>3, InStepBy DEF Undisturbed

LEMMA RestsInStep ==
  ASSUME Undisturbed, Settled, InStep, NEW d \in Drivers, Rest(d) \/ Become(d, NextPass(d)),
         UNCHANGED <<row, ext, vault, boot, run>>, ~Is(d, "call")
  PROVE  InStep'
<1>1. drv'[d] = IdleDriver \/ drv'[d] = NextPass(d)
  BY WellTypedDrivers, Becomes DEF Rest, Settled, Served
<1>2. drv'[d].pc \in {"idle", "step"} /\ drv'[d].job = "none" /\ drv'[d].queue = {}
  <2>1. CASE drv'[d] = IdleDriver
    BY <2>1 DEF IdleDriver
  <2>2. CASE drv'[d] = NextPass(d) /\ drv[d].again
    BY <2>2 DEF IdleDriver, NextPass
  <2>3. CASE drv'[d] = NextPass(d) /\ ~drv[d].again
    BY <2>3 DEF IdleDriver, NextPass
  <2>4. QED
    BY <1>1, <2>1, <2>2, <2>3
<1>3. JobFits(d)' /\ LoopFits(d)' /\ UndoFits(d)'
  BY <1>2 DEF JobFits, LoopFits, UndoFits, InLoop, Undoing, Is
<1>4. RunSays'
  BY DEF InStep, RunSays, Through
<1>5. QED
  BY <1>2, <1>3, <1>4, TurnsTo

\* The states of a run whose window is open.
LEMMA WindowStates ==
  ASSUME Settled, InStep, NEW d \in Drivers, InWindow(d)
  PROVE  run \in {"ready", "running", "completing"}
BY DEF Settled, Served, WellTyped, TypeOK, InStep, RunSays, InWindow, Active, IsTerminal, RunState,
       TerminalStates

\* When the run is completing, every output has been seen to.
LEMMA CompletingIsThrough ==
  ASSUME Settled, WellPlanned, InStep, run = "completing", NEW o \in Live(1)
  PROVE  Progress(1, o) \in {"failed", "stopped"}
<1>1. PICK s \in Seqs : /\ OutputOf(s) = o
                        /\ \/ KindOf(s) = "stopStreaming" /\ row[s] = "done"
                           \/ row[s] = "failed"
  BY DEF InStep, RunSays, Through
<1>2. QED
  BY <1>1, ProgressIs

LEMMA BeginFailInStep ==
  ASSUME Undisturbed, Settled, InStep, NEW d \in Drivers, BeginFail(d) PROVE InStep'
<1>1. drv'[d] = [Job(d, "none", "undo") EXCEPT !.why = "failed", !.todo = ToUndo(version, Outputs)]
  BY WellTypedDrivers, Becomes DEF BeginFail, Settled, Served
<1>2. /\ drv'[d].pc = "undo" /\ drv'[d].job = "none" /\ drv'[d].why = "failed"
      /\ drv'[d].queue = {} /\ drv'[d].todo = ToUndo(1, Outputs)
  BY <1>1, PlanIsCommitted DEF Job, IdleDriver
<1>3. UNCHANGED <<row, ext, vault, boot, run>> /\ Active /\ Ready(d)
  BY <1>1 DEF BeginFail, database
<1>4. JobFits(d)' /\ LoopFits(d)' /\ UndoFits(d)'
  BY <1>2, <1>3, ToUndoIs DEF JobFits, LoopFits, UndoFits, InLoop, Undoing, Is, Active, IsTerminal
<1>5. RunSays'
  BY <1>3 DEF InStep, RunSays, Through
<1>6. \A o \in vault : \E s \in drv'[d].todo : OutputOf(s) = o
  BY <1>2, ToUndoIs, StepsAre DEF InStep, VaultFits, Undisturbed
<1>7. QED
  BY <1>2, <1>3, <1>4, <1>5, <1>6, PassFresh, TurnsTo DEF Undisturbed, Is

LEMMA BeginPrepareInStep ==
  ASSUME Undisturbed, Settled, InStep, NEW d \in Drivers, BeginPrepare(d) PROVE InStep'
<1>1. drv'[d] = [Job(d, "prepare", "next") EXCEPT !.again = TRUE, !.queue = Live(version)]
  BY WellTypedDrivers, Becomes DEF BeginPrepare, Prepares, Settled, Served
<1>2. drv'[d].pc = "next" /\ drv'[d].job = "prepare" /\ drv'[d].queue = Live(1)
  BY <1>1, PlanIsCommitted DEF Job, IdleDriver
<1>3. /\ UNCHANGED <<row, ext, vault, boot>> /\ Active /\ Ready(d) /\ run' = "preparing"
      /\ run \in {"scheduled", "preparing"}
  BY <1>1 DEF BeginPrepare, Prepares
<1>4. JobFits(d)' /\ LoopFits(d)' /\ UndoFits(d)'
  BY <1>2, <1>3 DEF JobFits, LoopFits, UndoFits, InLoop, Undoing, Is, Live
<1>5. RunSays'
  BY <1>3 DEF InStep, RunSays, TerminalStates
<1>6. QED
  BY <1>2, <1>3, <1>4, <1>5, PassFresh, TurnsTo DEF Undisturbed, Is, TerminalStates

LEMMA BeginStopInStep ==
  ASSUME Undisturbed, Settled, InStep, NEW d \in Drivers, BeginStop(d) PROVE InStep'
<1>1. PICK o \in StopsDue : Become(d, [Job(d, "stop", "loop") EXCEPT !.out = o])
  BY DEF BeginStop
<1>2. drv'[d] = [Job(d, "stop", "loop") EXCEPT !.out = o]
  BY <1>1, WellTypedDrivers, Becomes DEF Settled, Served
<1>3. /\ drv'[d].pc = "loop" /\ drv'[d].job = "stop" /\ drv'[d].out = o
      /\ drv'[d].queue = {} /\ drv'[d].seq = 0
  BY <1>2 DEF Job, IdleDriver
<1>4. UNCHANGED <<row, ext, vault, boot, run>> /\ Active /\ Ready(d) /\ InWindow(d)
  BY DEF BeginStop, database, InWindow
<1>5. o \in Live(1) /\ Progress(1, o) = "started"
  BY <1>1, PlanIsCommitted DEF StopsDue, StopDue
<1>6. run \in {"ready", "running"}
  BY <1>4, <1>5, WindowStates, CompletingIsThrough DEF Undisturbed
<1>7. \A s \in Seqs : OutputOf(s) = o /\ PhaseOf(s) = "start" => row[s] = "done"
  BY <1>5, ProgressIs DEF Undisturbed
<1>8. JobFits(d)'
  BY <1>3, <1>4, <1>5, <1>6 DEF JobFits, InLoop, Undoing, Live
<1>9. LoopFits(d)' /\ UndoFits(d)'
  BY <1>3, <1>4, <1>7, StepsAre DEF LoopFits, UndoFits, InLoop, Undoing, Is, Undisturbed
<1>10. RunSays'
  BY <1>4 DEF InStep, RunSays, Through
<1>11. QED
  BY <1>3, <1>4, <1>8, <1>9, <1>10, PassFresh, TurnsTo DEF Undisturbed, Is

LEMMA BeginStartInStep ==
  ASSUME Undisturbed, Settled, InStep, NEW d \in Drivers, BeginStart(d) PROVE InStep'
<1>1. PICK o \in StartsDue : Become(d, [Job(d, "start", "loop") EXCEPT !.out = o])
  BY DEF BeginStart
<1>2. drv'[d] = [Job(d, "start", "loop") EXCEPT !.out = o]
  BY <1>1, WellTypedDrivers, Becomes DEF Settled, Served
<1>3. /\ drv'[d].pc = "loop" /\ drv'[d].job = "start" /\ drv'[d].out = o
      /\ drv'[d].queue = {} /\ drv'[d].seq = 0
  BY <1>2 DEF Job, IdleDriver
<1>4. /\ UNCHANGED <<row, ext, vault, boot>> /\ Active /\ Ready(d) /\ InWindow(d)
      /\ run' = IF run = "ready" THEN "running" ELSE run
  BY DEF BeginStart, InWindow
<1>5. o \in Live(1) /\ Progress(1, o) = "pending"
  BY <1>1, PlanIsCommitted DEF StartsDue, StartDue
<1>6. run \in {"ready", "running"} /\ run' = "running"
  BY <1>4, <1>5, WindowStates, CompletingIsThrough DEF Undisturbed
<1>7. JobFits(d)'
  BY <1>3, <1>4, <1>5, <1>6 DEF JobFits, InLoop, Undoing, Live
<1>8. LoopFits(d)' /\ UndoFits(d)'
  BY <1>3, <1>4, StepsAre DEF LoopFits, UndoFits, InLoop, Undoing, Is, Undisturbed
<1>9. RunSays'
  BY <1>4, <1>6 DEF InStep, RunSays, TerminalStates
<1>10. QED
  BY <1>3, <1>4, <1>6, <1>7, <1>8, <1>9, PassFresh, TurnsTo DEF Undisturbed, Is, TerminalStates

LEMMA BeginCompleteInStep ==
  ASSUME Undisturbed, Settled, InStep, NEW d \in Drivers, BeginComplete(d) PROVE InStep'
<1>1. drv'[d] = [Job(d, "complete", "loop") EXCEPT !.good = Delivered]
  BY WellTypedDrivers, Becomes DEF BeginComplete, Settled, Served
<1>2. drv'[d].pc = "loop" /\ drv'[d].job = "complete" /\ drv'[d].queue = {} /\ drv'[d].seq = 0
  BY <1>1 DEF Job, IdleDriver
<1>3. /\ UNCHANGED <<row, ext, vault, boot>> /\ Active /\ Ready(d) /\ InWindow(d)
      /\ run' = "completing"
  BY DEF BeginComplete, InWindow
<1>4. ASSUME NEW o \in Live(1) PROVE Through(o)
  <2>1. CASE run = "completing"
    BY <2>1 DEF InStep, RunSays
  <2>2. CASE run \in {"ready", "running"}
    <3>1. Progress(1, o) \in {"failed", "stopped"}
      BY PlanIsCommitted DEF BeginComplete
    <3>2. ASSUME NEW s \in Seqs, row[s] = "failed" PROVE KindOf(s) # "finalize"
      BY <2>2, <3>2, StepsAre DEF InStep, RunSays, Undisturbed, TerminalStates
    <3>3. \E s \in Seqs : KindOf(s) = "stopStreaming" /\ OutputOf(s) = o
      BY DEF Undisturbed, WellPlanned
    <3>4. QED
      BY <3>1, <3>2, <3>3, ProgressIs DEF Through, Undisturbed
  <2>3. QED
    BY <1>3, <2>1, <2>2, WindowStates
<1>5. \A s \in Seqs : row[s] # "running"
  BY <1>3, PassFresh DEF Undisturbed
<1>6. JobFits(d)'
  BY <1>2, <1>3 DEF JobFits, InLoop, Undoing, Live
<1>7. LoopFits(d)' /\ UndoFits(d)'
  BY <1>2, <1>3, StepsAre DEF LoopFits, UndoFits, InLoop, Undoing, Is, Undisturbed
<1>8. RunSays'
  BY <1>3, <1>4, <1>5, WindowStates DEF InStep, RunSays, Through, Live
<1>9. QED
  BY <1>2, <1>3, <1>6, <1>7, <1>8, PassFresh, TurnsTo DEF Undisturbed, Is, TerminalStates

LEMMA MarkMissedInStep ==
  ASSUME Undisturbed, Settled, InStep, NEW d \in Drivers, MarkMissed(d) PROVE InStep'
<1>1. PICK o \in StartsDue :
        /\ row' = [s \in Seqs |-> IF s \in MineIn(version, o, "start") /\ row[s] = "pending"
                                   THEN "failed" ELSE row[s]]
        /\ Become(d, [Job(d, "start", "undo") EXCEPT !.out = o, !.why = "output",
                                                     !.todo = ToUndo(version, {o})])
  BY Zenon DEF MarkMissed
<1>2. drv'[d] = [Job(d, "start", "undo") EXCEPT !.out = o, !.why = "output",
                                                !.todo = ToUndo(version, {o})]
  BY <1>1, WellTypedDrivers, Becomes DEF Settled, Served
<1>3. /\ drv'[d].pc = "undo" /\ drv'[d].job = "start" /\ drv'[d].out = o /\ drv'[d].why = "output"
      /\ drv'[d].queue = {} /\ drv'[d].todo = ToUndo(1, {o})
  BY <1>2, PlanIsCommitted DEF Job, IdleDriver
<1>4. UNCHANGED <<ext, vault, boot, run>> /\ Active /\ Ready(d) /\ InWindow(d)
  BY DEF MarkMissed, InWindow
<1>5. o \in Live(1) /\ Progress(1, o) = "pending"
  BY <1>1, PlanIsCommitted DEF StartsDue, StartDue
<1>6. run \in {"ready", "running"}
  BY <1>4, <1>5, WindowStates, CompletingIsThrough DEF Undisturbed
<1>7. \A s \in Seqs : \/ row'[s] = row[s]
                      \/ PhaseOf(s) = "start" /\ row[s] = "pending" /\ row'[s] = "failed"
  BY <1>1, PlanIsCommitted, MineAre
<1>8. \A s \in Seqs : row[s] # "running"
  BY <1>4, PassFresh DEF Undisturbed
<1>9. JobFits(d)'
  BY <1>3, <1>4, <1>5, <1>6 DEF JobFits, InLoop, Undoing, Live, Active, IsTerminal
<1>10. LoopFits(d)' /\ UndoFits(d)'
  BY <1>3, <1>5, <1>7, ToUndoIs DEF LoopFits, UndoFits, InLoop, Undoing, Is, Live
<1>11. RunningOwned' /\ OnlyPreparesUndone'
  BY <1>7, <1>8, StepsAre DEF InStep, RunningOwned, OnlyPreparesUndone, Undisturbed
<1>12. RowOrder'
  BY <1>7, StepsAre DEF InStep, RowOrder, Made, Undisturbed
<1>13. RunSays'
  BY <1>4, <1>6, <1>7 DEF InStep, RunSays, TerminalStates
<1>14. VaultFits'
  <2>1. \A e \in Drivers : drv'[e].pc = "undo" /\ drv'[e].why = "output"
    BY <1>3, OnlyOne DEF Undisturbed
  <2>2. \A s \in Seqs : row[s] = "done" <=> row'[s] = "done"
    BY <1>7
  <2>3. QED
    BY <1>4, <1>6, <2>1, <2>2 DEF InStep, VaultFits, Undoing, Is, TerminalStates
<1>15. QED
  BY <1>9, <1>10, <1>11, <1>12, <1>13, <1>14, InStepBy DEF Undisturbed

LEMMA PassInStep ==
  ASSUME Undisturbed, Settled, InStep, NEW d \in Drivers, Pass(d) PROVE InStep'
<1>1. CASE StopPass(d)
  BY <1>1, RestsInStep DEF StopPass, Is, database
<1>2. QED
  BY <1>1, BeginFailInStep, BeginPrepareInStep, BeginStopInStep, MarkMissedInStep, BeginStartInStep,
     BeginCompleteInStep DEF Pass

-----------------------------------------------------------------------------
(* The loop *)

\* The broadcast that an output's rows know.
LEMMA PreparedIs ==
  ASSUME Settled, WellPlanned, NEW s \in Seqs, KindOf(s) = "prepare"
  PROVE  PreparedId(OutputOf(s)) = IF row[s] = "done" THEN ext[s] ELSE 0
<1>1. \A t \in PreparedRows(OutputOf(s)) : t = s
  BY DEF PreparedRows, WellPlanned, KindOf, OutputOf
<1>2. row[s] = "done" => PreparedRows(OutputOf(s)) = {s}
  BY <1>1 DEF PreparedRows, KindOf, OutputOf
<1>3. row[s] # "done" => PreparedRows(OutputOf(s)) = {}
  BY <1>1 DEF PreparedRows
<1>4. QED
  BY <1>2, <1>3 DEF PreparedId

LEMMA PreparedSame ==
  ASSUME NEW o,
         \A s \in Seqs : KindOf(s) = "prepare" /\ OutputOf(s) = o =>
           (row'[s] = "done" <=> row[s] = "done") /\ ext'[s] = ext[s]
  PROVE  PreparedId(o)' = PreparedId(o)
<1>1. PreparedRows(o)' = PreparedRows(o)
  BY DEF PreparedRows, KindOf, OutputOf
<1>2. \A s \in PreparedRows(o) : ext'[s] = ext[s]
  BY DEF PreparedRows, KindOf, OutputOf
<1>3. QED
  BY <1>1, <1>2 DEF PreparedId

\* A prepared output's broadcast is known.
LEMMA PreparedKnown ==
  ASSUME Settled, WellPlanned, NEW s \in Seqs, KindOf(s) = "prepare", row[s] = "done"
  PROVE  PreparedId(OutputOf(s)) \in Broadcast /\ PreparedId(OutputOf(s)) # 0
<1>1. SameSteps(version)
  BY PlanIsCommitted DEF SameSteps, Committed
<1>2. Of(ext[s], OutputOf(s))
  BY <1>1 DEF Settled, Served, RowsRight, Trusted, KindOf, OutputOf
<1>3. QED
  BY <1>2, PreparedIs DEF Of, Broadcast

\* What the loop comes to next: of the rows that it is about, the first one that
\* is not made.
LEMMA NextStepIs ==
  ASSUME Undisturbed, Settled, InStep, NEW d \in Drivers, NextStep(d)
  PROVE  \E s \in Seqs :
           /\ Selected(d, s) /\ ~Made(s) /\ \A t \in Seqs : Selected(d, t) /\ t < s => Made(t)
           /\ row' = [row EXCEPT ![s] = "running"]
           /\ drv'[d] = [drv[d] EXCEPT !.pc = "call", !.seq = s, !.att = 1, !.call = "sent",
                                       !.arg = Argument(1, s)]
<1>1. drv[d].v = 1 /\ drv[d] \in DriverState /\ drv[d].seq \in Nat /\ Seqs \subseteq Nat
  BY PlanIsCommitted, DriverOf, WellTypedDrivers, SeqsAreNumbers DEF DriverState, Settled, Served
<1>2. Outstanding(d) = {s \in Seqs : s > drv[d].seq /\ Selected(d, s) /\ ~Made(s)}
  <2>1. \A s \in Seqs : RowIs(s, "done") \/ RowIs(s, "compensated") <=> Made(s)
    BY DEF RowIs, Made
  <2>2. QED
    BY <1>1, <2>1, PlanIsCommitted DEF Outstanding, Selected, PhaseOf, OutputOf
<1>3. PICK s \in Outstanding(d) :
        /\ \A t \in Outstanding(d) : s <= t
        /\ s \in Seqs => /\ row' = MarkedRunning(s)
                         /\ Become(d, [drv[d] EXCEPT !.pc = "call", !.seq = s, !.att = 1,
                                                     !.call = "sent", !.arg = Argument(drv[d].v, s)])
  BY Zenon DEF NextStep
<1>4. s \in Seqs /\ Selected(d, s) /\ ~Made(s)
  BY <1>2
<1>5. ASSUME NEW t \in Seqs, Selected(d, t), t < s PROVE Made(t)
  <2>1. CASE t <= drv[d].seq
    BY <1>5, <2>1 DEF InStep, LoopFits, NextStep
  <2>2. CASE ~(t <= drv[d].seq)
    BY <1>1, <1>2, <1>3, <1>4, <1>5, <2>2
  <2>3. QED
    BY <2>1, <2>2
<1>6. drv'[d] = [drv[d] EXCEPT !.pc = "call", !.seq = s, !.att = 1, !.call = "sent",
                               !.arg = Argument(1, s)]
  BY <1>1, <1>3, <1>4, WellTypedDrivers, Becomes DEF Settled, Served
<1>7. row' = [row EXCEPT ![s] = "running"]
  BY <1>3, <1>4 DEF MarkedRunning
<1>8. QED
  BY <1>4, <1>5, <1>6, <1>7, Zenon

LEMMA NextStepInStep ==
  ASSUME Undisturbed, Settled, InStep, NEW d \in Drivers, NextStep(d) PROVE InStep'
<1>1. PICK s \in Seqs :
        /\ Selected(d, s) /\ ~Made(s) /\ \A t \in Seqs : Selected(d, t) /\ t < s => Made(t)
        /\ row' = [row EXCEPT ![s] = "running"]
        /\ drv'[d] = [drv[d] EXCEPT !.pc = "call", !.seq = s, !.att = 1, !.call = "sent",
                                    !.arg = Argument(1, s)]
  BY NextStepIs, Zenon
<1>2. UNCHANGED <<ext, vault, boot, run>> /\ drv[d].pc = "loop" /\ drv[d] \in DriverState
  BY DriverOf, WellTypedDrivers DEF NextStep, Is, Settled, Served
<1>3. /\ drv'[d].pc = "call" /\ drv'[d].seq = s /\ drv'[d].arg = Argument(1, s)
      /\ drv'[d].job = drv[d].job /\ drv'[d].out = drv[d].out /\ drv'[d].queue = drv[d].queue
  BY <1>1, <1>2 DEF DriverState
<1>4. row'[s] = "running" /\ \A t \in Seqs : t # s => row'[t] = row[t]
  BY <1>1 DEF Settled, Served, WellTyped, TypeOK
<1>5. /\ JobFits(d) /\ LoopFits(d) /\ drv[d].job \in {"prepare", "start", "stop", "complete"}
  BY <1>2 DEF InStep, JobFits, InLoop
<1>6. /\ PhaseOf(s) \in PhasesOf(drv[d].job)
      /\ drv[d].job = "complete" \/ OutputOf(s) = drv[d].out
  BY <1>1 DEF Selected
<1>7. JobFits(d)'
  BY <1>2, <1>3, <1>5 DEF JobFits, InLoop, Undoing, Live
<1>8. LoopFits(d)' /\ UndoFits(d)'
  <2>1. \A t \in Seqs : Selected(d, t)' <=> Selected(d, t)
    BY <1>3 DEF Selected, PhaseOf, OutputOf
  <2>2. ASSUME KindOf(s) \in {"applyStreamTarget", "finalize"}
        PROVE  Argument(1, s) = PreparedId(OutputOf(s))'
    <3>1. Argument(1, s) = PreparedId(OutputOf(s))
      BY <2>2, PlanIsCommitted DEF Argument, KindOf, OutputOf
    <3>2. KindOf(s) # "prepare"
      BY <2>2
    <3>3. QED
      BY <1>2, <1>4, <3>1, <3>2, PreparedSame
  <2>3. ASSUME drv[d].job = "stop", NEW t \in Seqs, OutputOf(t) = drv[d].out, PhaseOf(t) = "start"
        PROVE  row'[t] = "done"
    BY <1>2, <1>4, <1>5, <1>6, <2>3 DEF LoopFits, InLoop, PhasesOf
  <2>4. \A t \in Seqs : Selected(d, t) /\ t < s => row'[t] \in {"done", "compensated"}
    BY <1>1, <1>4, StepsAre DEF Made, Undisturbed
  <2>5. QED
    BY <1>1, <1>3, <2>1, <2>2, <2>3, <2>4
       DEF LoopFits, UndoFits, InLoop, Undoing, Is, Made, KindOf, OutputOf, PhaseOf
<1>9. RunningOwned'
  <2>1. ~Is(d, "call")
    BY <1>2 DEF Is
  <2>2. \A t \in Seqs : row[t] = "running" => MaxCrashes > 0 /\ (boot = "recovering" \/ ~Active)
    BY <2>1, OnlyOne DEF InStep, RunningOwned, Undisturbed
  <2>3. QED
    BY <1>2, <1>3, <1>4, <2>2 DEF RunningOwned, Is, Active
<1>10. RowOrder'
  <2> SUFFICES ASSUME NEW a \in Seqs, NEW b \in Seqs, OutputOf(a) = OutputOf(b)
               PROVE  /\ KindOf(a) \in Precede(KindOf(b)) /\ row'[b] \in {"running", "done"} =>
                           row'[a] \in {"done", "compensated"}
                      /\ KindOf(a) = "startStreaming" /\ KindOf(b) = "stopStreaming"
                         /\ row'[b] # "pending" => row'[a] = "done"
    BY DEF RowOrder, Made, KindOf, OutputOf
  <2>1. CASE b # s
    BY <1>1, <1>4, <2>1 DEF InStep, RowOrder, Made
  <2>2. ASSUME b = s, KindOf(a) \in Precede(KindOf(b)) PROVE row'[a] \in {"done", "compensated"}
    <3>1. a < s
      BY <2>2 DEF Undisturbed, WellPlanned
    <3>2. KindOf(b) \in {"applyStreamTarget", "startStreaming"}
          /\ KindOf(a) \in {"prepare", "applyStreamTarget"}
      BY <2>2 DEF Precede
    <3>3. drv[d].job = "start"
      BY <1>5, <1>6, <2>2, <3>2, StepsAre DEF Undisturbed, PhasesOf
    <3>4. Selected(d, a)
      BY <1>6, <2>2, <3>2, <3>3, StepsAre DEF Selected, PhasesOf, Undisturbed
    <3>5. QED
      BY <1>1, <1>4, <3>1, <3>4, StepsAre DEF Made, Undisturbed
  <2>3. ASSUME b = s, KindOf(a) = "startStreaming", KindOf(b) = "stopStreaming"
        PROVE  row'[a] = "done"
    <3>1. drv[d].job = "stop"
      BY <1>5, <1>6, <2>3, StepsAre DEF Undisturbed, PhasesOf
    <3>2. row[a] = "done" /\ a # s
      BY <1>2, <1>5, <1>6, <2>3, <3>1, StepsAre DEF LoopFits, InLoop, Undisturbed
    <3>3. QED
      BY <1>4, <3>2
  <2>4. QED
    BY <2>1, <2>2, <2>3
<1>11. OnlyPreparesUndone'
  BY <1>4 DEF InStep, OnlyPreparesUndone, KindOf
<1>12. RunSays'
  <2>1. PhaseOf(s) # "prepare" => run \notin {"scheduled", "preparing"}
    BY <1>2, <1>5, <1>6 DEF JobFits, PhasesOf
  <2>2. PhaseOf(s) = "complete" => run = "completing"
    BY <1>2, <1>5, <1>6 DEF JobFits, PhasesOf
  <2>3. run = "completing" => PhaseOf(s) = "complete" /\ KindOf(s) = "finalize"
    BY <1>2, <1>5, <1>6, StepsAre DEF JobFits, PhasesOf, Undisturbed
  <2>4. ASSUME run = "completing", NEW o \in Live(1) PROVE Through(o)'
    <3>1. Through(o)
      BY <2>4 DEF InStep, RunSays
    <3>2. QED
      BY <1>4, <2>3, <2>4, <3>1 DEF Through, OutputOf, KindOf
  <2>5. QED
    BY <1>2, <1>4, <2>1, <2>2, <2>3, <2>4 DEF InStep, RunSays, PhaseOf, Live
<1>13. VaultFits'
  <2>1. \A e \in Drivers : drv'[e].pc = "call"
    BY <1>3, OnlyOne DEF Undisturbed
  <2>2. \A t \in Seqs : row[t] = "done" <=> row'[t] = "done"
    BY <1>1, <1>4 DEF Made
  <2>3. QED
    BY <1>2, <2>1, <2>2 DEF InStep, VaultFits, Undoing, Is, KindOf, OutputOf
<1>14. QED
  BY <1>7, <1>8, <1>9, <1>10, <1>11, <1>12, <1>13, InStepBy DEF Undisturbed

-----------------------------------------------------------------------------
(* The call *)

\* What there is to know of a call in flight.
LEMMA CallIs ==
  ASSUME Undisturbed, Settled, InStep, NEW d \in Drivers, Is(d, "call")
  PROVE  /\ drv[d] \in DriverState /\ drv[d].v = 1 /\ drv[d].seq \in Seqs
         /\ row[drv[d].seq] = "running" /\ Selected(d, drv[d].seq)
         /\ StepOf(d).kind = KindOf(drv[d].seq) /\ StepOf(d).output = OutputOf(drv[d].seq)
         /\ drv[d].job \in {"prepare", "start", "stop", "complete"}
         /\ drv[d].job = "prepare" => run = "preparing"
         /\ drv[d].job \in {"start", "stop"} => run \in {"ready", "running"}
         /\ drv[d].job = "complete" => run = "completing"
         /\ \A s \in Seqs : s # drv[d].seq /\ row[s] = "running" =>
              MaxCrashes > 0 /\ (boot = "recovering" \/ ~Active)
<1>1. drv[d] \in DriverState /\ drv[d].v = 1 /\ drv[d].seq \in Seqs /\ row[drv[d].seq] = "running"
  BY DriverOf, WellTypedDrivers, PlanIsCommitted
     DEF Settled, Served, CallsRun, Placed, AtStep, Is
<1>2. StepOf(d).kind = KindOf(drv[d].seq) /\ StepOf(d).output = OutputOf(drv[d].seq)
  BY <1>1, PlanIsCommitted DEF StepOf, KindOf, OutputOf
<1>3. JobFits(d) /\ LoopFits(d)
  BY DEF InStep
<1>4. \A s \in Seqs : s # drv[d].seq /\ row[s] = "running" =>
         MaxCrashes > 0 /\ (boot = "recovering" \/ ~Active)
  BY OnlyOne DEF InStep, RunningOwned, Undisturbed
<1>5. QED
  BY <1>1, <1>2, <1>3, <1>4 DEF JobFits, LoopFits, InLoop, Is

\* A call that goes on.
LEMMA CallStays ==
  ASSUME Undisturbed, Settled, InStep, NEW d \in Drivers, Is(d, "call"),
         NEW c, NEW b, Become(d, [drv[d] EXCEPT !.call = c, !.arg = b]),
         StepOf(d).kind # "prepare" => b = drv[d].arg,
         UNCHANGED <<row, ext, vault, boot, run>>
  PROVE  InStep'
<1>1. drv'[d] = [drv[d] EXCEPT !.call = c, !.arg = b] /\ drv[d] \in DriverState
  BY CallIs, Becomes, WellTypedDrivers DEF Settled, Served
<1>2. /\ drv'[d].pc = "call" /\ drv'[d].seq = drv[d].seq /\ drv'[d].arg = b
      /\ drv'[d].job = drv[d].job /\ drv'[d].out = drv[d].out /\ drv'[d].queue = drv[d].queue
  BY <1>1 DEF DriverState, Is
<1>3. JobFits(d)'
  BY <1>2 DEF InStep, JobFits, InLoop, Undoing, Live, Is
<1>4. LoopFits(d)'
  <2>1. \A t \in Seqs : Selected(d, t)' <=> Selected(d, t)
    BY <1>2 DEF Selected, PhaseOf, OutputOf
  <2>2. \A o : PreparedId(o)' = PreparedId(o)
    BY PreparedSame
  <2>3. KindOf(drv[d].seq) \in {"applyStreamTarget", "finalize"} => b = PreparedId(OutputOf(drv[d].seq))
    BY CallIs DEF InStep, LoopFits
  <2>4. Selected(d, drv[d].seq) /\ LoopFits(d) /\ drv[d].pc = "call"
    BY CallIs DEF InStep, Is
  <2>5. \A t \in Seqs : Selected(d, t) /\ t < drv[d].seq => row'[t] \in {"done", "compensated"}
    BY <2>4 DEF LoopFits, Made, Is
  <2>6. drv[d].job = "stop" =>
          \A t \in Seqs : OutputOf(t) = drv[d].out /\ PhaseOf(t) = "start" => row'[t] = "done"
    BY <2>4 DEF LoopFits, InLoop, Is
  <2>7. PICK s \in Seqs : s = drv[d].seq
    BY CallIs
  <2>8. KindOf(s) \in {"applyStreamTarget", "finalize"} => b = PreparedId(OutputOf(s))'
    <3>1. PreparedId(OutputOf(s))' = PreparedId(OutputOf(s))
      BY <2>2
    <3>2. QED
      BY <2>3, <2>7, <3>1
  <2>9. QED
    BY <1>2, <2>1, <2>4, <2>5, <2>6, <2>7, <2>8
       DEF LoopFits, Selected, InLoop, Is, Made, KindOf, OutputOf, PhaseOf
<1>5. UndoFits(d)'
  BY <1>2 DEF UndoFits, Undoing, Is
<1>6. RunningOwned'
  BY <1>2, CallIs DEF RunningOwned, Is, Active
<1>7. RowOrder' /\ OnlyPreparesUndone' /\ RunSays'
  BY DEF InStep, RowOrder, OnlyPreparesUndone, RunSays, Through, Made, KindOf, OutputOf, PhaseOf, Live
<1>8. VaultFits'
  <2>1. \A e \in Drivers : drv'[e].pc = "call"
    BY <1>2, OnlyOne DEF Undisturbed
  <2>2. QED
    BY <2>1 DEF InStep, VaultFits, Undoing, Is, KindOf, OutputOf
<1>9. QED
  BY <1>3, <1>4, <1>5, <1>6, <1>7, <1>8, InStepBy DEF Undisturbed

LEMMA CallOkInStep ==
  ASSUME Undisturbed, Settled, InStep, NEW d \in Drivers, CallOk(d) PROVE InStep'
<1> DEFINE s == drv[d].seq
<1>0. Is(d, "call") /\ UNCHANGED <<boot, run>>
  BY DEF CallOk
<1>1. drv'[d] = [drv[d] EXCEPT !.pc = "loop", !.att = 0, !.call = "none", !.arg = 0]
  BY WellTypedDrivers, Becomes DEF CallOk, Settled, Served
<1>2. /\ drv'[d].pc = "loop" /\ drv'[d].seq = s
      /\ drv'[d].job = drv[d].job /\ drv'[d].out = drv[d].out /\ drv'[d].queue = drv[d].queue
  BY <1>0, <1>1, CallIs DEF DriverState
<1>3. s \in Seqs /\ row[s] = "running" /\ row'[s] = "done"
      /\ \A t \in Seqs : t # s => row'[t] = row[t]
  BY <1>0, CallIs DEF CallOk, Settled, Served, WellTyped, TypeOK
<1>4. JobFits(d)'
  BY <1>0, <1>2 DEF InStep, JobFits, InLoop, Undoing, Live, Is
<1>5. LoopFits(d)' /\ UndoFits(d)'
  <2>1. \A t \in Seqs : Selected(d, t)' <=> Selected(d, t)
    BY <1>2 DEF Selected, PhaseOf, OutputOf
  <2>2. \A t \in Seqs : Selected(d, t) /\ t <= s => row'[t] \in {"done", "compensated"}
    <3>1. ASSUME NEW t \in Seqs, t <= s PROVE t < s \/ t = s
      <4>1. t \in Nat /\ s \in Nat
        BY <1>3, SeqsAreNumbers
      <4>2. QED
        BY <3>1, <4>1
    <3>2. QED
      BY <1>0, <1>3, <3>1 DEF InStep, LoopFits, Made
  <2>3. QED
    BY <1>0, <1>2, <1>3, <2>1, <2>2
       DEF InStep, LoopFits, UndoFits, InLoop, Undoing, Is, Made, KindOf, OutputOf, PhaseOf
<1>6. RunningOwned'
  BY <1>0, <1>3, CallIs DEF RunningOwned, Active
<1>7. RowOrder' /\ OnlyPreparesUndone'
  BY <1>3 DEF InStep, RowOrder, OnlyPreparesUndone, Made, KindOf, OutputOf
<1>8. RunSays'
  BY <1>0, <1>3 DEF InStep, RunSays, Through, KindOf, OutputOf, PhaseOf, Live
<1>9. VaultFits'
  <2>1. \A e \in Drivers : drv'[e].pc = "loop"
    BY <1>2, OnlyOne DEF Undisturbed
  <2>2. run \notin TerminalStates
    BY <1>0, CallIs DEF TerminalStates
  <2>3. vault' = IF KindOf(s) = "prepare" THEN vault \cup {OutputOf(s)}
                 ELSE IF KindOf(s) = "finalize" /\ drv[d].arg # 0 THEN vault \ {OutputOf(s)}
                 ELSE vault
    BY <1>0, CallIs DEF CallOk, VaultAfter
  <2>4. \A o \in vault' : \E t \in Seqs : KindOf(t) = "prepare" /\ OutputOf(t) = o /\ row'[t] = "done"
    <3>1. \A o \in vault : \E t \in Seqs : KindOf(t) = "prepare" /\ OutputOf(t) = o /\ row'[t] = "done"
      BY <1>3 DEF InStep, VaultFits
    <3>2. QED
      BY <1>3, <2>3, <3>1
  <2>5. ASSUME NEW t \in Seqs, KindOf(t) = "finalize", row'[t] = "done", OutputOf(t) \in vault'
        PROVE  FALSE
    <3>1. CASE t = s
      <4>1. drv[d].arg = 0 /\ OutputOf(s) \in vault
        BY <2>3, <2>5, <3>1
      <4>2. PreparedId(OutputOf(s)) = 0
        BY <1>0, <2>5, <3>1, <4>1 DEF InStep, LoopFits
      <4>3. PICK p \in Seqs : KindOf(p) = "prepare" /\ OutputOf(p) = OutputOf(s) /\ row[p] = "done"
        BY <4>1 DEF InStep, VaultFits
      <4>4. QED
        BY <4>2, <4>3, PreparedKnown DEF Undisturbed
    <3>2. CASE t # s
      <4>1. row[t] = "done" /\ OutputOf(t) \notin vault
        BY <1>3, <2>5, <3>2 DEF InStep, VaultFits
      <4>2. KindOf(s) = "prepare"
        BY <2>3, <2>5, <4>1
      <4>3. run \in {"preparing", "ready", "running"}
        BY <1>0, <4>2, CallIs, StepsAre DEF Selected, PhasesOf, Undisturbed
      <4>4. PhaseOf(t) = "complete"
        BY <2>5, StepsAre DEF Undisturbed
      <4>5. QED
        BY <4>1, <4>3, <4>4 DEF InStep, RunSays, TerminalStates
    <3>3. QED
      BY <3>1, <3>2
  <2>6. QED
    BY <1>0, <2>1, <2>2, <2>4, <2>5 DEF VaultFits, Undoing, Is, KindOf, OutputOf
<1>10. QED
  BY <1>4, <1>5, <1>6, <1>7, <1>8, <1>9, InStepBy DEF Undisturbed

\* A call that failed is made again, or its row fails; a key may go with it.
LEMMA CallFailedInStep ==
  ASSUME Undisturbed, Settled, InStep, NEW d \in Drivers, Is(d, "call"), CallFailed(d),
         vault' \subseteq vault
  PROVE  InStep'
<1> DEFINE s == drv[d].seq
<1>1. /\ s \in Seqs /\ row[s] = "running" /\ UNCHANGED <<ext, boot, run>>
      /\ row \in [Seqs -> StepState]
  BY CallIs DEF CallFailed, Settled, Served, WellTyped, TypeOK
<1>2. \/ /\ row' = row /\ drv'[d].pc = "call" /\ drv'[d].arg = Argument(1, s)
      \/ /\ row' = [row EXCEPT ![s] = "failed"] /\ drv'[d].pc = "failed"
  <2>1. \/ /\ row' = MarkedRunning(s)
           /\ Become(d, [drv[d] EXCEPT !.att = @ + 1, !.call = "sent",
                                       !.arg = Argument(drv[d].v, s)])
        \/ /\ row' = [row EXCEPT ![s] = "failed"]
           /\ Become(d, [drv[d] EXCEPT !.pc = "failed", !.att = 0, !.call = "none", !.arg = 0])
    BY DEF CallFailed
  <2>2. \/ /\ row' = MarkedRunning(s)
           /\ drv'[d] = [drv[d] EXCEPT !.att = @ + 1, !.call = "sent", !.arg = Argument(drv[d].v, s)]
        \/ /\ row' = [row EXCEPT ![s] = "failed"]
           /\ drv'[d] = [drv[d] EXCEPT !.pc = "failed", !.att = 0, !.call = "none", !.arg = 0]
    BY <2>1, Becomes, WellTypedDrivers DEF Settled, Served
  <2>3. MarkedRunning(s) = row
    BY <1>1 DEF MarkedRunning
  <2>4. drv[d] \in DriverState /\ drv[d].pc = "call" /\ drv[d].v = 1
    BY CallIs DEF Is
  <2>5. QED
    BY <2>2, <2>3, <2>4 DEF DriverState
<1>3. /\ drv'[d].seq = s /\ drv'[d].job = drv[d].job /\ drv'[d].out = drv[d].out
      /\ drv'[d].queue = drv[d].queue
  <2>1. \/ Become(d, [drv[d] EXCEPT !.att = @ + 1, !.call = "sent",
                                    !.arg = Argument(drv[d].v, s)])
        \/ Become(d, [drv[d] EXCEPT !.pc = "failed", !.att = 0, !.call = "none", !.arg = 0])
    BY DEF CallFailed
  <2>2. \/ drv'[d] = [drv[d] EXCEPT !.att = @ + 1, !.call = "sent", !.arg = Argument(drv[d].v, s)]
        \/ drv'[d] = [drv[d] EXCEPT !.pc = "failed", !.att = 0, !.call = "none", !.arg = 0]
    BY <2>1, Becomes, WellTypedDrivers DEF Settled, Served
  <2>3. drv[d] \in DriverState
    BY CallIs
  <2>4. QED
    BY <2>2, <2>3 DEF DriverState
<1>4. /\ \A t \in Seqs : t # s => row'[t] = row[t]
      /\ row'[s] \in {"running", "failed"}
      /\ drv'[d].pc = "call" <=> row'[s] = "running"
      /\ drv'[d].pc \in {"call", "failed"}
  BY <1>1, <1>2
<1>5. JobFits(d)'
  BY <1>1, <1>3, <1>4 DEF InStep, JobFits, InLoop, Undoing, Live, Is
<1>6. LoopFits(d)' /\ UndoFits(d)'
  <2>1. \A t \in Seqs : Selected(d, t)' <=> Selected(d, t)
    BY <1>3 DEF Selected, PhaseOf, OutputOf
  <2>2. \A o : PreparedId(o)' = PreparedId(o)
    BY <1>1, <1>4, PreparedSame
  <2>3. KindOf(s) \in {"applyStreamTarget", "finalize"} => Argument(1, s) = PreparedId(OutputOf(s))
    BY <1>1, PlanIsCommitted DEF Argument, KindOf, OutputOf
  <2>4. \A t \in Seqs : Selected(d, t) /\ t < s => row'[t] \in {"done", "compensated"}
    BY <1>1, <1>4 DEF InStep, LoopFits, Made
  <2>5. drv'[d].pc = "call" => drv'[d].arg = Argument(1, s)
    BY <1>2
  <2>6. Selected(d, s)
    BY CallIs
  <2>7. drv[d].job = "stop" =>
          \A t \in Seqs : OutputOf(t) = drv[d].out /\ PhaseOf(t) = "start" => row'[t] = "done"
    BY <1>1, <1>4 DEF InStep, LoopFits, InLoop, Is
  <2>8. QED
    BY <1>1, <1>3, <1>4, <2>1, <2>2, <2>3, <2>4, <2>5, <2>6, <2>7
       DEF LoopFits, UndoFits, InLoop, Undoing, Is, Made, KindOf, OutputOf, PhaseOf
<1>7. RunningOwned'
  BY <1>1, <1>3, <1>4, CallIs DEF RunningOwned, Active, Is
<1>8. RowOrder' /\ OnlyPreparesUndone'
  BY <1>1, <1>4 DEF InStep, RowOrder, OnlyPreparesUndone, Made, KindOf, OutputOf
<1>9. RunSays'
  BY <1>1, <1>4 DEF InStep, RunSays, Through, KindOf, OutputOf, PhaseOf, Live
<1>10. VaultFits'
  <2>1. \A e \in Drivers : drv'[e].pc \in {"call", "failed"}
    BY <1>4, OnlyOne DEF Undisturbed
  <2>2. \A t \in Seqs : row[t] = "done" <=> row'[t] = "done"
    BY <1>1, <1>4
  <2>3. QED
    BY <1>1, <2>1, <2>2 DEF InStep, VaultFits, Undoing, Is, KindOf, OutputOf
<1>11. QED
  BY <1>5, <1>6, <1>7, <1>8, <1>9, <1>10, InStepBy DEF Undisturbed

LEMMA InACall == ASSUME NEW d \in Drivers, Call(d) PROVE Is(d, "call")
BY DEF Call, LookForBroadcast, CreateBroadcast, PointEncoder, StartEncoder, StopEncoder,
       CloseBroadcast, CallOk, Fault, NoTarget, Calling

LEMMA CallInStep ==
  ASSUME Undisturbed, Settled, InStep, NEW d \in Drivers, Call(d) PROVE InStep'
<1>1. Is(d, "call") /\ drv[d] \in DriverState
  BY InACall, CallIs
<1>2. \A c : [drv[d] EXCEPT !.call = c] = [drv[d] EXCEPT !.call = c, !.arg = drv[d].arg]
  BY <1>1 DEF DriverState
<1>3. ASSUME UNCHANGED <<row, ext, vault, boot, run>>,
             \/ \E c : Become(d, [drv[d] EXCEPT !.call = c])
             \/ /\ StepOf(d).kind = "prepare"
                /\ \E c, b : Become(d, [drv[d] EXCEPT !.call = c, !.arg = b])
      PROVE  InStep'
  <2>1. PICK c, b : /\ Become(d, [drv[d] EXCEPT !.call = c, !.arg = b])
                    /\ StepOf(d).kind # "prepare" => b = drv[d].arg
    BY <1>2, <1>3
  <2>2. QED
    BY <1>1, <1>3, <2>1, CallStays
<1>4. CASE LookForBroadcast(d)
  <2>1. UNCHANGED <<row, ext, vault, boot, run>> /\ StepOf(d).kind = "prepare"
    BY <1>4 DEF LookForBroadcast, Calling, database
  <2>2. \/ Become(d, [drv[d] EXCEPT !.call = "absent"])
        \/ \E b : Become(d, [drv[d] EXCEPT !.call = "landed", !.arg = b])
    BY <1>4 DEF LookForBroadcast
  <2>3. QED
    BY <1>3, <2>1, <2>2
<1>5. CASE CreateBroadcast(d)
  <2>1. UNCHANGED <<row, ext, vault, boot, run>> /\ StepOf(d).kind = "prepare"
    BY <1>5 DEF CreateBroadcast, Calling, database
  <2>2. \E b : Become(d, [drv[d] EXCEPT !.call = "landed", !.arg = b])
    BY <1>5 DEF CreateBroadcast
  <2>3. QED
    BY <1>3, <2>1, <2>2
<1>6. CASE PointEncoder(d) \/ StartEncoder(d) \/ StopEncoder(d) \/ CloseBroadcast(d)
  <2>1. UNCHANGED <<row, ext, vault, boot, run>> /\ Answered(d)
    BY <1>6 DEF PointEncoder, StartEncoder, StopEncoder, CloseBroadcast, database
  <2>2. QED
    BY <1>3, <2>1 DEF Answered
<1>7. CASE Fault(d) \/ NoTarget(d)
  BY <1>1, <1>7, CallFailedInStep DEF Fault, NoTarget
<1>8. QED
  BY <1>4, <1>5, <1>6, <1>7, CallOkInStep DEF Call

-----------------------------------------------------------------------------
(* The ends of the loops *)

\* What is known of a driver whose job has a loop, and who makes no call.
LEMMA JobIs ==
  ASSUME Undisturbed, Settled, InStep, NEW d \in Drivers, drv[d].pc \in {"next", "loop", "failed"}
  PROVE  /\ drv[d] \in DriverState /\ drv[d].v = 1 /\ DriverTyped
         /\ drv[d].pc = "next" => drv[d].job = "prepare"
         /\ drv[d].job \in {"prepare", "start", "stop", "complete"}
         /\ drv[d].job = "prepare" => run = "preparing"
         /\ drv[d].job \in {"start", "stop"} => run \in {"ready", "running"}
         /\ drv[d].job = "complete" => run = "completing"
         /\ drv[d].pc # "next" /\ drv[d].job # "complete" => drv[d].out \in Live(1)
         /\ drv[d].queue \subseteq Live(1)
         /\ ~Is(d, "call") /\ Active
<1>1. drv[d] \in DriverState /\ drv[d].v = 1 /\ DriverTyped
  BY DriverOf, WellTypedDrivers, PlanIsCommitted DEF Settled, Served
<1>2. JobFits(d)
  BY DEF InStep
<1>3. QED
  BY <1>1, <1>2 DEF JobFits, InLoop, Is, Active, IsTerminal, TerminalStates

\* A driver that takes up the undo of the run, or of the output it is at.
LEMMA UndoesInStep ==
  ASSUME Undisturbed, Settled, InStep, NEW d \in Drivers,
         UNCHANGED <<row, ext, vault, boot, run>>,
         \/ /\ drv[d].pc \in {"next", "loop", "failed"} /\ drv[d].job \in {"prepare", "complete"}
            /\ Become(d, [drv[d] EXCEPT !.pc = "undo", !.why = "failed",
                                        !.todo = ToUndo(drv[d].v, Outputs)])
         \/ /\ drv[d].pc = "failed" /\ drv[d].job \in {"prepare", "start"}
            /\ Become(d, [drv[d] EXCEPT !.pc = "undo", !.why = "output",
                                        !.todo = ToUndo(drv[d].v, {drv[d].out})])
  PROVE  InStep'
<1>0. drv[d].pc \in {"next", "loop", "failed"}
  OBVIOUS
<1>1. \/ /\ drv[d].job \in {"prepare", "complete"}
         /\ drv'[d] = [drv[d] EXCEPT !.pc = "undo", !.why = "failed", !.todo = ToUndo(1, Outputs)]
      \/ /\ drv[d].job \in {"prepare", "start"} /\ drv[d].pc = "failed"
         /\ drv'[d] = [drv[d] EXCEPT !.pc = "undo", !.why = "output",
                                     !.todo = ToUndo(1, {drv[d].out})]
  BY <1>0, JobIs, Becomes
<1>2. /\ drv'[d].pc = "undo" /\ drv'[d].job = drv[d].job /\ drv'[d].out = drv[d].out
      /\ drv'[d].queue = drv[d].queue
      /\ \/ /\ drv[d].job \in {"prepare", "complete"}
            /\ drv'[d].why = "failed" /\ drv'[d].todo = ToUndo(1, Outputs)
         \/ /\ drv[d].job \in {"prepare", "start"} /\ drv[d].pc = "failed"
            /\ drv'[d].why = "output" /\ drv'[d].todo = ToUndo(1, {drv[d].out})
  BY <1>0, <1>1, JobIs DEF DriverState
<1>3. JobFits(d)'
  BY <1>0, <1>2, JobIs DEF JobFits, InLoop, Undoing, Live, Active
<1>4. LoopFits(d)' /\ UndoFits(d)'
  BY <1>0, <1>2, JobIs, ToUndoIs DEF LoopFits, UndoFits, InLoop, Undoing, Is, Live
<1>5. RunSays'
  BY DEF InStep, RunSays, Through, KindOf, OutputOf, PhaseOf, Live
<1>6. drv'[d].why = "failed" => \A o \in vault : \E s \in drv'[d].todo : OutputOf(s) = o
  BY <1>2, ToUndoIs, StepsAre DEF InStep, VaultFits, Undisturbed
<1>7. QED
  BY <1>0, <1>2, <1>3, <1>4, <1>5, <1>6, JobIs, TurnsTo

\* A loop that is done has made every row that it is about.
LEMMA LoopMade ==
  ASSUME Undisturbed, Settled, InStep, NEW d \in Drivers, Is(d, "loop"), Outstanding(d) = {},
         NEW s \in Seqs, Selected(d, s)
  PROVE  Made(s)
<1>1. drv[d].v = 1 /\ drv[d].seq \in Nat /\ s \in Nat
  BY JobIs, SeqsAreNumbers DEF DriverState, Is
<1>2. CASE s <= drv[d].seq
  BY <1>2 DEF InStep, LoopFits
<1>3. CASE ~(s <= drv[d].seq)
  <2>1. RowIs(s, "done") \/ RowIs(s, "compensated")
    BY <1>1, <1>3, PlanIsCommitted DEF Outstanding, Selected, PhaseOf, OutputOf
  <2>2. QED
    BY <2>1 DEF RowIs, Made
<1>4. QED
  BY <1>2, <1>3

LEMMA LoopDoneInStep ==
  ASSUME Undisturbed, Settled, InStep, NEW d \in Drivers, LoopDone(d) PROVE InStep'
<1>0. /\ Is(d, "loop") /\ Outstanding(d) = {} /\ drv[d].pc \in {"next", "loop", "failed"}
      /\ UNCHANGED <<row, ext, vault, boot>>
  BY DEF LoopDone, Is
<1>1. CASE /\ drv[d].job = "prepare" /\ run' = run
           /\ Become(d, [drv[d] EXCEPT !.pc = "next", !.good = TRUE])
  <2>1. drv'[d] = [drv[d] EXCEPT !.pc = "next", !.good = TRUE]
    BY <1>0, <1>1, JobIs, Becomes
  <2>2. drv'[d].pc = "next" /\ drv'[d].job = "prepare" /\ drv'[d].queue = drv[d].queue
    BY <1>0, <1>1, <2>1, JobIs DEF DriverState
  <2>3. JobFits(d)' /\ LoopFits(d)' /\ UndoFits(d)'
    BY <1>0, <1>1, <2>2, JobIs DEF JobFits, LoopFits, UndoFits, InLoop, Undoing, Is, Live
  <2>4. RunSays'
    BY <1>0, <1>1 DEF InStep, RunSays, Through, KindOf, OutputOf, PhaseOf, Live
  <2>5. QED
    BY <1>0, <1>1, <2>2, <2>3, <2>4, JobIs, TurnsTo
<1>2. CASE /\ drv[d].job = "complete" /\ run' = "completed"
           /\ Become(d, [drv[d] EXCEPT !.pc = "settle", !.why = "completed"])
  <2>1. drv'[d] = [drv[d] EXCEPT !.pc = "settle", !.why = "completed"]
    BY <1>0, <1>2, JobIs, Becomes
  <2>2. drv'[d].pc = "settle" /\ drv'[d].job = "complete" /\ drv'[d].queue = drv[d].queue
    BY <1>0, <1>2, <2>1, JobIs DEF DriverState
  <2>3. JobFits(d)' /\ LoopFits(d)' /\ UndoFits(d)'
    BY <1>0, <2>2, JobIs DEF JobFits, LoopFits, UndoFits, InLoop, Undoing, Is, Live
  <2>4. RunSays'
    BY <1>0, <1>2 DEF InStep, RunSays, TerminalStates
  <2>5. ASSUME NEW o \in vault PROVE FALSE
    <3>1. PICK s \in Seqs : KindOf(s) = "prepare" /\ OutputOf(s) = o
      BY DEF InStep, VaultFits
    <3>2. PICK t \in Seqs : KindOf(t) = "finalize" /\ OutputOf(t) = o
      BY <3>1 DEF Undisturbed, WellPlanned
    <3>3. Selected(d, t)
      BY <1>2, <3>2, StepsAre DEF Selected, PhasesOf, Undisturbed
    <3>4. row[t] = "done"
      BY <1>0, <3>2, <3>3, LoopMade DEF InStep, OnlyPreparesUndone, Made
    <3>5. QED
      BY <2>5, <3>2, <3>4 DEF InStep, VaultFits
  <2>6. QED
    BY <1>0, <1>2, <2>2, <2>3, <2>4, <2>5, JobIs, TurnsTo
<1>3. CASE (Rest(d) \/ Become(d, NextPass(d))) /\ run' = run
  BY <1>0, <1>3, JobIs, RestsInStep
<1>4. CASE /\ drv[d].job = "complete" /\ run' = run
           /\ Become(d, [drv[d] EXCEPT !.pc = "undo", !.why = "failed",
                                       !.todo = ToUndo(drv[d].v, Outputs)])
  BY <1>0, <1>4, UndoesInStep
<1>5. drv[d].job # "cancel"
  BY <1>0, JobIs
<1>6. QED
  BY <1>1, <1>2, <1>3, <1>4, <1>5 DEF LoopDone

LEMMA StepFailedInStep ==
  ASSUME Undisturbed, Settled, InStep, NEW d \in Drivers, StepFailed(d) PROVE InStep'
<1>0. drv[d].pc = "failed" /\ UNCHANGED <<row, ext, vault, boot, run>>
  BY DEF StepFailed, Is
<1>1. drv[d].job \in {"prepare", "start", "stop", "complete"} /\ ~Is(d, "call")
  BY <1>0, JobIs
<1>2. CASE drv[d].job \in {"prepare", "start"}
  BY <1>0, <1>2, UndoesInStep DEF StepFailed
<1>3. CASE drv[d].job = "stop"
  BY <1>0, <1>1, <1>3, RestsInStep DEF StepFailed
<1>4. CASE drv[d].job = "complete"
  BY <1>0, <1>4, UndoesInStep DEF StepFailed
<1>5. QED
  BY <1>1, <1>2, <1>3, <1>4

LEMMA NextOutputInStep ==
  ASSUME Undisturbed, Settled, InStep, NEW d \in Drivers, NextOutput(d) PROVE InStep'
<1>0. drv[d].pc = "next" /\ UNCHANGED <<row, ext, vault, boot, run>>
  BY DEF NextOutput, Is, database
<1>1. PICK o \in drv[d].queue :
        Become(d, [drv[d] EXCEPT !.pc = "loop", !.out = o, !.seq = 0, !.queue = @ \ {o}])
  BY DEF NextOutput
<1>2. drv'[d] = [drv[d] EXCEPT !.pc = "loop", !.out = o, !.seq = 0, !.queue = @ \ {o}]
  BY <1>0, <1>1, JobIs, Becomes
<1>3. /\ drv'[d].pc = "loop" /\ drv'[d].job = "prepare" /\ drv'[d].out = o /\ drv'[d].seq = 0
      /\ drv'[d].queue \subseteq drv[d].queue
  BY <1>0, <1>2, JobIs DEF DriverState
<1>4. o \in Live(1) /\ drv[d].queue \subseteq Live(1) /\ run = "preparing"
  BY <1>0, JobIs
<1>5. JobFits(d)'
  BY <1>0, <1>3, <1>4 DEF JobFits, InLoop, Undoing, Live
<1>6. LoopFits(d)' /\ UndoFits(d)'
  <2>1. \A s \in Seqs : ~(s <= 0)
    BY StepsAre DEF Undisturbed
  <2>2. QED
    BY <1>3, <2>1 DEF LoopFits, UndoFits, InLoop, Undoing, Is
<1>7. RunSays'
  BY <1>0 DEF InStep, RunSays, Through, KindOf, OutputOf, PhaseOf, Live
<1>8. QED
  BY <1>0, <1>3, <1>5, <1>6, <1>7, JobIs, TurnsTo

LEMMA OutputsDoneInStep ==
  ASSUME Undisturbed, Settled, InStep, NEW d \in Drivers, OutputsDone(d) PROVE InStep'
<1>0. drv[d].pc = "next" /\ UNCHANGED <<row, ext, vault, boot>>
  BY DEF OutputsDone, Is
<1>1. drv[d].job = "prepare" /\ run = "preparing" /\ ~Is(d, "call") /\ Active /\ DriverTyped
  BY <1>0, JobIs
<1>2. CASE drv[d].good
  <2>1. CASE run' = run /\ Rest(d)
    BY <1>0, <1>1, <2>1, RestsInStep
  <2>2. CASE run' = "ready" /\ Become(d, NextPass(d))
    <3>1. drv'[d] = NextPass(d)
      BY <1>1, <2>2, Becomes
    <3>2. drv'[d].pc \in {"idle", "step"} /\ drv'[d].job = "none" /\ drv'[d].queue = {}
      <4>1. CASE drv[d].again
        BY <3>1, <4>1 DEF IdleDriver, NextPass
      <4>2. CASE ~drv[d].again
        BY <3>1, <4>2 DEF IdleDriver, NextPass
      <4>3. QED
        BY <4>1, <4>2
    <3>3. JobFits(d)' /\ LoopFits(d)' /\ UndoFits(d)'
      BY <3>2 DEF JobFits, LoopFits, UndoFits, InLoop, Undoing, Is
    <3>4. \A s \in Seqs : PhaseOf(s) = "complete" => row[s] = "pending"
      BY <1>1 DEF InStep, RunSays
    <3>5. RunSays'
      BY <1>0, <2>2, <3>4 DEF InStep, RunSays, PhaseOf
    <3>6. QED
      BY <1>0, <1>1, <2>2, <3>2, <3>3, <3>5, TurnsTo DEF TerminalStates
  <2>3. QED
    BY <1>1, <1>2, <2>1, <2>2 DEF OutputsDone
<1>3. CASE ~drv[d].good
  BY <1>0, <1>1, <1>3, UndoesInStep DEF OutputsDone
<1>4. QED
  BY <1>1, <1>2, <1>3 DEF OutputsDone, DriverTyped, DriverState

-----------------------------------------------------------------------------
(* The undo *)

LEMMA UndoIs ==
  ASSUME Undisturbed, Settled, InStep, NEW d \in Drivers, Undoing(d)
  PROVE  /\ drv[d] \in DriverState /\ drv[d].v = 1 /\ DriverTyped /\ ~Is(d, "call") /\ Active
         /\ JobFits(d) /\ UndoFits(d) /\ row \in [Seqs -> StepState]
<1>1. drv[d] \in DriverState /\ drv[d].v = 1 /\ DriverTyped /\ row \in [Seqs -> StepState]
  BY DriverOf, WellTypedDrivers, PlanIsCommitted DEF Settled, Served, WellTyped, TypeOK
<1>2. JobFits(d) /\ UndoFits(d)
  BY DEF InStep
<1>3. QED
  BY <1>1, <1>2 DEF JobFits, Undoing, Is

\* The rest is as it was while the undo goes on.
LEMMA UndoingBy ==
  ASSUME Undisturbed, Settled, InStep, NEW d \in Drivers, Undoing(d), UNCHANGED <<boot, run>>,
         drv'[d].pc \in {"undo", "undoing"}, drv'[d].job = drv[d].job, drv'[d].queue = drv[d].queue,
         UndoFits(d)', VaultFits',
         \A s \in Seqs : \/ row'[s] = row[s]
                         \/ KindOf(s) = "prepare" /\ row[s] = "done" /\ row'[s] = "compensated"
  PROVE  InStep'
<1>1. JobFits(d)'
  BY UndoIs DEF JobFits, InLoop, Undoing, Live, Active
<1>2. LoopFits(d)'
  BY DEF LoopFits, InLoop, Is
<1>3. RunningOwned'
  <2>1. \A e \in Drivers : ~Is(e, "call")
    BY UndoIs, OnlyOne DEF Undisturbed
  <2>2. QED
    BY <2>1 DEF InStep, RunningOwned, Active
<1>4. RowOrder'
  BY DEF InStep, RowOrder, Made, KindOf, OutputOf
<1>5. OnlyPreparesUndone'
  BY DEF InStep, OnlyPreparesUndone, KindOf
<1>6. RunSays'
  <2>1. \A s \in Seqs : KindOf(s) = "prepare" => PhaseOf(s) = "prepare"
    BY StepsAre DEF Undisturbed
  <2>2. \A o \in Live(1) : Through(o) => Through(o)'
    BY DEF Through, KindOf, OutputOf
  <2>3. QED
    BY <2>1, <2>2 DEF InStep, RunSays, PhaseOf, Live
<1>7. QED
  BY <1>1, <1>2, <1>3, <1>4, <1>5, <1>6, InStepBy DEF Undisturbed

LEMMA UndoStepInStep ==
  ASSUME Undisturbed, Settled, InStep, NEW d \in Drivers, UndoStep(d) PROVE InStep'
<1>0. drv[d].pc = "undo" /\ Undoing(d) /\ UNCHANGED <<boot, run>>
  BY DEF UndoStep, Undoing, Is
<1>1. PICK s \in drv[d].todo :
        /\ vault' = vault \ {OutputOf(s)}
        /\ IF PreparedId(OutputOf(s)) = 0
             THEN /\ row' = [row EXCEPT ![s] = "compensated"]
                  /\ Become(d, [drv[d] EXCEPT !.todo = @ \ {s}])
             ELSE /\ Become(d, [drv[d] EXCEPT !.pc = "undoing", !.seq = s, !.call = "sent",
                                              !.arg = PreparedId(OutputOf(s)), !.todo = @ \ {s}])
                  /\ UNCHANGED row
  <2>1. drv[d].v = 1
    BY PlanIsCommitted
  <2>2. QED
    BY <2>1, PlanIsCommitted, Zenon DEF UndoStep, OutputOf
<1>2. s \in Seqs /\ KindOf(s) = "prepare" /\ row[s] = "done"
  BY <1>0, UndoIs DEF UndoFits, DriverState
<1>3. PreparedId(OutputOf(s)) # 0
  BY <1>2, PreparedKnown DEF Undisturbed
<1>4. /\ row' = row
      /\ drv'[d] = [drv[d] EXCEPT !.pc = "undoing", !.seq = s, !.call = "sent",
                                  !.arg = PreparedId(OutputOf(s)), !.todo = @ \ {s}]
  BY <1>0, <1>1, <1>3, UndoIs, Becomes
<1>5. /\ drv'[d].pc = "undoing" /\ drv'[d].seq = s /\ drv'[d].todo = drv[d].todo \ {s}
      /\ drv'[d].why = drv[d].why /\ drv'[d].out = drv[d].out
      /\ drv'[d].job = drv[d].job /\ drv'[d].queue = drv[d].queue
  BY <1>0, <1>4, UndoIs DEF DriverState
<1>6. UndoFits(d)'
  BY <1>0, <1>2, <1>4, <1>5, UndoIs DEF UndoFits, Undoing, Is, KindOf, OutputOf, Live
<1>7. VaultFits'
  <2>1. \A e \in Drivers : e = d
    BY OnlyOne DEF Undisturbed
  <2>2. drv[d].why = "failed" => \A o \in vault' : \E t \in drv'[d].todo : OutputOf(t) = o
    BY <1>0, <1>1, <1>5 DEF InStep, VaultFits
  <2>3. vault' \subseteq vault /\ OutputOf(s) \notin vault'
    BY <1>1
  <2>4. \A o \in vault' : \E t \in Seqs : KindOf(t) = "prepare" /\ OutputOf(t) = o /\ row'[t] = "done"
    BY <1>4, <2>3 DEF InStep, VaultFits
  <2>5. \A t \in Seqs : KindOf(t) = "finalize" /\ row'[t] = "done" => OutputOf(t) \notin vault'
    BY <1>4, <2>3 DEF InStep, VaultFits
  <2>6. run' \in TerminalStates => vault' = {}
    BY <1>0, <2>3 DEF InStep, VaultFits
  <2>7. QED
    BY <1>5, <2>1, <2>2, <2>3, <2>4, <2>5, <2>6 DEF VaultFits, Undoing, Is, KindOf, OutputOf
<1>8. QED
  BY <1>0, <1>4, <1>5, <1>6, <1>7, UndoingBy

LEMMA DiscardInStep ==
  ASSUME Undisturbed, Settled, InStep, NEW d \in Drivers, DiscardBroadcast(d) PROVE InStep'
<1>0. drv[d].pc = "undoing" /\ Undoing(d) /\ UNCHANGED <<row, vault, boot, run>>
  BY DEF DiscardBroadcast, Undoing, Is, database
<1>1. drv'[d] = [drv[d] EXCEPT !.call = "landed"]
  BY <1>0, UndoIs, Becomes DEF DiscardBroadcast, Answered
<1>2. /\ drv'[d].pc = "undoing" /\ drv'[d].seq = drv[d].seq /\ drv'[d].todo = drv[d].todo
      /\ drv'[d].why = drv[d].why /\ drv'[d].out = drv[d].out
      /\ drv'[d].job = drv[d].job /\ drv'[d].queue = drv[d].queue
  BY <1>0, <1>1, UndoIs DEF DriverState
<1>3. UndoFits(d)'
  BY <1>0, <1>2, UndoIs DEF UndoFits, Undoing, Is, KindOf, OutputOf, Live
<1>4. VaultFits'
  <2>1. \A e \in Drivers : e = d
    BY OnlyOne DEF Undisturbed
  <2>2. QED
    BY <1>0, <1>2, <2>1 DEF InStep, VaultFits, Undoing, Is, KindOf, OutputOf
<1>5. QED
  BY <1>0, <1>2, <1>3, <1>4, UndoingBy

LEMMA UndoneInStep ==
  ASSUME Undisturbed, Settled, InStep, NEW d \in Drivers, Is(d, "undoing"),
         NEW state \in {row[drv[d].seq], "compensated"}, Undone(d, state)
  PROVE  InStep'
<1>0. drv[d].pc = "undoing" /\ Undoing(d) /\ UNCHANGED <<vault, boot, run>>
  BY DEF Undone, Undoing, Is
<1>1. drv'[d] = [drv[d] EXCEPT !.pc = "undo", !.call = "none", !.arg = 0]
  BY <1>0, UndoIs, Becomes DEF Undone
<1>2. /\ drv'[d].pc = "undo" /\ drv'[d].todo = drv[d].todo
      /\ drv'[d].why = drv[d].why /\ drv'[d].out = drv[d].out
      /\ drv'[d].job = drv[d].job /\ drv'[d].queue = drv[d].queue
  BY <1>0, <1>1, UndoIs DEF DriverState
<1>3. PICK s \in Seqs : s = drv[d].seq
  BY <1>0, UndoIs DEF UndoFits, Is
<1>4. /\ KindOf(s) = "prepare" /\ row[s] = "done" /\ s \notin drv[d].todo
      /\ row'[s] \in {"done", "compensated"} /\ \A t \in Seqs : t # s => row'[t] = row[t]
  BY <1>0, <1>3, UndoIs DEF UndoFits, Is, Undone
<1>5. UndoFits(d)'
  BY <1>0, <1>2, <1>4, UndoIs DEF UndoFits, Undoing, Is, KindOf, OutputOf, Live, DriverState
<1>6. VaultFits'
  <2>1. \A e \in Drivers : e = d
    BY OnlyOne DEF Undisturbed
  <2>2. OutputOf(s) \notin vault
    BY <1>0, <1>3 DEF InStep, VaultFits, Is
  <2>3. \A o \in vault : \E t \in Seqs : KindOf(t) = "prepare" /\ OutputOf(t) = o /\ row'[t] = "done"
    BY <1>4, <2>2 DEF InStep, VaultFits
  <2>4. \A t \in Seqs : KindOf(t) = "finalize" /\ row'[t] = "done" => OutputOf(t) \notin vault
    BY <1>4 DEF InStep, VaultFits
  <2>5. drv[d].why = "failed" => \A o \in vault : \E t \in drv[d].todo : OutputOf(t) = o
    BY <1>0 DEF InStep, VaultFits
  <2>6. QED
    BY <1>0, <1>2, <2>1, <2>3, <2>4, <2>5 DEF InStep, VaultFits, Undoing, Is, KindOf, OutputOf
<1>7. QED
  BY <1>0, <1>2, <1>4, <1>5, <1>6, UndoingBy

LEMMA UndoDoneInStep ==
  ASSUME Undisturbed, Settled, InStep, NEW d \in Drivers, UndoDone(d) PROVE InStep'
<1>0. /\ drv[d].pc = "undo" /\ Undoing(d) /\ drv[d].todo = {}
      /\ UNCHANGED <<row, ext, vault, boot>>
  BY DEF UndoDone, Undoing, Is
<1>1. drv[d].why \in {"output", "failed"} /\ ~Is(d, "call") /\ Active /\ DriverTyped
  BY <1>0, UndoIs DEF UndoFits
<1>2. CASE (Rest(d) \/ Become(d, NextPass(d))) /\ run' = run
  BY <1>0, <1>1, <1>2, RestsInStep
<1>3. CASE /\ drv[d].job = "prepare" /\ run' = run
           /\ Become(d, [drv[d] EXCEPT !.pc = "next", !.why = "none"])
  <2>1. drv'[d] = [drv[d] EXCEPT !.pc = "next", !.why = "none"]
    BY <1>0, <1>3, UndoIs, Becomes
  <2>2. drv'[d].pc = "next" /\ drv'[d].job = "prepare" /\ drv'[d].queue = drv[d].queue
    BY <1>0, <1>3, <2>1, UndoIs DEF DriverState
  <2>3. JobFits(d)' /\ LoopFits(d)' /\ UndoFits(d)'
    BY <1>0, <1>3, <2>2, UndoIs DEF JobFits, LoopFits, UndoFits, InLoop, Undoing, Is, Live
  <2>4. RunSays'
    BY <1>0, <1>3 DEF InStep, RunSays, Through, KindOf, OutputOf, PhaseOf, Live
  <2>5. QED
    BY <1>0, <1>1, <1>3, <2>2, <2>3, <2>4, TurnsTo
<1>4. CASE /\ drv[d].why = "failed" /\ run' = "failed" /\ Become(d, [drv[d] EXCEPT !.pc = "settle"])
  <2>1. drv'[d] = [drv[d] EXCEPT !.pc = "settle"]
    BY <1>0, <1>4, UndoIs, Becomes
  <2>2. drv'[d].pc = "settle" /\ drv'[d].job = drv[d].job /\ drv'[d].queue = drv[d].queue
    BY <1>0, <2>1, UndoIs DEF DriverState
  <2>3. JobFits(d)' /\ LoopFits(d)' /\ UndoFits(d)'
    BY <1>0, <2>2, UndoIs DEF JobFits, LoopFits, UndoFits, InLoop, Undoing, Is, Live
  <2>4. RunSays'
    BY <1>0, <1>4 DEF InStep, RunSays, TerminalStates
  <2>5. vault = {}
    BY <1>0, <1>4 DEF InStep, VaultFits
  <2>6. QED
    BY <1>0, <1>1, <1>4, <2>2, <2>3, <2>4, <2>5, TurnsTo
<1>5. QED
  BY <1>1, <1>2, <1>3, <1>4 DEF UndoDone

LEMMA SettleInStep ==
  ASSUME Undisturbed, Settled, InStep, NEW d \in Drivers, Settle(d) PROVE InStep'
BY RestsInStep DEF Settle, Is

LEMMA WorkInStep ==
  ASSUME Undisturbed, Settled, InStep, NEW d \in Drivers, Work(d) PROVE InStep'
<1>1. CASE Undo(d)
  <2>1. CASE UndoOk(d)
    BY <2>1, UndoneInStep DEF UndoOk
  <2>2. CASE UndoFault(d)
    <3>1. PICK state \in {row[drv[d].seq], "compensated"} : Undone(d, state)
      BY <2>2 DEF UndoFault
    <3>2. QED
      BY <2>2, <3>1, UndoneInStep DEF UndoFault
  <2>3. QED
    BY <1>1, <2>1, <2>2, UndoStepInStep, DiscardInStep, UndoDoneInStep DEF Undo
<1>2. QED
  BY <1>1, PassInStep, NextStepInStep, LoopDoneInStep, StepFailedInStep, NextOutputInStep,
     OutputsDoneInStep, CallInStep, SettleInStep DEF Work

-----------------------------------------------------------------------------
(* Crashes and recovery *)

LEMMA CrashInStep ==
  ASSUME Undisturbed, Settled, InStep, Crash PROVE InStep'
<1>1. \A d \in Drivers : drv'[d] = IdleDriver
  BY DEF Crash
<1>2. UNCHANGED <<row, vault, run>> /\ boot' = "recovering"
  BY DEF Crash, database
<1>3. MaxCrashes > 0
  BY EngineAssumption DEF Crash, Settled, Served, WellTyped, TypeOK
<1>4. ASSUME NEW d \in Drivers PROVE JobFits(d)' /\ LoopFits(d)' /\ UndoFits(d)'
  BY <1>1 DEF IdleDriver, JobFits, LoopFits, UndoFits, InLoop, Undoing, Is
<1>5. RunningOwned'
  BY <1>2, <1>3 DEF RunningOwned
<1>6. RowOrder' /\ OnlyPreparesUndone' /\ RunSays'
  BY <1>2 DEF InStep, RowOrder, OnlyPreparesUndone, RunSays, Through, Made, KindOf, OutputOf, PhaseOf, Live
<1>7. VaultFits'
  BY <1>1, <1>2 DEF InStep, VaultFits, IdleDriver, Undoing, Is, KindOf, OutputOf
<1>8. QED
  BY <1>4, <1>5, <1>6, <1>7 DEF InStep

\* What recovery makes of an interrupted row.
LEMMA ReconcileIs ==
  ASSUME Undisturbed, Settled, InStep, Reconcile
  PROVE  /\ UNCHANGED <<run, boot, drv>> /\ Active /\ boot = "recovering" /\ AllIdle
         /\ \E s \in Seqs :
              /\ row[s] = "running" /\ \A t \in Seqs : t # s => row'[t] = row[t]
              /\ \/ row'[s] = "pending" /\ UNCHANGED <<ext, vault>>
                 \/ row'[s] = "failed" /\ KindOf(s) = "prepare" /\ UNCHANGED <<ext, vault>>
                 \/ /\ row'[s] = "done" /\ KindOf(s) = "prepare" /\ vault' = vault \cup {OutputOf(s)}
                    /\ \A t \in Seqs : t # s => ext'[t] = ext[t]
<1>1. UNCHANGED <<run, boot, drv>> /\ Active /\ boot = "recovering" /\ AllIdle
  BY DEF Reconcile, Settled, Served, RecoversAlone
<1>2. /\ row \in [Seqs -> StepState] /\ ext \in [Seqs -> BroadcastId]
      /\ version = 1 /\ DOMAIN Plan[version] = Seqs
  BY PlanIsCommitted DEF Settled, Served, WellTyped, TypeOK
<1>3. PICK s \in Interrupted :
        IF ~Guarded(Plan[version][s])
          THEN row' = [row EXCEPT ![s] = "pending"] /\ UNCHANGED <<ext, vault>>
          ELSE \/ row' = [row EXCEPT ![s] = "pending"] /\ UNCHANGED <<ext, vault>>
               \/ \E b : /\ row' = [row EXCEPT ![s] = "done"] /\ ext' = [ext EXCEPT ![s] = b]
                         /\ vault' = vault \cup {Plan[version][s].output}
               \/ row' = [row EXCEPT ![s] = "failed"] /\ UNCHANGED <<ext, vault>>
  <2>1. PICK s \in Interrupted :
          /\ s \in Seqs
          /\ IF s \notin DOMAIN Plan[version]
               THEN /\ row' = [row EXCEPT ![s] = "failed"]
                    /\ UNCHANGED <<ext, vault, left>>
             ELSE IF ~Guarded(Plan[version][s])
               THEN /\ row' = [row EXCEPT ![s] = "pending"]
                    /\ UNCHANGED <<ext, vault, left>>
             ELSE LET o == Plan[version][s].output
                      found == Matching(channel, Slot[o])
                  IN  \/ /\ found = {}
                         /\ row' = [row EXCEPT ![s] = "pending"]
                         /\ UNCHANGED <<ext, vault, left>>
                      \/ \E b \in found :
                           /\ row' = [row EXCEPT ![s] = "done"]
                           /\ ext' = [ext EXCEPT ![s] = b]
                           /\ vault' = vault \cup {o}
                           /\ UNCHANGED left
                      \/ /\ left.faults > 0
                         /\ left' = [left EXCEPT !.faults = @ - 1]
                         /\ row' = [row EXCEPT ![s] = "failed"]
                         /\ UNCHANGED <<ext, vault>>
    BY Zenon DEF Reconcile, Interrupted
  <2>2. s \in DOMAIN Plan[version]
    BY <1>2, <2>1
  <2>3. QED
    BY <2>1, <2>2
<1>4. s \in Seqs /\ row[s] = "running"
  BY DEF Interrupted
<1>5. /\ Plan[version][s].output = OutputOf(s)
      /\ Guarded(Plan[version][s]) <=> KindOf(s) = "prepare"
  BY <1>2, PlanIsCommitted DEF OutputOf, KindOf, Guarded
<1>6. /\ row[s] = "running" /\ \A t \in Seqs : t # s => row'[t] = row[t]
      /\ \/ row'[s] = "pending" /\ UNCHANGED <<ext, vault>>
         \/ row'[s] = "failed" /\ KindOf(s) = "prepare" /\ UNCHANGED <<ext, vault>>
         \/ /\ row'[s] = "done" /\ KindOf(s) = "prepare" /\ vault' = vault \cup {OutputOf(s)}
            /\ \A t \in Seqs : t # s => ext'[t] = ext[t]
  BY <1>2, <1>3, <1>4, <1>5
<1>7. QED
  BY <1>1, <1>4, <1>6

LEMMA ReconcileInStep ==
  ASSUME Undisturbed, Settled, InStep, Reconcile PROVE InStep'
<1>1. UNCHANGED <<run, boot, drv>> /\ Active /\ boot = "recovering" /\ AllIdle
  BY ReconcileIs
<1>2. PICK s \in Seqs :
        /\ row[s] = "running" /\ \A t \in Seqs : t # s => row'[t] = row[t]
        /\ row'[s] \in {"pending", "failed", "done"}
        /\ row'[s] = "failed" => KindOf(s) = "prepare"
        /\ row'[s] # "done" => vault' = vault
        /\ row'[s] = "done" => KindOf(s) = "prepare" /\ vault' = vault \cup {OutputOf(s)}
  BY ReconcileIs
<1>3. ASSUME NEW d \in Drivers PROVE JobFits(d)' /\ LoopFits(d)' /\ UndoFits(d)'
  <2>1. drv'[d].pc = "idle" /\ drv'[d].job = "none" /\ drv'[d].queue \subseteq Live(1)
    BY <1>1 DEF AllIdle, Is, InStep, JobFits
  <2>2. QED
    BY <2>1 DEF JobFits, LoopFits, UndoFits, InLoop, Undoing, Is, Live
<1>4. RunningOwned'
  <2>1. MaxCrashes > 0
    BY <1>1, <1>2 DEF InStep, RunningOwned, AllIdle, Is
  <2>2. QED
    BY <1>1, <2>1 DEF RunningOwned
<1>5. RowOrder'
  <2>1. KindOf(s) = "prepare" => \A k : KindOf(s) \notin {"stopStreaming"} /\ Precede(KindOf(s)) = {}
    BY DEF Precede
  <2>2. row'[s] \in {"running", "done"} => Precede(KindOf(s)) = {}
    BY <1>2, <2>1
  <2>3. KindOf(s) = "stopStreaming" => row'[s] = "pending"
    BY <1>2
  <2>4. QED
    BY <1>2, <2>2, <2>3 DEF InStep, RowOrder, Made, KindOf, OutputOf
<1>6. OnlyPreparesUndone'
  BY <1>2 DEF InStep, OnlyPreparesUndone, KindOf
<1>7. RunSays'
  BY <1>1, <1>2 DEF InStep, RunSays, Through, KindOf, OutputOf, PhaseOf, Live
<1>8. VaultFits'
  <2>1. \A e \in Drivers : drv'[e].pc = "idle"
    BY <1>1 DEF AllIdle, Is
  <2>2. \A o \in vault' : \E t \in Seqs : KindOf(t) = "prepare" /\ OutputOf(t) = o /\ row'[t] = "done"
    BY <1>2 DEF InStep, VaultFits
  <2>3. ASSUME NEW t \in Seqs, KindOf(t) = "finalize", row'[t] = "done", OutputOf(t) \in vault'
        PROVE  FALSE
    <3>1. t # s /\ row[t] = "done" /\ OutputOf(t) \notin vault
      BY <1>2, <2>3 DEF InStep, VaultFits
    <3>2. KindOf(s) = "prepare"
      BY <1>2, <2>3, <3>1
    <3>3. PhaseOf(t) = "complete" /\ PhaseOf(s) = "prepare"
      BY <2>3, <3>2, StepsAre DEF Undisturbed
    <3>4. run = "completing"
      BY <1>1, <3>1, <3>3 DEF InStep, RunSays, Active, IsTerminal
    <3>5. QED
      BY <1>2, <3>3, <3>4 DEF InStep, RunSays
  <2>4. run \notin TerminalStates
    BY <1>1 DEF Active, IsTerminal
  <2>5. QED
    BY <1>1, <2>1, <2>2, <2>3, <2>4 DEF VaultFits, Undoing, Is, KindOf, OutputOf
<1>9. QED
  BY <1>3, <1>4, <1>5, <1>6, <1>7, <1>8 DEF InStep

LEMMA RecoveredInStep ==
  ASSUME Undisturbed, Settled, InStep, Recovered PROVE InStep'
<1>1. UNCHANGED <<row, vault, run, drv>> /\ AllIdle
  BY DEF Recovered, database, Settled, Served, RecoversAlone
<1>2. ASSUME NEW s \in Seqs, row[s] = "running" PROVE MaxCrashes > 0 /\ ~Active
  BY <1>1, <1>2 DEF InStep, RunningOwned, AllIdle, Is, Recovered, Interrupted
<1>3. RunningOwned'
  BY <1>1, <1>2 DEF RunningOwned, Active
<1>4. RowOrder' /\ OnlyPreparesUndone' /\ RunSays' /\ VaultFits'
  BY <1>1 DEF InStep, RowOrder, OnlyPreparesUndone, RunSays, VaultFits, Through, Made, Undoing, Is,
              KindOf, OutputOf, PhaseOf, Live
<1>5. \A d \in Drivers : JobFits(d)' /\ LoopFits(d)' /\ UndoFits(d)'
  <2>1. \A d \in Drivers : drv'[d].pc = "idle" /\ drv'[d].job = "none" /\ drv'[d].queue \subseteq Live(1)
    BY <1>1 DEF AllIdle, Is, InStep, JobFits
  <2>2. QED
    BY <2>1 DEF JobFits, LoopFits, UndoFits, InLoop, Undoing, Is, Live
<1>6. QED
  BY <1>3, <1>4, <1>5 DEF InStep

LEMMA SameInStep ==
  ASSUME InStep, UNCHANGED <<row, ext, vault, run, boot, drv>> PROVE InStep'
<1>1. \A o : PreparedId(o)' = PreparedId(o)
  BY PreparedSame
<1>2. \A d \in Drivers : JobFits(d)' /\ UndoFits(d)'
  BY DEF InStep, JobFits, UndoFits, InLoop, Undoing, Is, Active, KindOf, OutputOf, Live
<1>3. ASSUME NEW d \in Drivers PROVE LoopFits(d)'
  <2>1. PICK s, p : s = drv[d].seq /\ p = PreparedId(OutputOf(s))
    OBVIOUS
  <2>2. PreparedId(OutputOf(s))' = p
    BY <1>1, <2>1
  <2>3. LoopFits(d)
    BY DEF InStep
  <2>4. QED
    BY <2>1, <2>2, <2>3 DEF LoopFits, Selected, InLoop, Is, Made, KindOf, OutputOf, PhaseOf
<1>4. RunningOwned' /\ RowOrder' /\ OnlyPreparesUndone' /\ RunSays' /\ VaultFits'
  BY DEF InStep, RunningOwned, RowOrder, OnlyPreparesUndone, RunSays, VaultFits, Through, Made,
         Undoing, Is, Active, KindOf, OutputOf, PhaseOf, Live
<1>5. QED
  BY <1>2, <1>3, <1>4 DEF InStep

LEMMA InStepInit == ASSUME Undisturbed, Init PROVE InStep
<1>1. \A d \in Drivers : JobFits(d) /\ LoopFits(d) /\ UndoFits(d)
  BY DEF Init, IdleDriver, JobFits, LoopFits, UndoFits, InLoop, Undoing, Is
<1>2. QED
  BY <1>1 DEF Init, InStep, RunningOwned, RowOrder, OnlyPreparesUndone, RunSays, VaultFits,
              IdleDriver, Is, Undoing, TerminalStates

LEMMA InStepNext ==
  ASSUME Undisturbed, Settled, InStep, [Next]_vars PROVE InStep'
<1>1. CASE Clock \/ UNCHANGED vars
  BY <1>1, SameInStep DEF Clock, vars, database
<1>2. ~EditEvent
  BY DEF EditEvent, Settled, Known, Unedited
<1>3. QED
  BY <1>1, <1>2, AloneSteps, WorkInStep, CrashInStep, ReconcileInStep, RecoveredInStep DEF Undisturbed

LEMMA SettledInit == ASSUME Undisturbed, Init PROVE Settled
BY ServedInit, OrderlyInit, KnownInit DEF Settled, Undisturbed

LEMMA SettledNext == ASSUME Undisturbed, Settled, [Next]_vars PROVE Settled'
<1>1. Served' /\ DriversOrderly'
  BY ServedNext, OrderlyNext DEF Settled, Served, Undisturbed
<1>2. Known'
  BY KnownNext DEF Settled, Served
<1>3. QED
  BY <1>1, <1>2 DEF Settled

LEMMA SpecInStep == ASSUME Undisturbed PROVE Spec => [](Settled /\ InStep)
<1>1. Init => Settled /\ InStep
  BY SettledInit, InStepInit
<1>2. Settled /\ InStep /\ [Next]_vars => (Settled /\ InStep)'
  BY SettledNext, InStepNext
<1>3. QED
  BY <1>1, <1>2, PTL DEF Spec

\* A run that has ended holds no stream key: whatever fails, and wherever the
\* program crashes (event-planner.ts, compensate and finalize).
THEOREM NoKeyLeft == ASSUME Undisturbed PROVE Spec => []KeysGone
<1>1. InStep => KeysGone
  BY DEF InStep, VaultFits, KeysGone, Finished, Active, IsTerminal
<1>2. QED
  BY <1>1, SpecInStep, PTL
=============================================================================
