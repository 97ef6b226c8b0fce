-------------------------- MODULE RunStreamProofs --------------------------
(***************************************************************************)
(* What a run leaves on its encoders and of its broadcasts: InStream is an *)
(* invariant while the program does not crash, InTurn, for encoders that   *)
(* are handed over from one service to the next, through crashes too, and  *)
(* upon it InAir; Tidy is one for as long as nothing outside fails.        *)
(***************************************************************************)
EXTENDS RunRowsProofs

-----------------------------------------------------------------------------
(* What each step of a driver does *)

LEMMA BeginFailDoes ==
  ASSUME Undisturbed, Settled, NEW d \in Drivers, BeginFail(d)
  PROVE  /\ UNCHANGED <<row, ext, run, boot, encoder, channel>> /\ Ready(d) /\ Active /\ Doomed
         /\ drv'[d].pc = "undo" /\ drv'[d].job = "none" /\ drv'[d].why = "failed"
         /\ drv'[d].todo = ToUndo(1, Outputs)
<1>1. drv'[d] = [Job(d, "none", "undo") EXCEPT !.why = "failed", !.todo = ToUndo(version, Outputs)]
  BY WellTypedDrivers, Becomes DEF BeginFail, Settled, Served
<1>2. QED
  BY <1>1, PlanIsCommitted DEF BeginFail, Job, IdleDriver, database, world

LEMMA BeginPrepareDoes ==
  ASSUME Undisturbed, Settled, NEW d \in Drivers, BeginPrepare(d)
  PROVE  /\ UNCHANGED <<row, ext, boot, encoder, channel>> /\ Ready(d) /\ Active /\ ~Doomed
         /\ run \in {"scheduled", "preparing"} /\ run' = "preparing"
         /\ drv'[d].pc = "next" /\ drv'[d].job = "prepare" /\ drv'[d].queue = Live(1)
<1>1. drv'[d] = [Job(d, "prepare", "next") EXCEPT !.again = TRUE, !.queue = Live(version)]
  BY WellTypedDrivers, Becomes DEF BeginPrepare, Prepares, Settled, Served
<1>2. QED
  BY <1>1, PlanIsCommitted DEF BeginPrepare, Prepares, Job, IdleDriver, world

LEMMA BeginStopDoes ==
  ASSUME Undisturbed, Settled, NEW d \in Drivers, BeginStop(d)
  PROVE  /\ UNCHANGED <<row, ext, run, boot, encoder, channel>> /\ Ready(d) /\ InWindow(d)
         /\ drv'[d].pc = "loop" /\ drv'[d].job = "stop" /\ drv'[d].out \in Live(1)
         /\ Progress(1, drv'[d].out) = "started"
<1>1. PICK o \in StopsDue : Become(d, [Job(d, "stop", "loop") EXCEPT !.out = o])
  BY DEF BeginStop
<1>2. drv'[d] = [Job(d, "stop", "loop") EXCEPT !.out = o]
  BY <1>1, WellTypedDrivers, Becomes DEF Settled, Served
<1>3. drv'[d].pc = "loop" /\ drv'[d].job = "stop" /\ drv'[d].out = o
  BY <1>2 DEF Job, IdleDriver
<1>4. o \in Live(1) /\ Progress(1, o) = "started"
  BY PlanIsCommitted DEF StopsDue, StopDue
<1>5. QED
  BY <1>3, <1>4 DEF BeginStop, InWindow, database, world

LEMMA MarkMissedDoes ==
  ASSUME Undisturbed, Settled, NEW d \in Drivers, MarkMissed(d)
  PROVE  /\ UNCHANGED <<ext, run, boot, encoder, channel>> /\ Ready(d) /\ InWindow(d) /\ ~Doomed
         /\ StopsDue = {} /\ First(1, drv'[d].out, StartsDue) /\ drv'[d].out \in Live(1)
         /\ Progress(1, drv'[d].out) = "pending"
         /\ drv'[d].pc = "undo" /\ drv'[d].job = "start" /\ drv'[d].why = "output"
         /\ drv'[d].todo = ToUndo(1, {drv'[d].out})
         /\ \A s \in Seqs : row'[s] = IF /\ OutputOf(s) = drv'[d].out /\ PhaseOf(s) = "start"
                                         /\ row[s] = "pending"
                                        THEN "failed" ELSE row[s]
<1>1. PICK o \in StartsDue :
        /\ First(version, o, StartsDue)
        /\ row' = [s \in Seqs |-> IF s \in MineIn(version, o, "start") /\ row[s] = "pending"
                                   THEN "failed" ELSE row[s]]
        /\ Become(d, [Job(d, "start", "undo") EXCEPT !.out = o, !.why = "output",
                                                     !.todo = ToUndo(version, {o})])
  BY Zenon DEF MarkMissed
<1>2. drv'[d] = [Job(d, "start", "undo") EXCEPT !.out = o, !.why = "output",
                                                !.todo = ToUndo(version, {o})]
  BY <1>1, WellTypedDrivers, Becomes DEF Settled, Served
<1>3. /\ drv'[d].pc = "undo" /\ drv'[d].job = "start" /\ drv'[d].out = o /\ drv'[d].why = "output"
      /\ drv'[d].todo = ToUndo(1, {o})
  BY <1>2, PlanIsCommitted DEF Job, IdleDriver
<1>4. o \in Live(1) /\ Progress(1, o) = "pending" /\ First(1, o, StartsDue)
  BY <1>1, PlanIsCommitted DEF StartsDue, StartDue
<1>5. \A s \in Seqs : row'[s] = IF OutputOf(s) = o /\ PhaseOf(s) = "start" /\ row[s] = "pending"
                                  THEN "failed" ELSE row[s]
  BY <1>1, PlanIsCommitted, MineAre
<1>6. QED
  BY <1>3, <1>4, <1>5 DEF MarkMissed, InWindow, world

LEMMA BeginStartDoes ==
  ASSUME Undisturbed, Settled, NEW d \in Drivers, BeginStart(d)
  PROVE  /\ UNCHANGED <<row, ext, boot, encoder, channel>> /\ Ready(d) /\ InWindow(d) /\ ~Doomed
         /\ StopsDue = {} /\ First(1, drv'[d].out, StartsDue) /\ drv'[d].out \in Live(1)
         /\ Progress(1, drv'[d].out) = "pending"
         /\ drv'[d].pc = "loop" /\ drv'[d].job = "start"
         /\ run' = IF run = "ready" THEN "running" ELSE run
<1>1. PICK o \in StartsDue :
        First(version, o, StartsDue) /\ Become(d, [Job(d, "start", "loop") EXCEPT !.out = o])
  BY DEF BeginStart
<1>2. drv'[d] = [Job(d, "start", "loop") EXCEPT !.out = o]
  BY <1>1, WellTypedDrivers, Becomes DEF Settled, Served
<1>3. drv'[d].pc = "loop" /\ drv'[d].job = "start" /\ drv'[d].out = o
  BY <1>2 DEF Job, IdleDriver
<1>4. o \in Live(1) /\ Progress(1, o) = "pending" /\ First(1, o, StartsDue)
  BY <1>1, PlanIsCommitted DEF StartsDue, StartDue
<1>5. QED
  BY <1>3, <1>4 DEF BeginStart, InWindow, world

LEMMA BeginCompleteDoes ==
  ASSUME Undisturbed, Settled, NEW d \in Drivers, BeginComplete(d)
  PROVE  /\ UNCHANGED <<row, ext, boot, encoder, channel>> /\ Ready(d) /\ InWindow(d) /\ ~Doomed
         /\ run' = "completing" /\ drv'[d].pc = "loop" /\ drv'[d].job = "complete"
<1>1. drv'[d] = [Job(d, "complete", "loop") EXCEPT !.good = Delivered]
  BY WellTypedDrivers, Becomes DEF BeginComplete, Settled, Served
<1>2. QED
  BY <1>1 DEF BeginComplete, InWindow, Job, IdleDriver, world

\* A step that begins: its row is not made, and it is the next one of the loop.
LEMMA NextStepDoes ==
  ASSUME Undisturbed, Settled, InStep, NEW d \in Drivers, NextStep(d)
  PROVE  /\ Is(d, "loop") /\ UNCHANGED <<ext, run, boot, encoder, channel>>
         /\ drv'[d].pc = "call" /\ drv'[d].call = "sent"
         /\ drv'[d].job = drv[d].job /\ drv'[d].out = drv[d].out
         /\ drv'[d].queue = drv[d].queue /\ drv'[d].good = drv[d].good
         /\ \E s \in Seqs : /\ drv'[d].seq = s /\ Selected(d, s) /\ ~Made(s)
                            /\ row'[s] = "running" /\ \A t \in Seqs : t # s => row'[t] = row[t]
<1>1. PICK s \in Seqs :
        /\ Selected(d, s) /\ ~Made(s)
        /\ row' = [row EXCEPT ![s] = "running"]
        /\ drv'[d] = [drv[d] EXCEPT !.pc = "call", !.seq = s, !.att = 1, !.call = "sent",
                                    !.arg = Argument(1, s)]
  BY NextStepIs, Zenon
<1>2. drv[d] \in DriverState /\ row \in [Seqs -> StepState]
  BY DriverOf, WellTypedDrivers DEF Settled, Served, WellTyped, TypeOK
<1>3. /\ drv'[d].pc = "call" /\ drv'[d].call = "sent" /\ drv'[d].seq = s
      /\ drv'[d].job = drv[d].job /\ drv'[d].out = drv[d].out
      /\ drv'[d].queue = drv[d].queue /\ drv'[d].good = drv[d].good
  BY <1>1, <1>2 DEF DriverState
<1>4. row'[s] = "running" /\ \A t \in Seqs : t # s => row'[t] = row[t]
  BY <1>1, <1>2
<1>5. Is(d, "loop") /\ UNCHANGED <<ext, run, boot, encoder, channel>>
  BY DEF NextStep, world
<1>6. QED
  BY <1>1, <1>3, <1>4, <1>5

\* A driver in a call, after it: still in it, back in its loop with the row done,
\* or given up with the row failed.
LEMMA CallDoes ==
  ASSUME Undisturbed, Settled, InStep, NEW d \in Drivers, Call(d)
  PROVE  /\ Is(d, "call") /\ UNCHANGED <<run, boot>>
         /\ drv[d].seq \in Seqs /\ row[drv[d].seq] = "running"
         /\ drv'[d].job = drv[d].job /\ drv'[d].out = drv[d].out /\ drv'[d].seq = drv[d].seq
         /\ drv'[d].queue = drv[d].queue /\ drv'[d].good = drv[d].good
         /\ \A t \in Seqs : t # drv[d].seq => row'[t] = row[t] /\ ext'[t] = ext[t]
         /\ \/ drv'[d].pc = "call" /\ UNCHANGED <<row, ext>>
            \/ CallOk(d) /\ drv'[d].pc = "loop" /\ row'[drv[d].seq] = "done"
            \/ drv'[d].pc = "failed" /\ row'[drv[d].seq] = "failed" /\ UNCHANGED ext
<1> DEFINE s == drv[d].seq
           Stays(r) == /\ r.job = drv[d].job /\ r.out = drv[d].out /\ r.seq = s
                       /\ r.queue = drv[d].queue /\ r.good = drv[d].good
<1>1. Is(d, "call") /\ UNCHANGED <<run, boot>>
  BY InACall DEF Call, LookForBroadcast, CreateBroadcast, PointEncoder, StartEncoder, StopEncoder,
     CloseBroadcast, CallOk, Fault, NoTarget, CallFailed, database
<1>2. drv[d] \in DriverState /\ s \in Seqs /\ row[s] = "running"
  BY <1>1, CallIs
<1>3. row \in [Seqs -> StepState] /\ ext \in [Seqs -> BroadcastId] /\ DriverTyped
  BY WellTypedDrivers DEF Settled, Served, WellTyped, TypeOK
<1>4. CASE LookForBroadcast(d) \/ CreateBroadcast(d) \/ PointEncoder(d) \/ StartEncoder(d)
           \/ StopEncoder(d) \/ CloseBroadcast(d)
  <2>1. UNCHANGED <<row, ext>>
    BY <1>4 DEF LookForBroadcast, CreateBroadcast, PointEncoder, StartEncoder, StopEncoder,
                CloseBroadcast, database
  <2>2. \E c, b : Become(d, [drv[d] EXCEPT !.call = c, !.arg = b])
    <3>1. \A c : [drv[d] EXCEPT !.call = c] = [drv[d] EXCEPT !.call = c, !.arg = drv[d].arg]
      BY <1>2 DEF DriverState
    <3>2. QED
      BY <1>4, <3>1 DEF LookForBroadcast, CreateBroadcast, PointEncoder, StartEncoder, StopEncoder,
                        CloseBroadcast, Answered
  <2>3. \E c, b : drv'[d] = [drv[d] EXCEPT !.call = c, !.arg = b]
    <3>1. PICK c, b : Become(d, [drv[d] EXCEPT !.call = c, !.arg = b])
      BY <2>2
    <3>2. drv'[d] = [drv[d] EXCEPT !.call = c, !.arg = b]
      BY <1>3, <3>1, Becomes
    <3>3. QED
      BY <3>2
  <2>4. Stays(drv'[d]) /\ drv'[d].pc = "call"
    BY <1>1, <1>2, <2>3 DEF DriverState, Is
  <2>5. QED
    BY <1>1, <1>2, <2>1, <2>4
<1>5. CASE CallOk(d)
  <2>1. drv'[d] = [drv[d] EXCEPT !.pc = "loop", !.att = 0, !.call = "none", !.arg = 0]
    BY <1>3, <1>5, Becomes DEF CallOk
  <2>2. Stays(drv'[d]) /\ drv'[d].pc = "loop"
    BY <1>2, <2>1 DEF DriverState
  <2>3. row'[s] = "done" /\ \A t \in Seqs : t # s => row'[t] = row[t] /\ ext'[t] = ext[t]
    BY <1>2, <1>3, <1>5 DEF CallOk
  <2>4. QED
    BY <1>1, <1>2, <1>5, <2>2, <2>3
<1>6. CASE Fault(d) \/ NoTarget(d)
  <2>1. ext' = ext
    BY <1>6 DEF Fault, NoTarget, CallFailed
  <2>2. \/ /\ row' = MarkedRunning(s)
           /\ Become(d, [drv[d] EXCEPT !.att = @ + 1, !.call = "sent",
                                       !.arg = Argument(drv[d].v, s)])
        \/ /\ row' = [row EXCEPT ![s] = "failed"]
           /\ Become(d, [drv[d] EXCEPT !.pc = "failed", !.att = 0, !.call = "none", !.arg = 0])
    BY <1>6 DEF Fault, NoTarget, CallFailed
  <2>3. \/ /\ row' = row
           /\ drv'[d] = [drv[d] EXCEPT !.att = @ + 1, !.call = "sent", !.arg = Argument(drv[d].v, s)]
        \/ /\ row' = [row EXCEPT ![s] = "failed"]
           /\ drv'[d] = [drv[d] EXCEPT !.pc = "failed", !.att = 0, !.call = "none", !.arg = 0]
    BY <1>2, <1>3, <2>2, Becomes DEF MarkedRunning
  <2>4. \/ row' = row /\ Stays(drv'[d]) /\ drv'[d].pc = "call"
        \/ row' = [row EXCEPT ![s] = "failed"] /\ Stays(drv'[d]) /\ drv'[d].pc = "failed"
    BY <1>1, <1>2, <2>3 DEF DriverState, Is
  <2>5. QED
    BY <1>1, <1>2, <1>3, <2>1, <2>4
<1>7. QED
  BY <1>4, <1>5, <1>6 DEF Call

\* A driver that undoes, after it.
LEMMA UndoDoes ==
  ASSUME Undisturbed, Settled, InStep, NEW d \in Drivers, Undo(d), ~UndoDone(d)
  PROVE  /\ Undoing(d) /\ UNCHANGED <<run, boot, ext, encoder>>
         /\ drv'[d].pc \in {"undo", "undoing"}
         /\ drv'[d].job = drv[d].job /\ drv'[d].out = drv[d].out /\ drv'[d].why = drv[d].why
         /\ drv'[d].queue = drv[d].queue /\ drv'[d].good = drv[d].good
         /\ drv'[d].todo \subseteq drv[d].todo
         /\ drv[d].todo # {} \/ Is(d, "undoing")
         /\ drv'[d].pc = "undoing" =>
              /\ drv'[d].seq \in Seqs
              /\ Is(d, "undo") => /\ drv'[d].seq \in drv[d].todo
                                  /\ drv'[d].arg = ext[drv'[d].seq] /\ row' = row
              /\ Is(d, "undoing") => drv'[d].seq = drv[d].seq /\ drv'[d].arg = drv[d].arg
         /\ \A s \in Seqs :
              \/ row'[s] = row[s]
              \/ /\ KindOf(s) = "prepare" /\ row[s] = "done" /\ row'[s] = "compensated"
                 /\ Is(d, "undoing") /\ s = drv[d].seq
<1>0. Undoing(d) /\ UNCHANGED <<run, boot, ext, encoder>>
  BY DEF Undo, UndoStep, DiscardBroadcast, UndoOk, UndoFault, Undone, UndoDone, Undoing, Is, database,
         world
<1>1. drv[d] \in DriverState /\ DriverTyped /\ UndoFits(d) /\ row \in [Seqs -> StepState]
  BY <1>0, UndoIs
<1>2. CASE UndoStep(d)
  <2>1. PICK s \in drv[d].todo :
        IF PreparedId(OutputOf(s)) = 0
          THEN /\ row' = [row EXCEPT ![s] = "compensated"]
               /\ Become(d, [drv[d] EXCEPT !.todo = @ \ {s}])
          ELSE /\ Become(d, [drv[d] EXCEPT !.pc = "undoing", !.seq = s, !.call = "sent",
                                           !.arg = PreparedId(OutputOf(s)), !.todo = @ \ {s}])
               /\ UNCHANGED row
    <3>1. drv[d].v = 1
      BY PlanIsCommitted
    <3>2. QED
      BY <1>2, <3>1, PlanIsCommitted, Zenon DEF UndoStep, OutputOf
  <2>2. s \in Seqs /\ KindOf(s) = "prepare" /\ row[s] = "done"
    BY <1>0, <1>1 DEF UndoFits, DriverState
  <2>3. PreparedId(OutputOf(s)) # 0 /\ PreparedId(OutputOf(s)) = ext[s]
    BY <2>2, PreparedKnown, PreparedIs DEF Undisturbed
  <2>4. /\ row' = row
        /\ drv'[d] = [drv[d] EXCEPT !.pc = "undoing", !.seq = s, !.call = "sent",
                                    !.arg = PreparedId(OutputOf(s)), !.todo = @ \ {s}]
    BY <1>1, <2>1, <2>3, Becomes
  <2>5. /\ drv'[d].pc = "undoing" /\ drv'[d].seq = s /\ drv'[d].arg = ext[s]
        /\ drv'[d].todo = drv[d].todo \ {s} /\ drv'[d].job = drv[d].job /\ drv'[d].out = drv[d].out
        /\ drv'[d].why = drv[d].why /\ drv'[d].queue = drv[d].queue /\ drv'[d].good = drv[d].good
    BY <1>1, <2>3, <2>4 DEF DriverState
  <2>6. drv[d].pc = "undo"
    BY <1>2 DEF UndoStep, Is
  <2>7. QED
    BY <1>0, <2>2, <2>4, <2>5, <2>6 DEF Is
<1>3. CASE DiscardBroadcast(d)
  <2>1. drv'[d] = [drv[d] EXCEPT !.call = "landed"] /\ row' = row /\ drv[d].pc = "undoing"
    BY <1>1, <1>3, Becomes DEF DiscardBroadcast, Answered, database, Is
  <2>2. /\ drv'[d].pc = "undoing" /\ drv'[d].seq = drv[d].seq /\ drv'[d].arg = drv[d].arg
        /\ drv'[d].todo = drv[d].todo /\ drv'[d].job = drv[d].job /\ drv'[d].out = drv[d].out
        /\ drv'[d].why = drv[d].why /\ drv'[d].queue = drv[d].queue /\ drv'[d].good = drv[d].good
    BY <1>1, <2>1 DEF DriverState
  <2>3. drv[d].seq \in Seqs
    BY <1>1, <2>1 DEF UndoFits, Is
  <2>4. QED
    BY <1>0, <2>1, <2>2, <2>3 DEF Is
<1>4. CASE UndoOk(d) \/ UndoFault(d)
  <2>1. PICK state \in {row[drv[d].seq], "compensated"} : Undone(d, state)
    BY <1>4 DEF UndoOk, UndoFault
  <2>2. drv'[d] = [drv[d] EXCEPT !.pc = "undo", !.call = "none", !.arg = 0] /\ drv[d].pc = "undoing"
    BY <1>1, <1>4, <2>1, Becomes DEF Undone, UndoOk, UndoFault, Is
  <2>3. /\ drv'[d].pc = "undo"
        /\ drv'[d].todo = drv[d].todo /\ drv'[d].job = drv[d].job /\ drv'[d].out = drv[d].out
        /\ drv'[d].why = drv[d].why /\ drv'[d].queue = drv[d].queue /\ drv'[d].good = drv[d].good
    BY <1>1, <2>2 DEF DriverState
  <2>4. KindOf(drv[d].seq) = "prepare" /\ row[drv[d].seq] = "done" /\ drv[d].seq \in Seqs
    BY <1>1, <2>2 DEF UndoFits, Is
  <2>5. \A s \in Seqs : \/ row'[s] = row[s]
                        \/ s = drv[d].seq /\ row'[s] = "compensated"
    BY <1>1, <2>1 DEF Undone
  <2>6. QED
    BY <1>0, <2>2, <2>3, <2>4, <2>5 DEF Is
<1>5. QED
  BY <1>2, <1>3, <1>4 DEF Undo

\* A driver that is done with something turns to the next thing; nothing but the
\* run's state may change with it.
TurnsOver(d) ==
  \/ StopPass(d) \/ LoopDone(d) \/ StepFailed(d) \/ NextOutput(d) \/ OutputsDone(d)
  \/ UndoDone(d) \/ Settle(d)

\* It rests.
LEMMA RestDoes ==
  ASSUME DriverTyped, NEW d \in Drivers, Rest(d) \/ Become(d, NextPass(d))
  PROVE  drv'[d].pc \in {"idle", "step"} /\ drv'[d].job = "none"
<1>1. drv'[d] = IdleDriver \/ drv'[d] = NextPass(d)
  BY Becomes DEF Rest
<1>2. IdleDriver.pc = "idle" /\ IdleDriver.job = "none"
  BY DEF IdleDriver
<1>3. NextPass(d).pc \in {"idle", "step"} /\ NextPass(d).job = "none"
  BY <1>2 DEF NextPass, IdleDriver
<1>4. QED
  BY <1>1, <1>2, <1>3

\* It goes on to undo.
ToRunUndo(d) ==
  /\ drv'[d].pc = "undo" /\ drv'[d].why = "failed" /\ drv'[d].todo = ToUndo(1, Outputs)
  /\ drv'[d].job = drv[d].job /\ drv'[d].queue = drv[d].queue /\ drv'[d].good = drv[d].good
  /\ run' = run

LEMMA RunUndoDoes ==
  ASSUME Settled, NEW d \in Drivers, run' = run,
         Become(d, [drv[d] EXCEPT !.pc = "undo", !.why = "failed", !.todo = ToUndo(drv[d].v, Outputs)])
  PROVE  ToRunUndo(d)
<1>1. drv[d] \in DriverState /\ drv[d].v = 1 /\ DriverTyped
  BY DriverOf, WellTypedDrivers, PlanIsCommitted DEF Settled, Served
<1>2. drv'[d] = [drv[d] EXCEPT !.pc = "undo", !.why = "failed", !.todo = ToUndo(1, Outputs)]
  BY <1>1, Becomes
<1>3. QED
  BY <1>1, <1>2 DEF ToRunUndo, DriverState

TurnsRight(d) ==
  \/ /\ drv'[d].pc \in {"idle", "step"} /\ drv'[d].job = "none" /\ ~Undoing(d)
     /\ run' = run \/ run' = "ready"
  \/ /\ drv'[d].pc \in {"idle", "step"} /\ drv'[d].job = "none" /\ Undoing(d)
     /\ drv[d].why = "output" /\ run' = run
  \/ /\ Is(d, "loop") /\ drv[d].job = "prepare" /\ drv'[d].pc = "next" /\ drv'[d].job = "prepare"
     /\ drv'[d].good /\ run' = run
  \/ /\ drv[d].job = "complete" /\ run = "completing" /\ run' = "completed" /\ ~Undoing(d)
     /\ drv'[d].pc = "settle" /\ drv'[d].job = "complete"
  \/ drv[d].job = "complete" /\ run = "completing" /\ ~Undoing(d) /\ ToRunUndo(d)
  \/ /\ Is(d, "next") /\ drv[d].job = "prepare" /\ ~drv[d].good /\ drv[d].queue = {}
     /\ run = "preparing" /\ ToRunUndo(d)
  \/ /\ Is(d, "failed") /\ drv[d].job \in {"prepare", "start"}
     /\ drv'[d].pc = "undo" /\ drv'[d].why = "output" /\ drv'[d].todo = ToUndo(1, {drv[d].out})
     /\ drv'[d].job = drv[d].job /\ drv'[d].out = drv[d].out
     /\ drv'[d].queue = drv[d].queue /\ drv'[d].good = drv[d].good /\ run' = run
  \/ /\ Is(d, "next") /\ drv[d].job = "prepare" /\ drv'[d].pc = "loop" /\ drv'[d].job = "prepare"
     /\ drv'[d].out \in drv[d].queue /\ drv'[d].queue = drv[d].queue \ {drv'[d].out}
     /\ drv'[d].good = drv[d].good /\ run' = run
  \/ /\ Undoing(d) /\ drv[d].job = "prepare" /\ drv[d].why = "output"
     /\ drv'[d].pc = "next" /\ drv'[d].job = "prepare"
     /\ drv'[d].queue = drv[d].queue /\ drv'[d].good = drv[d].good /\ run' = run
  \/ /\ Undoing(d) /\ drv[d].why = "failed" /\ run' = "failed"
     /\ drv'[d].pc = "settle" /\ drv'[d].job = drv[d].job

LEMMA LoopDoneTurns ==
  ASSUME Undisturbed, Settled, InStep, NEW d \in Drivers, LoopDone(d) PROVE TurnsRight(d)
<1>0. Is(d, "loop") /\ drv[d].pc = "loop" /\ ~Undoing(d)
  BY DEF LoopDone, Is, Undoing
<1>1. CASE /\ drv[d].job = "prepare" /\ run' = run
           /\ Become(d, [drv[d] EXCEPT !.pc = "next", !.good = TRUE])
  <2>1. drv'[d] = [drv[d] EXCEPT !.pc = "next", !.good = TRUE]
    BY <1>0, <1>1, JobIs, Becomes
  <2>2. drv'[d].pc = "next" /\ drv'[d].job = "prepare" /\ drv'[d].good
    BY <1>0, <1>1, <2>1, JobIs DEF DriverState
  <2>3. QED
    BY <1>0, <1>1, <2>2 DEF TurnsRight
<1>2. CASE /\ drv[d].job = "complete" /\ run' = "completed"
           /\ Become(d, [drv[d] EXCEPT !.pc = "settle", !.why = "completed"])
  <2>1. drv'[d] = [drv[d] EXCEPT !.pc = "settle", !.why = "completed"]
    BY <1>0, <1>2, JobIs, Becomes
  <2>2. drv'[d].pc = "settle" /\ drv'[d].job = "complete" /\ run = "completing"
    BY <1>0, <1>2, <2>1, JobIs DEF DriverState
  <2>3. QED
    BY <1>0, <1>2, <2>2 DEF TurnsRight
<1>3. CASE (Rest(d) \/ Become(d, NextPass(d))) /\ run' = run
  BY <1>0, <1>3, JobIs, RestDoes DEF TurnsRight
<1>4. CASE /\ drv[d].job = "complete" /\ run' = run
           /\ Become(d, [drv[d] EXCEPT !.pc = "undo", !.why = "failed",
                                       !.todo = ToUndo(drv[d].v, Outputs)])
  BY <1>0, <1>4, JobIs, RunUndoDoes DEF TurnsRight
<1>5. drv[d].job # "cancel"
  BY <1>0, JobIs
<1>6. QED
  BY <1>1, <1>2, <1>3, <1>4, <1>5 DEF LoopDone

LEMMA StepFailedTurns ==
  ASSUME Undisturbed, Settled, InStep, NEW d \in Drivers, StepFailed(d) PROVE TurnsRight(d)
<1>0. Is(d, "failed") /\ drv[d].pc = "failed" /\ run' = run /\ ~Undoing(d)
  BY DEF StepFailed, Is, Undoing
<1>1. CASE drv[d].job \in {"prepare", "start"}
  <2>1. drv'[d] = [drv[d] EXCEPT !.pc = "undo", !.why = "output", !.todo = ToUndo(1, {drv[d].out})]
    BY <1>0, <1>1, JobIs, Becomes DEF StepFailed
  <2>2. /\ drv'[d].pc = "undo" /\ drv'[d].why = "output" /\ drv'[d].todo = ToUndo(1, {drv[d].out})
        /\ drv'[d].job = drv[d].job /\ drv'[d].out = drv[d].out
        /\ drv'[d].queue = drv[d].queue /\ drv'[d].good = drv[d].good
    BY <1>0, <2>1, JobIs DEF DriverState
  <2>3. QED
    BY <1>0, <1>1, <2>2 DEF TurnsRight
<1>2. CASE drv[d].job = "stop"
  BY <1>0, <1>2, JobIs, RestDoes DEF StepFailed, TurnsRight
<1>3. CASE drv[d].job = "complete"
  <2>1. Become(d, [drv[d] EXCEPT !.pc = "undo", !.why = "failed", !.todo = ToUndo(drv[d].v, Outputs)])
    BY <1>3 DEF StepFailed
  <2>2. QED
    BY <1>0, <1>3, <2>1, JobIs, RunUndoDoes DEF TurnsRight
<1>4. QED
  BY <1>0, <1>1, <1>2, <1>3, JobIs

LEMMA OutputsTurn ==
  ASSUME Undisturbed, Settled, InStep, NEW d \in Drivers, NextOutput(d) \/ OutputsDone(d)
  PROVE  TurnsRight(d)
<1>0. Is(d, "next") /\ drv[d].pc = "next" /\ ~Undoing(d)
  BY DEF NextOutput, OutputsDone, Is, Undoing
<1>1. drv[d] \in DriverState /\ drv[d].job = "prepare" /\ run = "preparing" /\ DriverTyped
  BY <1>0, JobIs
<1>2. CASE NextOutput(d)
  <2>1. PICK o \in drv[d].queue :
          Become(d, [drv[d] EXCEPT !.pc = "loop", !.out = o, !.seq = 0, !.queue = @ \ {o}])
    BY <1>2 DEF NextOutput
  <2>2. drv'[d] = [drv[d] EXCEPT !.pc = "loop", !.out = o, !.seq = 0, !.queue = @ \ {o}]
    BY <1>1, <2>1, Becomes
  <2>3. /\ drv'[d].pc = "loop" /\ drv'[d].out = o /\ drv'[d].queue = drv[d].queue \ {o}
        /\ drv'[d].job = "prepare" /\ drv'[d].good = drv[d].good
    BY <1>1, <2>2 DEF DriverState
  <2>4. QED
    BY <1>0, <1>1, <1>2, <2>3 DEF TurnsRight, NextOutput, database
<1>3. CASE OutputsDone(d) /\ drv[d].good
  BY <1>0, <1>1, <1>3, RestDoes DEF TurnsRight, OutputsDone
<1>4. CASE OutputsDone(d) /\ ~drv[d].good
  BY <1>0, <1>1, <1>4, RunUndoDoes DEF TurnsRight, OutputsDone
<1>5. QED
  BY <1>2, <1>3, <1>4

LEMMA UndoDoneTurns ==
  ASSUME Undisturbed, Settled, InStep, NEW d \in Drivers, UndoDone(d) PROVE TurnsRight(d)
<1>0. drv[d].pc = "undo" /\ Undoing(d)
  BY DEF UndoDone, Undoing, Is
<1>1. drv[d] \in DriverState /\ DriverTyped /\ Active /\ drv[d].why \in {"output", "failed"}
  BY <1>0, UndoIs DEF UndoFits
<1>2. CASE drv[d].why = "output" /\ drv[d].job # "prepare"
  BY <1>0, <1>1, <1>2, RestDoes DEF UndoDone, TurnsRight
<1>3. CASE drv[d].why = "output" /\ drv[d].job = "prepare"
  <2>1. drv'[d] = [drv[d] EXCEPT !.pc = "next", !.why = "none"]
    BY <1>1, <1>3, Becomes DEF UndoDone
  <2>2. /\ drv'[d].pc = "next" /\ drv'[d].job = "prepare"
        /\ drv'[d].queue = drv[d].queue /\ drv'[d].good = drv[d].good
    BY <1>1, <1>3, <2>1 DEF DriverState
  <2>3. QED
    BY <1>0, <1>3, <2>2 DEF UndoDone, TurnsRight
<1>4. CASE drv[d].why = "failed"
  <2>1. Accepts(run, "failed")
    BY <1>1 DEF Accepts, CanTransition, Transitions, Active, IsTerminal, TerminalStates, RunState,
                Settled, Served, WellTyped, TypeOK
  <2>2. run' = "failed" /\ drv'[d] = [drv[d] EXCEPT !.pc = "settle"]
    BY <1>1, <1>4, <2>1, Becomes DEF UndoDone
  <2>3. drv'[d].pc = "settle" /\ drv'[d].job = drv[d].job
    BY <1>1, <2>2 DEF DriverState
  <2>4. QED
    BY <1>0, <1>4, <2>2, <2>3 DEF TurnsRight
<1>5. QED
  BY <1>1, <1>2, <1>3, <1>4

LEMMA TurnDoes ==
  ASSUME Undisturbed, Settled, InStep, NEW d \in Drivers, TurnsOver(d)
  PROVE  UNCHANGED <<row, ext, boot, encoder, channel>> /\ TurnsRight(d)
<1>1. UNCHANGED <<row, ext, boot, encoder, channel>>
  BY DEF TurnsOver, StopPass, LoopDone, StepFailed, NextOutput, OutputsDone, UndoDone, Settle, database,
         world
<1>2. CASE StopPass(d) \/ Settle(d)
  <2>1. Rest(d) /\ run' = run /\ drv[d].pc \in {"step", "settle"}
    BY <1>2 DEF StopPass, Settle, Is, database
  <2>2. drv'[d].pc \in {"idle", "step"} /\ drv'[d].job = "none"
    BY <2>1, RestDoes, WellTypedDrivers DEF Settled, Served
  <2>3. TurnsRight(d)
    BY <2>1, <2>2 DEF TurnsRight, Undoing, Is
  <2>4. QED
    BY <1>1, <2>3
<1>3. QED
  BY <1>1, <1>2, LoopDoneTurns, StepFailedTurns, OutputsTurn, UndoDoneTurns DEF TurnsOver

\* Every step of a driver is one of these.
LEMMA WorkIs ==
  ASSUME NEW d \in Drivers, Work(d)
  PROVE  \/ BeginFail(d) \/ BeginPrepare(d) \/ BeginStop(d) \/ MarkMissed(d) \/ BeginStart(d)
         \/ BeginComplete(d) \/ NextStep(d) \/ Call(d) \/ (Undo(d) /\ ~UndoDone(d)) \/ TurnsOver(d)
BY DEF Work, Pass, TurnsOver

\* Where a driver is says what it does next.
LEMMA AtWork ==
  ASSUME NEW d \in Drivers, Work(d)
  PROVE  /\ Is(d, "call") => Call(d)
         /\ Is(d, "failed") => StepFailed(d)
         /\ Is(d, "undo") => UndoStep(d) \/ UndoDone(d)
         /\ Is(d, "undoing") => DiscardBroadcast(d) \/ UndoOk(d) \/ UndoFault(d)
<1>1. drv[d].pc \in {"call", "failed", "undo", "undoing"} => ~Pass(d)
  <2>1. drv[d].pc \in {"call", "failed", "undo", "undoing"} => ~Ready(d)
    BY DEF Ready, MayTick, Is
  <2>2. QED
    BY <2>1 DEF Pass, StopPass, BeginFail, BeginPrepare, BeginStop, MarkMissed, BeginStart,
                BeginComplete, InWindow
<1>2. /\ NextStep(d) \/ LoopDone(d) => Is(d, "loop")
      /\ NextOutput(d) \/ OutputsDone(d) => Is(d, "next")
      /\ StepFailed(d) => Is(d, "failed")
      /\ Settle(d) => Is(d, "settle")
  BY DEF NextStep, LoopDone, NextOutput, OutputsDone, StepFailed, Settle
<1>3. /\ UndoStep(d) \/ UndoDone(d) => Is(d, "undo")
      /\ DiscardBroadcast(d) \/ UndoOk(d) \/ UndoFault(d) => Is(d, "undoing")
  BY DEF UndoStep, UndoDone, DiscardBroadcast, UndoOk, UndoFault
<1>4. QED
  BY <1>1, <1>2, <1>3, InACall DEF Work, Undo, Is

-----------------------------------------------------------------------------
(* What has failed of an output *)

\* An output that has a broadcast to discard, and of which a step has failed that
\* its start was about, did not start.
LEMMA NotStarted ==
  ASSUME Undisturbed, Settled, NEW o \in Live(1), ToUndo(1, {o}) # {},
         \E s \in Seqs : OutputOf(s) = o /\ PhaseOf(s) \in {"prepare", "start"} /\ row[s] = "failed"
  PROVE  StartFailed(o)
<1>1. PICK s \in Seqs : OutputOf(s) = o /\ PhaseOf(s) \in {"prepare", "start"} /\ row[s] = "failed"
  OBVIOUS
<1>2. PICK t \in Seqs : row[t] = "done" /\ KindOf(t) = "prepare" /\ OutputOf(t) = o
  BY ToUndoIs
<1>3. KindOf(s) # "prepare"
  BY <1>1, <1>2 DEF Undisturbed, WellPlanned
<1>4. QED
  BY <1>1, <1>3, StepsAre DEF StartFailed, Undisturbed

\* An output whose clock ran out has not been started, and has failed now.
LEMMA MissedFails ==
  ASSUME Undisturbed, Settled, InStep, NEW d \in Drivers, MarkMissed(d), NEW o, o = drv'[d].out
  PROVE  StartFailed(o)'
<1>1. o \in Live(1) /\ Progress(1, o) = "pending" /\ Ready(d) /\ Active
  BY MarkMissedDoes DEF InWindow
<1>2. PICK s \in Seqs : OutputOf(s) = o /\ PhaseOf(s) = "start" /\ row[s] # "done"
  BY <1>1, ProgressIs DEF Undisturbed
<1>3. row[s] # "failed" /\ row[s] # "running" /\ row[s] # "compensated"
  <2>1. row[s] # "failed"
    BY <1>1, <1>2, ProgressIs DEF Undisturbed
  <2>2. row[s] # "running"
    BY <1>1, PassFresh DEF Undisturbed
  <2>3. row[s] # "compensated"
    BY <1>2, StepsAre DEF InStep, OnlyPreparesUndone, Undisturbed
  <2>4. QED
    BY <2>1, <2>2, <2>3
<1>4. row[s] \in StepState
  BY DEF Settled, Served, WellTyped, TypeOK
<1>5. row[s] = "pending"
  BY <1>2, <1>3, <1>4 DEF StepState
<1>6. row'[s] = "failed"
  BY <1>2, <1>5, MarkMissedDoes
<1>7. QED
  BY <1>2, <1>6 DEF StartFailed, OutputOf, PhaseOf

LEMMA CleanBy == ASSUME Undisturbed, NEW d \in Drivers, CleanFits(d)' PROVE Clean'
BY OnlyOne DEF Clean, Undisturbed

\* Nobody at a loop or an undo.
LEMMA CleanAway ==
  ASSUME Undisturbed, NEW d \in Drivers, drv'[d].pc \notin {"loop", "call", "undo", "undoing"}
  PROVE  Clean'
BY CleanBy DEF CleanFits, Undoing, Is

LEMMA CleanBegins ==
  ASSUME Undisturbed, Settled, InStep, NEW d \in Drivers, BeginStop(d) \/ BeginStart(d) PROVE Clean'
<1>1. /\ row' = row /\ drv'[d].out \in Live(1) /\ drv'[d].pc = "loop"
      /\ Progress(1, drv'[d].out) \in {"started", "pending"}
  BY BeginStopDoes, BeginStartDoes
<1>2. \A s \in Seqs : OutputOf(s) = drv'[d].out => row'[s] # "failed"
  BY <1>1, ProgressIs DEF Undisturbed
<1>3. QED
  BY <1>1, <1>2, CleanBy DEF CleanFits, Undoing, Is, OutputOf

LEMMA CleanMissed ==
  ASSUME Undisturbed, Settled, InStep, NEW d \in Drivers, MarkMissed(d) PROVE Clean'
<1>1. drv'[d].pc = "undo" /\ drv'[d].job = "start"
  BY MarkMissedDoes
<1>2. PICK o : o = drv'[d].out
  OBVIOUS
<1>3. StartFailed(o)'
  BY <1>2, MissedFails
<1>4. QED
  BY <1>1, <1>2, <1>3, CleanBy DEF CleanFits, Undoing, Is, StartFailed, OutputOf, PhaseOf

LEMMA CleanCalls ==
  ASSUME Undisturbed, Settled, InStep, Clean, NEW d \in Drivers, NextStep(d) \/ Call(d) PROVE Clean'
<1>1. CASE NextStep(d)
  <2>1. PICK s \in Seqs : row'[s] = "running" /\ \A t \in Seqs : t # s => row'[t] = row[t]
    BY <1>1, NextStepDoes
  <2>2. Is(d, "loop") /\ drv'[d].pc = "call" /\ drv'[d].job = drv[d].job /\ drv'[d].out = drv[d].out
    BY <1>1, NextStepDoes
  <2>3. QED
    BY <2>1, <2>2, CleanBy DEF Clean, CleanFits, Undoing, Is, OutputOf
<1>2. CASE Call(d)
  <2>1. PICK s \in Seqs : s = drv[d].seq /\ row[s] = "running"
    BY <1>2, CallDoes
  <2>2. /\ Is(d, "call") /\ drv'[d].job = drv[d].job /\ drv'[d].out = drv[d].out
        /\ \A t \in Seqs : t # s => row'[t] = row[t]
        /\ (drv'[d].pc \in {"call", "loop"} /\ row'[s] # "failed") \/ drv'[d].pc = "failed"
    BY <1>2, <2>1, CallDoes
  <2>3. QED
    BY <2>1, <2>2, CleanBy DEF Clean, CleanFits, Undoing, Is, OutputOf
<1>3. QED
  BY <1>1, <1>2

LEMMA CleanUndoes ==
  ASSUME Undisturbed, Settled, InStep, Clean, NEW d \in Drivers, Undo(d), ~UndoDone(d) PROVE Clean'
<1>1. /\ Undoing(d) /\ drv'[d].pc \in {"undo", "undoing"}
      /\ drv'[d].job = drv[d].job /\ drv'[d].out = drv[d].out /\ drv'[d].why = drv[d].why
      /\ drv[d].todo # {} \/ Is(d, "undoing")
      /\ \A s \in Seqs : row[s] = "failed" => row'[s] = "failed"
  BY UndoDoes
<1>2. PICK o : o = drv[d].out
  OBVIOUS
<1>3. drv[d].why = "output" => drv[d].job = "start" /\ StartFailed(o)
  BY <1>1, <1>2 DEF Clean, CleanFits
<1>4. StartFailed(o) => StartFailed(o)'
  BY <1>1 DEF StartFailed, OutputOf, PhaseOf
<1>5. QED
  BY <1>1, <1>2, <1>3, <1>4, CleanBy DEF CleanFits, Undoing, Is, StartFailed, OutputOf, PhaseOf

LEMMA CleanTurns ==
  ASSUME Undisturbed, Settled, InStep, Clean, NEW d \in Drivers, TurnsOver(d) PROVE Clean'
<1>0. TurnsRight(d) /\ row' = row
  BY TurnDoes
<1>1. CASE drv'[d].pc \notin {"loop", "call", "undo", "undoing"}
  BY <1>1, CleanAway
<1>2. CASE drv'[d].pc = "loop" /\ drv'[d].job = "prepare"
  BY <1>2, CleanBy DEF CleanFits, Undoing, Is
<1>3. CASE ToRunUndo(d)
  BY <1>3, CleanBy DEF CleanFits, Undoing, Is, ToRunUndo
<1>4. CASE /\ Is(d, "failed") /\ drv[d].job \in {"prepare", "start"}
           /\ drv'[d].pc = "undo" /\ drv'[d].why = "output" /\ drv'[d].todo = ToUndo(1, {drv[d].out})
           /\ drv'[d].job = drv[d].job /\ drv'[d].out = drv[d].out
  <2>1. PICK o : o = drv[d].out
    OBVIOUS
  <2>2. o \in Live(1)
    BY <1>4, <2>1, JobIs DEF Is
  <2>3. PICK s \in Seqs : Selected(d, s) /\ row[s] = "failed"
    BY <1>4 DEF InStep, LoopFits
  <2>4. OutputOf(s) = o /\ PhaseOf(s) \in {"prepare", "start"}
    BY <1>4, <2>1, <2>3 DEF Selected, PhasesOf
  <2>5. ToUndo(1, {o}) # {} => StartFailed(o)
    BY <2>2, <2>3, <2>4, NotStarted
  <2>6. drv[d].job = "prepare" => ToUndo(1, {o}) = {}
    BY <1>4, <2>3, <2>4, StepsAre, ToUndoIs DEF Selected, PhasesOf, Undisturbed, WellPlanned
  <2>7. StartFailed(o) => StartFailed(o)'
    BY <1>0 DEF StartFailed, OutputOf, PhaseOf
  <2>8. QED
    BY <1>4, <2>1, <2>5, <2>6, <2>7, CleanBy
       DEF CleanFits, Undoing, Is, StartFailed, OutputOf, PhaseOf
<1>5. QED
  BY <1>0, <1>1, <1>2, <1>3, <1>4 DEF TurnsRight

LEMMA CleanInit == ASSUME Init PROVE Clean
BY DEF Init, IdleDriver, Clean, CleanFits, Undoing, Is

LEMMA CleanNext == ASSUME Undisturbed, Settled, InStep, Clean, [Next]_vars PROVE Clean'
<1>1. ASSUME NEW d \in Drivers, Work(d) PROVE Clean'
  <2>1. CASE BeginFail(d)
    BY <2>1, BeginFailDoes, CleanBy DEF CleanFits, Undoing, Is
  <2>2. CASE BeginPrepare(d)
    BY <2>2, BeginPrepareDoes, CleanAway
  <2>3. CASE BeginComplete(d)
    BY <2>3, BeginCompleteDoes, CleanBy DEF CleanFits, Undoing, Is
  <2>4. QED
    BY <1>1, <2>1, <2>2, <2>3, WorkIs, CleanBegins, CleanMissed, CleanCalls, CleanUndoes, CleanTurns
<1>2. CASE Crash
  BY <1>2 DEF Crash, IdleDriver, Clean, CleanFits, Undoing, Is
<1>3. CASE Reconcile \/ Recovered
  BY <1>3 DEF Reconcile, Recovered, Settled, Served, RecoversAlone, AllIdle, Is, Clean, CleanFits,
              Undoing
<1>4. CASE Clock \/ UNCHANGED vars
  BY <1>4 DEF Clock, vars, database, Clean, CleanFits, Undoing, Is, StartFailed, OutputOf, PhaseOf
<1>5. ~EditEvent
  BY DEF EditEvent, Settled, Known, Unedited
<1>6. QED
  BY <1>1, <1>2, <1>3, <1>4, <1>5, AloneSteps DEF Undisturbed

-----------------------------------------------------------------------------
(* While the program does not crash *)

Uncrashed == Undisturbed /\ MaxCrashes = 0

LEMMA UncrashedSteps ==
  ASSUME Uncrashed, Settled, boot = "up", [Next]_vars
  PROVE  (\E d \in Drivers : Work(d)) \/ Clock \/ UNCHANGED vars
<1>1. ~Crash
  BY EngineAssumption DEF Crash, Settled, Served, WellTyped, TypeOK, Uncrashed
<1>2. ~EditEvent /\ ~Reconcile /\ ~Recovered
  BY DEF EditEvent, Settled, Known, Unedited, Reconcile, Recovered
<1>3. QED
  BY <1>1, <1>2, AloneSteps DEF Uncrashed, Undisturbed

LEMMA StaysUp == ASSUME Uncrashed, Settled, boot = "up", [Next]_vars PROVE boot' = "up"
<1>1. CASE Clock \/ UNCHANGED vars
  BY <1>1 DEF Clock, vars
<1>2. QED
  BY <1>1, UncrashedSteps, BootKept

\* What the run is through with is off.
LEMMA ThroughOff ==
  ASSUME Undisturbed, InStep, \A o \in Live(1) : Through(o) PROVE NothingOn
<1> SUFFICES ASSUME NEW s \in Seqs, NEW t \in Seqs, OutputOf(s) = OutputOf(t),
                    KindOf(s) = "startStreaming", KindOf(t) = "stopStreaming", row[s] = "done"
             PROVE  row[t] \in {"done", "failed"}
  BY DEF NothingOn
<1>1. PICK u \in Seqs : /\ OutputOf(u) = OutputOf(t)
                        /\ \/ KindOf(u) = "stopStreaming" /\ row[u] = "done"
                           \/ KindOf(u) # "finalize" /\ row[u] = "failed"
  BY StepsAre DEF Through, Undisturbed
<1>2. KindOf(u) = "stopStreaming" => u = t
  BY <1>1 DEF Undisturbed, WellPlanned
<1>3. CASE row[u] = "failed" /\ KindOf(u) # "stopStreaming"
  <2>1. KindOf(u) \in {"prepare", "applyStreamTarget", "startStreaming"}
    BY <1>1, <1>3, StepsAre DEF StepKind, Undisturbed
  <2>2. KindOf(u) = "startStreaming" => u = s
    BY <1>1 DEF Undisturbed, WellPlanned
  <2>3. KindOf(u) \in Precede(KindOf(s)) => Made(u)
    BY <1>1 DEF InStep, RowOrder
  <2>4. QED
    BY <1>3, <2>1, <2>2, <2>3 DEF Precede, Made
<1>4. QED
  BY <1>1, <1>2, <1>3

\* What has no progress has not been started.
LEMMA NotYetStarted ==
  ASSUME Undisturbed, Settled, InStep, NEW s \in Seqs, KindOf(s) = "startStreaming",
         Progress(1, OutputOf(s)) = "pending"
  PROVE  row[s] # "done"
<1> SUFFICES ASSUME row[s] = "done" PROVE FALSE
  OBVIOUS
<1>1. PICK u \in Seqs : OutputOf(u) = OutputOf(s) /\ PhaseOf(u) = "start" /\ row[u] # "done"
  BY ProgressIs, StepsAre DEF Undisturbed
<1>2. KindOf(u) = "applyStreamTarget" \/ u = s
  BY <1>1, StepsAre DEF Undisturbed, WellPlanned
<1>3. KindOf(u) = "applyStreamTarget" => Made(u)
  BY <1>1 DEF InStep, RowOrder, Precede
<1>4. QED
  BY <1>1, <1>2, <1>3 DEF InStep, OnlyPreparesUndone, Made

\* A run that is failed because it has nothing to do, or came too late, has
\* started nothing.
LEMMA DoomedOff ==
  ASSUME Undisturbed, Settled, InStep, Doomed PROVE NothingOn
<1>1. version = 1 /\ ~Drifted
  BY PlanIsCommitted DEF Drifted, Committed, Seqs
<1>2. CASE Enabled[version] = <<>>
  <2>1. Live(1) = {}
    BY <1>1, <1>2 DEF Live
  <2>2. QED
    BY <2>1, StepsAre DEF NothingOn, Undisturbed
<1>3. CASE MissedItsWindow
  <2> SUFFICES ASSUME NEW s \in Seqs, KindOf(s) = "startStreaming", row[s] = "done" PROVE FALSE
    BY DEF NothingOn
  <2>1. OutputOf(s) \in Live(1) /\ Progress(1, OutputOf(s)) = "pending"
    BY <1>1, <1>3, StepsAre DEF MissedItsWindow, Undisturbed
  <2>2. QED
    BY <2>1, NotYetStarted
<1>4. QED
  BY <1>1, <1>2, <1>3 DEF Doomed

\* A run that prepares has started nothing.
LEMMA PreparingOff ==
  ASSUME Undisturbed, InStep, run = "preparing" PROVE NothingOn
<1> SUFFICES ASSUME NEW s \in Seqs, KindOf(s) = "startStreaming", row[s] = "done" PROVE FALSE
  BY DEF NothingOn
<1>1. PhaseOf(s) # "prepare"
  BY StepsAre DEF Undisturbed
<1>2. QED
  BY <1>1 DEF InStep, RunSays

LEMMA StaysOff ==
  ASSUME NothingOn, \A s \in Seqs : row'[s] = row[s] \/ KindOf(s) = "prepare" PROVE NothingOn'
BY DEF NothingOn, KindOf, OutputOf

\* Nothing is marked once the run has ended, and no row but a prepared one is
\* while it is being undone.
LEMMA WorkMarks ==
  ASSUME Undisturbed, Settled, InStep, NEW d \in Drivers, Work(d),
         ~Active \/ Undoing(d)
  PROVE  \A s \in Seqs : row'[s] = row[s] \/ KindOf(s) = "prepare"
<1>1. ~NextStep(d) /\ ~Call(d) /\ ~MarkMissed(d)
  <2>1. ~Is(d, "loop") /\ ~Is(d, "call")
    BY JobIs, CallIs DEF Is, Undoing, Active, IsTerminal, TerminalStates
  <2>2. NextStep(d) => Is(d, "loop")
    BY DEF NextStep
  <2>3. Call(d) => Is(d, "call")
    BY InACall
  <2>4. MarkMissed(d) => Active /\ drv[d].pc \in {"idle", "step"}
    BY PassFresh DEF MarkMissed, InWindow, Undisturbed
  <2>5. QED
    BY <2>1, <2>2, <2>3, <2>4 DEF Undoing
<1>2. CASE Undo(d) /\ ~UndoDone(d)
  BY <1>2, UndoDoes
<1>3. QED
  BY <1>1, <1>2, WorkIs, BeginFailDoes, BeginPrepareDoes, BeginStopDoes, BeginStartDoes,
     BeginCompleteDoes, TurnDoes

\* A run is undone, and ends, with nothing on.
LEMMA TurnsOff ==
  ASSUME Uncrashed, Settled, InStep, InStream, NEW d \in Drivers, TurnsOver(d)
  PROVE  UndoSpares(d)' /\ EndsOff'
<1>0. TurnsRight(d) /\ row' = row
  BY TurnDoes DEF Uncrashed
<1>1. NothingOn => NothingOn'
  BY <1>0, StaysOff
<1>2. EndsOff /\ UndoSpares(d)
  BY DEF InStream
<1>3. CASE run' = run /\ ~(drv'[d].pc \in {"undo", "undoing"} /\ drv'[d].why = "failed")
           /\ drv'[d].pc # "undoing"
  BY <1>1, <1>2, <1>3 DEF EndsOff, UndoSpares, Undoing, Is
<1>4. CASE run' = "ready" /\ drv'[d].pc \in {"idle", "step"}
  BY <1>4 DEF EndsOff, UndoSpares, Undoing, Is, TerminalStates
<1>5. CASE run = "completing"
  <2>1. NothingOn
    BY <1>5, ThroughOff DEF InStep, RunSays, Uncrashed
  <2>2. drv'[d].pc # "undoing"
    BY <1>0 DEF TurnsRight, ToRunUndo
  <2>3. QED
    BY <1>1, <2>1, <2>2 DEF EndsOff, UndoSpares, Undoing, Is
<1>6. CASE run = "preparing" /\ ToRunUndo(d)
  <2>1. NothingOn
    BY <1>6, PreparingOff DEF Uncrashed
  <2>2. QED
    BY <1>1, <1>6, <2>1 DEF ToRunUndo, EndsOff, UndoSpares, Undoing, Is
<1>7. CASE Undoing(d) /\ drv[d].why = "failed"
  <2>1. NothingOn
    BY <1>2, <1>7 DEF UndoSpares
  <2>2. drv'[d].pc # "undoing"
    BY <1>0 DEF TurnsRight, ToRunUndo
  <2>3. QED
    BY <1>1, <2>1, <2>2 DEF EndsOff, UndoSpares, Undoing, Is
<1>8. QED
  BY <1>0, <1>3, <1>4, <1>5, <1>6, <1>7 DEF TurnsRight

LEMMA UndoesOff ==
  ASSUME Uncrashed, Settled, InStep, InStream, [Next]_vars, NEW d \in Drivers, Undo(d), ~UndoDone(d)
  PROVE  UndoSpares(d)' /\ EndsOff'
<1>1. /\ Undoing(d) /\ run' = run
      /\ drv'[d].why = drv[d].why
      /\ drv'[d].pc = "undoing" =>
           /\ drv'[d].seq \in Seqs
           /\ Is(d, "undo") => /\ drv'[d].seq \in drv[d].todo
                               /\ drv'[d].arg = ext[drv'[d].seq] /\ row' = row
           /\ Is(d, "undoing") => drv'[d].seq = drv[d].seq /\ drv'[d].arg = drv[d].arg
  BY UndoDoes DEF Uncrashed
<1>2. \A s \in Seqs : row'[s] = row[s] \/ KindOf(s) = "prepare"
  BY UndoDoes DEF Uncrashed
<1>3. NothingOn => NothingOn'
  BY <1>2, StaysOff
<1>4. UndoSpares(d) /\ EndsOff /\ UndoFits(d)
  BY DEF InStream, InStep
<1>5. PICK b, s : b = drv'[d].arg /\ s = drv'[d].seq
  OBVIOUS
<1>6. drv'[d].pc = "undoing" => Of(b, OutputOf(s))
  <2>1. CASE Is(d, "undoing")
    BY <1>1, <1>4, <1>5, <2>1 DEF UndoSpares
  <2>2. CASE Is(d, "undo")
    <3> SUFFICES ASSUME drv'[d].pc = "undoing" PROVE Of(b, OutputOf(s))
      OBVIOUS
    <3>1. s \in Seqs /\ KindOf(s) = "prepare" /\ row[s] = "done" /\ b = ext[s]
      BY <1>1, <1>4, <1>5, <2>2 DEF UndoFits, Undoing, Is
    <3>2. SameSteps(version)
      BY PlanIsCommitted DEF SameSteps, Committed
    <3>3. QED
      BY <3>1, <3>2 DEF Settled, Served, RowsRight, Trusted, KindOf, OutputOf
  <2>3. QED
    BY <1>1, <2>1, <2>2 DEF Undoing, Is
<1>7. drv'[d].pc = "undoing" => Of(b, OutputOf(s))'
  BY <1>6, OfStays DEF Uncrashed, Undisturbed, Settled, Served, OutputOf
<1>8. UndoSpares(d)'
  BY <1>1, <1>3, <1>4, <1>5, <1>7 DEF UndoSpares, Undoing, Is, OutputOf
<1>9. EndsOff'
  BY <1>1, <1>3, <1>4 DEF EndsOff
<1>10. QED
  BY <1>8, <1>9

LEMMA OffNext ==
  ASSUME Uncrashed, Settled, InStep, InStream, [Next]_vars, NEW d \in Drivers, Work(d)
  PROVE  UndoSpares(d)' /\ EndsOff'
<1>0. ASSUME Active, run' \notin TerminalStates PROVE EndsOff'
  BY <1>0 DEF EndsOff
<1>1. CASE BeginFail(d)
  <2>1. NothingOn /\ row' = row /\ run' = run /\ drv'[d].pc = "undo"
    BY <1>1, BeginFailDoes, DoomedOff DEF Uncrashed
  <2>2. NothingOn'
    BY <2>1, StaysOff
  <2>3. QED
    BY <2>1, <2>2 DEF UndoSpares, EndsOff, Is
<1>2. CASE BeginPrepare(d) \/ BeginStop(d) \/ BeginStart(d) \/ BeginComplete(d) \/ MarkMissed(d)
  <2>1. drv'[d].pc \in {"next", "loop"} \/ (drv'[d].pc = "undo" /\ drv'[d].why = "output")
    BY <1>2, BeginPrepareDoes, BeginStopDoes, BeginStartDoes, BeginCompleteDoes, MarkMissedDoes
       DEF Uncrashed
  <2>2. Active
    BY <1>2 DEF BeginPrepare, BeginStop, BeginStart, BeginComplete, MarkMissed, InWindow
  <2>3. run' \in {run, "preparing", "running", "completing"}
    BY <1>2, BeginPrepareDoes, BeginStopDoes, BeginStartDoes, BeginCompleteDoes, MarkMissedDoes
       DEF Uncrashed
  <2>4. run' \notin TerminalStates
    BY <2>2, <2>3 DEF Active, IsTerminal, TerminalStates
  <2>5. QED
    BY <1>0, <2>1, <2>2, <2>4 DEF UndoSpares, Undoing, Is
<1>3. CASE NextStep(d) \/ Call(d)
  <2>1. drv'[d].pc \in {"call", "loop", "failed"} /\ run' = run /\ (Is(d, "loop") \/ Is(d, "call"))
    BY <1>3, NextStepDoes, CallDoes DEF Uncrashed
  <2>2. run' \notin TerminalStates
    BY <2>1, JobIs, CallIs DEF Is, Active, IsTerminal, TerminalStates, Uncrashed
  <2>3. QED
    BY <1>0, <2>1, <2>2 DEF UndoSpares, Undoing, Is, Active, IsTerminal
<1>4. QED
  BY <1>1, <1>2, <1>3, WorkIs, TurnsOff, UndoesOff

\* Encoders are driven by calls.
LEMMA EncoderDoes ==
  ASSUME Undisturbed, Settled, InStep, NEW d \in Drivers, Work(d)
  PROVE  encoder' = encoder \/ PointEncoder(d) \/ StartEncoder(d) \/ StopEncoder(d)
<1>1. CASE Call(d)
  BY <1>1 DEF Call, LookForBroadcast, CreateBroadcast, CloseBroadcast, CallOk, Fault, NoTarget,
              CallFailed, world
<1>2. CASE Undo(d) /\ ~UndoDone(d)
  BY <1>2, UndoDoes
<1>3. QED
  BY <1>1, <1>2, WorkIs, BeginFailDoes, BeginPrepareDoes, BeginStopDoes, BeginStartDoes,
     BeginCompleteDoes, MarkMissedDoes, NextStepDoes, TurnDoes

\* The call that drives an encoder is in flight until it is answered.
LEMMA EncoderCalls ==
  ASSUME Undisturbed, Settled, InStep, NEW d \in Drivers,
         PointEncoder(d) \/ StartEncoder(d) \/ StopEncoder(d)
  PROVE  /\ Is(d, "call") /\ drv[d].seq \in Seqs /\ row[drv[d].seq] = "running"
         /\ UNCHANGED <<row, ext, run, boot>>
         /\ PointEncoder(d) => KindOf(drv[d].seq) = "applyStreamTarget"
         /\ StartEncoder(d) => KindOf(drv[d].seq) = "startStreaming"
         /\ StopEncoder(d) => KindOf(drv[d].seq) = "stopStreaming"
         /\ StepOf(d).output = OutputOf(drv[d].seq)
         /\ drv'[d] = [drv[d] EXCEPT !.call = "landed"]
         /\ drv'[d].pc = "call" /\ drv'[d].seq = drv[d].seq /\ drv'[d].arg = drv[d].arg
         /\ drv'[d].call = "landed"
<1>1. Is(d, "call") /\ UNCHANGED <<row, ext, run, boot>>
      /\ Become(d, [drv[d] EXCEPT !.call = "landed"])
  BY DEF PointEncoder, StartEncoder, StopEncoder, Calling, Answered, database
<1>2. drv[d] \in DriverState /\ drv[d].seq \in Seqs /\ row[drv[d].seq] = "running"
      /\ StepOf(d).kind = KindOf(drv[d].seq) /\ StepOf(d).output = OutputOf(drv[d].seq)
  BY <1>1, CallIs
<1>3. drv'[d] = [drv[d] EXCEPT !.call = "landed"]
  BY <1>1, WellTypedDrivers, Becomes DEF Settled, Served
<1>4. /\ drv'[d].pc = "call" /\ drv'[d].seq = drv[d].seq /\ drv'[d].arg = drv[d].arg
      /\ drv'[d].call = "landed"
  BY <1>1, <1>2, <1>3 DEF DriverState, Is
<1>5. QED
  BY <1>1, <1>2, <1>3, <1>4 DEF PointEncoder, StartEncoder, StopEncoder, Calling

\* A call in flight has been on its way since its step began, or has landed just now.
LEMMA LandsBy ==
  ASSUME Undisturbed, Settled, InStep, NEW d \in Drivers, Work(d),
         drv'[d].pc = "call", drv'[d].call = "landed"
  PROVE  /\ Is(d, "call") /\ drv'[d].seq = drv[d].seq /\ drv[d].seq \in Seqs
         /\ \/ KindOf(drv[d].seq) = "prepare" \/ KindOf(drv[d].seq) = "finalize"
            \/ PointEncoder(d) \/ StartEncoder(d) \/ StopEncoder(d)
<1>1. ~NextStep(d)
  BY NextStepDoes
<1>2. Is(d, "call")
  BY <1>1, OnlyCallsCall, WellTypedDrivers DEF Settled, Served
<1>3. drv[d] \in DriverState /\ drv[d].seq \in Seqs /\ StepOf(d).kind = KindOf(drv[d].seq)
  BY <1>2, CallIs
<1>4. Call(d)
  BY <1>2, AtWork
<1>5. drv'[d].seq = drv[d].seq
  BY <1>4, CallDoes
<1>6. ~CallOk(d)
  <2>1. CallOk(d) => Become(d, [drv[d] EXCEPT !.pc = "loop", !.att = 0, !.call = "none", !.arg = 0])
    BY DEF CallOk
  <2>2. CallOk(d) => drv'[d] = [drv[d] EXCEPT !.pc = "loop", !.att = 0, !.call = "none", !.arg = 0]
    BY <2>1, WellTypedDrivers, Becomes DEF Settled, Served
  <2>3. QED
    BY <1>3, <2>2 DEF DriverState
<1>7. ~Fault(d) /\ ~NoTarget(d)
  <2>1. CallFailed(d) =>
          \/ Become(d, [drv[d] EXCEPT !.att = @ + 1, !.call = "sent",
                                      !.arg = Argument(drv[d].v, drv[d].seq)])
          \/ Become(d, [drv[d] EXCEPT !.pc = "failed", !.att = 0, !.call = "none", !.arg = 0])
    BY DEF CallFailed
  <2>2. CallFailed(d) =>
          \/ drv'[d] = [drv[d] EXCEPT !.att = @ + 1, !.call = "sent",
                                      !.arg = Argument(drv[d].v, drv[d].seq)]
          \/ drv'[d] = [drv[d] EXCEPT !.pc = "failed", !.att = 0, !.call = "none", !.arg = 0]
    BY <2>1, WellTypedDrivers, Becomes DEF Settled, Served
  <2>3. ~CallFailed(d)
    BY <1>3, <2>2 DEF DriverState
  <2>4. QED
    BY <2>3 DEF Fault, NoTarget
<1>8. QED
  BY <1>2, <1>3, <1>4, <1>5, <1>6, <1>7
     DEF Call, LookForBroadcast, CreateBroadcast, CloseBroadcast, Calling

LEMMA StopFitsNext ==
  ASSUME Uncrashed, Settled, InStep, InStream, NEW d \in Drivers, Work(d) PROVE StopFits(d)'
<1> SUFFICES ASSUME drv'[d].pc = "call", drv'[d].call = "landed",
                    KindOf(drv[d].seq) = "stopStreaming", drv'[d].seq = drv[d].seq
             PROVE  ~encoder'[Device[OutputOf(drv[d].seq)]].active
  <2>1. PICK s : s = drv'[d].seq
    OBVIOUS
  <2>2. drv'[d].pc = "call" /\ drv'[d].call = "landed" => s = drv[d].seq
    BY <2>1, LandsBy DEF Uncrashed
  <2>3. QED
    BY <2>1, <2>2 DEF StopFits, Is, KindOf, OutputOf
<1>1. StopEncoder(d)
  BY LandsBy, EncoderCalls DEF Uncrashed
<1>2. Device[OutputOf(drv[d].seq)] \in Devices /\ encoder \in [Devices -> [active : BOOLEAN, target : BroadcastId]]
  BY <1>1, EncoderCalls, StepsAre, EngineAssumption DEF Uncrashed, Undisturbed, Settled, Served, WellTyped, TypeOK
<1>3. StepOf(d).output = OutputOf(drv[d].seq)
  BY <1>1, EncoderCalls DEF Uncrashed
<1>4. QED
  BY <1>1, <1>2, <1>3 DEF StopEncoder

\* How a row changes while a driver works.
LEMMA RowDoes ==
  ASSUME Undisturbed, Settled, InStep, NEW d \in Drivers, Work(d), NEW s \in Seqs, row'[s] # row[s]
  PROVE  \/ ~Made(s) /\ row'[s] = "running"
         \/ CallOk(d) /\ Is(d, "call") /\ s = drv[d].seq /\ row[s] = "running" /\ row'[s] = "done"
         \/ row[s] \in {"running", "pending"} /\ row'[s] = "failed"
         \/ KindOf(s) = "prepare" /\ row[s] = "done" /\ row'[s] = "compensated"
<1>1. CASE NextStep(d)
  BY <1>1, NextStepDoes
<1>2. CASE Call(d)
  BY <1>2, CallDoes
<1>3. CASE MarkMissed(d)
  BY <1>3, MarkMissedDoes
<1>4. CASE Undo(d) /\ ~UndoDone(d)
  BY <1>4, UndoDoes
<1>5. QED
  BY <1>1, <1>2, <1>3, <1>4, WorkIs, BeginFailDoes, BeginPrepareDoes, BeginStopDoes, BeginStartDoes,
     BeginCompleteDoes, TurnDoes

\* A call is answered after it has landed.
LEMMA StopLands ==
  ASSUME Uncrashed, Settled, InStep, InStream, NEW d \in Drivers, CallOk(d), Is(d, "call"),
         KindOf(drv[d].seq) = "stopStreaming"
  PROVE  ~encoder[Device[OutputOf(drv[d].seq)]].active
BY DEF InStream, StopFits, CallOk

LEMMA StreamsStays ==
  ASSUME Uncrashed, Settled, InStep, InStream, NEW d \in Drivers, Work(d), encoder' = encoder,
         NEW s \in Seqs, Streams(s), encoder[Device[OutputOf(s)]].active
  PROVE  Streams(s)'
<1>1. KindOf(s) = "startStreaming" /\ KindOf(s) # "prepare" /\ KindOf(s) # "stopStreaming"
  BY DEF Streams
<1>2. ASSUME NEW t \in Seqs, OutputOf(t) = OutputOf(s), KindOf(t) = "stopStreaming", row'[t] = "done"
      PROVE  row[s] = "done" /\ row[t] = "done"
  <2>1. CASE row'[t] = row[t]
    BY <1>1, <1>2, <2>1 DEF InStep, RowOrder
  <2>2. CASE row'[t] # row[t]
    <3>1. CallOk(d) /\ Is(d, "call") /\ t = drv[d].seq
      BY <1>2, <2>2, RowDoes DEF Uncrashed
    <3>2. QED
      BY <1>2, <3>1, StopLands
  <2>3. QED
    BY <2>1, <2>2
<1>3. row[s] # "done" => \A t \in Seqs :
        OutputOf(t) = OutputOf(s) /\ KindOf(t) = "stopStreaming" => row'[t] # "done"
  BY <1>2
<1>4. row[s] = "done" => \A t \in Seqs :
        OutputOf(t) = OutputOf(s) /\ KindOf(t) = "stopStreaming" => row'[t] # "done"
  BY <1>2 DEF Streams
<1>5. row'[s] \in {"running", "failed", "done"}
  BY <1>1, RowDoes DEF Streams, Uncrashed, Made
<1>6. QED
  BY <1>1, <1>3, <1>4, <1>5 DEF Streams, KindOf, OutputOf

LEMMA StreamsKnownNext ==
  ASSUME Uncrashed, Settled, InStep, InStream, NEW d \in Drivers, Work(d) PROVE StreamsKnown'
<1> SUFFICES ASSUME NEW e \in Devices, encoder'[e].active
             PROVE  \E s \in Seqs : Device[OutputOf(s)] = e /\ Streams(s)'
  BY DEF StreamsKnown, OutputOf
<1>0. encoder \in [Devices -> [active : BOOLEAN, target : BroadcastId]]
  BY DEF Settled, Served, WellTyped, TypeOK
<1>1. encoder[e].active => \E s \in Seqs : Device[OutputOf(s)] = e /\ Streams(s)
  BY DEF InStream, StreamsKnown
<1>2. CASE encoder' = encoder
  <2>1. PICK s \in Seqs : Device[OutputOf(s)] = e /\ Streams(s)
    BY <1>1, <1>2
  <2>2. Streams(s)'
    BY <1>2, <2>1, StreamsStays
  <2>3. QED
    BY <2>1, <2>2
<1>3. CASE PointEncoder(d) \/ StopEncoder(d)
  <2>1. row' = row
    BY <1>3, EncoderCalls DEF Uncrashed
  <2>2. encoder[e].active
    BY <1>0, <1>3 DEF PointEncoder, StopEncoder
  <2>3. QED
    BY <1>1, <2>1, <2>2 DEF Streams, KindOf, OutputOf
<1>4. CASE StartEncoder(d)
  <2>1. /\ row' = row /\ KindOf(drv[d].seq) = "startStreaming" /\ row[drv[d].seq] = "running"
        /\ StepOf(d).output = OutputOf(drv[d].seq) /\ drv[d].seq \in Seqs
    BY <1>4, EncoderCalls DEF Uncrashed
  <2>2. CASE e = Device[OutputOf(drv[d].seq)]
    BY <2>1, <2>2 DEF Streams, KindOf
  <2>3. CASE e # Device[OutputOf(drv[d].seq)]
    <3>1. encoder[e].active
      BY <1>0, <1>4, <2>1, <2>3 DEF StartEncoder
    <3>2. QED
      BY <1>1, <2>1, <3>1 DEF Streams, KindOf, OutputOf
  <2>4. QED
    BY <2>2, <2>3
<1>5. QED
  BY <1>2, <1>3, <1>4, EncoderDoes DEF Uncrashed

LEMMA InStreamInit == ASSUME Init PROVE InStream
BY DEF Init, IdleDriver, InStream, UndoSpares, StopFits, EndsOff, StreamsKnown, Undoing, Is,
       TerminalStates

LEMMA InStreamNext ==
  ASSUME Uncrashed, Settled, InStep, InStream, [Next]_vars PROVE InStream'
<1>1. ASSUME NEW d \in Drivers, Work(d) PROVE InStream'
  <2>1. UndoSpares(d)' /\ StopFits(d)'
    BY <1>1, OffNext, StopFitsNext
  <2>2. \A e \in Drivers : UndoSpares(e)' /\ StopFits(e)'
    BY <2>1, OnlyOne DEF Uncrashed, Undisturbed
  <2>3. boot' = "up"
    BY StaysUp DEF InStream
  <2>4. QED
    BY <1>1, <2>2, <2>3, OffNext, StreamsKnownNext DEF InStream
<1>2. CASE Clock \/ UNCHANGED vars
  <2>1. UNCHANGED <<row, run, drv, encoder, channel, boot>>
    BY <1>2 DEF Clock, vars, database, world
  <2>2. NothingOn => NothingOn'
    BY <2>1, StaysOff
  <2>3. \A b, o : Of(b, o) => Of(b, o)'
    BY <2>1 DEF Of
  <2>4. (\A d \in Drivers : UndoSpares(d)') /\ EndsOff'
    BY <2>1, <2>2, <2>3 DEF InStream, UndoSpares, EndsOff, Undoing, Is, Of, OutputOf
  <2>5. (\A d \in Drivers : StopFits(d)') /\ StreamsKnown'
    BY <2>1 DEF InStream, StopFits, StreamsKnown, Streams, Is, KindOf, OutputOf
  <2>6. QED
    BY <2>1, <2>4, <2>5 DEF InStream
<1>3. QED
  BY <1>1, <1>2, UncrashedSteps DEF InStream

LEMMA SpecInStream == ASSUME Uncrashed PROVE Spec => [](Settled /\ InStep /\ InStream)
<1>1. Init => InStream
  BY InStreamInit
<1>2. Settled /\ InStep /\ InStream /\ [Next]_vars => InStream'
  BY InStreamNext
<1>3. QED
  BY <1>1, <1>2, SpecInStep, PTL DEF Spec, Uncrashed

\* A run that finished by itself leaves no encoder streaming but one whose start
\* or stop has failed (engine.ts step, complete and fail), as long as the program
\* does not crash: recovery resets the row of a start without asking the encoder.
THEOREM StreamsAccountedFor == ASSUME Uncrashed PROVE Spec => []StreamAccounted
<1>1. ASSUME Settled, InStep, InStream PROVE StreamAccounted
  <2> SUFFICES ASSUME Finished, NEW o \in Outputs, encoder[Device[o]].active
               PROVE  \E p \in Outputs : /\ Device[p] = Device[o]
                                         /\ RowFailed(p, "startStreaming") \/ RowFailed(p, "stopStreaming")
    BY DEF StreamAccounted
  <2>1. PICK s \in Seqs : Device[OutputOf(s)] = Device[o] /\ Streams(s)
    BY <1>1, EngineAssumption DEF InStream, StreamsKnown
  <2>2. OutputOf(s) \in Outputs /\ KindOf(s) = "startStreaming"
    BY <2>1, StepsAre DEF Streams, Uncrashed, Undisturbed
  <2>3. row[s] # "running"
    BY <1>1, EngineAssumption DEF InStep, RunningOwned, Finished, AllIdle, Is, Uncrashed
  <2>4. CASE row[s] = "failed"
    BY <2>1, <2>2, <2>4 DEF RowFailed, RowOf, KindOf, OutputOf
  <2>5. CASE row[s] = "done"
    <3>1. PICK t \in Seqs : KindOf(t) = "stopStreaming" /\ OutputOf(t) = OutputOf(s)
      BY StepsAre DEF Uncrashed, Undisturbed, WellPlanned
    <3>2. row[t] \in {"done", "failed"}
      BY <1>1, <2>2, <2>5, <3>1 DEF InStream, EndsOff, NothingOn, Finished, Active, IsTerminal
    <3>3. row[t] = "failed"
      BY <2>1, <2>5, <3>1, <3>2 DEF Streams
    <3>4. QED
      BY <2>1, <2>2, <3>1, <3>3 DEF RowFailed, RowOf, KindOf, OutputOf
  <2>6. QED
    BY <2>1, <2>3, <2>4, <2>5 DEF Streams
<1>2. QED
  BY <1>1, SpecInStream, PTL

-----------------------------------------------------------------------------
(* What people watched *)

Kept == Uncrashed /\ SlotsApart

\* What failed of an output's start stays failed.
LEMMA StartFailedStays ==
  ASSUME Undisturbed, Settled, InStep, Clean, [Next]_vars, NEW o, StartFailed(o) PROVE StartFailed(o)'
<1>1. PICK s \in Seqs : OutputOf(s) = o /\ PhaseOf(s) = "start" /\ row[s] = "failed"
  BY DEF StartFailed
<1>2. KindOf(s) # "prepare"
  BY <1>1, StepsAre DEF Undisturbed
<1>3. ASSUME NEW d \in Drivers, Work(d) PROVE row'[s] = "failed"
  <2>1. CASE NextStep(d)
    <3>1. PICK t \in Seqs : Selected(d, t) /\ \A u \in Seqs : u # t => row'[u] = row[u]
      BY <2>1, NextStepDoes
    <3>2. Is(d, "loop")
      BY <2>1 DEF NextStep
    <3>3. t # s
      <4>1. CASE drv[d].job = "start"
        BY <1>1, <3>1, <3>2, <4>1 DEF Clean, CleanFits, Selected, Is
      <4>2. CASE drv[d].job # "start"
        BY <1>1, <3>1, <3>2, <4>2, JobIs DEF Selected, PhasesOf, Is
      <4>3. QED
        BY <4>1, <4>2
    <3>4. QED
      BY <1>1, <3>1, <3>3
  <2>2. CASE ~NextStep(d)
    <3>1. ~(~Made(s) /\ row'[s] = "running") \/ row'[s] = row[s]
      <4>1. Call(d) => row'[s] = row[s] \/ row'[s] # "running"
        BY CallDoes, <1>1
      <4>2. MarkMissed(d) => row'[s] = row[s] \/ row'[s] # "running"
        BY MarkMissedDoes, <1>1
      <4>3. Undo(d) /\ ~UndoDone(d) => row'[s] = row[s] \/ row'[s] # "running"
        BY UndoDoes, <1>1
      <4>4. QED
        BY <1>1, <1>3, <2>2, <4>1, <4>2, <4>3, WorkIs, BeginFailDoes, BeginPrepareDoes, BeginStopDoes,
           BeginStartDoes, BeginCompleteDoes, TurnDoes
    <3>2. QED
      BY <1>1, <1>2, <1>3, <3>1, RowDoes
  <2>3. QED
    BY <2>1, <2>2
<1>4. ASSUME Reconcile PROVE row'[s] = "failed"
  BY <1>1, <1>4, ReconcileIs
<1>5. ASSUME Crash \/ Recovered \/ EditEvent \/ Clock \/ UNCHANGED vars PROVE row'[s] = "failed"
  BY <1>1, <1>5 DEF Crash, Recovered, EditEvent, Clock, vars, database
<1>6. row'[s] = "failed"
  BY <1>1, <1>3, <1>4, <1>5, AloneSteps DEF Undisturbed
<1>7. QED
  BY <1>1, <1>6 DEF StartFailed, OutputOf, PhaseOf

\* Nothing is erased but by a discard, and that is of the broadcast at hand.
LEMMA ErasesBy ==
  ASSUME Undisturbed, Settled, InStep, NEW d \in Drivers, Work(d),
         NEW b \in Broadcast, channel'[b].state = "erased", channel[b].state # "erased"
  PROVE  DiscardBroadcast(d) /\ Is(d, "undoing") /\ b = drv[d].arg
<1>1. channel \in ChannelType /\ channel' # channel
  BY DEF Settled, Served, WellTyped, TypeOK
<1>2. CASE CreateBroadcast(d)
  BY <1>1, <1>2 DEF CreateBroadcast, Inserted, ChannelType
<1>3. CASE StartEncoder(d)
  BY <1>1, <1>3 DEF StartEncoder, VideoArrives, Moved, ChannelType
<1>4. CASE StopEncoder(d)
  BY <1>1, <1>4 DEF StopEncoder, VideoStops, Moved, ChannelType
<1>5. CASE DiscardBroadcast(d)
  BY <1>1, <1>5 DEF DiscardBroadcast, Discarded, ChannelType
<1>6. CASE Call(d)
  BY <1>1, <1>2, <1>3, <1>4, <1>6 DEF Call, LookForBroadcast, PointEncoder, CloseBroadcast, CallOk,
     Fault, NoTarget, CallFailed, world
<1>7. CASE Undo(d) /\ ~UndoDone(d)
  BY <1>1, <1>5, <1>7 DEF Undo, UndoStep, UndoOk, UndoFault, Undone, world
<1>8. QED
  BY <1>1, <1>6, <1>7, WorkIs, BeginFailDoes, BeginPrepareDoes, BeginStopDoes, BeginStartDoes,
     BeginCompleteDoes, MarkMissedDoes, NextStepDoes, TurnDoes

\* The run that is being failed, or has been, is not gone back to.
LEMMA FailingGoesOn ==
  ASSUME Uncrashed, Settled, InStep, boot = "up", [Next]_vars,
         run = "failed" \/ \E d \in Drivers : Undoing(d) /\ drv[d].why = "failed"
  PROVE  run' = "failed" \/ \E d \in Drivers : Undoing(d)' /\ drv'[d].why = "failed"
<1>1. CASE run = "failed"
  BY <1>1, RunMoves DEF Settled, Served, Active, IsTerminal, TerminalStates
<1>2. ASSUME NEW d \in Drivers, Undoing(d), drv[d].why = "failed"
      PROVE  run' = "failed" \/ (Undoing(d)' /\ drv'[d].why = "failed")
  <2>1. CASE Clock \/ UNCHANGED vars
    BY <1>2, <2>1 DEF Clock, vars, Undoing
  <2>2. CASE Work(d)
    <3>1. CASE Undo(d) /\ ~UndoDone(d)
      BY <1>2, <3>1, UndoDoes DEF Undoing, Uncrashed
    <3>2. CASE TurnsOver(d)
      BY <1>2, <3>2, TurnDoes DEF TurnsRight, Undoing, Is, Uncrashed
    <3>3. CASE ~Undo(d) /\ ~TurnsOver(d)
      <4>1. drv[d].pc \notin {"idle", "step", "loop", "call"}
        BY <1>2 DEF Undoing
      <4>2. ~NextStep(d) /\ ~Call(d)
        BY <4>1, InACall DEF NextStep, Is
      <4>3. ~Ready(d)
        BY <4>1 DEF Ready, MayTick, Is
      <4>4. QED
        BY <2>2, <3>3, <4>2, <4>3, WorkIs, BeginFailDoes, BeginPrepareDoes, BeginStopDoes,
           BeginStartDoes, BeginCompleteDoes, MarkMissedDoes DEF Uncrashed
    <3>4. QED
      BY <3>1, <3>2, <3>3 DEF TurnsOver
  <2>3. QED
    BY <2>1, <2>2, UncrashedSteps, OnlyOne DEF Uncrashed, Undisturbed
<1>3. QED
  BY <1>1, <1>2

LEMMA ErasedKnownNext ==
  ASSUME Kept, Settled, InStep, Clean, InStream, ErasedKnown, [Next]_vars PROVE ErasedKnown'
<1> SUFFICES ASSUME NEW b \in Broadcast, NEW o \in Outputs,
                    channel'[b].state = "erased", channel'[b].slot = Slot[o]
             PROVE  \/ run' = "failed" \/ \E d \in Drivers : Undoing(d)' /\ drv'[d].why = "failed"
                    \/ StartFailed(o)'
  BY DEF ErasedKnown
<1>1. CASE channel[b].state = "erased"
  <2>1. channel[b].slot = Slot[o]
    BY <1>1, ChannelKeeps DEF Settled, Served, Kept, Uncrashed, Undisturbed
  <2>2. \/ run = "failed" \/ \E d \in Drivers : Undoing(d) /\ drv[d].why = "failed"
        \/ StartFailed(o)
    BY <1>1, <2>1 DEF ErasedKnown
  <2>3. QED
    BY <2>2, FailingGoesOn, StartFailedStays DEF Kept, Uncrashed, InStream
<1>2. CASE channel[b].state # "erased"
  <2>1. PICK d \in Drivers : Work(d)
    BY <1>2, UncrashedSteps DEF Clock, vars, world, InStream, Kept
  <2>2. DiscardBroadcast(d) /\ Is(d, "undoing") /\ b = drv[d].arg
    BY <1>2, <2>1, ErasesBy DEF Kept, Uncrashed
  <2>3. PICK p : p = OutputOf(drv[d].seq)
    OBVIOUS
  <2>4. Of(b, p) /\ UndoFits(d) /\ Undoing(d) /\ p \in Outputs
    BY <2>2, <2>3, StepsAre
       DEF InStream, UndoSpares, InStep, UndoFits, Undoing, Is, Kept, Uncrashed, Undisturbed
  <2>5. channel'[b].slot = channel[b].slot
    BY <2>4, ChannelKeeps DEF Of, Settled, Served, Kept, Uncrashed, Undisturbed
  <2>6. p = o
    BY <2>4, <2>5 DEF Of, Kept, SlotsApart
  <2>7. CASE drv[d].why = "failed"
    BY <2>4, <2>7, FailingGoesOn DEF Kept, InStream
  <2>8. CASE drv[d].why = "output"
    <3>1. OutputOf(drv[d].seq) = drv[d].out /\ StartFailed(drv[d].out)
      BY <2>2, <2>4, <2>8 DEF UndoFits, Clean, CleanFits
    <3>2. o = drv[d].out
      BY <2>3, <2>6, <3>1
    <3>3. StartFailed(o)
      BY <3>1, <3>2 DEF StartFailed
    <3>4. QED
      BY <3>3, StartFailedStays DEF Kept, Uncrashed
  <2>9. QED
    BY <2>4, <2>7, <2>8 DEF UndoFits
<1>3. QED
  BY <1>1, <1>2

\* One output's failure takes down no other (engine.ts failOutput, onAir): a
\* broadcast that people watched is discarded with its run or not at all, as long
\* as the program does not crash and no two outputs share a title and a start.
THEOREM ServicesAreKept == ASSUME Kept PROVE Spec => []ServiceKept
<1>1. Init => ErasedKnown
  BY EngineAssumption DEF Init, ErasedKnown, EmptyChannel, Broadcast
<1>2. ASSUME Settled, InStep, ErasedKnown PROVE ServiceKept
  <2> SUFFICES ASSUME run # "failed", \A d \in Drivers : drv[d].why # "failed",
                      NEW o \in Outputs, WentOnAir(o), NEW b \in BroadcastsOf(o),
                      channel[b].state = "erased"
               PROVE  FALSE
    BY DEF ServiceKept
  <2>1. StartFailed(o)
    BY <1>2 DEF ErasedKnown, BroadcastsOf
  <2>2. PICK s \in Seqs : OutputOf(s) = o /\ KindOf(s) = "startStreaming" /\ row[s] = "done"
    BY DEF WentOnAir, RowDone, RowOf, KindOf, OutputOf
  <2>3. PICK t \in Seqs : OutputOf(t) = o /\ PhaseOf(t) = "start" /\ row[t] = "failed"
    BY <2>1 DEF StartFailed
  <2>4. KindOf(t) = "applyStreamTarget" \/ t = s
    BY <2>2, <2>3, StepsAre DEF Kept, Uncrashed, Undisturbed, WellPlanned
  <2>5. KindOf(t) = "applyStreamTarget" => Made(t)
    BY <1>2, <2>2, <2>3 DEF InStep, RowOrder, Precede
  <2>6. QED
    BY <2>2, <2>3, <2>4, <2>5 DEF Made
<1>3. Kept /\ Settled /\ InStep /\ Clean /\ InStream /\ ErasedKnown /\ [Next]_vars => ErasedKnown'
  BY ErasedKnownNext
<1>4. Uncrashed
  BY DEF Kept
<1>5. Init => Clean
  BY CleanInit
<1>6. Settled /\ InStep /\ Clean /\ [Next]_vars => Clean'
  BY <1>4, CleanNext DEF Uncrashed
<1>7. QED
  BY <1>1, <1>2, <1>3, <1>4, <1>5, <1>6, SpecInStream, PTL DEF Spec

-----------------------------------------------------------------------------
(* Encoders that are handed over *)

Turned == Undisturbed /\ HandedOver

LEMMA ForcedStays == ASSUME Undisturbed, [Next]_vars PROVE forced' = forced
<1>1. ASSUME NEW d \in Drivers, Work(d) PROVE forced' = forced
  BY <1>1 DEF Work, Pass, StopPass, BeginFail, BeginPrepare, Prepares, BeginStop, MarkMissed,
     BeginStart, BeginComplete, Call, LookForBroadcast, CreateBroadcast, PointEncoder, StartEncoder,
     StopEncoder, CloseBroadcast, CallOk, Fault, NoTarget, CallFailed, Undo, UndoStep,
     DiscardBroadcast, UndoOk, UndoFault, Undone, UndoDone, NextStep, LoopDone, StepFailed,
     NextOutput, OutputsDone, Settle, database
<1>2. CASE EditEvent \/ Clock \/ Crash \/ Reconcile \/ Recovered \/ UNCHANGED vars
  BY <1>2 DEF EditEvent, Clock, Crash, Reconcile, Recovered, vars, database
<1>3. QED
  BY <1>1, <1>2, AloneSteps DEF Undisturbed

\* Of two outputs on one encoder, one comes first.
LEMMA OneIsBefore ==
  ASSUME NEW o \in Live(1), NEW p \in Live(1), o # p, Device[o] = Device[p]
  PROVE  Before(o, p) \/ Before(p, o)
<1>1. PICK i, j \in DOMAIN Enabled[1] : Enabled[1][i] = o /\ Enabled[1][j] = p
  BY DEF Live
<1>2. i \in Nat /\ j \in Nat /\ i # j
  BY <1>1, EngineAssumption DEF Versions
<1>3. QED
  BY <1>1, <1>2 DEF Before

\* What the run is through with is not taken up again.
LEMMA RowStands ==
  ASSUME Undisturbed, Settled, InStep, Clean, [Next]_vars, run \notin {"scheduled", "preparing"},
         NEW s \in Seqs,
         \/ KindOf(s) = "stopStreaming" /\ row[s] = "done"
         \/ KindOf(s) # "finalize" /\ row[s] = "failed"
  PROVE  row'[s] = row[s]
<1>1. ASSUME NEW d \in Drivers, Work(d) PROVE row'[s] = row[s]
  <2>1. CASE NextStep(d)
    <3>1. PICK t \in Seqs : Selected(d, t) /\ ~Made(t) /\ \A u \in Seqs : u # t => row'[u] = row[u]
      BY <2>1, NextStepDoes
    <3>2. Is(d, "loop")
      BY <2>1 DEF NextStep
    <3>3. drv[d].job \in {"start", "stop", "complete"}
      BY <3>2, JobIs DEF Is
    <3>4. t # s
      <4>1. CASE drv[d].job \in {"start", "stop"}
        BY <3>1, <3>2, <4>1 DEF Clean, CleanFits, Selected, Is, Made
      <4>2. CASE drv[d].job = "complete"
        BY <3>1, <4>2, StepsAre DEF Selected, PhasesOf, Undisturbed, Made
      <4>3. QED
        BY <3>3, <4>1, <4>2
    <3>5. QED
      BY <3>1, <3>4
  <2>2. CASE Call(d)
    BY <2>2, CallDoes
  <2>3. CASE MarkMissed(d)
    BY <2>3, MarkMissedDoes
  <2>4. CASE Undo(d) /\ ~UndoDone(d)
    <3>1. row'[s] = row[s] \/ (KindOf(s) = "prepare" /\ row[s] = "done")
      BY <2>4, UndoDoes
    <3>2. QED
      BY <3>1
  <2>5. QED
    BY <1>1, <2>1, <2>2, <2>3, <2>4, WorkIs, BeginFailDoes, BeginPrepareDoes, BeginStopDoes,
       BeginStartDoes, BeginCompleteDoes, TurnDoes
<1>2. ASSUME Reconcile PROVE row'[s] = row[s]
  BY <1>2, ReconcileIs
<1>3. ASSUME Crash \/ Recovered \/ EditEvent \/ Clock \/ UNCHANGED vars PROVE row'[s] = row[s]
  BY <1>3 DEF Crash, Recovered, EditEvent, Clock, vars, database
<1>4. QED
  BY <1>1, <1>2, <1>3, AloneSteps DEF Undisturbed

LEMMA ThroughStays ==
  ASSUME Undisturbed, Settled, InStep, Clean, [Next]_vars, run \notin {"scheduled", "preparing"},
         NEW o, Through(o)
  PROVE  Through(o)'
<1>1. PICK s \in Seqs : /\ OutputOf(s) = o
                        /\ \/ KindOf(s) = "stopStreaming" /\ row[s] = "done"
                           \/ KindOf(s) # "finalize" /\ row[s] = "failed"
  BY DEF Through
<1>2. row'[s] = row[s]
  BY <1>1, RowStands
<1>3. QED
  BY <1>1, <1>2 DEF Through, OutputOf, KindOf

\* An output that comes after another on its encoder is due when the other one is
\* seen to: its start is, as are the stops before any start.
LEMMA ThroughBefore ==
  ASSUME Turned, Settled, InStep, forced \in Forced, NEW d \in Drivers, InWindow(d), StopsDue = {},
         NEW o \in Outputs, NEW p \in Outputs, First(1, p, StartsDue), Before(o, p)
  PROVE  Through(o)
<1>1. PICK i, j \in DOMAIN Enabled[1] : i < j /\ Enabled[1][i] = o /\ Enabled[1][j] = p
  BY DEF Before
<1>2. PICK k \in DOMAIN Enabled[1] : Enabled[1][k] = p /\ \A l \in 1..(k - 1) : Enabled[1][l] \notin StartsDue
  BY DEF First
<1>3. k = j /\ i \in 1..(j - 1)
  BY <1>1, <1>2, EngineAssumption DEF Versions, Turned, HandedOver
<1>4. o \notin StartsDue /\ p \in StartsDue /\ o \in Live(1) /\ version = 1
  BY <1>1, <1>2, <1>3, PlanIsCommitted DEF First, Live
<1>5. EndsAt(forced, o) + Postroll <= StartsAt(forced, p) - Preroll
  BY DEF Turned, HandedOver
<1>6. /\ StartsAt(forced, o) \in Int /\ StartsAt(forced, p) \in Int /\ EndsAt(forced, o) \in Int
      /\ EndsAt(forced, o) >= StartsAt(forced, o)
      /\ Preroll \in Nat /\ Postroll \in Nat /\ now \in Int
  <2>1. Offset[o] \in Nat /\ Offset[p] \in Nat /\ Duration[o] \in Nat
        /\ ScheduledStart \in Nat /\ ScheduledEnd \in Nat /\ Preroll \in Nat /\ Postroll \in Nat
    BY TimelineAssumption
  <2>2. WindowStart(forced) \in Nat
    BY <2>1 DEF WindowStart
  <2>3. WindowEnd(forced) \in Int
    BY <2>1, <2>2 DEF WindowEnd
  <2>4. now \in 0..MaxTime /\ MaxTime \in Nat
    BY EngineAssumption DEF Settled, Served, WellTyped, TypeOK
  <2>5. StartsAt(forced, o) \in Int /\ StartsAt(forced, p) \in Int
    BY <2>1, <2>2 DEF StartsAt
  <2>6. StartsAt(forced, o) + Duration[o] >= StartsAt(forced, o)
    BY <2>1, <2>5
  <2>7. EndsAt(forced, o) \in Int /\ EndsAt(forced, o) >= StartsAt(forced, o)
    BY <2>1, <2>3, <2>5, <2>6 DEF EndsAt
  <2>8. QED
    BY <2>1, <2>4, <2>5, <2>7
<1>7. now >= StartsAt(forced, p) - Preroll
  BY <1>4 DEF StartsDue, StartDue
<1>8. now >= EndsAt(forced, o) + Postroll /\ now >= StartsAt(forced, o) - Preroll
  BY <1>5, <1>6, <1>7
<1>9. Progress(1, o) # "pending"
  BY <1>4, <1>8 DEF StartsDue, StartDue
<1>10. Progress(1, o) # "started"
  BY <1>4, <1>8 DEF StopsDue, StopDue
<1>11. CASE Progress(1, o) = "stopped"
  <2>1. PICK s \in Seqs : KindOf(s) = "stopStreaming" /\ OutputOf(s) = o
    BY <1>4 DEF Turned, Undisturbed, WellPlanned
  <2>2. row[s] = "done"
    BY <1>4, <1>11, <2>1, ProgressIs DEF Turned, Undisturbed
  <2>3. QED
    BY <2>1, <2>2 DEF Through
<1>12. CASE Progress(1, o) = "failed"
  <2>1. PICK s \in Seqs : OutputOf(s) = o /\ row[s] = "failed"
    BY <1>4, <1>12, ProgressIs DEF Turned, Undisturbed
  <2>2. CASE run = "completing"
    BY <1>4, <2>2 DEF InStep, RunSays
  <2>3. CASE run # "completing"
    <3>1. run \in {"ready", "running"}
      BY <2>3, WindowStates
    <3>2. PhaseOf(s) # "complete"
      BY <2>1, <3>1 DEF InStep, RunSays, TerminalStates
    <3>3. KindOf(s) # "finalize"
      BY <3>2, StepsAre DEF Turned, Undisturbed
    <3>4. QED
      BY <2>1, <3>3 DEF Through
  <2>4. QED
    BY <2>2, <2>3
<1>13. QED
  BY <1>4, <1>9, <1>10, <1>11, <1>12, ProgressIs DEF Turned, Undisturbed

LEMMA StartsFitNext ==
  ASSUME Turned, Settled, InStep, Clean, forced \in Forced, [Next]_vars,
         NEW d \in Drivers, Work(d), StartsFit(d)
  PROVE  StartsFit(d)'
<1> SUFFICES ASSUME NEW p, p = drv'[d].out, InLoop(d)', drv'[d].job = "start",
                    NEW o \in Outputs, Before(o, p)
             PROVE  Through(o)'
  <2>1. PICK p : p = drv'[d].out
    OBVIOUS
  <2>2. \A o : Before(o, p)' <=> Before(o, p)
    BY DEF Before
  <2>3. QED
    BY <2>1, <2>2 DEF StartsFit
<1>1. CASE BeginStart(d)
  <2>1. InWindow(d) /\ StopsDue = {} /\ First(1, p, StartsDue) /\ p \in Live(1) /\ Active
    BY <1>1, BeginStartDoes DEF Turned, InWindow
  <2>2. p \in Outputs
    BY <2>1, EngineAssumption DEF Live, Versions
  <2>3. Through(o)
    BY <2>1, <2>2, ThroughBefore
  <2>4. run \notin {"scheduled", "preparing"}
    BY <2>1 DEF InWindow
  <2>5. QED
    BY <2>3, <2>4, ThroughStays DEF Turned
<1>2. CASE NextStep(d) \/ Call(d)
  <2>1. /\ Is(d, "loop") \/ Is(d, "call")
        /\ drv[d].job = "start" /\ drv[d].out = p
    BY <1>2, NextStepDoes, CallDoes DEF Turned
  <2>2. Through(o)
    BY <2>1 DEF StartsFit, InLoop, Is
  <2>3. run \notin {"scheduled", "preparing"}
    BY <2>1, JobIs, CallIs DEF Turned, Is
  <2>4. QED
    BY <2>2, <2>3, ThroughStays DEF Turned
<1>3. CASE TurnsOver(d)
  <2>1. TurnsRight(d)
    BY <1>3, TurnDoes DEF Turned
  <2>2. drv'[d].pc \notin {"loop", "call", "failed"} \/ drv'[d].job = "prepare"
    BY <2>1 DEF TurnsRight, ToRunUndo
  <2>3. QED
    BY <2>2 DEF InLoop
<1>4. CASE BeginFail(d) \/ BeginPrepare(d) \/ BeginStop(d) \/ BeginComplete(d) \/ MarkMissed(d)
           \/ (Undo(d) /\ ~UndoDone(d))
  <2>1. drv'[d].pc \in {"undo", "undoing", "next"} \/ drv'[d].job \in {"stop", "complete"}
    BY <1>4, BeginFailDoes, BeginPrepareDoes, BeginStopDoes, BeginCompleteDoes, MarkMissedDoes,
       UndoDoes DEF Turned
  <2>2. QED
    BY <2>1 DEF InLoop
<1>5. QED
  BY <1>1, <1>2, <1>3, <1>4, WorkIs

LEMMA TurnsTakenNext ==
  ASSUME Turned, Settled, InStep, Clean, forced \in Forced, [Next]_vars,
         \A d \in Drivers : StartsFit(d), TurnsTaken
  PROVE  TurnsTaken'
<1> SUFFICES ASSUME NEW o \in Outputs, NEW s \in Seqs, KindOf(s) = "applyStreamTarget",
                    Before(o, OutputOf(s)), row'[s] # "pending"
             PROVE  Through(o)'
  BY DEF TurnsTaken, KindOf, OutputOf, Before
<1>0. /\ PhaseOf(s) = "start" /\ OutputOf(s) \in Outputs /\ OutputOf(s) \in Live(1)
      /\ KindOf(s) # "prepare"
  BY StepsAre DEF Turned, Undisturbed
<1>1. CASE row[s] # "pending"
  <2>1. Through(o)
    BY <1>1 DEF TurnsTaken
  <2>2. run \notin {"scheduled", "preparing"}
    BY <1>0, <1>1 DEF InStep, RunSays
  <2>3. QED
    BY <2>1, <2>2, ThroughStays DEF Turned
<1>2. CASE row[s] = "pending"
  <2>1. row'[s] # row[s]
    BY <1>2
  <2>2. PICK d \in Drivers : Work(d)
    <3>1. ~Reconcile
      BY <1>2, <2>1, ReconcileIs DEF Turned
    <3>2. ~(Crash \/ Recovered \/ EditEvent \/ Clock \/ UNCHANGED vars)
      BY <2>1 DEF Crash, Recovered, EditEvent, Clock, vars, database
    <3>3. QED
      BY <3>1, <3>2, AloneSteps DEF Turned, Undisturbed
  <2>3. CASE NextStep(d)
    <3>1. Selected(d, s) /\ Is(d, "loop")
      BY <2>1, <2>3, NextStepDoes DEF Turned
    <3>2. drv[d].job = "start"
      BY <1>0, <3>1, JobIs DEF Selected, PhasesOf, Is, Turned
    <3>3. OutputOf(s) = drv[d].out
      BY <3>1, <3>2 DEF Selected
    <3>4. Through(o)
      BY <3>1, <3>2, <3>3 DEF StartsFit, InLoop, Is
    <3>5. run \notin {"scheduled", "preparing"}
      BY <3>1, <3>2, JobIs DEF Turned, Is
    <3>6. QED
      BY <3>4, <3>5, ThroughStays DEF Turned
  <2>4. CASE MarkMissed(d)
    <3>1. PICK p : p = drv'[d].out
      OBVIOUS
    <3>2. /\ InWindow(d) /\ StopsDue = {} /\ First(1, p, StartsDue)
          /\ row'[s] = IF OutputOf(s) = p /\ PhaseOf(s) = "start" /\ row[s] = "pending"
                         THEN "failed" ELSE row[s]
      BY <2>4, <3>1, MarkMissedDoes DEF Turned
    <3>3. OutputOf(s) = p
      BY <2>1, <3>2
    <3>4. Through(o)
      BY <1>0, <3>2, <3>3, ThroughBefore
    <3>5. run \notin {"scheduled", "preparing"}
      BY <3>2 DEF InWindow
    <3>6. QED
      BY <3>4, <3>5, ThroughStays DEF Turned
  <2>5. CASE Call(d)
    BY <1>2, <2>1, <2>5, CallDoes DEF Turned
  <2>6. CASE Undo(d) /\ ~UndoDone(d)
    BY <1>0, <2>1, <2>6, UndoDoes DEF Turned
  <2>7. QED
    BY <2>1, <2>2, <2>3, <2>4, <2>5, <2>6, WorkIs, BeginFailDoes, BeginPrepareDoes, BeginStopDoes,
       BeginStartDoes, BeginCompleteDoes, TurnDoes DEF Turned
<1>3. QED
  BY <1>1, <1>2

LEMMA PointFitsNext ==
  ASSUME Undisturbed, Settled, InStep, NEW d \in Drivers, Work(d) PROVE PointFits(d)'
<1> SUFFICES ASSUME drv'[d].pc = "call", drv'[d].call = "landed",
                    KindOf(drv[d].seq) = "applyStreamTarget", drv'[d].seq = drv[d].seq
             PROVE  encoder'[Device[OutputOf(drv[d].seq)]].target = drv'[d].arg
  <2>1. PICK s : s = drv'[d].seq
    OBVIOUS
  <2>2. drv'[d].pc = "call" /\ drv'[d].call = "landed" => s = drv[d].seq
    BY <2>1, LandsBy
  <2>3. QED
    BY <2>1, <2>2 DEF PointFits, Is, KindOf, OutputOf
<1>1. PointEncoder(d)
  BY LandsBy, EncoderCalls
<1>2. Device[OutputOf(drv[d].seq)] \in Devices /\ encoder \in [Devices -> [active : BOOLEAN, target : BroadcastId]]
  BY <1>1, EncoderCalls, StepsAre, EngineAssumption DEF Undisturbed, Settled, Served, WellTyped, TypeOK
<1>3. StepOf(d).output = OutputOf(drv[d].seq) /\ drv'[d].arg = drv[d].arg
  BY <1>1, EncoderCalls
<1>4. QED
  BY <1>1, <1>2, <1>3 DEF PointEncoder

\* What a prepared broadcast is known by changes with its row only.
LEMMA PreparedStays ==
  ASSUME Undisturbed, Settled, InStep, [Next]_vars, NEW s \in Seqs,
         row[s] = "done", row'[s] = "done"
  PROVE  ext'[s] = ext[s]
<1>1. ASSUME NEW d \in Drivers, Work(d) PROVE ext'[s] = ext[s]
  <2>1. CASE Call(d)
    BY <2>1, CallDoes
  <2>2. CASE Undo(d) /\ ~UndoDone(d)
    BY <2>2, UndoDoes
  <2>3. QED
    BY <1>1, <2>1, <2>2, WorkIs, BeginFailDoes, BeginPrepareDoes, BeginStopDoes, BeginStartDoes,
       BeginCompleteDoes, MarkMissedDoes, NextStepDoes, TurnDoes
<1>2. ASSUME Reconcile PROVE ext'[s] = ext[s]
  BY <1>2, ReconcileIs
<1>3. ASSUME Crash \/ Recovered \/ EditEvent \/ Clock \/ UNCHANGED vars PROVE ext'[s] = ext[s]
  BY <1>3 DEF Crash, Recovered, EditEvent, Clock, vars, database
<1>4. QED
  BY <1>1, <1>2, <1>3, AloneSteps DEF Undisturbed

\* The encoder of an output that is pointed, and not through, is pointed at no other.
LEMMA NotPointedAway ==
  ASSUME Turned, Settled, InStep, Clean, TurnsTaken, NEW d \in Drivers, StartsFit(d),
         PointEncoder(d), NEW s \in Seqs, KindOf(s) = "applyStreamTarget", row[s] = "done",
         ~Through(OutputOf(s))
  PROVE  Device[StepOf(d).output] # Device[OutputOf(s)]
<1> DEFINE q == drv[d].seq
<1>1. /\ Is(d, "call") /\ q \in Seqs /\ row[q] = "running" /\ KindOf(q) = "applyStreamTarget"
      /\ StepOf(d).output = OutputOf(q)
  BY EncoderCalls DEF Turned
<1>2. Selected(d, q) /\ drv[d].job \in {"prepare", "start", "stop", "complete"}
  BY <1>1, CallIs DEF Turned
<1>3. PhaseOf(q) = "start"
  BY <1>1, StepsAre DEF Turned, Undisturbed
<1>4. drv[d].job = "start" /\ OutputOf(q) = drv[d].out
  BY <1>2, <1>3 DEF Selected, PhasesOf
<1>5. OutputOf(q) # OutputOf(s)
  BY <1>1 DEF Turned, Undisturbed, WellPlanned
<1>6. /\ OutputOf(q) \in Live(1) /\ OutputOf(s) \in Live(1)
      /\ OutputOf(q) \in Outputs /\ OutputOf(s) \in Outputs
  BY <1>1, StepsAre DEF Turned, Undisturbed
<1>7. ~Before(OutputOf(s), OutputOf(q))
  BY <1>1, <1>4, <1>6 DEF StartsFit, InLoop, Is
<1>8. ~Before(OutputOf(q), OutputOf(s))
  <2> SUFFICES ASSUME Through(OutputOf(q)) PROVE FALSE
    BY <1>6 DEF TurnsTaken
  <2>1. PICK u \in Seqs : /\ OutputOf(u) = OutputOf(q)
                          /\ \/ KindOf(u) = "stopStreaming" /\ row[u] = "done"
                             \/ row[u] = "failed"
    BY DEF Through
  <2>2. row[u] # "failed"
    BY <1>1, <1>4, <2>1 DEF Clean, CleanFits, Is
  <2>3. PICK v \in Seqs : KindOf(v) = "startStreaming" /\ OutputOf(v) = OutputOf(q)
    BY <1>6 DEF Turned, Undisturbed, WellPlanned
  <2>4. row[v] = "done"
    BY <2>1, <2>2, <2>3 DEF InStep, RowOrder
  <2>5. Made(q)
    BY <1>1, <2>3, <2>4 DEF InStep, RowOrder, Precede
  <2>6. QED
    BY <1>1, <2>5 DEF Made
<1>9. QED
  BY <1>1, <1>5, <1>6, <1>7, <1>8, OneIsBefore

LEMMA PointedNext ==
  ASSUME Turned, Settled, InStep, Clean, TurnsTaken, \A d \in Drivers : StartsFit(d) /\ PointFits(d),
         Pointed, [Next]_vars
  PROVE  Pointed'
<1> SUFFICES ASSUME NEW s \in Seqs, KindOf(s) = "applyStreamTarget", row'[s] = "done",
                    \A t \in Seqs : OutputOf(t) = OutputOf(s) => row'[t] # "compensated",
                    NEW o, o = OutputOf(s), ~Through(o)'
             PROVE  encoder'[Device[o]].target = PreparedId(o)'
  BY DEF Pointed, KindOf, OutputOf
<1>0. /\ KindOf(s) # "prepare" /\ PhaseOf(s) # "prepare" /\ o \in Outputs /\ Device[o] \in Devices
      /\ row \in [Seqs -> StepState]
      /\ encoder \in [Devices -> [active : BOOLEAN, target : BroadcastId]]
  BY StepsAre, EngineAssumption DEF Turned, Undisturbed, Settled, Served, WellTyped, TypeOK
<1>1. CASE row[s] = "done"
  <2>1. run \notin {"scheduled", "preparing"}
    BY <1>0, <1>1 DEF InStep, RunSays
  <2>2. ~Through(o)
    BY <2>1, ThroughStays DEF Turned
  <2>3. \A t \in Seqs : OutputOf(t) = OutputOf(s) => row[t] # "compensated"
    BY RowsWritten DEF Made, Settled, Served, Turned, Undisturbed
  <2>4. encoder[Device[o]].target = PreparedId(o)
    BY <1>1, <2>2, <2>3 DEF Pointed
  <2>5. PreparedId(o)' = PreparedId(o)
    <3>1. ASSUME NEW t \in Seqs, KindOf(t) = "prepare", OutputOf(t) = o
          PROVE  row[t] = "done" /\ row'[t] = "done"
      <4>1. Made(t)
        BY <1>1, <3>1 DEF InStep, RowOrder, Precede
      <4>2. row[t] = "done"
        BY <2>3, <3>1, <4>1 DEF Made
      <4>3. row'[t] # "compensated"
        BY <3>1
      <4>4. QED
        BY <4>2, <4>3, RowsWritten DEF Made, Settled, Served, Turned, Undisturbed
    <3>2. \A t \in Seqs : KindOf(t) = "prepare" /\ OutputOf(t) = o => ext'[t] = ext[t]
      BY <3>1, PreparedStays DEF Turned
    <3>3. QED
      BY <3>1, <3>2, PreparedSame
  <2>6. encoder'[Device[o]].target = encoder[Device[o]].target
    <3>1. ASSUME NEW d \in Drivers, Work(d) PROVE encoder'[Device[o]].target = encoder[Device[o]].target
      <4>1. CASE PointEncoder(d)
        <5>1. Device[StepOf(d).output] # Device[o]
          BY <1>1, <2>2, <4>1, NotPointedAway
        <5>2. QED
          BY <1>0, <4>1, <5>1 DEF PointEncoder
      <4>2. CASE StartEncoder(d) \/ StopEncoder(d)
        BY <1>0, <4>2 DEF StartEncoder, StopEncoder
      <4>3. QED
        BY <3>1, <4>1, <4>2, EncoderDoes DEF Turned
    <3>2. ASSUME Crash \/ Reconcile \/ Recovered \/ EditEvent \/ Clock \/ UNCHANGED vars
          PROVE  encoder' = encoder
      BY <3>2 DEF Crash, Reconcile, Recovered, EditEvent, Clock, vars, world
    <3>3. QED
      BY <3>1, <3>2, AloneSteps DEF Turned, Undisturbed
  <2>7. QED
    BY <2>4, <2>5, <2>6
<1>2. CASE row[s] # "done"
  <2>1. PICK d \in Drivers : Work(d)
    <3>1. ~Reconcile
      BY <1>0, <1>2, ReconcileIs DEF Turned
    <3>2. ~(Crash \/ Recovered \/ EditEvent \/ Clock \/ UNCHANGED vars)
      BY <1>2 DEF Crash, Recovered, EditEvent, Clock, vars, database
    <3>3. QED
      BY <3>1, <3>2, AloneSteps DEF Turned, Undisturbed
  <2>2. CallOk(d) /\ Is(d, "call") /\ s = drv[d].seq
    BY <1>0, <1>2, <2>1, RowDoes DEF Turned
  <2>3. Call(d) /\ drv[d].call = "landed" /\ encoder' = encoder
    BY <2>2 DEF Call, CallOk, world
  <2>4. encoder[Device[o]].target = drv[d].arg
    BY <2>2, <2>3 DEF PointFits
  <2>5. drv[d].arg = PreparedId(o)
    BY <2>2 DEF InStep, LoopFits
  <2>6. PreparedId(o)' = PreparedId(o)
    <3>1. \A t \in Seqs : t # s => row'[t] = row[t] /\ ext'[t] = ext[t]
      BY <2>2, <2>3, CallDoes DEF Turned
    <3>2. QED
      BY <1>0, <3>1, PreparedSame
  <2>7. QED
    BY <2>3, <2>4, <2>5, <2>6
<1>3. QED
  BY <1>1, <1>2

\* Who prepares has seen nothing but failures until one output is prepared.
LEMMA PrepareFitsNext ==
  ASSUME Undisturbed, Settled, InStep, Clean', NEW d \in Drivers, Work(d), PrepareFits(d)
  PROVE  PrepareFits(d)'
<1> DEFINE Tried(o) == \E s \in Seqs : KindOf(s) = "prepare" /\ OutputOf(s) = o /\ row[s] = "failed"
<1>1. CASE BeginFail(d) \/ BeginStop(d) \/ BeginStart(d) \/ BeginComplete(d) \/ MarkMissed(d)
  <2>1. drv'[d].job # "prepare"
    BY <1>1, BeginFailDoes, BeginStopDoes, BeginStartDoes, BeginCompleteDoes, MarkMissedDoes
  <2>2. QED
    BY <2>1 DEF PrepareFits
<1>2. CASE BeginPrepare(d)
  BY <1>2, BeginPrepareDoes DEF PrepareFits, Undoing, Live
<1>3. CASE NextStep(d)
  <2>1. PICK s \in Seqs : Selected(d, s) /\ \A t \in Seqs : t # s => row'[t] = row[t]
    BY <1>3, NextStepDoes
  <2>2. /\ Is(d, "loop") /\ drv'[d].pc = "call" /\ drv'[d].job = drv[d].job /\ drv'[d].out = drv[d].out
        /\ drv'[d].queue = drv[d].queue /\ drv'[d].good = drv[d].good
    BY <1>3, NextStepDoes
  <2>3. QED
    BY <2>1, <2>2 DEF PrepareFits, Selected, InLoop, Undoing, Is, KindOf, OutputOf, Live
<1>4. CASE Call(d)
  <2>1. PICK s \in Seqs : s = drv[d].seq /\ row[s] = "running" /\ Selected(d, s)
    BY <1>4, InACall, CallIs
  <2>2. /\ Is(d, "call") /\ drv'[d].job = drv[d].job /\ drv'[d].out = drv[d].out
        /\ drv'[d].queue = drv[d].queue /\ drv'[d].good = drv[d].good
        /\ \A t \in Seqs : t # s => row'[t] = row[t]
        /\ drv'[d].pc \in {"call", "loop"} \/ (drv'[d].pc = "failed" /\ row'[s] = "failed")
    BY <1>4, <2>1, CallDoes
  <2>3. drv[d].job = "prepare" => KindOf(s) = "prepare" /\ OutputOf(s) = drv[d].out
    BY <2>1, StepsAre DEF Selected, PhasesOf, Undisturbed
  <2>4. QED
    BY <2>1, <2>2, <2>3 DEF PrepareFits, InLoop, Undoing, Is, KindOf, OutputOf, Live
<1>5. CASE Undo(d) /\ ~UndoDone(d)
  <2>1. Undoing(d) /\ drv'[d].job = drv[d].job /\ (drv[d].todo # {} \/ Is(d, "undoing"))
    BY <1>5, UndoDoes
  <2>2. drv[d].job # "prepare"
    BY <2>1 DEF PrepareFits, Is
  <2>3. QED
    BY <2>1, <2>2 DEF PrepareFits
<1>6. CASE TurnsOver(d)
  <2>0. TurnsRight(d) /\ row' = row
    BY <1>6, TurnDoes
  <2>1. CASE \/ drv'[d].pc \in {"idle", "step", "settle"}
             \/ drv'[d].job # "prepare"
             \/ drv'[d].pc = "next" /\ drv'[d].good
    BY <2>1 DEF PrepareFits, InLoop, Undoing, Is
  <2>2. CASE /\ Is(d, "next") /\ ~drv[d].good /\ drv[d].queue = {} /\ drv[d].job = "prepare"
             /\ ToRunUndo(d)
    <3>1. \A o \in Live(1) : Tried(o)
      BY <2>2 DEF PrepareFits, Is
    <3>2. drv'[d].todo = {}
      <4> SUFFICES ASSUME NEW s \in ToUndo(1, Outputs) PROVE FALSE
        BY <2>2 DEF ToRunUndo
      <4>1. s \in Seqs /\ row[s] = "done" /\ KindOf(s) = "prepare"
        BY ToUndoIs
      <4>2. QED
        BY <3>1, <4>1, StepsAre DEF Undisturbed, WellPlanned
    <3>3. QED
      BY <2>0, <2>2, <3>1, <3>2 DEF PrepareFits, ToRunUndo, InLoop, Undoing, Is, KindOf, OutputOf, Live
  <2>3. CASE /\ Is(d, "failed") /\ drv'[d].pc = "undo" /\ drv'[d].why = "output"
             /\ drv'[d].job = drv[d].job /\ drv'[d].out = drv[d].out
             /\ drv'[d].queue = drv[d].queue /\ drv'[d].good = drv[d].good
    <3>1. drv'[d].job = "prepare" => drv'[d].todo = {}
      BY <2>3 DEF Clean, CleanFits, Undoing, Is
    <3>2. QED
      BY <2>0, <2>3, <3>1 DEF PrepareFits, InLoop, Undoing, Is, KindOf, OutputOf, Live
  <2>4. CASE /\ Is(d, "next") /\ drv[d].job = "prepare" /\ drv'[d].pc = "loop"
             /\ drv'[d].out \in drv[d].queue /\ drv'[d].queue = drv[d].queue \ {drv'[d].out}
             /\ drv'[d].good = drv[d].good
    BY <2>0, <2>4 DEF PrepareFits, InLoop, Undoing, Is, KindOf, OutputOf, Live
  <2>5. CASE /\ Undoing(d) /\ drv[d].job = "prepare" /\ drv'[d].pc = "next"
             /\ drv'[d].queue = drv[d].queue /\ drv'[d].good = drv[d].good
    BY <2>0, <2>5 DEF PrepareFits, InLoop, Undoing, Is, KindOf, OutputOf, Live
  <2>6. QED
    BY <2>0, <2>1, <2>2, <2>3, <2>4, <2>5 DEF TurnsRight, ToRunUndo
<1>7. QED
  BY <1>1, <1>2, <1>3, <1>4, <1>5, <1>6, WorkIs

LEMMA WorkKeepsTime == ASSUME NEW d \in Drivers, Work(d) PROVE now' = now
BY DEF Work, Pass, StopPass, BeginFail, BeginPrepare, Prepares, BeginStop, MarkMissed, BeginStart,
   BeginComplete, Call, LookForBroadcast, CreateBroadcast, PointEncoder, StartEncoder, StopEncoder,
   CloseBroadcast, CallOk, Fault, NoTarget, CallFailed, Undo, UndoStep, DiscardBroadcast, UndoOk,
   UndoFault, Undone, UndoDone, NextStep, LoopDone, StepFailed, NextOutput, OutputsDone, Settle

\* Undoing what was prepared is no progress and no regress.
LEMMA ProgressSame ==
  ASSUME Settled, WellPlanned, NEW o \in Live(1),
         \A s \in Seqs : \/ row'[s] = row[s]
                         \/ KindOf(s) = "prepare" /\ row[s] = "done" /\ row'[s] = "compensated"
  PROVE  Progress(1, o)' = Progress(1, o)
<1>1. /\ MineIn(1, o, "start")' = MineIn(1, o, "start") /\ MineIn(1, o, "stop")' = MineIn(1, o, "stop")
      /\ Mine(1, o)' = Mine(1, o)
  BY DEF MineIn, Mine
<1>2. \A s : RowIs(s, "failed")' <=> RowIs(s, "failed")
  BY DEF RowIs
<1>3. ASSUME NEW ph \in {"start", "stop"}, NEW s \in MineIn(1, o, ph)
      PROVE  RowIs(s, "done")' <=> RowIs(s, "done")
  <2>1. s \in Seqs => KindOf(s) # "prepare"
    BY <1>3, MineAre, StepsAre
  <2>2. QED
    BY <2>1 DEF RowIs
<1>4. QED
  BY <1>1, <1>2, <1>3 DEF Progress

\* A window that was missed stays missed.
LEMMA MissedStays ==
  ASSUME Undisturbed, Settled, MissedItsWindow, version' = version, forced' = forced,
         now' \in {now, now + 1},
         \A s \in Seqs : \/ row'[s] = row[s]
                         \/ KindOf(s) = "prepare" /\ row[s] = "done" /\ row'[s] = "compensated"
  PROVE  MissedItsWindow'
<1>1. version = 1 /\ now \in Int
  BY PlanIsCommitted, EngineAssumption DEF Settled, Served, WellTyped, TypeOK
<1>2. ASSUME NEW p \in Live(1)
      PROVE  Progress(1, p)' = "pending" /\ now' > StartsAt(forced, p) + Grace
  <2>1. Progress(1, p) = "pending" /\ now > StartsAt(forced, p) + Grace
    BY <1>1 DEF MissedItsWindow
  <2>2. Progress(1, p)' = "pending"
    BY <2>1, ProgressSame DEF Undisturbed
  <2>3. StartsAt(forced, p) + Grace \in Int
    <3>1. p \in Outputs
      BY EngineAssumption DEF Live, Versions
    <3>2. Offset[p] \in Nat /\ ScheduledStart \in Nat /\ Grace \in Nat
      BY <3>1, TimelineAssumption
    <3>3. QED
      BY <3>2 DEF StartsAt, WindowStart
  <2>4. QED
    BY <1>1, <2>1, <2>2, <2>3
<1>3. Live(version)' = Live(1) /\ version' = 1
  BY <1>1 DEF Live
<1>4. QED
  BY <1>2, <1>3 DEF MissedItsWindow, StartsAt, WindowStart

\* Nothing starts while every output has missed its window: the run is failed.
LEMMA AbandonedStays ==
  ASSUME Undisturbed, Settled, InStep, [Next]_vars, Active, Abandoned,
         NEW o \in Live(1)
  PROVE  Abandoned' /\ \A s \in Seqs : row'[s] = row[s] \/ KindOf(s) = "prepare"
<1>0. Doomed /\ version = 1
  BY PlanIsCommitted DEF Abandoned, Doomed
<1>1. run # "completing"
  BY <1>0, CompletingIsThrough DEF Abandoned, MissedItsWindow, Undisturbed
<1>2. ASSUME NEW d \in Drivers, Work(d)
      PROVE  /\ \A s \in Seqs : \/ row'[s] = row[s]
                                \/ KindOf(s) = "prepare" /\ row[s] = "done" /\ row'[s] = "compensated"
             /\ drv'[d].job \notin {"prepare", "start", "stop"} /\ UNCHANGED <<now, version>>
  <2>1. ~BeginPrepare(d) /\ ~BeginStop(d) /\ ~BeginStart(d) /\ ~MarkMissed(d) /\ ~BeginComplete(d)
    BY <1>0 DEF BeginPrepare, BeginStop, BeginStart, MarkMissed, BeginComplete, InWindow
  <2>2. drv[d].job \notin {"prepare", "start", "stop"}
    BY DEF Abandoned
  <2>3. ~Is(d, "call") /\ ~Is(d, "loop") /\ ~Is(d, "failed")
    BY <1>1, <2>2, CallIs, JobIs DEF Is
  <2>4. ~NextStep(d) /\ ~Call(d)
    BY <2>3, InACall DEF NextStep
  <2>5. UNCHANGED <<now, version>>
    BY <1>2, WorkKeepsVersion, WorkKeepsTime
  <2>6. CASE BeginFail(d)
    BY <2>5, <2>6, BeginFailDoes
  <2>7. CASE Undo(d) /\ ~UndoDone(d)
    <3>1. drv'[d].job = drv[d].job
      BY <2>7, UndoDoes
    <3>2. \A s \in Seqs : \/ row'[s] = row[s]
                          \/ KindOf(s) = "prepare" /\ row[s] = "done" /\ row'[s] = "compensated"
      BY <2>7, UndoDoes
    <3>3. QED
      BY <2>2, <2>5, <3>1, <3>2
  <2>8. CASE TurnsOver(d)
    <3>1. TurnsRight(d) /\ row' = row
      BY <2>8, TurnDoes
    <3>2. drv'[d].job \in {"none", "complete", drv[d].job}
      BY <2>2, <2>3, <3>1 DEF TurnsRight, ToRunUndo
    <3>3. QED
      BY <2>2, <2>5, <3>1, <3>2
  <2>9. QED
    BY <1>2, <2>1, <2>4, <2>6, <2>7, <2>8, WorkIs
<1>3. ASSUME Crash \/ Reconcile \/ Recovered \/ Clock \/ UNCHANGED vars
      PROVE  /\ row' = row /\ UNCHANGED version /\ now' \in {now, now + 1}
             /\ \A d \in Drivers : drv'[d].job \notin {"prepare", "start", "stop"}
  <2>1. ~Reconcile
    BY ReconcileIs DEF Abandoned
  <2>2. now \in Nat
    BY EngineAssumption DEF Settled, Served, WellTyped, TypeOK
  <2>3. QED
    BY <1>3, <2>1, <2>2 DEF Crash, IdleDriver, Recovered, Clock, vars, database, Abandoned
<1>4. ~EditEvent
  BY DEF EditEvent, Settled, Known, Unedited
<1>5. /\ \A s \in Seqs : \/ row'[s] = row[s]
                         \/ KindOf(s) = "prepare" /\ row[s] = "done" /\ row'[s] = "compensated"
      /\ \A d \in Drivers : drv'[d].job \notin {"prepare", "start", "stop"}
      /\ version' = version /\ now' \in {now, now + 1}
  <2>1. CASE \E d \in Drivers : Work(d)
    <3>1. PICK d \in Drivers : Work(d)
      BY <2>1
    <3>2. \A e \in Drivers : drv'[e].job \notin {"prepare", "start", "stop"}
      BY <1>2, <3>1, OnlyOne DEF Undisturbed
    <3>3. now \in Nat
      BY EngineAssumption DEF Settled, Served, WellTyped, TypeOK
    <3>4. QED
      BY <1>2, <3>1, <3>2, <3>3
  <2>2. CASE Crash \/ Reconcile \/ Recovered \/ Clock \/ UNCHANGED vars
    BY <1>3, <2>2
  <2>3. QED
    BY <1>4, <2>1, <2>2, AloneSteps DEF Undisturbed
<1>6. MissedItsWindow'
  BY <1>0, <1>5, MissedStays, ForcedStays DEF Abandoned
<1>7. QED
  BY <1>5, <1>6 DEF Abandoned

-----------------------------------------------------------------------------
(* What is undone is lost *)

LEMMA LostStays ==
  ASSUME Undisturbed, Settled, InStep, Clean, [Next]_vars, NEW o \in Live(1), Lost(o) PROVE Lost(o)'
<1>1. CASE StartFailed(o)
  BY <1>1, StartFailedStays DEF Lost
<1>2. ASSUME NEW s \in Seqs, OutputOf(s) = o, KindOf(s) = "stopStreaming", row[s] \in {"done", "failed"}
      PROVE  Lost(o)'
  <2>1. PhaseOf(s) # "prepare"
    BY <1>2, StepsAre DEF Undisturbed
  <2>2. run \notin {"scheduled", "preparing"}
    BY <1>2, <2>1 DEF InStep, RunSays
  <2>3. row'[s] = row[s]
    BY <1>2, <2>2, RowStands
  <2>4. QED
    BY <1>2, <2>3 DEF Lost, KindOf, OutputOf
<1>3. CASE \A s \in Seqs : OutputOf(s) = o /\ KindOf(s) = "startStreaming" => row[s] # "done"
  <2> SUFFICES ASSUME ~Active \/ Abandoned,
                      \A s \in Seqs : row'[s] = row[s] \/ KindOf(s) = "prepare",
                      Active' => Abandoned'
               PROVE  Lost(o)'
    <3>1. CASE ~Active
      <4>1. run' = run
        BY <3>1, RunMoves DEF Settled, Served
      <4>2. ASSUME NEW d \in Drivers, Work(d)
            PROVE  \A s \in Seqs : row'[s] = row[s] \/ KindOf(s) = "prepare"
        BY <3>1, <4>2, WorkMarks
      <4>3. ASSUME Crash \/ Reconcile \/ Recovered \/ EditEvent \/ Clock \/ UNCHANGED vars
            PROVE  row' = row
        BY <3>1, <4>3 DEF Crash, Reconcile, Recovered, EditEvent, Clock, vars, database
      <4>4. \A s \in Seqs : row'[s] = row[s] \/ KindOf(s) = "prepare"
        BY <4>2, <4>3, AloneSteps DEF Undisturbed
      <4>5. ~Active'
        BY <3>1, <4>1 DEF Active, IsTerminal
      <4>6. QED
        BY <3>1, <4>4, <4>5
    <3>2. CASE Active /\ Abandoned
      BY <3>2, AbandonedStays
    <3>3. QED
      BY <1>1, <1>2, <3>1, <3>2 DEF Lost
  <2>1. \A s \in Seqs : OutputOf(s) = o /\ KindOf(s) = "startStreaming" => row'[s] # "done"
    BY <1>3
  <2>2. QED
    BY <2>1 DEF Lost, KindOf, OutputOf
<1>4. QED
  BY <1>1, <1>2, <1>3 DEF Lost

\* A prepared output that the run is through with is lost.
LEMMA ThroughLost ==
  ASSUME Undisturbed, NEW s \in Seqs, KindOf(s) = "prepare", row[s] = "done", Through(OutputOf(s))
  PROVE  Lost(OutputOf(s))
<1>1. PICK u \in Seqs : /\ OutputOf(u) = OutputOf(s)
                        /\ \/ KindOf(u) = "stopStreaming" /\ row[u] = "done"
                           \/ KindOf(u) # "finalize" /\ row[u] = "failed"
  BY DEF Through
<1>2. KindOf(u) = "prepare" => u = s
  BY <1>1 DEF Undisturbed, WellPlanned
<1>3. CASE KindOf(u) = "stopStreaming"
  BY <1>1, <1>3 DEF Lost
<1>4. CASE KindOf(u) \in {"applyStreamTarget", "startStreaming"}
  BY <1>1, <1>4, StepsAre DEF Lost, StartFailed, Undisturbed
<1>5. QED
  BY <1>1, <1>2, <1>3, <1>4, StepsAre DEF StepKind, Undisturbed

\* So is everything, when the run is failed for having missed its window.
LEMMA DoomedLost ==
  ASSUME Undisturbed, Settled, InStep, [Next]_vars, NEW d \in Drivers, BeginFail(d),
         NEW s \in Seqs
  PROVE  Lost(OutputOf(s))'
<1>1. /\ UNCHANGED <<row, run>> /\ Ready(d) /\ Active /\ Doomed /\ drv'[d].job = "none"
  BY BeginFailDoes
<1>2. version = 1 /\ ~Drifted /\ OutputOf(s) \in Live(1)
  BY PlanIsCommitted, StepsAre DEF Drifted, Committed, Seqs, Undisturbed
<1>3. MissedItsWindow
  BY <1>1, <1>2 DEF Doomed, Live
<1>4. MissedItsWindow'
  <2>1. now' = now /\ version' = version /\ forced' = forced
    BY DEF BeginFail, database
  <2>2. QED
    BY <1>1, <1>3, <2>1, MissedStays
<1>5. Abandoned'
  <2>1. \A t \in Seqs : row'[t] # "running"
    BY <1>1, PassFresh DEF Undisturbed
  <2>2. \A e \in Drivers : drv'[e].job \notin {"prepare", "start", "stop"}
    BY <1>1, OnlyOne DEF Undisturbed
  <2>3. QED
    BY <1>4, <2>1, <2>2 DEF Abandoned
<1>6. ASSUME NEW t \in Seqs, OutputOf(t) = OutputOf(s), KindOf(t) = "startStreaming"
      PROVE  row'[t] # "done"
  <2>1. Progress(1, OutputOf(t)) = "pending"
    BY <1>2, <1>3, <1>6 DEF MissedItsWindow
  <2>2. QED
    BY <1>1, <1>6, <2>1, NotYetStarted
<1>7. QED
  BY <1>5, <1>6 DEF Lost, OutputOf, KindOf

LEMMA CompensatesBy ==
  ASSUME Undisturbed, Settled, InStep, [Next]_vars, NEW s \in Seqs, row'[s] = "compensated",
         row[s] # "compensated"
  PROVE  \E d \in Drivers : Is(d, "undoing") /\ s = drv[d].seq
<1>1. ASSUME NEW d \in Drivers, Work(d) PROVE Is(d, "undoing") /\ s = drv[d].seq
  <2>1. CASE Undo(d) /\ ~UndoDone(d)
    BY <2>1, UndoDoes
  <2>2. ~NextStep(d)
    BY NextStepDoes
  <2>3. ~Call(d)
    BY CallDoes
  <2>4. ~MarkMissed(d)
    BY MarkMissedDoes
  <2>5. QED
    BY <1>1, <2>1, <2>2, <2>3, <2>4, WorkIs, BeginFailDoes, BeginPrepareDoes, BeginStopDoes,
       BeginStartDoes, BeginCompleteDoes, TurnDoes
<1>2. ~Reconcile
  BY ReconcileIs
<1>3. ~(Crash \/ Recovered \/ EditEvent \/ Clock \/ UNCHANGED vars)
  BY DEF Crash, Recovered, EditEvent, Clock, vars, database
<1>4. QED
  BY <1>1, <1>2, <1>3, AloneSteps DEF Undisturbed

LEMMA UndoesLost ==
  ASSUME Undisturbed, Settled, InStep, Clean, [Next]_vars, Clean', InStep', UndoneLost,
         NEW d \in Drivers, Work(d), PrepareFits(d)', NEW s \in Seqs, Undoes(d, s)'
  PROVE  Lost(OutputOf(s))'
<1> DEFINE o == OutputOf(s)
<1>0. o \in Live(1) /\ OutputOf(s)' = o
  BY StepsAre DEF Undisturbed, OutputOf
<1>1. CASE drv'[d].why = "output"
  <2>1. PICK p : p = drv'[d].out
    OBVIOUS
  <2>2. StartFailed(p)'
    BY <1>1, <2>1 DEF Clean, CleanFits, Undoes, Undoing, Is, StartFailed, OutputOf, PhaseOf
  <2>3. o = p
    BY <1>1, <2>1 DEF InStep, UndoFits, Undoes, Undoing, Is, OutputOf
  <2>4. QED
    BY <2>2, <2>3 DEF Lost, OutputOf
<1>2. CASE BeginFail(d)
  BY <1>2, DoomedLost
<1>3. CASE Undo(d) /\ ~UndoDone(d)
  <2>1. Undoes(d, s)
    BY <1>3, UndoDoes DEF Undoes, Undoing, Is
  <2>2. Lost(o)
    BY <2>1 DEF UndoneLost
  <2>3. Lost(o)'
    BY <1>0, <2>2, LostStays
  <2>4. QED
    BY <2>3 DEF OutputOf
<1>4. CASE TurnsOver(d) /\ drv'[d].why # "output"
  <2>1. TurnsRight(d)
    BY <1>4, TurnDoes
  <2>2. ToRunUndo(d) /\ (run = "completing" \/ drv[d].job = "prepare")
    BY <1>4, <2>1 DEF TurnsRight, Undoes, Undoing, Is
  <2>3. s \in ToUndo(1, Outputs) /\ drv'[d].job # "prepare"
    BY <2>2 DEF ToRunUndo, PrepareFits, Undoes, Undoing, Is
  <2>4. row[s] = "done" /\ KindOf(s) = "prepare" /\ run = "completing"
    BY <2>2, <2>3, ToUndoIs DEF ToRunUndo
  <2>5. Through(o)
    BY <1>0, <2>4 DEF InStep, RunSays
  <2>6. Lost(o)
    BY <2>4, <2>5, ThroughLost
  <2>7. Lost(o)'
    BY <1>0, <2>6, LostStays
  <2>8. QED
    BY <2>7 DEF OutputOf
<1>5. drv'[d].pc \in {"undo", "undoing"}
  BY DEF Undoes, Undoing, Is
<1>6. QED
  BY <1>1, <1>2, <1>3, <1>4, <1>5, WorkIs, BeginPrepareDoes, BeginStopDoes, BeginStartDoes,
     BeginCompleteDoes, MarkMissedDoes, NextStepDoes, CallDoes

LEMMA UndoneLostNext ==
  ASSUME Undisturbed, Settled, InStep, Clean, [Next]_vars, Clean', InStep', UndoneLost,
         \A d \in Drivers : PrepareFits(d)'
  PROVE  UndoneLost'
<1>1. ASSUME NEW s \in Seqs, Lost(OutputOf(s)) PROVE Lost(OutputOf(s))'
  <2>1. PICK o \in Live(1) : o = OutputOf(s)
    BY StepsAre DEF Undisturbed
  <2>2. Lost(o)'
    BY <1>1, <2>1, LostStays
  <2>3. QED
    BY <2>1, <2>2 DEF OutputOf
<1>2. ASSUME NEW s \in Seqs, row'[s] = "compensated" PROVE Lost(OutputOf(s))'
  <2>1. row[s] = "compensated" \/ \E d \in Drivers : Undoes(d, s)
    BY <1>2, CompensatesBy DEF Undoes, Undoing, Is
  <2>2. QED
    BY <1>1, <2>1 DEF UndoneLost
<1>3. ASSUME NEW s \in Seqs, NEW d \in Drivers, Undoes(d, s)' PROVE Lost(OutputOf(s))'
  <2>1. CASE \E e \in Drivers : Work(e)
    BY <1>3, <2>1, UndoesLost, OnlyOne DEF Undisturbed
  <2>2. CASE Crash
    BY <1>3, <2>2 DEF Crash, IdleDriver, Undoes, Undoing, Is
  <2>3. CASE Reconcile \/ Recovered \/ Clock \/ UNCHANGED vars
    <3>1. drv' = drv
      BY <2>3 DEF Reconcile, Recovered, Clock, vars
    <3>2. Undoes(d, s)
      BY <1>3, <3>1 DEF Undoes, Undoing, Is
    <3>3. QED
      BY <1>1, <3>2 DEF UndoneLost
  <2>4. ~EditEvent
    BY DEF EditEvent, Settled, Known, Unedited
  <2>5. QED
    BY <2>1, <2>2, <2>3, <2>4, AloneSteps DEF Undisturbed
<1>4. QED
  BY <1>2, <1>3 DEF UndoneLost

-----------------------------------------------------------------------------
(* One after the other *)

LEMMA InTurnInit == ASSUME Undisturbed, Init PROVE forced \in Forced /\ InTurn
<1>1. /\ \A s \in Seqs : row[s] = "pending"
      /\ \A d \in Drivers : drv[d].pc = "idle"
  BY DEF Init, IdleDriver
<1>2. \A d \in Drivers : StartsFit(d) /\ PointFits(d) /\ PrepareFits(d)
  BY <1>1 DEF StartsFit, PointFits, PrepareFits, InLoop, Undoing, Is
<1>3. TurnsTaken /\ Pointed /\ UndoneLost
  BY <1>1 DEF TurnsTaken, Pointed, UndoneLost, Undoes, Undoing, Is
<1>4. QED
  BY <1>2, <1>3 DEF InTurn, Init

\* While no driver works, each is where it was, or nowhere.
LEMMA DriversWait ==
  ASSUME Undisturbed, Settled, InStep, Clean, InTurn, [Next]_vars,
         Crash \/ Reconcile \/ Recovered \/ Clock \/ UNCHANGED vars, NEW d \in Drivers
  PROVE  StartsFit(d)' /\ PointFits(d)' /\ PrepareFits(d)'
<1>1. CASE drv'[d].pc = "idle"
  BY <1>1 DEF StartsFit, PointFits, PrepareFits, InLoop, Undoing, Is
<1>2. CASE drv' = drv /\ row' = row /\ encoder' = encoder
  <2>1. PrepareFits(d)'
    BY <1>2 DEF InTurn, PrepareFits, InLoop, Undoing, Is, KindOf, OutputOf, Live
  <2>2. PointFits(d)'
    BY <1>2 DEF InTurn, PointFits, Is, KindOf, OutputOf
  <2>3. StartsFit(d)'
    BY <1>2 DEF InTurn, StartsFit, InLoop, Before, Through, KindOf, OutputOf
  <2>4. QED
    BY <2>1, <2>2, <2>3
<1>3. CASE Crash
  BY <1>1, <1>3 DEF Crash, IdleDriver
<1>4. CASE Reconcile \/ Recovered
  <2>1. drv'[d].pc = "idle"
    BY <1>4 DEF Reconcile, Recovered, Settled, Served, RecoversAlone, AllIdle, Is
  <2>2. QED
    BY <1>1, <2>1
<1>5. QED
  BY <1>2, <1>3, <1>4 DEF Clock, vars, database, world

LEMMA InTurnNext ==
  ASSUME Turned, Settled, InStep, Clean, forced \in Forced, InTurn, [Next]_vars
  PROVE  (forced \in Forced /\ InTurn)'
<1>1. InStep' /\ Clean' /\ forced' = forced
  BY InStepNext, CleanNext, ForcedStays DEF Turned
<1>2. ASSUME NEW d \in Drivers PROVE StartsFit(d)' /\ PointFits(d)' /\ PrepareFits(d)'
  <2>1. CASE Work(d)
    BY <1>1, <2>1, StartsFitNext, PointFitsNext, PrepareFitsNext DEF InTurn, Turned
  <2>2. ~EditEvent
    BY DEF EditEvent, Settled, Known, Unedited
  <2>3. (\E e \in Drivers : Work(e)) => Work(d)
    BY OnlyOne DEF Turned, Undisturbed
  <2>4. QED
    BY <2>1, <2>2, <2>3, AloneSteps, DriversWait DEF Turned, Undisturbed
<1>3. TurnsTaken' /\ Pointed'
  BY TurnsTakenNext, PointedNext DEF InTurn
<1>4. UndoneLost'
  BY <1>1, <1>2, UndoneLostNext DEF InTurn, Turned
<1>5. QED
  BY <1>1, <1>2, <1>3, <1>4 DEF InTurn

LEMMA SpecInTurn == ASSUME Turned PROVE Spec => [](Settled /\ InStep /\ Clean /\ forced \in Forced /\ InTurn)
<1>1. Undisturbed
  BY DEF Turned
<1>2. Init => Clean /\ forced \in Forced /\ InTurn
  BY <1>1, CleanInit, InTurnInit
<1>3. Settled /\ InStep /\ Clean /\ [Next]_vars => Clean'
  BY <1>1, CleanNext
<1>4. Settled /\ InStep /\ Clean /\ forced \in Forced /\ InTurn /\ [Next]_vars => (forced \in Forced /\ InTurn)'
  BY InTurnNext
<1>5. QED
  BY <1>1, <1>2, <1>3, <1>4, SpecInStep, PTL DEF Spec

\* While a service is on air, its encoder points at the service's own broadcast:
\* an encoder is pointed only at its turn, and the turns of the services that
\* share it do not overlap (event-planner.ts, retargeting at the output's own
\* start; engine.ts step, stops before starts). Crashes and faults included.
THEOREM EncodersOnTarget == ASSUME Turned PROVE Spec => []OnTarget
<1>1. ASSUME Settled, InStep, InTurn PROVE OnTarget
  <2> SUFFICES ASSUME NEW o \in Outputs, OnAir(o)
               PROVE  encoder[Device[o]].target = PreparedId(o)
    BY DEF OnTarget
  <2>1. PICK s \in Seqs : KindOf(s) = "startStreaming" /\ OutputOf(s) = o /\ row[s] = "done"
    BY DEF OnAir, WentOnAir, RowDone, RowOf, KindOf, OutputOf
  <2>2. \A t \in Seqs : KindOf(t) = "stopStreaming" /\ OutputOf(t) = o => row[t] = "pending"
    BY DEF OnAir, RowOf, KindOf, OutputOf
  <2>3. o \in Live(1)
    BY <2>1, StepsAre DEF Turned, Undisturbed
  <2>4. PICK a \in Seqs : KindOf(a) = "applyStreamTarget" /\ OutputOf(a) = o
    BY <2>3 DEF Turned, Undisturbed, WellPlanned
  <2>5. row[a] = "done"
    BY <1>1, <2>1, <2>4 DEF InStep, RowOrder, Precede, Made, OnlyPreparesUndone
  <2>6. \A t \in Seqs : OutputOf(t) = o /\ KindOf(t) \in {"applyStreamTarget", "startStreaming"} =>
          row[t] = "done"
    BY <2>1, <2>4, <2>5 DEF Turned, Undisturbed, WellPlanned
  <2>7. ~Lost(o)
    <3>1. ~StartFailed(o)
      BY <2>6, StepsAre DEF StartFailed, Turned, Undisturbed
    <3>2. QED
      BY <2>1, <2>2, <3>1 DEF Lost
  <2>8. \A t \in Seqs : OutputOf(t) = OutputOf(a) => row[t] # "compensated"
    BY <1>1, <2>4, <2>7 DEF InTurn, UndoneLost
  <2>9. ~Through(o)
    <3> SUFFICES ASSUME NEW u \in Seqs, OutputOf(u) = o, KindOf(u) # "finalize", row[u] = "failed"
                 PROVE  FALSE
      BY <2>2 DEF Through
    <3>1. KindOf(u) # "prepare"
      BY <1>1, <2>1 DEF InStep, RowOrder, Precede, Made
    <3>2. QED
      BY <2>2, <2>6, <3>1, StepsAre DEF StepKind, Turned, Undisturbed
  <2>10. QED
    BY <1>1, <2>4, <2>5, <2>8, <2>9 DEF InTurn, Pointed
<1>2. QED
  BY <1>1, SpecInTurn, PTL

\* Who stops an encoder stops it for the output that is on air on it.
LEMMA StopsItsOwn ==
  ASSUME Turned, Settled, InStep, Clean, InTurn, NEW d \in Drivers, StopEncoder(d),
         NEW o \in Outputs, Progress(1, o) = "started", Device[StepOf(d).output] = Device[o]
  PROVE  \E s \in Seqs : KindOf(s) = "stopStreaming" /\ OutputOf(s) = o /\ row[s] = "running"
<1>1. PICK q \in Seqs : /\ q = drv[d].seq /\ Is(d, "call") /\ row[q] = "running"
                        /\ KindOf(q) = "stopStreaming" /\ StepOf(d).output = OutputOf(q)
  BY EncoderCalls DEF Turned
<1>2. drv[d].job = "stop" /\ OutputOf(q) = drv[d].out
  <2>1. PhaseOf(q) = "stop" /\ Selected(d, q) /\ drv[d].job \in {"prepare", "start", "stop", "complete"}
    BY <1>1, CallIs, StepsAre DEF Turned, Undisturbed
  <2>2. QED
    BY <2>1 DEF Selected, PhasesOf
<1>3. o \in Live(1)
  <2>1. MineIn(1, o, "start") # {}
    BY DEF Progress
  <2>2. QED
    BY <2>1, MineAre, StepsAre DEF Turned, Undisturbed
<1>4. /\ \A s \in Seqs : OutputOf(s) = o => row[s] # "failed"
      /\ \A s \in Seqs : OutputOf(s) = o /\ PhaseOf(s) = "start" => row[s] = "done"
      /\ \A s \in Seqs : OutputOf(s) = o /\ KindOf(s) = "stopStreaming" => row[s] # "done"
  BY <1>3, ProgressIs DEF Turned, Undisturbed
<1>5. OutputOf(q) \in Live(1) /\ OutputOf(q) \in Outputs
  BY StepsAre DEF Turned, Undisturbed
<1>6. ~Before(o, OutputOf(q))
  <2>1. PICK t \in Seqs : KindOf(t) = "startStreaming" /\ OutputOf(t) = OutputOf(q)
    BY <1>5 DEF Turned, Undisturbed, WellPlanned
  <2>2. PICK a \in Seqs : KindOf(a) = "applyStreamTarget" /\ OutputOf(a) = OutputOf(q)
    BY <1>5 DEF Turned, Undisturbed, WellPlanned
  <2>3. row[t] = "done"
    BY <1>1, <2>1 DEF InStep, RowOrder
  <2>4. row[a] # "pending"
    BY <2>1, <2>2, <2>3 DEF InStep, RowOrder, Precede, Made
  <2>5. ~Through(o)
    BY <1>4 DEF Through
  <2>6. QED
    BY <2>2, <2>4, <2>5 DEF InTurn, TurnsTaken
<1>7. ~Before(OutputOf(q), o)
  <2>1. PICK a \in Seqs : KindOf(a) = "applyStreamTarget" /\ OutputOf(a) = o
    BY <1>3 DEF Turned, Undisturbed, WellPlanned
  <2>2. row[a] = "done"
    BY <1>4, <2>1, StepsAre DEF Turned, Undisturbed
  <2>3. \A u \in Seqs : OutputOf(u) = OutputOf(q) => row[u] # "failed"
    BY <1>1, <1>2 DEF Clean, CleanFits, Is
  <2>4. \A u \in Seqs : OutputOf(u) = OutputOf(q) /\ KindOf(u) = "stopStreaming" => u = q
    BY <1>1 DEF Turned, Undisturbed, WellPlanned
  <2>5. ~Through(OutputOf(q))
    BY <1>1, <2>3, <2>4 DEF Through
  <2>6. QED
    BY <1>5, <2>1, <2>2, <2>5 DEF InTurn, TurnsTaken
<1>8. QED
  BY <1>1, <1>3, <1>5, <1>6, <1>7, OneIsBefore

\* An output on air is stopped by its own stop step only: whoever else has its
\* encoder has been through with it, or has not come to it yet (event-planner.ts
\* and engine.ts, the order of starts and stops). Crashes and faults included.
THEOREM NothingIsCutOff == ASSUME Turned PROVE Spec => NotCutOff
<1>1. ASSUME Settled, InStep, Clean, InTurn, [Next]_vars,
             NEW o \in Outputs, Progress(1, o) = "started",
             encoder[Device[o]].active, ~encoder'[Device[o]].active
      PROVE  \E s \in RowOf(o, "stopStreaming") : row[s] = "running"
  <2>1. PICK d \in Drivers : Work(d)
    <3>1. ~(Crash \/ Reconcile \/ Recovered \/ EditEvent \/ Clock \/ UNCHANGED vars)
      BY <1>1 DEF Crash, Reconcile, Recovered, EditEvent, Clock, vars, world
    <3>2. QED
      BY <1>1, <3>1, AloneSteps DEF Turned, Undisturbed
  <2>2. /\ Device[o] \in Devices
        /\ encoder \in [Devices -> [active : BOOLEAN, target : BroadcastId]]
    BY <1>1, EngineAssumption DEF Settled, Served, WellTyped, TypeOK
  <2>3. ~PointEncoder(d) /\ ~StartEncoder(d)
    BY <1>1, <2>2 DEF PointEncoder, StartEncoder
  <2>4. StopEncoder(d)
    BY <1>1, <2>1, <2>3, EncoderDoes DEF Turned
  <2>5. Device[StepOf(d).output] = Device[o]
    BY <1>1, <2>2, <2>4 DEF StopEncoder
  <2>6. QED
    BY <1>1, <2>4, <2>5, StopsItsOwn DEF RowOf, KindOf, OutputOf
<1>2. Settled /\ InStep /\ Clean /\ InTurn /\ [Next]_vars =>
        [\A o \in Outputs :
           /\ Progress(1, o) = "started"
           /\ encoder[Device[o]].active /\ ~encoder'[Device[o]].active
           => \E s \in RowOf(o, "stopStreaming") : row[s] = "running"]_vars
  BY <1>1
<1>3. QED
  BY <1>2, SpecInTurn, PTL DEF Spec, NotCutOff
-----------------------------------------------------------------------------
(* The channel *)

\* Who changes the channel.
LEMMA ChannelDoes ==
  ASSUME Undisturbed, Settled, InStep, NEW d \in Drivers, Work(d)
  PROVE  \/ channel' = channel
         \/ CreateBroadcast(d) \/ StartEncoder(d) \/ StopEncoder(d) \/ DiscardBroadcast(d)
<1>1. CASE Call(d)
  BY <1>1 DEF Call, LookForBroadcast, PointEncoder, CloseBroadcast, CallOk, Fault, NoTarget,
              CallFailed, world
<1>2. CASE Undo(d) /\ ~UndoDone(d)
  BY <1>2 DEF Undo, UndoStep, UndoOk, UndoFault, Undone, world
<1>3. QED
  BY <1>1, <1>2, WorkIs, BeginFailDoes, BeginPrepareDoes, BeginStopDoes, BeginStartDoes,
     BeginCompleteDoes, MarkMissedDoes, NextStepDoes, TurnDoes

LEMMA NobodyElseOnChannel ==
  ASSUME Crash \/ Reconcile \/ Recovered \/ EditEvent \/ Clock \/ UNCHANGED vars
  PROVE  channel' = channel /\ encoder' = encoder
BY DEF Crash, Reconcile, Recovered, EditEvent, Clock, vars, world

\* What was watched stays so.
LEMMA AiredStays ==
  ASSUME Undisturbed, Settled, InStep, [Next]_vars, NEW b \in Broadcast, channel[b].state \in Aired
  PROVE  channel'[b].state \in Aired
<1>1. channel \in ChannelType
  BY DEF Settled, Served, WellTyped, TypeOK
<1>2. ASSUME NEW d \in Drivers, Work(d) PROVE channel'[b].state \in Aired
  <2>1. CASE CreateBroadcast(d)
    BY <1>1, <2>1 DEF CreateBroadcast, FreshIds, Inserted, ChannelType, Aired
  <2>2. CASE StartEncoder(d)
    BY <1>1, <2>2 DEF StartEncoder, VideoArrives, Moved, ChannelType, Aired
  <2>3. CASE StopEncoder(d)
    BY <1>1, <2>3 DEF StopEncoder, VideoStops, Moved, ChannelType, Aired
  <2>4. CASE DiscardBroadcast(d)
    BY <1>1, <2>4 DEF DiscardBroadcast, Discarded, ChannelType, Aired
  <2>5. QED
    BY <1>2, <2>1, <2>2, <2>3, <2>4, ChannelDoes
<1>3. QED
  BY <1>2, NobodyElseOnChannel, AloneSteps DEF Undisturbed

\* What disappears has been discarded.
LEMMA GoneBy ==
  ASSUME Undisturbed, Settled, InStep, NEW d \in Drivers, Work(d),
         NEW b \in Broadcast, channel'[b].state = "gone", channel[b].state # "gone"
  PROVE  DiscardBroadcast(d) /\ Is(d, "undoing") /\ b = drv[d].arg
<1>1. channel \in ChannelType
  BY DEF Settled, Served, WellTyped, TypeOK
<1>2. ~CreateBroadcast(d)
  <2> SUFFICES ASSUME CreateBroadcast(d) PROVE FALSE
    OBVIOUS
  <2>1. PICK f \in Broadcast :
          channel' = [channel EXCEPT ![f] = [slot |-> Slot[StepOf(d).output], state |-> "upcoming"]]
    BY DEF CreateBroadcast, FreshIds, Inserted
  <2>2. channel'[b] = channel[b] \/ channel'[b].state = "upcoming"
    BY <1>1, <2>1 DEF ChannelType
  <2>3. QED
    BY <2>2
<1>3. ~StartEncoder(d)
  BY <1>1 DEF StartEncoder, VideoArrives, Moved, ChannelType
<1>4. ~StopEncoder(d)
  BY <1>1 DEF StopEncoder, VideoStops, Moved, ChannelType
<1>5. DiscardBroadcast(d)
  BY <1>2, <1>3, <1>4, ChannelDoes
<1>6. QED
  BY <1>1, <1>5 DEF DiscardBroadcast, Discarded, ChannelType

\* What is made has the broadcast that it was made with.
LEMMA MadeKeeps ==
  ASSUME Undisturbed, Settled, InStep, [Next]_vars, NEW s \in Seqs, Made(s)
  PROVE  Made(s)' /\ ext'[s] = ext[s]
<1>1. row[s] \notin {"running", "pending", "failed"}
  BY DEF Made
<1>2. ASSUME NEW d \in Drivers, Work(d) PROVE Made(s)' /\ ext'[s] = ext[s]
  <2>1. row'[s] = row[s] \/ row'[s] = "compensated"
    BY <1>1, <1>2, RowDoes DEF Made
  <2>2. ext'[s] = ext[s]
    <3>1. CASE Call(d)
      BY <1>1, <3>1, CallDoes
    <3>2. CASE Undo(d) /\ ~UndoDone(d)
      BY <3>2, UndoDoes
    <3>3. QED
      BY <1>2, <3>1, <3>2, WorkIs, BeginFailDoes, BeginPrepareDoes, BeginStopDoes, BeginStartDoes,
         BeginCompleteDoes, MarkMissedDoes, NextStepDoes, TurnDoes
  <2>3. QED
    BY <2>1, <2>2 DEF Made
<1>3. ASSUME Reconcile PROVE row'[s] = row[s] /\ ext'[s] = ext[s]
  BY <1>1, <1>3, ReconcileIs
<1>4. ASSUME Crash \/ Recovered \/ EditEvent \/ Clock \/ UNCHANGED vars
      PROVE  row'[s] = row[s] /\ ext'[s] = ext[s]
  BY <1>4 DEF Crash, Recovered, EditEvent, Clock, vars, database
<1>5. QED
  BY <1>2, <1>3, <1>4, AloneSteps DEF Made, Undisturbed

LEMMA AiredAsStays ==
  ASSUME Undisturbed, Settled, InStep, [Next]_vars, NEW s \in Seqs, AiredAs(s) PROVE AiredAs(s)'
<1>1. PICK b \in Broadcast : b = ext[s] /\ channel[b].state \in Aired
  BY DEF AiredAs, Of
<1>2. Made(s)' /\ ext'[s] = b
  BY <1>1, MadeKeeps DEF AiredAs
<1>3. Of(b, OutputOf(s))'
  BY <1>1, OfStays DEF AiredAs, Undisturbed, Settled, Served, OutputOf
<1>4. channel'[b].state \in Aired
  BY <1>1, AiredStays
<1>5. QED
  BY <1>2, <1>3, <1>4 DEF AiredAs, OutputOf

\* A run that is past its preparation stays past it.
LEMMA StaysPrepared ==
  ASSUME Undisturbed, Settled, InStep, [Next]_vars, run \notin {"scheduled", "preparing"}
  PROVE  run' \notin {"scheduled", "preparing"}
<1>1. ASSUME NEW d \in Drivers, Work(d) PROVE run' \notin {"scheduled", "preparing"}
  <2>1. CASE TurnsOver(d)
    BY <2>1, TurnDoes DEF TurnsRight, ToRunUndo
  <2>2. QED
    BY <1>1, <2>1, WorkIs, BeginFailDoes, BeginPrepareDoes, BeginStopDoes, BeginStartDoes,
       BeginCompleteDoes, MarkMissedDoes, NextStepDoes, CallDoes, UndoDoes
<1>2. Reconcile => run' = run
  BY ReconcileIs
<1>3. Crash \/ Recovered \/ EditEvent \/ Clock \/ UNCHANGED vars => run' = run
  BY DEF Crash, Recovered, EditEvent, Clock, vars, database
<1>4. QED
  BY <1>1, <1>2, <1>3, AloneSteps DEF Undisturbed
-----------------------------------------------------------------------------
(* What was started was watched *)

\* A call that starts an encoder is of an output that is neither lost nor through.
LEMMA StartsAreOn ==
  ASSUME Undisturbed, Settled, InStep, Clean, NEW d \in Drivers, StartEncoder(d)
  PROVE  /\ drv[d].seq \in Seqs /\ KindOf(drv[d].seq) = "startStreaming"
         /\ drv[d].job = "start" /\ drv[d].out = OutputOf(drv[d].seq) /\ Is(d, "call")
         /\ run \notin {"scheduled", "preparing"}
         /\ ~Lost(OutputOf(drv[d].seq)) /\ ~Through(OutputOf(drv[d].seq))
<1> DEFINE t == drv[d].seq
<1> DEFINE o == OutputOf(t)
<1>1. Is(d, "call") /\ t \in Seqs /\ row[t] = "running" /\ KindOf(t) = "startStreaming"
  BY EncoderCalls
<1>2. PhaseOf(t) = "start" /\ Selected(d, t) /\ drv[d].job \in {"prepare", "start", "stop", "complete"}
  BY <1>1, CallIs, StepsAre DEF Undisturbed
<1>3. drv[d].job = "start" /\ drv[d].out = o
  BY <1>2 DEF Selected, PhasesOf
<1>4. run \in {"ready", "running"}
  BY <1>1, <1>3, CallIs
<1>5. \A s \in Seqs : OutputOf(s) = o => row[s] # "failed"
  BY <1>1, <1>3 DEF Clean, CleanFits, Is
<1>6. \A s \in Seqs : OutputOf(s) = o /\ KindOf(s) = "stopStreaming" => row[s] = "pending"
  BY <1>1 DEF InStep, RowOrder
<1>7. ~StartFailed(o)
  BY <1>5 DEF StartFailed
<1>8. Active /\ ~Abandoned
  BY <1>3, <1>4 DEF Active, IsTerminal, TerminalStates, Abandoned
<1>9. ~Lost(o)
  BY <1>6, <1>7, <1>8 DEF Lost
<1>10. ~Through(o)
  BY <1>5, <1>6 DEF Through
<1>11. QED
  BY <1>1, <1>3, <1>4, <1>9, <1>10

\* An encoder that is started for an output with a broadcast of its own, and does not
\* stream yet, puts that broadcast on the air.
LEMMA StartAirs ==
  ASSUME Turned, Settled, InStep, Clean, InTurn, GoneLost, [Next]_vars,
         NEW d \in Drivers, StartEncoder(d), NEW s \in Seqs, KindOf(s) = "prepare",
         OutputOf(s) = OutputOf(drv[d].seq),
         ~encoder[Device[OutputOf(s)]].active \/ AiredAs(s)
  PROVE  AiredAs(s)'
<1> DEFINE o == OutputOf(s)
<1> SUFFICES ASSUME ~encoder[Device[o]].active PROVE AiredAs(s)'
  BY AiredAsStays DEF Turned
<1>1. PICK t \in Seqs : /\ t = drv[d].seq /\ row[t] = "running" /\ KindOf(t) = "startStreaming"
                        /\ OutputOf(t) = o /\ StepOf(d).output = o
  BY EncoderCalls DEF Turned
<1>0. row' = row /\ ext' = ext
  BY EncoderCalls DEF Turned
<1>2. ~Lost(o) /\ ~Through(o) /\ o \in Live(1)
  BY <1>1, StartsAreOn, StepsAre DEF Turned, Undisturbed
<1>3. \A u \in Seqs : OutputOf(u) = o => row[u] # "compensated"
  BY <1>2 DEF InTurn, UndoneLost
<1>4. row[s] = "done"
  BY <1>1, <1>3 DEF InStep, RowOrder, Precede, Made
<1>5. PICK a \in Seqs : KindOf(a) = "applyStreamTarget" /\ OutputOf(a) = o
  BY <1>2 DEF Turned, Undisturbed, WellPlanned
<1>6. row[a] = "done"
  BY <1>1, <1>3, <1>5 DEF InStep, RowOrder, Precede, Made
<1>7. PICK b : b = ext[s]
  OBVIOUS
<1>8. encoder[Device[o]].target = b
  <2>1. encoder[Device[o]].target = PreparedId(o)
    BY <1>2, <1>3, <1>5, <1>6 DEF InTurn, Pointed
  <2>2. QED
    BY <1>4, <1>7, <2>1, PreparedIs DEF Turned, Undisturbed
<1>9. Of(b, o)
  <2>1. SameSteps(version)
    BY PlanIsCommitted DEF SameSteps, Committed
  <2>2. QED
    BY <1>4, <1>7, <2>1 DEF Settled, Served, RowsRight, Trusted, KindOf, OutputOf
<1>10. channel \in ChannelType /\ channel[b].state # "gone"
  BY <1>2, <1>9 DEF GoneLost, Of, Settled, Served, WellTyped, TypeOK
<1>11. channel' = VideoArrives(channel, b)
  BY <1>1, <1>8 DEF StartEncoder
<1>12. channel'[b].state \in Aired
  BY <1>9, <1>10, <1>11 DEF VideoArrives, Moved, ChannelType, BroadcastState, Aired, Of
<1>13. Of(b, o)'
  BY <1>9, OfStays DEF Turned, Undisturbed, Settled, Served, OutputOf
<1>14. QED
  BY <1>0, <1>4, <1>7, <1>12, <1>13 DEF AiredAs, Made, OutputOf

\* A start lands before it is known.
LEMMA HasStartedBy ==
  ASSUME Undisturbed, Settled, InStep, [Next]_vars, NEW t \in Seqs, HasStarted(t)'
  PROVE  HasStarted(t) \/ \E d \in Drivers : StartEncoder(d) /\ drv[d].seq = t
<1>0. KindOf(t) = "startStreaming"
  BY DEF HasStarted, KindOf
<1>1. CASE row'[t] = "done"
  <2>1. ASSUME NEW d \in Drivers, Work(d), row[t] # "done" PROVE HasStarted(t)
    <3>1. CallOk(d) /\ Is(d, "call") /\ t = drv[d].seq
      BY <1>1, <2>1, RowDoes
    <3>2. QED
      BY <1>0, <3>1 DEF HasStarted, CallOk
  <2>2. ASSUME Reconcile PROVE row[t] = "done"
    BY <1>0, <1>1, <2>2, ReconcileIs
  <2>3. ASSUME Crash \/ Recovered \/ EditEvent \/ Clock \/ UNCHANGED vars PROVE row[t] = "done"
    BY <1>1, <2>3 DEF Crash, Recovered, EditEvent, Clock, vars, database
  <2>4. QED
    BY <1>0, <2>1, <2>2, <2>3, AloneSteps DEF HasStarted, Undisturbed
<1>2. ASSUME NEW d \in Drivers, drv'[d].pc = "call", drv'[d].seq = t, drv'[d].call = "landed"
      PROVE  HasStarted(t) \/ (StartEncoder(d) /\ drv[d].seq = t)
  <2>1. CASE Work(d)
    BY <1>0, <1>2, <2>1, LandsBy, EncoderCalls
  <2>2. CASE Crash
    BY <1>2, <2>2 DEF Crash, IdleDriver
  <2>3. CASE Reconcile \/ Recovered \/ EditEvent \/ Clock \/ UNCHANGED vars
    <3>1. drv' = drv
      BY <2>3 DEF Reconcile, Recovered, EditEvent, Clock, vars
    <3>2. QED
      BY <1>0, <1>2, <3>1 DEF HasStarted, Is
  <2>4. (\E e \in Drivers : Work(e)) => Work(d)
    BY OnlyOne DEF Undisturbed
  <2>5. QED
    BY <2>1, <2>2, <2>3, <2>4, AloneSteps DEF Undisturbed
<1>3. QED
  BY <1>1, <1>2 DEF HasStarted, Is

\* It is enough to look at the step that starts an encoder.
LEMMA StartsAiredBy ==
  ASSUME Turned, Settled, InStep, Clean, InTurn, GoneLost, StartsAired, [Next]_vars,
         \A d \in Drivers, s \in Seqs :
           /\ StartEncoder(d) /\ KindOf(s) = "prepare" /\ OutputOf(s) = OutputOf(drv[d].seq)
           => ~encoder[Device[OutputOf(s)]].active \/ AiredAs(s)
  PROVE  StartsAired'
<1> SUFFICES ASSUME NEW s \in Seqs, NEW t \in Seqs, KindOf(s) = "prepare",
                    OutputOf(s) = OutputOf(t), HasStarted(t)'
             PROVE  AiredAs(s)'
  BY DEF StartsAired, KindOf, OutputOf
<1>1. CASE HasStarted(t)
  BY <1>1, AiredAsStays DEF StartsAired, Turned
<1>2. ASSUME NEW d \in Drivers, StartEncoder(d), drv[d].seq = t PROVE AiredAs(s)'
  BY <1>2, StartAirs
<1>3. QED
  BY <1>1, <1>2, HasStartedBy DEF Turned
-----------------------------------------------------------------------------
(* A completed run has aired *)

\* What the run was completed for.
LEMMA CompletesBy ==
  ASSUME Undisturbed, Settled, InStep, NEW d \in Drivers, Work(d), run' = "completed",
         run # "completed"
  PROVE  LoopDone(d) /\ Is(d, "loop") /\ drv[d].job = "complete" /\ drv[d].good /\ run = "completing"
<1>1. TurnsOver(d)
  BY WorkIs, BeginFailDoes, BeginPrepareDoes, BeginStopDoes, BeginStartDoes, BeginCompleteDoes,
     MarkMissedDoes, NextStepDoes, CallDoes, UndoDoes
<1>2. TurnsRight(d)
  BY <1>1, TurnDoes
<1>3. run = "completing" /\ drv[d].job = "complete" /\ ~Undoing(d)
  BY <1>2 DEF TurnsRight, ToRunUndo
<1>4. ~StopPass(d) /\ ~StepFailed(d) /\ ~NextOutput(d) /\ ~Settle(d) /\ ~UndoDone(d)
  BY <1>3 DEF StopPass, StepFailed, NextOutput, Settle, UndoDone, Undoing, Is, database
<1>5. ~OutputsDone(d)
  BY <1>3, JobIs DEF OutputsDone, Is
<1>6. LoopDone(d)
  BY <1>1, <1>4, <1>5 DEF TurnsOver
<1>7. QED
  BY <1>3, <1>6 DEF LoopDone

LEMMA GoodFitsNext ==
  ASSUME Undisturbed, Settled, InStep, Clean, GoodFits, [Next]_vars PROVE GoodFits'
<1>1. ASSUME NEW s \in Seqs, KindOf(s) = "stopStreaming", row[s] = "done"
      PROVE  GoodFits'
  <2>1. PhaseOf(s) # "prepare"
    BY <1>1, StepsAre DEF Undisturbed
  <2>2. run \notin {"scheduled", "preparing"}
    BY <1>1, <2>1 DEF InStep, RunSays
  <2>3. row'[s] = row[s]
    BY <1>1, <2>2, RowStands
  <2>4. QED
    BY <1>1, <2>3 DEF GoodFits, KindOf
<1>2. SUFFICES ASSUME run # "completed",
                      \A d \in Drivers : ~(InLoop(d) /\ drv[d].job = "complete" /\ drv[d].good),
                      \A s \in Seqs : KindOf(s) = "stopStreaming" => row[s] # "done"
               PROVE  GoodFits'
  BY <1>1 DEF GoodFits
<1>3. ASSUME NEW d \in Drivers, Work(d)
      PROVE  /\ run' # "completed"
             /\ ~(drv'[d].pc \in {"loop", "call", "failed"} /\ drv'[d].job = "complete" /\ drv'[d].good)
  <2>1. run' # "completed"
    BY <1>2, <1>3, CompletesBy DEF InLoop, Is
  <2>2. CASE BeginComplete(d)
    <3>1. ~Delivered
      <4> SUFFICES ASSUME NEW o \in Live(1), Progress(1, o) = "stopped" PROVE FALSE
        BY PlanIsCommitted DEF Delivered
      <4>1. PICK s \in Seqs : KindOf(s) = "stopStreaming" /\ OutputOf(s) = o
        BY DEF Undisturbed, WellPlanned
      <4>2. row[s] = "done"
        BY <4>1, ProgressIs DEF Undisturbed
      <4>3. QED
        BY <1>2, <4>1, <4>2
    <3>2. drv'[d] = [Job(d, "complete", "loop") EXCEPT !.good = Delivered]
      BY <2>2, Becomes, WellTypedDrivers DEF BeginComplete, Settled, Served
    <3>3. ~drv'[d].good
      BY <3>1, <3>2 DEF Job, IdleDriver
    <3>4. QED
      BY <2>1, <3>3
  <2>3. CASE TurnsOver(d)
    <3>1. drv'[d].pc \in {"loop", "call", "failed"} => drv'[d].job = "prepare"
      BY <2>3, TurnDoes DEF TurnsRight, ToRunUndo
    <3>2. QED
      BY <2>1, <3>1
  <2>4. CASE NextStep(d) \/ Call(d)
    BY <1>2, <2>1, <2>4, NextStepDoes, CallDoes DEF InLoop, Is
  <2>5. QED
    BY <1>3, <2>1, <2>2, <2>3, <2>4, WorkIs, BeginFailDoes, BeginPrepareDoes, BeginStopDoes,
       BeginStartDoes, MarkMissedDoes, UndoDoes
<1>4. ASSUME Crash \/ Reconcile \/ Recovered \/ EditEvent \/ Clock \/ UNCHANGED vars
      PROVE  /\ run' # "completed"
             /\ \A d \in Drivers :
                  ~(drv'[d].pc \in {"loop", "call", "failed"} /\ drv'[d].job = "complete" /\ drv'[d].good)
  <2>1. run' = run
    BY <1>4 DEF Crash, Reconcile, Recovered, EditEvent, Clock, vars, database
  <2>2. drv' = drv \/ \A d \in Drivers : drv'[d].pc = "idle"
    BY <1>4 DEF Crash, Reconcile, Recovered, EditEvent, Clock, vars, IdleDriver
  <2>3. QED
    BY <1>2, <2>1, <2>2 DEF InLoop
<1>5. (\E d \in Drivers : Work(d)) => \A d \in Drivers : Work(d)
  BY OnlyOne DEF Undisturbed
<1>6. \A d \in Drivers :
        ~(drv'[d].pc \in {"loop", "call", "failed"} /\ drv'[d].job = "complete" /\ drv'[d].good)
  BY <1>3, <1>4, <1>5, AloneSteps DEF Undisturbed
<1>7. run' # "completed"
  BY <1>3, <1>4, AloneSteps DEF Undisturbed
<1>8. QED
  BY <1>6, <1>7 DEF GoodFits, InLoop

\* What a driver undoes is its own output's.
LEMMA UndoesItsOwnNext ==
  ASSUME Undisturbed, Settled, InStep, [Next]_vars, NEW d \in Drivers, UndoesItsOwn(d)
  PROVE  UndoesItsOwn(d)'
<1>1. PICK b, s : b = drv'[d].arg /\ s = drv'[d].seq
  OBVIOUS
<1>2. SUFFICES ASSUME drv'[d].pc = "undoing" PROVE b = ext'[s] /\ Of(b, OutputOf(s))'
  BY <1>1 DEF UndoesItsOwn, Is, OutputOf
<1>0. \A e : e = OutputOf(s) /\ Of(b, e) => Of(b, e)'
  BY OfStays DEF Undisturbed, Settled, Served
<1>3. SUFFICES b = ext'[s] /\ Of(b, OutputOf(s))
  BY <1>0 DEF OutputOf
<1>4. CASE Work(d)
  <2>1. Undo(d) /\ ~UndoDone(d)
    <3>1. CASE TurnsOver(d)
      BY <1>2, <3>1, TurnDoes DEF TurnsRight, ToRunUndo
    <3>2. QED
      BY <1>2, <1>4, <3>1, WorkIs, BeginFailDoes, BeginPrepareDoes, BeginStopDoes, BeginStartDoes,
         BeginCompleteDoes, MarkMissedDoes, NextStepDoes, CallDoes
  <2>2. /\ Undoing(d)
        /\ Is(d, "undo") => s \in drv[d].todo /\ b = ext[s]
        /\ Is(d, "undoing") => s = drv[d].seq /\ b = drv[d].arg
    BY <1>1, <1>2, <2>1, UndoDoes
  <2>0. ext' = ext
    BY <2>1, UndoDoes
  <2>3. CASE Is(d, "undoing")
    BY <2>0, <2>2, <2>3 DEF UndoesItsOwn
  <2>4. CASE Is(d, "undo")
    <3>1. s \in Seqs /\ KindOf(s) = "prepare" /\ row[s] = "done" /\ b = ext[s]
      <4>1. UndoFits(d) /\ drv[d].todo \subseteq Seqs
        BY <2>2, UndoIs DEF DriverState
      <4>2. QED
        BY <2>2, <2>4, <4>1 DEF UndoFits, Undoing, Is
    <3>2. SameSteps(version)
      BY PlanIsCommitted DEF SameSteps, Committed
    <3>3. QED
      BY <2>0, <3>1, <3>2 DEF Settled, Served, RowsRight, Trusted, KindOf, OutputOf
  <2>5. QED
    BY <2>2, <2>3, <2>4 DEF Undoing, Is
<1>5. CASE Crash
  BY <1>2, <1>5 DEF Crash, IdleDriver
<1>6. CASE Reconcile \/ Recovered \/ EditEvent \/ Clock \/ UNCHANGED vars
  <2>1. drv' = drv
    BY <1>6 DEF Reconcile, Recovered, EditEvent, Clock, vars
  <2>2. ~Reconcile
    BY <1>2, <2>1, ReconcileIs DEF AllIdle, Is
  <2>3. ext' = ext
    BY <1>6, <2>2 DEF Recovered, EditEvent, Clock, vars, database
  <2>4. QED
    BY <1>1, <1>2, <2>1, <2>3 DEF UndoesItsOwn, Is
<1>7. (\E e \in Drivers : Work(e)) => Work(d)
  BY OnlyOne DEF Undisturbed
<1>8. QED
  BY <1>4, <1>5, <1>6, <1>7, AloneSteps DEF Undisturbed

LEMMA GoneLostNext ==
  ASSUME Undisturbed, Settled, InStep, Clean, UndoneLost, GoneLost, [Next]_vars,
         \A d \in Drivers : UndoesItsOwn(d)
  PROVE  GoneLost'
<1> SUFFICES ASSUME NEW b \in Broadcast, NEW s \in Seqs, KindOf(s) = "prepare",
                    channel'[b].state = "gone", channel'[b].slot = Slot[OutputOf(s)]
             PROVE  Lost(OutputOf(s))'
  BY DEF GoneLost, KindOf, OutputOf
<1>1. PICK o \in Live(1) : o = OutputOf(s)
  BY StepsAre DEF Undisturbed
<1>2. SUFFICES Lost(o)
  BY <1>1, LostStays DEF OutputOf
<1>3. CASE channel[b].state = "gone"
  <2>1. channel[b].slot = channel'[b].slot
    BY <1>3, ChannelKeeps DEF Undisturbed, Settled, Served
  <2>2. QED
    BY <1>1, <1>3, <2>1 DEF GoneLost
<1>4. ASSUME NEW d \in Drivers, Work(d), channel[b].state # "gone" PROVE Lost(o)
  <2>1. Is(d, "undoing") /\ b = drv[d].arg
    BY <1>4, GoneBy
  <2>2. PICK q \in Seqs : q = drv[d].seq /\ KindOf(q) = "prepare"
    BY <2>1 DEF InStep, UndoFits
  <2>3. Of(b, OutputOf(q))
    BY <2>1, <2>2 DEF UndoesItsOwn
  <2>4. Slot[OutputOf(q)] = Slot[OutputOf(s)]
    BY <2>3, ChannelKeeps DEF Of, Undisturbed, Settled, Served
  <2>5. q = s
    BY <2>2, <2>4 DEF Undisturbed, SlotsOnce, KindOf, OutputOf
  <2>6. QED
    BY <1>1, <2>1, <2>2, <2>5 DEF UndoneLost, Undoes, Undoing, Is
<1>5. QED
  BY <1>3, <1>4, NobodyElseOnChannel, AloneSteps DEF Undisturbed
\* Nothing but a start makes an encoder stream.
LEMMA ActiveBy ==
  ASSUME Undisturbed, Settled, InStep, [Next]_vars, NEW e \in Devices, encoder'[e].active,
         ~encoder[e].active
  PROVE  \E d \in Drivers : StartEncoder(d) /\ Device[OutputOf(drv[d].seq)] = e
<1>1. encoder \in [Devices -> [active : BOOLEAN, target : BroadcastId]]
  BY DEF Settled, Served, WellTyped, TypeOK
<1>2. ASSUME NEW d \in Drivers, Work(d) PROVE StartEncoder(d) /\ Device[OutputOf(drv[d].seq)] = e
  <2>1. ~PointEncoder(d) /\ ~StopEncoder(d)
    BY <1>1 DEF PointEncoder, StopEncoder
  <2>2. StartEncoder(d)
    BY <1>2, <2>1, EncoderDoes
  <2>3. StepOf(d).output = OutputOf(drv[d].seq)
    BY <2>2, EncoderCalls
  <2>4. QED
    BY <1>1, <2>2, <2>3 DEF StartEncoder
<1>3. QED
  BY <1>2, NobodyElseOnChannel, AloneSteps DEF Undisturbed

\* Whoever starts on the encoder of an output that has a broadcast of its own does so
\* when the run is through with that output.
LEMMA ComesAfter ==
  ASSUME Turned, FreshEncoders, Settled, InStep, Clean, InTurn, NEW d \in Drivers, StartEncoder(d),
         NEW s \in Seqs, KindOf(s) = "prepare", OutputOf(s) # OutputOf(drv[d].seq),
         Device[OutputOf(s)] = Device[OutputOf(drv[d].seq)]
  PROVE  Through(OutputOf(s))
<1>1. PICK t \in Seqs : t = drv[d].seq /\ drv[d].job = "start" /\ drv[d].out = OutputOf(t) /\ Is(d, "call")
  BY StartsAreOn DEF Turned
<1>2. /\ OutputOf(s) \in Live(1) /\ OutputOf(t) \in Live(1)
      /\ OutputOf(s) \in Outputs /\ OutputOf(t) \in Outputs
  BY StepsAre DEF Turned, Undisturbed
<1>3. Before(OutputOf(s), OutputOf(t))
  BY <1>1, <1>2, OneIsBefore DEF FreshEncoders
<1>4. QED
  BY <1>1, <1>2, <1>3 DEF InTurn, StartsFit, InLoop, Is

Fresh == Turned /\ FreshEncoders

LEMMA StartsFresh ==
  ASSUME Fresh, Settled, InStep, Clean, InTurn, ActiveAired, NEW d \in Drivers, NEW s \in Seqs,
         StartEncoder(d), KindOf(s) = "prepare", OutputOf(s) = OutputOf(drv[d].seq)
  PROVE  ~encoder[Device[OutputOf(s)]].active \/ AiredAs(s)
BY StartsAreOn DEF ActiveAired, Fresh, Turned

LEMMA ActiveAiredNext ==
  ASSUME Fresh, Settled, InStep, Clean, InTurn, GoneLost, ActiveAired, [Next]_vars
  PROVE  ActiveAired'
<1> SUFFICES ASSUME NEW s \in Seqs, KindOf(s) = "prepare", encoder'[Device[OutputOf(s)]].active
             PROVE  run' \notin {"scheduled", "preparing"} /\ (AiredAs(s)' \/ Through(OutputOf(s))')
  BY DEF ActiveAired, KindOf, OutputOf
<1>0. PICK o \in Outputs : o = OutputOf(s) /\ Device[o] \in Devices
  BY StepsAre, EngineAssumption DEF Fresh, Turned, Undisturbed
<1>1. ASSUME run \notin {"scheduled", "preparing"}, AiredAs(s)' \/ Through(o)
      PROVE  run' \notin {"scheduled", "preparing"} /\ (AiredAs(s)' \/ Through(OutputOf(s))')
  <2>1. run' \notin {"scheduled", "preparing"}
    BY <1>1, StaysPrepared DEF Fresh, Turned
  <2>2. Through(o) => Through(o)'
    BY <1>1, ThroughStays DEF Fresh, Turned
  <2>3. QED
    BY <1>0, <1>1, <2>1, <2>2 DEF OutputOf
<1>2. CASE encoder[Device[o]].active
  <2>1. run \notin {"scheduled", "preparing"} /\ (AiredAs(s) \/ Through(o))
    BY <1>0, <1>2 DEF ActiveAired
  <2>2. AiredAs(s) => AiredAs(s)'
    BY AiredAsStays DEF Fresh, Turned
  <2>3. QED
    BY <1>1, <2>1, <2>2
<1>3. CASE ~encoder[Device[o]].active
  <2>1. PICK d \in Drivers : StartEncoder(d) /\ Device[OutputOf(drv[d].seq)] = Device[o]
    BY <1>0, <1>3, ActiveBy DEF Fresh, Turned
  <2>2. run \notin {"scheduled", "preparing"}
    BY <2>1, StartsAreOn DEF Fresh, Turned
  <2>3. CASE OutputOf(drv[d].seq) = o
    BY <1>0, <1>1, <1>3, <2>1, <2>2, <2>3, StartAirs DEF Fresh
  <2>4. CASE OutputOf(drv[d].seq) # o
    BY <1>0, <1>1, <2>1, <2>2, <2>4, ComesAfter DEF Fresh
  <2>5. QED
    BY <2>3, <2>4
<1>4. QED
  BY <1>2, <1>3

LEMMA InAirInit == ASSUME Undisturbed, Init PROVE InAir
<1>1. /\ \A s \in Seqs : row[s] = "pending"
      /\ \A d \in Drivers : drv[d].pc = "idle"
      /\ \A b \in Broadcast : channel[b].state = "absent"
      /\ \A e \in Devices : ~encoder[e].active
      /\ run = "scheduled"
  BY DEF Init, IdleDriver, EmptyChannel
<1>2. \A s \in Seqs : Device[OutputOf(s)] \in Devices
  BY StepsAre, EngineAssumption DEF Undisturbed
<1>3. (\A d \in Drivers : UndoesItsOwn(d)) /\ StartsAired
  BY <1>1 DEF UndoesItsOwn, StartsAired, HasStarted, Is
<1>4. GoneLost /\ GoodFits /\ ActiveAired
  BY <1>1, <1>2 DEF GoneLost, GoodFits, ActiveAired, InLoop
<1>5. QED
  BY <1>3, <1>4 DEF InAir

LEMMA InAirNext ==
  ASSUME Fresh, Settled, InStep, Clean, InTurn, InAir, [Next]_vars PROVE InAir'
<1>1. \A d \in Drivers : UndoesItsOwn(d)'
  BY UndoesItsOwnNext DEF InAir, Fresh, Turned
<1>2. GoneLost' /\ GoodFits'
  BY GoneLostNext, GoodFitsNext DEF InAir, InTurn, Fresh, Turned
<1>3. StartsAired'
  BY StartsFresh, StartsAiredBy DEF InAir, Fresh
<1>4. ActiveAired'
  BY ActiveAiredNext DEF InAir
<1>5. QED
  BY <1>1, <1>2, <1>3, <1>4 DEF InAir

\* A run that says "completed" has delivered something: some output was stopped that
\* had been started, and if it has a broadcast of its own, that was watched. A
\* broadcast may only be taken over, found again after a crash or discarded by mistake
\* where its output is not started any more; and an encoder that streams when it is
\* started has nobody's broadcast but the output's own (event-planner.ts, stored keys
\* on a shared encoder). Crashes and faults included (engine.ts complete).
THEOREM CompletedHasAired == ASSUME Fresh PROVE Spec => []CompletedMeansAired
<1>1. ASSUME InStep, InAir PROVE CompletedMeansAired
  <2> SUFFICES ASSUME run = "completed"
               PROVE  \E o \in Outputs :
                        /\ \E s \in RowOf(o, "stopStreaming") : row[s] = "done"
                        /\ RowOf(o, "prepare") # {} =>
                             \E b \in BroadcastsOf(o) : channel[b].state \in Aired
    BY DEF CompletedMeansAired
  <2>1. PICK u \in Seqs : KindOf(u) = "stopStreaming" /\ row[u] = "done"
    BY <1>1 DEF InAir, GoodFits
  <2>2. PICK o \in Outputs : o = OutputOf(u) /\ o \in Live(1)
    BY StepsAre DEF Fresh, Turned, Undisturbed
  <2>3. PICK t \in Seqs : KindOf(t) = "startStreaming" /\ OutputOf(t) = o
    BY <2>2 DEF Fresh, Turned, Undisturbed, WellPlanned
  <2>4. row[t] = "done"
    BY <1>1, <2>1, <2>2, <2>3 DEF InStep, RowOrder
  <2>5. ASSUME NEW s \in RowOf(o, "prepare")
        PROVE  \E b \in BroadcastsOf(o) : channel[b].state \in Aired
    <3>1. s \in Seqs /\ KindOf(s) = "prepare" /\ OutputOf(s) = OutputOf(t)
      BY <2>3, <2>5 DEF RowOf, KindOf, OutputOf
    <3>2. AiredAs(s)
      BY <1>1, <2>3, <2>4, <3>1 DEF InAir, StartsAired, HasStarted
    <3>3. QED
      BY <2>3, <3>1, <3>2 DEF AiredAs, Of, BroadcastsOf
  <2>6. u \in RowOf(o, "stopStreaming")
    BY <2>1, <2>2 DEF RowOf, KindOf, OutputOf
  <2>7. QED
    BY <2>1, <2>5, <2>6
<1>2. Turned /\ Undisturbed
  BY DEF Fresh, Turned
<1>3. Init => InAir
  BY <1>2, InAirInit
<1>4. Settled /\ InStep /\ Clean /\ InTurn /\ InAir /\ [Next]_vars => InAir'
  BY InAirNext
<1>5. QED
  BY <1>1, <1>2, <1>3, <1>4, SpecInTurn, PTL DEF Spec
-----------------------------------------------------------------------------
(* Nothing outside fails *)

Tended == Uncrashed /\ HandedOver

NothingFails == \A d \in Drivers : ~Fault(d) /\ ~UndoFault(d)

LEMMA FaultlessBy ==
  ASSUME Uncrashed, Settled, boot = "up", [Next]_vars, Faultless'
  PROVE  Faultless /\ NothingFails
<1>1. left.faults \in 0..MaxFaults /\ left \in [faults : 0..MaxFaults, crashes : 0..MaxCrashes,
                                                edits : 0..MaxEdits, presses : 0..MaxPresses]
  BY DEF Settled, Served, WellTyped, TypeOK
<1>2. ASSUME NEW d \in Drivers, Fault(d) \/ UndoFault(d) PROVE FALSE
  <2>1. left' = [left EXCEPT !.faults = @ - 1]
    BY <1>2 DEF Fault, UndoFault
  <2>2. left'.faults = left.faults - 1
    BY <1>1, <2>1
  <2>3. MaxFaults \in Nat
    BY EngineAssumption
  <2>4. QED
    BY <1>1, <2>2, <2>3 DEF Faultless
<1>3. ASSUME NEW d \in Drivers, Work(d) PROVE left' = left
  BY <1>2, <1>3 DEF Work, Pass, StopPass, BeginFail, BeginPrepare, Prepares, BeginStop, MarkMissed,
     BeginStart, BeginComplete, NextStep, LoopDone, StepFailed, NextOutput, OutputsDone, Settle,
     Call, LookForBroadcast, CreateBroadcast, PointEncoder, StartEncoder, StopEncoder, CloseBroadcast,
     CallOk, NoTarget, Undo, UndoStep, DiscardBroadcast, UndoOk, UndoDone
<1>4. left' = left
  BY <1>3, UncrashedSteps DEF Clock, vars
<1>5. QED
  BY <1>2, <1>4 DEF Faultless, NothingFails

\* Then only an output fails that is not started any more.
LEMMA FailsBy ==
  ASSUME Undisturbed, Settled, InStep, NothingFails, NEW d \in Drivers, Work(d),
         NEW s \in Seqs, row'[s] = "failed", row[s] # "failed"
  PROVE  /\ PhaseOf(s) = "start"
         /\ \/ /\ MarkMissed(d) /\ drv'[d].out = OutputOf(s)
               /\ drv'[d].pc = "undo" /\ drv'[d].todo = ToUndo(1, {OutputOf(s)})
            \/ drv'[d].pc = "failed" /\ drv'[d].job = "start" /\ drv'[d].out = OutputOf(s)
<1>1. CASE MarkMissed(d)
  BY <1>1, MarkMissedDoes
<1>2. CASE Call(d)
  <2>1. s = drv[d].seq /\ Is(d, "call") /\ drv'[d].pc = "failed"
        /\ drv'[d].job = drv[d].job /\ drv'[d].out = drv[d].out
    BY <1>2, CallDoes
  <2>2. NoTarget(d)
    <3>1. ~CallOk(d)
      BY <2>1, Becomes, WellTypedDrivers DEF CallOk, Settled, Served, WellTyped, TypeOK
    <3>2. row' # row
      OBVIOUS
    <3>3. QED
      BY <1>2, <3>1, <3>2 DEF Call, LookForBroadcast, CreateBroadcast, PointEncoder, StartEncoder,
         StopEncoder, CloseBroadcast, NothingFails, database
  <2>3. KindOf(s) = "applyStreamTarget"
    BY <2>1, <2>2, CallIs DEF NoTarget, Calling
  <2>4. PhaseOf(s) = "start"
    BY <2>3, StepsAre DEF Undisturbed
  <2>5. Selected(d, s) /\ drv[d].job \in {"prepare", "start", "stop", "complete"}
    BY <2>1, CallIs
  <2>6. drv[d].job = "start" /\ drv[d].out = OutputOf(s)
    BY <2>4, <2>5 DEF Selected, PhasesOf
  <2>7. QED
    BY <2>1, <2>4, <2>6
<1>3. CASE Undo(d) /\ ~UndoDone(d)
  BY <1>3, UndoDoes
<1>4. QED
  BY <1>1, <1>2, <1>3, WorkIs, BeginFailDoes, BeginPrepareDoes, BeginStopDoes, BeginStartDoes,
     BeginCompleteDoes, NextStepDoes, TurnDoes

LEMMA FewFailNext ==
  ASSUME Uncrashed, Settled, InStep, boot = "up", NothingFails, FewFail, [Next]_vars PROVE FewFail'
<1>1. ASSUME NEW d \in Drivers, Work(d), NEW s \in Seqs, row'[s] = "failed"
      PROVE  PhaseOf(s) = "start"
  BY <1>1, FailsBy DEF FewFail, Uncrashed
<1>2. Clock \/ UNCHANGED vars => row' = row
  BY DEF Clock, vars, database
<1>3. QED
  BY <1>1, <1>2, UncrashedSteps DEF FewFail, PhaseOf

\* What has landed is done next.
LEMMA LandedIsDone ==
  ASSUME Undisturbed, Settled, InStep, NothingFails, NEW d \in Drivers, Work(d), Is(d, "call"),
         drv[d].call = "landed", KindOf(drv[d].seq) # "applyStreamTarget"
  PROVE  CallOk(d) /\ row'[drv[d].seq] = "done" /\ encoder' = encoder
<1>1. Call(d)
  BY AtWork
<1>2. CallOk(d)
  BY <1>1, CallIs DEF Call, LookForBroadcast, CreateBroadcast, PointEncoder, StartEncoder, StopEncoder,
     CloseBroadcast, NoTarget, Calling, NothingFails
<1>3. QED
  BY <1>1, <1>2, CallIs DEF CallOk, world, Settled, Served, WellTyped, TypeOK

LEMMA HasStartedStays ==
  ASSUME Uncrashed, Settled, InStep, boot = "up", NothingFails, [Next]_vars,
         NEW s \in Seqs, HasStarted(s)
  PROVE  HasStarted(s)'
<1>0. KindOf(s) = "startStreaming"
  BY DEF HasStarted
<1>1. CASE row[s] = "done"
  <2>1. Made(s) /\ Made(s)'
    BY <1>1, MadeKeeps DEF Made, Uncrashed
  <2>2. row'[s] # "compensated"
    <3>1. InStep'
      BY InStepNext DEF Uncrashed
    <3>2. QED
      BY <1>0, <3>1 DEF InStep, OnlyPreparesUndone, KindOf
  <2>3. QED
    BY <1>0, <2>1, <2>2 DEF Made, HasStarted, KindOf
<1>2. ASSUME NEW d \in Drivers, Is(d, "call"), drv[d].seq = s, drv[d].call = "landed"
      PROVE  HasStarted(s)'
  <2>1. CASE Work(d)
    BY <1>0, <1>2, <2>1, LandedIsDone DEF HasStarted, KindOf, Uncrashed
  <2>2. CASE Clock \/ UNCHANGED vars
    BY <1>0, <1>2, <2>2 DEF Clock, vars, HasStarted, KindOf, Is
  <2>3. (\E e \in Drivers : Work(e)) => Work(d)
    BY OnlyOne DEF Uncrashed, Undisturbed
  <2>4. QED
    BY <2>1, <2>2, <2>3, UncrashedSteps
<1>3. QED
  BY <1>1, <1>2 DEF HasStarted

LEMMA OnlyStartedNext ==
  ASSUME Uncrashed, Settled, InStep, InStream, NothingFails, OnlyStarted, [Next]_vars
  PROVE  OnlyStarted'
<1>0. boot = "up" /\ Undisturbed
  BY DEF InStream, Uncrashed
<1> SUFFICES ASSUME NEW e \in Devices, encoder'[e].active
             PROVE  \E s \in Seqs :
                      /\ Device[OutputOf(s)] = e /\ HasStarted(s)'
                      /\ \A t \in Seqs : OutputOf(t) = OutputOf(s) /\ KindOf(t) = "stopStreaming" =>
                           row'[t] # "done"
  BY DEF OnlyStarted, KindOf, OutputOf
<1>1. CASE encoder[e].active
  <2>1. PICK s \in Seqs :
          /\ Device[OutputOf(s)] = e /\ HasStarted(s)
          /\ \A t \in Seqs : OutputOf(t) = OutputOf(s) /\ KindOf(t) = "stopStreaming" => row[t] # "done"
    BY <1>1 DEF OnlyStarted
  <2>2. HasStarted(s)'
    BY <1>0, <2>1, HasStartedStays
  <2>3. ASSUME NEW t \in Seqs, OutputOf(t) = OutputOf(s), KindOf(t) = "stopStreaming"
        PROVE  row'[t] # "done"
    <3>1. ASSUME NEW d \in Drivers, Work(d), row'[t] = "done" PROVE FALSE
      <4>1. CallOk(d) /\ Is(d, "call") /\ t = drv[d].seq
        BY <1>0, <2>1, <2>3, <3>1, RowDoes
      <4>2. ~encoder[Device[OutputOf(t)]].active
        BY <2>3, <4>1, StopLands
      <4>3. QED
        BY <1>1, <2>1, <2>3, <4>2
    <3>2. Clock \/ UNCHANGED vars => row' = row
      BY DEF Clock, vars, database
    <3>3. QED
      BY <1>0, <2>1, <2>3, <3>1, <3>2, UncrashedSteps
  <2>4. QED
    BY <2>1, <2>2, <2>3
<1>2. CASE ~encoder[e].active
  <2>1. PICK d \in Drivers : StartEncoder(d) /\ Device[OutputOf(drv[d].seq)] = e
    BY <1>0, <1>2, ActiveBy
  <2>2. PICK s \in Seqs : s = drv[d].seq /\ KindOf(s) = "startStreaming" /\ row[s] = "running"
                          /\ drv'[d].pc = "call" /\ drv'[d].seq = s /\ drv'[d].call = "landed"
    BY <1>0, <2>1, EncoderCalls
  <2>3. row' = row
    BY <1>0, <2>1, EncoderCalls
  <2>4. HasStarted(s)'
    BY <2>2 DEF HasStarted, Is, KindOf
  <2>5. \A t \in Seqs : OutputOf(t) = OutputOf(s) /\ KindOf(t) = "stopStreaming" => row'[t] # "done"
    BY <2>2, <2>3 DEF InStep, RowOrder
  <2>6. QED
    BY <2>1, <2>2, <2>4, <2>5
<1>3. QED
  BY <1>1, <1>2
\* An encoder that is started streams nothing yet.
LEMMA StartsOff ==
  ASSUME Tended, Settled, InStep, Clean, InTurn, FewFail, OnlyStarted,
         NEW d \in Drivers, StartEncoder(d)
  PROVE  ~encoder[Device[OutputOf(drv[d].seq)]].active
<1> DEFINE t == drv[d].seq
           p == OutputOf(t)
<1>0. Undisturbed /\ Turned /\ Alone /\ WellPlanned
  BY DEF Tended, Uncrashed, Turned, Undisturbed
<1>1. /\ t \in Seqs /\ KindOf(t) = "startStreaming" /\ row[t] = "running" /\ Is(d, "call")
      /\ drv[d].job = "start" /\ drv[d].out = p /\ ~Through(p)
  BY <1>0, StartsAreOn, EncoderCalls
<1> HIDE DEF t, p
<1>2. drv[d].call = "sent" /\ t = drv[d].seq /\ p = OutputOf(t) /\ p \in Live(1) /\ p \in Outputs
  BY <1>0, <1>1, StepsAre DEF StartEncoder, t, p
<1>3. Device[p] \in Devices
  BY <1>2, EngineAssumption
<1> SUFFICES ASSUME encoder[Device[p]].active PROVE FALSE
  BY <1>2
<1>4. PICK s \in Seqs :
        /\ Device[OutputOf(s)] = Device[p] /\ HasStarted(s)
        /\ \A u \in Seqs : OutputOf(u) = OutputOf(s) /\ KindOf(u) = "stopStreaming" => row[u] # "done"
  BY <1>3 DEF OnlyStarted
<1>5. KindOf(s) = "startStreaming" /\ OutputOf(s) \in Live(1) /\ OutputOf(s) \in Outputs
  BY <1>0, <1>4, StepsAre DEF HasStarted
<1>6. row[s] = "done"
  <2>1. ASSUME NEW e \in Drivers, drv[e].seq = s, drv[e].call = "landed" PROVE FALSE
    BY <1>0, <1>2, <2>1, OnlyOne
  <2>2. QED
    BY <1>4, <2>1 DEF HasStarted
<1>7. OutputOf(s) # p
  BY <1>0, <1>1, <1>2, <1>5, <1>6 DEF WellPlanned
<1>8. CASE Before(OutputOf(s), p)
  <2>1. Through(OutputOf(s))
    BY <1>1, <1>5, <1>8 DEF InTurn, StartsFit, InLoop, Is
  <2>2. PICK u \in Seqs : OutputOf(u) = OutputOf(s) /\ row[u] = "failed"
    BY <1>4, <2>1 DEF Through
  <2>3. KindOf(u) \in {"applyStreamTarget", "startStreaming"}
    BY <1>0, <2>2, StepsAre DEF FewFail
  <2>4. CASE KindOf(u) = "startStreaming"
    BY <1>0, <1>5, <1>6, <2>2, <2>4 DEF WellPlanned
  <2>5. CASE KindOf(u) = "applyStreamTarget"
    <3>1. Made(u)
      BY <1>5, <1>6, <2>2, <2>5 DEF InStep, RowOrder, Precede
    <3>2. QED
      BY <2>2, <3>1 DEF Made
  <2>6. QED
    BY <2>3, <2>4, <2>5
<1>9. CASE Before(p, OutputOf(s))
  <2>1. PICK u \in Seqs : KindOf(u) = "applyStreamTarget" /\ OutputOf(u) = OutputOf(s)
    BY <1>0, <1>5 DEF WellPlanned
  <2>2. Made(u)
    BY <1>5, <1>6, <2>1 DEF InStep, RowOrder, Precede
  <2>3. row[u] # "pending"
    BY <2>2 DEF Made
  <2>4. Through(p)
    BY <1>2, <1>9, <2>1, <2>3 DEF InTurn, TurnsTaken
  <2>5. QED
    BY <1>1, <2>4
<1>10. QED
  BY <1>2, <1>4, <1>5, <1>7, <1>8, <1>9, OneIsBefore

LEMMA StartsAiredNext ==
  ASSUME Tended, Settled, InStep, Clean, InTurn, FewFail, OnlyStarted, GoneLost, StartsAired,
         [Next]_vars
  PROVE  StartsAired'
<1>1. Turned
  BY DEF Tended, Uncrashed, Turned
<1>2. ASSUME NEW d \in Drivers, NEW s \in Seqs, StartEncoder(d), OutputOf(s) = OutputOf(drv[d].seq)
      PROVE  ~encoder[Device[OutputOf(s)]].active
  BY <1>2, StartsOff
<1>3. QED
  BY <1>1, <1>2, StartsAiredBy

\* A broadcast leaves the channel when it is discarded, and comes by being created.
LEMMA OffBy ==
  ASSUME Undisturbed, Settled, InStep, [Next]_vars, NEW b \in Broadcast,
         channel[b].state \in OnChannel, channel'[b].state \notin OnChannel
  PROVE  \E d \in Drivers : DiscardBroadcast(d) /\ b = drv[d].arg
<1>1. channel \in ChannelType
  BY DEF Settled, Served, WellTyped, TypeOK
<1>2. ASSUME NEW d \in Drivers, CreateBroadcast(d) PROVE FALSE
  BY <1>1, <1>2 DEF CreateBroadcast, Inserted, OnChannel, FreshIds, ChannelType
<1>3. ASSUME NEW d \in Drivers, StartEncoder(d) \/ StopEncoder(d) PROVE FALSE
  BY <1>1, <1>3 DEF StartEncoder, StopEncoder, VideoArrives, VideoStops, Moved, OnChannel, ChannelType
<1>4. ASSUME NEW d \in Drivers, DiscardBroadcast(d) PROVE b = drv[d].arg
  BY <1>1, <1>4 DEF DiscardBroadcast, Discarded, OnChannel, ChannelType, Moved
<1>5. QED
  BY <1>2, <1>3, <1>4, ChannelDoes, NobodyElseOnChannel, AloneSteps DEF Undisturbed

LEMMA UpcomingBy ==
  ASSUME Undisturbed, Settled, InStep, [Next]_vars, NEW b \in Broadcast,
         channel'[b].state = "upcoming"
  PROVE  \/ channel[b].state = "upcoming" /\ channel'[b].slot = channel[b].slot
         \/ \E d \in Drivers : /\ CreateBroadcast(d) /\ Is(d, "call") /\ drv[d].seq \in Seqs
                               /\ row[drv[d].seq] = "running" /\ KindOf(drv[d].seq) = "prepare"
                               /\ channel'[b].slot = Slot[OutputOf(drv[d].seq)]
                               /\ drv'[d].pc = "call"
<1>1. ASSUME NEW d \in Drivers, CreateBroadcast(d), channel[b].state # "upcoming"
      PROVE  /\ Is(d, "call") /\ drv[d].seq \in Seqs
             /\ row[drv[d].seq] = "running" /\ KindOf(drv[d].seq) = "prepare"
             /\ channel'[b].slot = Slot[OutputOf(drv[d].seq)] /\ drv'[d].pc = "call"
  <2>1. channel \in ChannelType /\ DriverTyped
    BY WellTypedDrivers DEF Settled, Served, WellTyped, TypeOK
  <2>2. Is(d, "call")
    BY <1>1 DEF CreateBroadcast, Calling
  <2>3. PICK c \in FreshIds(channel) :
          /\ channel' = Inserted(channel, c, Slot[StepOf(d).output])
          /\ Become(d, [drv[d] EXCEPT !.call = "landed", !.arg = c])
    BY <1>1 DEF CreateBroadcast
  <2>4. b = c /\ channel'[b].slot = Slot[StepOf(d).output]
    BY <1>1, <2>1, <2>3 DEF Inserted, ChannelType, FreshIds
  <2>5. drv'[d].pc = "call"
    <3>1. drv[d] \in DriverState
      BY <2>1, DriverOf
    <3>2. drv'[d] = [drv[d] EXCEPT !.call = "landed", !.arg = c]
      BY <2>1, <2>3, Becomes
    <3>3. QED
      BY <2>2, <3>1, <3>2 DEF Is, DriverState
  <2>6. KindOf(drv[d].seq) = "prepare"
    BY <1>1, <2>2, CallIs DEF CreateBroadcast, Calling
  <2>7. QED
    BY <2>2, <2>4, <2>5, <2>6, CallIs
<1>2. (\A d \in Drivers : ~CreateBroadcast(d)) =>
        channel[b].state = "upcoming" /\ channel'[b].slot = channel[b].slot
  BY OnlyInsertAdds DEF Settled, Served
<1>3. channel[b].state = "upcoming" => channel'[b].slot = channel[b].slot
  BY ChannelKeeps DEF Undisturbed, Settled, Served
<1>4. QED
  BY <1>1, <1>2, <1>3
LEMMA PreparedIsItsOwn ==
  ASSUME Settled, NEW s \in Seqs, KindOf(s) = "prepare", row[s] = "done"
  PROVE  Of(ext[s], OutputOf(s))
<1>1. SameSteps(version)
  BY PlanIsCommitted DEF SameSteps, Committed
<1>2. QED
  BY <1>1 DEF Settled, Served, RowsRight, Trusted, KindOf, OutputOf

\* What a discard leads to, and what leads to one.
LEMMA UndoingDoes ==
  ASSUME Undisturbed, Settled, InStep, NothingFails, NEW d \in Drivers, Work(d), Is(d, "undoing")
  PROVE  \/ /\ UndoOk(d) /\ drv[d].call = "landed" /\ row'[drv[d].seq] = "compensated"
            /\ channel' = channel /\ drv'[d].pc = "undo"
         \/ /\ DiscardBroadcast(d) /\ drv[d].call = "sent" /\ row' = row /\ ext' = ext
            /\ channel' = Discarded(channel, drv[d].arg)
            /\ drv'[d] = [drv[d] EXCEPT !.call = "landed"]
<1>1. DiscardBroadcast(d) \/ UndoOk(d)
  BY AtWork DEF NothingFails
<1>2. DriverTyped /\ drv[d] \in DriverState /\ row \in [Seqs -> StepState] /\ drv[d].seq \in Seqs
  BY UndoIs DEF Undoing, Is, UndoFits
<1>3. CASE DiscardBroadcast(d)
  <2>1. drv'[d] = [drv[d] EXCEPT !.call = "landed"]
    BY <1>2, <1>3, Becomes DEF DiscardBroadcast, Answered
  <2>2. QED
    BY <1>3, <2>1 DEF DiscardBroadcast, database
<1>4. CASE UndoOk(d)
  <2>1. drv'[d] = [drv[d] EXCEPT !.pc = "undo", !.call = "none", !.arg = 0]
    BY <1>2, <1>4, Becomes DEF UndoOk, Undone
  <2>2. drv'[d].pc = "undo"
    BY <1>2, <2>1 DEF DriverState
  <2>3. QED
    BY <1>2, <1>4, <2>2 DEF UndoOk, Undone, world
<1>5. QED
  BY <1>1, <1>3, <1>4

LEMMA DiscardsBy ==
  ASSUME Undisturbed, Settled, InStep, NothingFails, NEW d \in Drivers, Work(d),
         drv'[d].pc = "undoing", drv'[d].call = "landed"
  PROVE  DiscardBroadcast(d) /\ Is(d, "undoing") /\ drv'[d].seq = drv[d].seq
<1>1. Undo(d) /\ ~UndoDone(d)
  <2>1. CASE TurnsOver(d)
    BY <2>1, TurnDoes DEF TurnsRight, ToRunUndo
  <2>2. QED
    BY <2>1, WorkIs, BeginFailDoes, BeginPrepareDoes, BeginStopDoes, BeginStartDoes,
       BeginCompleteDoes, MarkMissedDoes, NextStepDoes, CallDoes
<1>2. Undoing(d)
  BY <1>1, UndoDoes
<1>3. ~UndoStep(d)
  <2> SUFFICES ASSUME UndoStep(d) PROVE FALSE
    OBVIOUS
  <2>1. drv[d] \in DriverState /\ DriverTyped
    BY <1>2, UndoIs
  <2>2. PICK s \in drv[d].todo :
          \/ Become(d, [drv[d] EXCEPT !.todo = @ \ {s}])
          \/ Become(d, [drv[d] EXCEPT !.pc = "undoing", !.seq = s, !.call = "sent",
                               !.arg = PreparedId(Plan[drv[d].v][s].output), !.todo = @ \ {s}])
    BY DEF UndoStep
  <2>3. Is(d, "undo")
    BY DEF UndoStep
  <2>4. \/ drv'[d] = [drv[d] EXCEPT !.todo = @ \ {s}]
        \/ drv'[d] = [drv[d] EXCEPT !.pc = "undoing", !.seq = s, !.call = "sent",
                             !.arg = PreparedId(Plan[drv[d].v][s].output), !.todo = @ \ {s}]
    BY <2>1, <2>2, Becomes
  <2>5. QED
    BY <2>1, <2>3, <2>4 DEF DriverState, Is
<1>4. Is(d, "undoing")
  BY <1>1, <1>3 DEF Undo, DiscardBroadcast, UndoOk, UndoFault
<1>5. QED
  BY <1>1, <1>4, UndoingDoes, UndoDoes

LEMMA PrepareLandsNext ==
  ASSUME Uncrashed, Settled, InStep, boot = "up", NothingFails, [Next]_vars,
         NEW d \in Drivers, PrepareLands(d)
  PROVE  PrepareLands(d)'
<1>0. Undisturbed
  BY DEF Uncrashed
<1> SUFFICES ASSUME drv'[d].pc = "call", KindOf(drv'[d].seq) = "prepare", drv'[d].call = "landed"
             PROVE  channel'[drv'[d].arg].state \in OnChannel
  BY DEF PrepareLands, Is, KindOf
<1>1. CASE Work(d)
  <2>1. Is(d, "call") /\ KindOf(drv[d].seq) = "prepare" /\ drv[d].seq \in Seqs
        /\ drv'[d].seq = drv[d].seq
    BY <1>0, <1>1, LandsBy
  <2>2. drv[d] \in DriverState /\ DriverTyped /\ StepOf(d).kind = "prepare" /\ channel \in ChannelType
    BY <1>0, <2>1, CallIs, WellTypedDrivers DEF Settled, Served, WellTyped, TypeOK
  <2>3. Call(d)
    BY <1>1, <2>1, AtWork
  <2>4. ~CallOk(d)
    BY <1>0, <1>1, <2>3, CallDoes, LandedIsDone, <2>1 DEF CallOk, Is
  <2>5. LookForBroadcast(d) \/ CreateBroadcast(d)
    BY <2>1, <2>2, <2>3, <2>4 DEF Call, PointEncoder, StartEncoder, StopEncoder, CloseBroadcast,
       NoTarget, Calling, NothingFails
  <2>6. CASE LookForBroadcast(d)
    <3>1. \/ Become(d, [drv[d] EXCEPT !.call = "absent"])
          \/ \E b \in Matching(channel, Slot[StepOf(d).output]) :
               Become(d, [drv[d] EXCEPT !.call = "landed", !.arg = b])
      BY <2>6 DEF LookForBroadcast
    <3>2. ~Become(d, [drv[d] EXCEPT !.call = "absent"])
      <4>1. Become(d, [drv[d] EXCEPT !.call = "absent"]) => drv'[d] = [drv[d] EXCEPT !.call = "absent"]
        BY <2>2, Becomes
      <4>2. QED
        BY <2>2, <4>1 DEF DriverState
    <3>3. PICK b \in Matching(channel, Slot[StepOf(d).output]) :
            Become(d, [drv[d] EXCEPT !.call = "landed", !.arg = b])
      BY <3>1, <3>2
    <3>4. drv'[d] = [drv[d] EXCEPT !.call = "landed", !.arg = b]
      BY <2>2, <3>3, Becomes
    <3>5. drv'[d].arg = b
      BY <2>2, <3>4 DEF DriverState
    <3>6. channel' = channel
      BY <2>6 DEF LookForBroadcast, world
    <3>7. QED
      BY <3>3, <3>5, <3>6 DEF Matching, OnChannel
  <2>7. CASE CreateBroadcast(d)
    <3>1. PICK b \in FreshIds(channel) :
            /\ channel' = Inserted(channel, b, Slot[StepOf(d).output])
            /\ Become(d, [drv[d] EXCEPT !.call = "landed", !.arg = b])
      BY <2>7 DEF CreateBroadcast
    <3>2. drv'[d] = [drv[d] EXCEPT !.call = "landed", !.arg = b]
      BY <2>2, <3>1, Becomes
    <3>3. drv'[d].arg = b
      BY <2>2, <3>2 DEF DriverState
    <3>4. channel'[b].state = "upcoming"
      BY <2>2, <3>1 DEF Inserted, ChannelType, FreshIds
    <3>5. QED
      BY <3>3, <3>4 DEF OnChannel
  <2>8. QED
    BY <2>5, <2>6, <2>7
<1>2. CASE Clock \/ UNCHANGED vars
  <2>1. drv' = drv /\ channel' = channel
    BY <1>2 DEF Clock, vars, world
  <2>2. QED
    BY <2>1 DEF PrepareLands, Is
<1>3. (\E e \in Drivers : Work(e)) => Work(d)
  BY <1>0, OnlyOne DEF Undisturbed
<1>4. QED
  BY <1>1, <1>2, <1>3, UncrashedSteps
LEMMA PreparedStandsNext ==
  ASSUME Uncrashed, Settled, InStep, boot = "up", NothingFails, [Next]_vars,
         \A d \in Drivers : UndoesItsOwn(d), PreparedStands
  PROVE  PreparedStands'
<1>0. Undisturbed /\ Alone /\ SlotsOnce /\ WellPlanned
  BY DEF Uncrashed, Undisturbed
<1>1. ASSUME NEW d \in Drivers PROVE PrepareLands(d)'
  BY PrepareLandsNext DEF PreparedStands
<1>2. ASSUME NEW s \in Seqs, KindOf(s) = "prepare", row[s] = "done", row'[s] = "done"
      PROVE  channel'[ext'[s]].state \in OnChannel \/ Discards(s)'
  <2>1. ext'[s] = ext[s]
    BY <1>0, <1>2, PreparedStays
  <2>2. Of(ext[s], OutputOf(s))
    BY <1>2, PreparedIsItsOwn
  <2>3. ASSUME NEW d \in Drivers, Is(d, "undoing"), drv[d].seq = s, drv[d].call = "landed"
        PROVE  Discards(s)'
    <3>1. ~Work(d)
      <4> SUFFICES ASSUME Work(d) PROVE FALSE
        OBVIOUS
      <4>1. row'[s] = "compensated"
        BY <1>0, <2>3, UndoingDoes
      <4>2. QED
        BY <1>2, <4>1
    <3>2. \A e \in Drivers : ~Work(e)
      BY <1>0, <3>1, OnlyOne
    <3>3. drv' = drv
      BY <3>2, UncrashedSteps DEF Clock, vars
    <3>4. QED
      BY <2>3, <3>3 DEF Discards, Is
  <2>4. ASSUME channel[ext[s]].state \in OnChannel, channel'[ext[s]].state \notin OnChannel
        PROVE  Discards(s)'
    <3>1. PICK d \in Drivers : DiscardBroadcast(d) /\ ext[s] = drv[d].arg
      BY <1>0, <2>2, <2>4, OffBy DEF Of
    <3>2. Is(d, "undoing") /\ drv[d].call = "sent" /\ Work(d)
      BY <3>1 DEF DiscardBroadcast, Work, Undo
    <3>3. drv[d].seq \in Seqs /\ KindOf(drv[d].seq) = "prepare"
          /\ drv[d].arg = ext[drv[d].seq] /\ Of(drv[d].arg, OutputOf(drv[d].seq))
      BY <1>0, <3>2, UndoIs DEF UndoesItsOwn, UndoFits, Undoing, Is
    <3>4. drv[d].seq = s
      BY <1>0, <1>2, <2>2, <3>1, <3>3 DEF Of, SlotsOnce
    <3>5. drv[d] \in DriverState
      BY <1>0, <3>2, UndoIs DEF Undoing, Is
    <3>6. drv'[d] = [drv[d] EXCEPT !.call = "landed"]
      BY <1>0, <3>2, UndoingDoes
    <3>7. drv'[d].pc = "undoing" /\ drv'[d].seq = s /\ drv'[d].call = "landed"
      BY <3>2, <3>4, <3>5, <3>6 DEF DriverState, Is
    <3>8. QED
      BY <3>7 DEF Discards, Is
  <2>5. QED
    BY <1>2, <2>1, <2>3, <2>4 DEF PreparedStands, Discards
<1>3. ASSUME NEW s \in Seqs, KindOf(s) = "prepare", row[s] # "done", row'[s] = "done"
      PROVE  channel'[ext'[s]].state \in OnChannel
  <2>1. PICK d \in Drivers : Work(d)
    <3>1. Clock \/ UNCHANGED vars => row' = row
      BY DEF Clock, vars, database
    <3>2. QED
      BY <1>3, <3>1, UncrashedSteps
  <2>2. CallOk(d) /\ Is(d, "call") /\ s = drv[d].seq
    BY <1>0, <1>3, <2>1, RowDoes
  <2>3. drv[d].call = "landed" /\ channel' = channel
        /\ ext' = [ext EXCEPT ![s] = IF StepOf(d).kind = "prepare" THEN drv[d].arg ELSE 0]
    BY <2>2 DEF CallOk, world
  <2>4. StepOf(d).kind = "prepare"
    BY <1>0, <1>3, <2>2, CallIs
  <2>5. ext' = [ext EXCEPT ![s] = drv[d].arg]
    BY <2>3, <2>4
  <2>6. ext \in [Seqs -> BroadcastId]
    BY DEF Settled, Served, WellTyped, TypeOK
  <2>7. ext'[s] = drv[d].arg
    BY <2>5, <2>6
  <2>8. QED
    BY <1>3, <2>2, <2>3, <2>7 DEF PreparedStands, PrepareLands
<1>4. ASSUME NEW s \in Seqs, KindOf(s) = "prepare", row'[s] = "done"
      PROVE  channel'[ext'[s]].state \in OnChannel \/ Discards(s)'
  BY <1>2, <1>3, <1>4
<1>5. QED
  BY <1>1, <1>4 DEF PreparedStands, KindOf

LEMMA UndoneIsOffNext ==
  ASSUME Uncrashed, Settled, InStep, boot = "up", NothingFails, [Next]_vars, OneBroadcast,
         \A d \in Drivers : UndoesItsOwn(d), PreparedStands, UndoneIsOff
  PROVE  UndoneIsOff'
<1>0. Undisturbed /\ Alone /\ SlotsOnce /\ WellPlanned
  BY DEF Uncrashed, Undisturbed
<1> SUFFICES ASSUME NEW b \in Broadcast, NEW s \in Seqs, KindOf(s) = "prepare",
                    channel'[b].slot = Slot[OutputOf(s)], row'[s] = "compensated" \/ Discards(s)',
                    channel'[b].state = "upcoming"
             PROVE  FALSE
  BY DEF UndoneIsOff, KindOf, OutputOf
<1>1. ASSUME NEW d \in Drivers, CreateBroadcast(d), drv[d].seq \in Seqs, KindOf(drv[d].seq) = "prepare",
             row[drv[d].seq] = "running", drv'[d].pc = "call",
             channel'[b].slot = Slot[OutputOf(drv[d].seq)]
      PROVE  FALSE
  <2>1. drv[d].seq = s
    BY <1>0, <1>1 DEF SlotsOnce
  <2>2. row'[s] = "running"
    BY <1>1, <2>1 DEF CreateBroadcast, database
  <2>3. ~Discards(s)'
    <3>1. \A e \in Drivers : drv'[e].pc # "undoing"
      BY <1>0, <1>1, OnlyOne
    <3>2. QED
      BY <3>1 DEF Discards, Is
  <2>4. QED
    BY <2>2, <2>3
<1>2. channel[b].state = "upcoming" /\ channel[b].slot = Slot[OutputOf(s)]
  BY <1>0, <1>1, UpcomingBy
<1>3. row[s] # "compensated" /\ ~Discards(s)
  BY <1>2 DEF UndoneIsOff
<1>4. CASE row'[s] = "compensated"
  <2>1. PICK d \in Drivers : Is(d, "undoing") /\ s = drv[d].seq
    BY <1>0, <1>3, <1>4, CompensatesBy
  <2>2. Work(d)
    <3>1. Clock \/ UNCHANGED vars => row' = row
      BY DEF Clock, vars, database
    <3>2. QED
      BY <1>0, <1>3, <1>4, <3>1, OnlyOne, UncrashedSteps
  <2>3. drv[d].call = "landed"
    BY <1>0, <1>3, <1>4, <2>1, <2>2, UndoingDoes
  <2>4. QED
    BY <1>3, <2>1, <2>3 DEF Discards
<1>5. CASE Discards(s)'
  <2>1. PICK d \in Drivers : drv'[d].pc = "undoing" /\ drv'[d].seq = s /\ drv'[d].call = "landed"
    BY <1>5 DEF Discards, Is
  <2>2. Work(d)
    <3>1. drv' # drv
      BY <1>3, <2>1 DEF Discards, Is
    <3>2. Clock \/ UNCHANGED vars => drv' = drv
      BY DEF Clock, vars
    <3>3. QED
      BY <1>0, <3>1, <3>2, OnlyOne, UncrashedSteps
  <2>3. DiscardBroadcast(d) /\ Is(d, "undoing") /\ drv[d].seq = s
    BY <1>0, <2>1, <2>2, DiscardsBy
  <2>4. drv[d].call = "sent" /\ channel' = Discarded(channel, drv[d].arg)
    BY <2>3 DEF DiscardBroadcast
  <2>5. row[s] = "done" /\ drv[d].arg = ext[s] /\ Of(ext[s], OutputOf(s))
    BY <1>0, <2>3, UndoIs DEF UndoesItsOwn, UndoFits, Undoing, Is
  <2>6. channel[ext[s]].state \in OnChannel
    BY <1>3, <2>5 DEF PreparedStands
  <2>7. b = drv[d].arg
    BY <1>2, <2>5, <2>6 DEF OneBroadcast, Of, OnChannel
  <2>8. channel'[b].state # "upcoming"
    <3>1. channel \in ChannelType
      BY DEF Settled, Served, WellTyped, TypeOK
    <3>2. QED
      BY <2>4, <2>7, <3>1 DEF Discarded, ChannelType
  <2>9. QED
    BY <2>8
<1>6. QED
  BY <1>4, <1>5
\* What is to be undone is undone.
LEMMA UndoesStays ==
  ASSUME Uncrashed, Settled, InStep, boot = "up", NothingFails, [Next]_vars,
         NEW d \in Drivers, NEW s \in Seqs, row'[s] = "done", Undoes(d, s)
  PROVE  Undoes(d, s)'
<1>0. Undisturbed
  BY DEF Uncrashed
<1>1. /\ drv[d] \in DriverState /\ DriverTyped /\ row \in [Seqs -> StepState]
      /\ Undoing(d) /\ drv[d].todo \subseteq Seqs
  BY <1>0, UndoIs DEF Undoes, DriverState
<1>2. CASE Work(d) /\ Is(d, "undoing")
  <2>1. CASE UndoOk(d)
    <3>1. drv'[d] = [drv[d] EXCEPT !.pc = "undo", !.call = "none", !.arg = 0]
      BY <1>1, <2>1, Becomes DEF UndoOk, Undone
    <3>2. drv[d].seq \in Seqs /\ row' = [row EXCEPT ![drv[d].seq] = "compensated"]
      BY <1>0, <1>1, <1>2, <2>1, UndoIs DEF UndoOk, Undone, UndoFits
    <3>3. s \in drv[d].todo
      BY <1>1, <3>2 DEF Undoes
    <3>4. drv'[d].pc = "undo" /\ drv'[d].todo = drv[d].todo
      BY <1>1, <3>1 DEF DriverState
    <3>5. QED
      BY <3>3, <3>4 DEF Undoes, Undoing, Is
  <2>2. CASE drv'[d] = [drv[d] EXCEPT !.call = "landed"]
    <3>1. drv'[d].pc = "undoing" /\ drv'[d].todo = drv[d].todo /\ drv'[d].seq = drv[d].seq
      BY <1>1, <1>2, <2>2 DEF DriverState, Is
    <3>2. QED
      BY <1>2, <3>1 DEF Undoes, Undoing, Is
  <2>3. QED
    BY <1>0, <1>2, <2>1, <2>2, UndoingDoes
<1>3. CASE Work(d) /\ Is(d, "undo")
  <2>1. s \in drv[d].todo
    BY <1>3 DEF Undoes, Is
  <2>2. UndoStep(d)
    BY <1>3, <2>1, AtWork DEF UndoDone
  <2>3. PICK m \in drv[d].todo :
          \/ /\ row' = [row EXCEPT ![m] = "compensated"]
             /\ Become(d, [drv[d] EXCEPT !.todo = @ \ {m}])
          \/ Become(d, [drv[d] EXCEPT !.pc = "undoing", !.seq = m, !.call = "sent",
                               !.arg = PreparedId(Plan[drv[d].v][m].output), !.todo = @ \ {m}])
    BY <2>2 DEF UndoStep
  <2>4. CASE /\ row' = [row EXCEPT ![m] = "compensated"]
             /\ Become(d, [drv[d] EXCEPT !.todo = @ \ {m}])
    <3>1. drv'[d] = [drv[d] EXCEPT !.todo = @ \ {m}]
      BY <1>1, <2>4, Becomes
    <3>2. m # s
      BY <1>1, <2>4
    <3>3. drv'[d].pc = "undo" /\ s \in drv'[d].todo
      BY <1>1, <1>3, <2>1, <3>1, <3>2 DEF DriverState, Is
    <3>4. QED
      BY <3>3 DEF Undoes, Undoing, Is
  <2>5. CASE Become(d, [drv[d] EXCEPT !.pc = "undoing", !.seq = m, !.call = "sent",
                               !.arg = PreparedId(Plan[drv[d].v][m].output), !.todo = @ \ {m}])
    <3>1. drv'[d] = [drv[d] EXCEPT !.pc = "undoing", !.seq = m, !.call = "sent",
                            !.arg = PreparedId(Plan[drv[d].v][m].output), !.todo = @ \ {m}]
      BY <1>1, <2>5, Becomes
    <3>2. drv'[d].pc = "undoing" /\ drv'[d].seq = m /\ drv'[d].todo = drv[d].todo \ {m}
      BY <1>1, <3>1 DEF DriverState
    <3>3. QED
      BY <2>1, <3>2 DEF Undoes, Undoing, Is
  <2>6. QED
    BY <2>3, <2>4, <2>5
<1>4. CASE Clock \/ UNCHANGED vars
  <2>1. drv' = drv
    BY <1>4 DEF Clock, vars
  <2>2. QED
    BY <2>1 DEF Undoes, Undoing, Is
<1>5. (\E e \in Drivers : Work(e)) => Work(d)
  BY <1>0, OnlyOne DEF Undisturbed
<1>6. QED
  BY <1>1, <1>2, <1>3, <1>4, <1>5, UncrashedSteps DEF Undoing, Is

LEMMA NewlyDone ==
  ASSUME Uncrashed, Settled, InStep, boot = "up", [Next]_vars,
         NEW s \in Seqs, row[s] # "done", row'[s] = "done"
  PROVE  \E d \in Drivers : CallOk(d) /\ Work(d) /\ Is(d, "call") /\ s = drv[d].seq
<1>1. PICK d \in Drivers : Work(d)
  <2>1. Clock \/ UNCHANGED vars => row' = row
    BY DEF Clock, vars, database
  <2>2. QED
    BY <2>1, UncrashedSteps
<1>2. QED
  BY <1>1, RowDoes DEF Uncrashed

\* An output that fails to start is undone.
LEMMA FailedIsUndone ==
  ASSUME Uncrashed, Settled, InStep, Clean, boot = "up", NothingFails, [Next]_vars, FailedUndone,
         NEW s \in Seqs, KindOf(s) = "prepare", row'[s] = "done", StartFailed(OutputOf(s))'
  PROVE  \E d \in Drivers :
           \/ drv'[d].pc = "failed" /\ drv'[d].job = "start" /\ drv'[d].out = OutputOf(s)
           \/ Undoes(d, s)'
<1>0. Undisturbed /\ WellPlanned
  BY DEF Uncrashed, Undisturbed
<1>1. PICK t \in Seqs : OutputOf(t) = OutputOf(s) /\ PhaseOf(t) = "start" /\ row'[t] = "failed"
  BY DEF StartFailed, OutputOf, PhaseOf
<1>2. CASE row[s] = "done" /\ row[t] = "failed"
  <2>1. StartFailed(OutputOf(s))
    BY <1>1, <1>2 DEF StartFailed
  <2>2. PICK d \in Drivers :
          \/ Is(d, "failed") /\ drv[d].job = "start" /\ drv[d].out = OutputOf(s)
          \/ Undoes(d, s)
    BY <1>2, <2>1 DEF FailedUndone
  <2>3. CASE Undoes(d, s)
    BY <2>3, UndoesStays
  <2>4. CASE Is(d, "failed") /\ drv[d].job = "start" /\ drv[d].out = OutputOf(s) /\ Work(d)
    <3>1. StepFailed(d)
      BY <2>4, AtWork
    <3>2. Become(d, [drv[d] EXCEPT !.pc = "undo", !.why = "output",
                            !.todo = ToUndo(drv[d].v, {drv[d].out})])
      BY <2>4, <3>1 DEF StepFailed
    <3>3. drv[d] \in DriverState /\ DriverTyped /\ drv[d].v = 1
      BY <1>0, <2>4, JobIs DEF Is
    <3>4. drv'[d] = [drv[d] EXCEPT !.pc = "undo", !.why = "output",
                            !.todo = ToUndo(1, {drv[d].out})]
      BY <3>2, <3>3, Becomes
    <3>5. drv'[d].pc = "undo" /\ drv'[d].todo = ToUndo(1, {drv[d].out})
      BY <3>3, <3>4 DEF DriverState
    <3>6. s \in ToUndo(1, {drv[d].out})
      BY <1>2, <2>4, ToUndoIs
    <3>7. QED
      BY <3>5, <3>6 DEF Undoes, Undoing, Is
  <2>5. CASE Is(d, "failed") /\ drv[d].job = "start" /\ drv[d].out = OutputOf(s)
             /\ (Clock \/ UNCHANGED vars)
    <3>1. drv' = drv
      BY <2>5 DEF Clock, vars
    <3>2. QED
      BY <2>5, <3>1 DEF Is
  <2>6. (\E e \in Drivers : Work(e)) => Work(d)
    BY <1>0, OnlyOne DEF Undisturbed
  <2>7. QED
    BY <2>2, <2>3, <2>4, <2>5, <2>6, UncrashedSteps
<1>3. CASE row[s] = "done" /\ row[t] # "failed"
  <2>1. PICK d \in Drivers : Work(d)
    <3>1. Clock \/ UNCHANGED vars => row' = row
      BY DEF Clock, vars, database
    <3>2. QED
      BY <1>1, <1>3, <3>1, UncrashedSteps
  <2>2. \/ drv'[d].pc = "undo" /\ drv'[d].todo = ToUndo(1, {OutputOf(s)})
        \/ drv'[d].pc = "failed" /\ drv'[d].job = "start" /\ drv'[d].out = OutputOf(s)
    BY <1>0, <1>1, <1>3, <2>1, FailsBy
  <2>3. s \in ToUndo(1, {OutputOf(s)})
    BY <1>3, ToUndoIs
  <2>4. QED
    BY <2>2, <2>3 DEF Undoes, Undoing, Is
<1>4. CASE row[s] # "done"
  <2>1. PICK d \in Drivers : CallOk(d) /\ Work(d) /\ Is(d, "call") /\ s = drv[d].seq
    BY <1>4, NewlyDone
  <2>2. Selected(d, s) /\ drv[d].job \in {"prepare", "start", "stop", "complete"}
        /\ (drv[d].job = "prepare" => run = "preparing")
    BY <1>0, <2>1, CallIs
  <2>3. drv[d].job \in {"prepare", "start"} /\ drv[d].out = OutputOf(s)
    BY <1>0, <2>2, StepsAre DEF Selected, PhasesOf
  <2>4. row[t] = "failed"
    <3>1. t # s
      BY <1>1
    <3>2. row' = [row EXCEPT ![s] = "done"]
      BY <2>1 DEF CallOk
    <3>3. QED
      BY <1>1, <3>1, <3>2
  <2>5. CASE drv[d].job = "prepare"
    BY <1>0, <1>1, <2>2, <2>4, <2>5 DEF InStep, RunSays
  <2>6. CASE drv[d].job = "start"
    BY <1>1, <2>1, <2>3, <2>4, <2>6 DEF Clean, CleanFits, Is
  <2>7. QED
    BY <2>3, <2>5, <2>6
<1>5. QED
  BY <1>2, <1>3, <1>4
\* A run fails when everything that was prepared for it has been undone.
LEMMA FailsWhenUndone ==
  ASSUME Undisturbed, Settled, InStep, NEW d \in Drivers, Work(d), run' = "failed", run # "failed"
  PROVE  Is(d, "undo") /\ drv[d].todo = {} /\ drv[d].why = "failed" /\ row' = row
<1>1. CASE TurnsOver(d)
  <2>1. Undoing(d) /\ drv[d].why = "failed" /\ row' = row
    BY <1>1, TurnDoes DEF TurnsRight, ToRunUndo
  <2>2. UndoDone(d)
    BY <1>1, <2>1 DEF TurnsOver, StopPass, LoopDone, StepFailed, NextOutput, OutputsDone, Settle,
       Undoing, Is
  <2>3. QED
    BY <2>1, <2>2 DEF UndoDone
<1>2. CASE BeginStart(d)
  BY <1>2, BeginStartDoes
<1>3. CASE Call(d)
  BY <1>3, CallDoes
<1>4. CASE Undo(d) /\ ~UndoDone(d)
  BY <1>4, UndoDoes
<1>5. QED
  BY <1>1, <1>2, <1>3, <1>4, WorkIs, BeginFailDoes, BeginPrepareDoes, BeginStopDoes, BeginCompleteDoes,
     MarkMissedDoes, NextStepDoes

\* Everything that was prepared for a run that fails is undone.
LEMMA PreparedIsUndone ==
  ASSUME Uncrashed, Settled, InStep, boot = "up", NothingFails, [Next]_vars, FailedUndone,
         NEW s \in Seqs, KindOf(s) = "prepare", row'[s] = "done"
  PROVE  /\ run' # "failed"
         /\ \A d \in Drivers : Undoing(d)' /\ drv'[d].why = "failed" => Undoes(d, s)'
<1>0. Undisturbed
  BY DEF Uncrashed
<1>1. ASSUME row[s] # "done" PROVE run # "failed" /\ \A d \in Drivers : ~Undoing(d)
  <2>1. PICK d \in Drivers : CallOk(d) /\ Work(d) /\ Is(d, "call") /\ s = drv[d].seq
    BY <1>1, NewlyDone
  <2>2. run # "failed"
    BY <1>0, <2>1, CallIs
  <2>3. QED
    BY <1>0, <2>1, <2>2, OnlyOne DEF Undisturbed, Undoing, Is
<1>2. /\ run # "failed"
      /\ \A d \in Drivers : Undoing(d) /\ drv[d].why = "failed" => row[s] = "done" /\ Undoes(d, s)
  BY <1>1 DEF FailedUndone
<1>3. CASE Clock \/ UNCHANGED vars
  <2>1. drv' = drv /\ run' = run /\ row' = row
    BY <1>3 DEF Clock, vars, database
  <2>2. QED
    BY <1>2, <2>1 DEF Undoes, Undoing, Is
<1>4. ASSUME NEW d \in Drivers, Work(d)
      PROVE  run' # "failed" /\ (Undoing(d)' /\ drv'[d].why = "failed" => Undoes(d, s)')
  <2>1. run' # "failed"
    <3> SUFFICES ASSUME run' = "failed" PROVE FALSE
      OBVIOUS
    <3>1. Is(d, "undo") /\ drv[d].todo = {} /\ drv[d].why = "failed" /\ row' = row
      BY <1>0, <1>2, <1>4, FailsWhenUndone
    <3>2. Undoes(d, s)
      BY <1>2, <3>1 DEF Undoing, Is
    <3>3. QED
      BY <3>1, <3>2 DEF Undoes, Is
  <2>2. ASSUME drv'[d].pc \in {"undo", "undoing"}, drv'[d].why = "failed" PROVE Undoes(d, s)'
    <3>1. CASE Undo(d) /\ ~UndoDone(d)
      <4>1. Undoing(d) /\ drv[d].why = "failed"
        BY <1>0, <2>2, <3>1, UndoDoes
      <4>2. QED
        BY <1>2, <4>1, UndoesStays
    <3>2. ASSUME drv'[d].pc = "undo", drv'[d].todo = ToUndo(1, Outputs), row' = row
          PROVE  Undoes(d, s)'
      <4>1. OutputOf(s) \in Outputs
        BY <1>0, StepsAre DEF Undisturbed
      <4>2. s \in ToUndo(1, Outputs)
        BY <3>2, <4>1, ToUndoIs
      <4>3. QED
        BY <3>2, <4>2 DEF Undoes, Undoing, Is
    <3>3. CASE BeginFail(d)
      BY <1>0, <3>2, <3>3, BeginFailDoes
    <3>4. CASE TurnsOver(d)
      BY <1>0, <2>2, <3>2, <3>4, TurnDoes DEF TurnsRight, ToRunUndo
    <3>5. QED
      BY <1>0, <1>4, <2>2, <3>1, <3>3, <3>4, WorkIs, BeginPrepareDoes, BeginStopDoes, BeginStartDoes,
         BeginCompleteDoes, MarkMissedDoes, NextStepDoes, CallDoes
  <2>3. QED
    BY <2>1, <2>2 DEF Undoing, Is
<1>5. \A d, e \in Drivers : d = e
  BY <1>0, OnlyOne DEF Undisturbed
<1>6. QED
  BY <1>3, <1>4, <1>5, UncrashedSteps

LEMMA CompletesThroughNext ==
  ASSUME Uncrashed, Settled, InStep, Clean, boot = "up", CompletesThrough, [Next]_vars
  PROVE  CompletesThrough'
<1>0. Undisturbed
  BY DEF Uncrashed
<1> SUFFICES ASSUME run' = "completed", NEW o \in Live(1) PROVE Through(o)'
  BY DEF CompletesThrough, Live
<1>1. CASE run = "completed"
  BY <1>0, <1>1, ThroughStays DEF CompletesThrough
<1>2. CASE run # "completed"
  <2>1. PICK d \in Drivers : Work(d)
    <3>1. Clock \/ UNCHANGED vars => run' = run
      BY DEF Clock, vars, database
    <3>2. QED
      BY <1>2, <3>1, UncrashedSteps
  <2>2. run = "completing"
    BY <1>0, <1>2, <2>1, CompletesBy
  <2>3. Through(o)
    BY <2>2 DEF InStep, RunSays
  <2>4. QED
    BY <1>0, <2>2, <2>3, ThroughStays
<1>3. QED
  BY <1>1, <1>2

LEMMA TidyInit == ASSUME Undisturbed, Init PROVE Tidy
<1>1. /\ \A s \in Seqs : row[s] = "pending"
      /\ \A d \in Drivers : drv[d].pc = "idle"
      /\ \A e \in Devices : ~encoder[e].active
      /\ run = "scheduled"
  BY DEF Init, IdleDriver
<1>2. \A s \in Seqs : ~HasStarted(s) /\ ~Discards(s)
  BY <1>1 DEF HasStarted, Discards, Is
<1>3. FewFail /\ OnlyStarted /\ UndoneIsOff /\ FailedUndone
  BY <1>1, <1>2 DEF FewFail, OnlyStarted, UndoneIsOff, FailedUndone
<1>4. PreparedStands
  BY <1>1 DEF PreparedStands, PrepareLands, Is
<1>5. StartsAired /\ CompletesThrough
  BY <1>1, <1>2 DEF StartsAired, CompletesThrough
<1>6. QED
  BY <1>3, <1>4, <1>5 DEF Tidy

LEMMA TidyNext ==
  ASSUME Tended, Settled, InStep, InStream, Clean, InTurn, OneBroadcast, GoneLost,
         \A d \in Drivers : UndoesItsOwn(d), Tidy, [Next]_vars
  PROVE  Tidy'
<1>0. Uncrashed /\ Undisturbed /\ boot = "up" /\ MaxCrashes = 0
  BY DEF Tended, Uncrashed, InStream
<1> SUFFICES ASSUME Faultless'
             PROVE  /\ FewFail' /\ OnlyStarted' /\ PreparedStands' /\ UndoneIsOff' /\ FailedUndone'
                    /\ StartsAired' /\ CompletesThrough'
  BY DEF Tidy
<1>1. Faultless /\ NothingFails
  BY <1>0, FaultlessBy
<1>2. /\ FewFail /\ OnlyStarted /\ PreparedStands /\ UndoneIsOff /\ FailedUndone
      /\ StartsAired /\ CompletesThrough
  BY <1>1 DEF Tidy
<1>3. FewFail' /\ OnlyStarted' /\ PreparedStands' /\ UndoneIsOff'
  BY <1>0, <1>1, <1>2, FewFailNext, OnlyStartedNext, PreparedStandsNext, UndoneIsOffNext
<1>4. StartsAired' /\ CompletesThrough'
  BY <1>0, <1>2, StartsAiredNext, CompletesThroughNext
<1>5. FailedUndone'
  <2>1. \A s \in Seqs :
          KindOf(s) = "prepare" /\ row'[s] = "done" /\ StartFailed(OutputOf(s))' =>
            \E d \in Drivers :
              \/ drv'[d].pc = "failed" /\ drv'[d].job = "start" /\ drv'[d].out = OutputOf(s)
              \/ Undoes(d, s)'
    BY <1>0, <1>1, <1>2, FailedIsUndone
  <2>2. \A s \in Seqs : KindOf(s) = "prepare" /\ row'[s] = "done" =>
          /\ run' # "failed"
          /\ \A d \in Drivers : Undoing(d)' /\ drv'[d].why = "failed" => Undoes(d, s)'
    BY <1>0, <1>1, <1>2, PreparedIsUndone
  <2>3. QED
    BY <2>1, <2>2 DEF FailedUndone, KindOf, OutputOf, Is
<1>6. QED
  BY <1>3, <1>4, <1>5
\* When nothing outside fails, what a finished run has prepared has been aired or
\* discarded: a row that is done in a failed run would still be undone; in a run
\* that has completed its output was stopped, so it was started and its broadcast
\* went out, or could not be started, and was undone.
LEMMA TidyIsClean ==
  ASSUME Tended, Settled, InStep, Tidy, OneBroadcast PROVE NoLitter
<1>0. Undisturbed /\ WellPlanned /\ Uncrashed
  BY DEF Tended, Uncrashed, Undisturbed
<1> SUFFICES ASSUME Finished, Faultless, NEW b \in Broadcast, channel[b].state = "upcoming"
             PROVE  FALSE
  BY DEF NoLitter, Faultless
<1>1. /\ FewFail /\ PreparedStands /\ UndoneIsOff /\ FailedUndone /\ StartsAired /\ CompletesThrough
      /\ \A d \in Drivers : drv[d].pc = "idle"
  BY DEF Tidy, Finished, AllIdle, Is
<1>2. PICK s \in Seqs : /\ KindOf(s) = "prepare" /\ Slot[OutputOf(s)] = channel[b].slot
                        /\ row[s] # "pending"
  BY DEF Settled, Known, NoOrphan, KindOf, OutputOf
<1>3. row[s] \in StepState
  BY DEF Settled, Served, WellTyped, TypeOK
<1>4. row[s] # "running"
  BY <1>0, <1>1 DEF InStep, RunningOwned, Is, Uncrashed
<1>5. row[s] # "failed"
  BY <1>0, <1>1, <1>2, StepsAre DEF FewFail
<1>6. row[s] # "compensated"
  BY <1>1, <1>2 DEF UndoneIsOff
<1>7. row[s] = "done"
  BY <1>2, <1>3, <1>4, <1>5, <1>6 DEF StepState
<1>8. ~StartFailed(OutputOf(s))
  BY <1>1, <1>2, <1>7 DEF FailedUndone, Undoes, Undoing, Is
<1>9. run = "completed"
  <2>1. run \in TerminalStates
    BY DEF Finished, Active, IsTerminal
  <2>2. run # "failed"
    BY <1>1, <1>2, <1>7 DEF FailedUndone
  <2>3. run # "cancelled"
    BY DEF InStep, RunSays
  <2>4. QED
    BY <2>1, <2>2, <2>3 DEF TerminalStates
<1>10. OutputOf(s) \in Live(1)
  BY <1>0, StepsAre
<1>11. PICK u \in Seqs : /\ OutputOf(u) = OutputOf(s)
                         /\ \/ KindOf(u) = "stopStreaming" /\ row[u] = "done"
                            \/ KindOf(u) # "finalize" /\ row[u] = "failed"
  BY <1>1, <1>9, <1>10 DEF CompletesThrough, Through
<1>12. KindOf(u) = "stopStreaming" /\ row[u] = "done"
  BY <1>1, <1>8, <1>11 DEF FewFail, StartFailed
<1>13. PICK t \in Seqs : KindOf(t) = "startStreaming" /\ OutputOf(t) = OutputOf(s)
  BY <1>0, <1>10 DEF WellPlanned
<1>14. row[t] = "done"
  BY <1>11, <1>12, <1>13 DEF InStep, RowOrder
<1>15. AiredAs(s)
  BY <1>1, <1>2, <1>13, <1>14 DEF StartsAired, HasStarted
<1>16. channel[ext[s]].state \in OnChannel
  BY <1>1, <1>2, <1>7 DEF PreparedStands, Discards, Is
<1>17. b = ext[s]
  BY <1>2, <1>15, <1>16 DEF OneBroadcast, AiredAs, Of, OnChannel
<1>18. QED
  BY <1>15, <1>17 DEF AiredAs, Aired

\* When nothing outside failed, a finished run leaves no broadcast behind that
\* never aired (engine.ts markMissed, fail; executor.ts compensateSelected).
THEOREM NothingIsLeftOver == ASSUME Tended PROVE Spec => []NoLitter
<1>1. Turned /\ Uncrashed /\ Undisturbed /\ Alone /\ SlotsOnce
  BY DEF Tended, Turned, Uncrashed, Undisturbed
<1> DEFINE Own == \A d \in Drivers : UndoesItsOwn(d)
           Inv == Own /\ GoneLost /\ OneBroadcast /\ Tidy
<1>2. Init => Inv
  BY <1>1, InAirInit, TidyInit, ServedInit DEF InAir
<1>3. Settled /\ InStep /\ Clean /\ InStream /\ InTurn /\ Inv /\ [Next]_vars => Inv'
  <2> SUFFICES ASSUME Settled, InStep, Clean, InStream, InTurn, Inv, [Next]_vars PROVE Inv'
    OBVIOUS
  <2>1. Own'
    BY <1>1, UndoesItsOwnNext
  <2>2. GoneLost'
    BY <1>1, GoneLostNext DEF InTurn
  <2>3. OneBroadcast'
    BY <1>1, OneBroadcastNext DEF Settled
  <2>4. Tidy'
    BY TidyNext
  <2>5. QED
    BY <2>1, <2>2, <2>3, <2>4
<1>4. Settled /\ InStep /\ Inv => NoLitter
  BY TidyIsClean
<1> HIDE DEF Inv
<1>5. QED
  BY <1>1, <1>2, <1>3, <1>4, SpecInTurn, SpecInStream, PTL DEF Spec
=============================================================================
