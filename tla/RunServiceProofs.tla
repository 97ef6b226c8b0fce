-------------------------- MODULE RunServiceProofs --------------------------
(***************************************************************************)
(* What a run does for the services it serves: calls are of the steps that *)
(* rows were committed for, and (with one scheduler at work) no service    *)
(* ever has a second broadcast.                                            *)
(***************************************************************************)
EXTENDS RunProofs, RunRows

-----------------------------------------------------------------------------
(* Calls match rows *)

\* The plan of version v has the steps that the rows were committed for.
SameSteps(v) ==
  /\ Len(Plan[v]) = Len(Committed)
  /\ \A s \in Seqs : /\ Plan[v][s].kind = Committed[s].kind
                     /\ Plan[v][s].output = Committed[s].output

\* Whoever runs the steps of a phase does so for a plan that the rows are of.
Faithful(r) ==
  /\ r.pc \in {"next", "loop", "call", "failed"} => r.job # "none"
  /\ r.job # "none" => SameSteps(r.v)

DriversFaithful == \A d \in Drivers : Faithful(drv[d])

\* One driver has moved, and it is faithful.
LEMMA OneMovesFaithfully ==
  ASSUME DriverTyped, DriversFaithful, NEW d \in Drivers, NEW r, Become(d, r), Faithful(r)
  PROVE  DriversFaithful'
<1>1. drv'[d] = r /\ drv' = [drv EXCEPT ![d] = r]
  BY Becomes DEF Become
<1>2. \A e \in Drivers : e # d => drv'[e] = drv[e]
  BY <1>1 DEF DriverTyped
<1>3. QED
  BY <1>1, <1>2 DEF DriversFaithful, Faithful

LEMMA RestFaithful ==
  ASSUME DriverTyped, DriversFaithful, NEW d \in Drivers,
         Rest(d) \/ Become(d, NextPass(d))
  PROVE  DriversFaithful'
<1>1. Faithful(IdleDriver) /\ Faithful(NextPass(d))
  BY DEF Faithful, IdleDriver, NextPass
<1>2. QED
  BY <1>1, OneMovesFaithfully DEF Rest

\* Only a plan that has not drifted is gone on with.
LEMMA NotDrifted == ASSUME ~Doomed PROVE SameSteps(version)
BY DEF Doomed, Drifted, SameSteps

LEMMA PassFaithful ==
  ASSUME WellTyped, DriversFaithful, NEW d \in Drivers, Pass(d) PROVE DriversFaithful'
<1> USE WellTypedDrivers
<1>1. CASE StopPass(d)
  BY <1>1, RestFaithful DEF StopPass
<1>2. CASE BeginFail(d)
  <2> DEFINE r == [Job(d, "none", "undo") EXCEPT !.why = "failed", !.todo = ToUndo(version, Outputs)]
  <2>1. Faithful(r)
    BY DEF Faithful, Job, IdleDriver
  <2>2. QED
    BY <1>2, <2>1, OneMovesFaithfully DEF BeginFail
<1>3. CASE BeginPrepare(d)
  <2> DEFINE r == [Job(d, "prepare", "next") EXCEPT !.again = TRUE, !.queue = Live(version)]
  <2>1. Faithful(r)
    BY <1>3, NotDrifted DEF BeginPrepare, Faithful, Job, IdleDriver
  <2>2. QED
    BY <1>3, <2>1, OneMovesFaithfully DEF BeginPrepare, Prepares
<1>4. CASE BeginStop(d)
  <2>1. PICK o \in StopsDue : Become(d, [Job(d, "stop", "loop") EXCEPT !.out = o])
    BY <1>4 DEF BeginStop
  <2>2. Faithful([Job(d, "stop", "loop") EXCEPT !.out = o])
    BY <1>4, NotDrifted DEF BeginStop, InWindow, Faithful, Job, IdleDriver
  <2>3. QED
    BY <2>1, <2>2, OneMovesFaithfully
<1>5. CASE MarkMissed(d)
  <2>1. PICK o \in StartsDue :
          Become(d, [Job(d, "start", "undo") EXCEPT !.out = o, !.why = "output",
                                                    !.todo = ToUndo(version, {o})])
    BY <1>5 DEF MarkMissed
  <2>2. Faithful([Job(d, "start", "undo") EXCEPT !.out = o, !.why = "output",
                                                 !.todo = ToUndo(version, {o})])
    BY <1>5, NotDrifted DEF MarkMissed, InWindow, Faithful, Job, IdleDriver
  <2>3. QED
    BY <2>1, <2>2, OneMovesFaithfully
<1>6. CASE BeginStart(d)
  <2>1. PICK o \in StartsDue : Become(d, [Job(d, "start", "loop") EXCEPT !.out = o])
    BY <1>6 DEF BeginStart
  <2>2. Faithful([Job(d, "start", "loop") EXCEPT !.out = o])
    BY <1>6, NotDrifted DEF BeginStart, InWindow, Faithful, Job, IdleDriver
  <2>3. QED
    BY <2>1, <2>2, OneMovesFaithfully
<1>7. CASE BeginComplete(d)
  <2> DEFINE r == [Job(d, "complete", "loop") EXCEPT !.good = Delivered]
  <2>1. Faithful(r)
    BY <1>7, NotDrifted DEF BeginComplete, InWindow, Faithful, Job, IdleDriver
  <2>2. QED
    BY <1>7, <2>1, OneMovesFaithfully DEF BeginComplete
<1>8. QED
  BY <1>1, <1>2, <1>3, <1>4, <1>5, <1>6, <1>7 DEF Pass

\* Whatever else a driver becomes in mid-job: it stays with its job and its plan.
LEMMA SameJobFaithful ==
  ASSUME DriverTyped, DriversFaithful, NEW d \in Drivers, NEW r, Become(d, r),
         r.job = drv[d].job, r.v = drv[d].v,
         \/ r.pc \notin {"next", "loop", "call", "failed"}
         \/ drv[d].pc \in {"next", "loop", "call", "failed"}
         \/ r.job # "none"
  PROVE  DriversFaithful'
<1>1. Faithful(r)
  BY DEF DriversFaithful, Faithful
<1>2. QED
  BY <1>1, OneMovesFaithfully

LEMMA LoopFaithful ==
  ASSUME WellTyped, DriversFaithful, NEW d \in Drivers,
         NextStep(d) \/ LoopDone(d) \/ StepFailed(d) \/ NextOutput(d) \/ OutputsDone(d)
  PROVE  DriversFaithful'
<1> USE WellTypedDrivers
<1>0. drv[d] \in DriverState
  BY DriverOf
<1>1. CASE NextStep(d)
  <2>1. PICK s \in Outstanding(d) :
          \/ Become(d, [drv[d] EXCEPT !.pc = "call", !.seq = s, !.att = 1, !.call = "sent",
                                      !.arg = Argument(drv[d].v, s)])
          \/ Rest(d)
    BY <1>1 DEF NextStep
  <2>2. QED
    BY <1>0, <1>1, <2>1, RestFaithful, SameJobFaithful DEF NextStep, Is, DriverState
<1>2. CASE LoopDone(d)
  <2>1. \/ Become(d, [drv[d] EXCEPT !.pc = "next", !.good = TRUE])
        \/ Become(d, [drv[d] EXCEPT !.pc = "settle", !.why = "completed"])
        \/ Become(d, [drv[d] EXCEPT !.pc = "undo", !.why = "failed",
                                    !.todo = ToUndo(drv[d].v, Outputs)])
        \/ Rest(d) \/ Become(d, NextPass(d))
    BY <1>2 DEF LoopDone
  <2>2. QED
    BY <1>0, <1>2, <2>1, RestFaithful, SameJobFaithful DEF LoopDone, Is, DriverState
<1>3. CASE StepFailed(d)
  <2>1. \/ Become(d, [drv[d] EXCEPT !.pc = "undo", !.why = "output",
                                    !.todo = ToUndo(drv[d].v, {drv[d].out})])
        \/ Become(d, [drv[d] EXCEPT !.pc = "undo", !.why = "failed",
                                    !.todo = ToUndo(drv[d].v, Outputs)])
        \/ Become(d, [drv[d] EXCEPT !.pc = "next"])
        \/ Become(d, NextPass(d))
    BY <1>3 DEF StepFailed
  <2>2. QED
    BY <1>0, <1>3, <2>1, RestFaithful, SameJobFaithful DEF StepFailed, Is, DriverState
<1>4. CASE NextOutput(d)
  <2>1. PICK o \in drv[d].queue :
          Become(d, [drv[d] EXCEPT !.pc = "loop", !.out = o, !.seq = 0, !.queue = @ \ {o}])
    BY <1>4 DEF NextOutput
  <2>2. QED
    BY <1>0, <1>4, <2>1, SameJobFaithful DEF NextOutput, Is, DriverState
<1>5. CASE OutputsDone(d)
  <2>1. \/ Become(d, [drv[d] EXCEPT !.pc = "settle", !.why = "cancelled"])
        \/ Become(d, [drv[d] EXCEPT !.pc = "undo", !.why = "failed",
                                    !.todo = ToUndo(drv[d].v, Outputs)])
        \/ Rest(d) \/ Become(d, NextPass(d))
    BY <1>5 DEF OutputsDone
  <2>2. QED
    BY <1>0, <1>5, <2>1, RestFaithful, SameJobFaithful DEF OutputsDone, Is, DriverState
<1>6. QED
  BY <1>1, <1>2, <1>3, <1>4, <1>5

LEMMA CallFaithful ==
  ASSUME WellTyped, DriversFaithful, NEW d \in Drivers, Call(d) PROVE DriversFaithful'
<1> USE WellTypedDrivers
<1>0. drv[d] \in DriverState /\ drv[d].pc = "call"
  BY DriverOf DEF Call, LookForBroadcast, CreateBroadcast, PointEncoder, StartEncoder, StopEncoder,
                  CloseBroadcast, CallOk, Fault, NoTarget, Calling, Is
<1>1. CASE LookForBroadcast(d)
  <2>1. \/ Become(d, [drv[d] EXCEPT !.call = "absent"])
        \/ \E b \in Broadcast : Become(d, [drv[d] EXCEPT !.call = "landed", !.arg = b])
    BY <1>1 DEF LookForBroadcast, Matching
  <2>2. QED
    BY <1>0, <2>1, SameJobFaithful DEF DriverState
<1>2. CASE CreateBroadcast(d)
  <2>1. \E b \in Broadcast : Become(d, [drv[d] EXCEPT !.call = "landed", !.arg = b])
    BY <1>2 DEF CreateBroadcast, FreshIds
  <2>2. QED
    BY <1>0, <2>1, SameJobFaithful DEF DriverState
<1>3. CASE PointEncoder(d) \/ StartEncoder(d) \/ StopEncoder(d) \/ CloseBroadcast(d)
  <2>1. Become(d, [drv[d] EXCEPT !.call = "landed"])
    BY <1>3 DEF PointEncoder, StartEncoder, StopEncoder, CloseBroadcast, Answered
  <2>2. QED
    BY <1>0, <2>1, SameJobFaithful DEF DriverState
<1>4. CASE CallOk(d)
  <2>1. Become(d, [drv[d] EXCEPT !.pc = "loop", !.att = 0, !.call = "none", !.arg = 0])
    BY <1>4 DEF CallOk
  <2>2. QED
    BY <1>0, <2>1, SameJobFaithful DEF DriverState
<1>5. CASE Fault(d) \/ NoTarget(d)
  <2>1. \/ Become(d, [drv[d] EXCEPT !.att = @ + 1, !.call = "sent",
                                    !.arg = Argument(drv[d].v, drv[d].seq)])
        \/ Become(d, [drv[d] EXCEPT !.pc = "failed", !.att = 0, !.call = "none", !.arg = 0])
    BY <1>5 DEF Fault, NoTarget, CallFailed
  <2>2. QED
    BY <1>0, <2>1, SameJobFaithful DEF DriverState
<1>6. QED
  BY <1>1, <1>2, <1>3, <1>4, <1>5 DEF Call

\* Only the undo of an output that could not be prepared goes on with the job.
LEMMA UndoFaithful ==
  ASSUME WellTyped, DriversFaithful, NEW d \in Drivers, Undo(d) \/ Settle(d)
  PROVE  DriversFaithful'
<1> USE WellTypedDrivers
<1>0. drv[d] \in DriverState
  BY DriverOf
<1>1. CASE UndoStep(d)
  <2>1. PICK s \in drv[d].todo :
          LET o == Plan[drv[d].v][s].output IN
          \/ Become(d, [drv[d] EXCEPT !.todo = @ \ {s}])
          \/ Become(d, [drv[d] EXCEPT !.pc = "undoing", !.seq = s, !.call = "sent",
                                      !.arg = PreparedId(o), !.todo = @ \ {s}])
    BY <1>1 DEF UndoStep
  <2>2. QED
    BY <1>0, <1>1, <2>1, SameJobFaithful DEF UndoStep, Is, DriverState
<1>2. CASE DiscardBroadcast(d) \/ UndoOk(d) \/ UndoFault(d)
  <2>1. /\ drv[d].pc = "undoing"
        /\ \/ Become(d, [drv[d] EXCEPT !.call = "landed"])
           \/ Become(d, [drv[d] EXCEPT !.pc = "undo", !.call = "none", !.arg = 0])
    BY <1>2 DEF DiscardBroadcast, UndoOk, UndoFault, Undone, Answered, Is
  <2>2. QED
    BY <1>0, <2>1, SameJobFaithful DEF DriverState
<1>3. CASE UndoDone(d)
  <2>1. \/ drv[d].job = "prepare" /\ Become(d, [drv[d] EXCEPT !.pc = "next", !.why = "none"])
        \/ Become(d, [drv[d] EXCEPT !.pc = "settle"])
        \/ Rest(d) \/ Become(d, NextPass(d))
    BY <1>3 DEF UndoDone
  <2>2. QED
    BY <1>0, <2>1, RestFaithful, SameJobFaithful DEF DriverState
<1>4. CASE Settle(d)
  BY <1>4, RestFaithful DEF Settle
<1>5. QED
  BY <1>1, <1>2, <1>3, <1>4 DEF Undo

LEMMA FaithfulNext ==
  ASSUME Presses \subseteq {"startNow"} \/ Operators = {}, WellTyped, DriversFaithful, [Next]_vars
  PROVE  DriversFaithful'
<1> USE WellTypedDrivers
<1>1. ASSUME NEW d \in Drivers, Work(d) PROVE DriversFaithful'
  BY <1>1, PassFaithful, LoopFaithful, CallFaithful, UndoFaithful DEF Work
<1>2. ASSUME NEW d \in Drivers, Cancel(d) \/ PrepareNow(d) PROVE DriversFaithful'
  BY <1>2 DEF Cancel, PrepareNow, Press
<1>3. ASSUME NEW d \in Drivers, StartNow(d) PROVE DriversFaithful'
  <2> DEFINE r == [Job(d, "none", "step") EXCEPT !.v = 1]
  <2>1. Faithful(r)
    BY DEF Faithful, Job, IdleDriver
  <2>2. QED
    BY <1>3, <2>1, OneMovesFaithfully DEF StartNow
<1>4. ASSUME NEW d \in Drivers, Overrun(d) PROVE DriversFaithful'
  <2>1. drv[d] \in DriverState /\ Become(d, [drv[d] EXCEPT !.late = TRUE])
    BY <1>4, DriverOf DEF Overrun
  <2>2. QED
    BY <2>1, SameJobFaithful DEF DriverState
<1>5. CASE Crash
  BY <1>5 DEF Crash, DriversFaithful, Faithful, IdleDriver
<1>6. CASE EditEvent \/ Clock \/ Reconcile \/ Recovered \/ Over \/ UNCHANGED vars
  BY <1>6 DEF EditEvent, Clock, Reconcile, Recovered, Over, vars, DriversFaithful
<1>7. QED
  BY <1>1, <1>2, <1>3, <1>4, <1>5, <1>6 DEF Next

\* As long as nobody but the scheduler and "start now" drives the run, whatever
\* call is in flight is the call that its row was committed for: for any number
\* of ticks that overlap, edits and crashes (engine.ts planDrift).
THEOREM CallsAreOfTheirRows ==
  ASSUME Presses \subseteq {"startNow"} PROVE Spec => []CallsMatchRows
<1>1. Init => DriversFaithful
  BY DEF Init, DriversFaithful, Faithful, IdleDriver
<1>2. WellTyped /\ DriversFaithful /\ [Next]_vars => DriversFaithful'
  BY FaithfulNext
<1>3. WellTyped /\ DriversFaithful => CallsMatchRows
  BY DEF WellTyped, Placed, AtStep, DriversFaithful, Faithful, SameSteps, CallsMatchRows, Is, StepOf
<1>4. QED
  BY <1>1, <1>2, <1>3, SpecWellTyped, PTL DEF Spec

-----------------------------------------------------------------------------
(* One scheduler at work: what a step leaves as it is *)

LEMMA AloneSteps ==
  ASSUME Alone, [Next]_vars
  PROVE  \/ \E d \in Drivers : Work(d)
         \/ EditEvent \/ Clock \/ Crash \/ Reconcile \/ Recovered \/ UNCHANGED vars
<1>1. ASSUME NEW d \in Drivers, Cancel(d) \/ PrepareNow(d) \/ StartNow(d) PROVE FALSE
  BY <1>1 DEF Alone, Cancel, PrepareNow, StartNow, Press
<1>2. ASSUME NEW d \in Drivers, Overrun(d) PROVE FALSE
  BY <1>2 DEF Alone, Overrun
<1>3. Over => UNCHANGED vars
  BY DEF Over
<1>4. QED
  BY <1>1, <1>2, <1>3 DEF Next

LEMMA OnlyOne == ASSUME Alone, NEW d \in Drivers, NEW e \in Drivers PROVE d = e
BY DEF Alone, Drivers

\* While the program recovers, nobody drives the run.
RecoversAlone == boot = "recovering" => AllIdle

LEMMA RecoversAloneNext ==
  ASSUME Alone, WellTyped, RecoversAlone, [Next]_vars PROVE RecoversAlone'
<1>1. ASSUME NEW d \in Drivers, Work(d) PROVE RecoversAlone'
  BY <1>1, RecoveryAlone, BootKept DEF RecoversAlone
<1>2. CASE Crash
  BY <1>2 DEF Crash, RecoversAlone, AllIdle, Is, IdleDriver
<1>3. CASE EditEvent \/ Clock \/ Reconcile \/ Recovered \/ UNCHANGED vars
  BY <1>3 DEF EditEvent, Clock, Reconcile, Recovered, vars, RecoversAlone, AllIdle, Is
<1>4. QED
  BY <1>1, <1>2, <1>3, AloneSteps

\* A row is running only while its call is in flight, or until recovery has seen to it.
CallsRun == \A d \in Drivers : Is(d, "call") => row[drv[d].seq] = "running"

\* What a driver's step does to the rows.
LEMMA RowsWritten ==
  ASSUME Alone, WellTyped, CallsRun, RecoversAlone, [Next]_vars, NEW s \in Seqs, row'[s] # row[s]
  PROVE  \/ ~Made(s)
         \/ row[s] = "done" /\ row'[s] = "compensated"
<1> USE DEF Made
<1>1. row \in [Seqs -> StepState]
  BY DEF WellTyped, TypeOK
<1>2. ASSUME NEW d \in Drivers, Pass(d) PROVE ~Made(s)
  BY <1>1, <1>2 DEF Pass, StopPass, BeginFail, BeginPrepare, Prepares, BeginStop, MarkMissed,
                    BeginStart, BeginComplete, database
<1>3. ASSUME NEW d \in Drivers, Call(d) PROVE ~Made(s)
  <2>1. Is(d, "call")
    BY <1>3 DEF Call, LookForBroadcast, CreateBroadcast, PointEncoder, StartEncoder, StopEncoder,
                CloseBroadcast, CallOk, Fault, NoTarget, Calling
  <2>2. row[drv[d].seq] = "running"
    BY <2>1 DEF CallsRun
  <2>3. QED
    BY <1>1, <1>3, <2>2 DEF Call, LookForBroadcast, CreateBroadcast, PointEncoder, StartEncoder,
       StopEncoder, CloseBroadcast, CallOk, Fault, NoTarget, CallFailed, MarkedRunning, database
<1>4. ASSUME NEW d \in Drivers, UndoFault(d) PROVE row'[s] = "compensated"
  <2>1. PICK state \in {row[drv[d].seq], "compensated"} : row' = [row EXCEPT ![drv[d].seq] = state]
    BY <1>4 DEF UndoFault, Undone
  <2>2. QED
    BY <1>1, <2>1
<1>5. ASSUME NEW d \in Drivers, Undo(d) PROVE row'[s] = "compensated"
  BY <1>1, <1>4, <1>5 DEF Undo, UndoStep, DiscardBroadcast, UndoOk, Undone, UndoDone, database
<1>6. ASSUME NEW d \in Drivers, NextStep(d) PROVE ~Made(s)
  <2>1. PICK t \in Outstanding(d) : t \in Seqs /\ row' = MarkedRunning(t)
    BY <1>6 DEF NextStep
  <2>2. QED
    BY <1>1, <2>1 DEF Outstanding, RowIs, MarkedRunning
<1>7. ASSUME NEW d \in Drivers, Work(d) PROVE ~Made(s) \/ (row'[s] = "compensated" /\ Made(s))
  BY <1>2, <1>3, <1>5, <1>6, <1>7
     DEF Work, LoopDone, StepFailed, NextOutput, OutputsDone, Settle, database
<1>8. CASE Reconcile
  <2>1. PICK t \in Interrupted : \E state \in StepState : row' = [row EXCEPT ![t] = state]
    BY <1>8 DEF Reconcile, StepState
  <2>2. QED
    BY <1>1, <2>1 DEF Interrupted
<1>9. CASE EditEvent \/ Clock \/ Crash \/ Recovered \/ UNCHANGED vars
  BY <1>9 DEF EditEvent, Clock, Crash, Recovered, database, vars
<1>10. QED
  BY <1>7, <1>8, <1>9, AloneSteps

LEMMA MadeStays ==
  ASSUME Alone, WellTyped, CallsRun, RecoversAlone, [Next]_vars, NEW s \in Seqs, Made(s)
  PROVE  Made(s)'
BY RowsWritten DEF Made

\* A driver that makes no call is in one only after it has come to its next step.
LEMMA OnlyCallsCall ==
  ASSUME DriverTyped, NEW d \in Drivers, ~Is(d, "call"), Work(d), ~NextStep(d)
  PROVE  drv'[d].pc # "call"
<1>1. drv[d] \in DriverState
  BY DriverOf
<1>2. ASSUME NEW r, Become(d, r), r.pc # "call" PROVE drv'[d].pc # "call"
  BY <1>2, Becomes
<1>3. CASE Rest(d)
  BY <1>2, <1>3 DEF Rest, IdleDriver
<1>4. CASE Become(d, NextPass(d))
  BY <1>2, <1>4 DEF NextPass, IdleDriver
<1>5. CASE Pass(d)
  BY <1>2, <1>3, <1>5 DEF Pass, StopPass, BeginFail, BeginPrepare, Prepares, BeginStop, MarkMissed,
                          BeginStart, BeginComplete, Job, IdleDriver
<1>6. CASE Call(d)
  BY <1>6 DEF Call, LookForBroadcast, CreateBroadcast, PointEncoder, StartEncoder, StopEncoder,
              CloseBroadcast, CallOk, Fault, NoTarget, Calling
<1>7. CASE Undo(d)
  <2>1. CASE UndoStep(d)
    BY <1>1, <1>2, <2>1 DEF UndoStep, DriverState, Is
  <2>2. CASE DiscardBroadcast(d)
    BY <1>1, <1>2, <2>2 DEF DiscardBroadcast, Answered, DriverState, Is
  <2>3. CASE UndoOk(d) \/ UndoFault(d)
    BY <1>1, <1>2, <2>3 DEF UndoOk, UndoFault, Undone, DriverState
  <2>4. CASE UndoDone(d)
    <3>1. \/ Become(d, [drv[d] EXCEPT !.pc = "next", !.why = "none"])
          \/ Become(d, [drv[d] EXCEPT !.pc = "settle"])
          \/ Rest(d) \/ Become(d, NextPass(d))
      BY <2>4 DEF UndoDone
    <3>2. QED
      BY <1>1, <1>2, <1>3, <1>4, <3>1 DEF DriverState
  <2>5. QED
    BY <1>7, <2>1, <2>2, <2>3, <2>4 DEF Undo
<1>8. CASE LoopDone(d)
  <2>1. \/ Become(d, [drv[d] EXCEPT !.pc = "next", !.good = TRUE])
        \/ Become(d, [drv[d] EXCEPT !.pc = "settle", !.why = "completed"])
        \/ Become(d, [drv[d] EXCEPT !.pc = "undo", !.why = "failed",
                                    !.todo = ToUndo(drv[d].v, Outputs)])
        \/ Rest(d) \/ Become(d, NextPass(d))
    BY <1>8 DEF LoopDone
  <2>2. QED
    BY <1>1, <1>2, <1>3, <1>4, <2>1 DEF DriverState
<1>9. CASE StepFailed(d)
  <2>1. \/ Become(d, [drv[d] EXCEPT !.pc = "undo", !.why = "output",
                                    !.todo = ToUndo(drv[d].v, {drv[d].out})])
        \/ Become(d, [drv[d] EXCEPT !.pc = "undo", !.why = "failed",
                                    !.todo = ToUndo(drv[d].v, Outputs)])
        \/ Become(d, [drv[d] EXCEPT !.pc = "next"])
        \/ Become(d, NextPass(d))
    BY <1>9 DEF StepFailed
  <2>2. QED
    BY <1>1, <1>2, <1>4, <2>1 DEF DriverState
<1>10. CASE NextOutput(d) \/ OutputsDone(d)
  <2>1. \/ \E o \in drv[d].queue :
            Become(d, [drv[d] EXCEPT !.pc = "loop", !.out = o, !.seq = 0, !.queue = @ \ {o}])
        \/ Become(d, [drv[d] EXCEPT !.pc = "settle", !.why = "cancelled"])
        \/ Become(d, [drv[d] EXCEPT !.pc = "undo", !.why = "failed",
                                    !.todo = ToUndo(drv[d].v, Outputs)])
        \/ Rest(d) \/ Become(d, NextPass(d))
    BY <1>10 DEF NextOutput, OutputsDone
  <2>2. QED
    BY <1>1, <1>2, <1>3, <1>4, <2>1 DEF DriverState
<1>11. CASE Settle(d)
  BY <1>3, <1>11 DEF Settle
<1>12. QED
  BY <1>5, <1>6, <1>7, <1>8, <1>9, <1>10, <1>11 DEF Work

\* A call in flight has its row running: nobody but its driver writes that row.
LEMMA CallsRunNext ==
  ASSUME Alone, WellTyped, CallsRun, RecoversAlone, [Next]_vars PROVE CallsRun'
<1> USE WellTypedDrivers
<1>0. row \in [Seqs -> StepState] /\ drv \in [Drivers -> DriverState]
  BY DEF WellTyped, TypeOK
<1>1. ASSUME NEW d \in Drivers, Is(d, "call"), Call(d) PROVE CallsRun'
  <2>1. drv[d] \in DriverState /\ drv[d].seq \in Seqs /\ row[drv[d].seq] = "running"
    BY <1>0, <1>1 DEF CallsRun, WellTyped, Placed, AtStep, Is
  <2>2. CASE LookForBroadcast(d) \/ CreateBroadcast(d) \/ PointEncoder(d) \/ StartEncoder(d)
             \/ StopEncoder(d) \/ CloseBroadcast(d)
    <3>1. row' = row /\ \E c, b : Become(d, [drv[d] EXCEPT !.call = c, !.arg = b])
      <4>1. \A c : [drv[d] EXCEPT !.call = c] = [drv[d] EXCEPT !.call = c, !.arg = drv[d].arg]
        BY <2>1 DEF DriverState
      <4>2. QED
        BY <2>2, <4>1 DEF LookForBroadcast, CreateBroadcast, PointEncoder, StartEncoder,
                          StopEncoder, CloseBroadcast, Answered, database
    <3>2. drv'[d].seq = drv[d].seq
      <4>1. PICK c, b : Become(d, [drv[d] EXCEPT !.call = c, !.arg = b])
        BY <3>1
      <4>2. drv'[d] = [drv[d] EXCEPT !.call = c, !.arg = b]
        BY <4>1, Becomes
      <4>3. QED
        BY <2>1, <4>2 DEF DriverState
    <3>3. QED
      BY <2>1, <3>1, <3>2, OnlyOne DEF CallsRun, Is
  <2>3. CASE CallOk(d)
    <3>1. drv'[d].pc = "loop"
      BY <1>0, <2>1, <2>3 DEF CallOk, Become, DriverState
    <3>2. QED
      BY <3>1, OnlyOne DEF CallsRun, Is
  <2>4. CASE Fault(d) \/ NoTarget(d)
    <3>1. \/ row' = MarkedRunning(drv[d].seq) /\ drv'[d].seq = drv[d].seq
          \/ drv'[d].pc = "failed"
      <4>1. \/ /\ row' = MarkedRunning(drv[d].seq)
               /\ Become(d, [drv[d] EXCEPT !.att = @ + 1, !.call = "sent",
                                           !.arg = Argument(drv[d].v, drv[d].seq)])
            \/ Become(d, [drv[d] EXCEPT !.pc = "failed", !.att = 0, !.call = "none", !.arg = 0])
        BY <2>4 DEF Fault, NoTarget, CallFailed
      <4>2. \/ /\ row' = MarkedRunning(drv[d].seq)
               /\ drv'[d] = [drv[d] EXCEPT !.att = @ + 1, !.call = "sent",
                                           !.arg = Argument(drv[d].v, drv[d].seq)]
            \/ drv'[d] = [drv[d] EXCEPT !.pc = "failed", !.att = 0, !.call = "none", !.arg = 0]
        BY <4>1, Becomes
      <4>3. QED
        BY <2>1, <4>2 DEF DriverState
    <3>2. QED
      BY <1>0, <2>1, <3>1, OnlyOne DEF CallsRun, Is, MarkedRunning
  <2>5. QED
    BY <1>1, <2>2, <2>3, <2>4 DEF Call
<1>2. ASSUME NEW d \in Drivers, ~Is(d, "call"), Work(d) PROVE CallsRun'
  <2>1. CASE NextStep(d)
    <3>1. PICK s \in Outstanding(d) :
            \/ /\ s \in Seqs /\ row' = MarkedRunning(s)
               /\ Become(d, [drv[d] EXCEPT !.pc = "call", !.seq = s, !.att = 1,
                                           !.call = "sent", !.arg = Argument(drv[d].v, s)])
            \/ Rest(d)
      BY <2>1 DEF NextStep
    <3>2. CASE Rest(d)
      <4>1. drv'[d].pc = "idle"
        BY <3>2, Becomes DEF Rest, IdleDriver
      <4>2. QED
        BY <4>1, OnlyOne DEF CallsRun, Is
    <3>3. CASE ~Rest(d)
      <4>1. drv'[d] = [drv[d] EXCEPT !.pc = "call", !.seq = s, !.att = 1,
                                     !.call = "sent", !.arg = Argument(drv[d].v, s)]
        BY <3>1, <3>3, Becomes
      <4>2. drv'[d].seq = s /\ s \in Seqs /\ row' = MarkedRunning(s)
        BY <3>1, <3>3, <4>1, DriverOf DEF DriverState
      <4>3. QED
        BY <1>0, <4>2, OnlyOne DEF CallsRun, Is, MarkedRunning
    <3>4. QED
      BY <3>2, <3>3
  <2>2. CASE ~NextStep(d)
    <3>1. drv'[d].pc # "call"
      BY <1>2, <2>2, OnlyCallsCall
    <3>2. QED
      BY <3>1, OnlyOne DEF CallsRun, Is
  <2>3. QED
    BY <2>1, <2>2
<1>3. ASSUME NEW d \in Drivers, Is(d, "call"), Work(d) PROVE Call(d)
  BY <1>3 DEF Work, Pass, StopPass, BeginFail, BeginPrepare, BeginStop, MarkMissed, BeginStart,
     BeginComplete, InWindow, Ready, MayTick, NextStep, LoopDone, StepFailed, NextOutput, OutputsDone,
     Undo, UndoStep, DiscardBroadcast, UndoOk, UndoFault, UndoDone, Settle, Is
<1>4. CASE Reconcile
  BY <1>4 DEF Reconcile, RecoversAlone, AllIdle, CallsRun, Is
<1>5. CASE Crash
  BY <1>5 DEF Crash, CallsRun, Is, IdleDriver
<1>6. CASE EditEvent \/ Clock \/ Recovered \/ UNCHANGED vars
  BY <1>6 DEF EditEvent, Clock, Recovered, database, vars, CallsRun, Is
<1>7. QED
  BY <1>1, <1>2, <1>3, <1>4, <1>5, <1>6, AloneSteps

-----------------------------------------------------------------------------
(* One broadcast for one service *)

\* Some row says that the slot's broadcast has been made.
MadeFor(slot) ==
  \E s \in Seqs : Committed[s].kind = "prepare" /\ Slot[Committed[s].output] = slot /\ Made(s)

\* A broadcast that exists, and that a row knows.
Backed(b) == b \in Broadcast /\ channel[b].state # "absent" /\ MadeFor(channel[b].slot)

AiredBacked == \A b \in Broadcast : channel[b].state \in {"live", "ended"} => Backed(b)

TargetsBacked == \A e \in Devices : encoder[e].target # 0 => Backed(encoder[e].target)

\* What a call is about: a broadcast that a row knows, or, when it prepares, one
\* it has found or made after it has seen that there is none.
CallRight(d) ==
  /\ StepOf(d).kind # "prepare" /\ drv[d].arg # 0 => Backed(drv[d].arg)
  /\ StepOf(d).kind = "prepare" /\ drv[d].call = "landed" => Of(drv[d].arg, StepOf(d).output)
  /\ StepOf(d).kind = "prepare" /\ drv[d].call = "absent" =>
       \A b \in Broadcast :
         channel[b].slot = Slot[StepOf(d).output] => channel[b].state \notin OnChannel

CallsRight == \A d \in Drivers : Is(d, "call") => CallRight(d)

\* The rows may be gone by: an edit that shifts them leaves nobody with a job.
Busy(r) == r.pc # "idle" /\ r.job # "none"
Trusted == SameSteps(version) \/ \E d \in Drivers : Busy(drv[d])

RowsRight ==
  Trusted => \A s \in Seqs : row[s] = "done" /\ Committed[s].kind = "prepare"
                                => Of(ext[s], Committed[s].output)

\* The channel never forgets what a broadcast is for.
LEMMA ChannelKeeps ==
  ASSUME Alone, WellTyped, [Next]_vars, NEW b \in Broadcast, channel[b].state # "absent"
  PROVE  channel'[b].state # "absent" /\ channel'[b].slot = channel[b].slot
<1> DEFINE Kept == channel'[b].state # "absent" /\ channel'[b].slot = channel[b].slot
<1>1. channel \in ChannelType
  BY DEF WellTyped, TypeOK
<1>2. ASSUME NEW c, NEW to, to # "absent", NEW from, channel' = Moved(channel, c, from, to)
      PROVE  Kept
  BY <1>1, <1>2 DEF Moved, ChannelType
<1>3. ASSUME NEW d \in Drivers, Pass(d) PROVE Kept
  BY <1>3 DEF Pass, StopPass, BeginFail, BeginPrepare, Prepares, BeginStop, MarkMissed,
              BeginStart, BeginComplete, world
<1>4. ASSUME NEW d \in Drivers, Call(d) PROVE Kept
  <2>1. CASE StartEncoder(d)
    BY <1>2, <2>1 DEF StartEncoder, VideoArrives
  <2>2. CASE StopEncoder(d)
    BY <1>2, <2>2 DEF StopEncoder, VideoStops
  <2>3. CASE CreateBroadcast(d)
    BY <1>1, <2>3 DEF CreateBroadcast, Inserted, FreshIds, ChannelType
  <2>4. QED
    BY <1>4, <2>1, <2>2, <2>3 DEF Call, LookForBroadcast, PointEncoder, CloseBroadcast, CallOk, Fault,
                            NoTarget, CallFailed, world
<1>5. ASSUME NEW d \in Drivers, Undo(d) PROVE Kept
  <2>1. CASE DiscardBroadcast(d)
    BY <1>1, <2>1 DEF DiscardBroadcast, Discarded, ChannelType
  <2>2. QED
    BY <1>5, <2>1 DEF Undo, UndoStep, UndoOk, UndoFault, Undone, UndoDone, world
<1>6. ASSUME NEW d \in Drivers, Work(d) PROVE Kept
  BY <1>3, <1>4, <1>5, <1>6
     DEF Work, NextStep, LoopDone, StepFailed, NextOutput, OutputsDone, Settle, world
<1>7. CASE EditEvent \/ Clock \/ Crash \/ Reconcile \/ Recovered \/ UNCHANGED vars
  BY <1>7 DEF EditEvent, Clock, Crash, Reconcile, Recovered, world, vars
<1>8. QED
  BY <1>6, <1>7, AloneSteps

\* What is backed stays backed, and an output's broadcast stays the output's.
LEMMA BackedStays ==
  ASSUME Alone, WellTyped, CallsRun, RecoversAlone, [Next]_vars, NEW b, Backed(b)
  PROVE  Backed(b)'
<1>1. b \in Broadcast /\ channel'[b].state # "absent" /\ channel'[b].slot = channel[b].slot
  BY ChannelKeeps DEF Backed
<1>2. \E s \in Seqs : /\ Committed[s].kind = "prepare"
                      /\ Slot[Committed[s].output] = channel[b].slot
                      /\ Made(s)'
  BY MadeStays DEF Backed, MadeFor
<1>3. QED
  BY <1>1, <1>2 DEF Backed, MadeFor

LEMMA OfStays ==
  ASSUME Alone, WellTyped, [Next]_vars, NEW b, NEW o, Of(b, o) PROVE Of(b, o)'
BY ChannelKeeps DEF Of

\* Video makes an encoder's target live, and nothing else does.
LEMMA AiredBackedNext ==
  ASSUME Alone, WellTyped, CallsRun, RecoversAlone, AiredBacked, TargetsBacked, [Next]_vars
  PROVE  AiredBacked'
<1> SUFFICES ASSUME NEW b \in Broadcast, channel'[b].state \in {"live", "ended"},
                    channel[b].state \notin {"live", "ended"}
             PROVE  Backed(b)'
  BY BackedStays DEF AiredBacked
<1> SUFFICES ASSUME ~Backed(b) PROVE FALSE
  BY BackedStays
<1>1. channel \in ChannelType
  BY DEF WellTyped, TypeOK
<1>2. channel' # channel
  OBVIOUS
<1>3. ASSUME NEW d \in Drivers, StartEncoder(d) PROVE FALSE
  <2> DEFINE e == Device[StepOf(d).output]
  <2>1. channel' = Moved(channel, encoder[e].target, "upcoming", "live")
    BY <1>2, <1>3 DEF StartEncoder, VideoArrives
  <2>2. b = encoder[e].target
    BY <1>1, <2>1 DEF Moved, ChannelType
  <2>3. e \in Devices
    BY <1>3, Steps, EngineAssumption DEF StartEncoder, Calling, Is, StepOf, WellTyped, TypeOK,
                                        Placed, AtStep, DriverState, StepDefinition
  <2>4. b # 0
    BY DEF Broadcast
  <2>5. QED
    BY <2>2, <2>3, <2>4 DEF TargetsBacked
<1>4. ASSUME NEW d \in Drivers, StopEncoder(d) PROVE FALSE
  BY <1>1, <1>4 DEF StopEncoder, VideoStops, Moved, ChannelType
<1>5. ASSUME NEW d \in Drivers, CreateBroadcast(d) PROVE FALSE
  BY <1>1, <1>5 DEF CreateBroadcast, Inserted, FreshIds, ChannelType
<1>6. ASSUME NEW d \in Drivers, DiscardBroadcast(d) PROVE FALSE
  BY <1>1, <1>6 DEF DiscardBroadcast, Discarded, ChannelType
<1>7. ASSUME NEW d \in Drivers, Work(d) PROVE FALSE
  BY <1>2, <1>3, <1>4, <1>5, <1>6, <1>7 DEF Work, Pass, StopPass, BeginFail, BeginPrepare, Prepares,
     BeginStop, MarkMissed, BeginStart, BeginComplete, Call, LookForBroadcast, PointEncoder,
     CloseBroadcast, CallOk, Fault, NoTarget, CallFailed, Undo, UndoStep, UndoOk, UndoFault, Undone,
     UndoDone, NextStep, LoopDone, StepFailed, NextOutput, OutputsDone, Settle, world
<1>8. CASE EditEvent \/ Clock \/ Crash \/ Reconcile \/ Recovered \/ UNCHANGED vars
  BY <1>2, <1>8 DEF EditEvent, Clock, Crash, Reconcile, Recovered, world, vars
<1>9. QED
  BY <1>7, <1>8, AloneSteps

\* An encoder is pointed at what a call is about.
LEMMA TargetsBackedNext ==
  ASSUME Alone, WellTyped, CallsRun, RecoversAlone, CallsRight, TargetsBacked, [Next]_vars
  PROVE  TargetsBacked'
<1>0. ASSUME NEW e \in Devices, NEW b, Backed(b), encoder'[e].target = b
      PROVE  Backed(encoder[e].target)'
  BY <1>0, BackedStays DEF Backed, MadeFor, Made
<1> SUFFICES ASSUME NEW e \in Devices, encoder'[e].target # 0, encoder'[e].target # encoder[e].target
             PROVE  Backed(encoder'[e].target)
  BY <1>0 DEF TargetsBacked
<1>1. EncoderTyped /\ encoder' # encoder
  BY DEF WellTyped, TypeOK, EncoderTyped
<1>2. ASSUME NEW d \in Drivers, PointEncoder(d) PROVE Backed(encoder'[e].target)
  <2>1. encoder' = [encoder EXCEPT ![Device[StepOf(d).output]].target = drv[d].arg]
    BY <1>2 DEF PointEncoder
  <2>2. encoder'[e].target = drv[d].arg
    BY <1>1, <2>1 DEF EncoderTyped
  <2>3. Backed(drv[d].arg)
    BY <1>2, <2>2 DEF PointEncoder, Calling, CallsRight, CallRight
  <2>4. QED
    BY <2>2, <2>3
<1>3. ASSUME NEW d \in Drivers, StartEncoder(d) \/ StopEncoder(d) PROVE FALSE
  <2>1. PICK on \in BOOLEAN : encoder' = [encoder EXCEPT ![Device[StepOf(d).output]].active = on]
    BY <1>3 DEF StartEncoder, StopEncoder
  <2>2. QED
    BY <1>1, <2>1 DEF EncoderTyped
<1>4. ASSUME NEW d \in Drivers, Work(d) PROVE Backed(encoder'[e].target)
  <2>1. CASE PointEncoder(d) \/ StartEncoder(d) \/ StopEncoder(d)
    BY <1>2, <1>3, <2>1
  <2>2. QED
    BY <1>1, <1>4, <2>1 DEF Work, Pass, StopPass, BeginFail, BeginPrepare, Prepares,
       BeginStop, MarkMissed, BeginStart, BeginComplete, Call, LookForBroadcast, CreateBroadcast,
       CloseBroadcast, CallOk, Fault, NoTarget, CallFailed, Undo, UndoStep, DiscardBroadcast, UndoOk,
       UndoFault, Undone, UndoDone, NextStep, LoopDone, StepFailed, NextOutput, OutputsDone, Settle, world
<1>5. CASE EditEvent \/ Clock \/ Crash \/ Reconcile \/ Recovered \/ UNCHANGED vars
  BY <1>1, <1>5 DEF EditEvent, Clock, Crash, Reconcile, Recovered, world, vars
<1>6. QED
  BY <1>4, <1>5, AloneSteps

LEMMA WorkKeepsVersion ==
  ASSUME NEW d \in Drivers, Work(d) PROVE version' = version
BY DEF Work, Pass, StopPass, BeginFail, BeginPrepare, Prepares, BeginStop, MarkMissed, BeginStart,
   BeginComplete, Call, LookForBroadcast, CreateBroadcast, PointEncoder, StartEncoder, StopEncoder,
   CloseBroadcast, CallOk, Fault, NoTarget, CallFailed, Undo, UndoStep, DiscardBroadcast, UndoOk,
   UndoFault, Undone, UndoDone, NextStep, LoopDone, StepFailed, NextOutput, OutputsDone, Settle, database

\* A job begins only for a plan that the rows are of.
LEMMA JobsBegin ==
  ASSUME DriverTyped, NEW d \in Drivers, Work(d), Busy(drv'[d])
  PROVE  Busy(drv[d]) \/ SameSteps(version)
<1> DEFINE Right == Busy(drv[d]) \/ SameSteps(version)
<1>1. drv[d] \in DriverState
  BY DriverOf
<1>2. ASSUME NEW r, Become(d, r), r.job = "none" PROVE Right
  BY <1>2, Becomes DEF Busy
<1>3. ASSUME NEW r, Become(d, r), r.job = drv[d].job, ~Is(d, "idle") PROVE Right
  BY <1>3, Becomes DEF Busy, Is
<1>4. CASE Rest(d)
  BY <1>2, <1>4 DEF Rest, IdleDriver
<1>5. CASE Become(d, NextPass(d))
  BY <1>2, <1>5 DEF NextPass, IdleDriver
<1>6. CASE Pass(d)
  <2>1. CASE StopPass(d)
    BY <1>4, <2>1 DEF StopPass
  <2>2. CASE BeginFail(d)
    BY <1>2, <2>2 DEF BeginFail, Job, IdleDriver
  <2>3. QED
    BY <1>6, <2>1, <2>2, NotDrifted
       DEF Pass, BeginPrepare, BeginStop, MarkMissed, BeginStart, BeginComplete, InWindow
<1>7. CASE Call(d)
  <2>1. Is(d, "call")
    BY <1>7 DEF Call, LookForBroadcast, CreateBroadcast, PointEncoder, StartEncoder, StopEncoder,
                CloseBroadcast, CallOk, Fault, NoTarget, Calling
  <2>2. \/ Become(d, [drv[d] EXCEPT !.call = "absent"])
        \/ Become(d, [drv[d] EXCEPT !.call = "landed"])
        \/ \E b \in Broadcast : Become(d, [drv[d] EXCEPT !.call = "landed", !.arg = b])
        \/ Become(d, [drv[d] EXCEPT !.pc = "loop", !.att = 0, !.call = "none", !.arg = 0])
        \/ Become(d, [drv[d] EXCEPT !.att = @ + 1, !.call = "sent",
                                    !.arg = Argument(drv[d].v, drv[d].seq)])
        \/ Become(d, [drv[d] EXCEPT !.pc = "failed", !.att = 0, !.call = "none", !.arg = 0])
    BY <1>7 DEF Call, LookForBroadcast, CreateBroadcast, PointEncoder, StartEncoder, StopEncoder,
                CloseBroadcast, CallOk, Fault, NoTarget, CallFailed, Answered, Matching, FreshIds
  <2>3. QED
    BY <1>1, <1>3, <2>1, <2>2 DEF DriverState, Is
<1>8. CASE Undo(d)
  <2>1. \/ \E s \in Seqs : Become(d, [drv[d] EXCEPT !.todo = @ \ {s}])
        \/ \E s \in Seqs : \E b : Become(d, [drv[d] EXCEPT !.pc = "undoing", !.seq = s, !.call = "sent",
                                                      !.arg = b, !.todo = @ \ {s}])
        \/ Become(d, [drv[d] EXCEPT !.call = "landed"])
        \/ Become(d, [drv[d] EXCEPT !.pc = "undo", !.call = "none", !.arg = 0])
        \/ Become(d, [drv[d] EXCEPT !.pc = "next", !.why = "none"])
        \/ Become(d, [drv[d] EXCEPT !.pc = "settle"])
        \/ Rest(d) \/ Become(d, NextPass(d))
    <3>1. drv[d].todo \subseteq Seqs
      BY <1>1 DEF DriverState
    <3>2. QED
      BY <1>8, <3>1 DEF Undo, UndoStep, DiscardBroadcast, UndoOk, UndoFault, Undone, UndoDone, Answered
  <2>2. ~Is(d, "idle")
    BY <1>8 DEF Undo, UndoStep, DiscardBroadcast, UndoOk, UndoFault, UndoDone, Is
  <2>3. QED
    BY <1>1, <1>3, <1>4, <1>5, <2>1, <2>2 DEF DriverState
<1>9. CASE NextStep(d) \/ NextOutput(d)
  <2>1. \/ \E s, b : Become(d, [drv[d] EXCEPT !.pc = "call", !.seq = s, !.att = 1,
                                             !.call = "sent", !.arg = b])
        \/ \E o : Become(d, [drv[d] EXCEPT !.pc = "loop", !.out = o, !.seq = 0, !.queue = @ \ {o}])
        \/ Rest(d)
    BY <1>9 DEF NextStep, NextOutput
  <2>2. QED
    BY <1>1, <1>3, <1>4, <1>9, <2>1 DEF DriverState, NextStep, NextOutput, Is
<1>10. CASE LoopDone(d) \/ StepFailed(d) \/ OutputsDone(d)
  <2>1. \/ Become(d, [drv[d] EXCEPT !.pc = "next", !.good = TRUE])
        \/ Become(d, [drv[d] EXCEPT !.pc = "next"])
        \/ Become(d, [drv[d] EXCEPT !.pc = "settle", !.why = "completed"])
        \/ Become(d, [drv[d] EXCEPT !.pc = "settle", !.why = "cancelled"])
        \/ Become(d, [drv[d] EXCEPT !.pc = "undo", !.why = "failed",
                                    !.todo = ToUndo(drv[d].v, Outputs)])
        \/ Become(d, [drv[d] EXCEPT !.pc = "undo", !.why = "output",
                                    !.todo = ToUndo(drv[d].v, {drv[d].out})])
        \/ Rest(d) \/ Become(d, NextPass(d))
    BY <1>10 DEF LoopDone, StepFailed, OutputsDone
  <2>2. ~Is(d, "idle")
    BY <1>10 DEF LoopDone, StepFailed, OutputsDone, Is
  <2>3. QED
    BY <1>1, <1>3, <1>4, <1>5, <2>1, <2>2 DEF DriverState
<1>11. CASE Settle(d)
  BY <1>4, <1>11 DEF Settle
<1>12. QED
  BY <1>6, <1>7, <1>8, <1>9, <1>10, <1>11 DEF Work

LEMMA TrustBegins ==
  ASSUME Alone, WellTyped, [Next]_vars, Trusted' PROVE Trusted
<1> USE WellTypedDrivers
<1>1. ASSUME NEW d \in Drivers, Work(d) PROVE Trusted
  <2>1. version' = version /\ \A v : SameSteps(v)' = SameSteps(v)
    BY <1>1, WorkKeepsVersion DEF SameSteps
  <2>2. QED
    BY <1>1, <2>1, JobsBegin, OnlyOne DEF Trusted, SameSteps
<1>2. CASE Crash
  BY <1>2 DEF Crash, Trusted, Busy, IdleDriver, SameSteps, database
<1>3. CASE EditEvent
  BY <1>3, EngineAssumption DEF EditEvent, Trusted, SameSteps, Committed, Seqs
<1>4. CASE Clock \/ Reconcile \/ Recovered \/ UNCHANGED vars
  BY <1>4 DEF Clock, Reconcile, Recovered, database, vars, Trusted, Busy, SameSteps
<1>5. QED
  BY <1>1, <1>2, <1>3, <1>4, AloneSteps

\* The broadcast that a call is given is one that its output's row is done for.
LEMMA ArgumentBacked ==
  ASSUME RowsRight, Trusted, NEW v, NEW s, Argument(v, s) # 0
  PROVE  Backed(Argument(v, s))
<1> DEFINE o == Plan[v][s].output
<1>1. PreparedRows(o) # {} /\ Argument(v, s) = ext[CHOOSE r \in PreparedRows(o) : TRUE]
  BY DEF Argument, PreparedId
<1>2. PICK r \in PreparedRows(o) : Argument(v, s) = ext[r]
  BY <1>1
<1>3. Of(ext[r], Committed[r].output) /\ r \in Seqs /\ Made(r) /\ Committed[r].kind = "prepare"
  BY <1>2 DEF RowsRight, PreparedRows, Made
<1>4. QED
  BY <1>2, <1>3 DEF Of, Backed, MadeFor

\* When the channel has none that is upcoming, it has none at all: one that had
\* aired would have its row made, and the row is running.
LEMMA NoneAtAll ==
  ASSUME SlotsOnce, WellTyped, DriversFaithful, CallsRun, AiredBacked, NEW d \in Drivers,
         Calling(d, "prepare"), Matching(channel, Slot[StepOf(d).output]) = {},
         NEW b \in Broadcast, channel[b].slot = Slot[StepOf(d).output]
  PROVE  channel[b].state \notin OnChannel
<1> DEFINE q == drv[d].seq
<1>1. /\ q \in Seqs /\ Committed[q].kind = "prepare" /\ row[q] = "running"
      /\ Committed[q].output = StepOf(d).output
  BY DEF Calling, Is, WellTyped, Placed, AtStep, DriversFaithful, Faithful, SameSteps, StepOf, CallsRun
<1>2. channel[b].state # "upcoming"
  BY DEF Matching
<1>3. channel[b].state \in {"live", "ended"} => FALSE
  <2>1. SUFFICES ASSUME channel[b].state \in {"live", "ended"} PROVE FALSE
    OBVIOUS
  <2>2. PICK s \in Seqs : /\ Committed[s].kind = "prepare" /\ Made(s)
                          /\ Slot[Committed[s].output] = channel[b].slot
    BY <2>1 DEF AiredBacked, Backed, MadeFor
  <2>3. s = q
    BY <1>1, <2>2 DEF SlotsOnce, KindOf, OutputOf
  <2>4. QED
    BY <1>1, <2>2, <2>3 DEF Made
<1>4. QED
  BY <1>2, <1>3 DEF OnChannel

Served == /\ WellTyped /\ DriversFaithful /\ RecoversAlone /\ CallsRun
          /\ AiredBacked /\ TargetsBacked /\ CallsRight /\ RowsRight

\* A call that its driver has just begun, or begun again.
LEMMA CallBegins ==
  ASSUME Alone, Served, [Next]_vars, NEW d \in Drivers, Busy(drv[d]), NEW s,
         drv'[d].v = drv[d].v, drv'[d].seq = s, drv'[d].call = "sent",
         drv'[d].arg = Argument(drv[d].v, s)
  PROVE  CallRight(d)'
<1>1. drv'[d].arg # 0 => Backed(drv'[d].arg)
  BY ArgumentBacked DEF Served, Trusted
<1>2. \A b : Backed(b) => Backed(b)'
  BY BackedStays DEF Served
<1>3. drv'[d].arg # 0 => Backed(drv[d].arg)'
  BY <1>1, <1>2 DEF Backed, MadeFor, Made
<1>4. QED
  BY <1>3 DEF CallRight

\* A call that goes on, with the broadcast it was about.
LEMMA CallGoesOn ==
  ASSUME Alone, Served, [Next]_vars, NEW d \in Drivers, CallRight(d),
         drv'[d].v = drv[d].v, drv'[d].seq = drv[d].seq, drv'[d].arg = drv[d].arg,
         \/ drv'[d].call = drv[d].call /\ channel' = channel
         \/ StepOf(d).kind # "prepare"
  PROVE  CallRight(d)'
<1>1. StepOf(d)' = StepOf(d)
  BY DEF StepOf
<1>2. \A b : Backed(b) => Backed(b)'
  BY BackedStays DEF Served
<1>3. \A b, o : Of(b, o) => Of(b, o)'
  BY OfStays DEF Served
<1>4. StepOf(d).kind # "prepare" /\ drv[d].arg # 0 => Backed(drv[d].arg)'
  BY <1>2 DEF CallRight, Backed, MadeFor, Made
<1>5. StepOf(d).kind = "prepare" /\ drv[d].call = "landed" => Of(drv[d].arg, StepOf(d).output)'
  BY <1>1, <1>3 DEF CallRight, Of
<1>6. QED
  BY <1>1, <1>4, <1>5 DEF CallRight

LEMMA PreparingRight ==
  ASSUME Alone, SlotsOnce, Served, [Next]_vars, NEW d \in Drivers,
         LookForBroadcast(d) \/ CreateBroadcast(d)
  PROVE  CallRight(d)'
<1>1. drv[d] \in DriverState /\ StepOf(d).kind = "prepare" /\ channel \in ChannelType
  BY WellTypedDrivers, DriverOf DEF Served, WellTyped, TypeOK, LookForBroadcast, CreateBroadcast, Calling
<1>2. ASSUME NEW b \in Broadcast, Become(d, [drv[d] EXCEPT !.call = "landed", !.arg = b]),
             channel'[b].state # "absent", channel'[b].slot = Slot[StepOf(d).output]
      PROVE  CallRight(d)'
  <2>1. drv'[d] = [drv[d] EXCEPT !.call = "landed", !.arg = b]
    BY <1>2, WellTypedDrivers, Becomes DEF Served
  <2>2. drv'[d].v = drv[d].v /\ drv'[d].seq = drv[d].seq /\ drv'[d].arg = b /\ drv'[d].call = "landed"
    BY <1>1, <2>1 DEF DriverState
  <2>3. StepOf(d)' = StepOf(d)
    BY <2>2 DEF StepOf
  <2>4. QED
    BY <1>1, <1>2, <2>2, <2>3 DEF CallRight, Of
<1>3. CASE CreateBroadcast(d)
  <2>1. PICK b \in FreshIds(channel) :
          /\ channel' = Inserted(channel, b, Slot[StepOf(d).output])
          /\ Become(d, [drv[d] EXCEPT !.call = "landed", !.arg = b])
    BY <1>3 DEF CreateBroadcast
  <2>2. /\ b \in Broadcast
        /\ channel'[b].state # "absent" /\ channel'[b].slot = Slot[StepOf(d).output]
    BY <1>1, <2>1 DEF FreshIds, Inserted, ChannelType
  <2>3. QED
    BY <1>2, <2>1, <2>2
<1>4. CASE LookForBroadcast(d) /\ Matching(channel, Slot[StepOf(d).output]) # {}
  <2>1. PICK b \in Matching(channel, Slot[StepOf(d).output]) :
          Become(d, [drv[d] EXCEPT !.call = "landed", !.arg = b])
    BY <1>4 DEF LookForBroadcast
  <2>2. QED
    BY <1>2, <1>4, <2>1 DEF LookForBroadcast, Matching, world
<1>5. CASE LookForBroadcast(d) /\ Matching(channel, Slot[StepOf(d).output]) = {}
  <2>1. drv'[d] = [drv[d] EXCEPT !.call = "absent"] /\ channel' = channel
    BY <1>5, WellTypedDrivers, Becomes DEF Served, LookForBroadcast, world
  <2>2. drv'[d].v = drv[d].v /\ drv'[d].seq = drv[d].seq /\ drv'[d].call = "absent"
    BY <1>1, <2>1 DEF DriverState
  <2>3. StepOf(d)' = StepOf(d)
    BY <2>2 DEF StepOf
  <2>4. \A b \in Broadcast :
          channel[b].slot = Slot[StepOf(d).output] => channel[b].state \notin OnChannel
    BY <1>5, NoneAtAll DEF Served, LookForBroadcast
  <2>5. QED
    BY <1>1, <2>1, <2>2, <2>3, <2>4 DEF CallRight
<1>6. QED
  BY <1>3, <1>4, <1>5

LEMMA CallsRightNext ==
  ASSUME Alone, SlotsOnce, Served, [Next]_vars PROVE CallsRight'
<1> USE WellTypedDrivers DEF Served
<1>1. ASSUME NEW d \in Drivers, CallRight(d)' PROVE CallsRight'
  BY <1>1, OnlyOne DEF CallsRight
<1>2. ASSUME NEW d \in Drivers, drv'[d].pc # "call" PROVE CallsRight'
  BY <1>2, OnlyOne DEF CallsRight, Is
<1>3. ASSUME NEW d \in Drivers, NextStep(d) PROVE CallsRight'
  <2>1. PICK s \in Outstanding(d) :
          \/ Become(d, [drv[d] EXCEPT !.pc = "call", !.seq = s, !.att = 1,
                                      !.call = "sent", !.arg = Argument(drv[d].v, s)])
          \/ Rest(d)
    BY <1>3 DEF NextStep
  <2>2. CASE Rest(d)
    BY <1>2, <2>2, Becomes DEF Rest, IdleDriver
  <2>3. CASE ~Rest(d)
    <3>1. drv'[d] = [drv[d] EXCEPT !.pc = "call", !.seq = s, !.att = 1,
                                   !.call = "sent", !.arg = Argument(drv[d].v, s)]
      BY <2>1, <2>3, Becomes
    <3>2. /\ drv'[d].v = drv[d].v /\ drv'[d].seq = s /\ drv'[d].call = "sent"
          /\ drv'[d].arg = Argument(drv[d].v, s)
      BY <3>1, DriverOf DEF DriverState
    <3>3. Busy(drv[d])
      BY <1>3 DEF NextStep, Is, Busy, DriversFaithful, Faithful
    <3>4. QED
      BY <1>1, <3>2, <3>3, CallBegins
  <2>4. QED
    BY <2>2, <2>3
<1>4. ASSUME NEW d \in Drivers, Call(d) PROVE CallsRight'
  <2>1. drv[d] \in DriverState /\ Is(d, "call") /\ CallRight(d) /\ Busy(drv[d])
    BY <1>4, DriverOf DEF Call, LookForBroadcast, CreateBroadcast, PointEncoder, StartEncoder, StopEncoder,
       CloseBroadcast, CallOk, Fault, NoTarget, Calling, CallsRight, Busy, Is, DriversFaithful, Faithful
  <2>2. CASE PointEncoder(d) \/ StartEncoder(d) \/ StopEncoder(d) \/ CloseBroadcast(d)
    <3>1. StepOf(d).kind # "prepare" /\ Become(d, [drv[d] EXCEPT !.call = "landed"])
      BY <2>2 DEF PointEncoder, StartEncoder, StopEncoder, CloseBroadcast, Calling, Answered
    <3>2. drv'[d] = [drv[d] EXCEPT !.call = "landed"]
      BY <3>1, Becomes
    <3>3. drv'[d].v = drv[d].v /\ drv'[d].seq = drv[d].seq /\ drv'[d].arg = drv[d].arg
      BY <2>1, <3>2 DEF DriverState
    <3>4. QED
      BY <1>1, <2>1, <3>1, <3>3, CallGoesOn
  <2>3. CASE CallOk(d)
    <3>1. drv'[d] = [drv[d] EXCEPT !.pc = "loop", !.att = 0, !.call = "none", !.arg = 0]
      BY <2>3, Becomes DEF CallOk
    <3>2. QED
      BY <1>2, <2>1, <3>1 DEF DriverState
  <2>4. CASE Fault(d) \/ NoTarget(d)
    <3>1. \/ Become(d, [drv[d] EXCEPT !.att = @ + 1, !.call = "sent",
                                      !.arg = Argument(drv[d].v, drv[d].seq)])
          \/ Become(d, [drv[d] EXCEPT !.pc = "failed", !.att = 0, !.call = "none", !.arg = 0])
      BY <2>4 DEF Fault, NoTarget, CallFailed
    <3>2. \/ drv'[d] = [drv[d] EXCEPT !.att = @ + 1, !.call = "sent",
                                      !.arg = Argument(drv[d].v, drv[d].seq)]
          \/ drv'[d] = [drv[d] EXCEPT !.pc = "failed", !.att = 0, !.call = "none", !.arg = 0]
      BY <3>1, Becomes
    <3>3. \/ /\ drv'[d].v = drv[d].v /\ drv'[d].seq = drv[d].seq /\ drv'[d].call = "sent"
             /\ drv'[d].arg = Argument(drv[d].v, drv[d].seq)
          \/ drv'[d].pc = "failed"
      BY <2>1, <3>2 DEF DriverState
    <3>4. QED
      BY <1>1, <1>2, <2>1, <3>3, CallBegins
  <2>5. QED
    BY <1>1, <1>4, <2>2, <2>3, <2>4, PreparingRight DEF Call
<1>5. ASSUME NEW d \in Drivers, Work(d), ~Call(d), ~NextStep(d) PROVE CallsRight'
  <2>1. ~Is(d, "call")
    BY <1>5 DEF Work, Pass, StopPass, BeginFail, BeginPrepare, BeginStop, MarkMissed, BeginStart,
       BeginComplete, InWindow, Ready, MayTick, LoopDone, StepFailed, NextOutput, OutputsDone,
       Undo, UndoStep, DiscardBroadcast, UndoOk, UndoFault, UndoDone, Settle, Is
  <2>2. QED
    BY <1>2, <1>5, <2>1, OnlyCallsCall
<1>6. CASE Crash
  BY <1>6 DEF Crash, CallsRight, Is, IdleDriver
<1>7. CASE EditEvent \/ Clock \/ Reconcile \/ Recovered \/ UNCHANGED vars
  <2>1. drv' = drv /\ channel' = channel
    BY <1>7 DEF EditEvent, Clock, Reconcile, Recovered, world, vars
  <2>2. QED
    BY <2>1, CallGoesOn DEF CallsRight, Is
<1>8. QED
  BY <1>3, <1>4, <1>5, <1>6, <1>7, AloneSteps

\* Among what a driver does, only an answered call makes a row done.
LEMMA OnlyCallsDo ==
  ASSUME WellTyped, NEW d \in Drivers, Work(d), ~CallOk(d), NEW s \in Seqs, row'[s] = "done"
  PROVE  row[s] = "done"
<1>1. row \in [Seqs -> StepState]
  BY DEF WellTyped, TypeOK
<1>2. CASE Pass(d)
  BY <1>1, <1>2 DEF Pass, StopPass, BeginFail, BeginPrepare, Prepares, BeginStop, MarkMissed,
                    BeginStart, BeginComplete, database
<1>3. CASE Call(d)
  BY <1>1, <1>3 DEF Call, LookForBroadcast, CreateBroadcast, PointEncoder, StartEncoder, StopEncoder,
                    CloseBroadcast, Fault, NoTarget, CallFailed, MarkedRunning, database
<1>4. CASE UndoFault(d)
  <2>1. PICK state \in {row[drv[d].seq], "compensated"} : row' = [row EXCEPT ![drv[d].seq] = state]
    BY <1>4 DEF UndoFault, Undone
  <2>2. QED
    BY <1>1, <2>1
<1>5. CASE Undo(d) /\ ~UndoFault(d)
  BY <1>1, <1>5 DEF Undo, UndoStep, DiscardBroadcast, UndoOk, Undone, UndoDone, database
<1>6. CASE NextStep(d)
  BY <1>1, <1>6 DEF NextStep, MarkedRunning
<1>7. QED
  BY <1>2, <1>3, <1>4, <1>5, <1>6
     DEF Work, LoopDone, StepFailed, NextOutput, OutputsDone, Settle, database

\* A row is done with the broadcast that its call was about, or that recovery found.
LEMMA RowsRightNext ==
  ASSUME Alone, SlotsOnce, Served, [Next]_vars PROVE RowsRight'
<1> USE DEF Served
<1> SUFFICES ASSUME Trusted', NEW s \in Seqs, row'[s] = "done", Committed[s].kind = "prepare"
             PROVE  Of(ext[s], Committed[s].output)'
  BY DEF RowsRight
<1>0. Trusted /\ row \in [Seqs -> StepState] /\ ext \in [Seqs -> BroadcastId] /\ channel \in ChannelType
  BY TrustBegins DEF WellTyped, TypeOK
<1>1. ASSUME NEW b, Of(b, Committed[s].output), ext'[s] = b
      PROVE  Of(ext[s], Committed[s].output)'
  <2>1. Of(b, Committed[s].output)'
    BY <1>1, OfStays
  <2>2. QED
    BY <1>1, <2>1 DEF Of
<1>2. CASE row[s] = "done" /\ ext'[s] = ext[s]
  BY <1>0, <1>1, <1>2 DEF RowsRight
<1>3. ASSUME NEW d \in Drivers, CallOk(d) PROVE Of(ext[s], Committed[s].output)'
  <2> DEFINE q == drv[d].seq
  <2>1. /\ q \in Seqs /\ row[q] = "running" /\ StepOf(d).kind = Committed[q].kind
        /\ StepOf(d).output = Committed[q].output
    BY <1>3 DEF CallOk, Is, WellTyped, Placed, AtStep, DriversFaithful, Faithful, SameSteps, StepOf,
                CallsRun
  <2>2. CASE s = q
    <3>1. ext'[s] = drv[d].arg
      BY <1>0, <1>3, <2>1, <2>2 DEF CallOk
    <3>2. Of(drv[d].arg, Committed[s].output)
      BY <1>3, <2>1, <2>2 DEF CallOk, CallsRight, CallRight
    <3>3. QED
      BY <1>1, <3>1, <3>2
  <2>3. CASE s # q
    BY <1>0, <1>2, <1>3, <2>3 DEF CallOk
  <2>4. QED
    BY <2>2, <2>3
<1>4. ASSUME NEW d \in Drivers, Work(d), ~CallOk(d) PROVE Of(ext[s], Committed[s].output)'
  <2>1. ext' = ext
    BY <1>4 DEF Work, Pass, StopPass, BeginFail, BeginPrepare, Prepares, BeginStop, MarkMissed,
       BeginStart, BeginComplete, Call, LookForBroadcast, CreateBroadcast, PointEncoder, StartEncoder,
       StopEncoder, CloseBroadcast, Fault, NoTarget, CallFailed, Undo, UndoStep, DiscardBroadcast,
       UndoOk, UndoFault, Undone, UndoDone, NextStep, LoopDone, StepFailed, NextOutput, OutputsDone,
       Settle, database
  <2>2. row[s] = "done"
    BY <1>0, <1>4, OnlyCallsDo
  <2>3. QED
    BY <1>2, <2>1, <2>2
<1>5. CASE Reconcile
  <2>1. SameSteps(version)
    <3>1. \A d \in Drivers : ~Busy(drv[d])
      BY <1>5 DEF Reconcile, RecoversAlone, AllIdle, Is, Busy
    <3>2. QED
      BY <1>0, <3>1 DEF Trusted
  <2>2. PICK r \in Interrupted :
          \/ row' = [row EXCEPT ![r] = "failed"] /\ ext' = ext
          \/ row' = [row EXCEPT ![r] = "pending"] /\ ext' = ext
          \/ \E b \in Matching(channel, Slot[Plan[version][r].output]) :
               row' = [row EXCEPT ![r] = "done"] /\ ext' = [ext EXCEPT ![r] = b]
    BY <1>5 DEF Reconcile
  <2>3. CASE s # r
    BY <1>0, <1>2, <2>2, <2>3
  <2>4. CASE s = r
    <3>1. PICK b \in Matching(channel, Slot[Plan[version][s].output]) : ext' = [ext EXCEPT ![s] = b]
      BY <1>0, <2>2, <2>4
    <3>2. Plan[version][s].output = Committed[s].output
      BY <2>1 DEF SameSteps
    <3>3. Of(b, Committed[s].output) /\ ext'[s] = b
      BY <1>0, <3>1, <3>2 DEF Matching, Of
    <3>4. QED
      BY <1>1, <3>3
  <2>5. QED
    BY <2>3, <2>4
<1>6. CASE EditEvent \/ Clock \/ Crash \/ Recovered \/ UNCHANGED vars
  BY <1>2, <1>6 DEF EditEvent, Clock, Crash, Recovered, database, vars
<1>7. QED
  BY <1>3, <1>4, <1>5, <1>6, AloneSteps

\* Nothing but a prepare's insert puts a broadcast on the channel at all.
LEMMA OnlyInsertPutsOn ==
  ASSUME Alone, WellTyped, [Next]_vars, \A d \in Drivers : ~CreateBroadcast(d),
         NEW b \in Broadcast, channel'[b].state \in OnChannel
  PROVE  channel[b].state \in OnChannel /\ channel'[b].slot = channel[b].slot
<1> DEFINE Same == channel[b].state \in OnChannel /\ channel'[b].slot = channel[b].slot
<1> USE DEF OnChannel
<1>1. channel \in ChannelType
  BY DEF WellTyped, TypeOK
<1>2. ASSUME NEW d \in Drivers, Work(d) PROVE Same
  <2>1. CASE StartEncoder(d)
    BY <1>1, <2>1 DEF StartEncoder, VideoArrives, Moved, ChannelType
  <2>2. CASE StopEncoder(d)
    BY <1>1, <2>2 DEF StopEncoder, VideoStops, Moved, ChannelType
  <2>3. CASE DiscardBroadcast(d)
    BY <1>1, <2>3 DEF DiscardBroadcast, Discarded, ChannelType
  <2>4. CASE channel' = channel
    BY <2>4
  <2>5. QED
    BY <1>2, <2>1, <2>2, <2>3, <2>4 DEF Work, Pass, StopPass, BeginFail, BeginPrepare, Prepares,
       BeginStop, MarkMissed, BeginStart, BeginComplete, Call, LookForBroadcast, PointEncoder,
       CloseBroadcast, CallOk, Fault, NoTarget, CallFailed, Undo, UndoStep, UndoOk, UndoFault, Undone,
       UndoDone, NextStep, LoopDone, StepFailed, NextOutput, OutputsDone, Settle, world
<1>3. CASE EditEvent \/ Clock \/ Crash \/ Reconcile \/ Recovered \/ UNCHANGED vars
  BY <1>3 DEF EditEvent, Clock, Crash, Reconcile, Recovered, world, vars
<1>4. QED
  BY <1>2, <1>3, AloneSteps

LEMMA OneBroadcastNext ==
  ASSUME Alone, Served, OneBroadcast, [Next]_vars PROVE OneBroadcast'
<1>1. CASE \A d \in Drivers : ~CreateBroadcast(d)
  BY <1>1, OnlyInsertPutsOn DEF Served, OneBroadcast
<1>2. ASSUME NEW d \in Drivers, CreateBroadcast(d) PROVE OneBroadcast'
  <2>1. channel \in ChannelType
    BY DEF Served, WellTyped, TypeOK
  <2>2. PICK f \in FreshIds(channel) :
          channel' = [channel EXCEPT ![f] = [slot |-> Slot[StepOf(d).output], state |-> "upcoming"]]
    BY <1>2 DEF CreateBroadcast, Inserted
  <2>3. \A b \in Broadcast :
          channel[b].slot = Slot[StepOf(d).output] => channel[b].state \notin OnChannel
    BY <1>2 DEF CreateBroadcast, Calling, Served, CallsRight, CallRight
  <2>4. \A b \in Broadcast : b # f => channel'[b] = channel[b]
    BY <2>1, <2>2 DEF ChannelType
  <2>5. channel'[f].slot = Slot[StepOf(d).output] /\ f \in Broadcast
    BY <2>1, <2>2 DEF FreshIds, ChannelType
  <2>6. QED
    BY <2>3, <2>4, <2>5 DEF OneBroadcast
<1>3. QED
  BY <1>1, <1>2

LEMMA ServedInit == ASSUME Init PROVE Served /\ OneBroadcast
<1>1. WellTyped
  BY InitTyped
<1>2. DriversFaithful /\ CallsRun /\ CallsRight /\ RecoversAlone
  BY DEF Init, DriversFaithful, Faithful, IdleDriver, CallsRun, CallsRight, Is, RecoversAlone
<1>3. \A b \in Broadcast : channel[b].state = "absent"
  BY DEF Init, EmptyChannel
<1>4. TargetsBacked /\ RowsRight
  BY DEF Init, TargetsBacked, RowsRight
<1>5. QED
  BY <1>1, <1>2, <1>3, <1>4 DEF Served, AiredBacked, OneBroadcast, OnChannel

LEMMA ServedNext == ASSUME Alone, SlotsOnce, Served, [Next]_vars PROVE Served'
<1>1. WellTyped'
  BY NextTyped DEF Served
<1>2. DriversFaithful' /\ RecoversAlone' /\ CallsRun'
  BY FaithfulNext, RecoversAloneNext, CallsRunNext DEF Served, Alone
<1>3. AiredBacked' /\ TargetsBacked'
  BY AiredBackedNext, TargetsBackedNext DEF Served
<1>4. CallsRight' /\ RowsRight'
  BY CallsRightNext, RowsRightNext
<1>5. QED
  BY <1>1, <1>2, <1>3, <1>4 DEF Served

\* With one scheduler at work, there is never a second broadcast for a service:
\* whatever calls fail or lose their answers, whenever the program crashes, and
\* however the event is edited meanwhile (executor.ts executeSteps looks for the
\* broadcast of an earlier attempt; reconcileRun for that of an interrupted one).
THEOREM OneBroadcastEach == ASSUME Alone, SlotsOnce PROVE Spec => []OneBroadcast
<1>1. Init => Served /\ OneBroadcast
  BY ServedInit
<1>2. Served /\ OneBroadcast /\ [Next]_vars => (Served /\ OneBroadcast)'
  BY ServedNext, OneBroadcastNext
<1>3. QED
  BY <1>1, <1>2, PTL DEF Spec
=============================================================================
