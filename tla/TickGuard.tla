----------------------------- MODULE TickGuard -----------------------------
(***************************************************************************)
(* The guard of App.tick (app.ts): the ticking flag, the token of its      *)
(* owner and the time its tick began. A timer calls tick() whether or not  *)
(* an earlier call has come back, and a call may never come back.          *)
(***************************************************************************)
EXTENDS Integers

CONSTANTS
  Ticks,      \* the calls of tick() that may be in flight at once (bound)
  Deadline    \* TICK_DEADLINE_MS, in units of the clock

ASSUME TickGuardAssumption == Ticks # {} /\ Deadline \in Nat \ {0}

VARIABLES
  ticking,    \* this.ticking
  token,      \* this.tickToken: the call that owns the guard
  age,        \* clock.now() - this.tickStartedAt, no further than Deadline
  call        \* [Ticks -> {"none", "awaiting"}], each call's own state

vars == <<ticking, token, age, call>>

TypeOK ==
  /\ ticking \in BOOLEAN
  /\ token \in Ticks
  /\ age \in 0..Deadline
  /\ call \in [Ticks -> {"none", "awaiting"}]

Init ==
  /\ ticking = FALSE
  /\ token \in Ticks
  /\ age = 0
  /\ call = [t \in Ticks |-> "none"]

\* Mutants: a guard without its bound on time; finally clears the flag always.
AdmitsWhenFree == ~ticking
FlagCleared(t) == FALSE

\* The guard lets a call in when nobody owns it, or its owner is past the deadline.
Admits == ~ticking \/ age >= Deadline

Enter(t) ==
  /\ call[t] = "none" /\ Admits
  /\ ticking' = TRUE /\ token' = t /\ age' = 0
  /\ call' = [call EXCEPT ![t] = "awaiting"]

\* An abandoned call finds that the token has moved on and leaves the flag alone.
FlagAfter(t) == IF token = t THEN FALSE ELSE ticking

\* finally: the work ended, or threw.
Leave(t) ==
  /\ call[t] = "awaiting"
  /\ call' = [call EXCEPT ![t] = "none"]
  /\ ticking' = FlagAfter(t)
  /\ UNCHANGED <<token, age>>

\* Time passes, by more than a unit when the machine was asleep.
Elapse ==
  /\ age < Deadline
  /\ \E a \in (age + 1)..Deadline : age' = a
  /\ UNCHANGED <<ticking, token, call>>

Next == (\E t \in Ticks : Enter(t) \/ Leave(t)) \/ Elapse

\* The timer and the clock go on. Nothing makes a call come back.
Fairness == WF_vars(\E t \in Ticks : Enter(t)) /\ WF_vars(Elapse)

Spec == Init /\ [][Next]_vars /\ Fairness

-----------------------------------------------------------------------------

\* A call has the turn while it owns the guard and is in time.
TurnOf(t) ==
  IF call[t] = "none" THEN "idle"
  ELSE IF ticking /\ token = t /\ age < Deadline THEN "going"
  ELSE "late"

Turns == INSTANCE TickTurns WITH turn <- [t \in Ticks |-> TurnOf(t)]

\* The guard implements the promise: no two ticks in time at once, and one that
\* was given up on does not clear the guard from under its successor.
TakesTurns == Turns!Spec

\* The owner's token and the flag agree with the calls in flight; without this
\* the guard could admit a call beside one that is in time.
GuardHeld ==
  /\ TypeOK
  /\ \A t \in Ticks : call[t] = "awaiting" /\ token = t => ticking

\* A call that never comes back does not stop the scheduler: as long as the
\* timer can make another call, one gets in.
NextTurnComes ==
  (\E t \in Ticks : call[t] = "none")
    ~> (\E t \in Ticks : call[t] = "awaiting" /\ token = t /\ age = 0)
=============================================================================
