------------------------------- MODULE MCRun -------------------------------
(***************************************************************************)
(* Instances of RunEngine for TLC: the events, plans and timelines that    *)
(* the configurations give to its constants.                               *)
(***************************************************************************)
EXTENDS RunClaims, RunRows, EventPlanner

\* Two services, 1..2 and 2..3, both to destinations.
MCOutputs == {1, 2}
MCOffset == [o \in MCOutputs |-> o - 1]
MCDuration == [o \in MCOutputs |-> 1]

MCPlanBoth == PlanFor(<<1, 2>>, {1, 2})

MCSlot == [o \in MCOutputs |-> o]
MCOwnEncoder == [o \in MCOutputs |-> o]

\* One service.
MCSingle == {1}
MCOffset1 == [o \in MCSingle |-> 0]
MCDuration1 == [o \in MCSingle |-> 1]
MCEnabled1 == <<<<1>>, <<1>>>>
MCPlanFirst == PlanFor(<<1>>, {1})
MCPlan1 == <<MCPlanFirst, MCPlanFirst>>
MCSlot1 == [o \in MCSingle |-> 1]
MCDevice1 == [o \in MCSingle |-> 1]

\* The first service is switched off: every position shifts.
MCEnabledShift == <<<<1, 2>>, <<2>>>>
MCPlanSecond == PlanFor(<<2>>, {2})
MCPlanShift == <<MCPlanBoth, MCPlanSecond>>

\* Three services: the first two share an encoder, the second on a stored stream
\* key; the third has an encoder of its own and airs beside the first.
MCThree == 1..3
MCOffset3 == [o \in MCThree |-> IF o = 2 THEN 1 ELSE 0]
MCDuration3 == [o \in MCThree |-> 1]
MCEnabled3 == <<<<1, 2, 3>>, <<1, 2, 3>>>>
MCPlanAll == PlanFor(<<1, 2, 3>>, {1, 3})
MCPlan3 == <<MCPlanAll, MCPlanAll>>
MCSlot3 == [o \in MCThree |-> o]
MCSharedEncoder == [o \in MCThree |-> IF o = 3 THEN 2 ELSE 1]

\* What the theorems about services take for granted of a plan holds of the plans
\* that event-planner.ts makes, and what they take for granted of the outputs holds
\* of the runs with one scheduler.
ASSUME MCPlansAreWellMade == WellPlanned
ASSUME MCOneScheduler ==
  Operators = {} => Alone /\ SlotsOnce /\ SlotsApart /\ HandedOver /\ FreshEncoders

\* A request that advances the run itself is one more tick: two at a time are enough.
MCTwoAdvance ==
  Cardinality({d \in Drivers : drv[d].again /\ ~Is(d, "idle")}) <= 2

\* Ticks are interchangeable.
MCTickSymmetry == Permutations(Ticks)
=============================================================================
