------------------------------- MODULE MCLoop -------------------------------
(***************************************************************************)
(* Instances of TickGuard and of Connections for TLC. The guard of the     *)
(* scheduler's tick and the connections that a tick looks after share no   *)
(* state, so TLC explores one or the other: "part" says which.             *)
(***************************************************************************)
EXTENDS TickGuard, Connections

VARIABLE part

GuardPart == part = "guard" /\ UNCHANGED <<part, connVars>>
ConnPart == part = "connections" /\ UNCHANGED <<part, vars>>

LoopInit ==
  /\ part \in {"guard", "connections"} /\ Init /\ ConnInit
  /\ part = "connections" => token = CHOOSE t \in Ticks : TRUE

LoopNext == (GuardPart /\ Next) \/ (ConnPart /\ ConnNext)

LoopSpec ==
  /\ LoopInit /\ [][LoopNext]_<<part, vars, connVars>>
  /\ part = "guard" => Fairness
  /\ part = "connections" => ConnFairness

\* A tick that never comes back does not stop the scheduler (TickGuard).
NextTickComes == part = "guard" => NextTurnComes

\* A device that stays switched on is connected again (Connections).
Reconnects == part = "connections" => EventuallyConnected
=============================================================================
