----------------------------- MODULE TickTurns -----------------------------
(***************************************************************************)
(* What the guard of app.ts promises about scheduler ticks: one has its    *)
(* turn at a time, and a tick loses its turn by ending or by being given   *)
(* up on, after which it may go on but the others no longer wait for it.   *)
(***************************************************************************)
CONSTANT Ticks

VARIABLE turn   \* [Ticks -> {"idle", "going", "late"}]

Begin(t) ==
  /\ turn[t] = "idle"
  /\ \A u \in Ticks : turn[u] # "going"
  /\ turn' = [turn EXCEPT ![t] = "going"]

GiveUp(t) ==
  /\ turn[t] = "going"
  /\ turn' = [turn EXCEPT ![t] = "late"]

End(t) ==
  /\ turn[t] # "idle"
  /\ turn' = [turn EXCEPT ![t] = "idle"]

\* The program died.
Restart == turn' = [t \in Ticks |-> "idle"]

Init == turn = [t \in Ticks |-> "idle"]

Next == (\E t \in Ticks : Begin(t) \/ GiveUp(t) \/ End(t)) \/ Restart

Spec == Init /\ [][Next]_turn
=============================================================================
