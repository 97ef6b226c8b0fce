----------------------------- MODULE RunStates -----------------------------
(***************************************************************************)
(* The run lifecycle of runs/state-machine.ts: the states a run may be in, *)
(* the moves the store accepts between them, the states of one step row,   *)
(* and the shape of one planned step (runs/steps.ts).                      *)
(***************************************************************************)
EXTENDS Integers, Sequences

TerminalStates == {"completed", "failed", "cancelled"}

RunState ==
  {"scheduled", "preparing", "ready", "running", "completing"} \cup TerminalStates

IsTerminal(s) == s \in TerminalStates

\* Outputs may have been told to go.
IsOnAir(s) == s \in {"running", "completing"}

Transitions ==
  [s \in RunState |->
    CASE s = "scheduled"  -> {"preparing", "failed", "cancelled"}
      [] s = "preparing"  -> {"ready", "failed", "cancelled"}
      [] s = "ready"      -> {"running", "completing", "failed", "cancelled"}
      [] s = "running"    -> {"running", "completing", "failed", "cancelled"}
      [] s = "completing" -> {"completed", "failed", "cancelled"}
      [] OTHER            -> {}]

CanTransition(from, to) == to \in Transitions[from]

\* store.transition: a move to the state the run is in already is a no-op, any
\* move outside the table throws.
AcceptsAnything(from, to) == TRUE   \* mutant: no assertTransition
Accepts(from, to) == from = to \/ CanTransition(from, to)

StepState == {"pending", "running", "done", "failed", "compensated"}

Phase == {"prepare", "start", "stop", "complete"}

StepKind ==
  {"prepare", "applyStreamTarget", "startStreaming", "stopStreaming", "finalize"}

\* One planned step.
StepDefinition(Outputs) == [kind : StepKind, phase : Phase, output : Outputs]

\* The step has a reconcile and a compensate function, which only the creation
\* of a broadcast has.
Guarded(step) == step.kind = "prepare"
=============================================================================
