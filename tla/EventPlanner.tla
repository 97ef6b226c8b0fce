---------------------------- MODULE EventPlanner ----------------------------
(***************************************************************************)
(* EventPlanner.plan of runs/event-planner.ts: the steps of an event, one  *)
(* enabled output after the other, in the order the executor runs them.    *)
(*                                                                         *)
(* An output streams either to a connected service (a destination, which   *)
(* needs a broadcast) or to a stored stream key (a credential).            *)
(***************************************************************************)
EXTENDS RunStates, SequencesExt

Step(kind, phase, o) == [kind |-> kind, phase |-> phase, output |-> o]

EncoderSteps(o) ==
  << Step("applyStreamTarget", "start", o),
     Step("startStreaming",    "start", o),
     Step("stopStreaming",     "stop",  o) >>

StreamSteps(o, toDestination) ==
  IF toDestination
    THEN <<Step("prepare", "prepare", o)>> \o EncoderSteps(o)
           \o <<Step("finalize", "complete", o)>>
    ELSE EncoderSteps(o)

\* outs: the enabled outputs in the event's order.
PlanFor(outs, destinations) ==
  FlattenSeq([i \in DOMAIN outs |-> StreamSteps(outs[i], outs[i] \in destinations)])
=============================================================================
