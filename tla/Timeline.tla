------------------------------ MODULE Timeline ------------------------------
(***************************************************************************)
(* timelineFor of runs/timeline.ts: when each output of an event starts    *)
(* and ends. Times are whole units (a unit stands for some minutes); the   *)
(* run is created at time 0, so a forced run's window opens at 0.          *)
(***************************************************************************)
EXTENDS Integers

CONSTANTS
  Outputs,         \* the event's outputs
  ScheduledStart,  \* occurrence.scheduled_start
  ScheduledEnd,    \* occurrence.scheduled_end
  Offset,          \* [Outputs -> Nat], from the start of the window
  Duration,        \* [Outputs -> Nat]
  FollowsWindow,   \* the outputs that end when the window does
  PrepareLead, Preroll, Postroll, Grace

ASSUME TimelineAssumption ==
  /\ ScheduledStart \in Nat /\ ScheduledEnd \in Nat
  /\ Offset \in [Outputs -> Nat] /\ Duration \in [Outputs -> Nat]
  /\ FollowsWindow \subseteq Outputs
  /\ PrepareLead \in Nat /\ Preroll \in Nat /\ Postroll \in Nat /\ Grace \in Nat

WindowStart(forced) == IF forced THEN 0 ELSE ScheduledStart

WindowEnd(forced) == ScheduledEnd + (WindowStart(forced) - ScheduledStart)

StartsAt(forced, o) == WindowStart(forced) + Offset[o]

\* Never before it starts, when the offset lies past the end of the window.
EndsAt(forced, o) ==
  IF o \notin FollowsWindow THEN StartsAt(forced, o) + Duration[o]
  ELSE IF WindowEnd(forced) < StartsAt(forced, o) THEN StartsAt(forced, o)
  ELSE WindowEnd(forced)

\* now >= timelineEnd + postroll
EventOver(forced, outs, now) ==
  /\ now >= WindowEnd(forced) + Postroll
  /\ \A o \in outs : now >= EndsAt(forced, o) + Postroll
=============================================================================
