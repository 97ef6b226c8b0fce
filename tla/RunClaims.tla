----------------------------- MODULE RunClaims -----------------------------
(***************************************************************************)
(* What the comments and the documentation say of a run and the code does  *)
(* not do. Each is refuted by a run of its own; README.md tells the story  *)
(* of each counterexample.                                                 *)
(***************************************************************************)
EXTENDS RunProperties

\* engine.ts cancel: the stop steps of everything that actually started are run.
\* An output whose start is still waiting for the encoder counts as pending.
CancelStopsWhatStarted ==
  Finished /\ run = "cancelled" => \A e \in Devices : ~encoder[e].active
=============================================================================
