------------------------------ MODULE Magewell ------------------------------
(***************************************************************************)
(* The adapter of a Magewell encoder (plugin-magewell). The encoder has    *)
(* one switch for all its destinations and each destination has one of its *)
(* own, so that starting and stopping an output takes several requests,    *)
(* and the requests of several outputs mix. Recording on several disks is  *)
(* the same shape with other names. A request may fail, done or not done.  *)
(***************************************************************************)
EXTENDS Naturals, FiniteSets

CONSTANTS
  Destinations,   \* the ids of stream-server, or of rec-channels
  Urls,           \* the targets that outputs are given
  MaxFailures     \* bound: requests that fail

MagewellAssumption == MaxFailures \in Nat

VARIABLES
  use,       \* [Destinations -> is-use]
  live,      \* the encoder is on
  target,    \* [Destinations -> the url and key that the encoder has]
  layout,    \* what reloadLayout() read of them last
  step,      \* [Destinations -> how far the call of its output is]
  session,   \* the cookie: "none", "good", "expired"
  dropped,   \* destinations whose last start or stop failed
  failures   \* so far

magewellVars == <<use, live, target, layout, step, session, dropped, failures>>

MagewellTypeOK ==
  /\ use \in [Destinations -> BOOLEAN] /\ live \in BOOLEAN
  /\ target \in [Destinations -> Urls \cup {"unset"}]
  /\ layout \in [Destinations -> Urls \cup {"unset"}]
  /\ step \in [Destinations -> {"idle", "reload", "start", "status", "stop"}]
  /\ session \in {"none", "good", "expired"}
  /\ dropped \subseteq Destinations /\ failures \in 0..MaxFailures

MagewellInit ==
  /\ use = [d \in Destinations |-> FALSE] /\ live = FALSE
  /\ target = [d \in Destinations |-> "unset"] /\ layout = target
  /\ step = [d \in Destinations |-> "idle"]
  /\ session = "none" /\ dropped = {} /\ failures = 0

\* withSession(): signs in where there is no session, and once more where it is no longer good.
Signed == session' = "good"

Go(d, s) == step' = [step EXCEPT ![d] = s]
OnAir(d) == use[d] /\ live

-----------------------------------------------------------------------------
\* applyStreamTarget: set-server, and the layout read again.
SetServer(d) ==
  /\ step[d] = "idle" /\ Signed
  /\ \E t \in Urls : target' = [target EXCEPT ![d] = t]
  /\ Go(d, "reload")
  /\ UNCHANGED <<use, live, layout, dropped, failures>>

ReloadLayout(d) ==
  /\ step[d] = "reload" /\ Signed /\ layout' = target /\ Go(d, "idle")
  /\ UNCHANGED <<use, live, target, dropped, failures>>

\* startStreaming: enable-server, start-live. "Repeat" is no failure.
Enable(d) ==
  /\ step[d] = "idle" /\ Signed
  /\ use' = [use EXCEPT ![d] = TRUE] /\ Go(d, "start") /\ dropped' = dropped \ {d}
  /\ UNCHANGED <<live, target, layout, failures>>

StartLive(d) ==
  /\ step[d] = "start" /\ Signed /\ live' = TRUE /\ Go(d, "idle")
  /\ UNCHANGED <<use, target, layout, dropped, failures>>

\* stopStreaming: enable-server with is-use 0, get-status, and stop-live if nobody is left.
Disable(d) ==
  /\ step[d] = "idle" /\ Signed
  /\ use' = [use EXCEPT ![d] = FALSE] /\ Go(d, "status") /\ dropped' = dropped \ {d}
  /\ UNCHANGED <<live, target, layout, failures>>

\* Mutant: a destination that takes no part is one of the others.
EveryOther(d) == Destinations \ {d}

Others(d) == {e \in Destinations \ {d} : use[e]}

LastOne(d) ==
  /\ step[d] = "status" /\ Signed
  /\ Go(d, IF Others(d) = {} THEN "stop" ELSE "idle")
  /\ UNCHANGED <<use, live, target, layout, dropped, failures>>

StopLive(d) ==
  /\ step[d] = "stop" /\ Signed /\ live' = FALSE /\ Go(d, "idle")
  /\ UNCHANGED <<use, target, layout, dropped, failures>>

\* The request fails, and its call with it.
Fails(d) ==
  /\ step[d] # "idle" /\ failures < MaxFailures /\ failures' = failures + 1
  /\ Go(d, "idle") /\ dropped' = IF step[d] = "reload" THEN dropped ELSE dropped \cup {d}
  /\ session' \in {session, "none"}
  /\ live' \in IF step[d] = "start" THEN {live, TRUE} ELSE IF step[d] = "stop" THEN {live, FALSE} ELSE {live}
  /\ UNCHANGED <<use, target, layout>>

Expires ==
  /\ session = "good" /\ session' = "expired"
  /\ UNCHANGED <<use, live, target, layout, step, dropped, failures>>

MagewellNext ==
  \/ Expires
  \/ \E d \in Destinations :
       SetServer(d) \/ ReloadLayout(d) \/ Enable(d) \/ StartLive(d)
         \/ Disable(d) \/ LastOne(d) \/ StopLive(d) \/ Fails(d)

MagewellSpec == MagewellInit /\ [][MagewellNext]_magewellVars

-----------------------------------------------------------------------------
\* Outputs that end at the same time each see the other out, or stop the encoder: it is
\* never left encoding for nobody once their calls came back.
NobodyLeftEncoding ==
  live /\ dropped = {} /\ (\A d \in Destinations : step[d] = "idle")
    => \E d \in Destinations : use[d]

\* What the comment on stopStreaming says, and the requests do not ensure: an output that
\* ends does not take the others off the air.
OthersStayOnAir ==
  [][\A d, e \in Destinations :
       d # e /\ StopLive(d) => ~(OnAir(e) /\ step[e] = "idle")]_magewellVars
=============================================================================
