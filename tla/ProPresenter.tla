---------------------------- MODULE ProPresenter ----------------------------
(***************************************************************************)
(* The adapter of ProPresenter (plugin-propresenter): one capture, to a    *)
(* folder or to a stream, started and stopped as a whole. Its settings are *)
(* read, changed and put back. Some installs report where a capture goes,  *)
(* others leave the adapter to what it remembers.                          *)
(***************************************************************************)
EXTENDS Naturals, FiniteSets

CONSTANTS
  Urls,
  Users,       \* the outputs pointed at the one node
  Reports,     \* the install reports the destination
  SaveLocal,   \* saveLocal: a stream keeps a copy
  MaxPointed   \* bound: calls that point the capture somewhere

ProAssumption ==
  /\ Reports \in BOOLEAN /\ SaveLocal \in BOOLEAN /\ MaxPointed \in Nat
  /\ Urls \cap {"off", "disk", "unset"} = {}

VARIABLES
  capture,    \* what is captured to: "off", "disk" or the url
  settings,   \* [url, saved: rtmp.save_local, to: where the next capture goes]
  pointedAt,  \* this.pointedAt
  call,       \* [Users -> the settings it read and what it wants with them]
  online,     \* "closed", "open"
  pointed,    \* calls so far
  moved       \* the settings were written while a capture is going on

proVars == <<capture, settings, pointedAt, call, online, pointed, moved>>

Idle == [for |-> "none", url |-> "unset", saved |-> FALSE]
Settings == [url : Urls \cup {"unset"}, saved : BOOLEAN, to : {"disk", "rtmp"}]

ProTypeOK ==
  /\ capture \in {"off", "disk"} \cup Urls /\ settings \in Settings
  /\ pointedAt \in {"none", "disk", "rtmp"} /\ online \in {"open", "closed"} /\ pointed \in 0..MaxPointed /\ moved \in BOOLEAN
  /\ call \in [Users -> [for : {"none", "disk", "rtmp", "start"}, url : Urls \cup {"unset"}, saved : BOOLEAN]]

ProInit ==
  /\ capture = "off" /\ settings = [url |-> "unset", saved |-> FALSE, to |-> "disk"]
  /\ pointedAt = "none" /\ call = [u \in Users |-> Idle] /\ online = "closed" /\ pointed = 0 /\ moved = FALSE

\* connect(), by an adapter that remembers nothing.
Connect ==
  /\ online = "closed" /\ online' = "open" /\ pointedAt' = "none"
  /\ UNCHANGED <<capture, settings, call, pointed, moved>>

\* The program went away, or the host disposed of the device: its calls fail.
Closes ==
  /\ online = "open" /\ online' = "closed" /\ call' = [u \in Users |-> Idle]
  /\ UNCHANGED <<capture, settings, pointedAt, pointed, moved>>

\* applyStreamTarget and startRecording begin with the settings as they are.
ReadSettings(u) ==
  /\ online = "open" /\ call[u] = Idle /\ pointed < MaxPointed /\ pointed' = pointed + 1
  /\ \E towards \in {"disk", "rtmp"} :
       call' = [call EXCEPT ![u] = [for |-> towards, url |-> settings.url, saved |-> settings.saved]]
  /\ UNCHANGED <<capture, settings, pointedAt, online, moved>>

\* write(): all of them go back, with the one thing changed and pointed there.
Write(u) ==
  /\ online = "open" /\ call[u].for \in {"disk", "rtmp"}
  /\ \E url \in Urls :
       settings' = IF call[u].for = "rtmp" THEN [url |-> url, saved |-> SaveLocal, to |-> call[u].for]
                   ELSE [url |-> call[u].url, saved |-> call[u].saved, to |-> call[u].for]
  /\ pointedAt' = call[u].for
  /\ call' = [call EXCEPT ![u] = IF @.for = "disk" THEN [Idle EXCEPT !.for = "start"] ELSE Idle]
  /\ moved' = (capture # "off") /\ UNCHANGED <<capture, online, pointed>>

\* GET capture/start: nothing new where a capture is going on.
StartCapture(u) ==
  /\ online = "open" /\ (call[u].for = "start" \/ (call[u] = Idle /\ settings.url # "unset"))
  /\ capture' = IF capture # "off" THEN capture ELSE IF settings.to = "rtmp" THEN settings.url ELSE "disk"
  /\ call' = [call EXCEPT ![u] = Idle]
  /\ UNCHANGED <<settings, pointedAt, online, pointed, moved>>

StopCapture(u) ==
  /\ online = "open" /\ call[u] = Idle /\ capture # "off" /\ capture' = "off"
  /\ moved' = FALSE /\ UNCHANGED <<settings, pointedAt, call, online, pointed>>

ProNext ==
  \/ Connect \/ Closes
  \/ \E u \in Users : ReadSettings(u) \/ Write(u) \/ StartCapture(u) \/ StopCapture(u)

ProSpec == ProInit /\ [][ProNext]_proVars

-----------------------------------------------------------------------------
\* state(): what the node says of itself

\* Mutant: a url that is set is believed before what the install reports.
GuessedFirst ==
  IF settings.url # "unset" THEN "rtmp" ELSE IF Reports THEN settings.to ELSE "disk"

Where ==
  IF Reports THEN settings.to
  ELSE IF pointedAt # "none" THEN pointedAt
  ELSE IF settings.url # "unset" THEN "rtmp" ELSE "disk"

SaysStreaming == capture # "off" /\ Where # "disk"
SaysRecording == capture # "off" /\ (Where = "disk" \/ settings.saved)
SaysTarget == IF Where = "disk" THEN "unset" ELSE settings.url

\* Until somebody points the capture elsewhere while it is going on, the node says what it
\* does: also an adapter that has just come back, and with two outputs' calls mixed. (Of an
\* install that reports the destination.)
SaysWhatItDoes ==
  ~moved /\ capture # "off" => SaysTarget = (IF capture = "disk" THEN "unset" ELSE capture)

\* What the comment says, and an install that reports no destination does not show: a url
\* that was left in the settings is not read as a stream.
LeftoverIsNoStream == SaysStreaming => capture # "disk"
=============================================================================
