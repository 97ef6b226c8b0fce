------------------------------- MODULE Screens ------------------------------
(***************************************************************************)
(* A browser that follows the server (web/src/api.ts, App.tsx, the views). *)
(* One socket tells it when to look again; what it shows is always read    *)
(* from the API. Requests overlap, their answers come in any order, and    *)
(* any of them may find that the session is over.                          *)
(***************************************************************************)
EXTENDS Integers, FiniteSets

CONSTANTS
  LastVersion,   \* bound: changes of what the server has to show
  MaxSockets,    \* bound: sockets that are open or on their way to be closed
  MaxPending,    \* bound: requests in flight
  MaxBreaks,     \* bound: sockets that drop, requests that fail, sessions that end
  Hasty          \* whether somebody signs in again before the last socket has closed

ScreensAssumption ==
  /\ LastVersion \in Nat \ {0} /\ MaxSockets \in Nat \ {0} /\ MaxPending \in Nat
  /\ MaxBreaks \in Nat /\ Hasty \in BOOLEAN

SocketIds == 1..MaxSockets

VARIABLES
  version,    \* what the server would answer
  valid,      \* whether the server still knows the session
  requests,   \* in flight; "wanted" until the screen asks again or is taken down
  shown,      \* the version on the screen, -1 while there is none
  failed,     \* useResource's error, of the screen: "none", "error" or "refused"
  gate,       \* the session as the app read it: "unread", "in" or "out"
  gateFailed, \* useResource's error, of the session
  sockets,    \* [SocketIds -> "unused", "opening", "open" or "closing"]
  current,    \* the module's "socket", 0 when undefined
  timers,     \* reconnects that are set, the last of which can be cleared
  connected,
  pulses,     \* [SocketIds -> the version at the pulse that is on its way, -1 if none is]
  promised,   \* the version that the screen was last told to look for
  breaks

screenVars ==
  <<version, valid, requests, shown, failed, gate, gateFailed, sockets, current, timers,
    connected, pulses, promised, breaks>>

\* What a request comes back with, besides a version: nothing yet, a 401, or who is signed in.
Sent == -2
Refused == -1
Out == 0
In == 1

\* useResource and the deeds of an operator: what was asked, and what the answer will be.
Request == [what : {"screen", "session", "deed"}, wanted : BOOLEAN,
            got : {Sent, Refused} \cup (0..LastVersion)]

Mounted == gate = "in"

ScreensTypeOK ==
  /\ version \in 0..LastVersion /\ valid \in BOOLEAN /\ requests \subseteq Request
  /\ shown \in -1..LastVersion /\ failed \in {"none", "error", "refused"}
  /\ gate \in {"unread", "in", "out"} /\ gateFailed \in BOOLEAN /\ connected \in BOOLEAN
  /\ sockets \in [SocketIds -> {"unused", "opening", "open", "closing"}]
  /\ current \in 0..MaxSockets /\ timers \in Nat
  /\ pulses \in [SocketIds -> -1..LastVersion] /\ promised \in 0..LastVersion
  /\ breaks \in 0..MaxBreaks

\* The page has just been loaded: the session is being read, and nothing else.
ScreensInit ==
  /\ version = 0 /\ valid \in BOOLEAN
  /\ requests = {[what |-> "session", wanted |-> TRUE, got |-> Sent]}
  /\ shown = -1 /\ failed = "none" /\ gate = "unread" /\ gateFailed = FALSE
  /\ sockets = [s \in SocketIds |-> "unused"] /\ current = 0 /\ timers = 0
  /\ connected = FALSE /\ pulses = [s \in SocketIds |-> -1] /\ promised = 0 /\ breaks = 0

Break == breaks < MaxBreaks /\ breaks' = breaks + 1

-----------------------------------------------------------------------------
\* useResource: the effect of the last request is undone, and a new one goes out.
Unwanted(what, rs) == {IF r.what = what THEN [r EXCEPT !.wanted = FALSE] ELSE r : r \in rs}
Reloaded(what, rs) ==
  Unwanted(what, rs) \cup {[what |-> what, wanted |-> TRUE, got |-> Sent]}

\* Mutant: a pulse that finds a request in flight is taken to be answered by it.
JoinedOnPulse(rs) ==
  IF \E r \in rs : r.what = "screen" /\ r.wanted THEN rs ELSE Reloaded("screen", rs)

\* useLiveRefresh: every pulse reads the screen again, whatever is in flight.
OnPulse(rs) == Reloaded("screen", rs)

\* Mutant: an answer is taken, whoever asked.
AnyAnswer(r) == TRUE

\* cancelled: only the answer to the last request is taken.
Counts(r) == r.wanted

\* openSocket, with any socket that there is not yet.
OpenSocket(s) ==
  /\ sockets[s] = "unused"
  /\ sockets' = [sockets EXCEPT ![s] = "opening"] /\ current' = s

\* The app is put up: the screen is read, and its first listener opens the socket.
PutUp(rs) ==
  /\ Hasty \/ \A s \in SocketIds : sockets[s] = "unused"
  /\ requests' = Reloaded("screen", rs)
  /\ \E s \in SocketIds : OpenSocket(s)
  /\ UNCHANGED <<shown, failed, promised, timers>>

\* The app is taken down: the last listener clears the timer and closes the socket.
TakenDown(rs) ==
  /\ requests' = Unwanted("screen", rs)
  /\ shown' = -1 /\ failed' = "none" /\ promised' = 0
  /\ timers' = IF timers > 0 THEN timers - 1 ELSE 0
  /\ sockets' = [s \in SocketIds |->
                   IF s = current /\ sockets[s] \in {"opening", "open"} THEN "closing"
                   ELSE sockets[s]]
  /\ current' = 0

\* Mutant: an answer that the session is over is shown as an error, and no more.
Ignored(rs) == rs

\* request: a 401 makes the app read the session again.
Unauthorized(rs) == Reloaded("session", rs)

-----------------------------------------------------------------------------
\* The server reads what it is asked for, when the request gets there.
Serve(r) ==
  /\ r \in requests /\ r.got = Sent
  /\ r.what = "deed" /\ valid => version < LastVersion
  /\ version' = IF r.what = "deed" /\ valid THEN version + 1 ELSE version
  /\ requests' = (requests \ {r}) \cup
       {[r EXCEPT !.got = IF r.what = "session" THEN (IF valid THEN In ELSE Out)
                          ELSE IF valid THEN version' ELSE Refused]}
  /\ UNCHANGED <<valid, shown, failed, gate, gateFailed, sockets, current, timers, connected,
                 pulses, promised, breaks>>

\* The screen's answer. Refusals are heard even when nobody wants the answer any more.
ScreenAnswered(r) ==
  /\ r \in requests /\ r.what = "screen" /\ r.got # Sent
  /\ IF r.got = Refused
     THEN requests' = Unauthorized(requests \ {r}) ELSE requests' = requests \ {r}
  /\ IF ~Counts(r) THEN UNCHANGED <<shown, failed>>
     ELSE IF r.got = Refused THEN failed' = "refused" /\ UNCHANGED shown
     ELSE shown' = r.got /\ failed' = "none"
  /\ UNCHANGED <<version, valid, gate, gateFailed, sockets, current, timers, connected, pulses,
                 promised, breaks>>

\* The session's answer puts the app up or takes it down.
SessionAnswered(r) ==
  /\ r \in requests /\ r.what = "session" /\ r.got # Sent
  /\ LET rest == requests \ {r} IN
     IF ~Counts(r)
     THEN requests' = rest /\ UNCHANGED <<gate, gateFailed, shown, failed, promised, timers,
                                          sockets, current>>
     ELSE /\ gate' = (IF r.got = In THEN "in" ELSE "out") /\ gateFailed' = FALSE
          /\ CASE r.got = In /\ ~Mounted -> PutUp(rest)
               [] r.got = Out /\ Mounted -> TakenDown(rest)
               [] OTHER -> requests' = rest /\ UNCHANGED <<shown, failed, promised, timers,
                                                           sockets, current>>
  /\ UNCHANGED <<version, valid, connected, pulses, breaks>>

\* An operator's deed (act in Devices, Schedule, Runs and RunDetail): done, and looked at.
DeedAnswered(r) ==
  /\ r \in requests /\ r.what = "deed" /\ r.got # Sent
  /\ LET rest == requests \ {r} IN
     IF r.got = Refused THEN requests' = Unauthorized(rest) /\ UNCHANGED promised
     ELSE IF Mounted
     THEN requests' = Reloaded("screen", rest) /\ promised' = IF r.got > promised THEN r.got ELSE promised
     ELSE requests' = rest /\ UNCHANGED promised
  /\ UNCHANGED <<version, valid, shown, failed, gate, gateFailed, sockets, current, timers,
                 connected, pulses, breaks>>

\* The network loses a request, or its answer.
RequestFails(r) ==
  /\ Break /\ r \in requests
  /\ requests' = requests \ {r}
  /\ failed' = IF r.what = "screen" /\ r.wanted THEN "error" ELSE failed
  /\ gateFailed' = (gateFailed \/ (r.what = "session" /\ r.wanted))
  /\ UNCHANGED <<version, valid, shown, gate, sockets, current, timers, connected, pulses,
                 promised>>

Deed ==
  /\ Mounted /\ Cardinality(requests) < MaxPending /\ version < LastVersion
  /\ ~\E r \in requests : r.what = "deed"
  /\ requests' = requests \cup {[what |-> "deed", wanted |-> TRUE, got |-> Sent]}
  /\ UNCHANGED <<version, valid, shown, failed, gate, gateFailed, sockets, current, timers,
                 connected, pulses, promised, breaks>>

-----------------------------------------------------------------------------
\* registerWebsocket: a tick of the scheduler is told to every socket that is open.
Tick ==
  /\ \E s \in SocketIds : sockets[s] = "open" /\ pulses[s] # version
  /\ pulses' = [s \in SocketIds |-> IF sockets[s] = "open" THEN version ELSE pulses[s]]
  /\ UNCHANGED <<version, valid, requests, shown, failed, gate, gateFailed, sockets, current,
                 timers, connected, promised, breaks>>

\* Something happens on the server by itself.
Happens ==
  /\ version < LastVersion /\ version' = version + 1
  /\ UNCHANGED <<valid, requests, shown, failed, gate, gateFailed, sockets, current, timers,
                 connected, pulses, promised, breaks>>

\* onmessage, which a socket that is closing no longer has.
Pulse(s) ==
  /\ sockets[s] = "open" /\ pulses[s] >= 0 /\ Cardinality(requests) < MaxPending
  /\ pulses' = [pulses EXCEPT ![s] = -1]
  /\ IF Mounted
     THEN requests' = OnPulse(requests)
          /\ promised' = IF pulses[s] > promised THEN pulses[s] ELSE promised
     ELSE UNCHANGED <<requests, promised>>
  /\ UNCHANGED <<version, valid, shown, failed, gate, gateFailed, sockets, current, timers,
                 connected, breaks>>

\* onopen: only a session that is known gets a socket.
SocketOpens(s) ==
  /\ sockets[s] = "opening" /\ valid
  /\ sockets' = [sockets EXCEPT ![s] = "open"] /\ connected' = TRUE
  /\ UNCHANGED <<version, valid, requests, shown, failed, gate, gateFailed, current, timers,
                 pulses, promised, breaks>>

\* Mutant: a socket that closes is always replaced.
AlwaysAgain == TRUE

\* Only while somebody is still listening.
Again == Mounted

\* onclose: a socket that was closed, or that dropped, or that was not let in.
SocketCloses(s) ==
  /\ \/ sockets[s] = "closing" /\ UNCHANGED breaks
     \/ sockets[s] = "opening" /\ ~valid /\ UNCHANGED breaks
     \/ sockets[s] \in {"opening", "open"} /\ Break
  /\ sockets' = [sockets EXCEPT ![s] = "unused"] /\ pulses' = [pulses EXCEPT ![s] = -1]
  /\ connected' = FALSE
  /\ timers' = IF Again THEN timers + 1 ELSE timers
  /\ UNCHANGED <<version, valid, requests, shown, failed, gate, gateFailed, current, promised>>

\* Two seconds later.
Reconnect ==
  /\ timers > 0 /\ timers' = timers - 1
  /\ \E s \in SocketIds : OpenSocket(s)
  /\ UNCHANGED <<version, valid, requests, shown, failed, gate, gateFailed, connected, pulses,
                 promised, breaks>>

-----------------------------------------------------------------------------
\* The session expires, or a password is set from another browser.
SessionEnds ==
  /\ Break /\ valid /\ valid' = FALSE
  /\ UNCHANGED <<version, requests, shown, failed, gate, gateFailed, sockets, current, timers,
                 connected, pulses, promised>>

\* The button of App.tsx: the session is over, and read again.
SignOut ==
  /\ Break /\ Mounted /\ valid' = FALSE /\ requests' = Reloaded("session", requests)
  /\ UNCHANGED <<version, shown, failed, gate, gateFailed, sockets, current, timers, connected,
                 pulses, promised>>

\* The login form.
SignIn ==
  /\ gate = "out" /\ ~valid /\ valid' = TRUE /\ requests' = Reloaded("session", requests)
  /\ Hasty \/ \A s \in SocketIds : sockets[s] = "unused"
  /\ UNCHANGED <<version, shown, failed, gate, gateFailed, sockets, current, timers, connected,
                 pulses, promised, breaks>>

ScreensNext ==
  \/ \E r \in requests : Serve(r) \/ ScreenAnswered(r) \/ SessionAnswered(r) \/ DeedAnswered(r)
                           \/ RequestFails(r)
  \/ \E s \in SocketIds : Pulse(s) \/ SocketOpens(s) \/ SocketCloses(s)
  \/ Deed \/ Tick \/ Happens \/ Reconnect \/ SessionEnds \/ SignOut \/ SignIn

ScreensSpec == ScreensInit /\ [][ScreensNext]_screenVars

-----------------------------------------------------------------------------
\* A screen never goes back to what was true before, whatever order answers come in: each
\* request undoes the one before it (useResource).
NeverBackwards == [][shown' = -1 \/ shown' >= shown]_shown

\* A screen that is waiting for nothing shows at least what the last pulse, or the operator's
\* own deed, had to show, or says that it could not be read (useLiveRefresh).
KeepsUp ==
  Mounted /\ failed = "none" /\ ~(\E r \in requests : r.what = "screen" /\ r.wanted)
    => shown >= promised

\* A screen that was refused asks who is signed in, so that the login form comes up rather
\* than a screen of numbers that stopped being true (whenSignedOut).
RefusedAsksAgain ==
  Mounted /\ failed = "refused" /\ ~valid
    => gateFailed \/ \E r \in requests : r.what = "session" /\ r.wanted

\* There is one socket for the whole app, and none is open, opening or to be opened again
\* when nobody listens (subscribe).
OneSocket ==
  LET up == {s \in SocketIds : sockets[s] \in {"opening", "open"}}
  IN Cardinality(up) + timers <= (IF Mounted THEN 1 ELSE 0)
=============================================================================
