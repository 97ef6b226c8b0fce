--------------------------------- MODULE Obs ---------------------------------
(***************************************************************************)
(* The adapter of OBS Studio (plugin-obs). OBS names its recordings and    *)
(* says so in an event and in the reply to StopRecord; requests, replies   *)
(* and events share one websocket, where nothing overtakes, and OBS says   *)
(* that it records before it answers so. A request is given up after ten   *)
(* seconds and not taken back. The host starts the recorder, reads its     *)
(* state until it records, and writes the name it reads to the ledger.     *)
(***************************************************************************)
EXTENDS Naturals, Sequences

CONSTANTS
  MaxFiles,    \* bound: recordings
  MaxAsked     \* bound: requests

ObsAssumption == MaxFiles \in Nat /\ MaxAsked \in Nat

VARIABLES
  output,      \* what OBS does: "off", "on", "closing" its file
  file,        \* the number of its latest file, 0 before the first
  requests,    \* on their way to OBS
  inbox,       \* replies and events on their way to the adapter
  path,        \* recordingPath, 0 without
  link,        \* "down", "up", "disposed"
  call,        \* the request that the host waits for, 0 without
  started,     \* it started the recorder over this connection, and verifies it
  row,         \* the name that it read: what OBS wrote then, and what the adapter said
  asked        \* requests so far

obsVars == <<output, file, requests, inbox, path, link, call, started, row, asked>>

Names == 0..MaxFiles
NoRow == [wrote |-> 0, said |-> 0]
Kinds == {"start", "stop", "status"}
Messages == [is : Kinds \cup {"event"}, id : 0..MaxAsked, ok : BOOLEAN, name : Names, wrote : Names]

ObsTypeOK ==
  /\ output \in {"off", "on", "closing"} /\ file \in Names /\ path \in Names
  /\ requests \in Seq([is : Kinds, id : 1..MaxAsked]) /\ inbox \in Seq(Messages)
  /\ link \in {"down", "up", "disposed"} /\ call \in 0..MaxAsked /\ started \in BOOLEAN
  /\ row \in [wrote : Names, said : Names] /\ asked \in 0..MaxAsked

ObsInit ==
  /\ output = "off" /\ file = 0 /\ requests = <<>> /\ inbox = <<>> /\ path = 0
  /\ link = "down" /\ call = 0 /\ started = FALSE /\ row = NoRow /\ asked = 0

RecordState(name) == [is |-> "event", id |-> 0, ok |-> TRUE, name |-> name, wrote |-> 0]
Reply(r, ok, name) == [is |-> r.is, id |-> r.id, ok |-> ok, name |-> name,
                       wrote |-> IF output = "off" THEN 0 ELSE file]

-----------------------------------------------------------------------------
\* The adapter

\* A new instance of the adapter: what the last one knew is gone.
Connect ==
  /\ link \in {"down", "disposed"} /\ link' = "up" /\ path' = 0
  /\ UNCHANGED <<output, file, requests, inbox, call, started, row, asked>>

\* OBS closed the connection, or the host lets the device go: what waits is rejected.
Disconnect ==
  /\ link = "up" /\ link' \in {"down", "disposed"}
  /\ requests' = <<>> /\ inbox' = <<>> /\ call' = 0 /\ started' = FALSE
  /\ UNCHANGED <<output, file, path, row, asked>>

Send(kind) ==
  /\ link = "up" /\ call = 0 /\ asked < MaxAsked /\ asked' = asked + 1 /\ call' = asked + 1
  /\ requests' = Append(requests, [is |-> kind, id |-> asked + 1])
  /\ UNCHANGED <<output, file, inbox, link>>

GiveUp == call # 0 /\ call' = 0 /\ UNCHANGED <<output, file, requests, inbox, path, link,
                                               started, row, asked>>

StartRecording == Send("start") /\ path' = 0 /\ started' = FALSE /\ row' = NoRow
StopRecording == Send("stop") /\ started' = FALSE /\ UNCHANGED <<path, row>>
\* applyAndVerify reads the state until the recorder records.
Verify == started /\ row = NoRow /\ Send("status") /\ UNCHANGED <<path, started, row>>

\* Mutant: only the reply to StopRecord is listened to.
PathFromReply(m) == IF m.is = "stop" /\ m.name # 0 THEN m.name ELSE path

\* onRecordState, and the reply to StopRecord.
PathFrom(m) == IF m.name # 0 THEN m.name ELSE path

Receive ==
  /\ link = "up" /\ inbox # <<>> /\ inbox' = Tail(inbox)
  /\ LET m == Head(inbox)
         awaited == m.is # "event" /\ m.id = call
     IN /\ path' = IF m.is = "event" \/ awaited THEN PathFrom(m) ELSE path
        /\ call' = IF awaited THEN 0 ELSE call
        /\ started' = (started \/ (awaited /\ m.is = "start" /\ m.ok))
        /\ row' = IF awaited /\ m.is = "status" /\ m.wrote # 0
                    THEN [wrote |-> m.wrote, said |-> path] ELSE row
  /\ UNCHANGED <<output, file, requests, link, asked>>

-----------------------------------------------------------------------------
\* OBS

Says(messages) == inbox' = IF link = "up" THEN inbox \o messages ELSE inbox

Begins == output = "off" /\ file < MaxFiles /\ output' = "on" /\ file' = file + 1

Serve ==
  /\ requests # <<>> /\ requests' = Tail(requests)
  /\ LET r == Head(requests) IN
       \/ /\ r.is = "start" /\ Begins
          /\ \/ Says(<<RecordState(file + 1), Reply(r, TRUE, 0)>>)
             \/ Says(<<Reply(r, TRUE, 0), RecordState(file + 1)>>)
       \/ /\ r.is = "stop" /\ output = "on" /\ output' = "closing"
          /\ Says(<<Reply(r, TRUE, file)>>) /\ UNCHANGED file
       \/ /\ r.is = "status" /\ Says(<<Reply(r, TRUE, 0)>>) /\ UNCHANGED <<output, file>>
       \/ /\ Says(<<Reply(r, FALSE, 0)>>) /\ UNCHANGED <<output, file>>
          /\ (r.is = "start" => output # "off") /\ (r.is = "stop" => output # "on") /\ r.is # "status"
  /\ UNCHANGED <<path, link, call, started, row, asked>>

\* Somebody at the machine starts or stops it; a file is closed some time later.
AtTheMachine ==
  /\ \/ Begins /\ Says(<<RecordState(file + 1)>>)
     \/ output = "on" /\ output' = "closing" /\ Says(<<>>) /\ UNCHANGED file
     \/ output = "closing" /\ output' = "off" /\ Says(<<RecordState(file)>>) /\ UNCHANGED file
  /\ UNCHANGED <<requests, path, link, call, started, row, asked>>

ObsNext ==
  \/ Connect \/ Disconnect \/ GiveUp \/ StartRecording \/ StopRecording \/ Verify
  \/ Receive \/ Serve \/ AtTheMachine

ObsSpec == ObsInit /\ [][ObsNext]_obsVars

-----------------------------------------------------------------------------
\* The name the ledger gets is that of the file that OBS was writing as it answered,
\* whatever earlier recordings still had to say and whoever restarted it meanwhile.
LedgerHasTheFile == row.wrote = row.said
=============================================================================
