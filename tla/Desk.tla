-------------------------------- MODULE Desk --------------------------------
(***************************************************************************)
(* What operators keep at the desk (the routes of server.ts): devices,     *)
(* stream keys and services, events and their outputs, the tags on them,   *)
(* the runs that drive devices meanwhile, and the commands given to a      *)
(* device by hand. Removing a device and commanding one await the device,  *)
(* and other requests come in between.                                     *)
(***************************************************************************)
EXTENDS Naturals, FiniteSets

CONSTANTS
  Devices, Recorders,   \* the devices; those that record, the others stream
  Sinks,      \* stream keys and streaming services
  Events, Outs,
  Hands,      \* operators who command a device or remove one
  MaxEdits    \* bound: requests that add or change something

DeskAssumption == Recorders \subseteq Devices /\ MaxEdits \in Nat

VARIABLES
  devices, sinks, events,   \* those that have a row
  linked,    \* devices that are connected
  outs,      \* [Outs -> the event, kind, device and sinks of an output]
  tags,      \* devices and events that carry one
  run,       \* [Events -> its run]
  driven,    \* the devices that were put to work, each with the event whose run did it
  hand,      \* [Hands -> what is under way, at which device]
  edits

deskVars == <<devices, sinks, events, linked, outs, tags, run, driven, hand, edits>>

None == [event |-> "none", kind |-> "stream", device |-> "none", sinks |-> {}, on |-> FALSE]
Output == [event : Events, kind : {"stream", "recording"}, device : Devices,
           sinks : SUBSET Sinks, on : BOOLEAN]
Free == [is |-> "free", at |-> "none"]

DeskTypeOK ==
  /\ devices \subseteq Devices /\ sinks \subseteq Sinks /\ events \subseteq Events
  /\ linked \subseteq Devices /\ tags \subseteq Devices \cup Events
  /\ outs \in [Outs -> Output \cup {None}] /\ run \in [Events -> {"none", "live", "over"}]
  /\ driven \subseteq Devices \X Events /\ edits \in 0..MaxEdits
  /\ hand \in [Hands -> [is : {"free", "removing", "commanding"}, at : Devices \cup {"none"}]]

DeskInit ==
  /\ devices = Devices /\ sinks = Sinks /\ events = Events /\ linked = {} /\ tags = {}
  /\ outs = [o \in Outs |-> None] /\ run = [e \in Events |-> "none"] /\ driven = {}
  /\ hand = [h \in Hands |-> Free] /\ edits = 0

Edit == edits < MaxEdits /\ edits' = edits + 1
Of(e) == {o \in Outs : outs[o].event = e}

-----------------------------------------------------------------------------
\* What a request is held against.

\* A stream goes to one service or with one key, assertDeliverable.
Deliverable(to) == to.kind = "stream" => Cardinality(to.sinks) = 1

\* assertRightKindOfDevice; one that is not connected cannot be asked.
RightKind(to) == to.device \in linked => (to.device \in Recorders <=> to.kind = "recording")

\* The foreign keys of an output.
RefersToRows(to) == to.event \in events /\ to.device \in devices /\ to.sinks \subseteq sinks

\* assertUnreferenced.
Unreferenced(d) == \A o \in Outs : outs[o].device # d

\* Mutant: the row goes although an output refers to it.
Unguarded(d) == TRUE

\* REFERENCES device(id), with foreign_keys on.
MayGo(d) == \A o \in Outs : outs[o].device # d

\* eventMidRunOn: an event with a run under way and an enabled output on the device.
MidRunOn(d) == \E o \in Outs : outs[o].on /\ outs[o].device = d /\ run[outs[o].event] = "live"

-----------------------------------------------------------------------------
\* Outputs

PutOutput(o) ==
  /\ Edit /\ \E to \in Output :
       /\ outs[o] # None => to.event = outs[o].event
       /\ Deliverable(to) /\ RightKind(to) /\ RefersToRows(to) /\ outs' = [outs EXCEPT ![o] = to]
  /\ UNCHANGED <<devices, sinks, events, linked, tags, run, driven, hand>>

RemoveOutput(o) ==
  /\ outs[o] # None /\ outs' = [outs EXCEPT ![o] = None]
  /\ UNCHANGED <<devices, sinks, events, linked, tags, run, driven, hand, edits>>

RemoveSink(s) ==
  /\ s \in sinks /\ \A o \in Outs : s \notin outs[o].sinks
  /\ sinks' = sinks \ {s}
  /\ UNCHANGED <<devices, events, linked, outs, tags, run, driven, hand, edits>>

-----------------------------------------------------------------------------
\* Tags are of what exists, and go with it.

Tag(x) ==
  /\ Edit /\ x \in devices \cup events /\ \E on \in BOOLEAN : tags' = IF on THEN tags \cup {x} ELSE tags \ {x}
  /\ UNCHANGED <<devices, sinks, events, linked, outs, run, driven, hand>>

\* Its outputs, occurrences and runs go with it, ON DELETE CASCADE.
RemoveEvent(e) ==
  /\ e \in events /\ events' = events \ {e} /\ tags' = tags \ {e}
  /\ outs' = [o \in Outs |-> IF o \in Of(e) THEN None ELSE outs[o]]
  /\ run' = [run EXCEPT ![e] = "none"]
  /\ UNCHANGED <<devices, sinks, linked, driven, hand, edits>>

Connect(d) ==
  /\ d \in devices \ linked /\ linked' = linked \cup {d}
  /\ UNCHANGED <<devices, sinks, events, outs, tags, run, driven, hand, edits>>

\* PATCH closes the connection, so that the next one has the new settings.
ChangeDevice(d) ==
  /\ Edit /\ d \in devices /\ linked' = linked \ {d}
  /\ UNCHANGED <<devices, sinks, events, outs, tags, run, driven, hand>>

\* The connection is closed first, which is awaited.
RemoveDevice(h, d) ==
  /\ hand[h] = Free /\ Unreferenced(d) /\ hand' = [hand EXCEPT ![h] = [is |-> "removing", at |-> d]]
  /\ linked' = linked \ {d}
  /\ UNCHANGED <<devices, sinks, events, outs, tags, run, driven, edits>>

\* Mutant: the tags went before the connection was closed.
ClearedBefore(d) == tags

\* When it is closed the tags are cleared, and then the row goes, if nothing refers to it.
Cleared(d) == tags \ {d}

DeviceClosed(h) ==
  /\ hand[h].is = "removing" /\ hand' = [hand EXCEPT ![h] = Free]
  /\ tags' = Cleared(hand[h].at)
  /\ devices' = IF MayGo(hand[h].at) THEN devices \ {hand[h].at} ELSE devices
  /\ UNCHANGED <<sinks, events, linked, outs, run, driven, edits>>

-----------------------------------------------------------------------------
\* Runs, and commands by hand.

\* A run drives the devices of the outputs that are switched on.
Begins(e) ==
  LET at == {outs[o].device : o \in {p \in Of(e) : outs[p].on}}
  IN /\ e \in events /\ run[e] = "none" /\ at # {} /\ run' = [run EXCEPT ![e] = "live"]
     /\ driven' = driven \cup (at \X {e})
     /\ UNCHANGED <<devices, sinks, events, linked, outs, tags, hand, edits>>

Ends(e) ==
  /\ run[e] = "live" /\ run' = [run EXCEPT ![e] = "over"]
  /\ driven' = {x \in driven : x[2] # e}
  /\ UNCHANGED <<devices, sinks, events, linked, outs, tags, hand, edits>>

\* Only a run that has ended.
RemoveRun(e) ==
  /\ run[e] = "over" /\ run' = [run EXCEPT ![e] = "none"]
  /\ UNCHANGED <<devices, sinks, events, linked, outs, tags, driven, hand, edits>>

\* Pointing an encoder elsewhere or erasing a card; refused while an event is mid-run on it.
Command(h, d) ==
  /\ hand[h] = Free /\ d \in linked /\ ~MidRunOn(d)
  /\ hand' = [hand EXCEPT ![h] = [is |-> "commanding", at |-> d]]
  /\ UNCHANGED <<devices, sinks, events, linked, outs, tags, run, driven, edits>>

Arrives(h) ==
  /\ hand[h].is = "commanding" /\ hand' = [hand EXCEPT ![h] = Free]
  /\ UNCHANGED <<devices, sinks, events, linked, outs, tags, run, driven, edits>>

DeskNext ==
  \/ \E o \in Outs : PutOutput(o) \/ RemoveOutput(o)
  \/ \E s \in Sinks : RemoveSink(s)
  \/ \E x \in Devices \cup Events : Tag(x)
  \/ \E e \in Events : RemoveEvent(e) \/ Begins(e) \/ Ends(e) \/ RemoveRun(e)
  \/ \E d \in Devices : Connect(d) \/ ChangeDevice(d)
  \/ \E h \in Hands : \/ \E d \in Devices : RemoveDevice(h, d) \/ Command(h, d)
                      \/ DeviceClosed(h) \/ Arrives(h)

DeskSpec == DeskInit /\ [][DeskNext]_deskVars

-----------------------------------------------------------------------------
\* A tag is on something that exists, although no foreign key says so and a device is tagged,
\* untagged and removed by different operators at once (Tags.clear, DELETE /api/devices).
TagsHaveOwners == tags \subseteq devices \cup events

\* Every output has its event, its device and what it streams to, also when it was given a
\* device that was being removed (assertUnreferenced, and the foreign keys behind it).
OutputsStand == \A o \in Outs : outs[o] # None => RefersToRows(outs[o])

\* Not so: a device at work is at work for a run that is there to stop it.
NobodysDevice == \A x \in driven : run[x[2]] = "live"

\* Not so: no command by hand arrives at a device that a run is driving.
HandsOff == [][\A h \in Hands : Arrives(h) => \A x \in driven : x[1] # hand[h].at]_deskVars
=============================================================================
