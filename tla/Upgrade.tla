------------------------------ MODULE Upgrade ------------------------------
(***************************************************************************)
(* Bringing a database up to date (db/index.ts migrate) over the versions  *)
(* that took pipelines apart: 5 writes an output for each node and each    *)
(* destination of an event's pipeline and ends the runs under way, 6 drops *)
(* the pipeline, 7 gives every output its own device. Each migration is a  *)
(* transaction; the program may stop between them, and any build may be    *)
(* the one that is started next.                                           *)
(***************************************************************************)
EXTENDS Naturals, Sequences

CONSTANTS
  Devices,    \* hardware: a device and its node
  Sinks,      \* destinations
  Keys,       \* stored stream keys
  Graphs,     \* pipelines that events may have at version 4
  MaxEdits    \* bound: changes at the desk, under any build

None == "none"
Versions == 4..7

\* ingest: the destination or the stored key that a node is pointed at.
Node == [device : Devices \cup {None}, ingest : Sinks \cup Keys \cup {None}]
Output == [kind : {"stream", "recording"}, device : Devices \cup {None}, to : Sinks \cup Keys \cup {None}]

UpgradeAssumption ==
  /\ MaxEdits \in Nat
  /\ \A g \in Graphs : g.nodes \in Seq(Node) /\ g.destinations \subseteq Sinks

VARIABLES
  version,   \* the highest id in schema_migration
  build,     \* what is running, 0 when nothing is
  graph,     \* pipeline.graph of the event: [nodes, destinations]; the table is kept by 6
  source,    \* event_series.source_device_id, "none" for null
  outputs,   \* event_output, in no order
  run,       \* "none", "live", "over"
  planned,   \* the version that the live run was planned under
  edited

upgradeVars == <<version, build, graph, source, outputs, run, planned, edited>>

UpgradeTypeOK ==
  /\ version \in Versions /\ build \in Versions \cup {0} /\ graph \in Graphs
  /\ source \in Devices \cup {None} /\ outputs \subseteq Output
  /\ run \in {"none", "live", "over"} /\ planned \in Versions \cup {0} /\ edited \in 0..MaxEdits

UpgradeInit ==
  /\ version = 4 /\ build = 0 /\ graph \in Graphs /\ source = None /\ outputs = {}
  /\ run = "none" /\ planned = 0 /\ edited = 0

-----------------------------------------------------------------------------
\* convertPipelinesToOutputs

\* The places of the nodes: one without a device is passed over.
Nodes(g) == {i \in DOMAIN g.nodes : g.nodes[i].device # None}
Streaming(g) == {i \in Nodes(g) : g.nodes[i].ingest # None}
RecordingOf(g) == Nodes(g) \ Streaming(g)

\* The first that streams, or the first there is.
SourceOf(g) ==
  LET of == IF Streaming(g) # {} THEN Streaming(g) ELSE Nodes(g)
  IN  IF of = {} THEN None ELSE g.nodes[CHOOSE i \in of : \A j \in of : i <= j].device

\* Left null where it is the source.
DeviceColumn(g, n) == IF n.device = SourceOf(g) THEN None ELSE n.device

Unclaimed(g) == g.destinations \ {g.nodes[i].ingest : i \in Streaming(g)}

Converted(g) ==
  {[kind |-> "stream", device |-> DeviceColumn(g, g.nodes[i]), to |-> g.nodes[i].ingest] :
     i \in Streaming(g)}
  \cup {[kind |-> "stream", device |-> None, to |-> d] : d \in Unclaimed(g)}
  \cup {[kind |-> "recording", device |-> DeviceColumn(g, g.nodes[i]), to |-> None] :
          i \in RecordingOf(g)}

\* Mutant: every output is given the source.
BackfilledAll(o) == [o EXCEPT !.device = source]

\* Migration 7, of an output that was relying on the fallback.
Backfilled(o) == IF o.device = None THEN [o EXCEPT !.device = source] ELSE o

-----------------------------------------------------------------------------
\* migrate()

\* A build that is older than the database refuses it.
Start(b) == build = 0 /\ version <= b /\ build' = b
  /\ UNCHANGED <<version, graph, source, outputs, run, planned, edited>>

Stop == build # 0 /\ build' = 0 /\ UNCHANGED <<version, graph, source, outputs, run, planned,
                                               edited>>

Migrate ==
  /\ build > version /\ version' = version + 1
  /\ IF version' = 5
     THEN /\ source' = SourceOf(graph) /\ outputs' = Converted(graph)
          /\ run' = IF run = "live" THEN "over" ELSE run
          /\ planned' = 0
     ELSE IF version' = 7
     THEN outputs' = {Backfilled(o) : o \in outputs} /\ source' = None /\ UNCHANGED <<run, planned>>
     ELSE UNCHANGED <<source, outputs, run, planned>>
  /\ UNCHANGED <<build, graph, edited>>

\* The application comes after the migrations.
Serving == build # 0 /\ build = version

-----------------------------------------------------------------------------
\* The desk and the engine, under whichever build is up.

Edit ==
  /\ Serving /\ edited < MaxEdits /\ edited' = edited + 1
  /\ \/ version = 4 /\ graph' \in Graphs /\ UNCHANGED <<source, outputs>>
     \/ version \in 5..6 /\ source' \in Devices /\ UNCHANGED <<graph, outputs>>
     \/ /\ version >= 5 /\ UNCHANGED <<graph, source>>
        /\ \E d \in Devices, s \in Sinks : outputs' = outputs \cup
             {[kind |-> "stream", device |-> IF version = 7 THEN d ELSE None, to |-> s]}
  /\ UNCHANGED <<version, build, run, planned>>

RunBegins ==
  /\ Serving /\ run # "live" /\ run' = "live" /\ planned' = version
  /\ UNCHANGED <<version, build, graph, source, outputs, edited>>

RunEnds ==
  /\ Serving /\ run = "live" /\ run' = "over" /\ planned' = 0
  /\ UNCHANGED <<version, build, graph, source, outputs, edited>>

UpgradeNext == (\E b \in Versions : Start(b)) \/ Stop \/ Migrate \/ Edit \/ RunBegins \/ RunEnds
UpgradeSpec == UpgradeInit /\ [][UpgradeNext]_upgradeVars

-----------------------------------------------------------------------------
\* What the event drives: devices, each with what it is pointed at.

PipelineDrives ==
  {<<"stream", graph.nodes[i].device, graph.nodes[i].ingest>> : i \in Streaming(graph)}
  \cup {<<"stream", SourceOf(graph), d>> : d \in Unclaimed(graph)}
  \cup {<<"recording", graph.nodes[i].device, None>> : i \in RecordingOf(graph)}

OutputsDrive ==
  {<<o.kind, IF o.device = None THEN source ELSE o.device, o.to>> : o \in outputs}

Drives == IF version = 4 THEN PipelineDrives ELSE OutputsDrive

\* No migration changes what an event drives, whatever was edited at the desk between the
\* builds and wherever an upgrade was cut short ("so an output that was relying on the
\* fallback keeps the hardware it has been running on").
UpgradeKeeps == [][Migrate => Drives' = Drives]_upgradeVars

\* A run that was planned against pipelines is not driven against outputs.
OldPlansEnd == run = "live" => (planned = 4 <=> version = 4)
=============================================================================
