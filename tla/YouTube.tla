------------------------------ MODULE YouTube ------------------------------
(***************************************************************************)
(* The calls by which plugin-youtube prepares, discards and finalises a    *)
(* broadcast, one at a time for a run and interleaved between runs. Every  *)
(* call is checked against the day's budget, sent, and entered in the      *)
(* ledger when it has been answered (YouTubeApi.call), so it can be        *)
(* refused before it is sent, rejected by the channel, or lost on the way  *)
(* there or back; and the program may stop at any point and prepare again. *)
(* What Broadcasts takes for one step of the channel is many here.         *)
(***************************************************************************)
EXTENDS Naturals, FiniteSets

CONSTANTS
  Runs,       \* outputs to be broadcast, each with a title and a start of its own
  Limit,      \* of the day, in units
  Reserve,    \* CRITICAL_RESERVE
  Reusable, Playlist, AutoStop,   \* settings of the destination
  MaxMade,    \* bound: broadcasts and streams ever created
  MaxTrouble, \* bound: calls that fail and stops of the program
  MaxDays     \* bound: midnights

\* What is reserved pays for one dear call at least.
YouTubeAssumption ==
  /\ IsFiniteSet(Runs) /\ Runs # {}
  /\ Limit \in Nat /\ Reserve \in 2..Limit /\ {Reusable, Playlist, AutoStop} \subseteq BOOLEAN
  /\ MaxMade \in Nat /\ MaxTrouble \in Nat /\ MaxDays \in Nat

VARIABLES
  used,       \* units in today's ledger
  channel,    \* the upcoming broadcasts
  streams,    \* the ingestion streams of the configured name
  made,       \* broadcasts created so far
  doing,      \* [Runs -> the method it is calling, whether it is sent, and what it has so far]
  mishaps, days

tubeVars == <<used, channel, streams, made, doing, mishaps, days>>

Idle == [is |-> "idle", sent |-> FALSE, b |-> 0, s |-> 0, adopted |-> FALSE]
Making == {"list", "stream", "insert", "streams", "newstream", "bind"}
Methods == Making \cup {"playlist", "delete", "private", "transition"}

TubeTypeOK ==
  /\ used \in Nat /\ streams \in 0..MaxMade /\ made \in 0..MaxMade
  /\ channel \subseteq [id : 1..MaxMade, of : Runs, stream : 0..MaxMade, private : BOOLEAN]
  /\ doing \in [Runs -> [is : Methods \cup {"idle", "prepared", "over"}, sent : BOOLEAN,
                         b : 0..MaxMade, s : 0..MaxMade, adopted : BOOLEAN]]
  /\ mishaps \in 0..MaxTrouble /\ days \in 0..MaxDays

TubeInit ==
  /\ used = 0 /\ channel = {} /\ streams = 0 /\ made = 0 /\ mishaps = 0 /\ days = 0
  /\ doing = [r \in Runs |-> Idle]

-----------------------------------------------------------------------------
\* The budget: QUOTA_COSTS in units of the cheap calls, and assertAffordable.

Cost(method) == IF method \in {"list", "stream", "streams", "poll"} THEN 1 ELSE 2
Critical == {"insert", "bind", "transition", "newstream"}

\* Mutant: a call is not held against what was spent.
Unchecked(method) == TRUE

Affordable(method) == used + Cost(method) <= IF method \in Critical THEN Limit ELSE Limit - Reserve

-----------------------------------------------------------------------------
\* What comes after a call.

Go(r, what) == [doing[r] EXCEPT !.is = what, !.sent = FALSE]
Upcoming(r) == {c \in channel : c.of = r /\ ~c.private}
Stream == IF Reusable THEN "streams" ELSE "newstream"

\* Mutant: what a previous attempt created is taken for complete.
TakenAsIs(r, found) == "stream"

\* reconcile: a broadcast without a stream is given one.
Adopting(r, found) == IF found.stream # 0 THEN "stream" ELSE Stream

Found(r) ==
  IF Upcoming(r) = {} THEN {Go(r, "insert")}
  ELSE {[Go(r, Adopting(r, c)) EXCEPT !.b = c.id, !.adopted = TRUE] : c \in Upcoming(r)}

\* The states in which an answer can leave the run's call.
Then(r) ==
  CASE doing[r].is = "list" -> Found(r)
    [] doing[r].is = "insert" -> {[Go(r, Stream) EXCEPT !.b = made + 1]}
    [] doing[r].is = "streams" ->
         {IF streams > 0 THEN [Go(r, "bind") EXCEPT !.s = 1] ELSE Go(r, "newstream")}
    [] doing[r].is = "newstream" -> {[Go(r, "bind") EXCEPT !.s = streams + 1]}
    [] doing[r].is = "bind" ->
         {Go(r, IF Playlist /\ ~doing[r].adopted THEN "playlist" ELSE "prepared")}
    [] doing[r].is \in {"stream", "playlist"} -> {Go(r, "prepared")}
    [] OTHER -> {Go(r, "over")}

\* A playlist that fails is let be, a broadcast that cannot be deleted is made private.
Failing(r) ==
  CASE doing[r].is = "playlist" -> Go(r, "prepared")
    [] doing[r].is = "delete" -> Go(r, "private")
    [] doing[r].is \in {"private", "transition"} -> Go(r, "over")
    [] OTHER -> Idle

\* What the channel does when it accepts the call.
Does(r) ==
  LET d == doing[r]
      Changed(c) == CASE c.id = d.b /\ d.is = "bind" -> [c EXCEPT !.stream = d.s]
                      [] c.id = d.b /\ d.is = "private" -> [c EXCEPT !.private = TRUE]
                      [] OTHER -> c
  IN /\ d.is \in {"insert", "newstream"} => made < MaxMade /\ streams < MaxMade
     /\ made' = IF d.is = "insert" THEN made + 1 ELSE made
     /\ streams' = IF d.is = "newstream" THEN streams + 1 ELSE streams
     /\ channel' = CASE d.is = "insert" ->
                          channel \cup {[id |-> made + 1, of |-> r, stream |-> 0, private |-> FALSE]}
                     [] d.is \in {"delete", "transition"} -> {c \in channel : c.id # d.b}
                     [] OTHER -> {Changed(c) : c \in channel}

-----------------------------------------------------------------------------
\* Mutant: a run does not look for what a previous attempt created.
Creates == "insert"

\* prepare begins by looking for what an earlier attempt has left.
Looks == "list"

Prepare(r) ==
  /\ doing[r] = Idle /\ doing' = [doing EXCEPT ![r] = [Idle EXCEPT !.is = Looks]]
  /\ UNCHANGED <<used, channel, streams, made, mishaps, days>>

Discard(r) ==
  /\ doing[r].is = "prepared" /\ doing' = [doing EXCEPT ![r] = Go(r, "delete")]
  /\ UNCHANGED <<used, channel, streams, made, mishaps, days>>

\* With automatic start and stop the channel completes the broadcast itself.
Finalize(r) ==
  /\ doing[r].is = "prepared"
  /\ doing' = [doing EXCEPT ![r] = Go(r, IF AutoStop THEN "over" ELSE "transition")]
  /\ UNCHANGED <<used, channel, streams, made, mishaps, days>>

Calling(r) == doing[r].is \in Methods
Sends(r) ==
  /\ Calling(r) /\ ~doing[r].sent /\ Affordable(doing[r].is)
  /\ doing' = [doing EXCEPT ![r].sent = TRUE]
  /\ UNCHANGED <<used, channel, streams, made, mishaps, days>>

\* QuotaExhaustedError, before anything is sent.
Refused(r) ==
  /\ Calling(r) /\ ~doing[r].sent /\ ~Affordable(doing[r].is)
  /\ doing' = [doing EXCEPT ![r] = Failing(r)]
  /\ UNCHANGED <<used, channel, streams, made, mishaps, days>>

Answered(r) ==
  /\ Calling(r) /\ doing[r].sent /\ Does(r) /\ used' = used + Cost(doing[r].is)
  /\ \E next \in Then(r) : doing' = [doing EXCEPT ![r] = next]
  /\ UNCHANGED <<mishaps, days>>

\* Rejected, which is paid for; or lost, done or not.
Fails(r) ==
  /\ Calling(r) /\ doing[r].sent /\ mishaps < MaxTrouble /\ mishaps' = mishaps + 1
  /\ \/ used' = used + Cost(doing[r].is) /\ UNCHANGED <<channel, streams, made>>
     \/ used' = used /\ (Does(r) \/ UNCHANGED <<channel, streams, made>>)
  /\ doing' = [doing EXCEPT ![r] = Failing(r)] /\ UNCHANGED days

\* The program stops, and the step is run again when it is back.
Stops(r) ==
  /\ doing[r].is \in Making \cup {"playlist", "prepared"} /\ ~doing[r].sent
  /\ mishaps < MaxTrouble /\ mishaps' = mishaps + 1 /\ doing' = [doing EXCEPT ![r] = Idle]
  /\ UNCHANGED <<used, channel, streams, made, days>>

\* The playlists that the web page lists are charged to the same budget.
Poll ==
  /\ Affordable("poll") /\ used' = used + Cost("poll")
  /\ UNCHANGED <<channel, streams, made, doing, mishaps, days>>

\* Midnight in California.
NextDay ==
  /\ days < MaxDays /\ days' = days + 1 /\ used' = 0
  /\ UNCHANGED <<channel, streams, made, doing, mishaps>>

TubeNext ==
  \/ Poll \/ NextDay
  \/ \E r \in Runs : \/ Prepare(r) \/ Discard(r) \/ Finalize(r)
                     \/ Sends(r) \/ Refused(r) \/ Answered(r) \/ Fails(r) \/ Stops(r)

TubeSpec == TubeInit /\ [][TubeNext]_tubeVars

-----------------------------------------------------------------------------
\* However often a run's broadcast is prepared again, after whatever was lost or refused on
\* the way, the channel announces it once (prepare, reconcile).
AnnouncedOnce == \A b, c \in channel : b.of = c.of => b = c

\* A run that has been told its broadcast is ready has one on the channel, with a stream
\* behind it, also when an earlier attempt got no further than creating it (reconcile).
ReadyHasStream ==
  \A r \in Runs : doing[r].is = "prepared" =>
    \E c \in channel : c.of = r /\ c.id = doing[r].b /\ c.stream # 0

\* Calls are held against the ledger before they are sent and entered in it afterwards: what
\* is spent can pass the limit by the calls under way and by nothing else.
Overspent == used <= Limit + 2 * (Cardinality(Runs) - 1)

\* Not so: while the reserve can pay for all that a broadcast needs,
\* nothing that it needs is refused.
ReserveServes ==
  LET Whole == Cost("list") + Cost("insert") + Cost("streams") + Cost("newstream") + Cost("bind")
  IN \A r \in Runs :
       doing[r].is \in Making /\ ~doing[r].sent /\ used + Whole <= Limit => Affordable(doing[r].is)
=============================================================================
