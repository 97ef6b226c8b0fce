------------------------------- MODULE Twitch -------------------------------
(***************************************************************************)
(* The plug-in of Twitch (plugin-twitch/src/index.ts, api.ts). A channel   *)
(* is the one thing there is: a run sets its title and category, reads the *)
(* key and where to push. Several runs point the same channel at their     *)
(* services, its owner changes it meanwhile, and a run that was cut off    *)
(* begins again.                                                           *)
(***************************************************************************)
EXTENDS Integers, FiniteSets, Sequences

CONSTANTS
  Airings,    \* the runs that have the channel for an output
  MaxTitle,    \* what Twitch accepts (140)
  MaxOwner     \* bound: changes by the owner, calls that fail, runs that are cut off

TwitchAssumption == MaxTitle \in Nat \ {0, 1} /\ MaxOwner \in Nat

\* A title as it is rendered: letters and blanks, of a length around what is accepted. (What
\* begins with blanks is trimmed to one of these, or to one that is shorter.)
Blank == " "
Letter == "w"
Ellipsis == "."
Plain == <<Letter, Letter>>
Texts ==
  {Plain} \cup {text \in UNION {[1..n -> {Blank, Letter}] : n \in {0, MaxTitle, MaxTitle + 1}} :
                  text # <<>> => text[1] = Letter}

\* Where to push, as Twitch lists it.
Server == [fits : BOOLEAN, default : BOOLEAN, available : 0..1]
Listed ==
  {[fits |-> TRUE, default |-> FALSE, available |-> n] : n \in 0..1}
    \cup {[fits |-> f, default |-> TRUE, available |-> 0] : f \in BOOLEAN}

VARIABLES
  channel,    \* title, category, key and owner's name, as they are on Twitch
  servers,    \* the list of places to push to
  wants,      \* [Airings -> Texts], the title that the run's template renders to
  attempt,    \* [Airings -> the prepare or reconcile under way, or the last one]
  troubles

twitchVars == <<channel, servers, wants, attempt, troubles>>

Versions == 0..MaxOwner
Kept == "kept"
Categories == {"music", "talk"}
Channel == [title : Seq({Blank, Letter, Ellipsis}), category : Categories,
            key : Versions, login : Versions]
Attempt == [at : {"idle", "channel", "category", "modify", "key", "ingest", "ready", "failed"},
            login : Versions, category : Categories \cup {Kept}, key : Versions,
            server : Server, calm : BOOLEAN]

TwitchTypeOK ==
  /\ channel \in Channel /\ servers \subseteq Server /\ wants \in [Airings -> Texts]
  /\ attempt \in [Airings -> Attempt] /\ troubles \in 0..MaxOwner

Idle == [at |-> "idle", login |-> 0, category |-> Kept, key |-> 0,
         server |-> [fits |-> TRUE, default |-> TRUE, available |-> 1], calm |-> TRUE]

\* One run's title is any, the others' is one that fits.
Wanted ==
  {[s \in Airings |-> IF s = r THEN text ELSE Plain] : r \in Airings, text \in Texts}

TwitchInit ==
  /\ channel = [title |-> <<Letter>>, category |-> "music", key |-> 0, login |-> 0]
  /\ servers = Listed /\ wants \in Wanted
  /\ attempt = [r \in Airings |-> Idle] /\ troubles = 0

Trouble == troubles < MaxOwner /\ troubles' = troubles + 1

-----------------------------------------------------------------------------
\* trimEnd and trim.
Words(text) == {i \in 1..Len(text) : text[i] # Blank}
Greatest(S) == CHOOSE n \in S : \A m \in S : m <= n
Least(S) == CHOOSE n \in S : \A m \in S : n <= m
TrimEnd(text) == IF Words(text) = {} THEN <<>> ELSE SubSeq(text, 1, Greatest(Words(text)))
Trim(text) ==
  IF Words(text) = {} THEN <<>> ELSE SubSeq(text, Least(Words(text)), Greatest(Words(text)))

\* Mutant: there is no room left for the ellipsis.
CutFull(text) == TrimEnd(SubSeq(text, 1, MaxTitle)) \o <<Ellipsis>>

Cut(text) == TrimEnd(SubSeq(text, 1, MaxTitle - 1)) \o <<Ellipsis>>

\* titleFor
TitleFor(text) == IF Len(Trim(text)) <= MaxTitle THEN Trim(text) ELSE Cut(Trim(text))

\* Mutant: an empty title is sent like any other.
Always(title) == TRUE

\* prepare: an empty title leaves the one that is there.
Sends(title) == title # <<>>

\* Mutant: the best of the list, wherever the key goes.
AnyServer(list) == list

\* Only a server with a place for the key.
Usable(list) == {s \in list : s.fits}

\* pickIngest: the one that is marked, else one of the most available.
Picks(list) ==
  LET usable == Usable(list)
      marked == {s \in usable : s.default}
  IN IF marked # {} THEN marked
     ELSE {s \in usable : \A other \in usable : other.available <= s.available}

\* Mutant: a name that Twitch does not know is an error.
Stopped == "failed"

\* categoryId never throws.
AfterCategory == "modify"

-----------------------------------------------------------------------------
\* open and prepare, or reconcile, which is the same: with an instance of its own, that
\* remembers nothing.
Begin(r) ==
  /\ attempt[r].at \in {"idle", "failed"}
  /\ attempt' = [attempt EXCEPT ![r] = [Idle EXCEPT !.at = "channel"]]
  /\ UNCHANGED <<channel, servers, wants, troubles>>

Goes(r, from, next) ==
  /\ attempt[r].at = from
  /\ attempt' = [attempt EXCEPT ![r] = next]

\* resolveChannel
ReadChannel(r) ==
  /\ Goes(r, "channel", [attempt[r] EXCEPT !.at = "category", !.login = channel.login])
  /\ UNCHANGED <<channel, servers, wants, troubles>>

\* categoryId: known, none asked for, or unknown.
ReadCategory(r) ==
  /\ \/ Goes(r, "category", [attempt[r] EXCEPT !.at = "modify", !.category = "talk"])
     \/ Goes(r, "category", [attempt[r] EXCEPT !.at = AfterCategory])
  /\ UNCHANGED <<channel, servers, wants, troubles>>

\* modifyChannel: what is not sent stays; Twitch refuses a title that is empty or too long.
Modify(r) ==
  LET title == TitleFor(wants[r]) IN
  /\ IF Sends(title) /\ (title = <<>> \/ Len(title) > MaxTitle)
     THEN Goes(r, "modify", [attempt[r] EXCEPT !.at = "failed"]) /\ UNCHANGED channel
     ELSE /\ Goes(r, "modify", [attempt[r] EXCEPT !.at = "key", !.category = Kept])
          /\ channel' = [channel EXCEPT
               !.title = IF Sends(title) THEN title ELSE @,
               !.category = IF attempt[r].category = Kept THEN @ ELSE attempt[r].category]
  /\ UNCHANGED <<servers, wants, troubles>>

\* streamKey: read, never issued.
ReadKey(r) ==
  /\ Goes(r, "key", [attempt[r] EXCEPT !.at = "ingest", !.key = channel.key])
  /\ UNCHANGED <<channel, servers, wants, troubles>>

\* ingest: a list with no server to push to fails the run.
ReadIngest(r) ==
  /\ IF Picks(servers) = {} THEN Goes(r, "ingest", [attempt[r] EXCEPT !.at = "failed"])
     ELSE \E s \in Picks(servers) :
            Goes(r, "ingest", [attempt[r] EXCEPT !.at = "ready", !.server = s])
  /\ UNCHANGED <<channel, servers, wants, troubles>>

\* A call fails, or the process is killed, also after the channel was modified; or a run that
\* was ready is told to prepare again.
Fails(r) ==
  /\ Trouble /\ attempt[r].at # "idle" /\ attempt[r].at # "failed"
  /\ attempt' = [attempt EXCEPT ![r] = [Idle EXCEPT !.at = "failed"]]
  /\ UNCHANGED <<channel, servers, wants>>

\* The owner takes another name, resets the key, or writes another title; or Twitch moves its
\* servers.
OwnerChanges ==
  /\ Trouble
  /\ \/ channel' = [channel EXCEPT !.title = <<Letter>>] /\ UNCHANGED servers
     \/ channel' = [channel EXCEPT !.key = @ + 1] /\ UNCHANGED servers
     \/ channel' = [channel EXCEPT !.login = @ + 1] /\ UNCHANGED servers
     \/ (\E s \in servers : servers' = servers \ {s}) /\ UNCHANGED channel
  /\ attempt' = [r \in Airings |-> [attempt[r] EXCEPT !.calm = FALSE]]
  /\ UNCHANGED wants

TwitchNext ==
  \/ \E r \in Airings : \/ Begin(r) \/ ReadChannel(r) \/ ReadCategory(r) \/ Modify(r)
                         \/ ReadKey(r) \/ ReadIngest(r) \/ Fails(r)
  \/ OwnerChanges

TwitchSpec == TwitchInit /\ [][TwitchNext]_twitchVars

-----------------------------------------------------------------------------
\* A run that is ready pushes with the key that the channel has, at a server that takes one,
\* the marked one if there is, and links to the channel by its name, unless the owner changed
\* them since it began, also when it is a second attempt (prepare, reconcile).
ReadyIsPointed ==
  \A r \in Airings : attempt[r].at = "ready" /\ attempt[r].calm =>
    /\ attempt[r].key = channel.key /\ attempt[r].login = channel.login
    /\ attempt[r].server \in servers /\ attempt[r].server.fits
    /\ (\E s \in servers : s.fits /\ s.default) => attempt[r].server.default
    /\ attempt[r].server.default \/ \A s \in servers : s.fits =>
         ~s.default /\ s.available <= attempt[r].server.available

\* No title and no category keeps a service from going out: what fails a run is a call that
\* failed, or that there is nowhere to push to (prepare, categoryId).
OnlyCallsFail ==
  \A r \in Airings : attempt[r].at = "failed" =>
    troubles > 0

\* The channel always has a title that Twitch accepts, and while only runs write it, it is
\* that of a run that is there, or the owner's.
TitleStands ==
  /\ channel.title # <<>> /\ Len(channel.title) <= MaxTitle
  /\ \/ channel.title = <<Letter>>
     \/ \E r \in Airings : channel.title # <<>> /\ TitleFor(wants[r]) = channel.title
=============================================================================
