----------------------------- MODULE Published ------------------------------
(***************************************************************************)
(* What a church has published, as the program reads it                    *)
(* (plugin-planning-center/src, core/src/plans/registry.ts and             *)
(* api/plan-routes.ts). A reading is many requests: the plans, then the    *)
(* times of each, while people go on planning; the groups to choose from   *)
(* are read page by page, and then their folders. Any request may be       *)
(* refused. The token has two halves, kept in two places.                  *)
(***************************************************************************)
EXTENDS Integers, FiniteSets, Sequences, FiniteSetsExt

CONSTANTS
  PlanCount, Cap,       \* the plans there may be; of how many the times are read (25)
  TypeCount, FolderCount,
  PageSize, PageLimit,  \* what a page holds (100); where paging gives up (2000)
  Tokens,               \* the tokens somebody can paste in: 1..Tokens
  Odd,                  \* whether an answer can be well-formed and yet no list
  MaxChanges            \* bound: edits, refusals, tokens that change, kills

PublishedAssumption ==
  /\ {PlanCount, Cap, TypeCount, FolderCount, PageSize, PageLimit, Tokens} \subseteq Nat \ {0}
  /\ MaxChanges \in Nat /\ Odd \in BOOLEAN

Plans == 1..PlanCount
Types == 1..TypeCount
Folders == 1..FolderCount

\* The times there may be: one of every plan, and another of the first.
TimeIds == (Plans \X {1}) \cup {<<1, 2>>}
PlanOf(t) == t[1]

NoStart == -1
Starts == {NoStart, 1, 2}
Kinds == {"service", "rehearsal", "unsaid"}
Time == [there : BOOLEAN, kind : Kinds, start : Starts]

\* A folder can be in no folder (0), or in one that this account cannot see.
Unseen == FolderCount + 1
Parents == 0..Unseen
FolderOf(type) == (type - 1) % (FolderCount + 2)

VARIABLES
  plans,      \* the plans that are to come, in the order of their number
  times,      \* [TimeIds -> Time]
  types,      \* the service types that the account sees
  parent,     \* [Folders -> Parents]
  accepted,   \* the tokens that Planning Center takes
  appId, secret,  \* the two halves that are kept: the number of their token, 0 for none
  task,       \* "none", "services" (a sync reads) or "groups" (somebody is about to pair)
  stage,      \* what is being asked: "list", "times" or "folders"
  pair,       \* the halves that this reading was begun with
  ahead,      \* the plans whose times are still to be asked for
  offset,     \* where the next page begins
  got,        \* what has been read: times, or types
  nested,     \* the folders that were read, each with its parent
  outcome,    \* "none", "failed" or "listed"
  stood,      \* the times that have not changed since the reading began
  ever,       \* what times were at some moment since then
  calm,       \* whether nothing at all has changed since then
  checking,   \* the halves that the settings page is trying out, <<>> when it is not
  changes

publishedVars ==
  <<plans, times, types, parent, accepted, appId, secret, task, stage, pair, ahead, offset, got,
    nested, outcome, stood, ever, calm, checking, changes>>

shelf == <<plans, times, types, parent>>
reading == <<task, stage, pair, ahead, offset, got, nested, outcome>>
ghosts == <<stood, ever, calm>>
keys == <<accepted, appId, secret>>

Halves == (0..Tokens) \X (0..Tokens)

PublishedTypeOK ==
  /\ plans \subseteq Plans /\ times \in [TimeIds -> Time] /\ types \subseteq Types
  /\ parent \in [Folders -> Parents] /\ accepted \subseteq 1..Tokens
  /\ <<appId, secret>> \in Halves /\ task \in {"none", "services", "groups"}
  /\ stage \in {"list", "times", "folders"} /\ pair \in Halves
  /\ ahead \subseteq Plans /\ offset \in Nat
  /\ nested \subseteq Folders \X Parents /\ outcome \in {"none", "failed", "listed"}
  /\ stood \subseteq TimeIds /\ calm \in BOOLEAN /\ checking \in Halves \cup {<<>>}
  /\ changes \in 0..MaxChanges

PublishedInit ==
  /\ plans = Plans /\ types = Types /\ parent = [f \in Folders |-> 0]
  /\ times = [t \in TimeIds |->
                [there |-> TRUE, kind |-> IF t[2] = 1 THEN "service" ELSE "rehearsal",
                 start |-> 1]]
  /\ accepted = 1..Tokens /\ \E k \in {0, 1} : appId = k /\ secret = k
  /\ task = "none" /\ stage = "list" /\ pair = <<0, 0>> /\ got = {}
  /\ ahead = {} /\ offset = 0
  /\ nested = {} /\ outcome = "none" /\ stood = {} /\ ever = {} /\ calm = TRUE
  /\ checking = <<>> /\ changes = 0

Change == changes < MaxChanges /\ changes' = changes + 1

\* An edit of what this reading is about.
Edit(about) == Change /\ outcome = "none" /\ task \in {"none", about}

-----------------------------------------------------------------------------
\* The first so many of a set of numbers, after an offset.
Ranked(n, S) == Cardinality({m \in S : m <= n})
Slice(S, from, n) == {m \in S : Ranked(m, S) > from /\ Ranked(m, S) <= from + n}

\* upcomingPlans: the plans to come, no further than the first page.
Upcoming == Slice(plans, 0, Cap)

\* Mutant: a time without a start is carried as a zero.
AnyStart(rec) == TRUE

\* planTimes: a time with no start cannot schedule anything.
Timed(rec) == rec.start # NoStart

\* Mutant: rehearsals are times as well.
AnyKind(rec) == TRUE

\* serviceTimes: only services; a time that does not say what it is, is one.
IsService(rec) == rec.kind \in {"service", "unsaid"}

TimesOf(p) == {t \in TimeIds : PlanOf(t) = p /\ times[t].there}
PlanTimes(p) == {[id |-> t, was |-> times[t]] : t \in {u \in TimesOf(p) : Timed(times[u])}}

\* listServices: what a sync is given.
Announced == {[id |-> e.id, start |-> e.was.start] : e \in {f \in got : IsService(f.was)}}

\* Mutant: the last page is taken to be the one that is full.
StopsWhenFull(page) == Cardinality(page) = PageSize

\* getAll: a page that is not full is the last.
LastPage(page) == Cardinality(page) < PageSize

\* Mutant: the outermost folder is named last.
Backwards(path, folder) == <<folder>> \o path

\* path.unshift, on the way out: a folder is named after those that it is in.
Under(path, folder) == path \o <<folder>>

\* pathOf, over the folders that were read: it ends at the top, at a folder that was not
\* read, or at one that is its own ancestor.
PathOf(folder) ==
  LET known == {n[1] : n \in nested}
      above(f) == (CHOOSE n \in nested : n[1] = f)[2]
      path[f \in Parents, seen \in SUBSET Folders] ==
        IF f \notin known \/ f \in seen THEN <<>>
        ELSE Under(path[above(f), seen \cup {f}], f)
  IN path[folder, {}]

\* Mutant: half of a token will do.
Anything == <<appId, secret>>

\* credentials: both halves or neither.
Credentials == IF appId = 0 \/ secret = 0 THEN <<0, 0>> ELSE <<appId, secret>>

Taken(halves) == halves[1] = halves[2] /\ halves[1] \in accepted

-----------------------------------------------------------------------------
\* listServices (a sync) and listGroups, with the token that is saved now.
Begin(what) ==
  /\ task = "none" /\ outcome = "none"
  /\ IF Credentials = <<0, 0>>
     THEN /\ outcome' = "failed"
          /\ UNCHANGED <<task, stage, pair, ahead, offset, got, nested, ghosts>>
     ELSE /\ task' = what /\ stage' = "list" /\ pair' = Credentials
          /\ ahead' = {} /\ offset' = 0 /\ got' = {} /\ nested' = {}
          /\ stood' = (IF what = "services"
                       THEN {t \in TimeIds : PlanOf(t) \in Upcoming} ELSE {})
          /\ ever' = {[id |-> t, was |-> times[t]] : t \in {u \in TimeIds : times[u].there}}
          /\ calm' = TRUE /\ UNCHANGED outcome
  /\ UNCHANGED <<shelf, keys, checking, changes>>

\* Mutant: what cannot be read is taken for nothing published.
Nothing == "listed"

\* Whatever is thrown is passed on: there is no list.
Thrown == "failed"

Over(result) == task' = "none" /\ outcome' = result

\* get: a token that is not taken, an answer that is no good, or one to a request for a plan
\* that is gone: the reading is over.
Refuse ==
  /\ task # "none" /\ stage # "folders"
  /\ \/ ~Taken(pair) /\ UNCHANGED changes
     \/ stage = "times" /\ ahead # {} /\ Min(ahead) \notin plans /\ UNCHANGED changes
     \/ Change
  /\ Over(Thrown)
  /\ UNCHANGED <<shelf, keys, stage, pair, ahead, offset, got, nested, ghosts, checking>>

\* serviceTypeTree: a listing of folders that fails does not take the types with it.
FoldersRefused ==
  /\ task = "groups" /\ stage = "folders"
  /\ \/ ~Taken(pair) /\ UNCHANGED changes
     \/ Change
  /\ nested' = {} /\ Over("listed")
  /\ UNCHANGED <<shelf, keys, stage, pair, ahead, offset, got, ghosts, checking>>

\* resources: an answer of another shape is an empty list.
Rows(S) == {S} \cup (IF Odd THEN {{}} ELSE {})

\* upcomingPlans
ReadPlans ==
  /\ task = "services" /\ stage = "list" /\ Taken(pair)
  /\ stage' = "times" /\ ahead' \in Rows(Upcoming)
  /\ UNCHANGED <<shelf, keys, task, pair, offset, got, nested, outcome, ghosts, checking,
                 changes>>

\* planTimes, of one plan after the other.
ReadTimes ==
  /\ task = "services" /\ stage = "times" /\ ahead # {} /\ Taken(pair)
  /\ LET p == Min(ahead) IN
     /\ p \in plans /\ ahead' = ahead \ {p}
     /\ \E rows \in Rows(PlanTimes(p)) : got' = got \cup rows
  /\ UNCHANGED <<shelf, keys, task, stage, pair, offset, nested, outcome, ghosts, checking,
                 changes>>

\* serviceTimes: all have been read.
ServicesRead ==
  /\ task = "services" /\ stage = "times" /\ ahead = {}
  /\ Over("listed")
  /\ UNCHANGED <<shelf, keys, stage, pair, ahead, offset, got, nested, ghosts, checking,
                 changes>>

\* getAll, a page of the types.
ReadTypes ==
  /\ task = "groups" /\ stage = "list" /\ Taken(pair)
  /\ \E page \in Rows(Slice(types, offset, PageSize)) :
       /\ got' = got \cup page
       /\ IF LastPage(page) \/ offset + PageSize >= PageLimit
          THEN stage' = "folders" /\ offset' = 0
          ELSE offset' = offset + PageSize /\ UNCHANGED stage
  /\ UNCHANGED <<shelf, keys, task, pair, ahead, nested, outcome, ghosts, checking,
                 changes>>

\* getAll, a page of the folders; after the last the tree is made.
ReadFolders ==
  /\ task = "groups" /\ stage = "folders" /\ Taken(pair)
  /\ \E page \in Rows(Slice(Folders, offset, PageSize)) :
       /\ nested' = nested \cup {<<f, parent[f]>> : f \in page}
       /\ IF LastPage(page) \/ offset + PageSize >= PageLimit
          THEN Over("listed") /\ UNCHANGED offset
          ELSE offset' = offset + PageSize /\ UNCHANGED <<task, outcome>>
  /\ UNCHANGED <<shelf, keys, stage, pair, ahead, got, ghosts, checking, changes>>

\* What was read is taken, or shown; a sync takes no more than a list.
Deliver ==
  /\ outcome # "none" /\ outcome' = "none" /\ pair' = <<0, 0>> /\ ahead' = {} /\ offset' = 0
  /\ stage' = "list" /\ got' = {} /\ nested' = {}
  /\ stood' = {} /\ ever' = {} /\ calm' = TRUE
  /\ UNCHANGED <<shelf, keys, task, checking, changes>>

-----------------------------------------------------------------------------
\* People plan: a time is published, changed or taken back.
PlanTime(t) ==
  /\ Edit("services")
  /\ \E now \in Time :
       /\ now # times[t]
       /\ \/ now = [times[t] EXCEPT !.there = ~@]
          \/ now = [times[t] EXCEPT !.start = now.start]
          \/ now = [times[t] EXCEPT !.kind = now.kind]
       /\ times' = [times EXCEPT ![t] = now]
       /\ IF task = "none" THEN UNCHANGED ghosts
          ELSE /\ stood' = stood \ {t} /\ calm' = FALSE
               /\ ever' = ever \cup (IF now.there THEN {[id |-> t, was |-> now]} ELSE {})
  /\ UNCHANGED <<plans, types, parent, keys, reading, checking>>

\* A plan is withdrawn, or comes back before those that are later.
PlanAhead(p) ==
  /\ Edit("services") /\ plans' = IF p \in plans THEN plans \ {p} ELSE plans \cup {p}
  /\ IF task = "none" THEN UNCHANGED ghosts
     ELSE /\ stood' = {t \in stood : PlanOf(t) \in Slice(plans', 0, Cap)}
          /\ calm' = FALSE /\ UNCHANGED ever
  /\ UNCHANGED <<times, types, parent, keys, reading, checking>>

\* A service type goes, and the folders are arranged anew.
Arrange ==
  /\ Edit("groups") /\ calm' = (task = "none" /\ calm)
  /\ \/ parent' \in [Folders -> Parents] /\ UNCHANGED types
     \/ \E type \in types : types' = types \ {type} /\ UNCHANGED parent
  /\ UNCHANGED <<plans, times, keys, reading, stood, ever, checking>>

\* Whoever a token belongs to loses the account.
Deactivate(token) ==
  /\ Change /\ token \in accepted /\ accepted' = accepted \ {token}
  /\ UNCHANGED <<shelf, appId, secret, reading, ghosts, checking>>

-----------------------------------------------------------------------------
Killed ==
  /\ task' = "none" /\ outcome' = "none" /\ pair' = <<0, 0>> /\ stage' = "list"
  /\ ahead' = {} /\ offset' = 0 /\ got' = {} /\ nested' = {}
  /\ stood' = {} /\ ever' = {} /\ calm' = TRUE
  /\ checking' = <<>>

\* PUT .../credentials: two halves in two places, and then the check; unless the process is
\* killed between the two.
SaveCredentials(token) ==
  /\ Change /\ checking = <<>> /\ appId' = token
  /\ \/ secret' = token /\ checking' = <<token, token>> /\ UNCHANGED <<reading, ghosts>>
     \/ UNCHANGED secret /\ Killed
  /\ UNCHANGED <<shelf, accepted>>

\* DELETE .../credentials
ClearCredentials ==
  /\ Change /\ appId # 0 /\ appId' = 0
  /\ \/ secret' = 0 /\ UNCHANGED <<reading, ghosts, checking>>
     \/ UNCHANGED secret /\ Killed
  /\ UNCHANGED <<shelf, accepted>>

\* GET /api/plan-sources: every source that is set up is tried, and what came of it is shown.
\* It changes nothing: it is looked at while nothing is read.
Check ==
  /\ task = "none" /\ outcome = "none" /\ checking = <<>>
  /\ Credentials # <<0, 0>> /\ checking' = Credentials
  /\ UNCHANGED <<shelf, keys, reading, ghosts, changes>>

\* check: Planning Center takes the token, or not, or does not answer.
Checked ==
  /\ checking # <<>> /\ checking' = <<>>
  /\ UNCHANGED <<shelf, keys, reading, ghosts, changes>>

PublishedNext ==
  \/ \E what \in {"services", "groups"} : Begin(what)
  \/ Refuse \/ FoldersRefused \/ ReadPlans \/ ReadTimes \/ ServicesRead \/ ReadTypes
  \/ ReadFolders \/ Deliver
  \/ \E t \in TimeIds : PlanTime(t)
  \/ \E p \in Plans : PlanAhead(p)
  \/ Arrange \/ \E token \in 1..Tokens : Deactivate(token) \/ SaveCredentials(token)
  \/ ClearCredentials \/ Check \/ Checked

PublishedSpec == PublishedInit /\ [][PublishedNext]_publishedVars

-----------------------------------------------------------------------------
\* A reading that comes back has every service that was announced throughout it, and only
\* what was announced as one, with its start, at some moment of it. So a sync never withdraws
\* a service because Planning Center could not be asked (api.ts, serviceTimes and get).
ReadingIsTheShelf ==
  outcome = "listed" /\ stage = "times" =>
    /\ \A t \in stood :
         times[t].there /\ times[t].kind # "rehearsal" /\ times[t].start # NoStart
           => [id |-> t, start |-> times[t].start] \in Announced
    /\ \A s \in Announced :
         /\ s.start > 0
         /\ \E e \in ever : e.id = s.id /\ e.was.start = s.start /\ e.was.kind # "rehearsal"

\* While nobody changes anything, whoever pairs a series is offered every service type, each
\* under the folders that it lies in, outermost first, however the folders are nested; or
\* under none, when they could not be read (serviceTypeTree).
TreeIsWhole ==
  outcome = "listed" /\ stage = "folders" /\ calm =>
    /\ got = types
    /\ nested # {} => \A type \in types :
         LET path == PathOf(FolderOf(type)) IN
         /\ Len(path) <= FolderCount
         /\ \A i \in 2..Len(path) : parent[path[i]] = path[i - 1]
         /\ IF FolderOf(type) \notin Folders THEN path = <<>>
            ELSE /\ path # <<>> /\ path[Len(path)] = FolderOf(type)
                 /\ \/ parent[path[1]] \notin Folders
                    \/ \E i \in 1..Len(path) : path[i] = parent[path[1]]

\* A source with half of a token says that it is not set up, never that it was rejected:
\* nothing is asked of Planning Center without both (registry.ts, credentials).
HalfIsNone == \A halves \in {pair, checking} \ {<<>>} : (halves[1] = 0) = (halves[2] = 0)
=============================================================================
