----------------------------- MODULE MCRecords -----------------------------
(***************************************************************************)
(* What the program keeps between and around its runs: the calendar, the   *)
(* ledger of recordings, what operators enter at the desk, the accounts,   *)
(* the sessions of operators, a database that is upgraded, and one that is *)
(* copied and restored; and what it works out from that, or reads from a   *)
(* plan source. They share no state, so TLC explores one of them at a      *)
(* time: "part" says which.                                                *)
(***************************************************************************)
EXTENDS Integers, FiniteSets

CONSTANTS
  MaxDay, Horizon, Lead, Length, Services, Askers, MaxChanges,
  Footage, Tails, Titles, Told, KeepLast, KeepFor, Ttl, Sweeps, MaxTime, MaxMeddling,
  Devices, Recorders, Sinks, Events, Outs, Hands, MaxEdits,
  Channels, Clients, Flows, Opened, MaxTokens, MaxIds, MaxTrouble,
  SessionTokens, Addresses, Browsers, FreeAttempts, MaxDelay, ForgetAfter, SessionTtl, MaxSet,
  MaxClock,
  Keys,
  MaxWork, Keep, MaxCopies, DiskFills, MaxKills, KillPoints,
  Ahead, LeadHours, Percents, LastHour, MaxUpsets,
  DayLength, LastWall, Shifts, Spare,
  PlanCount, Cap, TypeCount, FolderCount, PageSize, PageLimit, PastedTokens, Odd, MaxPlanned

VARIABLES
  part,
  day, series, slot, plan, reading, loop, due, lost, changes,
  card, ledger, deck, seen, running, sweep, picked, primed, time, meddled,
  devices, sinks, events, linked, outs, tags, run, driven, hand, edits,
  flow, account, client, vault, ids, uses, open, issued, good, unlucky, trouble,
  password, seeded, seeds, sessions, failures, streak, request, serving, cut, up, clock, changed,
  version, build, graph, source, outputs, oldRun, planned, edited,
  main, log, aside, pending, marker, saltFile, key, at, agreed, shelf, kept, downloads, safe,
  copies, kills,
  hour, standing, faults, checked, check, lasting, spoken, onAir, cache, streaming,
  threshold, warned, alarms, samples, upsets,
  question, answer,
  plans, times, types, parent, accepted, appId, secret, task, stage, pair, ahead, offset, got,
  nested, outcome, stood, ever, calm, trying, mishaps

calVars == <<day, series, slot, plan, reading, loop, due, lost, changes>>
libVars == <<card, ledger, deck, seen, running, sweep, picked, primed, time, meddled>>
deskVars == <<devices, sinks, events, linked, outs, tags, run, driven, hand, edits>>
accVars == <<flow, account, client, vault, ids, uses, open, issued, good, unlucky, trouble>>
doorVars ==
  <<password, seeded, seeds, sessions, failures, streak, request, serving, cut, up, clock,
    changed>>
upgradeVars == <<version, build, graph, source, outputs, oldRun, planned, edited>>
backupVars ==
  <<main, log, aside, pending, marker, saltFile, key, at, agreed, shelf, kept, downloads, safe,
    copies, kills>>
watchVars ==
  <<hour, standing, faults, checked, check, lasting, spoken, onAir, cache, streaming,
  threshold, warned, alarms, samples, upsets>>
reckoningVars ==
  <<question, answer>>
publishedVars ==
  <<plans, times, types, parent, accepted, appId, secret, task, stage, pair, ahead, offset, got,
  nested, outcome, stood, ever, calm, trying, mishaps>>

\* Sundays and midweek: one rule with two starts and one that begins when it ends.
Rules == {{2, 3}, {4}}

\* The source plans two services, or the first at the time of the second, which it takes back.
Plans == {[s1 |-> 2, s2 |-> 3], [s1 |-> 3, s2 |-> 0]}

\* Pipelines: one that streams and records, with a destination to spare; a recorder first; one
\* with a node that was never given a device; one that cannot be read.
Graphs ==
  {[nodes |-> <<[device |-> "d1", ingest |-> "k1"], [device |-> "d2", ingest |-> "none"]>>,
    destinations |-> {"k1", "s2"}],
   [nodes |-> <<[device |-> "d2", ingest |-> "none"], [device |-> "d1", ingest |-> "key"]>>,
    destinations |-> {"k1"}],
   [nodes |-> <<[device |-> "none", ingest |-> "k1"], [device |-> "d2", ingest |-> "none"]>>,
    destinations |-> {"k1"}],
   [nodes |-> <<>>, destinations |-> {}]}
Destinations == {"k1", "s2"}

C == INSTANCE Calendar
L == INSTANCE Library
D == INSTANCE Desk
A == INSTANCE Accounts
S == INSTANCE Sessions WITH Tokens <- SessionTokens
U == INSTANCE Upgrade WITH run <- oldRun, Sinks <- Destinations
B == INSTANCE Backup WITH good <- kept
W == INSTANCE Watch WITH told <- spoken
R == INSTANCE Reckoning
P == INSTANCE Published
       WITH Tokens <- PastedTokens, MaxChanges <- MaxPlanned, checking <- trying, changes <- mishaps

ASSUME RecordsAssumption ==
  /\ C!CalendarAssumption /\ L!LibraryAssumption
  /\ D!DeskAssumption /\ A!AccountAssumption
  /\ S!SessionsAssumption /\ U!UpgradeAssumption /\ B!BackupAssumption /\ W!WatchAssumption
  /\ R!ReckoningAssumption /\ P!PublishedAssumption

Parts ==
  {"calendar", "library", "desk", "accounts", "sessions", "upgrade", "backup", "watch",
   "reckoning", "published"}

\* The parts other than the reckoning have one question, which is never asked.
FirstQuestion ==
  [ask |-> "zone", wall |-> 0, zone |-> [changes |-> 0, before |-> 0, after |-> 0]]

RecordsInit ==
  /\ part \in Parts
  /\ C!CalInit
  /\ part # "calendar" =>
       /\ series = CHOOSE s \in [rule : Rules, on : {TRUE}, paired : {FALSE}] : TRUE
       /\ plan = CHOOSE p \in Plans : TRUE
  /\ L!LibInit /\ D!DeskInit /\ A!AccInit /\ S!SessionsInit
  /\ U!UpgradeInit /\ (part # "upgrade" => graph = CHOOSE g \in Graphs : TRUE)
  /\ B!BackupInit /\ W!WatchInit
  /\ P!PublishedInit /\ (part # "published" => appId = 0)
  /\ IF part = "reckoning" THEN R!ReckonInit ELSE question = FirstQuestion /\ answer = <<>>

\* Whatever is not of this part stands still.
Still(p) ==
  /\ part = p /\ part' = p
  /\ p # "calendar" => UNCHANGED calVars
  /\ p # "library" => UNCHANGED libVars
  /\ p # "desk" => UNCHANGED deskVars
  /\ p # "accounts" => UNCHANGED accVars
  /\ p # "sessions" => UNCHANGED doorVars
  /\ p # "upgrade" => UNCHANGED upgradeVars
  /\ p # "backup" => UNCHANGED backupVars
  /\ p # "watch" => UNCHANGED watchVars
  /\ p # "reckoning" => UNCHANGED reckoningVars
  /\ p # "published" => UNCHANGED publishedVars

RecordsNext ==
  \/ Still("calendar") /\ C!CalNext
  \/ Still("library") /\ L!LibNext
  \/ Still("desk") /\ D!DeskNext
  \/ Still("accounts") /\ A!AccNext
  \/ Still("sessions") /\ S!SessionsNext
  \/ Still("upgrade") /\ U!UpgradeNext
  \/ Still("backup") /\ B!BackupNext
  \/ Still("watch") /\ W!WatchNext
  \/ Still("reckoning") /\ R!ReckonNext
  \/ Still("published") /\ P!PublishedNext

recordsVars == <<part, calVars, libVars, deskVars, accVars, doorVars, upgradeVars,
                backupVars, watchVars, reckoningVars, publishedVars>>

RecordsSpec == RecordsInit /\ [][RecordsNext]_recordsVars

-----------------------------------------------------------------------------
\* The type invariant of the part that is explored.
RecordsTypeOK ==
  CASE part = "calendar" -> C!CalTypeOK [] part = "library" -> L!LibTypeOK
    [] part = "desk" -> D!DeskTypeOK [] part = "accounts" -> A!AccTypeOK
    [] part = "sessions" -> S!SessionsTypeOK [] part = "upgrade" -> U!UpgradeTypeOK
    [] part = "backup" -> B!BackupTypeOK
    [] part = "watch" -> W!WatchTypeOK
    [] part = "reckoning" -> R!ReckonTypeOK
    [] part = "published" -> P!PublishedTypeOK

\* What an operator decided about an occurrence, and what begins within the lead, is left
\* alone by rules, plans and late readings of plans (Calendar).
OperatorsWordStands == C!EditKept /\ C!FrozenKept

\* The hourly pass leaves the calendar as the rule or the plan has it (Calendar); a range of
\* dates holds what touches it, at the times that clocks on the wall show (Reckoning). What is
\* read of a plan source is what it has published, whatever is changed meanwhile (Published).
CalendarAgrees ==
  /\ C!CalendarAgrees
  /\ [](/\ R!WallTimeIsKept /\ R!RangeIsComplete
        /\ P!ReadingIsTheShelf /\ P!TreeIsWhole /\ P!HalfIsNone)

\* Footage whose row says deleted is gone from the card, and a sweep leaves the newest rows,
\* however old its list is (Library).
SweepsAreSafe == []L!DeletedIsGone /\ L!NewestRowsStay

\* Tags have owners, and outputs have the rows that they refer to (Desk).
NothingDangles == D!TagsHaveOwners /\ D!OutputsStand

\* An account that is connected has a token that works, any other has none (Accounts). The
\* password of today is what lets people in, the environment's came once, and guessing is
\* slowed down (Sessions).
AccessHolds ==
  /\ A!NobodyLockedOut /\ A!NoStrayToken
  /\ S!SignedOut /\ S!SeededOnce /\ S!GuessesBounded

\* What stays wrong with an event ahead is told to somebody, and nobody is alarmed about an
\* encoder that is off the air (Watch). Outputs that clash and names with holes in them are
\* told of before they do harm (Reckoning).
FaultsAreTold ==
  /\ W!StandingFaultsAreTold /\ W!AlarmedOnAir
  /\ [](R!ClashesAreTold /\ R!NamesAreFilledIn)

\* An upgrade does not change what an event drives, and ends the runs that were planned
\* against pipelines (Upgrade). A restore loses no database and leaves the secrets readable,
\* and the last good copy stays (Backup).
DatabaseSurvives ==
  /\ U!UpgradeKeeps
  /\ [](U!OldPlansEnd /\ B!NothingLost /\ B!SecretsReadable /\ B!LatestCopyStays)

\* What app.ts says of its loop, and a service that has begun refutes (claim_loop).
NoPassIsLost == C!NoPassIsLost
=============================================================================
