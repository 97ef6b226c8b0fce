----------------------------- MODULE MCAdapters -----------------------------
(***************************************************************************)
(* The edges of the program: the adapters, each alone with a device of its *)
(* kind, the plug-ins of YouTube and Twitch with a channel, and browsers,  *)
(* which follow the program and tell it what to do. They share no state,   *)
(* so TLC explores one of them at a time: "part" says which.               *)
(***************************************************************************)
EXTENDS Naturals

CONSTANTS
  Destinations, MaxFailures, MaxFiles, MaxAsked,
  Urls, Users, Reports, SaveLocal, MaxPointed,
  Slots, Codecs, DeckCalls, MaxCalls,
  EncoderKinds, Faults, Targets, Callers, Reads, SlowReads, EncCalls, EncTrouble,
  Runs, Limit, Reserve, Reusable, Playlist, AutoStop, MaxMade, MaxDays, MaxMishaps,
  LastVersion, MaxSockets, MaxPending, MaxBreaks, Hasty,
  LastTime, OutputCount, MaxLost, Patient, Editors, MaxWords,
  Airings, MaxTitle, MaxOwner

VARIABLES
  part,
  use, live, target, layout, step, session, dropped, missed,
  output, file, requests, inbox, path, link, obsCall, started, row, asked,
  capture, settings, pointedAt, proCall, online, pointed, moved,
  deck, wire, script, doing, await, read, codec, told, up, astray, calls,
  kind, fault, box, mirror, memory, settling, fresh, turn, alone, called, trouble,
  used, channel, streams, made, preparing, mishaps, days,
  latest, valid, asking, shown, unread, gate, gateFailed, sockets, current, timers,
  connected, pulses, promised, breaks,
  page, start, offsets, typed, saved, moving, reading, keep, job, was, touched, lost,
  booked, meant, seen, sending, words, rule, first, form, picked,
  twitch, servers, wants, attempt, hitches

magVars == <<use, live, target, layout, step, session, dropped, missed>>
obsVars == <<output, file, requests, inbox, path, link, obsCall, started, row, asked>>
proVars == <<capture, settings, pointedAt, proCall, online, pointed, moved>>
hypVars == <<deck, wire, script, doing, await, read, codec, told, up, astray, calls>>
encVars == <<kind, fault, box, mirror, memory, settling, fresh, turn, alone, called, trouble>>
tubeVars == <<used, channel, streams, made, preparing, mishaps, days>>
screensVars ==
  <<latest, valid, asking, shown, unread, gate, gateFailed, sockets, current, timers,
  connected, pulses, promised, breaks>>
formsVars ==
  <<page, start, offsets, typed, saved, moving, reading, keep, job, was, touched, lost,
  booked, meant, seen, sending, words, rule, first, form, picked>>
twitchVars ==
  <<twitch, servers, wants, attempt, hitches>>

M == INSTANCE Magewell WITH failures <- missed
O == INSTANCE Obs WITH call <- obsCall
P == INSTANCE ProPresenter WITH call <- proCall
H == INSTANCE Hyperdeck WITH Calls <- DeckCalls, config <- codec
E == INSTANCE Encoders WITH Kinds <- EncoderKinds, MaxCalls <- EncCalls, MaxTrouble <- EncTrouble
Y == INSTANCE YouTube WITH doing <- preparing, MaxTrouble <- MaxMishaps
V == INSTANCE Screens WITH version <- latest, requests <- asking, failed <- unread
F == INSTANCE Forms WITH asked <- reading, row <- booked
T == INSTANCE Twitch WITH channel <- twitch, troubles <- hitches

ASSUME AdaptersAssumption ==
  /\ M!MagewellAssumption /\ O!ObsAssumption /\ P!ProAssumption
  /\ H!HyperAssumption /\ E!EncoderAssumption /\ Y!YouTubeAssumption
  /\ V!ScreensAssumption /\ F!FormsAssumption /\ T!TwitchAssumption

Parts ==
  {"magewell", "obs", "propresenter", "hyperdeck", "encoders", "youtube", "screens", "forms",
   "twitch"}

AdaptersInit ==
  /\ part \in Parts
  /\ M!MagewellInit /\ O!ObsInit /\ P!ProInit /\ H!HyperInit
  /\ E!EncInit
  /\ part # "encoders" => kind = (CHOOSE k \in EncoderKinds : k # "mock") /\ fault = "none"
  /\ Y!TubeInit
  /\ V!ScreensInit /\ (part # "screens" => valid)
  /\ T!TwitchInit /\ (part # "twitch" => wants = CHOOSE w \in T!Wanted : TRUE)
  /\ F!FormsInit /\ (part # "forms" => page = "event")

\* Whatever is not of this part stands still.
Still(p) ==
  /\ part = p /\ part' = p
  /\ p # "magewell" => UNCHANGED magVars
  /\ p # "obs" => UNCHANGED obsVars
  /\ p # "propresenter" => UNCHANGED proVars
  /\ p # "hyperdeck" => UNCHANGED hypVars
  /\ p # "encoders" => UNCHANGED encVars
  /\ p # "youtube" => UNCHANGED tubeVars
  /\ p # "screens" => UNCHANGED screensVars
  /\ p # "forms" => UNCHANGED formsVars
  /\ p # "twitch" => UNCHANGED twitchVars

AdaptersNext ==
  \/ Still("magewell") /\ M!MagewellNext
  \/ Still("obs") /\ O!ObsNext
  \/ Still("propresenter") /\ P!ProNext
  \/ Still("hyperdeck") /\ H!HyperNext
  \/ Still("encoders") /\ E!EncNext
  \/ Still("youtube") /\ Y!TubeNext
  \/ Still("screens") /\ V!ScreensNext
  \/ Still("forms") /\ F!FormsNext
  \/ Still("twitch") /\ T!TwitchNext

adaptersVars ==
  <<part, magVars, obsVars, proVars, hypVars, encVars, tubeVars, screensVars, formsVars,
    twitchVars>>

AdaptersSpec ==
  /\ AdaptersInit /\ [][AdaptersNext]_adaptersVars
  /\ part = "hyperdeck" => H!HyperFairness

-----------------------------------------------------------------------------
\* The type invariant of the part that is explored.
AdaptersTypeOK ==
  CASE part = "magewell" -> M!MagewellTypeOK [] part = "obs" -> O!ObsTypeOK
    [] part = "propresenter" -> P!ProTypeOK [] part = "hyperdeck" -> H!HyperTypeOK
    [] part = "encoders" -> E!EncTypeOK [] part = "youtube" -> Y!TubeTypeOK
    [] part = "screens" -> V!ScreensTypeOK
    [] part = "forms" -> F!FormsTypeOK
    [] part = "twitch" -> T!TwitchTypeOK

\* What an adapter says of its device is so: where it streams to, the codec it records in,
\* the name of the file it wrote (ProPresenter, Hyperdeck, Obs).
AdaptersKnow == P!SaysWhatItDoes /\ H!CodecKnown /\ O!LedgerHasTheFile

\* What was read back from an encoder after it was set is what it holds (Encoders), and
\* outputs that end together do not leave one on for nobody (Magewell).
EncodersAnswerRight == E!VerifiedIsReal /\ M!NobodyLeftEncoding

\* A deck that never answers holds no caller open (Hyperdeck).
CallsComeBack == part = "hyperdeck" => H!CallsComeBack

\* A prepared run has one broadcast on the channel, with a stream behind it, and what was
\* spent on it passes the day's limit by the calls under way at most (YouTube). One that has its
\* channel ready is pointed at it, and no title stops it (Twitch).
BroadcastReady ==
  /\ Y!AnnouncedOnce /\ Y!ReadyHasStream /\ Y!Overspent
  /\ T!ReadyIsPointed /\ T!OnlyCallsFail /\ T!TitleStands

\* A browser keeps up with what it is told to look for, never goes back to what was, asks who
\* is signed in when it is refused, and has one socket (Screens). What a form saves is what
\* its operator changed, outputs that are to stay where they are stay there, and a rule that
\* was only looked at is as it was (Forms).
BrowsersKeepFaith ==
  /\ V!NeverBackwards /\ F!HeldStill /\ F!RuleKept
  /\ [](/\ V!KeepsUp /\ V!RefusedAsksAgain /\ V!OneSocket
        /\ F!LastWordStands /\ F!RevertedIsAttached)
=============================================================================
