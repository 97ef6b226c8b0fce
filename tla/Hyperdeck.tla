------------------------------ MODULE Hyperdeck ------------------------------
(***************************************************************************)
(* The adapter of a HyperDeck (plugin-hyperdeck). What the host asks of it *)
(* is a script of commands, each sent when the one before was answered; a  *)
(* wait is given up after ten seconds, the command is not taken back. The  *)
(* deck answers in the order it was asked, and pushes notifications, each  *)
(* of which makes the adapter read the whole state and emit it.            *)
(***************************************************************************)
EXTENDS Integers, FiniteSets, SequencesExt

CONSTANTS
  Slots,      \* the media slots of the deck
  Codecs,     \* the codecs the deck knows
  Calls,      \* requests of the host at once (bound)
  MaxCalls    \* bound: requests, notifications, and what happens at the deck by itself

HyperAssumption ==
  /\ MaxCalls \in Nat /\ Slots # {} /\ IsFiniteSet(Slots) /\ Codecs # {} /\ "unread" \notin Codecs

VARIABLES
  deck,     \* the deck: [rec, codec, slot: selected, card: [Slots -> BOOLEAN], token]
  wire,     \* what the deck was sent and has not answered, in order
  script,   \* [Readers -> the commands still to send]
  doing,    \* [Readers -> what the script is]
  await,    \* [Readers -> waits for an answer]
  read,     \* [Readers -> what its transport info and configuration said]
  config,   \* this.config: the codec read once, "unread" without
  told,     \* the state emitted last
  up,       \* the device is connected and not disposed of
  astray,   \* the codec was set by a command that had been given up, or at the deck
  calls     \* requests so far

hyperVars == <<deck, wire, script, doing, await, read, config, told, up, astray, calls>>

\* emit() is a reader too: "emitting" is that its script is not done.
Readers == Calls \cup {"emit"}
Quiet == [rec |-> FALSE, codec |-> "unread"]
Works == {"idle", "start", "stop", "select", "list", "delete", "prepare", "confirm", "read"}

HyperTypeOK ==
  /\ deck \in [rec : BOOLEAN, codec : Codecs, slot : Slots, card : [Slots -> BOOLEAN], token : BOOLEAN]
  /\ \A i \in DOMAIN wire : wire[i].by \in Readers \cup {"nobody"}
  /\ doing \in [Readers -> Works] /\ await \in [Readers -> BOOLEAN]
  /\ config \in Codecs \cup {"unread"} /\ up \in BOOLEAN /\ astray \in BOOLEAN /\ calls \in 0..MaxCalls
  /\ told \in [rec : BOOLEAN, codec : Codecs \cup {"unread"}]
  /\ read \in [Readers -> [rec : BOOLEAN, codec : Codecs \cup {"unread"}]]

HyperInit ==
  /\ deck = [rec |-> FALSE, codec |-> CHOOSE c \in Codecs : TRUE, slot |-> CHOOSE s \in Slots : TRUE,
             card |-> [s \in Slots |-> TRUE], token |-> FALSE]
  /\ wire = <<>> /\ script = [r \in Readers |-> <<>>]
  /\ doing = [r \in Readers |-> "idle"] /\ await = [r \in Readers |-> FALSE]
  /\ read = [r \in Readers |-> Quiet]
  /\ config = "unread" /\ told = Quiet /\ up = TRUE /\ astray = FALSE /\ calls = 0

-----------------------------------------------------------------------------
\* The scripts. "must": an error ends the script; else it goes on without the answer.

Cmd(name, of) == [name |-> name, of |-> of, must |-> TRUE]
Try(name, of) == [name |-> name, of |-> of, must |-> FALSE]

\* configuration(): read once.
ReadConfig == <<Try("config", 0)>>
AskSlot == <<Try("slot", 0)>>
AllSlots == [i \in 1..Cardinality(Slots) |-> Try("slot", 0)]

ReadState == <<Cmd("transport", 0)>> \o AskSlot \o AllSlots \o ReadConfig \o <<Try("cache", 0)>>

\* setFileFormat(), where a codec is asked for.
SetFileFormat(codec) == IF codec = "unread" THEN <<>> ELSE ReadConfig \o <<Cmd("format", codec)>>
StartRecording(slot, codec) ==
  <<Cmd("select", slot)>> \o SetFileFormat(codec) \o <<Cmd("record", 0)>>

\* explain(): a refusal for want of a signal is looked into.
Explain == <<Cmd("transport", 0)>> \o ReadConfig \o <<Cmd("refuse", 0)>>

\* Over FTP, and checked by a listing.
DeleteMedia == AskSlot
ListMedia == <<Cmd("list", 0)>> \o AskSlot

Scripts(w, slot, codec) ==
  CASE w = "start" -> StartRecording(slot, codec)
    [] w = "stop" -> <<Cmd("stop", 0)>>
    [] w = "select" -> <<Cmd("select", slot)>>
    [] w = "list" -> ListMedia
    [] w = "delete" -> DeleteMedia
    [] w = "prepare" -> <<Cmd("prepare", slot)>>
    [] w = "confirm" -> <<Cmd("confirm", slot)>>
    [] w = "read" -> ReadState

-----------------------------------------------------------------------------
Counting == calls < MaxCalls /\ calls' = calls + 1

Begin(r, w, s) ==
  /\ doing[r] = "idle"
  /\ doing' = [doing EXCEPT ![r] = w]
  /\ script' = [script EXCEPT ![r] = s]
  /\ read' = [read EXCEPT ![r] = Quiet]
  /\ UNCHANGED <<deck, wire, await, config, told, up, astray>>

Call(r) ==
  /\ Counting
  /\ \E w \in Works \ {"idle"}, slot \in Slots, codec \in Codecs \cup {"unread"} : Begin(r, w, Scripts(w, slot, codec))

\* emit(): nothing while a state is read because of an earlier notification.
Emit ==
  /\ up /\ Counting /\ Begin("emit", "read", ReadState)

End(r) ==
  /\ doing' = [doing EXCEPT ![r] = "idle"] /\ script' = [script EXCEPT ![r] = <<>>]
  /\ await' = [await EXCEPT ![r] = FALSE]

\* What became of the command that r waited for: it goes on, or its script is over.
Goes(r, ok) ==
  LET must == Head(script[r]).must IN
  IF ok \/ ~must
    THEN /\ script' = [script EXCEPT ![r] = Tail(@)] /\ await' = [await EXCEPT ![r] = FALSE]
         /\ UNCHANGED doing
    ELSE End(r)

\* send(). Nothing is sent by a device that was closed, nor where the cache has the answer.
Send(r) ==
  /\ script[r] # <<>> /\ ~await[r]
  /\ LET cmd == Head(script[r])
         cached == cmd.name = "config" /\ config # "unread"
     IN IF ~up \/ cached \/ cmd.name = "refuse"
          THEN /\ Goes(r, up /\ cached)
               /\ read' = IF cached THEN [read EXCEPT ![r].codec = config] ELSE read
               /\ UNCHANGED wire
          ELSE /\ wire' = Append(wire, [by |-> r, cmd |-> cmd])
               /\ await' = [await EXCEPT ![r] = TRUE]
               /\ UNCHANGED <<script, doing, read>>
  /\ UNCHANGED <<deck, config, told, up, astray, calls>>

\* Mutant: a wait without an end.
NeverTimesOut(r) == FALSE /\ UNCHANGED <<deck, read, config, told, up, astray, calls>>

\* The ten seconds are over; the command is on its way all the same.
TimesOut(r) ==
  /\ await[r] /\ Goes(r, FALSE)
  /\ wire' = [i \in DOMAIN wire |-> IF wire[i].by = r THEN [wire[i] EXCEPT !.by = "nobody"] ELSE wire[i]]
  /\ UNCHANGED <<deck, read, config, told, up, astray, calls>>

\* The deck does what it was sent, or answers with a code.
Does(cmd) ==
  CASE cmd.name = "record" -> [deck EXCEPT !.rec = TRUE]
    [] cmd.name = "stop" -> [deck EXCEPT !.rec = FALSE]
    [] cmd.name = "select" -> [deck EXCEPT !.slot = cmd.of]
    [] cmd.name = "format" -> [deck EXCEPT !.codec = cmd.of]
    [] cmd.name = "prepare" -> [deck EXCEPT !.token = TRUE]
    [] cmd.name = "confirm" -> [deck EXCEPT !.token = FALSE]
    [] OTHER -> deck
Able(cmd) ==
  /\ cmd.name = "record" => deck.card[deck.slot] /\ ~deck.rec
  /\ cmd.name = "confirm" => deck.token /\ ~deck.rec

\* Mutant: what the deck was set to is not read again.
KeepsCache(cmd) == FALSE

\* setFileFormat() has the cached read thrown away.
Forgets(cmd) == cmd.name = "format"

Answer(ok) ==
  /\ wire # <<>> /\ wire' = Tail(wire)
  /\ LET by == Head(wire).by
         cmd == Head(wire).cmd
         after == Does(cmd)
     IN /\ ok => Able(cmd)
        /\ deck' = IF ok THEN after ELSE deck
        /\ IF by = "nobody" THEN UNCHANGED <<script, doing, await, read, config>>
           ELSE /\ \/ Goes(by, ok)
                   \/ /\ cmd.name = "record" /\ ~ok
                      /\ script' = [script EXCEPT ![by] = Explain]
                      /\ await' = [await EXCEPT ![by] = FALSE] /\ UNCHANGED doing
                /\ read' = CASE ok /\ cmd.name = "transport" -> [read EXCEPT ![by].rec = after.rec]
                             [] ok /\ cmd.name = "config" -> [read EXCEPT ![by].codec = after.codec]
                             [] OTHER -> read
                /\ config' = CASE ok /\ cmd.name = "config" -> after.codec
                               [] ok /\ Forgets(cmd) -> "unread"
                               [] OTHER -> config
  /\ astray' = (astray \/ (ok /\ Head(wire).by = "nobody" /\ Head(wire).cmd.name = "format"))
  /\ UNCHANGED <<told, up, calls>>

\* The script is done; a read that a notification asked for is emitted.
Done(r) ==
  /\ doing[r] # "idle" /\ script[r] = <<>> /\ End(r)
  /\ told' = IF r = "emit" THEN read[r] ELSE told
  /\ UNCHANGED <<deck, wire, read, config, up, astray, calls>>

\* Somebody stops it, pulls a card or sets a codec, or a card is full.
AtTheDeck ==
  /\ Counting
  /\ \/ deck.rec /\ deck' = [deck EXCEPT !.rec = FALSE] /\ UNCHANGED astray
     \/ \E s \in Slots :
          /\ deck' = [deck EXCEPT !.card[s] = ~@, !.rec = @ /\ s # deck.slot] /\ UNCHANGED astray
     \/ \E c \in Codecs \ {deck.codec} : deck' = [deck EXCEPT !.codec = c] /\ astray' = TRUE
  /\ UNCHANGED <<wire, script, doing, await, read, config, told, up>>

Dispose ==
  /\ up /\ up' = FALSE
  /\ UNCHANGED <<deck, wire, script, doing, await, read, config, told, astray, calls>>

HyperNext ==
  \/ \E r \in Calls : Call(r)
  \/ Emit
  \/ \E r \in Readers : Send(r) \/ TimesOut(r) \/ Done(r)
  \/ \E ok \in BOOLEAN : Answer(ok)
  \/ AtTheDeck \/ Dispose

\* Timers and the event loop; the deck owes nothing.
HyperFairness == \A r \in Readers : WF_hyperVars(Send(r)) /\ WF_hyperVars(TimesOut(r)) /\ WF_hyperVars(Done(r))

HyperSpec == HyperInit /\ [][HyperNext]_hyperVars /\ HyperFairness

-----------------------------------------------------------------------------
\* Properties

\* A deck that takes commands and never answers holds no caller open: whatever was asked of
\* the adapter comes back, the reading after a notification too.
CallsComeBack == \A r \in Readers : []<>(doing[r] = "idle")

\* The codec that state readings report is the one the deck records in, however the calls
\* that set it, the readings and their delays mix, as long as nobody set it at the deck and
\* no command that had been given up set it after all.
CodecKnown == astray \/ config \in {"unread", deck.codec}
=============================================================================
