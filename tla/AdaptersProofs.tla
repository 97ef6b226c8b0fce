--------------------------- MODULE AdaptersProofs ---------------------------
(***************************************************************************)
(* What holds at the edges of the program for any devices, destinations,   *)
(* codecs, requests, runs and settings: that an adapter knows what its     *)
(* device does, that what it read back from an encoder is so, that a       *)
(* broadcast that was prepared is there, and that browsers and their forms *)
(* keep faith. Each component of MCAdapters has an invariant of its own; a *)
(* step of AdaptersNext is a step of one component, and leaves the         *)
(* variables of the others as they are.                                    *)
(***************************************************************************)
EXTENDS MCAdapters, Sequences, FiniteSetTheorems, TLAPS

-----------------------------------------------------------------------------
(* A step of the composition, as each component sees it *)

LEMMA StepOfMagewell == ASSUME [AdaptersNext]_adaptersVars PROVE [M!MagewellNext]_magVars
BY Zenon DEF AdaptersNext, Still, adaptersVars

LEMMA StepOfObs == ASSUME [AdaptersNext]_adaptersVars PROVE [O!ObsNext]_obsVars
BY Zenon DEF AdaptersNext, Still, adaptersVars

LEMMA StepOfPro == ASSUME [AdaptersNext]_adaptersVars PROVE [P!ProNext]_proVars
BY Zenon DEF AdaptersNext, Still, adaptersVars

LEMMA StepOfHyper == ASSUME [AdaptersNext]_adaptersVars PROVE [H!HyperNext]_hypVars
BY Zenon DEF AdaptersNext, Still, adaptersVars

LEMMA StepOfEncoders == ASSUME [AdaptersNext]_adaptersVars PROVE [E!EncNext]_encVars
BY Zenon DEF AdaptersNext, Still, adaptersVars

LEMMA StepOfTube == ASSUME [AdaptersNext]_adaptersVars PROVE [Y!TubeNext]_tubeVars
BY Zenon DEF AdaptersNext, Still, adaptersVars

LEMMA StepOfScreens == ASSUME [AdaptersNext]_adaptersVars PROVE [V!ScreensNext]_screensVars
BY Zenon DEF AdaptersNext, Still, adaptersVars

LEMMA StepOfForms == ASSUME [AdaptersNext]_adaptersVars PROVE [F!FormsNext]_formsVars
BY Zenon DEF AdaptersNext, Still, adaptersVars

LEMMA StepOfTwitch == ASSUME [AdaptersNext]_adaptersVars PROVE [T!TwitchNext]_twitchVars
BY Zenon DEF AdaptersNext, Still, adaptersVars
-----------------------------------------------------------------------------
(* The Magewell: outputs that end together *)

\* A destination that is being put on the air is in use, and the encoder is on for nobody only
\* while somebody sees to it, or where a request failed.
MagewellInv ==
  /\ M!MagewellTypeOK
  /\ \A d \in Destinations : step[d] = "start" => use[d]
  /\ live => \/ dropped # {}
             \/ \E d \in Destinations : use[d] \/ step[d] \in {"status", "stop"}

LEMMA MagewellHolds == ASSUME M!MagewellAssumption PROVE M!MagewellInit => MagewellInv
<1> SUFFICES ASSUME M!MagewellInit PROVE MagewellInv
  OBVIOUS
<1>1. M!MagewellTypeOK
  <2>1. use \in [Destinations -> BOOLEAN] /\ live \in BOOLEAN
    BY DEF M!MagewellInit
  <2>2. target \in [Destinations -> Urls \cup {"unset"}]
    BY DEF M!MagewellInit
  <2>3. layout \in [Destinations -> Urls \cup {"unset"}]
    BY <2>2 DEF M!MagewellInit
  <2>4. step \in [Destinations -> {"idle", "reload", "start", "status", "stop"}]
    BY DEF M!MagewellInit
  <2>5. missed \in 0..MaxFailures /\ dropped \subseteq Destinations
    BY DEF M!MagewellInit, M!MagewellAssumption
  <2>6. session \in {"none", "good", "expired"}
    BY DEF M!MagewellInit
  <2>7. QED
    BY <2>1, <2>2, <2>3, <2>4, <2>5, <2>6 DEF M!MagewellTypeOK
<1>2. QED
  BY <1>1 DEF M!MagewellInit, MagewellInv

LEMMA MagewellKept ==
  ASSUME MagewellInv, [M!MagewellNext]_magVars, M!MagewellAssumption
  PROVE  MagewellInv'
<1> USE DEF MagewellInv, M!MagewellTypeOK, M!Signed, M!Go, M!MagewellAssumption
<1>1. ASSUME NEW d \in Destinations, M!SetServer(d) PROVE MagewellInv'
  BY <1>1 DEF M!SetServer
<1>2. ASSUME NEW d \in Destinations, M!ReloadLayout(d) PROVE MagewellInv'
  BY <1>2 DEF M!ReloadLayout
<1>3. ASSUME NEW d \in Destinations, M!Enable(d) PROVE MagewellInv'
  BY <1>3 DEF M!Enable
<1>4. ASSUME NEW d \in Destinations, M!StartLive(d) PROVE MagewellInv'
  BY <1>4 DEF M!StartLive
<1>5. ASSUME NEW d \in Destinations, M!Disable(d) PROVE MagewellInv'
  BY <1>5 DEF M!Disable
<1>6. ASSUME NEW d \in Destinations, M!LastOne(d) PROVE MagewellInv'
  <2>1. CASE M!Others(d) = {}
    BY <1>6, <2>1 DEF M!LastOne
  <2>2. CASE M!Others(d) # {}
    <3>1. PICK e \in Destinations : use[e]
      BY <2>2 DEF M!Others
    <3>2. QED
      BY <1>6, <2>2, <3>1 DEF M!LastOne
  <2>3. QED
    BY <2>1, <2>2
<1>7. ASSUME NEW d \in Destinations, M!StopLive(d) PROVE MagewellInv'
  <2>1. M!MagewellTypeOK'
    BY <1>7 DEF M!StopLive
  <2>2. QED
    BY <1>7, <2>1 DEF M!StopLive
<1>8. ASSUME NEW d \in Destinations, M!Fails(d) PROVE MagewellInv'
  <2>1. step \in [Destinations -> {"idle", "reload", "start", "status", "stop"}]
    OBVIOUS
  <2>2. step' = [step EXCEPT ![d] = "idle"] /\ use' = use
    BY <1>8 DEF M!Fails
  <2>3. /\ step'[d] = "idle"
        /\ \A e \in Destinations : e # d => step'[e] = step[e]
    BY <2>1, <2>2
  <2>4. live' \in BOOLEAN
    BY <1>8 DEF M!Fails
  <2>5. missed' \in 0..MaxFailures
    BY <1>8 DEF M!Fails
  <2>6. M!MagewellTypeOK'
    BY <1>8, <2>2, <2>4, <2>5 DEF M!Fails
  <2>7. CASE step[d] = "reload"
    BY <1>8, <2>2, <2>3, <2>6, <2>7 DEF M!Fails
  <2>8. CASE step[d] # "reload"
    BY <1>8, <2>2, <2>3, <2>6, <2>8 DEF M!Fails
  <2>9. QED
    BY <2>7, <2>8
<1>9. CASE M!Expires
  BY <1>9 DEF M!Expires
<1>10. CASE UNCHANGED magVars
  BY <1>10 DEF magVars
<1>11. QED
  BY <1>1, <1>2, <1>3, <1>4, <1>5, <1>6, <1>7, <1>8, <1>9, <1>10 DEF M!MagewellNext
-----------------------------------------------------------------------------
(* ProPresenter: what a capture goes to *)

\* A capture that was not redirected goes where the settings say.
ProInv ==
  /\ P!ProTypeOK
  /\ settings.to = "rtmp" => settings.url \in Urls
  /\ ~moved /\ capture # "off" =>
       capture = IF settings.to = "rtmp" THEN settings.url ELSE "disk"

LEMMA ProHolds == ASSUME P!ProAssumption PROVE P!ProInit => ProInv
<1> SUFFICES ASSUME P!ProInit PROVE ProInv
  OBVIOUS
<1>1. settings \in P!Settings /\ proCall \in [Users -> [for : {"none", "disk", "rtmp", "start"},
                                                   url : Urls \cup {"unset"}, saved : BOOLEAN]]
  BY DEF P!ProInit, P!Settings, P!Idle
<1>2. P!ProTypeOK
  <2>1. pointed \in 0..MaxPointed
    BY DEF P!ProInit, P!ProAssumption
  <2>2. capture \in {"off", "disk"} \cup Urls /\ moved \in BOOLEAN
    BY DEF P!ProInit
  <2>3. QED
    BY <1>1, <2>1, <2>2 DEF P!ProInit, P!ProTypeOK
<1>3. QED
  BY <1>2 DEF P!ProInit, ProInv

LEMMA ProKept ==
  ASSUME ProInv, [P!ProNext]_proVars, P!ProAssumption
  PROVE  ProInv'
<1> USE DEF ProInv, P!ProTypeOK, P!Settings, P!Idle
<1>1. ASSUME NEW u \in Users, P!ReadSettings(u) PROVE ProInv'
  BY <1>1 DEF P!ReadSettings, P!ProAssumption
<1>2. ASSUME NEW u \in Users, P!Write(u) PROVE ProInv'
  <2>1. /\ proCall[u].for \in {"disk", "rtmp"}
        /\ proCall[u].url \in Urls \cup {"unset"} /\ proCall[u].saved \in BOOLEAN
    BY <1>2 DEF P!Write
  <2>2. PICK url \in Urls :
          settings' = IF proCall[u].for = "rtmp"
                        THEN [url |-> url, saved |-> SaveLocal, to |-> proCall[u].for]
                        ELSE [url |-> proCall[u].url, saved |-> proCall[u].saved, to |-> proCall[u].for]
    BY <1>2 DEF P!Write
  <2>3. QED
    BY <1>2, <2>1, <2>2 DEF P!Write, P!ProAssumption
<1>3. ASSUME NEW u \in Users, P!StartCapture(u) PROVE ProInv'
  BY <1>3 DEF P!StartCapture
<1>4. ASSUME NEW u \in Users, P!StopCapture(u) PROVE ProInv'
  BY <1>4 DEF P!StopCapture
<1>5. CASE P!Connect
  BY <1>5 DEF P!Connect
<1>6. CASE P!Closes
  BY <1>6 DEF P!Closes
<1>7. CASE UNCHANGED proVars
  BY <1>7 DEF proVars
<1>8. QED
  BY <1>1, <1>2, <1>3, <1>4, <1>5, <1>6, <1>7 DEF P!ProNext

\* An install that reports where a capture goes.
LEMMA ProSays == ASSUME ProInv, P!ProAssumption, Reports PROVE P!SaysWhatItDoes
BY DEF ProInv, P!ProTypeOK, P!Settings, P!ProAssumption, P!SaysWhatItDoes, P!SaysTarget, P!Where
-----------------------------------------------------------------------------
(* The HyperDeck: the codec it records in *)

\* What a script is made of.
Plain == {"config", "slot", "transport", "cache", "refuse", "list", "record", "stop"}
Commands ==
  [name : Plain, of : {0}, must : BOOLEAN]
    \cup [name : {"select", "prepare", "confirm"}, of : Slots, must : BOOLEAN]
    \cup [name : {"format"}, of : Codecs, must : BOOLEAN]

Wired == [by : H!Readers \cup {"nobody"}, cmd : Commands]
Reading == [rec : BOOLEAN, codec : Codecs \cup {"unread"}]
Deck == [rec : BOOLEAN, codec : Codecs, slot : Slots, card : [Slots -> BOOLEAN], token : BOOLEAN]

HyperTyped ==
  /\ deck \in Deck /\ wire \in Seq(Wired) /\ script \in [H!Readers -> Seq(Commands)]
  /\ doing \in [H!Readers -> H!Works] /\ await \in [H!Readers -> BOOLEAN]
  /\ read \in [H!Readers -> Reading] /\ codec \in Codecs \cup {"unread"} /\ told \in Reading
  /\ up \in BOOLEAN /\ astray \in BOOLEAN /\ calls \in 0..MaxCalls

\* Who is answered waits for that one answer, with its command at the head of its script.
Awaited ==
  /\ \A r \in H!Readers : (doing[r] = "idle" => script[r] = <<>>) /\ (await[r] => script[r] # <<>>)
  /\ \A i \in DOMAIN wire : wire[i].by # "nobody" => await[wire[i].by]
  /\ \A i, j \in DOMAIN wire : wire[i].by = wire[j].by /\ wire[i].by # "nobody" => i = j

HyperInv == HyperTyped /\ Awaited /\ H!CodecKnown

LEMMA HyperHolds == ASSUME H!HyperAssumption PROVE H!HyperInit => HyperInv
<1> SUFFICES ASSUME H!HyperInit PROVE HyperInv
  OBVIOUS
<1>1. PICK s \in Slots, c \in Codecs :
        deck = [rec |-> FALSE, codec |-> c, slot |-> s, card |-> [t \in Slots |-> TRUE], token |-> FALSE]
  BY DEF H!HyperInit, H!HyperAssumption
<1>2. deck \in Deck
  BY <1>1 DEF Deck
<1>3. wire = <<>> /\ script \in [H!Readers -> Seq(Commands)]
  BY DEF H!HyperInit
<1>4. doing \in [H!Readers -> H!Works] /\ await \in [H!Readers -> BOOLEAN]
  BY DEF H!HyperInit, H!Works
<1>5. H!Quiet \in Reading
  BY DEF H!Quiet, Reading
<1>6. read \in [H!Readers -> Reading] /\ told \in Reading
  BY <1>5 DEF H!HyperInit
<1>7. calls \in 0..MaxCalls
  BY DEF H!HyperInit, H!HyperAssumption
<1>8. codec = "unread" /\ up \in BOOLEAN /\ astray \in BOOLEAN
  BY DEF H!HyperInit
<1>9. \A r \in H!Readers : ~await[r] /\ script[r] = <<>>
  BY DEF H!HyperInit
<1>10. QED
  BY <1>2, <1>3, <1>4, <1>6, <1>7, <1>8, <1>9 DEF HyperInv, HyperTyped, Awaited, H!CodecKnown



\* A script is made of commands.
LEMMA ScriptsTyped ==
  ASSUME H!HyperAssumption
  PROVE  /\ H!ReadState \in Seq(Commands) /\ H!Explain \in Seq(Commands)
         /\ \A w \in H!Works \ {"idle"}, slot \in Slots, c \in Codecs \cup {"unread"} :
              H!Scripts(w, slot, c) \in Seq(Commands)
<1>1. \A name \in Plain : H!Cmd(name, 0) \in Commands /\ H!Try(name, 0) \in Commands
  BY DEF Commands, H!Cmd, H!Try
<1>2. \A slot \in Slots : /\ H!Cmd("select", slot) \in Commands
                          /\ H!Cmd("prepare", slot) \in Commands /\ H!Cmd("confirm", slot) \in Commands
  BY DEF Commands, H!Cmd
<1>3. \A c \in Codecs : H!Cmd("format", c) \in Commands
  BY DEF Commands, H!Cmd
<1>4. H!Cardinality(Slots) \in Nat
  BY FS_CardinalityType DEF H!HyperAssumption, H!IsFiniteSet, IsFiniteSet, H!Cardinality, Cardinality
<1>5. /\ H!ReadConfig \in Seq(Commands) /\ H!AskSlot \in Seq(Commands)
      /\ H!Explain \in Seq(Commands) /\ H!ListMedia \in Seq(Commands)
  BY <1>1 DEF Plain, H!ReadConfig, H!AskSlot, H!Explain, H!ListMedia
<1>6. H!AllSlots \in Seq(Commands)
  BY <1>1, <1>4 DEF H!AllSlots, Plain
<1>7. H!ReadState \in Seq(Commands)
  BY <1>1, <1>5, <1>6 DEF H!ReadState, Plain
<1>8. \A c \in Codecs \cup {"unread"} : H!SetFileFormat(c) \in Seq(Commands)
  BY <1>3, <1>5 DEF H!SetFileFormat
<1>9. \A slot \in Slots, c \in Codecs \cup {"unread"} : H!StartRecording(slot, c) \in Seq(Commands)
  BY <1>1, <1>2, <1>8 DEF H!StartRecording, Plain
<1>10. ASSUME NEW w \in H!Works \ {"idle"}, NEW slot \in Slots, NEW c \in Codecs \cup {"unread"}
       PROVE  H!Scripts(w, slot, c) \in Seq(Commands)
  BY <1>1, <1>2, <1>5, <1>7, <1>9 DEF H!Scripts, H!Works, H!DeleteMedia, Plain
<1>11. QED
  BY <1>5, <1>7, <1>10
\* Whose wait is over waits no more; the others do as they did.
LEMMA GoesOn ==
  ASSUME HyperTyped, NEW r \in H!Readers, script[r] # <<>>, NEW ok, H!Goes(r, ok)
  PROVE  /\ script' \in [H!Readers -> Seq(Commands)] /\ doing' \in [H!Readers -> H!Works]
         /\ await' = [await EXCEPT ![r] = FALSE]
         /\ doing'[r] = "idle" => script'[r] = <<>> \/ doing[r] = "idle"
         /\ \A q \in H!Readers \ {r} : script'[q] = script[q] /\ doing'[q] = doing[q]
<1>1. CASE ok \/ ~Head(script[r]).must
  <2>1. script[r] \in Seq(Commands) /\ Tail(script[r]) \in Seq(Commands)
    BY DEF HyperTyped
  <2>2. /\ script' = [script EXCEPT ![r] = Tail(script[r])]
        /\ await' = [await EXCEPT ![r] = FALSE] /\ doing' = doing
    BY <1>1 DEF H!Goes, HyperTyped
  <2>3. QED
    BY <2>1, <2>2 DEF HyperTyped
<1>2. CASE ~(ok \/ ~Head(script[r]).must)
  <2>1. H!End(r)
    BY <1>2 DEF H!Goes
  <2>2. QED
    BY <2>1 DEF H!End, HyperTyped, H!Works
<1>3. QED
  BY <1>1, <1>2

\* Who begins something waited for nothing.
LEMMA BeginKeeps ==
  ASSUME HyperInv, H!HyperAssumption, NEW r \in H!Readers, NEW w \in H!Works,
         NEW s \in Seq(Commands), w # "idle", H!Begin(r, w, s), calls' \in 0..MaxCalls
  PROVE  HyperInv'
<1>1. /\ doing' = [doing EXCEPT ![r] = w] /\ script' = [script EXCEPT ![r] = s]
      /\ read' = [read EXCEPT ![r] = H!Quiet] /\ ~await[r]
      /\ UNCHANGED <<deck, wire, await, codec, told, up, astray>>
  BY DEF H!Begin, HyperInv, Awaited
<1>2. HyperTyped'
  <2>1. read' \in [H!Readers -> Reading]
    BY <1>1 DEF HyperInv, HyperTyped, H!Quiet, Reading
  <2>2. QED
    BY <1>1, <2>1 DEF HyperInv, HyperTyped
<1>3. Awaited'
  BY <1>1 DEF HyperInv, HyperTyped, Awaited, H!Begin
<1>4. QED
  BY <1>1, <1>2, <1>3 DEF HyperInv, H!CodecKnown

LEMMA SendKeeps ==
  ASSUME HyperInv, H!HyperAssumption, NEW r \in H!Readers, H!Send(r)
  PROVE  HyperInv'
<1> DEFINE cmd == Head(script[r])
           cached == cmd.name = "config" /\ codec # "unread"
<1>1. /\ script[r] # <<>> /\ ~await[r] /\ UNCHANGED <<deck, codec, told, up, astray, calls>>
      /\ IF ~up \/ cached \/ cmd.name = "refuse"
           THEN /\ H!Goes(r, up /\ cached)
                /\ read' = IF cached THEN [read EXCEPT ![r].codec = codec] ELSE read
                /\ UNCHANGED wire
           ELSE /\ wire' = Append(wire, [by |-> r, cmd |-> cmd])
                /\ await' = [await EXCEPT ![r] = TRUE]
                /\ UNCHANGED <<script, doing, read>>
  BY DEF H!Send
<1>2. cmd \in Commands
  BY <1>1 DEF HyperInv, HyperTyped
<1>3. CASE ~up \/ cached \/ cmd.name = "refuse"
  <2>1. H!Goes(r, up /\ cached) /\ UNCHANGED wire
    BY <1>1, <1>3
  <2>2. read' \in [H!Readers -> Reading]
    <3>1. read[r] \in Reading
      BY DEF HyperInv, HyperTyped
    <3>2. CASE cached
      <4>1. read' = [read EXCEPT ![r].codec = codec]
        BY <1>1, <1>3, <3>2
      <4>2. [read[r] EXCEPT !.codec = codec] \in Reading
        BY <3>1 DEF Reading, HyperInv, HyperTyped
      <4>3. QED
        BY <4>1, <4>2 DEF HyperInv, HyperTyped
    <3>3. CASE ~cached
      BY <1>1, <1>3, <3>3 DEF HyperInv, HyperTyped
    <3>4. QED
      BY <3>2, <3>3
  <2>3. /\ script' \in [H!Readers -> Seq(Commands)] /\ doing' \in [H!Readers -> H!Works]
        /\ await' = [await EXCEPT ![r] = FALSE]
        /\ doing'[r] = "idle" => script'[r] = <<>> \/ doing[r] = "idle"
        /\ \A q \in H!Readers \ {r} : script'[q] = script[q] /\ doing'[q] = doing[q]
    BY <1>1, <2>1, GoesOn DEF HyperInv
  <2>4. await' = await
    BY <1>1, <2>3 DEF HyperInv, HyperTyped
  <2>5. HyperTyped'
    BY <1>1, <2>1, <2>2, <2>3, <2>4 DEF HyperInv, HyperTyped
  <2>6. Awaited'
    BY <1>1, <2>1, <2>3, <2>4 DEF HyperInv, HyperTyped, Awaited
  <2>7. QED
    BY <1>1, <2>5, <2>6 DEF HyperInv, H!CodecKnown
<1>4. CASE ~(~up \/ cached \/ cmd.name = "refuse")
  <2> DEFINE e == [by |-> r, cmd |-> cmd]
  <2>1. /\ wire' = Append(wire, e) /\ await' = [await EXCEPT ![r] = TRUE]
        /\ UNCHANGED <<script, doing, read>>
    BY <1>1, <1>4
  <2>2. e \in Wired /\ e.by = r
    BY <1>2 DEF Wired
  <2> HIDE DEF e
  <2>3. HyperTyped'
    BY <1>1, <2>1, <2>2 DEF HyperInv, HyperTyped
  <2>4. doing[r] # "idle"
    BY <1>1 DEF HyperInv, Awaited
  <2>5. /\ wire' \in Seq(Wired) /\ Len(wire') = Len(wire) + 1 /\ wire'[Len(wire) + 1] = e
        /\ \A i \in 1..Len(wire) : wire'[i] = wire[i]
    BY <2>1, <2>2 DEF HyperInv, HyperTyped
  <2>6. Awaited'
    BY <1>1, <2>1, <2>2, <2>4, <2>5 DEF HyperInv, HyperTyped, Awaited
  <2>7. QED
    BY <1>1, <2>3, <2>6 DEF HyperInv, H!CodecKnown
<1>5. QED
  BY <1>3, <1>4
LEMMA TimesOutKeeps ==
  ASSUME HyperInv, NEW r \in H!Readers, H!TimesOut(r)
  PROVE  HyperInv'
<1>1. /\ await[r] /\ H!Goes(r, FALSE) /\ UNCHANGED <<deck, read, codec, told, up, astray, calls>>
      /\ wire' = [i \in DOMAIN wire |->
                    IF wire[i].by = r THEN [wire[i] EXCEPT !.by = "nobody"] ELSE wire[i]]
  BY DEF H!TimesOut
<1>2. script[r] # <<>> /\ doing[r] # "idle"
  BY <1>1 DEF HyperInv, Awaited
<1>3. /\ script' \in [H!Readers -> Seq(Commands)] /\ doing' \in [H!Readers -> H!Works]
      /\ await' = [await EXCEPT ![r] = FALSE]
      /\ doing'[r] = "idle" => script'[r] = <<>>
      /\ \A q \in H!Readers \ {r} : script'[q] = script[q] /\ doing'[q] = doing[q]
  BY <1>1, <1>2, GoesOn DEF HyperInv
<1>4. DOMAIN wire = 1..Len(wire) /\ Len(wire) \in Nat /\ \A i \in DOMAIN wire : wire[i] \in Wired
  BY DEF HyperInv, HyperTyped
<1>5. \A i \in DOMAIN wire : /\ wire'[i] \in Wired
                             /\ wire[i].by = r => wire'[i].by = "nobody"
                             /\ wire[i].by # r => wire'[i] = wire[i]
  BY <1>1, <1>4 DEF Wired
<1>6. wire' \in Seq(Wired) /\ DOMAIN wire' = DOMAIN wire
  BY <1>1, <1>4, <1>5
<1>7. HyperTyped'
  BY <1>1, <1>3, <1>6 DEF HyperInv, HyperTyped
<1>8. Awaited'
  <2>1. \A q \in H!Readers : (doing'[q] = "idle" => script'[q] = <<>>) /\ (await'[q] => script'[q] # <<>>)
    BY <1>3 DEF HyperInv, HyperTyped, Awaited
  <2>2. \A i \in DOMAIN wire : wire'[i].by # "nobody" => wire'[i] = wire[i] /\ wire[i].by # r
    BY <1>5
  <2>3. \A i \in DOMAIN wire : wire'[i].by # "nobody" => await'[wire'[i].by]
    BY <1>3, <1>4, <2>2 DEF HyperInv, HyperTyped, Awaited, Wired
  <2>4. QED
    BY <1>6, <2>1, <2>2, <2>3 DEF HyperInv, Awaited
<1>9. QED
  BY <1>1, <1>7, <1>8 DEF HyperInv, H!CodecKnown

\* What is done at the deck leaves a deck, and only a "format" leaves another codec.
LEMMA DoesTyped ==
  ASSUME HyperTyped, NEW cmd \in Commands
  PROVE  /\ H!Does(cmd) \in Deck
         /\ cmd.name # "format" => H!Does(cmd).codec = deck.codec
<1>1. CASE cmd \in [name : Plain, of : {0}, must : BOOLEAN]
  BY <1>1 DEF H!Does, Plain, HyperTyped, Deck
<1>2. CASE cmd \in [name : {"select", "prepare", "confirm"}, of : Slots, must : BOOLEAN]
  BY <1>2 DEF H!Does, HyperTyped, Deck
<1>3. CASE cmd \in [name : {"format"}, of : Codecs, must : BOOLEAN]
  BY <1>3 DEF H!Does, HyperTyped, Deck
<1>4. QED
  BY <1>1, <1>2, <1>3 DEF Commands

LEMMA AnswerKeeps ==
  ASSUME HyperInv, H!HyperAssumption, NEW ok \in BOOLEAN, H!Answer(ok)
  PROVE  HyperInv'
<1> DEFINE by == Head(wire).by
           cmd == Head(wire).cmd
           after == H!Does(cmd)
<1>1. /\ wire # <<>> /\ wire' = Tail(wire) /\ UNCHANGED <<told, up, calls>>
      /\ deck' = IF ok THEN after ELSE deck
      /\ astray' = (astray \/ (ok /\ by = "nobody" /\ cmd.name = "format"))
  BY DEF H!Answer
<1>2. Head(wire) \in Wired /\ Head(wire) = wire[1] /\ 1 \in DOMAIN wire
  BY <1>1 DEF HyperInv, HyperTyped
<1>3. cmd \in Commands /\ by \in H!Readers \cup {"nobody"}
  BY <1>2 DEF Wired
<1>4. after \in Deck /\ (cmd.name # "format" => after.codec = deck.codec)
  BY <1>3, DoesTyped DEF HyperInv
<1>5. deck' \in Deck /\ ((ok /\ cmd.name = "format") \/ deck'.codec = deck.codec)
  BY <1>1, <1>4 DEF HyperInv, HyperTyped
<1>6. /\ wire' \in Seq(Wired) /\ Len(wire') = Len(wire) - 1
      /\ DOMAIN wire' = 1..Len(wire') /\ DOMAIN wire = 1..Len(wire)
      /\ \A i \in DOMAIN wire' : wire'[i] = wire[i + 1] /\ i + 1 \in DOMAIN wire
  BY <1>1 DEF HyperInv, HyperTyped
<1>7. astray' \in BOOLEAN
  BY <1>1 DEF HyperInv, HyperTyped
<1> HIDE DEF by, cmd, after
<1>8. CASE by = "nobody"
  <2>1. UNCHANGED <<script, doing, await, read, codec>>
    BY <1>8 DEF H!Answer, by
  <2>2. HyperTyped'
    BY <1>1, <1>5, <1>6, <1>7, <2>1 DEF HyperInv, HyperTyped
  <2>3. Awaited'
    BY <1>6, <2>1 DEF HyperInv, HyperTyped, Awaited
  <2>4. H!CodecKnown'
    BY <1>1, <1>5, <1>8, <2>1 DEF HyperInv, H!CodecKnown
  <2>5. QED
    BY <2>2, <2>3, <2>4 DEF HyperInv
<1>9. CASE by # "nobody"
  <2>1. /\ \/ H!Goes(by, ok)
           \/ /\ script' = [script EXCEPT ![by] = H!Explain]
              /\ await' = [await EXCEPT ![by] = FALSE] /\ UNCHANGED doing
        /\ read' = CASE ok /\ cmd.name = "transport" -> [read EXCEPT ![by].rec = after.rec]
                     [] ok /\ cmd.name = "config" -> [read EXCEPT ![by].codec = after.codec]
                     [] OTHER -> read
        /\ codec' = CASE ok /\ cmd.name = "config" -> after.codec
                      [] ok /\ H!Forgets(cmd) -> "unread"
                      [] OTHER -> codec
    BY <1>9 DEF H!Answer, by, cmd, after
  <2>2. by \in H!Readers /\ await[by] /\ script[by] # <<>> /\ doing[by] # "idle"
    BY <1>2, <1>3, <1>9 DEF HyperInv, Awaited, by
  <2>3. /\ script' \in [H!Readers -> Seq(Commands)] /\ doing' \in [H!Readers -> H!Works]
        /\ await' = [await EXCEPT ![by] = FALSE]
        /\ doing'[by] = "idle" => script'[by] = <<>>
        /\ \A q \in H!Readers \ {by} : script'[q] = script[q] /\ doing'[q] = doing[q]
    <3>1. CASE H!Goes(by, ok)
      BY <2>2, <3>1, GoesOn DEF HyperInv
    <3>2. CASE /\ script' = [script EXCEPT ![by] = H!Explain]
               /\ await' = [await EXCEPT ![by] = FALSE] /\ UNCHANGED doing
      BY <2>2, <3>2, ScriptsTyped DEF HyperInv, HyperTyped
    <3>3. QED
      BY <2>1, <3>1, <3>2
  <2>4. read' \in [H!Readers -> Reading]
    <3>1. read[by] \in Reading /\ read \in [H!Readers -> Reading]
      BY <2>2 DEF HyperInv, HyperTyped
    <3>2. after.rec \in BOOLEAN /\ after.codec \in Codecs
      BY <1>4 DEF Deck
    <3>3. [read[by] EXCEPT !.rec = after.rec] \in Reading
          /\ [read[by] EXCEPT !.codec = after.codec] \in Reading
      BY <3>1, <3>2 DEF Reading
    <3>4. QED
      BY <2>1, <3>1, <3>3
  <2>5. codec' \in Codecs \cup {"unread"}
    BY <1>4, <2>1 DEF HyperInv, HyperTyped, Deck
  <2>6. HyperTyped'
    BY <1>1, <1>5, <1>6, <1>7, <2>2, <2>3, <2>4, <2>5 DEF HyperInv, HyperTyped
  <2>7. Awaited'
    <3>1. \A q \in H!Readers : (doing'[q] = "idle" => script'[q] = <<>>) /\ (await'[q] => script'[q] # <<>>)
      BY <2>2, <2>3 DEF HyperInv, HyperTyped, Awaited
    <3>2. \A i \in DOMAIN wire' : wire'[i].by # by
      BY <1>2, <1>6, <1>9 DEF HyperInv, Awaited, by
    <3>3. \A i \in DOMAIN wire' : wire'[i].by # "nobody" => await'[wire'[i].by]
      BY <1>6, <2>3, <3>2 DEF HyperInv, HyperTyped, Awaited, Wired
    <3>4. QED
      BY <1>6, <3>1, <3>3 DEF HyperInv, Awaited
  <2>8. H!CodecKnown'
    BY <1>1, <1>5, <1>9, <2>1 DEF HyperInv, H!CodecKnown, H!Forgets
  <2>9. QED
    BY <2>6, <2>7, <2>8 DEF HyperInv
<1>10. QED
  BY <1>8, <1>9
LEMMA DoneKeeps ==
  ASSUME HyperInv, NEW r \in H!Readers, H!Done(r)
  PROVE  HyperInv'
<1>1. /\ doing' = [doing EXCEPT ![r] = "idle"] /\ script' = [script EXCEPT ![r] = <<>>]
      /\ await' = [await EXCEPT ![r] = FALSE] /\ script[r] = <<>>
      /\ told' = IF r = "emit" THEN read[r] ELSE told
      /\ UNCHANGED <<deck, wire, read, codec, up, astray, calls>>
  BY DEF H!Done, H!End
<1>2. await' = await
  BY <1>1 DEF HyperInv, HyperTyped, Awaited
<1>3. HyperTyped'
  BY <1>1, <1>2 DEF HyperInv, HyperTyped, H!Works
<1>4. Awaited'
  BY <1>1, <1>2 DEF HyperInv, HyperTyped, Awaited
<1>5. QED
  BY <1>1, <1>3, <1>4 DEF HyperInv, H!CodecKnown

LEMMA AtTheDeckKeeps ==
  ASSUME HyperInv, H!HyperAssumption, H!AtTheDeck
  PROVE  HyperInv'
<1>1. /\ calls' \in 0..MaxCalls
      /\ UNCHANGED <<wire, script, doing, await, read, codec, told, up>>
  <2>1. H!Counting /\ UNCHANGED <<wire, script, doing, await, read, codec, told, up>>
    BY DEF H!AtTheDeck
  <2>2. QED
    BY <2>1 DEF H!Counting, HyperInv, HyperTyped, H!HyperAssumption
<1>2. deck' \in Deck /\ astray' \in BOOLEAN /\ (astray' \/ (~astray /\ deck'.codec = deck.codec))
  <2>1. CASE deck' = [deck EXCEPT !.rec = FALSE] /\ UNCHANGED astray
    BY <2>1 DEF HyperInv, HyperTyped, Deck
  <2>2. ASSUME NEW s \in Slots,
               deck' = [deck EXCEPT !.card[s] = ~@, !.rec = @ /\ s # deck.slot], UNCHANGED astray
        PROVE  deck' \in Deck /\ deck'.codec = deck.codec
    <3>1. [deck.card EXCEPT ![s] = ~@] \in [Slots -> BOOLEAN]
      BY DEF HyperInv, HyperTyped, Deck
    <3>2. (deck.rec /\ s # deck.slot) \in BOOLEAN
      OBVIOUS
    <3>3. deck' = [deck EXCEPT !.card = [deck.card EXCEPT ![s] = ~@],
                               !.rec = (deck.rec /\ s # deck.slot)]
      BY <2>2 DEF HyperInv, HyperTyped, Deck
    <3>4. QED
      BY <3>1, <3>2, <3>3 DEF HyperInv, HyperTyped, Deck
  <2>3. ASSUME NEW c \in Codecs, deck' = [deck EXCEPT !.codec = c], astray' = TRUE
        PROVE  deck' \in Deck /\ astray' \in BOOLEAN /\ astray'
    BY <2>3 DEF HyperInv, HyperTyped, Deck
  <2>4. astray \in BOOLEAN
    BY DEF HyperInv, HyperTyped
  <2>5. CASE deck.rec /\ deck' = [deck EXCEPT !.rec = FALSE] /\ UNCHANGED astray
    BY <2>1, <2>4, <2>5
  <2>6. CASE \E s \in Slots : /\ deck' = [deck EXCEPT !.card[s] = ~@, !.rec = @ /\ s # deck.slot]
                              /\ UNCHANGED astray
    <3>1. PICK s \in Slots : /\ deck' = [deck EXCEPT !.card[s] = ~@, !.rec = @ /\ s # deck.slot]
                             /\ UNCHANGED astray
      BY Zenon, <2>6
    <3>2. deck' \in Deck /\ deck'.codec = deck.codec
      BY Zenon, <2>2, <3>1
    <3>3. QED
      BY <2>4, <3>1, <3>2
  <2>7. CASE \E c \in Codecs \ {deck.codec} : deck' = [deck EXCEPT !.codec = c] /\ astray' = TRUE
    <3>1. PICK c \in Codecs : deck' = [deck EXCEPT !.codec = c] /\ astray' = TRUE
      BY <2>7
    <3>2. QED
      BY <2>3, <3>1
  <2>8. QED
    BY <2>5, <2>6, <2>7 DEF H!AtTheDeck
<1>3. HyperTyped'
  BY <1>1, <1>2 DEF HyperInv, HyperTyped
<1>4. Awaited'
  BY <1>1 DEF HyperInv, Awaited
<1>5. H!CodecKnown'
  BY <1>1, <1>2 DEF HyperInv, H!CodecKnown
<1>6. QED
  BY <1>3, <1>4, <1>5 DEF HyperInv

LEMMA HyperKept ==
  ASSUME HyperInv, [H!HyperNext]_hypVars, H!HyperAssumption
  PROVE  HyperInv'
<1>1. ASSUME NEW r \in DeckCalls, H!Call(r) PROVE HyperInv'
  <2>1. PICK w \in H!Works \ {"idle"}, slot \in Slots, c \in Codecs \cup {"unread"} :
          H!Begin(r, w, H!Scripts(w, slot, c))
    BY <1>1 DEF H!Call
  <2>2. H!Scripts(w, slot, c) \in Seq(Commands) /\ r \in H!Readers
    BY ScriptsTyped DEF H!Readers
  <2>3. calls' \in 0..MaxCalls
    BY <1>1 DEF H!Call, H!Counting, HyperInv, HyperTyped, H!HyperAssumption
  <2>4. QED
    BY <2>1, <2>2, <2>3, BeginKeeps
<1>2. CASE H!Emit
  <2>1. H!Begin("emit", "read", H!ReadState) /\ calls' \in 0..MaxCalls
    BY <1>2 DEF H!Emit, H!Counting, HyperInv, HyperTyped, H!HyperAssumption
  <2>2. H!ReadState \in Seq(Commands) /\ "emit" \in H!Readers /\ "read" \in H!Works
    BY ScriptsTyped DEF H!Readers, H!Works
  <2>3. QED
    BY <2>1, <2>2, BeginKeeps
<1>3. ASSUME NEW r \in H!Readers, H!Send(r) PROVE HyperInv'
  BY <1>3, SendKeeps
<1>4. ASSUME NEW r \in H!Readers, H!TimesOut(r) PROVE HyperInv'
  BY <1>4, TimesOutKeeps
<1>5. ASSUME NEW r \in H!Readers, H!Done(r) PROVE HyperInv'
  BY <1>5, DoneKeeps
<1>6. ASSUME NEW ok \in BOOLEAN, H!Answer(ok) PROVE HyperInv'
  BY <1>6, AnswerKeeps
<1>7. CASE H!AtTheDeck
  BY <1>7, AtTheDeckKeeps
<1>8. CASE H!Dispose
  BY <1>8 DEF H!Dispose, HyperInv, HyperTyped, Awaited, H!CodecKnown
<1>9. CASE UNCHANGED hypVars
  BY <1>9 DEF hypVars, HyperInv, HyperTyped, Awaited, H!CodecKnown
<1>10. QED
  BY <1>1, <1>2, <1>3, <1>4, <1>5, <1>6, <1>7, <1>8, <1>9 DEF H!HyperNext

LEMMA HyperTypes == HyperInv => H!HyperTypeOK
<1> SUFFICES ASSUME HyperInv PROVE H!HyperTypeOK
  OBVIOUS
<1>1. \A i \in DOMAIN wire : wire[i].by \in H!Readers \cup {"nobody"}
  <2>1. DOMAIN wire = 1..Len(wire) /\ Len(wire) \in Nat /\ \A i \in DOMAIN wire : wire[i] \in Wired
    BY DEF HyperInv, HyperTyped
  <2>2. QED
    BY <2>1 DEF Wired
<1>2. QED
  BY <1>1 DEF HyperInv, HyperTyped, Deck, Reading, H!HyperTypeOK
-----------------------------------------------------------------------------
(* OBS: the name of the file it writes *)

\* What the path of recordingPath will be when the first k messages of q are received, the
\* replies to StopRecord apart: p now, n then.
BecomesAfter(q, p, k, n) ==
  \/ p = n /\ \A l \in 1..k : q[l].is # "event"
  \/ \E j \in 1..k : /\ q[j].is = "event" /\ q[j].name = n
                     /\ \A l \in (j + 1)..k : q[l].is # "event"

LEMMA SameBefore ==
  ASSUME NEW q, NEW p, NEW k \in Nat, NEW n, BecomesAfter(q, p, k, n),
         NEW s, \A l \in 1..k : s[l] = q[l]
  PROVE  BecomesAfter(s, p, k, n)
BY DEF BecomesAfter

LEMMA AReplyAfter ==
  ASSUME NEW q, NEW p, NEW k \in Nat, NEW n, BecomesAfter(q, p, k, n), q[k + 1].is # "event"
  PROVE  BecomesAfter(q, p, k + 1, n)
BY DEF BecomesAfter

LEMMA AnEventAfter ==
  ASSUME NEW q, NEW p, NEW k \in Nat, q[k + 1].is = "event"
  PROVE  BecomesAfter(q, p, k + 1, q[k + 1].name)
BY DEF BecomesAfter

\* The first message is received.
LEMMA OneReceived ==
  ASSUME NEW q, NEW p, NEW k \in Nat \ {0}, NEW n, BecomesAfter(q, p, k, n),
         NEW s, \A l \in 1..(k - 1) : s[l] = q[l + 1]
  PROVE  BecomesAfter(s, IF q[1].is = "event" THEN q[1].name ELSE p, k - 1, n)
<1> DEFINE now == IF q[1].is = "event" THEN q[1].name ELSE p
<1>1. CASE p = n /\ \A l \in 1..k : q[l].is # "event"
  BY <1>1 DEF BecomesAfter
<1>2. ASSUME NEW j \in 1..k, q[j].is = "event", q[j].name = n,
             \A l \in (j + 1)..k : q[l].is # "event"
      PROVE  BecomesAfter(s, now, k - 1, n)
  <2>1. CASE j = 1
    <3>1. \A l \in 1..(k - 1) : s[l].is # "event"
      BY <1>2, <2>1
    <3>2. QED
      BY <1>2, <2>1, <3>1 DEF BecomesAfter
  <2>2. CASE j # 1
    <3>1. j - 1 \in 1..(k - 1) /\ s[j - 1] = q[j]
      BY <2>2
    <3>2. \A l \in ((j - 1) + 1)..(k - 1) : s[l].is # "event"
      BY <1>2, <2>2
    <3>3. QED
      BY <1>2, <3>1, <3>2 DEF BecomesAfter
  <2>3. QED
    BY <2>1, <2>2
<1>3. QED
  BY <1>1, <1>2 DEF BecomesAfter

\* Nothing is under way over a connection that is not there.
Shut == link # "up" => requests = <<>> /\ inbox = <<>> /\ obsCall = 0 /\ ~started

\* Ids are given in turn; an event has none, and only it and a reply to StopRecord name a file.
Numbered ==
  /\ obsCall <= asked
  /\ \A i \in DOMAIN requests : requests[i].id <= asked
  /\ \A i \in DOMAIN inbox :
       /\ inbox[i].id <= asked
       /\ IF inbox[i].is = "event" THEN inbox[i].id = 0 /\ inbox[i].name # 0 ELSE inbox[i].id # 0
       /\ inbox[i].is \in {"start", "status"} => inbox[i].name = 0

\* The host waits for a reply of one kind, to a status request only once the recorder was started.
OneKind ==
  obsCall # 0 =>
    \E what \in O!Kinds :
      /\ \A i \in DOMAIN requests : requests[i].id = obsCall => requests[i].is = what
      /\ \A i \in DOMAIN inbox : inbox[i].id = obsCall => inbox[i].is = what
      /\ started <=> what = "status"

\* A start that was answered, or is about to be, and nothing since asked to stop.
Started ==
  \/ started
  \/ \E i \in DOMAIN inbox : inbox[i].is = "start" /\ inbox[i].ok /\ inbox[i].id = obsCall

\* What the adapter has yet to hear leads it to the file, and a reading gets there in time.
Heard ==
  /\ Started => BecomesAfter(inbox, path, Len(inbox), file)
  /\ \A i \in DOMAIN inbox :
       inbox[i].is = "status" /\ inbox[i].id = obsCall /\ inbox[i].wrote # 0 =>
         BecomesAfter(inbox, path, i - 1, inbox[i].wrote)

ObsInv ==
  /\ O!ObsTypeOK /\ (output # "off" => file # 0)
  /\ Shut /\ Numbered /\ OneKind /\ Heard /\ O!LedgerHasTheFile

LEMMA ObsHolds == ASSUME O!ObsAssumption PROVE O!ObsInit => ObsInv
<1> SUFFICES ASSUME O!ObsInit PROVE ObsInv
  OBVIOUS
<1>1. path \in O!Names /\ file \in O!Names /\ asked \in 0..MaxAsked /\ obsCall \in 0..MaxAsked
  BY DEF O!ObsInit, O!ObsAssumption, O!Names
<1>2. row \in [wrote : O!Names, said : O!Names] /\ row.wrote = row.said
  BY <1>1 DEF O!ObsInit, O!NoRow
<1>3. requests \in Seq([is : O!Kinds, id : 1..MaxAsked]) /\ inbox \in Seq(O!Messages)
  BY DEF O!ObsInit
<1>4. O!ObsTypeOK
  BY <1>1, <1>2, <1>3 DEF O!ObsInit, O!ObsTypeOK
<1>5. Shut /\ Numbered /\ OneKind
  BY DEF O!ObsInit, Shut, Numbered, OneKind
<1>6. Heard
  BY DEF O!ObsInit, Heard, Started
<1>7. QED
  BY <1>2, <1>4, <1>5, <1>6 DEF O!ObsInit, ObsInv, O!LedgerHasTheFile
\* What is under way, taken apart.
LEMMA UnderWay ==
  ASSUME ObsInv, O!ObsAssumption
  PROVE  /\ DOMAIN requests = 1..Len(requests) /\ Len(requests) \in Nat
         /\ \A i \in DOMAIN requests : /\ requests[i].id \in 1..MaxAsked /\ requests[i].is \in O!Kinds
                                       /\ requests[i].id <= asked
         /\ DOMAIN inbox = 1..Len(inbox) /\ Len(inbox) \in Nat
         /\ \A i \in DOMAIN inbox : /\ inbox[i] \in O!Messages /\ inbox[i].id \in 0..MaxAsked
                                    /\ inbox[i].name \in O!Names /\ inbox[i].wrote \in O!Names
                                    /\ inbox[i].id <= asked
         /\ asked \in Nat /\ obsCall \in Nat /\ file \in Nat
<1>1. DOMAIN requests = 1..Len(requests) /\ Len(requests) \in Nat
      /\ \A i \in DOMAIN requests : requests[i] \in [is : O!Kinds, id : 1..MaxAsked]
  <2> DEFINE Request == [is : O!Kinds, id : 1..MaxAsked]
  <2>1. requests \in Seq(Request)
    BY DEF ObsInv, O!ObsTypeOK
  <2> HIDE DEF Request
  <2>2. DOMAIN requests = 1..Len(requests) /\ Len(requests) \in Nat
        /\ \A i \in DOMAIN requests : requests[i] \in Request
    BY <2>1
  <2>3. QED
    BY <2>2 DEF Request
<1>2. DOMAIN inbox = 1..Len(inbox) /\ Len(inbox) \in Nat
      /\ \A i \in DOMAIN inbox : inbox[i] \in O!Messages
  BY DEF ObsInv, O!ObsTypeOK
<1>3. \A i \in DOMAIN requests : requests[i].id \in 1..MaxAsked /\ requests[i].is \in O!Kinds
  BY <1>1
<1>4. \A i \in DOMAIN inbox : /\ inbox[i].id \in 0..MaxAsked
                              /\ inbox[i].name \in O!Names /\ inbox[i].wrote \in O!Names
  BY <1>2 DEF O!Messages
<1>5. asked \in Nat /\ obsCall \in Nat /\ file \in Nat
  BY DEF ObsInv, O!ObsTypeOK, O!Names, O!ObsAssumption
<1>6. QED
  BY <1>1, <1>2, <1>3, <1>4, <1>5 DEF ObsInv, Numbered

\* A request of a new id, for which a recorder must have been started if it is a reading.
LEMMA AskKeeps ==
  ASSUME ObsInv, O!ObsAssumption, NEW what \in O!Kinds, O!Send(what),
         path' \in O!Names, row' \in [wrote : O!Names, said : O!Names], row'.wrote = row'.said,
         started' \in BOOLEAN, started' <=> what = "status",
         started' => started /\ path' = path
  PROVE  ObsInv'
<1> DEFINE ask == [is |-> what, id |-> asked + 1]
<1>1. /\ link = "up" /\ obsCall = 0 /\ asked' = asked + 1 /\ obsCall' = asked + 1
      /\ asked \in 0..MaxAsked /\ asked + 1 \in 1..MaxAsked
      /\ requests' = Append(requests, ask) /\ UNCHANGED <<output, file, inbox, link>>
  BY DEF O!Send, ObsInv, O!ObsTypeOK, O!ObsAssumption
<1>2. ask \in [is : O!Kinds, id : 1..MaxAsked]
  BY <1>1
<1>3. /\ requests' \in Seq([is : O!Kinds, id : 1..MaxAsked]) /\ Len(requests') = Len(requests) + 1
      /\ requests'[Len(requests) + 1] = ask
      /\ \A i \in DOMAIN requests : requests'[i] = requests[i] /\ i \in DOMAIN requests'
      /\ DOMAIN requests' = DOMAIN requests \cup {Len(requests) + 1}
  BY <1>1, <1>2 DEF ObsInv, O!ObsTypeOK
<1> HIDE DEF ask
<1>4. O!ObsTypeOK'
  BY <1>1, <1>3 DEF ObsInv, O!ObsTypeOK
<1>5. ask.is = what /\ ask.id = asked + 1
  BY DEF ask
<1>6. Numbered'
  <2>1. \A i \in DOMAIN requests' : requests'[i].id <= asked'
    BY <1>1, <1>3, <1>5, UnderWay
  <2>2. \A i \in DOMAIN inbox : inbox[i].id <= asked => inbox[i].id <= asked'
    BY <1>1, UnderWay
  <2>3. QED
    BY <1>1, <2>1, <2>2 DEF ObsInv, Numbered
<1>7. \A i \in DOMAIN inbox : inbox[i].id # obsCall'
  BY <1>1, UnderWay
<1>8. \A i \in DOMAIN requests : requests[i].id # obsCall'
  BY <1>1, UnderWay
<1>9. OneKind'
  <2>1. \A i \in DOMAIN requests' : requests'[i].id = obsCall' => requests'[i].is = what
    BY <1>3, <1>5, <1>8
  <2>2. \A i \in DOMAIN inbox' : inbox'[i].id = obsCall' => inbox'[i].is = what
    BY <1>1, <1>7
  <2>3. QED
    BY <2>1, <2>2 DEF OneKind
<1>10. Heard'
  BY <1>1, <1>7 DEF ObsInv, Heard, Started
<1>11. Shut'
  BY <1>1 DEF Shut
<1>12. QED
  BY <1>1, <1>4, <1>6, <1>9, <1>10, <1>11 DEF ObsInv, O!LedgerHasTheFile

LEMMA AskingKeeps ==
  ASSUME ObsInv, O!ObsAssumption, O!StartRecording \/ O!StopRecording \/ O!Verify
  PROVE  ObsInv'
<1>1. 0 \in O!Names /\ path \in O!Names /\ row \in [wrote : O!Names, said : O!Names]
      /\ row.wrote = row.said /\ O!NoRow \in [wrote : O!Names, said : O!Names]
  BY DEF O!Names, O!ObsAssumption, ObsInv, O!ObsTypeOK, O!LedgerHasTheFile, O!NoRow
<1>2. CASE O!StartRecording
  <2>1. /\ "start" \in O!Kinds /\ O!Send("start") /\ path' = 0 /\ started' = FALSE
        /\ row' = O!NoRow /\ O!NoRow.wrote = O!NoRow.said
    BY <1>2 DEF O!StartRecording, O!Kinds, O!NoRow
  <2>2. QED
    BY <1>1, <2>1, AskKeeps
<1>3. CASE O!StopRecording
  <2>1. /\ "stop" \in O!Kinds /\ O!Send("stop") /\ path' = path /\ started' = FALSE /\ row' = row
    BY <1>3 DEF O!StopRecording, O!Kinds
  <2>2. QED
    BY <1>1, <2>1, AskKeeps
<1>4. CASE O!Verify
  <2>1. /\ "status" \in O!Kinds /\ O!Send("status") /\ path' = path /\ started' = started
        /\ started /\ row' = row /\ started \in BOOLEAN
    BY <1>4 DEF O!Verify, O!Kinds, ObsInv, O!ObsTypeOK
  <2>2. QED
    BY <1>1, <2>1, AskKeeps
<1>5. QED
  BY <1>2, <1>3, <1>4

LEMMA LinkKeeps ==
  ASSUME ObsInv, O!ObsAssumption, O!Connect \/ O!Disconnect \/ O!GiveUp \/ UNCHANGED obsVars
  PROVE  ObsInv'
<1> USE DEF ObsInv, Shut, Numbered, OneKind, Heard, Started, O!LedgerHasTheFile
<1>1. CASE O!Connect
  <2>1. O!ObsTypeOK'
    <3>1. 0 \in O!Names
      BY DEF O!Names, O!ObsAssumption
    <3>2. QED
      BY <1>1, <3>1 DEF O!Connect, O!ObsTypeOK
  <2>2. QED
    BY <1>1, <2>1 DEF O!Connect
<1>2. CASE O!Disconnect
  <2>1. O!ObsTypeOK'
    <3>1. requests' = <<>> /\ inbox' = <<>> /\ obsCall' = 0 /\ started' = FALSE
          /\ link' \in {"down", "disposed"} /\ UNCHANGED <<output, file, path, row, asked>>
      BY <1>2 DEF O!Disconnect
    <3>2. obsCall' \in 0..MaxAsked
      BY <3>1 DEF O!ObsAssumption
    <3>3. requests' \in Seq([is : O!Kinds, id : 1..MaxAsked]) /\ inbox' \in Seq(O!Messages)
      BY <3>1
    <3>4. QED
      BY <3>1, <3>2, <3>3 DEF O!ObsTypeOK
  <2>2. asked' \in Nat
    BY <1>2 DEF O!Disconnect, O!ObsTypeOK
  <2>3. QED
    BY <1>2, <2>1, <2>2 DEF O!Disconnect
<1>3. CASE O!GiveUp
  <2>1. O!ObsTypeOK' /\ asked \in Nat
    BY <1>3 DEF O!GiveUp, O!ObsTypeOK, O!ObsAssumption
  <2>2. \A i \in DOMAIN inbox : inbox[i].is \in {"start", "status"} => inbox[i].id # 0
    OBVIOUS
  <2>3. QED
    BY <1>3, <2>1, <2>2 DEF O!GiveUp
<1>4. CASE UNCHANGED obsVars
  BY <1>4 DEF obsVars, O!ObsTypeOK
<1>5. QED
  BY <1>1, <1>2, <1>3, <1>4
\* What OBS says comes after what it said before.
LEMMA SaidAfter ==
  ASSUME ObsInv, O!ObsAssumption, NEW ms \in Seq(O!Messages), inbox' = inbox \o ms
  PROVE  /\ inbox' \in Seq(O!Messages) /\ Len(inbox') = Len(inbox) + Len(ms)
         /\ DOMAIN inbox' = 1..(Len(inbox) + Len(ms)) /\ Len(ms) \in Nat
         /\ \A i \in 1..Len(inbox) : inbox'[i] = inbox[i]
         /\ \A i \in 1..Len(ms) : inbox'[Len(inbox) + i] = ms[i]
         /\ \A i \in DOMAIN inbox' :
              \/ i \in DOMAIN inbox /\ inbox'[i] = inbox[i]
              \/ \E j \in 1..Len(ms) : i = Len(inbox) + j /\ inbox'[i] = ms[j]
<1>1. inbox \in Seq(O!Messages) /\ Len(inbox) \in Nat /\ Len(ms) \in Nat /\ DOMAIN inbox = 1..Len(inbox)
  BY DEF ObsInv, O!ObsTypeOK
<1>2. /\ inbox' \in Seq(O!Messages) /\ Len(inbox') = Len(inbox) + Len(ms)
      /\ DOMAIN inbox' = 1..(Len(inbox) + Len(ms))
      /\ \A i \in 1..Len(inbox) : inbox'[i] = inbox[i]
      /\ \A i \in 1..Len(ms) : inbox'[Len(inbox) + i] = ms[i]
  BY <1>1
<1>3. ASSUME NEW i \in DOMAIN inbox', i \notin DOMAIN inbox
      PROVE  \E j \in 1..Len(ms) : i = Len(inbox) + j /\ inbox'[i] = ms[j]
  <2>1. i - Len(inbox) \in 1..Len(ms) /\ i = Len(inbox) + (i - Len(inbox))
    BY <1>1, <1>2, <1>3
  <2>2. QED
    BY <1>2, <2>1
<1>4. QED
  BY <1>1, <1>2, <1>3

\* OBS says what happened, or answers the request that it received first.
LEMMA SaidKeeps ==
  ASSUME ObsInv, O!ObsAssumption, link = "up", NEW ms \in Seq(O!Messages), inbox' = inbox \o ms,
         \/ requests' = requests
         \/ requests # <<>> /\ requests' = Tail(requests),
         \A i \in 1..Len(ms) :
           IF ms[i].is = "event" THEN ms[i].id = 0 /\ ms[i].name # 0
           ELSE /\ requests # <<>> /\ ms[i].is = requests[1].is /\ ms[i].id = requests[1].id
                /\ ms[i].is \in {"start", "status"} => ms[i].name = 0,
         output' \in {"off", "on", "closing"}, file' \in O!Names, output' # "off" => file' # 0,
         UNCHANGED <<path, link, obsCall, started, row, asked>>, Heard'
  PROVE  ObsInv'
<1> DEFINE Request == [is : O!Kinds, id : 1..MaxAsked]
<1>1. requests \in Seq(Request)
  BY DEF ObsInv, O!ObsTypeOK
<1>2. /\ requests' \in Seq(Request)
      /\ \A i \in DOMAIN requests' : \E j \in DOMAIN requests : requests'[i] = requests[j]
  <2> HIDE DEF Request
  <2>1. CASE requests' = requests
    BY <1>1, <2>1
  <2>2. CASE requests # <<>> /\ requests' = Tail(requests)
    BY <1>1, <2>2
  <2>3. QED
    BY <2>1, <2>2
<1>3. requests # <<>> => 1 \in DOMAIN requests
  BY UnderWay
<1>4. O!ObsTypeOK'
  BY <1>2, SaidAfter DEF ObsInv, O!ObsTypeOK
<1>5. Shut'
  BY DEF Shut
<1>6. Numbered'
  <2>1. obsCall' <= asked' /\ \A i \in DOMAIN requests' : requests'[i].id <= asked'
    BY <1>2 DEF ObsInv, Numbered
  <2>2. ASSUME NEW i \in DOMAIN inbox'
        PROVE  /\ inbox'[i].id <= asked
               /\ IF inbox'[i].is = "event" THEN inbox'[i].id = 0 /\ inbox'[i].name # 0
                  ELSE inbox'[i].id # 0
               /\ inbox'[i].is \in {"start", "status"} => inbox'[i].name = 0
    <3>1. CASE i \in DOMAIN inbox /\ inbox'[i] = inbox[i]
      BY <3>1 DEF ObsInv, Numbered
    <3>2. ASSUME NEW j \in 1..Len(ms), inbox'[i] = ms[j] PROVE inbox'[i].id <= asked /\
               (IF inbox'[i].is = "event" THEN inbox'[i].id = 0 /\ inbox'[i].name # 0
                  ELSE inbox'[i].id # 0)
               /\ (inbox'[i].is \in {"start", "status"} => inbox'[i].name = 0)
      <4>1. CASE ms[j].is = "event"
        <5>1. ms[j].id = 0 /\ ms[j].name # 0
          BY <4>1
        <5>2. QED
          BY <3>2, <4>1, <5>1, UnderWay
      <4>2. CASE ms[j].is # "event"
        <5>1. /\ ms[j].is = requests[1].is /\ ms[j].id = requests[1].id /\ 1 \in DOMAIN requests
              /\ ms[j].is \in {"start", "status"} => ms[j].name = 0
          BY <1>3, <4>2
        <5>2. requests[1].id # 0 /\ requests[1].id <= asked
          BY <5>1, UnderWay
        <5>3. QED
          BY <3>2, <4>2, <5>1, <5>2
      <4>3. QED
        BY <4>1, <4>2
    <3>3. QED
      BY <3>1, <3>2, SaidAfter
  <2>3. QED
    BY <2>1, <2>2 DEF Numbered
<1>7. OneKind'
  <2>1. ASSUME obsCall # 0 PROVE OneKind'
    <3>1. PICK what \in O!Kinds :
            /\ \A i \in DOMAIN requests : requests[i].id = obsCall => requests[i].is = what
            /\ \A i \in DOMAIN inbox : inbox[i].id = obsCall => inbox[i].is = what
            /\ started <=> what = "status"
      BY <2>1 DEF ObsInv, OneKind
    <3>2. \A i \in DOMAIN requests' : requests'[i].id = obsCall => requests'[i].is = what
      BY <1>2, <3>1
    <3>3. \A i \in 1..Len(ms) : ms[i].id = obsCall => ms[i].is = what
      BY <1>3, <2>1, <3>1
    <3>4. \A i \in DOMAIN inbox' : inbox'[i].id = obsCall => inbox'[i].is = what
      BY <3>1, <3>3, SaidAfter
    <3>5. QED
      BY <3>1, <3>2, <3>4 DEF OneKind
  <2>2. CASE obsCall = 0
    BY <2>2 DEF OneKind
  <2>3. QED
    BY <2>1, <2>2
<1>8. QED
  BY <1>4, <1>5, <1>6, <1>7 DEF ObsInv, O!LedgerHasTheFile

\* A reply that tells of no new file.
LEMMA ReplyIsHeard ==
  ASSUME ObsInv, O!ObsAssumption, requests # <<>>, NEW m \in O!Messages, inbox' = inbox \o <<m>>,
         m.is = requests[1].is, m.id = requests[1].id, m.is = "start" => ~m.ok, m.wrote \in {0, file},
         UNCHANGED <<file, path, obsCall, started>>
  PROVE  Heard'
<1>1. /\ Len(inbox') = Len(inbox) + 1 /\ Len(inbox) \in Nat /\ inbox'[Len(inbox) + 1] = m
      /\ DOMAIN inbox' = 1..(Len(inbox) + 1) /\ DOMAIN inbox = 1..Len(inbox)
      /\ \A i \in 1..Len(inbox) : inbox'[i] = inbox[i]
  BY UnderWay, <<m>> \in Seq(O!Messages), Len(<<m>>) = 1, <<m>>[1] = m, SaidAfter
<1>2. m.is \in O!Kinds /\ 1 \in DOMAIN requests /\ m.id # 0
  BY UnderWay
<1>3. ASSUME NEW k \in 0..Len(inbox), NEW n, BecomesAfter(inbox, path, k, n)
      PROVE  BecomesAfter(inbox', path, k, n)
  <2>1. k \in Nat /\ \A l \in 1..k : inbox'[l] = inbox[l]
    BY <1>1
  <2>2. QED
    BY <1>3, <2>1, SameBefore
<1>4. ASSUME Started' PROVE BecomesAfter(inbox', path, Len(inbox'), file)
  <2>1. Started
    BY <1>1, <1>4 DEF Started
  <2>2. BecomesAfter(inbox', path, Len(inbox), file)
    BY <1>1, <1>3, <2>1 DEF ObsInv, Heard
  <2>3. QED
    BY <1>1, <1>2, <2>2, AReplyAfter DEF O!Kinds
<1>5. ASSUME NEW i \in DOMAIN inbox', inbox'[i].is = "status", inbox'[i].id = obsCall,
             inbox'[i].wrote # 0
      PROVE  BecomesAfter(inbox', path, i - 1, inbox'[i].wrote)
  <2>1. CASE i \in DOMAIN inbox
    <3>1. BecomesAfter(inbox, path, i - 1, inbox[i].wrote) /\ inbox'[i] = inbox[i]
      BY <1>1, <1>5, <2>1 DEF ObsInv, Heard
    <3>2. i - 1 \in 0..Len(inbox)
      BY <1>1, <2>1
    <3>3. QED
      BY <1>3, <3>1, <3>2
  <2>2. CASE i = Len(inbox) + 1
    <3>1. m.is = "status" /\ m.id = obsCall /\ m.wrote = file /\ obsCall # 0
      BY <1>1, <1>2, <1>5, <2>2
    <3>2. started
      BY <1>2, <3>1 DEF ObsInv, OneKind
    <3>3. BecomesAfter(inbox', path, Len(inbox), file)
      BY <1>1, <1>3, <3>2 DEF ObsInv, Heard, Started
    <3>4. QED
      BY <1>1, <2>2, <3>1, <3>3
  <2>3. QED
    BY <1>1, <1>5, <2>1, <2>2
<1>6. QED
  BY <1>4, <1>5 DEF Heard
\* An event tells of the file.
LEMMA EventIsHeard ==
  ASSUME ObsInv, O!ObsAssumption, NEW ms \in Seq(O!Messages), inbox' = inbox \o ms,
         NEW e \in 1..Len(ms), ms[e].is = "event", ms[e].name = file',
         \A i \in 1..Len(ms) : i > e => ms[i].is # "event",
         \A i \in 1..Len(ms) : ms[i].is # "status",
         Len(ms) = 1 \/ Len(ms) = 2, UNCHANGED <<path, obsCall, started>>
  PROVE  Heard'
<1> DEFINE n == Len(inbox)
<1>1. /\ Len(inbox') = n + Len(ms) /\ n \in Nat /\ DOMAIN inbox' = 1..(n + Len(ms))
      /\ DOMAIN inbox = 1..n
      /\ \A i \in 1..n : inbox'[i] = inbox[i]
      /\ \A i \in 1..Len(ms) : inbox'[n + i] = ms[i]
  BY UnderWay, SaidAfter
<1> HIDE DEF n
<1>2. BecomesAfter(inbox', path, n + e, file')
  <2>1. n + (e - 1) \in Nat /\ (n + (e - 1)) + 1 = n + e /\ inbox'[n + e] = ms[e]
    BY <1>1
  <2>2. BecomesAfter(inbox', path, (n + (e - 1)) + 1, inbox'[(n + (e - 1)) + 1].name)
    BY <2>1, AnEventAfter
  <2>3. QED
    BY <2>1, <2>2
<1>3. BecomesAfter(inbox', path, Len(inbox'), file')
  <2>1. CASE e = Len(ms)
    BY <1>1, <1>2, <2>1
  <2>2. CASE e # Len(ms)
    <3>1. e = 1 /\ Len(ms) = 2 /\ inbox'[(n + e) + 1] = ms[2] /\ ms[2].is # "event"
      <4>1. e = 1 /\ Len(ms) = 2 /\ 2 \in 1..Len(ms) /\ (n + e) + 1 = n + 2
        <5>1. e = 1 /\ Len(ms) = 2
          <6>1. CASE Len(ms) = 1
            BY <2>2, <6>1
          <6>2. CASE Len(ms) = 2
            BY <2>2, <6>2
          <6>3. QED
            BY <6>1, <6>2
        <5>2. QED
          BY <1>1, <5>1
      <4>2. inbox'[n + 2] = ms[2] /\ ms[2].is # "event"
        BY <1>1, <4>1
      <4>3. QED
        BY <4>1, <4>2
    <3>2. n + e \in Nat /\ (n + e) + 1 = Len(inbox')
      BY <1>1, <3>1
    <3>3. QED
      BY <1>2, <3>1, <3>2, AReplyAfter
  <2>3. QED
    BY <2>1, <2>2
<1>4. ASSUME NEW i \in DOMAIN inbox', inbox'[i].is = "status", inbox'[i].id = obsCall,
             inbox'[i].wrote # 0
      PROVE  BecomesAfter(inbox', path, i - 1, inbox'[i].wrote)
  <2>1. i \in DOMAIN inbox /\ inbox'[i] = inbox[i]
    <3>1. CASE i \in 1..n
      BY <1>1, <3>1
    <3>2. CASE i \notin 1..n
      <4>1. i - n \in 1..Len(ms) /\ n + (i - n) = i
        BY <1>1, <3>2
      <4>2. inbox'[i] = ms[i - n]
        BY <1>1, <4>1
      <4>3. QED
        BY <1>4, <4>1, <4>2
    <3>3. QED
      BY <3>1, <3>2
  <2>2. BecomesAfter(inbox, path, i - 1, inbox[i].wrote)
    BY <1>4, <2>1 DEF ObsInv, Heard
  <2>3. i - 1 \in Nat /\ \A l \in 1..(i - 1) : inbox'[l] = inbox[l]
    BY <1>1, <2>1
  <2>4. QED
    BY <2>1, <2>2, <2>3, SameBefore
<1>5. QED
  BY <1>3, <1>4 DEF Heard

LEMMA MessagesTyped ==
  ASSUME ObsInv, O!ObsAssumption
  PROVE  /\ \A f \in O!Names : O!RecordState(f) \in O!Messages
         /\ \A i \in DOMAIN requests, ok \in BOOLEAN, f \in O!Names :
              O!Reply(requests[i], ok, f) \in O!Messages
<1>1. 0 \in O!Names /\ file \in O!Names /\ 0 \in 0..MaxAsked
  BY DEF O!Names, O!ObsAssumption, ObsInv, O!ObsTypeOK
<1>2. ASSUME NEW f \in O!Names PROVE O!RecordState(f) \in O!Messages
  BY <1>1 DEF O!RecordState, O!Messages
<1>3. ASSUME NEW i \in DOMAIN requests, NEW ok \in BOOLEAN, NEW f \in O!Names
      PROVE  O!Reply(requests[i], ok, f) \in O!Messages
  <2>1. requests[i].id \in 0..MaxAsked /\ requests[i].is \in O!Kinds
    BY UnderWay
  <2>2. (IF output = "off" THEN 0 ELSE file) \in O!Names
    BY <1>1
  <2>3. QED
    BY <2>1, <2>2 DEF O!Reply, O!Messages
<1>4. QED
  BY <1>2, <1>3

LEMMA BeginsTyped ==
  ASSUME ObsInv, O!ObsAssumption, O!Begins
  PROVE  output' = "on" /\ file' = file + 1 /\ file' \in O!Names /\ file' # 0 /\ output = "off"
BY DEF O!Begins, ObsInv, O!ObsTypeOK, O!Names, O!ObsAssumption

LEMMA ServeKeeps ==
  ASSUME ObsInv, O!ObsAssumption, O!Serve
  PROVE  ObsInv'
<1> DEFINE r == requests[1]
<1>1. /\ requests # <<>> /\ requests' = Tail(requests) /\ Head(requests) = r
      /\ UNCHANGED <<path, link, obsCall, started, row, asked>> /\ 1 \in DOMAIN requests
  BY UnderWay DEF O!Serve
<1>2. link = "up"
  BY <1>1 DEF ObsInv, Shut
<1>3. r.is \in O!Kinds /\ r.id # 0 /\ file \in O!Names /\ 0 \in O!Names /\ output \in {"off", "on", "closing"}
  BY <1>1, UnderWay DEF ObsInv, O!ObsTypeOK, O!Names, O!ObsAssumption
<1> HIDE DEF r
\* A reply by itself.
<1>4. ASSUME NEW ok \in BOOLEAN, NEW f \in O!Names, r.is = "start" => ~ok,
             r.is \in {"start", "status"} => f = 0, inbox' = inbox \o <<O!Reply(r, ok, f)>>,
             file' = file, output' \in {"off", "on", "closing"}, output' # "off" => file # 0
      PROVE  ObsInv'
  <2> DEFINE m == O!Reply(r, ok, f)
  <2>1. m \in O!Messages
    BY <1>1, MessagesTyped DEF r
  <2>2. m.is = r.is /\ m.id = r.id /\ m.ok = ok /\ m.name = f /\ m.wrote \in {0, file}
    BY DEF O!Reply
  <2> HIDE DEF m
  <2>3. <<m>> \in Seq(O!Messages) /\ Len(<<m>>) = 1 /\ <<m>>[1] = m /\ inbox' = inbox \o <<m>>
    BY <1>4, <2>1 DEF m
  <2>4. Heard'
    BY <1>1, <1>4, <2>1, <2>2, <2>3, ReplyIsHeard DEF r
  <2>5. m.is # "event"
    BY <1>3, <2>2 DEF O!Kinds
  <2>6. \A i \in 1..Len(<<m>>) :
           IF <<m>>[i].is = "event" THEN <<m>>[i].id = 0 /\ <<m>>[i].name # 0
           ELSE /\ requests # <<>> /\ <<m>>[i].is = requests[1].is /\ <<m>>[i].id = requests[1].id
                /\ <<m>>[i].is \in {"start", "status"} => <<m>>[i].name = 0
    BY <1>1, <1>4, <2>2, <2>3, <2>5 DEF r
  <2>7. QED
    BY <1>1, <1>2, <1>3, <1>4, <2>3, <2>4, <2>6, SaidKeeps
\* A recording begins, which the event and the reply tell in either order.
<1>5. ASSUME r.is = "start", O!Begins, NEW e \in {1, 2}, NEW ms \in Seq(O!Messages), Len(ms) = 2,
             ms[e] = O!RecordState(file + 1), ms[3 - e] = O!Reply(r, TRUE, 0), inbox' = inbox \o ms
      PROVE  ObsInv'
  <2>1. output' = "on" /\ file' = file + 1 /\ file' \in O!Names /\ file' # 0
    BY <1>5, BeginsTyped
  <2>2. ms[e].is = "event" /\ ms[e].name = file' /\ ms[e].id = 0
    BY <1>5, <2>1 DEF O!RecordState
  <2>3. ms[3 - e].is = "start" /\ ms[3 - e].id = r.id /\ ms[3 - e].name = 0
    BY <1>5 DEF O!Reply
  <2>4. \A i \in 1..Len(ms) : i = e \/ i = 3 - e
    BY <1>5
  <2>5. Heard'
    <3>1. \A i \in 1..Len(ms) : (i > e => ms[i].is # "event") /\ ms[i].is # "status"
      BY <2>2, <2>3, <2>4
    <3>2. (Len(ms) = 1 \/ Len(ms) = 2) /\ e \in 1..Len(ms)
      BY <1>5
    <3>3. QED
      BY <1>1, <1>5, <2>2, <3>1, <3>2, EventIsHeard
  <2>6. \A i \in 1..Len(ms) :
           IF ms[i].is = "event" THEN ms[i].id = 0 /\ ms[i].name # 0
           ELSE /\ requests # <<>> /\ ms[i].is = requests[1].is /\ ms[i].id = requests[1].id
                /\ ms[i].is \in {"start", "status"} => ms[i].name = 0
    BY <1>1, <1>5, <2>1, <2>2, <2>3, <2>4 DEF r
  <2>7. QED
    BY <1>1, <1>2, <1>5, <2>1, <2>5, <2>6, SaidKeeps
<1>6. \A messages : O!Says(messages) => inbox' = inbox \o messages
  BY <1>2 DEF O!Says
<1>7. CASE r.is = "start" /\ O!Begins /\ \/ O!Says(<<O!RecordState(file + 1), O!Reply(r, TRUE, 0)>>)
                                         \/ O!Says(<<O!Reply(r, TRUE, 0), O!RecordState(file + 1)>>)
  <2>1. O!RecordState(file + 1) \in O!Messages /\ O!Reply(r, TRUE, 0) \in O!Messages
    BY <1>1, <1>3, <1>7, BeginsTyped, MessagesTyped DEF r
  <2>2. CASE O!Says(<<O!RecordState(file + 1), O!Reply(r, TRUE, 0)>>)
    <3> DEFINE a == O!RecordState(file + 1)
               b == O!Reply(r, TRUE, 0)
               ms == <<a, b>>
    <3>1. inbox' = inbox \o ms
      BY <1>6, <2>2
    <3>2. a \in O!Messages /\ b \in O!Messages
      BY <2>1
    <3> HIDE DEF a, b
    <3>3. ms \in Seq(O!Messages) /\ Len(ms) = 2 /\ ms[1] = a /\ ms[3 - 1] = b
      BY <3>2
    <3>4. 1 \in {1, 2}
      OBVIOUS
    <3> HIDE DEF ms
    <3>5. QED
      BY <1>5, <1>7, <3>1, <3>3, <3>4 DEF a, b
  <2>3. CASE O!Says(<<O!Reply(r, TRUE, 0), O!RecordState(file + 1)>>)
    <3> DEFINE a == O!RecordState(file + 1)
               b == O!Reply(r, TRUE, 0)
               ms == <<b, a>>
    <3>1. inbox' = inbox \o ms
      BY <1>6, <2>3
    <3>2. a \in O!Messages /\ b \in O!Messages
      BY <2>1
    <3> HIDE DEF a, b
    <3>3. ms \in Seq(O!Messages) /\ Len(ms) = 2 /\ ms[2] = a /\ ms[3 - 2] = b
      BY <3>2
    <3>4. 2 \in {1, 2}
      OBVIOUS
    <3> HIDE DEF ms
    <3>5. QED
      BY <1>5, <1>7, <3>1, <3>3, <3>4 DEF a, b
  <2>4. QED
    BY <1>7, <2>2, <2>3
<1>8. CASE /\ r.is = "stop" /\ output = "on" /\ output' = "closing"
           /\ O!Says(<<O!Reply(r, TRUE, file)>>) /\ UNCHANGED file
  <2>1. file # 0 /\ file' = file /\ output' \in {"off", "on", "closing"} /\ r.is = "stop"
    BY <1>8 DEF ObsInv
  <2>2. inbox' = inbox \o <<O!Reply(r, TRUE, file)>>
    BY <1>6, <1>8
  <2>3. TRUE \in BOOLEAN
    OBVIOUS
  <2>4. QED
    BY <1>3, <1>4, <2>1, <2>2, <2>3
<1>9. CASE r.is = "status" /\ O!Says(<<O!Reply(r, TRUE, 0)>>) /\ UNCHANGED <<output, file>>
  <2>1. /\ output' \in {"off", "on", "closing"} /\ (output' # "off" => file # 0)
        /\ file' = file /\ r.is = "status"
    BY <1>3, <1>9 DEF ObsInv
  <2>2. inbox' = inbox \o <<O!Reply(r, TRUE, 0)>>
    BY <1>6, <1>9
  <2>3. TRUE \in BOOLEAN
    OBVIOUS
  <2>4. QED
    BY <1>3, <1>4, <2>1, <2>2, <2>3
<1>10. CASE O!Says(<<O!Reply(r, FALSE, 0)>>) /\ UNCHANGED <<output, file>> /\ r.is # "status"
  <2>1. output' \in {"off", "on", "closing"} /\ (output' # "off" => file # 0) /\ file' = file
    BY <1>3, <1>10 DEF ObsInv
  <2>2. inbox' = inbox \o <<O!Reply(r, FALSE, 0)>>
    BY <1>6, <1>10
  <2>3. FALSE \in BOOLEAN
    OBVIOUS
  <2>4. QED
    BY <1>3, <1>4, <2>1, <2>2, <2>3
<1>11. QED
  BY <1>1, <1>7, <1>8, <1>9, <1>10 DEF O!Serve
LEMMA MachineKeeps ==
  ASSUME ObsInv, O!ObsAssumption, O!AtTheMachine
  PROVE  ObsInv'
<1>1. UNCHANGED <<requests, path, link, obsCall, started, row, asked>>
  BY DEF O!AtTheMachine
<1>2. output' \in {"off", "on", "closing"} /\ file' \in O!Names /\ (output' # "off" => file' # 0)
  <2>1. CASE O!Begins
    BY <2>1, BeginsTyped
  <2>2. CASE output = "on" /\ output' = "closing" /\ UNCHANGED file
    BY <2>2 DEF ObsInv, O!ObsTypeOK
  <2>3. CASE output = "closing" /\ output' = "off" /\ UNCHANGED file
    BY <2>3 DEF ObsInv, O!ObsTypeOK
  <2>4. QED
    BY <2>1, <2>2, <2>3 DEF O!AtTheMachine
<1>3. \/ inbox' = inbox /\ file' = file
      \/ link = "up" /\ file' # 0 /\ inbox' = inbox \o <<O!RecordState(file')>>
      \/ link # "up" /\ inbox' = inbox
  <2>1. inbox \o <<>> = inbox
    BY DEF ObsInv, O!ObsTypeOK
  <2>2. CASE O!Begins /\ O!Says(<<O!RecordState(file + 1)>>)
    <3>1. file' = file + 1 /\ file' # 0
      BY <2>2, BeginsTyped
    <3>2. QED
      BY <2>2, <3>1 DEF O!Says
  <2>3. CASE output = "on" /\ O!Says(<<>>) /\ UNCHANGED file
    BY <2>1, <2>3 DEF O!Says
  <2>4. CASE output = "closing" /\ O!Says(<<O!RecordState(file)>>) /\ UNCHANGED file
    BY <2>4 DEF O!Says, ObsInv
  <2>5. QED
    BY <2>2, <2>3, <2>4 DEF O!AtTheMachine
\* Nothing is heard.
<1>4. CASE inbox' = inbox /\ (file' = file \/ link # "up")
  <2>1. Heard'
    <3>1. link # "up" => ~Started
      BY DEF ObsInv, Shut, Started
    <3>2. QED
      BY <1>1, <1>4, <3>1 DEF ObsInv, Heard, Started
  <2>2. O!ObsTypeOK' /\ Shut' /\ Numbered' /\ OneKind'
    BY <1>1, <1>2, <1>4 DEF ObsInv, O!ObsTypeOK, Shut, Numbered, OneKind
  <2>3. QED
    BY <1>1, <1>2, <2>1, <2>2 DEF ObsInv, O!LedgerHasTheFile
<1>5. CASE link = "up" /\ file' # 0 /\ inbox' = inbox \o <<O!RecordState(file')>>
  <2> DEFINE e == O!RecordState(file')
             ms == <<e>>
  <2>1. e \in O!Messages
    BY <1>2, MessagesTyped
  <2>2. e.is = "event" /\ e.id = 0 /\ e.name = file' /\ e.name # 0
    BY <1>5 DEF O!RecordState
  <2>3. inbox' = inbox \o ms
    BY <1>5
  <2> HIDE DEF e
  <2>4. ms \in Seq(O!Messages) /\ Len(ms) = 1 /\ ms[1] = e
    BY <2>1
  <2> HIDE DEF ms
  <2>5. Heard'
    <3>1. 1 \in 1..Len(ms) /\ \A i \in 1..Len(ms) : i = 1
      BY <2>4
    <3>2. \A i \in 1..Len(ms) : (i > 1 => ms[i].is # "event") /\ ms[i].is # "status"
      BY <2>2, <2>4, <3>1
    <3>3. QED
      BY <1>1, <2>2, <2>3, <2>4, <3>1, <3>2, EventIsHeard
  <2>6. \A i \in 1..Len(ms) :
           IF ms[i].is = "event" THEN ms[i].id = 0 /\ ms[i].name # 0
           ELSE /\ requests # <<>> /\ ms[i].is = requests[1].is /\ ms[i].id = requests[1].id
                /\ ms[i].is \in {"start", "status"} => ms[i].name = 0
    BY <2>2, <2>4
  <2>7. QED
    BY <1>1, <1>2, <1>5, <2>3, <2>4, <2>5, <2>6, SaidKeeps
<1>6. QED
  BY <1>3, <1>4, <1>5

LEMMA ReceiveKeeps ==
  ASSUME ObsInv, O!ObsAssumption, O!Receive
  PROVE  ObsInv'
<1> DEFINE m == inbox[1]
           awaited == m.is # "event" /\ m.id = obsCall
<1>1. inbox # <<>> /\ inbox' = Tail(inbox) /\ 1 \in DOMAIN inbox /\ Head(inbox) = m
  BY UnderWay DEF O!Receive
<1>2. /\ path' = IF m.is = "event" \/ awaited THEN O!PathFrom(m) ELSE path
      /\ obsCall' = IF awaited THEN 0 ELSE obsCall
      /\ started' = (started \/ (awaited /\ m.is = "start" /\ m.ok))
      /\ row' = IF awaited /\ m.is = "status" /\ m.wrote # 0
                  THEN [wrote |-> m.wrote, said |-> path] ELSE row
      /\ UNCHANGED <<output, file, requests, link, asked>>
  BY <1>1 DEF O!Receive
<1>3. /\ m \in O!Messages /\ m.name \in O!Names /\ m.wrote \in O!Names /\ m.is \in O!Kinds \cup {"event"}
      /\ m.ok \in BOOLEAN
  BY <1>1, UnderWay DEF O!Messages
<1>4. /\ m.is = "event" => m.id = 0 /\ m.name # 0
      /\ m.is # "event" => m.id # 0
      /\ m.is \in {"start", "status"} => m.name = 0
  BY <1>1 DEF ObsInv, Numbered
<1>5. /\ inbox' \in Seq(O!Messages) /\ Len(inbox') = Len(inbox) - 1 /\ Len(inbox) \in Nat \ {0}
      /\ DOMAIN inbox' = 1..(Len(inbox) - 1) /\ DOMAIN inbox = 1..Len(inbox)
      /\ \A i \in 1..(Len(inbox) - 1) : inbox'[i] = inbox[i + 1] /\ i + 1 \in DOMAIN inbox
  BY <1>1 DEF ObsInv, O!ObsTypeOK
<1>6. /\ m.is = "event" => path' = m.name
      /\ m.is # "event" /\ ~(awaited /\ m.is = "stop") => path' = path
  BY <1>2, <1>3, <1>4 DEF O!PathFrom, O!Kinds
<1>7. path' \in O!Names /\ obsCall' \in 0..MaxAsked /\ started' \in BOOLEAN
  BY <1>2, <1>3 DEF ObsInv, O!ObsTypeOK, O!ObsAssumption, O!PathFrom
<1> HIDE DEF m, awaited
<1>8. awaited => obsCall # 0 /\ m.is # "event" /\ m.id = obsCall
  BY <1>4 DEF awaited
\* A start that was answered is not the answer to a request to stop.
<1>9. Started' => Started /\ ~(awaited /\ m.is = "stop")
  <2>1. CASE awaited
    <3>1. PICK what \in O!Kinds :
            /\ \A i \in DOMAIN inbox : inbox[i].id = obsCall => inbox[i].is = what
            /\ started <=> what = "status"
      BY <1>8, <2>1 DEF ObsInv, OneKind
    <3>2. m.is = what
      BY <1>1, <1>8, <2>1, <3>1 DEF m
    <3>3. ASSUME Started' PROVE started'
      <4>1. \A i \in DOMAIN inbox' : inbox'[i].is = "start" => inbox'[i].id # 0
        BY <1>5 DEF ObsInv, Numbered
      <4>2. obsCall' = 0
        BY <1>2, <2>1
      <4>3. QED
        BY <3>3, <4>1, <4>2 DEF Started
    <3>4. QED
      BY <1>1, <1>2, <1>8, <2>1, <3>1, <3>2, <3>3 DEF Started, m
  <2>2. CASE ~awaited
    BY <1>2, <1>5, <2>2 DEF Started
  <2>3. QED
    BY <2>1, <2>2
<1>10. ASSUME NEW k \in 1..Len(inbox), NEW n, BecomesAfter(inbox, path, k, n),
              ~(awaited /\ m.is = "stop")
       PROVE  BecomesAfter(inbox', path', k - 1, n)
  <2>1. k \in Nat \ {0} /\ \A l \in 1..(k - 1) : inbox'[l] = inbox[l + 1]
    BY <1>5
  <2>2. path' = IF inbox[1].is = "event" THEN inbox[1].name ELSE path
    BY <1>6, <1>10 DEF m
  <2>3. QED
    BY <1>10, <2>1, <2>2, OneReceived
<1>11. Heard'
  <2>1. ASSUME Started' PROVE BecomesAfter(inbox', path', Len(inbox'), file')
    <3>1. BecomesAfter(inbox, path, Len(inbox), file) /\ ~(awaited /\ m.is = "stop")
      BY <1>9, <2>1 DEF ObsInv, Heard
    <3>2. QED
      BY <1>2, <1>5, <1>10, <3>1
  <2>2. ASSUME NEW i \in DOMAIN inbox', inbox'[i].is = "status", inbox'[i].id = obsCall',
               inbox'[i].wrote # 0
        PROVE  BecomesAfter(inbox', path', i - 1, inbox'[i].wrote)
    <3>1. i + 1 \in DOMAIN inbox /\ inbox'[i] = inbox[i + 1] /\ i \in 1..Len(inbox)
      BY <1>5
    <3>2. ~awaited
      <4>1. inbox[i + 1].id # 0
        BY <2>2, <3>1 DEF ObsInv, Numbered
      <4>2. QED
        BY <1>2, <2>2, <3>1, <4>1
    <3>3. BecomesAfter(inbox, path, (i + 1) - 1, inbox[i + 1].wrote)
      BY <1>2, <2>2, <3>1, <3>2 DEF ObsInv, Heard
    <3>4. (i + 1) - 1 = i
      BY <3>1
    <3>5. QED
      BY <1>10, <3>1, <3>2, <3>3, <3>4
  <2>3. QED
    BY <2>1, <2>2 DEF Heard
<1>12. row' \in [wrote : O!Names, said : O!Names] /\ row'.wrote = row'.said
  <2>1. CASE awaited /\ m.is = "status" /\ m.wrote # 0
    <3>1. BecomesAfter(inbox, path, 0, m.wrote)
      BY <1>1, <1>8, <2>1 DEF ObsInv, Heard, m
    <3>2. path = m.wrote
      BY <3>1 DEF BecomesAfter
    <3>3. QED
      BY <1>2, <1>3, <2>1, <3>2
  <2>2. CASE ~(awaited /\ m.is = "status" /\ m.wrote # 0)
    BY <1>2, <2>2 DEF ObsInv, O!ObsTypeOK, O!LedgerHasTheFile
  <2>3. QED
    BY <2>1, <2>2
<1>13. O!ObsTypeOK'
  BY <1>2, <1>5, <1>7, <1>12 DEF ObsInv, O!ObsTypeOK
<1>14. Shut'
  BY <1>2 DEF Shut, O!Receive
<1>15. Numbered'
  <2>1. obsCall' <= asked' /\ \A i \in DOMAIN requests' : requests'[i].id <= asked'
    BY <1>2, UnderWay DEF ObsInv, Numbered
  <2>2. QED
    BY <1>2, <1>5, <2>1 DEF ObsInv, Numbered
<1>16. OneKind'
  <2>1. CASE awaited
    BY <1>2, <2>1 DEF OneKind
  <2>2. CASE ~awaited
    <3>1. obsCall' = obsCall /\ started' = started /\ requests' = requests
      BY <1>2, <2>2 DEF ObsInv, O!ObsTypeOK
    <3>2. QED
      BY <1>5, <3>1 DEF ObsInv, OneKind
  <2>3. QED
    BY <2>1, <2>2
<1>17. QED
  BY <1>2, <1>11, <1>12, <1>13, <1>14, <1>15, <1>16 DEF ObsInv, O!LedgerHasTheFile

LEMMA ObsKept ==
  ASSUME ObsInv, [O!ObsNext]_obsVars, O!ObsAssumption
  PROVE  ObsInv'
BY LinkKeeps, AskingKeeps, ReceiveKeeps, ServeKeeps, MachineKeeps DEF O!ObsNext
-----------------------------------------------------------------------------
(* Encoders: what was verified is so *)

\* Nobody is busy beside a caller that is alone.
AloneIndeed == \A c \in alone : \A o \in Callers \ {c} : ~E!Busy(o)

\* A simulator has faults, and only one that is slow to settle has readings to get wrong.
Faulty ==
  /\ kind # "mock" => fault = "none"
  /\ fault # "slow-to-settle" => settling = 0

Set(c) == E!Pair(box) = <<turn[c].to, turn[c].to>>
Sends(c) == box.onair = <<turn[c].to, turn[c].to>>

\* How far a caller that is alone has got: what it has done is at the encoder, unless that
\* ignores it.
Underway(c) ==
  /\ turn[c].is = "key" => kind = "vmix" /\ box.url = turn[c].to
  /\ turn[c].is = "target?" /\ kind # "mock" => Set(c)
  /\ turn[c].is \in {"target!", "start"} => Set(c)
  /\ turn[c].is = "start" => box.onair = E!Off
  /\ turn[c].is = "onair?" => Sends(c) \/ (fault = "ignores-writes" /\ box.onair = E!Off)
  /\ turn[c].is = "onair!" => Sends(c)

EncInv == E!EncTypeOK /\ AloneIndeed /\ Faulty /\ \A c \in alone : Underway(c)

Turn == [is : {"idle", "url", "key", "start", "stop", "target?", "onair?", "off?",
               "target!", "onair!", "off!"}, to : E!AnyTarget, reads : 0..Reads]

LEMMA EncTyping ==
  ASSUME EncInv, E!EncoderAssumption
  PROVE  /\ turn \in [Callers -> Turn] /\ \A c \in Callers : turn[c] \in Turn
         /\ box \in E!Box /\ mirror \in E!Box /\ Reads \in Nat /\ SlowReads \in Nat
         /\ alone \subseteq Callers /\ settling \in 0..SlowReads
         /\ kind \in {"atem", "encoder", "vmix", "mock"}
BY DEF EncInv, E!EncTypeOK, Turn, E!EncoderAssumption

LEMMA EncHolds == ASSUME E!EncoderAssumption PROVE E!EncInit => EncInv
<1> SUFFICES ASSUME E!EncInit PROVE EncInv
  OBVIOUS
<1>1. box \in E!Box /\ mirror \in E!Box
  BY DEF E!EncInit, E!Box, E!AnyTarget, E!Off
<1>2. E!Resting \in Turn
  BY DEF E!Resting, Turn, E!AnyTarget, E!EncoderAssumption
<1>3. turn \in [Callers -> Turn]
  BY <1>2 DEF E!EncInit
<1>4. settling \in 0..SlowReads /\ called \in 0..EncCalls /\ trouble \in 0..EncTrouble
  BY DEF E!EncInit, E!EncoderAssumption
<1>5. kind \in EncoderKinds /\ fault \in Faults \cup {"none"} /\ memory \in E!AnyTarget
  BY DEF E!EncInit, E!AnyTarget
<1>6. E!EncTypeOK
  BY <1>1, <1>3, <1>4, <1>5 DEF E!EncInit, E!EncTypeOK, Turn
<1>7. Faulty /\ alone = {}
  BY DEF E!EncInit, Faulty
<1>8. QED
  BY <1>6, <1>7 DEF EncInv, AloneIndeed

\* A step of one caller c, that leaves the others where they are.
LEMMA OneActs ==
  ASSUME EncInv, E!EncoderAssumption, NEW c \in Callers, NEW t \in Turn, E!Go(c, t)
  PROVE  /\ turn' \in [Callers -> Turn] /\ turn'[c] = t
         /\ \A o \in Callers \ {c} : turn'[o] = turn[o]
BY EncTyping DEF E!Go

LEMMA CallsKeeps ==
  ASSUME EncInv, E!EncoderAssumption, NEW c \in Callers, NEW what, NEW to \in E!AnyTarget,
         what \in {"url", "start", "stop"}, E!Calls(c, what, to),
         what = "start" => turn[c].is = "target!" /\ to = turn[c].to
  PROVE  EncInv'
<1> DEFINE t == [is |-> what, to |-> to, reads |-> 0]
<1>1. t \in Turn /\ t.is = what /\ t.to = to
  BY EncTyping DEF Turn
<1>2. E!Go(c, t) /\ UNCHANGED <<kind, fault, box, mirror, memory, settling, fresh, trouble>>
  BY DEF E!Calls
<1>3. called' \in 0..EncCalls
  BY DEF E!Calls, EncInv, E!EncTypeOK, E!EncoderAssumption
<1>4. alone' = IF \E o \in Callers \ {c} : E!Busy(o) THEN {}
               ELSE IF what = "url" THEN {c}
               ELSE IF what = "start" /\ box.onair # E!Off THEN {} ELSE alone \cap {c}
  BY DEF E!Calls
<1> HIDE DEF t
<1>5. /\ turn' \in [Callers -> Turn] /\ turn'[c] = t
      /\ \A o \in Callers \ {c} : turn'[o] = turn[o]
  BY <1>1, <1>2, OneActs
<1>6. E!EncTypeOK'
  BY <1>2, <1>3, <1>4, <1>5 DEF EncInv, E!EncTypeOK, Turn
<1>7. AloneIndeed'
  BY <1>4, <1>5 DEF AloneIndeed, E!Busy
<1>8. ASSUME NEW d \in alone' PROVE Underway(d)'
  <2>1. d = c
    BY <1>4, <1>8
  <2>2. turn'[d].is = what /\ turn'[d].to = to /\ box' = box
    BY <1>1, <1>2, <1>5, <2>1
  <2>3. what = "start" => Set(c) /\ box.onair = E!Off
    BY <1>4, <1>8, <2>1 DEF EncInv, Underway
  <2>4. what = "start" => to = turn[c].to
    OBVIOUS
  <2>5. QED
    BY <2>2, <2>3, <2>4 DEF Underway, Set, E!Pair
<1>9. QED
  BY <1>2, <1>6, <1>7, <1>8 DEF EncInv, Faulty

LEMMA VerifyKeeps ==
  ASSUME EncInv, E!EncoderAssumption, NEW c \in Callers, E!Verify(c)
  PROVE  EncInv'
<1> DEFINE t == IF E!Satisfied(c) THEN [turn[c] EXCEPT !.is = E!Verified(@), !.reads = 0]
                ELSE IF turn[c].reads = 1 THEN E!Resting ELSE [turn[c] EXCEPT !.reads = @ - 1]
<1>1. /\ turn[c].is \in {"target?", "onair?", "off?"} /\ turn[c].reads > 0 /\ E!Go(c, t)
      /\ settling' = IF kind = "mock" THEN E!Left(settling) ELSE settling
      /\ UNCHANGED <<kind, fault, box, mirror, memory, fresh, alone, called, trouble>>
  BY DEF E!Verify
<1>2. turn[c] \in Turn
  BY EncTyping
<1>3. t \in Turn
  <2>1. CASE E!Satisfied(c)
    <3>1. E!Verified(turn[c].is) \in {"target!", "onair!", "off!"} /\ 0 \in 0..Reads
      BY EncTyping DEF E!Verified
    <3>2. QED
      BY <1>2, <2>1, <3>1 DEF Turn
  <2>2. CASE ~E!Satisfied(c) /\ turn[c].reads = 1
    BY <2>2, EncTyping DEF Turn, E!Resting, E!AnyTarget
  <2>3. CASE ~E!Satisfied(c) /\ turn[c].reads # 1
    BY <1>1, <1>2, <2>3, EncTyping DEF Turn
  <2>4. QED
    BY <2>1, <2>2, <2>3
<1>4. /\ E!Satisfied(c) => t.is = E!Verified(turn[c].is) /\ t.to = turn[c].to
      /\ ~E!Satisfied(c) => t.is = "idle" \/ (t.is = turn[c].is /\ t.to = turn[c].to)
  BY <1>2 DEF Turn, E!Resting
<1> HIDE DEF t
<1>5. /\ turn' \in [Callers -> Turn] /\ turn'[c] = t
      /\ \A o \in Callers \ {c} : turn'[o] = turn[o]
  BY <1>1, <1>3, OneActs
<1>6. settling' \in 0..SlowReads /\ (settling = 0 => settling' = 0)
  BY <1>1, EncTyping DEF E!Left
<1>7. E!EncTypeOK' /\ Faulty'
  BY <1>1, <1>5, <1>6 DEF EncInv, E!EncTypeOK, Turn, Faulty
<1>8. AloneIndeed'
  <2>1. \A o \in Callers : E!Busy(o)' => E!Busy(o)
    BY <1>1, <1>4, <1>5 DEF E!Busy, E!Verified
  <2>2. QED
    BY <1>1, <2>1 DEF EncInv, AloneIndeed
<1>9. ASSUME NEW d \in alone' PROVE Underway(d)'
  <2>1. Underway(d) /\ d \in Callers
    BY <1>1, EncTyping DEF EncInv
  <2>2. CASE d # c
    BY <1>1, <1>5, <2>1, <2>2 DEF Underway, Set, Sends, E!Pair
  <2>3. CASE d = c /\ ~E!Satisfied(c)
    BY <1>1, <1>4, <1>5, <2>1, <2>3 DEF Underway, Set, Sends, E!Pair
  <2>4. CASE d = c /\ E!Satisfied(c) /\ turn[c].is = "target?"
    <3>1. E!ReportedTarget = <<turn[c].to, turn[c].to>>
      BY <2>4 DEF E!Satisfied
    <3>2. Set(c)
      BY <2>1, <2>4, <3>1 DEF Underway, Set, E!ReportedTarget
    <3>3. turn'[c].is = "target!" /\ turn'[c].to = turn[c].to /\ box' = box
      BY <1>1, <1>4, <1>5, <2>4 DEF E!Verified
    <3>4. QED
      BY <2>4, <3>2, <3>3 DEF Underway, Set, E!Pair
  <2>5. CASE d = c /\ E!Satisfied(c) /\ turn[c].is = "onair?"
    <3>1. E!ReportedActive
      BY <2>5 DEF E!Satisfied
    <3>2. ASSUME fault = "ignores-writes", box.onair = E!Off PROVE FALSE
      BY <3>1, <3>2 DEF EncInv, Faulty, E!ReportedActive, E!Settled
    <3>3. Sends(c)
      BY <2>1, <2>5, <3>2 DEF Underway
    <3>4. turn'[c].is = "onair!" /\ turn'[c].to = turn[c].to /\ box' = box
      BY <1>1, <1>4, <1>5, <2>5 DEF E!Verified
    <3>5. QED
      BY <2>5, <3>3, <3>4 DEF Underway, Sends
  <2>6. CASE d = c /\ E!Satisfied(c) /\ turn[c].is = "off?"
    <3>1. turn'[c].is = "off!"
      BY <1>1, <1>4, <1>5, <2>6 DEF E!Verified
    <3>2. QED
      BY <2>6, <3>1 DEF Underway
  <2>7. QED
    BY <1>1, <2>2, <2>3, <2>4, <2>5, <2>6
<1>10. QED
  BY <1>7, <1>8, <1>9 DEF EncInv
\* Whoever is told something by c, nobody else is alone then.
LEMMA NobodyElse ==
  ASSUME EncInv, NEW c \in Callers, E!Busy(c), NEW d \in alone
  PROVE  d = c
BY DEF EncInv, E!EncTypeOK, AloneIndeed

LEMMA AfterTyped ==
  ASSUME EncInv, E!EncoderAssumption, NEW c \in Callers, E!Commanding(c)
  PROVE  /\ E!After(c) \in E!Box
         /\ turn[c].is = "url" => E!After(c).url = turn[c].to
         /\ turn[c].is = "url" /\ kind # "vmix" => E!After(c).key = turn[c].to
         /\ turn[c].is = "key" => E!After(c).key = turn[c].to /\ E!After(c).url = box.url
         /\ turn[c].is = "start" => E!After(c).onair = IF box.onair = E!Off THEN E!Pair(box) ELSE box.onair
<1>1. turn[c] \in Turn /\ box \in E!Box
  BY EncTyping
<1>2. turn[c].to \in E!AnyTarget /\ "none" \in E!AnyTarget
  BY <1>1 DEF Turn, E!AnyTarget
<1>3. E!Off \in E!AnyTarget \X E!AnyTarget /\ E!Pair(box) \in E!AnyTarget \X E!AnyTarget
  BY <1>1, <1>2 DEF E!Off, E!Pair, E!Box
<1>4. turn[c].is \in {"url", "key", "start", "stop"}
  BY DEF E!Commanding
<1>5. QED
  BY <1>1, <1>2, <1>3, <1>4 DEF E!After, E!Box

LEMMA CommandKeeps ==
  ASSUME EncInv, E!EncoderAssumption, NEW c \in Callers, E!Command(c)
  PROVE  EncInv'
<1>1. /\ E!Commanding(c) /\ E!Go(c, E!Then(c)) /\ fresh' = FALSE
      /\ box' = IF fault = "ignores-writes" /\ turn[c].is # "stop" THEN box ELSE E!After(c)
      /\ memory' = IF turn[c].is = "key" THEN turn[c].to ELSE memory
      /\ settling' = IF fault = "slow-to-settle" /\ turn[c].is = "start" THEN SlowReads ELSE settling
      /\ UNCHANGED <<kind, fault, mirror, alone, called, trouble>>
  BY DEF E!Command
<1>2. turn[c] \in Turn /\ turn[c].is \in {"url", "key", "start", "stop"} /\ turn[c].to \in E!AnyTarget
  BY <1>1, EncTyping DEF E!Commanding, Turn
<1>3. /\ E!Then(c) \in Turn /\ E!Then(c).to = turn[c].to
      /\ turn[c].is = "url" => E!Then(c).is = IF kind = "vmix" THEN "key" ELSE "target?"
      /\ turn[c].is = "key" => E!Then(c).is = "target?"
      /\ turn[c].is = "start" => E!Then(c).is = "onair?"
      /\ turn[c].is = "stop" => E!Then(c).is = "off?"
  <2>1. Reads \in 0..Reads
    BY DEF E!EncoderAssumption
  <2>2. ASSUME NEW what \in {"target?", "onair?", "off?"}
        PROVE  /\ E!Looking(c, what) \in Turn /\ E!Looking(c, what).is = what
               /\ E!Looking(c, what).to = turn[c].to
    BY <1>2, <2>1 DEF E!Looking, Turn
  <2>3. /\ [turn[c] EXCEPT !.is = "key"] \in Turn /\ [turn[c] EXCEPT !.is = "key"].is = "key"
        /\ [turn[c] EXCEPT !.is = "key"].to = turn[c].to
    BY <1>2 DEF Turn
  <2>4. QED
    BY <1>2, <2>2, <2>3 DEF E!Then, E!AfterUrl
<1>4. /\ turn' \in [Callers -> Turn] /\ turn'[c] = E!Then(c)
      /\ \A o \in Callers \ {c} : turn'[o] = turn[o]
  BY <1>1, <1>3, OneActs
<1>5. box' \in E!Box /\ memory' \in E!AnyTarget /\ settling' \in 0..SlowReads
  BY <1>1, <1>2, AfterTyped, EncTyping DEF EncInv, E!EncTypeOK
<1>6. E!EncTypeOK'
  BY <1>1, <1>4, <1>5 DEF EncInv, E!EncTypeOK, Turn
<1>7. Faulty'
  BY <1>1 DEF EncInv, Faulty
<1>8. E!Busy(c)
  BY <1>2 DEF E!Busy
<1>9. AloneIndeed'
  BY <1>1, <1>4, <1>8, NobodyElse DEF EncInv, AloneIndeed, E!Busy
<1>10. ASSUME NEW d \in alone' PROVE Underway(d)'
  <2>1. d = c /\ Underway(c)
    BY <1>1, <1>8, NobodyElse DEF EncInv
  <2>2. turn'[c].is = E!Then(c).is /\ turn'[c].to = turn[c].to
    BY <1>3, <1>4
  <2>3. fault = "ignores-writes" => kind = "mock"
    BY DEF EncInv, Faulty
  <2>4. CASE turn[c].is = "url"
    <3>1. CASE kind = "mock"
      BY <1>1, <1>3, <2>1, <2>2, <2>4, <3>1 DEF Underway
    <3>2. CASE kind # "mock"
      <4>1. box' = E!After(c)
        BY <1>1, <2>3, <3>2
      <4>2. QED
        BY <1>1, <1>3, <2>1, <2>2, <2>4, <3>2, <4>1, AfterTyped DEF Underway, Set, E!Pair
    <3>3. QED
      BY <3>1, <3>2
  <2>5. CASE turn[c].is = "key"
    <3>1. kind = "vmix" /\ box.url = turn[c].to /\ box' = E!After(c)
      BY <1>1, <2>1, <2>3, <2>5 DEF Underway
    <3>2. QED
      BY <1>1, <1>3, <2>1, <2>2, <2>5, <3>1, AfterTyped DEF Underway, Set, E!Pair
  <2>6. CASE turn[c].is = "start"
    <3>1. Set(c) /\ box.onair = E!Off
      BY <2>1, <2>6 DEF Underway
    <3>2. CASE fault = "ignores-writes"
      BY <1>1, <1>3, <2>1, <2>2, <2>6, <3>1, <3>2 DEF Underway
    <3>3. CASE fault # "ignores-writes"
      <4>1. box' = E!After(c)
        BY <1>1, <3>3
      <4>2. box'.onair = <<turn[c].to, turn[c].to>>
        BY <1>1, <2>6, <3>1, <4>1, AfterTyped DEF Set
      <4>3. QED
        BY <1>3, <2>1, <2>2, <2>6, <4>2 DEF Underway, Sends
    <3>4. QED
      BY <3>2, <3>3
  <2>7. CASE turn[c].is = "stop"
    BY <1>3, <2>1, <2>2, <2>7 DEF Underway
  <2>8. QED
    BY <1>2, <2>4, <2>5, <2>6, <2>7
<1>11. QED
  BY <1>6, <1>7, <1>9, <1>10 DEF EncInv

LEMMA CommandFailsKeeps ==
  ASSUME EncInv, E!EncoderAssumption, NEW c \in Callers, E!CommandFails(c)
  PROVE  EncInv'
<1>1. /\ E!Commanding(c) /\ E!Go(c, E!Resting) /\ fresh' = FALSE
      /\ UNCHANGED <<kind, fault, mirror, memory, settling, alone, called>>
  BY DEF E!CommandFails, E!GiveUp
<1>2. box' \in {box, E!After(c)} /\ trouble' \in 0..EncTrouble
  <2>1. CASE kind = "mock"
    BY <2>1 DEF E!CommandFails, EncInv, E!EncTypeOK
  <2>2. CASE kind # "mock"
    BY <2>2 DEF E!CommandFails, E!Trouble, EncInv, E!EncTypeOK, E!EncoderAssumption
  <2>3. QED
    BY <2>1, <2>2
<1>3. E!Resting \in Turn /\ E!Resting.is = "idle"
  BY EncTyping DEF E!Resting, Turn, E!AnyTarget
<1>4. /\ turn' \in [Callers -> Turn] /\ turn'[c] = E!Resting
      /\ \A o \in Callers \ {c} : turn'[o] = turn[o]
  BY <1>1, <1>3, OneActs
<1>5. box' \in E!Box
  BY <1>1, <1>2, AfterTyped, EncTyping
<1>6. E!EncTypeOK' /\ Faulty'
  BY <1>1, <1>2, <1>4, <1>5 DEF EncInv, E!EncTypeOK, Turn, Faulty
<1>7. E!Busy(c)
  BY <1>1 DEF E!Commanding, E!Busy
<1>8. AloneIndeed'
  BY <1>1, <1>4, <1>7, NobodyElse DEF EncInv, AloneIndeed, E!Busy
<1>9. ASSUME NEW d \in alone' PROVE Underway(d)'
  BY <1>1, <1>3, <1>4, <1>7, NobodyElse DEF Underway
<1>10. QED
  BY <1>6, <1>8, <1>9 DEF EncInv

LEMMA EncKept ==
  ASSUME EncInv, [E!EncNext]_encVars, E!EncoderAssumption
  PROVE  EncInv'
<1>1. ASSUME NEW c \in Callers, E!ApplyStreamTarget(c) PROVE EncInv'
  <2>1. PICK t \in Targets : E!Calls(c, "url", t)
    BY <1>1 DEF E!ApplyStreamTarget
  <2>2. t \in E!AnyTarget
    BY DEF E!AnyTarget
  <2>3. QED
    BY <2>1, <2>2, CallsKeeps
<1>2. ASSUME NEW c \in Callers, E!StartStreaming(c) \/ E!StopStreaming(c) PROVE EncInv'
  <2>1. turn[c].to \in E!AnyTarget
    BY EncTyping DEF Turn
  <2>2. \/ turn[c].is = "target!" /\ E!Calls(c, "start", turn[c].to)
        \/ E!Calls(c, "stop", turn[c].to)
    BY <1>2 DEF E!StartStreaming, E!StopStreaming
  <2>3. QED
    BY <2>1, <2>2, CallsKeeps
<1>3. ASSUME NEW c \in Callers, E!Command(c) PROVE EncInv'
  BY <1>3, CommandKeeps
<1>4. ASSUME NEW c \in Callers, E!CommandFails(c) PROVE EncInv'
  BY <1>4, CommandFailsKeeps
<1>5. ASSUME NEW c \in Callers, E!Verify(c) PROVE EncInv'
  BY <1>5, VerifyKeeps
<1>6. CASE E!StateChanged \/ UNCHANGED encVars
  <2>1. UNCHANGED <<kind, fault, box, memory, settling, fresh, turn, alone, called, trouble>>
    BY <1>6 DEF E!StateChanged, encVars
  <2>2. mirror' \in E!Box
    BY <1>6 DEF E!StateChanged, encVars, EncInv, E!EncTypeOK
  <2>3. E!EncTypeOK'
    BY <2>1, <2>2 DEF EncInv, E!EncTypeOK
  <2>4. QED
    BY <2>1, <2>3 DEF EncInv, AloneIndeed, E!Busy, Faulty, Underway, Set, Sends, E!Pair
<1>7. QED
  BY <1>1, <1>2, <1>3, <1>4, <1>5, <1>6 DEF E!EncNext

LEMMA EncAnswers == EncInv => E!VerifiedIsReal
BY DEF EncInv, Underway, Set, Sends, E!VerifiedIsReal

-----------------------------------------------------------------------------
(* YouTube: one broadcast for a run, and what the day's budget can be passed by *)

Posts == [id : 1..MaxMade, of : Runs, stream : 0..MaxMade, private : BOOLEAN]
Calls == [is : Y!Methods \cup {"idle", "prepared", "over"}, sent : BOOLEAN,
          b : 0..MaxMade, s : 0..MaxMade, adopted : BOOLEAN]

Complete == {"stream", "playlist", "prepared"}
Created == Complete \cup {"streams", "newstream", "bind"}

\* What a run has so far fits what the channel announces: its broadcast is its own, is there
\* once it was created and has a stream once it was bound, is not there twice, and is hidden
\* only when the run is over.
Fits(r, d, posts, count) ==
  /\ d.b <= count
  /\ \A c \in posts : c.id = d.b => c.of = r
  /\ d.is = "insert" => \A c \in posts : c.of # r
  /\ d.is \in Created => \E c \in posts : c.of = r /\ c.id = d.b
  /\ d.is \in Complete => \E c \in posts : c.of = r /\ c.id = d.b /\ c.stream # 0
  /\ d.is = "bind" => d.s # 0
  /\ d.is # "over" => \A c \in posts : c.of = r => ~c.private

Announces(posts, count) ==
  /\ \A c \in posts : c.id <= count
  /\ \A b, c \in posts : b.of = c.of \/ b.id = c.id => b = c

\* Every call that was sent has been counted when it was let through, but not entered.
Sent == {r \in Runs : preparing[r].sent}
InBudget == used + 2 * Cardinality(Sent) <= Limit + 2 * (Cardinality(Runs) - 1)

TubeInv ==
  /\ Y!TubeTypeOK /\ Announces(channel, made)
  /\ \A r \in Runs : Fits(r, preparing[r], channel, made)
  /\ InBudget

LEMMA RunsCounted ==
  ASSUME Y!YouTubeAssumption
  PROVE  /\ IsFiniteSet(Runs) /\ Cardinality(Runs) \in Nat \ {0}
         /\ Limit \in Nat /\ Reserve \in Nat /\ 2 <= Reserve /\ Reserve <= Limit
         /\ MaxMade \in Nat /\ MaxMishaps \in Nat /\ MaxDays \in Nat
<1>1. IsFiniteSet(Runs) /\ Runs # {}
  BY DEF Y!YouTubeAssumption, Y!IsFiniteSet, IsFiniteSet
<1>2. Cardinality(Runs) \in Nat \ {0}
  BY <1>1, FS_CardinalityType, FS_EmptySet
<1>3. QED
  BY <1>1, <1>2 DEF Y!YouTubeAssumption

LEMMA SentCounted ==
  ASSUME Y!YouTubeAssumption
  PROVE  /\ IsFiniteSet(Sent) /\ Cardinality(Sent) \in Nat
         /\ Cardinality(Sent) <= Cardinality(Runs)
<1>1. Sent \subseteq Runs
  BY DEF Sent
<1>2. QED
  BY <1>1, RunsCounted, FS_Subset, FS_CardinalityType

LEMMA TubeHolds == ASSUME Y!YouTubeAssumption PROVE Y!TubeInit => TubeInv
<1> SUFFICES ASSUME Y!TubeInit PROVE TubeInv
  OBVIOUS
<1>1. /\ used = 0 /\ channel = {} /\ streams = 0 /\ made = 0 /\ mishaps = 0 /\ days = 0
      /\ preparing = [r \in Runs |-> Y!Idle]
  BY DEF Y!TubeInit
<1>2. 0 \in 0..MaxMade /\ 0 \in 0..MaxMishaps /\ 0 \in 0..MaxDays
  BY RunsCounted
<1>3. Y!Idle \in Calls
  BY <1>2 DEF Y!Idle, Calls
<1>4. preparing \in [Runs -> Calls]
  BY <1>1, <1>3
<1>5. Y!TubeTypeOK
  BY <1>1, <1>2, <1>4 DEF Y!TubeTypeOK, Calls
<1>6. Announces(channel, made)
  BY <1>1 DEF Announces
<1>7. ASSUME NEW r \in Runs PROVE Fits(r, preparing[r], channel, made)
  BY <1>1 DEF Fits, Y!Idle, Created, Complete
<1>8. InBudget
  <2>1. Sent = {}
    BY <1>1 DEF Sent, Y!Idle
  <2>2. Cardinality(Sent) = 0
    BY <2>1, FS_EmptySet
  <2>3. QED
    BY <1>1, <2>2, RunsCounted DEF InBudget
<1>9. QED
  BY <1>5, <1>6, <1>7, <1>8 DEF TubeInv

LEMMA TubeTyping ==
  ASSUME TubeInv, Y!YouTubeAssumption
  PROVE  /\ preparing \in [Runs -> Calls] /\ channel \subseteq Posts /\ used \in Nat
         /\ streams \in Nat /\ streams <= MaxMade /\ made \in Nat /\ made <= MaxMade
         /\ \A r \in Runs : preparing[r].b \in Nat
         /\ \A c \in channel : c.id \in Nat \ {0} /\ c.stream \in Nat
<1>1. /\ preparing \in [Runs -> Calls] /\ channel \subseteq Posts /\ used \in Nat
      /\ streams \in 0..MaxMade /\ made \in 0..MaxMade
  BY DEF TubeInv, Y!TubeTypeOK, Calls, Posts
<1>2. \A r \in Runs : preparing[r].b \in Nat
  BY <1>1 DEF Calls
<1>3. \A c \in channel : c.id \in Nat \ {0} /\ c.stream \in Nat
  BY <1>1 DEF Posts
<1>4. QED
  BY <1>1, <1>2, <1>3, RunsCounted

\* Spending and sending, of one run: what it has sent is counted once.
LEMMA SentBy ==
  ASSUME TubeInv, Y!YouTubeAssumption, NEW r \in Runs, NEW next \in Calls,
         preparing' = [preparing EXCEPT ![r] = next]
  PROVE  /\ ~next.sent => Sent' = Sent \ {r}
         /\ next.sent => Sent' = Sent \cup {r}
         /\ Cardinality(Sent)' = IF next.sent
              THEN Cardinality(Sent) + (IF preparing[r].sent THEN 0 ELSE 1)
              ELSE Cardinality(Sent) - (IF preparing[r].sent THEN 1 ELSE 0)
<1>1. /\ preparing'[r] = next
      /\ \A o \in Runs \ {r} : preparing'[o] = preparing[o]
  BY TubeTyping
<1>2. ~next.sent => Sent' = Sent \ {r}
  BY <1>1 DEF Sent
<1>3. next.sent => Sent' = Sent \cup {r}
  BY <1>1 DEF Sent
<1>4. r \in Sent <=> preparing[r].sent
  BY DEF Sent
<1>5. IsFiniteSet(Sent) /\ Cardinality(Sent) \in Nat
  BY SentCounted
<1>6. next.sent \in BOOLEAN /\ preparing[r].sent \in BOOLEAN
  BY TubeTyping DEF Calls
<1>7. /\ Cardinality(Sent \ {r}) = IF r \in Sent THEN Cardinality(Sent) - 1 ELSE Cardinality(Sent)
      /\ Cardinality(Sent \cup {r}) = IF r \in Sent THEN Cardinality(Sent) ELSE Cardinality(Sent) + 1
  BY <1>5, FS_AddElement, FS_RemoveElement
<1>8. Cardinality(Sent)' = Cardinality(Sent')
  OBVIOUS
<1>9. CASE next.sent
  <2>1. Cardinality(Sent)' = Cardinality(Sent \cup {r})
    BY <1>3, <1>8, <1>9
  <2>2. CASE preparing[r].sent
    BY <1>2, <1>3, <1>4, <1>5, <1>7, <1>9, <2>1, <2>2
  <2>3. CASE ~preparing[r].sent
    BY <1>2, <1>3, <1>4, <1>5, <1>7, <1>9, <2>1, <2>3
  <2>4. QED
    BY <2>2, <2>3
<1>10. CASE ~next.sent
  <2>1. Cardinality(Sent)' = Cardinality(Sent \ {r})
    BY <1>2, <1>8, <1>10
  <2>2. CASE preparing[r].sent
    BY <1>2, <1>3, <1>4, <1>7, <1>10, <2>1, <2>2
  <2>3. CASE ~preparing[r].sent
    BY <1>2, <1>3, <1>4, <1>5, <1>7, <1>10, <2>1, <2>3
  <2>4. QED
    BY <2>2, <2>3
<1>11. QED
  BY <1>9, <1>10
LEMMA CostsTyped == Y!Cost("poll") = 1 /\ \A m \in Y!Methods : Y!Cost(m) \in 1..2
BY DEF Y!Cost

\* A call that is not counted for the run any more may enter what it costs.
LEMMA BudgetKept ==
  ASSUME TubeInv, Y!YouTubeAssumption, NEW r \in Runs, NEW next \in Calls, ~next.sent,
         preparing' = [preparing EXCEPT ![r] = next], NEW n \in 0..2, used' = used + n,
         n = 0 \/ preparing[r].sent
  PROVE  InBudget' /\ used' \in Nat
<1>1. Cardinality(Sent)' = Cardinality(Sent) - (IF preparing[r].sent THEN 1 ELSE 0)
  BY SentBy
<1>2. Cardinality(Sent) \in Nat /\ used \in Nat /\ Limit \in Nat /\ Cardinality(Runs) \in Nat
  BY SentCounted, RunsCounted, TubeTyping
<1>3. used + 2 * Cardinality(Sent) <= Limit + 2 * (Cardinality(Runs) - 1)
  BY DEF TubeInv, InBudget
<1>4. CASE preparing[r].sent
  <2>1. Cardinality(Sent)' = Cardinality(Sent) - 1
    BY <1>1, <1>4
  <2>2. used' + 2 * Cardinality(Sent)' <= Limit + 2 * (Cardinality(Runs) - 1)
    BY <1>2, <1>3, <2>1
  <2>3. QED
    BY <1>2, <2>2 DEF InBudget
<1>5. CASE ~preparing[r].sent
  <2>1. Cardinality(Sent)' = Cardinality(Sent)
    BY <1>1, <1>2, <1>5
  <2>2. used' + 2 * Cardinality(Sent)' <= Limit + 2 * (Cardinality(Runs) - 1)
    BY <1>2, <1>3, <1>5, <2>1
  <2>3. QED
    BY <1>2, <2>2 DEF InBudget
<1>6. QED
  BY <1>4, <1>5

-----------------------------------------------------------------------------
\* A run that goes on, while the channel stays as it is.
LEMMA RunGoesOn ==
  ASSUME TubeInv, NEW r \in Runs, NEW next \in Calls,
         preparing' = [preparing EXCEPT ![r] = next], UNCHANGED <<channel, made>>,
         Fits(r, next, channel, made)
  PROVE  Announces(channel, made)' /\ \A o \in Runs : Fits(o, preparing[o], channel, made)'
<1>1. /\ preparing'[r] = next /\ channel' = channel /\ made' = made
      /\ \A o \in Runs \ {r} : preparing'[o] = preparing[o]
  BY DEF TubeInv, Y!TubeTypeOK
<1>2. Announces(channel, made)'
  BY <1>1 DEF TubeInv, Announces
<1>3. ASSUME NEW o \in Runs PROVE Fits(o, preparing'[o], channel, made)
  BY <1>1 DEF TubeInv
<1>4. QED
  BY <1>1, <1>2, <1>3 DEF Fits

\* What is typed and counted, put together.
LEMMA Together ==
  ASSUME TubeInv, NEW r \in Runs, NEW next \in Calls,
         preparing' = [preparing EXCEPT ![r] = next],
         channel' \subseteq Posts, made' \in 0..MaxMade, streams' \in 0..MaxMade,
         mishaps' \in 0..MaxMishaps, UNCHANGED days, InBudget', used' \in Nat,
         Announces(channel, made)', \A o \in Runs : Fits(o, preparing[o], channel, made)'
  PROVE  TubeInv'
<1>1. preparing' \in [Runs -> Calls]
  BY DEF TubeInv, Y!TubeTypeOK, Calls
<1>2. Y!TubeTypeOK'
  BY <1>1 DEF TubeInv, Y!TubeTypeOK, Calls, Posts
<1>3. QED
  BY <1>2 DEF TubeInv

\* A step of a run that the channel takes no notice of, and that enters what it has cost.
LEMMA QuietStep ==
  ASSUME TubeInv, Y!YouTubeAssumption, NEW r \in Runs, NEW next \in Calls, ~next.sent,
         preparing' = [preparing EXCEPT ![r] = next], NEW n \in 0..2, used' = used + n,
         n = 0 \/ preparing[r].sent, UNCHANGED <<channel, made, streams, days>>,
         mishaps' \in 0..MaxMishaps, Fits(r, next, channel, made)
  PROVE  TubeInv'
<1>1. InBudget' /\ used' \in Nat
  BY BudgetKept
<1>2. Announces(channel, made)' /\ \A o \in Runs : Fits(o, preparing[o], channel, made)'
  BY RunGoesOn
<1>3. channel' \subseteq Posts /\ made' \in 0..MaxMade /\ streams' \in 0..MaxMade /\ UNCHANGED days
  BY DEF TubeInv, Y!TubeTypeOK, Posts
<1>4. QED
  BY <1>1, <1>2, <1>3, Together

LEMMA GoTyped ==
  ASSUME TubeInv, NEW r \in Runs, NEW what \in Y!Methods \cup {"idle", "prepared", "over"}
  PROVE  /\ Y!Go(r, what) \in Calls /\ Y!Go(r, what).is = what /\ ~Y!Go(r, what).sent
         /\ Y!Go(r, what).b = preparing[r].b /\ Y!Go(r, what).s = preparing[r].s
<1>1. preparing[r] \in Calls
  BY DEF TubeInv, Y!TubeTypeOK, Calls
<1>2. QED
  BY <1>1 DEF Y!Go, Calls

LEMMA IdleFits ==
  ASSUME TubeInv, Y!YouTubeAssumption, NEW r \in Runs, preparing[r].is # "over"
  PROVE  Y!Idle \in Calls /\ ~Y!Idle.sent /\ Fits(r, Y!Idle, channel, made)
<1>1. Y!Idle \in Calls /\ ~Y!Idle.sent
  BY RunsCounted DEF Y!Idle, Calls
<1>2. \A c \in channel : c.id # 0 /\ (c.of = r => ~c.private)
  BY TubeTyping DEF TubeInv, Fits
<1>3. 0 <= made
  BY TubeTyping
<1>4. QED
  BY <1>1, <1>2, <1>3 DEF Fits, Y!Idle, Created, Complete
-----------------------------------------------------------------------------
\* What a call does to the channel, as the runs see it: the others as before, and its own as
\* an answer to it says.
OthersFit(r) ==
  /\ channel' \subseteq Posts /\ made' \in 0..MaxMade /\ streams' \in 0..MaxMade
  /\ Announces(channel', made')
  /\ \A o \in Runs \ {r} : Fits(o, preparing[o], channel', made')

Did(r) ==
  /\ made <= made'
  /\ \A c \in channel' : c.id = preparing[r].b => c.of = r
  /\ preparing[r].is # "private" => \A c \in channel' : c.of = r => ~c.private
  /\ preparing[r].is = "insert" =>
       /\ made' = made + 1 /\ \E c \in channel' : c.of = r /\ c.id = made'
       /\ \A c \in channel' : c.id = made' => c.of = r
  /\ preparing[r].is = "bind" =>
       \E c \in channel' : c.of = r /\ c.id = preparing[r].b /\ c.stream # 0
  /\ preparing[r].is \in {"list", "stream", "streams", "newstream", "playlist"} =>
       channel' = channel /\ made' = made

LEMMA InsertDoes ==
  ASSUME TubeInv, Y!YouTubeAssumption, NEW r \in Runs, Y!Does(r), preparing[r].is = "insert"
  PROVE  OthersFit(r) /\ Did(r)
<1> DEFINE post == [id |-> made + 1, of |-> r, stream |-> 0, private |-> FALSE]
<1>1. /\ made < MaxMade /\ made' = made + 1 /\ streams' = streams
      /\ channel' = channel \cup {post}
  BY DEF Y!Does
<1>2. 0 \in 0..MaxMade /\ made + 1 \in 1..MaxMade /\ made' \in 0..MaxMade
  BY <1>1, TubeTyping, RunsCounted
<1>3. post \in Posts /\ post.id = made + 1 /\ post.of = r /\ ~post.private
  BY <1>2 DEF Posts
<1> HIDE DEF post
<1>4. \A c \in channel : c.of # r /\ c.id <= made
  BY DEF TubeInv, Fits, Announces
<1>5. \A o \in Runs : preparing[o].b <= made
  BY DEF TubeInv, Fits
<1>6. /\ made \in Nat /\ \A c \in channel : c.id \in Nat
      /\ \A o \in Runs : preparing[o].b \in Nat
  BY TubeTyping
<1>7. Announces(channel', made')
  <2>1. \A c \in channel' : c.id <= made'
    BY <1>1, <1>3, <1>4, <1>6
  <2>2. ASSUME NEW b \in channel', NEW c \in channel', b.of = c.of \/ b.id = c.id PROVE b = c
    <3>1. CASE b \in channel /\ c \in channel
      BY <2>2, <3>1 DEF TubeInv, Announces
    <3>2. CASE b = post \/ c = post
      BY <1>1, <1>3, <1>4, <1>6, <2>2, <3>2
    <3>3. QED
      BY <1>1, <3>1, <3>2
  <2>3. QED
    BY <2>1, <2>2 DEF Announces
<1>8. ASSUME NEW o \in Runs \ {r} PROVE Fits(o, preparing[o], channel', made')
  <2>1. Fits(o, preparing[o], channel, made)
    BY DEF TubeInv
  <2>2. preparing[o].b <= made' /\ \A c \in channel' : c.id = preparing[o].b => c.of = o
    BY <1>1, <1>3, <1>5, <1>6, <2>1 DEF Fits
  <2>3. \A c \in channel' : c.of = o => c \in channel
    BY <1>1, <1>3
  <2>4. QED
    BY <1>1, <2>1, <2>2, <2>3 DEF Fits
<1>9. channel' \subseteq Posts /\ streams' \in 0..MaxMade
  BY <1>1, <1>3, TubeTyping
<1>10. Did(r)
  <2>1. \A c \in channel' : c.id = preparing[r].b => c.of = r
    BY <1>1, <1>3, <1>5, <1>6 DEF TubeInv, Fits
  <2>2. \A c \in channel' : c.of = r => ~c.private
    BY <1>1, <1>3, <1>4
  <2>3. /\ \E c \in channel' : c.of = r /\ c.id = made'
        /\ \A c \in channel' : c.id = made' => c.of = r
    BY <1>1, <1>3, <1>4, <1>6
  <2>4. QED
    BY <1>1, <1>6, <2>1, <2>2, <2>3 DEF Did
<1>11. QED
  BY <1>2, <1>7, <1>8, <1>9, <1>10 DEF OthersFit

\* A broadcast is given a stream, or hidden: it stays whose it is.
LEMMA ChangeDoes ==
  ASSUME TubeInv, Y!YouTubeAssumption, NEW r \in Runs, Y!Does(r),
         preparing[r].is \in {"bind", "private"}
  PROVE  OthersFit(r) /\ Did(r)
<1> DEFINE Now(c) == IF c.id # preparing[r].b THEN c
                     ELSE IF preparing[r].is = "bind" THEN [c EXCEPT !.stream = preparing[r].s]
                     ELSE [c EXCEPT !.private = TRUE]
<1>1. made' = made /\ streams' = streams /\ channel' = {Now(c) : c \in channel}
  <2> DEFINE Case(c) ==
        CASE c.id = preparing[r].b /\ preparing[r].is = "bind" ->
               [c EXCEPT !.stream = preparing[r].s]
          [] c.id = preparing[r].b /\ preparing[r].is = "private" -> [c EXCEPT !.private = TRUE]
          [] OTHER -> c
  <2>1. made' = made /\ streams' = streams
    BY DEF Y!Does
  <2>2. channel' = {Case(c) : c \in channel}
    BY DEF Y!Does
  <2>3. ASSUME NEW c \in channel PROVE Case(c) = Now(c)
    <3>1. CASE c.id # preparing[r].b
      BY <3>1
    <3>2. CASE c.id = preparing[r].b /\ preparing[r].is = "bind"
      BY <3>2
    <3>3. CASE c.id = preparing[r].b /\ preparing[r].is = "private"
      BY <3>3
    <3>4. QED
      BY <3>1, <3>2, <3>3
  <2> HIDE DEF Case, Now
  <2>4. QED
    BY <2>1, <2>2, <2>3
<1>2. preparing[r].s \in 0..MaxMade
  BY TubeTyping DEF Calls
<1>3. ASSUME NEW c \in channel
      PROVE  /\ Now(c) \in channel' /\ Now(c) \in Posts /\ Now(c).id = c.id /\ Now(c).of = c.of
             /\ c.of # r => Now(c) = c
             /\ preparing[r].is = "bind" => Now(c).private = c.private
             /\ preparing[r].is = "bind" /\ c.id = preparing[r].b => Now(c).stream = preparing[r].s
  <2>1. c \in Posts
    BY TubeTyping
  <2>2. c.id = preparing[r].b => c.of = r
    BY DEF TubeInv, Fits
  <2>3. QED
    BY <1>1, <1>2, <2>1, <2>2 DEF Posts
<1>4. \A d \in channel' : \E c \in channel : d = Now(c)
  BY <1>1
<1> HIDE DEF Now
<1>5. channel' \subseteq Posts
  BY <1>3, <1>4
<1>6. Announces(channel', made')
  <2>1. ASSUME NEW d \in channel' PROVE d.id <= made'
    <3>1. PICK c \in channel : d = Now(c)
      BY <1>4
    <3>2. QED
      BY <1>1, <1>3, <3>1 DEF TubeInv, Announces
  <2>2. ASSUME NEW d \in channel', NEW e \in channel', d.of = e.of \/ d.id = e.id PROVE d = e
    <3>1. PICK c \in channel : d = Now(c)
      BY <1>4
    <3>2. PICK b \in channel : e = Now(b)
      BY <1>4
    <3>3. c.of = b.of \/ c.id = b.id
      BY <1>3, <2>2, <3>1, <3>2
    <3>4. QED
      BY <3>1, <3>2, <3>3 DEF TubeInv, Announces
  <2>3. QED
    BY <2>1, <2>2 DEF Announces
<1>7. ASSUME NEW o \in Runs PROVE \A d \in channel' : d.id = preparing[o].b => d.of = o
  BY <1>3, <1>4 DEF TubeInv, Fits
<1>8. ASSUME NEW o \in Runs \ {r} PROVE Fits(o, preparing[o], channel', made')
  <2>1. Fits(o, preparing[o], channel, made)
    BY DEF TubeInv
  <2>2. \A d \in channel' : d.of = o => d \in channel
    BY <1>3, <1>4
  <2>3. \A c \in channel : c.of = o => c \in channel'
    BY <1>3
  <2>4. QED
    BY <1>1, <1>7, <2>1, <2>2, <2>3 DEF Fits
<1>9. ASSUME preparing[r].is = "bind" PROVE Did(r)
  <2>1. PICK c \in channel : c.of = r /\ c.id = preparing[r].b
    BY <1>9 DEF TubeInv, Fits, Created
  <2>2. preparing[r].s # 0
    BY <1>9 DEF TubeInv, Fits
  <2>3. Now(c) \in channel' /\ Now(c).of = r /\ Now(c).id = preparing[r].b /\ Now(c).stream # 0
    BY <1>3, <1>9, <2>1, <2>2
  <2>4. ASSUME NEW d \in channel', d.of = r PROVE ~d.private
    <3>1. PICK b \in channel : d = Now(b)
      BY <1>4
    <3>2. b.of = r /\ d.private = b.private
      BY <1>3, <1>9, <2>4, <3>1
    <3>3. QED
      BY <1>9, <3>2 DEF TubeInv, Fits
  <2>5. made <= made'
    BY <1>1, TubeTyping
  <2>6. QED
    BY <1>7, <1>9, <2>3, <2>4, <2>5 DEF Did
<1>10. ASSUME preparing[r].is = "private" PROVE Did(r)
  <2>1. made <= made'
    BY <1>1, TubeTyping
  <2>2. QED
    BY <1>7, <1>10, <2>1 DEF Did
<1>11. made' \in 0..MaxMade /\ streams' \in 0..MaxMade
  BY <1>1, TubeTyping, RunsCounted
<1>12. QED
  BY <1>5, <1>6, <1>8, <1>9, <1>10, <1>11 DEF OthersFit

\* A broadcast is taken off the channel.
LEMMA RemovalDoes ==
  ASSUME TubeInv, Y!YouTubeAssumption, NEW r \in Runs, Y!Does(r),
         preparing[r].is \in {"delete", "transition"}
  PROVE  OthersFit(r) /\ Did(r)
<1>1. made' = made /\ streams' = streams /\ channel' = {c \in channel : c.id # preparing[r].b}
  BY DEF Y!Does
<1>2. Announces(channel', made')
  BY <1>1 DEF TubeInv, Announces
<1>3. \A c \in channel : c.of # r => c \in channel'
  BY <1>1 DEF TubeInv, Fits
<1>4. ASSUME NEW o \in Runs \ {r} PROVE Fits(o, preparing[o], channel', made')
  <2>1. Fits(o, preparing[o], channel, made)
    BY DEF TubeInv
  <2>2. QED
    BY <1>1, <1>3, <2>1 DEF Fits
<1>5. Did(r)
  <2>1. Fits(r, preparing[r], channel, made)
    BY DEF TubeInv
  <2>2. made <= made'
    BY <1>1, TubeTyping
  <2>3. QED
    BY <1>1, <2>1, <2>2 DEF Did, Fits
<1>6. channel' \subseteq Posts /\ made' \in 0..MaxMade /\ streams' \in 0..MaxMade
  BY <1>1, TubeTyping, RunsCounted
<1>7. QED
  BY <1>2, <1>4, <1>5, <1>6 DEF OthersFit

\* What is only read, or is made aside of the channel.
LEMMA ReadingDoes ==
  ASSUME TubeInv, Y!YouTubeAssumption, NEW r \in Runs, Y!Does(r),
         preparing[r].is \in {"list", "stream", "streams", "newstream", "playlist"}
  PROVE  OthersFit(r) /\ Did(r)
<1>1. /\ made' = made
      /\ IF preparing[r].is = "newstream" THEN streams < MaxMade /\ streams' = streams + 1
         ELSE streams' = streams
  BY DEF Y!Does
<1>2. channel' = channel
  <2>1. channel' = {IF c.id # preparing[r].b THEN c ELSE c : c \in channel}
    BY DEF Y!Does
  <2>2. QED
    BY <2>1
<1>3. Announces(channel', made') /\ \A o \in Runs : Fits(o, preparing[o], channel', made')
  BY <1>1, <1>2 DEF TubeInv
<1>4. Did(r)
  <2>1. made <= made'
    BY <1>1, TubeTyping
  <2>2. QED
    BY <1>1, <1>2, <1>3, <2>1 DEF Did, Fits
<1>5. channel' \subseteq Posts /\ made' \in 0..MaxMade /\ streams' \in 0..MaxMade
  BY <1>1, <1>2, TubeTyping, RunsCounted
<1>6. QED
  BY <1>3, <1>4, <1>5 DEF OthersFit

LEMMA CallDoes ==
  ASSUME TubeInv, Y!YouTubeAssumption, NEW r \in Runs, Y!Does(r), preparing[r].is \in Y!Methods
  PROVE  OthersFit(r) /\ Did(r)
<1>1. \/ preparing[r].is = "insert" \/ preparing[r].is \in {"bind", "private"}
      \/ preparing[r].is \in {"delete", "transition"}
      \/ preparing[r].is \in {"list", "stream", "streams", "newstream", "playlist"}
  BY DEF Y!Methods, Y!Making
<1>2. QED
  BY <1>1, InsertDoes, ChangeDoes, RemovalDoes, ReadingDoes
-----------------------------------------------------------------------------
\* An answer leaves a run with what fits the channel as the call has left it.
LEMMA FoundFits ==
  ASSUME TubeInv, Y!YouTubeAssumption, NEW r \in Runs, preparing[r].is = "list",
         NEW next \in Y!Found(r)
  PROVE  next \in Calls /\ ~next.sent /\ Fits(r, next, channel, made)
<1>1. \A c \in channel : c.of = r => ~c.private
  BY DEF TubeInv, Fits
<1>2. CASE Y!Upcoming(r) = {}
  <2>1. next = Y!Go(r, "insert")
    BY <1>2 DEF Y!Found
  <2>2. "insert" \in Y!Methods
    BY DEF Y!Methods, Y!Making
  <2>3. \A c \in channel : c.of # r
    BY <1>1, <1>2 DEF Y!Upcoming
  <2>4. Fits(r, preparing[r], channel, made)
    BY DEF TubeInv
  <2>5. QED
    BY <1>1, <2>1, <2>2, <2>3, <2>4, GoTyped DEF Fits, Created, Complete
<1>3. CASE Y!Upcoming(r) # {}
  <2>1. PICK c \in channel : /\ c.of = r
                             /\ next = [Y!Go(r, Y!Adopting(r, c)) EXCEPT !.b = c.id, !.adopted = TRUE]
    BY <1>3 DEF Y!Found, Y!Upcoming
  <2> DEFINE what == Y!Adopting(r, c)
  <2>2. /\ what \in {"stream", "streams", "newstream"} /\ what \in Y!Methods
        /\ what = "stream" => c.stream # 0
    BY DEF Y!Adopting, Y!Stream, Y!Methods, Y!Making
  <2>3. Y!Go(r, what) \in Calls /\ Y!Go(r, what).is = what /\ ~Y!Go(r, what).sent
    BY <2>2, GoTyped
  <2>4. c.id \in 0..MaxMade /\ c.id <= made
    BY RunsCounted, TubeTyping DEF TubeInv, Announces, Posts
  <2>5. next \in Calls /\ next.is = what /\ ~next.sent /\ next.b = c.id
    BY <2>1, <2>3, <2>4 DEF Calls
  <2>6. \A d \in channel : d.id = c.id => d = c
    BY DEF TubeInv, Announces
  <2> HIDE DEF what
  <2>7. QED
    BY <1>1, <2>1, <2>2, <2>4, <2>5, <2>6 DEF Fits, Created, Complete
<1>4. QED
  BY <1>2, <1>3

LEMMA AnswerFits ==
  ASSUME TubeInv, Y!YouTubeAssumption, NEW r \in Runs, Y!Does(r), preparing[r].is \in Y!Methods,
         NEW next \in Y!Then(r)
  PROVE  next \in Calls /\ ~next.sent /\ Fits(r, next, channel', made')
<1>1. OthersFit(r) /\ Did(r)
  BY CallDoes
<1>2. Fits(r, preparing[r], channel, made)
  BY DEF TubeInv
<1>3. preparing[r].b <= made'
  BY <1>1, <1>2, TubeTyping DEF Did, Fits, OthersFit
<1>4. \A what \in Y!Methods \cup {"prepared", "over"} :
         /\ Y!Go(r, what) \in Calls /\ Y!Go(r, what).is = what /\ ~Y!Go(r, what).sent
         /\ Y!Go(r, what).b = preparing[r].b /\ Y!Go(r, what).s = preparing[r].s
  BY GoTyped
<1>5. Y!Stream \in {"streams", "newstream"} /\ {"streams", "newstream", "bind", "playlist"} \subseteq Y!Methods
  BY DEF Y!Stream, Y!Methods, Y!Making
<1>6. CASE preparing[r].is = "list"
  <2>1. channel' = channel /\ made' = made
    BY <1>1, <1>6 DEF Did
  <2>2. next \in Y!Found(r)
    BY <1>6 DEF Y!Then
  <2>3. QED
    BY <1>6, <2>1, <2>2, FoundFits
<1>7. CASE preparing[r].is = "insert"
  <2>1. next = [Y!Go(r, Y!Stream) EXCEPT !.b = made + 1]
    BY <1>7 DEF Y!Then
  <2>2. made' = made + 1 /\ made' \in 0..MaxMade
    BY <1>1, <1>7 DEF Did, OthersFit
  <2>3. next \in Calls /\ next.is = Y!Stream /\ ~next.sent /\ next.b = made'
    BY <1>4, <1>5, <2>1, <2>2 DEF Calls
  <2>4. /\ \E c \in channel' : c.of = r /\ c.id = made'
        /\ \A c \in channel' : c.id = made' => c.of = r
        /\ \A c \in channel' : c.of = r => ~c.private
    BY <1>1, <1>7 DEF Did
  <2>5. made' <= made'
    BY <2>2, RunsCounted
  <2>6. QED
    BY <1>5, <2>3, <2>4, <2>5 DEF Fits, Created, Complete
<1>8. CASE preparing[r].is \in {"streams", "newstream"}
  <2>1. channel' = channel /\ made' = made
    BY <1>1, <1>8 DEF Did
  <2>2. \/ next = Y!Go(r, "newstream")
        \/ next = [Y!Go(r, "bind") EXCEPT !.s = 1] /\ streams > 0
        \/ next = [Y!Go(r, "bind") EXCEPT !.s = streams + 1] /\ streams < MaxMade
    BY <1>8 DEF Y!Then, Y!Does
  <2>3. /\ next \in Calls /\ next.is \in {"newstream", "bind"} /\ ~next.sent
        /\ next.b = preparing[r].b /\ (next.is = "bind" => next.s # 0)
    <3>1. CASE next = Y!Go(r, "newstream")
      BY <1>4, <1>5, <3>1
    <3>2. CASE next = [Y!Go(r, "bind") EXCEPT !.s = 1] /\ streams > 0
      <4>1. 1 \in 0..MaxMade
        BY <3>2, TubeTyping, RunsCounted
      <4>2. QED
        BY <1>4, <1>5, <3>2, <4>1 DEF Calls
    <3>3. CASE next = [Y!Go(r, "bind") EXCEPT !.s = streams + 1] /\ streams < MaxMade
      <4>1. streams + 1 \in 0..MaxMade /\ streams + 1 # 0
        BY <3>3, TubeTyping, RunsCounted
      <4>2. QED
        BY <1>4, <1>5, <3>3, <4>1 DEF Calls
    <3>4. QED
      BY <2>2, <3>1, <3>2, <3>3
  <2>4. QED
    BY <1>2, <1>8, <2>1, <2>3 DEF Fits, Created, Complete
<1>9. CASE preparing[r].is = "bind"
  <2>1. next = Y!Go(r, "playlist") \/ next = Y!Go(r, "prepared")
    BY <1>9 DEF Y!Then
  <2>2. /\ next \in Calls /\ next.is \in {"playlist", "prepared"} /\ ~next.sent
        /\ next.b = preparing[r].b
    BY <1>4, <1>5, <2>1
  <2>3. QED
    BY <1>1, <1>3, <1>9, <2>2 DEF Did, Fits, Created, Complete
<1>10. CASE preparing[r].is \in {"stream", "playlist"}
  <2>1. channel' = channel /\ made' = made
    BY <1>1, <1>10 DEF Did
  <2>2. next = Y!Go(r, "prepared")
    BY <1>10 DEF Y!Then
  <2>3. QED
    BY <1>2, <1>4, <1>10, <2>1, <2>2 DEF Fits, Created, Complete
<1>11. CASE preparing[r].is \in {"delete", "private", "transition"}
  <2>1. next = Y!Go(r, "over")
    BY <1>11 DEF Y!Then
  <2>2. next \in Calls /\ next.is = "over" /\ ~next.sent /\ next.b = preparing[r].b
    BY <1>4, <2>1
  <2>3. QED
    BY <1>1, <1>3, <2>2 DEF Did, Fits, Created, Complete
<1>12. QED
  BY <1>6, <1>7, <1>8, <1>9, <1>10, <1>11 DEF Y!Methods, Y!Making

\* So does a failure, whether the call was done or not.
LEMMA FailureFits ==
  ASSUME TubeInv, Y!YouTubeAssumption, NEW r \in Runs, preparing[r].is \in Y!Methods,
         NEW posts \in SUBSET Posts, NEW count \in Nat,
         \/ posts = channel /\ count = made
         \/ Y!Does(r) /\ posts = channel' /\ count = made'
  PROVE  Y!Failing(r) \in Calls /\ ~Y!Failing(r).sent /\ Fits(r, Y!Failing(r), posts, count)
<1>1. Fits(r, preparing[r], channel, made)
  BY DEF TubeInv
<1>2. /\ preparing[r].b <= count
      /\ \A c \in posts : c.id = preparing[r].b => c.of = r
      /\ preparing[r].is # "private" => \A c \in posts : c.of = r => ~c.private
      /\ preparing[r].is = "playlist" => posts = channel
  <2>1. CASE posts = channel /\ count = made
    BY <1>1, <2>1 DEF Fits, Y!Methods, Y!Making
  <2>2. CASE Y!Does(r) /\ posts = channel' /\ count = made'
    <3>1. Did(r) /\ OthersFit(r)
      BY <2>2, CallDoes
    <3>2. QED
      BY <1>1, <2>2, <3>1, TubeTyping DEF Did, Fits, OthersFit
  <2>3. QED
    BY <2>1, <2>2
<1>3. \A what \in {"prepared", "private", "over"} :
         /\ Y!Go(r, what) \in Calls /\ Y!Go(r, what).is = what /\ ~Y!Go(r, what).sent
         /\ Y!Go(r, what).b = preparing[r].b
  BY GoTyped DEF Y!Methods
<1>4. CASE preparing[r].is = "playlist"
  <2>1. Y!Failing(r) = Y!Go(r, "prepared")
    BY <1>4 DEF Y!Failing
  <2>2. QED
    BY <1>1, <1>2, <1>3, <1>4, <2>1 DEF Fits, Created, Complete
<1>5. CASE preparing[r].is = "delete"
  <2>1. Y!Failing(r) = Y!Go(r, "private")
    BY <1>5 DEF Y!Failing
  <2>2. QED
    BY <1>2, <1>3, <1>5, <2>1 DEF Fits, Created, Complete
<1>6. CASE preparing[r].is \in {"private", "transition"}
  <2>1. Y!Failing(r) = Y!Go(r, "over")
    BY <1>6 DEF Y!Failing
  <2>2. QED
    BY <1>2, <1>3, <2>1 DEF Fits, Created, Complete
<1>7. CASE preparing[r].is \notin {"playlist", "delete", "private", "transition"}
  <2>1. Y!Failing(r) = Y!Idle
    BY <1>7 DEF Y!Failing
  <2>2. Y!Idle \in Calls /\ ~Y!Idle.sent /\ Y!Idle.b = 0 /\ Y!Idle.is = "idle"
    BY RunsCounted DEF Y!Idle, Calls
  <2>3. \A c \in posts : c.id # 0
    BY RunsCounted DEF Posts
  <2>4. QED
    BY <1>2, <1>7, <2>1, <2>2, <2>3 DEF Fits, Created, Complete
<1>8. QED
  BY <1>4, <1>5, <1>6, <1>7
-----------------------------------------------------------------------------
\* Steps

LEMMA SendsKeeps ==
  ASSUME TubeInv, Y!YouTubeAssumption, NEW r \in Runs, Y!Sends(r)
  PROVE  TubeInv'
<1> DEFINE next == [preparing[r] EXCEPT !.sent = TRUE]
<1>1. /\ preparing[r].is \in Y!Methods /\ ~preparing[r].sent /\ Y!Affordable(preparing[r].is)
      /\ UNCHANGED <<used, channel, streams, made, mishaps, days>>
  BY DEF Y!Sends, Y!Calling
<1>2. preparing[r] \in Calls
  BY TubeTyping
<1>3. preparing' = [preparing EXCEPT ![r] = next]
  BY DEF Y!Sends
<1>4. /\ next \in Calls /\ next.sent /\ next.is = preparing[r].is /\ next.b = preparing[r].b
      /\ next.s = preparing[r].s
  BY <1>2 DEF Calls
<1> HIDE DEF next
<1>5. Fits(r, next, channel, made)
  BY <1>4 DEF TubeInv, Fits
<1>6. InBudget'
  <2>1. Sent \subseteq Runs \ {r}
    BY <1>1 DEF Sent
  <2>2. Cardinality(Sent) <= Cardinality(Runs) - 1
    <3>1. IsFiniteSet(Runs \ {r}) /\ Cardinality(Runs \ {r}) = Cardinality(Runs) - 1
      BY RunsCounted, FS_RemoveElement
    <3>2. QED
      BY <2>1, <3>1, FS_Subset
  <2>3. Cardinality(Sent)' = Cardinality(Sent) + 1
    BY <1>1, <1>3, <1>4, SentBy
  <2>4. used + 2 <= Limit
    <3>1. used + Y!Cost(preparing[r].is) <= Limit
            /\ (Y!Cost(preparing[r].is) = 1 => used + 1 <= Limit - Reserve)
      BY <1>1, TubeTyping, RunsCounted DEF Y!Affordable, Y!Critical, Y!Cost
    <3>2. Y!Cost(preparing[r].is) \in {1, 2}
      BY DEF Y!Cost
    <3>3. QED
      BY <3>1, <3>2, TubeTyping, RunsCounted
  <2>5. QED
    BY <1>1, <2>2, <2>3, <2>4, SentCounted, RunsCounted, TubeTyping DEF InBudget
<1>7. Announces(channel, made)' /\ \A o \in Runs : Fits(o, preparing[o], channel, made)'
  BY <1>1, <1>3, <1>4, <1>5, RunGoesOn
<1>8. /\ channel' \subseteq Posts /\ made' \in 0..MaxMade /\ streams' \in 0..MaxMade
      /\ mishaps' \in 0..MaxMishaps /\ UNCHANGED days /\ used' \in Nat
  BY <1>1 DEF TubeInv, Y!TubeTypeOK, Posts
<1>9. QED
  BY <1>3, <1>4, <1>6, <1>7, <1>8, Together

LEMMA RunGoesKeeps ==
  ASSUME TubeInv, Y!YouTubeAssumption, NEW r \in Runs,
         Y!Prepare(r) \/ Y!Discard(r) \/ Y!Finalize(r) \/ Y!Refused(r) \/ Y!Stops(r)
  PROVE  TubeInv'
<1>1. Fits(r, preparing[r], channel, made)
  BY DEF TubeInv
<1>2. mishaps' \in 0..MaxMishaps
  <2>1. mishaps' = mishaps \/ (mishaps < MaxMishaps /\ mishaps' = mishaps + 1)
    BY DEF Y!Prepare, Y!Discard, Y!Finalize, Y!Refused, Y!Stops
  <2>2. QED
    BY <2>1, RunsCounted DEF TubeInv, Y!TubeTypeOK
<1>3. used' = used + 0 /\ UNCHANGED <<channel, made, streams, days>>
  BY TubeTyping DEF Y!Prepare, Y!Discard, Y!Finalize, Y!Refused, Y!Stops
<1>4. ASSUME NEW next \in Calls, ~next.sent, preparing' = [preparing EXCEPT ![r] = next],
             Fits(r, next, channel, made)
      PROVE  TubeInv'
  <2>1. 0 \in 0..2
    OBVIOUS
  <2>2. QED
    BY <1>2, <1>3, <1>4, <2>1, QuietStep
<1>5. CASE Y!Prepare(r)
  <2> DEFINE next == [Y!Idle EXCEPT !.is = "list"]
  <2>1. preparing[r] = Y!Idle /\ preparing' = [preparing EXCEPT ![r] = next]
    BY <1>5 DEF Y!Prepare, Y!Looks
  <2>2. next \in Calls /\ ~next.sent /\ next.is = "list" /\ next.b = 0
    <3>1. Y!Idle \in Calls /\ ~Y!Idle.sent /\ Y!Idle.b = 0
      BY RunsCounted DEF Y!Idle, Calls
    <3>2. QED
      BY <3>1 DEF Calls, Y!Methods, Y!Making
  <2> HIDE DEF next
  <2>3. preparing[r].b = 0 /\ preparing[r].is = "idle"
    BY <2>1 DEF Y!Idle
  <2>4. Fits(r, next, channel, made)
    BY <1>1, <2>2, <2>3 DEF Fits, Created, Complete
  <2>5. QED
    BY <1>4, <2>1, <2>2, <2>4
<1>6. CASE Y!Discard(r)
  <2>1. preparing[r].is = "prepared" /\ preparing' = [preparing EXCEPT ![r] = Y!Go(r, "delete")]
    BY <1>6 DEF Y!Discard
  <2>2. /\ Y!Go(r, "delete") \in Calls /\ ~Y!Go(r, "delete").sent
        /\ Y!Go(r, "delete").is = "delete" /\ Y!Go(r, "delete").b = preparing[r].b
    BY GoTyped DEF Y!Methods
  <2>3. Fits(r, Y!Go(r, "delete"), channel, made)
    BY <1>1, <2>1, <2>2 DEF Fits, Created, Complete
  <2>4. QED
    BY <1>4, <2>1, <2>2, <2>3
<1>7. CASE Y!Finalize(r)
  <2>1. PICK what \in {"over", "transition"} :
          preparing[r].is = "prepared" /\ preparing' = [preparing EXCEPT ![r] = Y!Go(r, what)]
    BY <1>7 DEF Y!Finalize
  <2>2. /\ Y!Go(r, what) \in Calls /\ ~Y!Go(r, what).sent
        /\ Y!Go(r, what).is = what /\ Y!Go(r, what).b = preparing[r].b
    BY GoTyped DEF Y!Methods
  <2>3. Fits(r, Y!Go(r, what), channel, made)
    BY <1>1, <2>1, <2>2 DEF Fits, Created, Complete
  <2>4. QED
    BY <1>4, <2>1, <2>2, <2>3
<1>8. CASE Y!Refused(r)
  <2>1. preparing[r].is \in Y!Methods /\ preparing' = [preparing EXCEPT ![r] = Y!Failing(r)]
    BY <1>8 DEF Y!Refused, Y!Calling
  <2>2. channel \in SUBSET Posts /\ made \in Nat
    BY TubeTyping
  <2>3. Y!Failing(r) \in Calls /\ ~Y!Failing(r).sent /\ Fits(r, Y!Failing(r), channel, made)
    BY <2>1, <2>2, FailureFits
  <2>4. QED
    BY <1>4, <2>1, <2>3
<1>9. CASE Y!Stops(r)
  <2>1. preparing[r].is # "over" /\ preparing' = [preparing EXCEPT ![r] = Y!Idle]
    BY <1>9 DEF Y!Stops, Y!Making
  <2>2. QED
    BY <1>4, <2>1, IdleFits
<1>10. QED
  BY <1>5, <1>6, <1>7, <1>8, <1>9

\* A call that was done leads on as its answer says, or as a failure does.
LEMMA CallDoneKeeps ==
  ASSUME TubeInv, Y!YouTubeAssumption, NEW r \in Runs, Y!Does(r), preparing[r].is \in Y!Methods,
         preparing[r].sent, NEW n \in 0..2, used' = used + n, mishaps' \in 0..MaxMishaps,
         UNCHANGED days, NEW next \in Calls, ~next.sent, Fits(r, next, channel', made'),
         preparing' = [preparing EXCEPT ![r] = next]
  PROVE  TubeInv'
<1>1. OthersFit(r)
  BY CallDoes
<1>2. InBudget' /\ used' \in Nat
  BY BudgetKept
<1>3. preparing'[r] = next /\ \A o \in Runs \ {r} : preparing'[o] = preparing[o]
  BY TubeTyping
<1>4. \A o \in Runs : Fits(o, preparing'[o], channel', made')
  BY <1>1, <1>3 DEF OthersFit
<1>5. Announces(channel, made)' /\ \A o \in Runs : Fits(o, preparing[o], channel, made)'
  BY <1>1, <1>4 DEF OthersFit
<1>6. QED
  BY <1>1, <1>2, <1>5, Together DEF OthersFit

LEMMA AnsweredKeeps ==
  ASSUME TubeInv, Y!YouTubeAssumption, NEW r \in Runs, Y!Answered(r)
  PROVE  TubeInv'
<1>1. /\ preparing[r].is \in Y!Methods /\ preparing[r].sent /\ Y!Does(r)
      /\ used' = used + Y!Cost(preparing[r].is) /\ UNCHANGED <<mishaps, days>>
  BY DEF Y!Answered, Y!Calling
<1>2. PICK next \in Y!Then(r) : preparing' = [preparing EXCEPT ![r] = next]
  BY DEF Y!Answered
<1>3. next \in Calls /\ ~next.sent /\ Fits(r, next, channel', made')
  BY <1>1, AnswerFits
<1>4. Y!Cost(preparing[r].is) \in 0..2
  BY DEF Y!Cost
<1>5. mishaps' \in 0..MaxMishaps
  BY <1>1 DEF TubeInv, Y!TubeTypeOK
<1>6. QED
  BY <1>1, <1>2, <1>3, <1>4, <1>5, CallDoneKeeps

LEMMA CallFailsKeeps ==
  ASSUME TubeInv, Y!YouTubeAssumption, NEW r \in Runs, Y!Fails(r)
  PROVE  TubeInv'
<1>1. /\ preparing[r].is \in Y!Methods /\ preparing[r].sent /\ mishaps < MaxMishaps
      /\ mishaps' = mishaps + 1 /\ preparing' = [preparing EXCEPT ![r] = Y!Failing(r)]
      /\ UNCHANGED days
  BY DEF Y!Fails, Y!Calling
<1>2. mishaps' \in 0..MaxMishaps
  BY <1>1, RunsCounted DEF TubeInv, Y!TubeTypeOK
<1>3. Y!Cost(preparing[r].is) \in 0..2 /\ 0 \in 0..2 /\ used + 0 = used
  BY TubeTyping DEF Y!Cost
<1>4. ASSUME UNCHANGED <<channel, streams, made>>, NEW n \in 0..2, used' = used + n PROVE TubeInv'
  <2>1. channel \in SUBSET Posts /\ made \in Nat
    BY TubeTyping
  <2>2. Y!Failing(r) \in Calls /\ ~Y!Failing(r).sent /\ Fits(r, Y!Failing(r), channel, made)
    BY <1>1, <2>1, FailureFits
  <2>3. QED
    BY <1>1, <1>2, <1>4, <2>2, QuietStep
<1>5. ASSUME Y!Does(r), used' = used + 0 PROVE TubeInv'
  <2>1. channel' \in SUBSET Posts /\ made' \in Nat
    BY <1>1, <1>5, CallDoes, RunsCounted DEF OthersFit
  <2>2. Y!Failing(r) \in Calls /\ ~Y!Failing(r).sent /\ Fits(r, Y!Failing(r), channel', made')
    BY <1>1, <1>5, <2>1, FailureFits
  <2>3. QED
    BY <1>1, <1>2, <1>3, <1>5, <2>2, CallDoneKeeps
<1>6. \/ used' = used + Y!Cost(preparing[r].is) /\ UNCHANGED <<channel, streams, made>>
      \/ used' = used + 0 /\ (Y!Does(r) \/ UNCHANGED <<channel, streams, made>>)
  BY <1>3 DEF Y!Fails
<1>7. QED
  BY <1>3, <1>4, <1>5, <1>6

LEMMA TubeKept ==
  ASSUME TubeInv, Y!YouTubeAssumption, [Y!TubeNext]_tubeVars
  PROVE  TubeInv'
<1>1. ASSUME UNCHANGED <<channel, streams, made, preparing, mishaps>>, days' \in 0..MaxDays,
             used' \in Nat, InBudget'
      PROVE  TubeInv'
  <2>1. Announces(channel', made') /\ \A r \in Runs : Fits(r, preparing'[r], channel', made')
    BY <1>1 DEF TubeInv
  <2>2. Y!TubeTypeOK'
    BY <1>1 DEF TubeInv, Y!TubeTypeOK
  <2>3. QED
    BY <1>1, <2>1, <2>2 DEF TubeInv
<1>2. ASSUME UNCHANGED preparing PROVE Cardinality(Sent)' = Cardinality(Sent)
  <2>1. Sent' = Sent
    BY <1>2 DEF Sent
  <2>2. QED
    BY <2>1
<1>3. /\ used \in Nat /\ Cardinality(Sent) \in Nat /\ Cardinality(Sent) <= Cardinality(Runs)
      /\ days \in 0..MaxDays
  BY SentCounted, TubeTyping DEF TubeInv, Y!TubeTypeOK
<1>4. CASE Y!Poll
  <2>1. used' = used + 1 /\ used + 1 <= Limit - Reserve
    BY <1>4 DEF Y!Poll, Y!Affordable, Y!Cost, Y!Critical
  <2>2. UNCHANGED <<channel, streams, made, preparing, mishaps, days>>
    BY <1>4 DEF Y!Poll
  <2>3. Cardinality(Sent)' = Cardinality(Sent)
    BY <1>2, <2>2
  <2>4. InBudget'
    BY <1>3, <2>1, <2>3, RunsCounted DEF InBudget
  <2>5. QED
    BY <1>1, <1>3, <2>1, <2>2, <2>4
<1>5. CASE Y!NextDay
  <2>1. used' = 0 /\ days < MaxDays /\ days' = days + 1
    BY <1>5 DEF Y!NextDay
  <2>2. UNCHANGED <<channel, streams, made, preparing, mishaps>>
    BY <1>5 DEF Y!NextDay
  <2>3. Cardinality(Sent)' = Cardinality(Sent)
    BY <1>2, <2>2
  <2>4. InBudget'
    BY <1>3, <2>1, <2>3, RunsCounted DEF InBudget
  <2>5. days' \in 0..MaxDays
    BY <1>3, <2>1, RunsCounted
  <2>6. QED
    BY <1>1, <2>1, <2>2, <2>4, <2>5
<1>6. CASE UNCHANGED tubeVars
  <2>1. UNCHANGED <<used, channel, streams, made, preparing, mishaps, days>>
    BY <1>6 DEF tubeVars
  <2>2. InBudget'
    BY <1>2, <2>1 DEF TubeInv, InBudget
  <2>3. QED
    BY <1>1, <1>3, <2>1, <2>2
<1>7. CASE \E r \in Runs : \/ Y!Prepare(r) \/ Y!Discard(r) \/ Y!Finalize(r)
                           \/ Y!Sends(r) \/ Y!Refused(r) \/ Y!Answered(r) \/ Y!Fails(r) \/ Y!Stops(r)
  BY <1>7, RunGoesKeeps, SendsKeeps, AnsweredKeeps, CallFailsKeeps
<1>8. QED
  BY <1>4, <1>5, <1>6, <1>7 DEF Y!TubeNext

\* What a run has been told is ready is on the channel, once, and paid for.
LEMMA TubeReady ==
  ASSUME TubeInv, Y!YouTubeAssumption
  PROVE  Y!AnnouncedOnce /\ Y!ReadyHasStream /\ Y!Overspent
<1>1. Y!AnnouncedOnce
  BY DEF TubeInv, Announces, Y!AnnouncedOnce
<1>2. Y!ReadyHasStream
  BY DEF TubeInv, Fits, Complete, Y!ReadyHasStream
<1>3. used <= Limit + 2 * (Cardinality(Runs) - 1)
  BY SentCounted, RunsCounted, TubeTyping DEF TubeInv, InBudget
<1>4. QED
  BY <1>1, <1>2, <1>3 DEF Y!Overspent, Y!Cardinality, Cardinality
-----------------------------------------------------------------------------
(* Twitch: the title that is sent, and what a run that is ready was told *)

LEMMA LeastOne ==
  ASSUME NEW S, S \subseteq Nat, S # {}
  PROVE  T!Least(S) \in S /\ \A m \in S : T!Least(S) <= m
<1>1. IsWellFoundedOn(OpToRel(<, Nat), Nat)
  BY NatLessThanWellFounded
<1> DEFINE R == OpToRel(<, Nat)
<1>2. PICK x \in S : \A y \in S : ~ (<<y, x>> \in R)
  <2> HIDE DEF R
  <2>1. IsWellFoundedOn(R, Nat)
    BY <1>1 DEF R
  <2>2. QED
    BY <2>1, WFMin
<1>3. \A y \in S : ~ (y < x)
  BY <1>2 DEF OpToRel
<1>4. \A y \in S : x <= y
  BY <1>3
<1>5. QED
  BY <1>4 DEF T!Least

LEMMA GreatestOne ==
  ASSUME NEW N \in Nat, NEW S, S \subseteq 0..N, S # {}
  PROVE  T!Greatest(S) \in S /\ \A m \in S : m <= T!Greatest(S)
<1> DEFINE Below == {N - m : m \in S}
<1>1. Below \subseteq Nat /\ Below # {}
  <2>1. \A m \in S : N - m \in Nat
    OBVIOUS
  <2>2. PICK m \in S : TRUE
    OBVIOUS
  <2>3. N - m \in Below
    BY <2>2
  <2>4. QED
    BY <2>1, <2>3
<1>2. PICK b \in Below : \A m \in Below : b <= m
  <2> HIDE DEF Below
  <2>1. QED
    BY <1>1, LeastOne
<1>3. PICK x \in S : b = N - x
  BY <1>2
<1>4. \A m \in S : m <= x
  BY <1>2, <1>3
<1>5. QED
  BY <1>4 DEF T!Greatest

Chars == {T!Blank, T!Letter, T!Ellipsis}

LEMMA TrimmedEnd ==
  ASSUME NEW text \in Seq(Chars)
  PROVE  T!TrimEnd(text) \in Seq(Chars) /\ Len(T!TrimEnd(text)) <= Len(text)
<1>1. CASE T!Words(text) = {}
  BY <1>1 DEF T!TrimEnd
<1>2. CASE T!Words(text) # {}
  <2> DEFINE n == T!Greatest(T!Words(text))
  <2>1. T!Words(text) \subseteq 0..Len(text) /\ T!Words(text) \subseteq 1..Len(text)
    BY DEF T!Words
  <2>2. n \in T!Words(text)
    BY <1>2, <2>1, GreatestOne
  <2>3. n \in 1..Len(text)
    BY <2>1, <2>2
  <2>4. T!TrimEnd(text) = SubSeq(text, 1, n)
    BY <1>2 DEF T!TrimEnd
  <2> HIDE DEF n
  <2>5. QED
    BY <2>3, <2>4
<1>3. QED
  BY <1>1, <1>2

LEMMA TrimmedBoth ==
  ASSUME NEW text \in Seq(Chars)
  PROVE  T!Trim(text) \in Seq(Chars) /\ Len(T!Trim(text)) <= Len(text)
<1>1. CASE T!Words(text) = {}
  BY <1>1 DEF T!Trim
<1>2. CASE T!Words(text) # {}
  <2> DEFINE n == T!Greatest(T!Words(text))
             m == T!Least(T!Words(text))
  <2>1. /\ T!Words(text) \subseteq 0..Len(text) /\ T!Words(text) \subseteq 1..Len(text)
        /\ T!Words(text) \subseteq Nat
    BY DEF T!Words
  <2>2. n \in T!Words(text) /\ m \in T!Words(text)
    BY <1>2, <2>1, GreatestOne, LeastOne
  <2>3. n \in 1..Len(text) /\ m \in 1..Len(text)
    BY <2>1, <2>2
  <2>4. T!Trim(text) = SubSeq(text, m, n)
    BY <1>2 DEF T!Trim
  <2> HIDE DEF n, m
  <2>5. QED
    BY <2>3, <2>4
<1>3. QED
  BY <1>1, <1>2

\* A title is cut to what Twitch accepts, the ellipsis included.
LEMMA TitleFits ==
  ASSUME T!TwitchAssumption, NEW text \in T!Texts
  PROVE  T!TitleFor(text) \in Seq(Chars) /\ Len(T!TitleFor(text)) <= MaxTitle
<1>1. MaxTitle \in Nat /\ 1 < MaxTitle
  BY DEF T!TwitchAssumption
<1>2. text \in Seq(Chars)
  <2>1. CASE text = T!Plain
    BY <2>1 DEF T!Plain, Chars
  <2>2. CASE text # T!Plain
    <3>1. PICK n \in {0, MaxTitle, MaxTitle + 1} : text \in [1..n -> {T!Blank, T!Letter}]
      BY <2>2 DEF T!Texts
    <3>2. n \in Nat /\ text \in [1..n -> Chars]
      BY <1>1, <3>1 DEF Chars
    <3>3. QED
      BY <3>2
  <2>3. QED
    BY <2>1, <2>2
<1> DEFINE t == T!Trim(text)
<1>3. t \in Seq(Chars)
  BY <1>2, TrimmedBoth
<1> HIDE DEF t
<1>4. CASE Len(t) <= MaxTitle
  BY <1>3, <1>4 DEF T!TitleFor, t
<1>5. CASE ~(Len(t) <= MaxTitle)
  <2>1. T!TitleFor(text) = T!TrimEnd(SubSeq(t, 1, MaxTitle - 1)) \o <<T!Ellipsis>>
    BY <1>5 DEF T!TitleFor, T!Cut, t
  <2>2. SubSeq(t, 1, MaxTitle - 1) \in Seq(Chars) /\ Len(SubSeq(t, 1, MaxTitle - 1)) = MaxTitle - 1
    BY <1>1, <1>3, <1>5
  <2> DEFINE u == T!TrimEnd(SubSeq(t, 1, MaxTitle - 1))
  <2>3. u \in Seq(Chars) /\ Len(u) <= MaxTitle - 1
    BY <2>2, TrimmedEnd
  <2> HIDE DEF u
  <2>4. <<T!Ellipsis>> \in Seq(Chars) /\ Len(<<T!Ellipsis>>) = 1
    BY DEF Chars
  <2>5. u \o <<T!Ellipsis>> \in Seq(Chars) /\ Len(u \o <<T!Ellipsis>>) = Len(u) + 1
    BY <2>3, <2>4
  <2>6. QED
    BY <1>1, <2>1, <2>3, <2>5 DEF u
<1>6. QED
  BY <1>4, <1>5
-----------------------------------------------------------------------------
\* While nobody interferes, a run has what the channel has: its name from "category" on, its
\* key from "ingest" on, and in the end one of the places to push to.
Pointed(a) ==
  a.calm =>
    /\ a.at \in {"category", "modify", "key", "ingest", "ready"} => a.login = twitch.login
    /\ a.at \in {"ingest", "ready"} => a.key = twitch.key
    /\ a.at = "ready" => a.server \in T!Picks(servers)

\* What went wrong has been counted, as has every change of the name and the key.
Counted ==
  /\ twitch.key <= hitches /\ twitch.login <= hitches
  /\ hitches = 0 => servers = T!Listed
  /\ \A r \in Airings : attempt[r].at = "failed" => hitches > 0

TwitchInv ==
  /\ T!TwitchTypeOK /\ Counted /\ T!TitleStands
  /\ \A r \in Airings : Pointed(attempt[r])

Title == Seq(Chars)

LEMMA TwitchTyping ==
  ASSUME TwitchInv, T!TwitchAssumption
  PROVE  /\ twitch \in [title : Title, category : T!Categories, key : T!Versions, login : T!Versions]
         /\ servers \subseteq T!Server /\ wants \in [Airings -> T!Texts]
         /\ attempt \in [Airings -> T!Attempt] /\ hitches \in 0..MaxOwner
         /\ MaxTitle \in Nat /\ 1 < MaxTitle /\ MaxOwner \in Nat
<1>1. MaxTitle \in Nat /\ 1 < MaxTitle /\ MaxOwner \in Nat
  BY DEF T!TwitchAssumption
<1>2. QED
  BY <1>1 DEF TwitchInv, T!TwitchTypeOK, T!Channel, Title, Chars

LEMMA ShortTitle ==
  ASSUME T!TwitchAssumption
  PROVE  <<T!Letter>> \in Title /\ <<T!Letter>> # <<>> /\ Len(<<T!Letter>>) <= MaxTitle
<1>1. MaxTitle \in Nat /\ 1 < MaxTitle
  BY DEF T!TwitchAssumption
<1>2. <<T!Letter>> \in Title /\ Len(<<T!Letter>>) = 1
  BY DEF Title, Chars
<1>3. <<T!Letter>> # <<>>
  OBVIOUS
<1>4. QED
  BY <1>1, <1>2, <1>3

LEMMA ListedServers == T!Listed \subseteq T!Server /\ T!Picks(T!Listed) # {}
<1>1. ASSUME NEW x \in T!Listed PROVE x \in T!Server
  <2>1. \/ \E n \in 0..1 : x = [fits |-> TRUE, default |-> FALSE, available |-> n]
        \/ \E f \in BOOLEAN : x = [fits |-> f, default |-> TRUE, available |-> 0]
    BY DEF T!Listed
  <2>2. CASE \E n \in 0..1 : x = [fits |-> TRUE, default |-> FALSE, available |-> n]
    BY <2>2 DEF T!Server
  <2>3. CASE \E f \in BOOLEAN : x = [fits |-> f, default |-> TRUE, available |-> 0]
    BY <2>3 DEF T!Server
  <2>4. QED
    BY <2>1, <2>2, <2>3
<1> DEFINE s == [fits |-> TRUE, default |-> TRUE, available |-> 0]
<1>2. s \in T!Listed /\ s.fits /\ s.default
  BY DEF T!Listed
<1> HIDE DEF s
<1>3. s \in {x \in T!Usable(T!Listed) : x.default}
  BY <1>2 DEF T!Usable
<1>4. QED
  BY <1>1, <1>3 DEF T!Picks

LEMMA IdleAttempt ==
  ASSUME T!TwitchAssumption
  PROVE  T!Idle \in T!Attempt /\ T!Idle.at = "idle"
<1>1. 0 \in T!Versions
  BY DEF T!Versions, T!TwitchAssumption
<1>2. QED
  BY <1>1 DEF T!Idle, T!Attempt, T!Server

LEMMA TwitchHolds == ASSUME T!TwitchAssumption PROVE T!TwitchInit => TwitchInv
<1> SUFFICES ASSUME T!TwitchInit PROVE TwitchInv
  OBVIOUS
<1>1. /\ twitch = [title |-> <<T!Letter>>, category |-> "music", key |-> 0, login |-> 0]
      /\ servers = T!Listed /\ wants \in T!Wanted
      /\ attempt = [r \in Airings |-> T!Idle] /\ hitches = 0
  BY DEF T!TwitchInit
<1>2. 0 \in 0..MaxOwner
  BY DEF T!TwitchAssumption
<1>3. wants \in [Airings -> T!Texts]
  <2>1. T!Plain \in T!Texts
    BY DEF T!Texts
  <2>2. PICK r \in Airings, text \in T!Texts :
          wants = [s \in Airings |-> IF s = r THEN text ELSE T!Plain]
    BY <1>1 DEF T!Wanted
  <2>3. QED
    BY <2>1, <2>2
<1>4. twitch \in [title : Title, category : T!Categories, key : T!Versions, login : T!Versions]
  BY <1>1, <1>2, ShortTitle DEF T!Categories, T!Versions
<1>5. attempt \in [Airings -> T!Attempt]
  BY <1>1, IdleAttempt
<1>6. T!TwitchTypeOK
  BY <1>1, <1>2, <1>3, <1>4, <1>5, ListedServers DEF T!TwitchTypeOK, T!Channel, Title, Chars
<1>7. \A r \in Airings : attempt[r].at = "idle"
  BY <1>1, IdleAttempt
<1>8. Counted
  BY <1>1, <1>2, <1>7 DEF Counted
<1>9. T!TitleStands
  BY <1>1, ShortTitle DEF T!TitleStands
<1>10. \A r \in Airings : Pointed(attempt[r])
  BY <1>7 DEF Pointed
<1>11. QED
  BY <1>6, <1>8, <1>9, <1>10 DEF TwitchInv

-----------------------------------------------------------------------------
\* A run's attempt goes on; the channel may get its title.
LEMMA AttemptKeeps ==
  ASSUME TwitchInv, T!TwitchAssumption, NEW r \in Airings, NEW next \in T!Attempt,
         attempt' = [attempt EXCEPT ![r] = next], UNCHANGED <<servers, wants>>,
         \/ UNCHANGED hitches \/ (hitches < MaxOwner /\ hitches' = hitches + 1),
         next.at = "failed" => hitches' > 0, Pointed(next)',
         twitch' \in [title : Title, category : T!Categories, key : T!Versions, login : T!Versions],
         twitch'.key = twitch.key, twitch'.login = twitch.login,
         twitch'.title = twitch.title
           \/ (twitch'.title = T!TitleFor(wants[r]) /\ T!Sends(T!TitleFor(wants[r])))
  PROVE  TwitchInv'
<1>1. attempt'[r] = next /\ \A o \in Airings \ {r} : attempt'[o] = attempt[o]
  BY TwitchTyping
<1>2. attempt' \in [Airings -> T!Attempt]
  BY TwitchTyping
<1>3. hitches' \in 0..MaxOwner /\ hitches <= hitches'
  BY TwitchTyping
<1>4. T!TwitchTypeOK'
  BY <1>2, <1>3 DEF TwitchInv, T!TwitchTypeOK, T!Channel, Title, Chars
<1>5. Counted'
  <2>1. hitches' = 0 => hitches = 0
    BY <1>3, TwitchTyping
  <2>2. twitch'.key <= hitches' /\ twitch'.login <= hitches'
    BY <1>3, TwitchTyping DEF TwitchInv, Counted, T!Versions
  <2>3. ASSUME NEW o \in Airings, attempt'[o].at = "failed" PROVE hitches' > 0
    <3>1. CASE o = r
      BY <1>1, <2>3, <3>1
    <3>2. CASE o # r
      BY <1>1, <1>3, <2>3, <3>2, TwitchTyping DEF TwitchInv, Counted
    <3>3. QED
      BY <3>1, <3>2
  <2>4. QED
    BY <2>1, <2>2, <2>3 DEF TwitchInv, Counted
<1>6. T!TitleStands'
  <2>1. CASE twitch'.title = twitch.title
    BY <2>1 DEF TwitchInv, T!TitleStands, T!TitleFor, T!Trim, T!Cut, T!TrimEnd
  <2>2. CASE twitch'.title = T!TitleFor(wants[r]) /\ T!Sends(T!TitleFor(wants[r]))
    <3>1. wants[r] \in T!Texts
      BY TwitchTyping
    <3>2. Len(twitch'.title) <= MaxTitle /\ twitch'.title # <<>>
      BY <2>2, <3>1, TitleFits DEF T!Sends
    <3>3. \E o \in Airings : twitch'.title # <<>> /\ T!TitleFor(wants'[o]) = twitch'.title
      BY <2>2, <3>2
    <3>4. QED
      BY <3>2, <3>3 DEF T!TitleStands
  <2>3. QED
    BY <2>1, <2>2
<1>7. ASSUME NEW o \in Airings PROVE Pointed(attempt[o])'
  <2>1. CASE o = r
    BY <1>1, <2>1 DEF Pointed
  <2>2. CASE o # r
    <3>1. attempt'[o] = attempt[o] /\ servers' = servers
      BY <1>1, <2>2
    <3>2. Pointed(attempt[o])
      BY DEF TwitchInv
    <3>3. QED
      BY <3>1, <3>2 DEF Pointed, T!Picks, T!Usable
  <2>3. QED
    BY <2>1, <2>2
<1>8. QED
  BY <1>4, <1>5, <1>6, <1>7 DEF TwitchInv
\* What an attempt notes down, while the channel stays as it is.
LEMMA NotesKeep ==
  ASSUME TwitchInv, T!TwitchAssumption, NEW r \in Airings, NEW next \in T!Attempt,
         attempt' = [attempt EXCEPT ![r] = next], UNCHANGED <<twitch, servers, wants>>,
         \/ UNCHANGED hitches \/ (hitches < MaxOwner /\ hitches' = hitches + 1),
         next.at = "failed" => hitches' > 0, Pointed(next)
  PROVE  TwitchInv'
<1>1. Pointed(next)'
  BY DEF Pointed, T!Picks, T!Usable
<1>2. twitch' \in [title : Title, category : T!Categories, key : T!Versions, login : T!Versions]
  BY TwitchTyping
<1>3. QED
  BY <1>1, <1>2, AttemptKeeps

LEMMA AttemptTyped ==
  ASSUME TwitchInv, T!TwitchAssumption, NEW r \in Airings
  PROVE  /\ attempt[r].at \in {"idle", "channel", "category", "modify", "key", "ingest", "ready", "failed"}
         /\ attempt[r].login \in T!Versions /\ attempt[r].category \in T!Categories \cup {T!Kept}
         /\ attempt[r].key \in T!Versions /\ attempt[r].server \in T!Server
         /\ attempt[r].calm \in BOOLEAN /\ attempt[r] \in T!Attempt /\ Pointed(attempt[r])
BY TwitchTyping DEF TwitchInv, T!Attempt

LEMMA AttemptBegins ==
  ASSUME TwitchInv, T!TwitchAssumption, NEW r \in Airings, T!Begin(r) \/ T!Fails(r)
  PROVE  TwitchInv'
<1>1. PICK at \in {"channel", "failed"} :
        /\ attempt' = [attempt EXCEPT ![r] = [T!Idle EXCEPT !.at = at]]
        /\ UNCHANGED <<twitch, servers, wants>>
        /\ \/ at = "channel" /\ UNCHANGED hitches
           \/ hitches < MaxOwner /\ hitches' = hitches + 1
  BY DEF T!Begin, T!Fails, T!Trouble
<1> DEFINE next == [T!Idle EXCEPT !.at = at]
<1>2. next \in T!Attempt /\ next.at = at
  BY IdleAttempt DEF T!Attempt
<1>3. attempt' = [attempt EXCEPT ![r] = next]
  BY <1>1
<1> HIDE DEF next
<1>4. next.at = "failed" => hitches' > 0
  BY <1>1, <1>2, TwitchTyping
<1>5. Pointed(next)
  BY <1>2 DEF Pointed
<1>6. QED
  BY <1>1, <1>2, <1>3, <1>4, <1>5, NotesKeep

LEMMA AttemptReads ==
  ASSUME TwitchInv, T!TwitchAssumption, NEW r \in Airings,
         T!ReadChannel(r) \/ T!ReadCategory(r) \/ T!ReadKey(r) \/ T!ReadIngest(r)
  PROVE  TwitchInv'
<1>1. UNCHANGED <<twitch, servers, wants, hitches>>
  BY DEF T!ReadChannel, T!ReadCategory, T!ReadKey, T!ReadIngest
<1>2. ASSUME NEW next \in T!Attempt, attempt' = [attempt EXCEPT ![r] = next], Pointed(next),
             next.at = "failed" => hitches > 0
      PROVE  TwitchInv'
  BY <1>1, <1>2, NotesKeep
<1>3. /\ twitch.login \in T!Versions /\ twitch.key \in T!Versions
      /\ attempt[r] \in T!Attempt /\ Pointed(attempt[r])
  BY TwitchTyping, AttemptTyped
<1>4. CASE T!ReadChannel(r)
  <2> DEFINE next == [attempt[r] EXCEPT !.at = "category", !.login = twitch.login]
  <2>1. attempt' = [attempt EXCEPT ![r] = next]
    BY <1>4 DEF T!ReadChannel, T!Goes
  <2>2. next \in T!Attempt /\ next.at = "category" /\ next.login = twitch.login
    BY <1>3 DEF T!Attempt
  <2> HIDE DEF next
  <2>3. Pointed(next)
    BY <2>2 DEF Pointed
  <2>4. QED
    BY <1>2, <2>1, <2>2, <2>3
<1>5. CASE T!ReadCategory(r)
  <2>1. PICK c \in {"talk", attempt[r].category} : /\ attempt[r].at = "category"
          /\ attempt' = [attempt EXCEPT ![r] = [attempt[r] EXCEPT !.at = "modify", !.category = c]]
    <3>1. attempt[r] \in T!Attempt
      BY <1>3
    <3>2. [attempt[r] EXCEPT !.at = "modify"]
            = [attempt[r] EXCEPT !.at = "modify", !.category = attempt[r].category]
      BY <3>1 DEF T!Attempt
    <3>3. QED
      BY <1>5, <3>2 DEF T!ReadCategory, T!Goes, T!AfterCategory
  <2> DEFINE next == [attempt[r] EXCEPT !.at = "modify", !.category = c]
  <2>2. /\ next \in T!Attempt /\ next.at = "modify" /\ next.login = attempt[r].login
        /\ next.calm = attempt[r].calm
    BY <1>3 DEF T!Attempt, T!Categories
  <2>3. attempt' = [attempt EXCEPT ![r] = next]
    BY <2>1
  <2> HIDE DEF next
  <2>4. Pointed(next)
    BY <1>3, <2>1, <2>2 DEF Pointed
  <2>5. QED
    BY <1>2, <2>2, <2>3, <2>4
<1>6. CASE T!ReadKey(r)
  <2> DEFINE next == [attempt[r] EXCEPT !.at = "ingest", !.key = twitch.key]
  <2>1. attempt[r].at = "key" /\ attempt' = [attempt EXCEPT ![r] = next]
    BY <1>6 DEF T!ReadKey, T!Goes
  <2>2. /\ next \in T!Attempt /\ next.at = "ingest" /\ next.key = twitch.key
        /\ next.login = attempt[r].login /\ next.calm = attempt[r].calm
    BY <1>3 DEF T!Attempt
  <2> HIDE DEF next
  <2>3. Pointed(next)
    BY <1>3, <2>1, <2>2 DEF Pointed
  <2>4. QED
    BY <1>2, <2>1, <2>2, <2>3
<1>7. CASE T!ReadIngest(r)
  <2>1. attempt[r].at = "ingest"
    BY <1>7 DEF T!ReadIngest, T!Goes
  <2>2. CASE T!Picks(servers) = {}
    <3> DEFINE next == [attempt[r] EXCEPT !.at = "failed"]
    <3>1. attempt' = [attempt EXCEPT ![r] = next]
      BY <1>7, <2>2 DEF T!ReadIngest, T!Goes
    <3>2. next \in T!Attempt /\ next.at = "failed"
      BY <1>3 DEF T!Attempt
    <3> HIDE DEF next
    <3>3. hitches > 0
      <4>1. hitches # 0
        BY <2>2, ListedServers DEF TwitchInv, Counted
      <4>2. QED
        BY <4>1, TwitchTyping
    <3>4. Pointed(next)
      BY <3>2 DEF Pointed
    <3>5. QED
      BY <1>2, <3>1, <3>2, <3>3, <3>4
  <2>3. CASE T!Picks(servers) # {}
    <3>1. PICK s \in T!Picks(servers) :
            attempt' = [attempt EXCEPT ![r] = [attempt[r] EXCEPT !.at = "ready", !.server = s]]
      BY <1>7, <2>3 DEF T!ReadIngest, T!Goes
    <3> DEFINE next == [attempt[r] EXCEPT !.at = "ready", !.server = s]
    <3>2. s \in T!Server
      BY <3>1, TwitchTyping DEF T!Picks, T!Usable
    <3>3. /\ next \in T!Attempt /\ next.at = "ready" /\ next.server = s
          /\ next.login = attempt[r].login /\ next.key = attempt[r].key
          /\ next.calm = attempt[r].calm
      BY <1>3, <3>2 DEF T!Attempt
    <3>4. attempt' = [attempt EXCEPT ![r] = next]
      BY <3>1
    <3> HIDE DEF next
    <3>5. Pointed(next)
      BY <1>3, <2>1, <3>1, <3>3 DEF Pointed
    <3>6. QED
      BY <1>2, <3>3, <3>4, <3>5
  <2>4. QED
    BY <2>2, <2>3
<1>8. QED
  BY <1>4, <1>5, <1>6, <1>7

LEMMA AttemptModifies ==
  ASSUME TwitchInv, T!TwitchAssumption, NEW r \in Airings, T!Modify(r)
  PROVE  TwitchInv'
<1> DEFINE title == T!TitleFor(wants[r])
<1>1. title \in Title /\ Len(title) <= MaxTitle
  BY TwitchTyping, TitleFits DEF Title
<1>2. ~(T!Sends(title) /\ (title = <<>> \/ Len(title) > MaxTitle))
  <2> HIDE DEF title
  <2>1. Len(title) \in Nat
    BY <1>1 DEF Title
  <2>2. QED
    BY <1>1, <2>1, TwitchTyping DEF T!Sends
<1>3. /\ attempt[r].at = "modify"
      /\ attempt' = [attempt EXCEPT ![r] = [attempt[r] EXCEPT !.at = "key", !.category = T!Kept]]
      /\ twitch' = [twitch EXCEPT
           !.title = IF T!Sends(title) THEN title ELSE @,
           !.category = IF attempt[r].category = T!Kept THEN @ ELSE attempt[r].category]
      /\ UNCHANGED <<servers, wants, hitches>>
  BY <1>2 DEF T!Modify, T!Goes
<1>4. /\ attempt[r] \in T!Attempt /\ attempt[r].category \in T!Categories \cup {T!Kept}
      /\ Pointed(attempt[r])
  BY AttemptTyped
<1>5. PICK next \in T!Attempt :
        /\ attempt' = [attempt EXCEPT ![r] = next]
        /\ next.at = "key" /\ next.login = attempt[r].login /\ next.calm = attempt[r].calm
  <2> DEFINE after == [attempt[r] EXCEPT !.at = "key", !.category = T!Kept]
  <2>1. /\ after \in T!Attempt /\ after.at = "key" /\ after.login = attempt[r].login
        /\ after.calm = attempt[r].calm /\ attempt' = [attempt EXCEPT ![r] = after]
    BY <1>3, <1>4 DEF T!Attempt
  <2> HIDE DEF after
  <2>2. QED
    BY <2>1
<1>6. /\ twitch' \in [title : Title, category : T!Categories, key : T!Versions, login : T!Versions]
      /\ twitch'.key = twitch.key /\ twitch'.login = twitch.login
      /\ twitch'.title = twitch.title \/ (twitch'.title = title /\ T!Sends(title))
  <2> HIDE DEF title
  <2>1. QED
    BY <1>1, <1>3, <1>4, TwitchTyping
<1>7. Pointed(next)'
  BY <1>3, <1>4, <1>5, <1>6 DEF Pointed
<1>8. next.at = "failed" => hitches' > 0
  BY <1>5
<1>9. QED
  BY <1>3, <1>5, <1>6, <1>7, <1>8, AttemptKeeps

LEMMA OwnerInterferes ==
  ASSUME TwitchInv, T!TwitchAssumption, T!OwnerChanges
  PROVE  TwitchInv'
<1>1. /\ hitches < MaxOwner /\ hitches' = hitches + 1 /\ UNCHANGED wants
      /\ attempt' = [r \in Airings |-> [attempt[r] EXCEPT !.calm = FALSE]]
  BY DEF T!OwnerChanges, T!Trouble
<1>2. ASSUME NEW r \in Airings PROVE attempt'[r] \in T!Attempt /\ ~attempt'[r].calm
  <2>1. attempt[r] \in T!Attempt /\ attempt'[r] = [attempt[r] EXCEPT !.calm = FALSE]
    BY <1>1, TwitchTyping
  <2>2. QED
    BY <2>1 DEF T!Attempt
<1>3. attempt' \in [Airings -> T!Attempt]
  BY <1>1, <1>2
<1>4. hitches' \in 0..MaxOwner /\ hitches' > 0
  BY <1>1, TwitchTyping
<1>5. /\ servers' \subseteq servers
      /\ \/ twitch' = twitch
         \/ twitch' = [twitch EXCEPT !.title = <<T!Letter>>]
         \/ twitch' = [twitch EXCEPT !.key = @ + 1]
         \/ twitch' = [twitch EXCEPT !.login = @ + 1]
  BY DEF T!OwnerChanges
<1>6. /\ twitch.key + 1 \in T!Versions /\ twitch.login + 1 \in T!Versions
      /\ twitch.key <= hitches' /\ twitch.login <= hitches'
      /\ twitch.key + 1 <= hitches' /\ twitch.login + 1 <= hitches'
  BY <1>1, TwitchTyping DEF TwitchInv, Counted, T!Versions
<1>7. /\ twitch' \in [title : Title, category : T!Categories, key : T!Versions, login : T!Versions]
      /\ twitch'.key <= hitches' /\ twitch'.login <= hitches'
      /\ twitch'.title = twitch.title \/ twitch'.title = <<T!Letter>>
  BY <1>5, <1>6, ShortTitle, TwitchTyping
<1>8. T!TwitchTypeOK'
  BY <1>1, <1>3, <1>4, <1>5, <1>7, TwitchTyping DEF T!TwitchTypeOK, T!Channel, Title, Chars
<1>9. Counted'
  BY <1>4, <1>7 DEF Counted
<1>10. T!TitleStands'
  <2>1. CASE twitch'.title = twitch.title
    BY <1>1, <2>1 DEF TwitchInv, T!TitleStands, T!TitleFor, T!Trim, T!Cut, T!TrimEnd
  <2>2. CASE twitch'.title = <<T!Letter>>
    BY <2>2, ShortTitle DEF T!TitleStands
  <2>3. QED
    BY <1>7, <2>1, <2>2
<1>11. \A r \in Airings : Pointed(attempt[r])'
  BY <1>2 DEF Pointed
<1>12. QED
  BY <1>8, <1>9, <1>10, <1>11 DEF TwitchInv

LEMMA TwitchKept ==
  ASSUME TwitchInv, T!TwitchAssumption, [T!TwitchNext]_twitchVars
  PROVE  TwitchInv'
<1>1. CASE T!OwnerChanges
  BY <1>1, OwnerInterferes
<1>2. CASE \E r \in Airings : \/ T!Begin(r) \/ T!ReadChannel(r) \/ T!ReadCategory(r)
                              \/ T!Modify(r) \/ T!ReadKey(r) \/ T!ReadIngest(r) \/ T!Fails(r)
  BY <1>2, AttemptBegins, AttemptReads, AttemptModifies
<1>3. CASE UNCHANGED twitchVars
  <2>1. UNCHANGED <<twitch, servers, wants, attempt, hitches>>
    BY <1>3 DEF twitchVars
  <2>2. T!TwitchTypeOK' /\ T!TitleStands' /\ Counted'
    BY <2>1 DEF TwitchInv, T!TwitchTypeOK, T!TitleStands, Counted, T!TitleFor, T!Trim, T!Cut,
                T!TrimEnd
  <2>3. \A r \in Airings : Pointed(attempt[r])'
    BY <2>1 DEF TwitchInv, Pointed, T!Picks, T!Usable
  <2>4. QED
    BY <2>2, <2>3 DEF TwitchInv
<1>4. QED
  BY <1>1, <1>2, <1>3 DEF T!TwitchNext

\* What a run that is ready was told is what the channel has.
LEMMA TwitchReady ==
  ASSUME TwitchInv, T!TwitchAssumption
  PROVE  T!ReadyIsPointed /\ T!OnlyCallsFail /\ T!TitleStands
<1>1. ASSUME NEW s \in T!Picks(servers)
      PROVE  /\ s \in servers /\ s.fits
             /\ (\E o \in servers : o.fits /\ o.default) => s.default
             /\ s.default \/ \A o \in servers : o.fits => ~o.default /\ o.available <= s.available
  <2> DEFINE marked == {o \in T!Usable(servers) : o.default}
  <2>1. CASE marked # {}
    BY <2>1 DEF T!Picks, T!Usable
  <2>2. CASE marked = {}
    BY <2>2 DEF T!Picks, T!Usable
  <2>3. QED
    BY <2>1, <2>2
<1>2. T!ReadyIsPointed
  BY <1>1 DEF TwitchInv, Pointed, T!ReadyIsPointed
<1>3. QED
  BY <1>2 DEF TwitchInv, Counted, T!OnlyCallsFail
-----------------------------------------------------------------------------
(* Screens: what a browser shows *)

\* Requests of one kind undo one another, so that one at most is wanted.
OneWanted(rs) == \A r, q \in rs : r.what = q.what /\ r.wanted /\ q.wanted => r = q

\* An answer is not of the future; the screen's is as new as what is shown and what was
\* promised, because both were there when it was asked for; and whoever is refused is signed
\* out for as long as the app is up.
Trusted(r) ==
  /\ r.what = "session" => r.got \in {V!Sent, V!Out, V!In}
  /\ r.what = "deed" => r.wanted /\ r.got <= latest
  /\ r.what = "screen" /\ r.wanted =>
       /\ gate = "in" /\ r.got <= latest
       /\ r.got = V!Refused => ~valid
       /\ r.got >= 0 => r.got >= shown /\ r.got >= promised

\* What is shown, promised or told is what the server had.
OfThePast ==
  /\ shown <= latest /\ promised <= latest
  /\ \A s \in V!SocketIds : pulses[s] <= latest

\* A screen that was refused has asked who is signed in, and hears that nobody is.
Knocking ==
  /\ unread # "none" => gate = "in"
  /\ unread = "refused" =>
       /\ ~valid /\ \A r \in asking : r.what = "session" /\ r.wanted => r.got # V!In
       /\ gateFailed \/ \E r \in asking : r.what = "session" /\ r.wanted

\* A socket is the current one, or is being closed, which it is not while the app is up.
Plugged ==
  /\ \A s \in V!SocketIds : sockets[s] \in {"opening", "open"} => s = current /\ timers = 0
  /\ timers \in {0, 1}
  /\ gate # "in" => /\ timers = 0
                    /\ \A s \in V!SocketIds : sockets[s] \in {"unused", "closing"}
  /\ gate = "in" => \A s \in V!SocketIds : sockets[s] # "closing"

Screened ==
  /\ V!ScreensTypeOK /\ OneWanted(asking) /\ \A r \in asking : Trusted(r)
  /\ OfThePast /\ V!KeepsUp /\ Knocking

ScreensInv == Screened /\ (~Hasty => Plugged)

LEMMA NewRequest ==
  ASSUME NEW what \in {"screen", "session", "deed"}
  PROVE  [what |-> what, wanted |-> TRUE, got |-> V!Sent] \in V!Request
BY DEF V!Request, V!Sent

LEMMA RequestsAre ==
  ASSUME NEW r \in V!Request
  PROVE  r.got \in Int /\ r.what \in {"screen", "session", "deed"} /\ r.wanted \in BOOLEAN
         /\ (r.got = V!Sent \/ r.got = V!Refused \/ r.got \in 0..LastVersion)
BY DEF V!Request, V!Sent, V!Refused

\* Nobody wants the answers of these requests any more; the others are as they were.
LEMMA NoLongerAsked ==
  ASSUME NEW what \in {"screen", "session"}, NEW rs \in SUBSET V!Request
  PROVE  /\ V!Unwanted(what, rs) \subseteq V!Request
         /\ \A q \in V!Unwanted(what, rs) :
              \/ q.what = what /\ ~q.wanted /\ \E r \in rs : r.what = what /\ q.got = r.got
              \/ q.what # what /\ q \in rs
         /\ \A r \in rs : r.what # what => r \in V!Unwanted(what, rs)
<1>1. ASSUME NEW r \in rs, r.what = what
      PROVE  /\ [r EXCEPT !.wanted = FALSE] \in V!Request
             /\ [r EXCEPT !.wanted = FALSE].what = what
             /\ ~[r EXCEPT !.wanted = FALSE].wanted
             /\ [r EXCEPT !.wanted = FALSE].got = r.got
  <2>1. r \in [what : {"screen", "session", "deed"}, wanted : BOOLEAN,
               got : {V!Sent, V!Refused} \cup (0..LastVersion)]
    BY DEF V!Request
  <2>2. QED
    BY <1>1, <2>1 DEF V!Request
<1>2. V!Unwanted(what, rs) \subseteq V!Request
  BY <1>1 DEF V!Unwanted
<1>3. \A q \in V!Unwanted(what, rs) :
        \/ q.what = what /\ ~q.wanted /\ \E r \in rs : r.what = what /\ q.got = r.got
        \/ q.what # what /\ q \in rs
  BY <1>1 DEF V!Unwanted
<1>4. \A r \in rs : r.what # what => r \in V!Unwanted(what, rs)
  BY DEF V!Unwanted
<1>5. QED
  BY <1>2, <1>3, <1>4

\* The one request that is wanted after another was asked, and those there were before.
LEMMA AskedAgain ==
  ASSUME NEW what \in {"screen", "session"}, NEW rs \in SUBSET V!Request,
         NEW n, n = [what |-> what, wanted |-> TRUE, got |-> V!Sent]
  PROVE  /\ V!Reloaded(what, rs) \subseteq V!Request
         /\ \A q \in V!Reloaded(what, rs) :
              \/ q = n
              \/ q.what = what /\ ~q.wanted /\ \E r \in rs : r.what = what /\ q.got = r.got
              \/ q.what # what /\ q \in rs
         /\ \A r \in rs : r.what # what => r \in V!Reloaded(what, rs)
         /\ n \in V!Reloaded(what, rs) /\ n.what = what /\ n.wanted /\ n.got = V!Sent
<1>1. V!Reloaded(what, rs) = V!Unwanted(what, rs) \cup {n}
  BY DEF V!Reloaded
<1>2. n \in V!Request
  BY NewRequest
<1>3. n.what = what /\ n.wanted /\ n.got = V!Sent
  OBVIOUS
<1>4. QED
  BY <1>1, <1>2, <1>3, NoLongerAsked

LEMMA StillOneWanted ==
  ASSUME NEW what \in {"screen", "session"}, NEW rs \in SUBSET V!Request, OneWanted(rs)
  PROVE  OneWanted(V!Reloaded(what, rs)) /\ OneWanted(V!Unwanted(what, rs))
<1>1. PICK n : n = [what |-> what, wanted |-> TRUE, got |-> V!Sent]
  OBVIOUS
<1>2. \A q \in V!Reloaded(what, rs) :
        \/ q = n
        \/ q.what = what /\ ~q.wanted
        \/ q.what # what /\ q \in rs
  BY <1>1, AskedAgain
<1>3. n.what = what
  BY <1>1
<1>4. \A q \in V!Unwanted(what, rs) : (q.what = what /\ ~q.wanted) \/ (q.what # what /\ q \in rs)
  BY NoLongerAsked
<1>5. OneWanted(V!Reloaded(what, rs))
  BY <1>2, <1>3 DEF OneWanted
<1>6. OneWanted(V!Unwanted(what, rs))
  BY <1>4 DEF OneWanted
<1>7. QED
  BY <1>5, <1>6

LEMMA ScreensHolds == ASSUME V!ScreensAssumption PROVE V!ScreensInit => ScreensInv
<1> SUFFICES ASSUME V!ScreensInit PROVE ScreensInv
  OBVIOUS
<1>1. PICK n : n = [what |-> "session", wanted |-> TRUE, got |-> V!Sent]
  OBVIOUS
<1>2. asking = {n} /\ n \in V!Request /\ n.what = "session" /\ n.got = V!Sent
  BY <1>1, NewRequest DEF V!ScreensInit
<1>3. V!ScreensTypeOK
  <2>1. asking \subseteq V!Request
    BY <1>2
  <2>2. sockets \in [V!SocketIds -> {"unused", "opening", "open", "closing"}]
    BY DEF V!ScreensInit
  <2>3. pulses \in [V!SocketIds -> -1..LastVersion]
    BY DEF V!ScreensInit, V!ScreensAssumption
  <2>4. /\ valid \in BOOLEAN /\ gateFailed \in BOOLEAN /\ connected \in BOOLEAN
        /\ unread \in {"none", "error", "refused"} /\ gate \in {"unread", "in", "out"}
    BY DEF V!ScreensInit
  <2>5. /\ latest \in 0..LastVersion /\ shown \in -1..LastVersion /\ promised \in 0..LastVersion
        /\ breaks \in 0..MaxBreaks /\ timers \in Nat /\ current \in 0..MaxSockets
    BY DEF V!ScreensInit, V!ScreensAssumption
  <2>6. QED
    BY <2>1, <2>2, <2>3, <2>4, <2>5 DEF V!ScreensTypeOK
<1>4. OneWanted(asking) /\ \A r \in asking : Trusted(r)
  BY <1>2 DEF OneWanted, Trusted
<1>5. OfThePast /\ V!KeepsUp /\ Knocking
  BY DEF V!ScreensInit, OfThePast, V!KeepsUp, V!Mounted, Knocking
<1>6. Plugged
  BY DEF V!ScreensInit, Plugged
<1>7. QED
  BY <1>3, <1>4, <1>5, <1>6 DEF ScreensInv, Screened

\* A browser's part of the state that is no request.
LEMMA ScreensTyping ==
  ASSUME V!ScreensAssumption, V!ScreensTypeOK
  PROVE  /\ asking \subseteq V!Request /\ \A r \in asking : r \in V!Request /\ r.got \in Int
         /\ latest \in Int /\ shown \in Int /\ promised \in Int /\ LastVersion \in Nat
         /\ \A s \in V!SocketIds : pulses[s] \in Int
BY RequestsAre DEF V!ScreensTypeOK, V!ScreensAssumption

LEMMA Served ==
  ASSUME V!ScreensAssumption, Screened, NEW r \in asking, V!Serve(r) PROVE Screened'
<1> USE DEF V!Sent, V!Refused, V!In, V!Out
<1>1. r.got = V!Sent /\ r \in V!Request /\ Trusted(r)
  BY DEF V!Serve, Screened, V!ScreensTypeOK
<1>2. PICK n : n = [r EXCEPT !.got = IF r.what = "session" THEN (IF valid THEN V!In ELSE V!Out)
                                     ELSE IF valid THEN latest' ELSE V!Refused]
  OBVIOUS
<1>3. /\ asking' = (asking \ {r}) \cup {n}
      /\ UNCHANGED <<valid, shown, unread, gate, gateFailed, sockets, current, timers, connected,
                     pulses, promised, breaks>>
  BY <1>2 DEF V!Serve
<1>4. /\ latest' \in 0..LastVersion /\ latest <= latest' /\ latest \in 0..LastVersion
      /\ LastVersion \in Nat \ {0}
  BY <1>1 DEF V!Serve, V!ScreensAssumption, Screened, V!ScreensTypeOK
<1>5. /\ n \in V!Request /\ n.what = r.what /\ n.wanted = r.wanted
      /\ r.what = "session" => n.got \in {V!In, V!Out} /\ (n.got = V!In => valid)
      /\ r.what # "session" => n.got = IF valid THEN latest' ELSE V!Refused
  BY <1>1, <1>2, <1>4 DEF V!Request
<1>6. V!ScreensTypeOK'
  <2>1. asking' \subseteq V!Request
    BY <1>3, <1>5 DEF Screened, V!ScreensTypeOK
  <2>2. QED
    BY <1>3, <1>4, <2>1 DEF Screened, V!ScreensTypeOK
<1>7. OneWanted(asking')
  BY <1>3, <1>5 DEF Screened, OneWanted
<1>8. OfThePast'
  BY <1>3, <1>4, ScreensTyping DEF Screened, OfThePast
<1>9. ASSUME NEW q \in asking' PROVE Trusted(q)'
  <2>1. CASE q \in asking
    <3>1. Trusted(q) /\ q.got \in Int
      BY <2>1, ScreensTyping DEF Screened
    <3>2. q.got <= latest => q.got <= latest'
      BY <1>4, <3>1
    <3>3. QED
      BY <1>3, <3>1, <3>2 DEF Trusted
  <2>2. CASE q = n
    <3>1. shown <= latest' /\ promised <= latest'
      BY <1>3, <1>8 DEF OfThePast
    <3>2. r.what = "screen" => n.got <= latest' /\ (n.got = V!Refused => ~valid)
                               /\ (n.got >= 0 => n.got = latest')
      BY <1>4, <1>5
    <3>3. r.what = "deed" => n.got <= latest'
      BY <1>4, <1>5
    <3>4. QED
      BY <1>1, <1>3, <1>5, <2>2, <3>1, <3>2, <3>3 DEF Trusted
  <2>3. QED
    BY <1>3, <2>1, <2>2
<1>10. V!KeepsUp'
  <2>1. (\E q \in asking : q.what = "screen" /\ q.wanted)
          => \E q \in asking' : q.what = "screen" /\ q.wanted
    BY <1>3, <1>5
  <2>2. QED
    BY <1>3, <2>1 DEF Screened, V!KeepsUp, V!Mounted
<1>11. Knocking'
  <2>1. (\E q \in asking : q.what = "session" /\ q.wanted)
          => \E q \in asking' : q.what = "session" /\ q.wanted
    BY <1>3, <1>5
  <2>2. ~valid /\ (\A q \in asking : q.what = "session" /\ q.wanted => q.got # V!In) =>
          \A q \in asking' : q.what = "session" /\ q.wanted => q.got # V!In
    BY <1>3, <1>5
  <2>3. QED
    BY <1>3, <2>1, <2>2 DEF Screened, Knocking
<1>12. QED
  BY <1>6, <1>7, <1>8, <1>9, <1>10, <1>11 DEF Screened

\* What stays of the requests when one of them is taken off.
LEMMA OneLess ==
  ASSUME V!ScreensAssumption, Screened, NEW r \in asking
  PROVE  /\ asking \ {r} \subseteq V!Request /\ OneWanted(asking \ {r})
         /\ \A q \in asking \ {r} : q \in V!Request /\ q.got \in Int /\ Trusted(q)
         /\ r \in V!Request /\ r.got \in Int /\ Trusted(r)
BY ScreensTyping DEF Screened, OneWanted

\* A request that goes out again leaves the others to be heard as they were.
LEMMA TrustedAgain ==
  ASSUME V!ScreensAssumption, Screened, NEW rs \in SUBSET asking, NEW what \in {"screen", "session"},
         gate = "in" \/ what = "session", NEW q \in V!Reloaded(what, rs)
  PROVE  Trusted(q)
<1>1. PICK n : n = [what |-> what, wanted |-> TRUE, got |-> V!Sent]
  OBVIOUS
<1>2. rs \in SUBSET V!Request /\ \A r \in rs : Trusted(r)
  BY ScreensTyping DEF Screened
<1>3. \/ q = n
      \/ q.what = what /\ ~q.wanted /\ \E r \in rs : r.what = what /\ q.got = r.got
      \/ q.what # what /\ q \in rs
  BY <1>1, <1>2, AskedAgain
<1>4. CASE q = n
  <2>1. latest \in 0..LastVersion
    BY DEF Screened, V!ScreensTypeOK
  <2>2. QED
    BY <1>1, <1>4, <2>1 DEF Trusted, V!Sent, V!Refused, V!ScreensAssumption
<1>5. CASE q.what = what /\ ~q.wanted /\ \E r \in rs : r.what = what /\ q.got = r.got
  BY <1>2, <1>5 DEF Trusted
<1>6. CASE q.what # what /\ q \in rs
  BY <1>2, <1>6
<1>7. QED
  BY <1>3, <1>4, <1>5, <1>6

LEMMA ScreenIsAnswered ==
  ASSUME V!ScreensAssumption, Screened, NEW r \in asking, V!ScreenAnswered(r)
  PROVE  Screened' /\ (shown' >= shown)
<1> DEFINE rest == asking \ {r}
<1>1. /\ r.what = "screen" /\ r.got # V!Sent
      /\ asking' = IF r.got = V!Refused THEN V!Reloaded("session", rest) ELSE rest
      /\ IF ~r.wanted THEN UNCHANGED <<shown, unread>>
         ELSE IF r.got = V!Refused THEN unread' = "refused" /\ UNCHANGED shown
         ELSE shown' = r.got /\ unread' = "none"
      /\ UNCHANGED <<latest, valid, gate, gateFailed, sockets, current, timers, connected, pulses,
                     promised, breaks>>
  BY DEF V!ScreenAnswered, V!Counts, V!Unauthorized
<1>2. /\ rest \in SUBSET asking /\ rest \in SUBSET V!Request /\ OneWanted(rest)
      /\ \A q \in rest : Trusted(q)
      /\ Trusted(r) /\ r \in V!Request
  BY OneLess
<1>3. r.got = V!Refused \/ (r.got \in 0..LastVersion /\ r.got >= 0)
  BY <1>1, <1>2, RequestsAre
<1>4. /\ asking' \subseteq V!Request /\ OneWanted(asking')
      /\ \A q \in asking' : Trusted(q)
      /\ \A q \in asking' : q.what = "screen" /\ q.wanted => q \in rest
      /\ \A q \in asking' : q.what = "session" /\ q.wanted => q.got = V!Sent \/ q \in asking
      /\ \A q \in rest : q.what = "screen" => q \in asking'
  <2>1. CASE r.got = V!Refused
    <3>1. PICK n : n = [what |-> "session", wanted |-> TRUE, got |-> V!Sent]
      OBVIOUS
    <3>2. /\ asking' \subseteq V!Request
          /\ \A q \in asking' : \/ q = n
                                \/ q.what = "session" /\ ~q.wanted
                                \/ q.what # "session" /\ q \in rest
          /\ \A q \in rest : q.what # "session" => q \in asking'
      BY <1>1, <1>2, <2>1, <3>1, AskedAgain
    <3>3. OneWanted(asking')
      BY <1>1, <1>2, <2>1, StillOneWanted
    <3>4. \A q \in asking' : Trusted(q)
      BY <1>1, <1>2, <2>1, TrustedAgain
    <3>5. QED
      BY <3>1, <3>2, <3>3, <3>4
  <2>2. CASE r.got # V!Refused
    <3>1. asking' = rest
      BY <1>1, <2>2
    <3>2. QED
      BY <1>2, <3>1
  <2>3. QED
    BY <2>1, <2>2
<1>5. r.wanted => \A q \in asking' : q.what = "screen" => ~q.wanted
  BY <1>1, <1>4 DEF Screened, OneWanted
<1>6. /\ shown \in Int /\ promised \in Int /\ latest \in Int
      /\ r.wanted /\ r.got # V!Refused =>
           shown' >= shown /\ shown' <= latest /\ shown' >= promised /\ unread' = "none"
           /\ shown' \in -1..LastVersion
  BY <1>1, <1>2, <1>3, ScreensTyping DEF Trusted, Screened
<1> HIDE DEF rest
<1>7. V!ScreensTypeOK'
  BY <1>1, <1>4, <1>6 DEF Screened, V!ScreensTypeOK
<1>8. OfThePast'
  BY <1>1, <1>6 DEF Screened, OfThePast
<1>9. ASSUME NEW q \in asking' PROVE Trusted(q)'
  BY <1>1, <1>4, <1>5 DEF Trusted
<1>10. V!KeepsUp'
  <2>1. CASE r.wanted
    BY <1>1, <1>6, <2>1 DEF V!KeepsUp, V!Mounted
  <2>2. CASE ~r.wanted
    <3>1. \A q \in asking : q.what = "screen" /\ q.wanted => q \in asking'
      BY <1>4, <2>2 DEF rest
    <3>2. QED
      BY <1>1, <2>2, <3>1 DEF Screened, V!KeepsUp, V!Mounted
  <2>3. QED
    BY <2>1, <2>2
<1>11. Knocking'
  <2>1. CASE r.got = V!Refused
    <3>1. PICK n : n = [what |-> "session", wanted |-> TRUE, got |-> V!Sent]
      OBVIOUS
    <3>2. /\ n \in asking' /\ n.what = "session" /\ n.wanted
          /\ \A q \in asking' : q.what = "session" /\ q.wanted => q.got = V!Sent
      BY <1>1, <1>2, <2>1, <3>1, AskedAgain
    <3>3. r.wanted => ~valid /\ gate = "in"
      BY <1>1, <1>2, <2>1 DEF Trusted
    <3>4. QED
      BY <1>1, <2>1, <3>2, <3>3 DEF Screened, Knocking, V!Sent, V!In
  <2>2. CASE r.got # V!Refused
    <3>1. asking' = asking \ {r}
      BY <1>1, <2>2 DEF rest
    <3>2. (\E q \in asking : q.what = "session" /\ q.wanted)
            => \E q \in asking' : q.what = "session" /\ q.wanted
      BY <1>1, <3>1
    <3>3. QED
      BY <1>1, <2>2, <3>1, <3>2 DEF Screened, Knocking
  <2>3. QED
    BY <2>1, <2>2
<1>12. shown' >= shown
  BY <1>1, <1>6
<1>13. QED
  BY <1>4, <1>7, <1>8, <1>9, <1>10, <1>11, <1>12 DEF Screened

LEMMA SessionIsAnswered ==
  ASSUME V!ScreensAssumption, Screened, NEW r \in asking, V!SessionAnswered(r)
  PROVE  Screened' /\ (shown' = -1 \/ shown' = shown)
<1> DEFINE rest == asking \ {r}
<1>1. /\ r.what = "session" /\ r.got # V!Sent
      /\ UNCHANGED <<latest, valid, connected, pulses, breaks>>
  BY DEF V!SessionAnswered
<1>2. /\ rest \in SUBSET asking /\ rest \in SUBSET V!Request /\ OneWanted(rest)
      /\ \A q \in rest : Trusted(q)
      /\ Trusted(r) /\ r \in V!Request
  BY OneLess
<1>3. r.got = V!In \/ r.got = V!Out
  BY <1>1, <1>2 DEF Trusted
<1>4. \A q \in asking : q.what = "screen" => q \in rest
  BY <1>1
<1>5. /\ shown \in Int /\ promised \in Int /\ latest \in Int /\ latest >= 0
      /\ \A q \in asking : q.got \in Int
  BY ScreensTyping DEF Screened, V!ScreensTypeOK, V!ScreensAssumption
<1>6. CASE ~r.wanted
  <2>1. asking' = rest /\ UNCHANGED <<gate, gateFailed, shown, unread, promised, timers, sockets,
                                      current>>
    BY <1>6 DEF V!SessionAnswered, V!Counts
  <2>2. V!ScreensTypeOK'
    BY <1>1, <1>2, <2>1 DEF Screened, V!ScreensTypeOK
  <2>3. \A q \in asking' : Trusted(q)'
    BY <1>1, <1>2, <2>1 DEF Trusted
  <2>4. OfThePast' /\ V!KeepsUp' /\ OneWanted(asking')
    BY <1>1, <1>2, <1>4, <2>1 DEF Screened, OfThePast, V!KeepsUp, V!Mounted
  <2>5. Knocking'
    <3>1. (\E q \in asking : q.what = "session" /\ q.wanted)
            => \E q \in asking' : q.what = "session" /\ q.wanted
      BY <1>6, <2>1
    <3>2. QED
      BY <1>1, <2>1, <3>1 DEF Screened, Knocking
  <2>6. QED
    BY <2>1, <2>2, <2>3, <2>4, <2>5 DEF Screened
<1>7. ASSUME r.wanted
      PROVE  /\ gate' = (IF r.got = V!In THEN "in" ELSE "out") /\ gateFailed' = FALSE
             /\ r.got = V!In /\ gate # "in" => V!PutUp(rest)
             /\ r.got = V!Out /\ gate = "in" => V!TakenDown(rest)
             /\ ~(r.got = V!In /\ gate # "in") /\ ~(r.got = V!Out /\ gate = "in") =>
                  asking' = rest /\ UNCHANGED <<shown, unread, promised, timers, sockets, current>>
             /\ \A q \in rest : q.what = "session" => ~q.wanted
  <2>1. \A q \in rest : q.what = "session" => ~q.wanted
    BY <1>1, <1>7 DEF Screened, OneWanted
  <2>2. r.got = V!In => r.got # V!Out
    BY DEF V!In, V!Out
  <2>3. QED
    BY <1>7, <2>1, <2>2 DEF V!SessionAnswered, V!Counts, V!Mounted
<1>8. CASE r.wanted /\ r.got = V!In /\ gate # "in"
  <2>1. /\ asking' = V!Reloaded("screen", rest) /\ gate' = "in" /\ gateFailed' = FALSE
        /\ UNCHANGED <<shown, unread, promised, timers>>
        /\ \E s \in V!SocketIds : V!OpenSocket(s)
    BY <1>7, <1>8 DEF V!PutUp
  <2>2. PICK n : n = [what |-> "screen", wanted |-> TRUE, got |-> V!Sent]
    OBVIOUS
  <2>3. /\ asking' \subseteq V!Request
        /\ \A q \in asking' :
             \/ q = n
             \/ q.what = "screen" /\ ~q.wanted
             \/ q.what # "screen" /\ q \in rest
        /\ n \in asking' /\ n.what = "screen" /\ n.wanted /\ n.got = V!Sent
    BY <1>2, <2>1, <2>2, AskedAgain
  <2>4. OneWanted(asking')
    BY <1>2, <2>1, StillOneWanted
  <2>5. unread = "none"
    BY <1>8 DEF Screened, Knocking
  <2>6. V!ScreensTypeOK'
    <3>1. /\ sockets' \in [V!SocketIds -> {"unused", "opening", "open", "closing"}]
          /\ current' \in 0..MaxSockets
      BY <2>1 DEF Screened, V!ScreensTypeOK, V!OpenSocket, V!SocketIds, V!ScreensAssumption
    <3>2. gate' \in {"unread", "in", "out"} /\ gateFailed' \in BOOLEAN
      BY <2>1
    <3>3. QED
      BY <1>1, <2>1, <2>3, <3>1, <3>2 DEF Screened, V!ScreensTypeOK
  <2>7. ASSUME NEW q \in asking' PROVE Trusted(q)'
    <3>1. CASE q = n
      BY <1>1, <1>5, <2>1, <2>3, <3>1 DEF Trusted, V!Sent, V!Refused
    <3>2. CASE q # n
      BY <1>1, <1>2, <2>3, <3>2 DEF Trusted
    <3>3. QED
      BY <3>1, <3>2
  <2>8. OfThePast' /\ V!KeepsUp' /\ Knocking'
    BY <1>1, <2>1, <2>3, <2>5 DEF Screened, OfThePast, V!KeepsUp, Knocking
  <2>9. QED
    BY <2>1, <2>4, <2>6, <2>7, <2>8 DEF Screened
<1>9. CASE r.wanted /\ r.got = V!Out /\ gate = "in"
  <2>1. /\ asking' = V!Unwanted("screen", rest) /\ gate' = "out" /\ gateFailed' = FALSE
        /\ shown' = -1 /\ unread' = "none" /\ promised' = 0
        /\ timers' = (IF timers > 0 THEN timers - 1 ELSE 0) /\ current' = 0
        /\ sockets' = [s \in V!SocketIds |->
                         IF s = current /\ sockets[s] \in {"opening", "open"} THEN "closing"
                         ELSE sockets[s]]
    BY <1>7, <1>9 DEF V!TakenDown, V!In, V!Out
  <2>2. /\ asking' \subseteq V!Request
        /\ \A q \in asking' : \/ q.what = "screen" /\ ~q.wanted
                              \/ q.what # "screen" /\ q \in rest
    BY <1>2, <2>1, NoLongerAsked
  <2>3. OneWanted(asking')
    BY <1>2, <2>1, StillOneWanted
  <2>4. sockets' \in [V!SocketIds -> {"unused", "opening", "open", "closing"}]
    BY <2>1 DEF Screened, V!ScreensTypeOK
  <2>5. V!ScreensTypeOK'
    <3>1. /\ shown' \in -1..LastVersion /\ promised' \in 0..LastVersion
          /\ timers' \in Nat /\ current' \in 0..MaxSockets
      BY <2>1 DEF Screened, V!ScreensTypeOK, V!ScreensAssumption
    <3>2. /\ gate' \in {"unread", "in", "out"} /\ gateFailed' \in BOOLEAN
          /\ unread' \in {"none", "error", "refused"}
      BY <2>1
    <3>3. QED
      BY <1>1, <2>2, <2>4, <3>1, <3>2 DEF Screened, V!ScreensTypeOK
  <2>6. \A q \in asking' : Trusted(q)'
    BY <1>1, <1>2, <2>2 DEF Trusted
  <2>7. OfThePast' /\ V!KeepsUp' /\ Knocking'
    BY <1>1, <1>5, <2>1 DEF Screened, OfThePast, V!KeepsUp, V!Mounted, Knocking
  <2>8. QED
    BY <2>1, <2>3, <2>5, <2>6, <2>7 DEF Screened
<1>10. CASE r.wanted /\ (r.got = V!In <=> gate = "in")
  <2>1. asking' = rest /\ UNCHANGED <<shown, unread, promised, timers, sockets, current>>
    BY <1>3, <1>7, <1>10 DEF V!In, V!Out
  <2>2. /\ gate' = "in" <=> gate = "in"
        /\ gate' \in {"in", "out"} /\ gateFailed' \in BOOLEAN
    BY <1>7, <1>10 DEF V!SessionAnswered, V!Counts
  <2>3. V!ScreensTypeOK'
    BY <1>1, <1>2, <2>1, <2>2 DEF Screened, V!ScreensTypeOK
  <2>4. \A q \in asking' : Trusted(q)'
    BY <1>1, <1>2, <2>1, <2>2 DEF Trusted
  <2>5. OfThePast' /\ V!KeepsUp' /\ OneWanted(asking')
    BY <1>1, <1>2, <1>4, <2>1, <2>2 DEF Screened, OfThePast, V!KeepsUp, V!Mounted
  <2>6. unread # "refused"
    BY <1>1, <1>10 DEF Screened, Knocking
  <2>7. Knocking'
    BY <2>1, <2>2, <2>6 DEF Screened, Knocking
  <2>8. QED
    BY <2>1, <2>3, <2>4, <2>5, <2>7 DEF Screened
<1>11. QED
  BY <1>3, <1>6, <1>8, <1>9, <1>10 DEF V!In, V!Out

LEMMA DeedIsAnswered ==
  ASSUME V!ScreensAssumption, Screened, NEW r \in asking, V!DeedAnswered(r)
  PROVE  Screened' /\ shown' = shown
<1> DEFINE rest == asking \ {r}
<1>1. /\ r.what = "deed" /\ r.got # V!Sent
      /\ IF r.got = V!Refused THEN asking' = V!Reloaded("session", rest) /\ UNCHANGED promised
         ELSE IF gate = "in"
         THEN asking' = V!Reloaded("screen", rest)
              /\ promised' = IF r.got > promised THEN r.got ELSE promised
         ELSE asking' = rest /\ UNCHANGED promised
      /\ UNCHANGED <<latest, valid, shown, unread, gate, gateFailed, sockets, current, timers,
                     connected, pulses, breaks>>
  BY DEF V!DeedAnswered, V!Unauthorized, V!Mounted
<1>2. /\ rest \in SUBSET asking /\ rest \in SUBSET V!Request /\ OneWanted(rest)
      /\ \A q \in rest : Trusted(q)
      /\ Trusted(r) /\ r \in V!Request
  BY OneLess
<1>3. \A q \in asking : q.what # "deed" => q \in rest
  BY <1>1
<1>4. /\ shown \in Int /\ promised \in Int /\ latest \in 0..LastVersion /\ r.got \in Int
      /\ r.got # V!Refused => r.got \in 0..LastVersion
  BY <1>1, <1>2, ScreensTyping, RequestsAre DEF Screened, V!ScreensTypeOK, V!ScreensAssumption
<1>5. r.got <= latest
  BY <1>1, <1>2 DEF Trusted
<1>6. CASE r.got = V!Refused
  <2>1. asking' = V!Reloaded("session", rest) /\ UNCHANGED promised
    BY <1>1, <1>6
  <2>2. PICK n : n = [what |-> "session", wanted |-> TRUE, got |-> V!Sent]
    OBVIOUS
  <2>3. /\ asking' \subseteq V!Request
        /\ \A q \in asking' : \/ q = n
                              \/ q.what = "session" /\ ~q.wanted
                              \/ q.what # "session" /\ q \in rest
        /\ \A q \in rest : q.what # "session" => q \in asking'
        /\ n \in asking' /\ n.what = "session" /\ n.wanted /\ n.got = V!Sent
    BY <1>2, <2>1, <2>2, AskedAgain
  <2>4. OneWanted(asking')
    BY <1>2, <2>1, StillOneWanted
  <2>5. \A q \in asking' : Trusted(q)
    BY <1>2, <2>1, TrustedAgain
  <2>6. \A q \in asking' : Trusted(q)'
    BY <1>1, <2>1, <2>5 DEF Trusted
  <2>7. V!ScreensTypeOK'
    BY <1>1, <2>1, <2>3 DEF Screened, V!ScreensTypeOK
  <2>8. OfThePast'
    BY <1>1, <2>1 DEF Screened, OfThePast
  <2>9. V!KeepsUp'
    <3>1. (\E q \in asking : q.what = "screen" /\ q.wanted)
            => \E q \in asking' : q.what = "screen" /\ q.wanted
      BY <1>3, <2>3
    <3>2. QED
      BY <1>1, <2>1, <3>1 DEF Screened, V!KeepsUp, V!Mounted
  <2>10. Knocking'
    <3>1. \A q \in asking' : q.what = "session" /\ q.wanted => q.got # V!In
      BY <2>3 DEF V!Sent, V!In
    <3>2. QED
      BY <1>1, <2>3, <3>1 DEF Screened, Knocking
  <2>11. QED
    BY <1>1, <2>4, <2>6, <2>7, <2>8, <2>9, <2>10 DEF Screened
<1>7. CASE r.got # V!Refused /\ gate = "in"
  <2>1. /\ asking' = V!Reloaded("screen", rest)
        /\ promised' = IF r.got > promised THEN r.got ELSE promised
    BY <1>1, <1>7
  <2>2. PICK n : n = [what |-> "screen", wanted |-> TRUE, got |-> V!Sent]
    OBVIOUS
  <2>3. /\ asking' \subseteq V!Request
        /\ \A q \in asking' : \/ q = n
                              \/ q.what = "screen" /\ ~q.wanted
                              \/ q.what # "screen" /\ q \in rest
        /\ \A q \in rest : q.what # "screen" => q \in asking'
        /\ n \in asking' /\ n.what = "screen" /\ n.wanted /\ n.got = V!Sent
    BY <1>2, <2>1, <2>2, AskedAgain
  <2>4. OneWanted(asking')
    BY <1>2, <2>1, StillOneWanted
  <2>5. promised' <= latest /\ promised' \in 0..LastVersion
    BY <1>4, <1>5, <1>7, <2>1 DEF Screened, OfThePast, V!ScreensTypeOK
  <2>6. ASSUME NEW q \in asking' PROVE Trusted(q)'
    <3>1. CASE q = n
      BY <1>1, <1>4, <1>7, <2>3, <3>1 DEF Trusted, V!Sent, V!Refused, V!ScreensAssumption
    <3>2. CASE q # n
      BY <1>1, <1>2, <2>3, <3>2 DEF Trusted
    <3>3. QED
      BY <3>1, <3>2
  <2>7. V!ScreensTypeOK'
    BY <1>1, <2>3, <2>5 DEF Screened, V!ScreensTypeOK
  <2>8. OfThePast' /\ V!KeepsUp'
    BY <1>1, <2>3, <2>5 DEF Screened, OfThePast, V!KeepsUp
  <2>9. Knocking'
    <3>1. /\ \A q \in asking' : q.what = "session" /\ q.wanted => q \in asking
          /\ \A q \in asking : q.what = "session" => q \in asking'
      BY <1>3, <2>3
    <3>2. QED
      BY <1>1, <3>1 DEF Screened, Knocking
  <2>10. QED
    BY <1>1, <2>4, <2>6, <2>7, <2>8, <2>9 DEF Screened
<1>8. CASE r.got # V!Refused /\ gate # "in"
  <2>1. asking' = rest /\ UNCHANGED promised
    BY <1>1, <1>8
  <2>2. V!ScreensTypeOK'
    BY <1>1, <1>2, <2>1 DEF Screened, V!ScreensTypeOK
  <2>3. \A q \in asking' : Trusted(q)'
    BY <1>1, <1>2, <2>1 DEF Trusted
  <2>4. OfThePast' /\ V!KeepsUp' /\ OneWanted(asking')
    BY <1>1, <1>2, <1>8, <2>1 DEF Screened, OfThePast, V!KeepsUp, V!Mounted
  <2>5. Knocking'
    BY <1>1, <1>8, <2>1 DEF Screened, Knocking
  <2>6. QED
    BY <1>1, <2>1, <2>2, <2>3, <2>4, <2>5 DEF Screened
<1>9. QED
  BY <1>6, <1>7, <1>8

LEMMA RequestIsLost ==
  ASSUME V!ScreensAssumption, Screened, NEW r \in asking, V!RequestFails(r)
  PROVE  Screened' /\ shown' = shown
<1>1. /\ asking' = asking \ {r}
      /\ unread' = IF r.what = "screen" /\ r.wanted THEN "error" ELSE unread
      /\ gateFailed' = (gateFailed \/ (r.what = "session" /\ r.wanted))
      /\ breaks < MaxBreaks /\ breaks' = breaks + 1
      /\ UNCHANGED <<latest, valid, shown, gate, sockets, current, timers, connected, pulses,
                     promised>>
  BY DEF V!RequestFails, V!Break
<1>2. /\ asking' \subseteq V!Request /\ OneWanted(asking')
      /\ \A q \in asking' : Trusted(q)
      /\ Trusted(r)
  BY <1>1, OneLess
<1>3. V!ScreensTypeOK'
  <2>1. breaks' \in 0..MaxBreaks /\ gateFailed' \in BOOLEAN
    BY <1>1 DEF Screened, V!ScreensTypeOK, V!ScreensAssumption
  <2>2. unread' \in {"none", "error", "refused"}
    BY <1>1 DEF Screened, V!ScreensTypeOK
  <2>3. QED
    BY <1>1, <1>2, <2>1, <2>2 DEF Screened, V!ScreensTypeOK
<1>4. \A q \in asking' : Trusted(q)'
  BY <1>1, <1>2 DEF Trusted
<1>5. OfThePast'
  BY <1>1 DEF Screened, OfThePast
<1>6. V!KeepsUp'
  BY <1>1 DEF Screened, V!KeepsUp, V!Mounted
<1>7. Knocking'
  <2>1. r.what = "screen" /\ r.wanted => gate = "in"
    BY <1>2 DEF Trusted
  <2>2. (\E q \in asking : q.what = "session" /\ q.wanted)
          => gateFailed' \/ \E q \in asking' : q.what = "session" /\ q.wanted
    BY <1>1
  <2>3. unread' = "refused" => unread = "refused"
    BY <1>1
  <2>4. QED
    BY <1>1, <2>1, <2>2, <2>3 DEF Screened, Knocking
<1>8. QED
  BY <1>1, <1>2, <1>3, <1>4, <1>5, <1>6, <1>7 DEF Screened

\* A pulse makes the screen be read again, as the session is when an operator signs in or out.
LEMMA Asks ==
  ASSUME V!ScreensAssumption, Screened, NEW what \in {"screen", "session"},
         gate = "in" \/ what = "session", asking' = V!Reloaded(what, asking)
  PROVE  /\ asking' \subseteq V!Request /\ OneWanted(asking') /\ \A q \in asking' : Trusted(q)
         /\ \A q \in asking' : \/ q.what = what /\ q.wanted /\ q.got = V!Sent
                               \/ q.what = what /\ ~q.wanted
                               \/ q.what # what /\ q \in asking
         /\ \A q \in asking : q.what # what => q \in asking'
         /\ \E q \in asking' : q.what = what /\ q.wanted
<1>1. PICK n : n = [what |-> what, wanted |-> TRUE, got |-> V!Sent]
  OBVIOUS
<1>2. asking \in SUBSET V!Request /\ OneWanted(asking) /\ asking \in SUBSET asking
  BY DEF Screened, V!ScreensTypeOK
<1>3. n.what = what /\ n.wanted /\ n.got = V!Sent
  BY <1>1
<1>4. /\ asking' \subseteq V!Request
      /\ \A q \in asking' : \/ q = n
                            \/ q.what = what /\ ~q.wanted
                            \/ q.what # what /\ q \in asking
      /\ \A q \in asking : q.what # what => q \in asking'
      /\ n \in asking'
  BY <1>1, <1>2, AskedAgain
<1>5. OneWanted(asking')
  BY <1>2, StillOneWanted
<1>6. \A q \in asking' : Trusted(q)
  BY <1>2, TrustedAgain
<1>7. QED
  BY <1>3, <1>4, <1>5, <1>6

LEMMA PulseKeeps ==
  ASSUME V!ScreensAssumption, Screened, NEW s \in V!SocketIds, V!Pulse(s)
  PROVE  Screened' /\ shown' = shown
<1>1. /\ pulses' = [pulses EXCEPT ![s] = -1]
      /\ IF gate = "in"
         THEN asking' = V!Reloaded("screen", asking)
              /\ promised' = IF pulses[s] > promised THEN pulses[s] ELSE promised
         ELSE UNCHANGED <<asking, promised>>
      /\ UNCHANGED <<latest, valid, shown, unread, gate, gateFailed, sockets, current, timers,
                     connected, breaks>>
  BY DEF V!Pulse, V!OnPulse, V!Mounted
<1>2. /\ latest \in 0..LastVersion /\ promised \in 0..LastVersion /\ pulses[s] \in -1..LastVersion
      /\ pulses[s] <= latest /\ promised <= latest /\ LastVersion \in Nat
      /\ pulses \in [V!SocketIds -> -1..LastVersion]
  BY DEF Screened, V!ScreensTypeOK, OfThePast, V!ScreensAssumption
<1>3. /\ pulses' \in [V!SocketIds -> -1..LastVersion] /\ \A t \in V!SocketIds : pulses'[t] <= latest
      /\ promised' \in 0..LastVersion /\ promised' <= latest
  BY <1>1, <1>2 DEF Screened, OfThePast
<1>4. OfThePast'
  BY <1>1, <1>3 DEF Screened, OfThePast
<1>5. CASE gate = "in"
  <2>1. asking' = V!Reloaded("screen", asking)
    BY <1>1, <1>5
  <2>2. /\ asking' \subseteq V!Request /\ OneWanted(asking') /\ \A q \in asking' : Trusted(q)
        /\ \A q \in asking' : \/ q.what = "screen" /\ q.wanted /\ q.got = V!Sent
                              \/ q.what = "screen" /\ ~q.wanted
                              \/ q.what # "screen" /\ q \in asking
        /\ \A q \in asking : q.what # "screen" => q \in asking'
        /\ \E q \in asking' : q.what = "screen" /\ q.wanted
    BY <1>5, <2>1, Asks
  <2>3. V!ScreensTypeOK'
    BY <1>1, <1>3, <2>2 DEF Screened, V!ScreensTypeOK
  <2>4. \A q \in asking' : Trusted(q)'
    BY <1>1, <2>2 DEF Trusted, V!Sent
  <2>5. V!KeepsUp'
    BY <2>2 DEF V!KeepsUp
  <2>6. Knocking'
    BY <1>1, <2>2 DEF Screened, Knocking
  <2>7. QED
    BY <1>1, <1>4, <2>2, <2>3, <2>4, <2>5, <2>6 DEF Screened
<1>6. CASE gate # "in"
  <2>1. UNCHANGED <<asking, promised>>
    BY <1>1, <1>6
  <2>2. V!ScreensTypeOK'
    BY <1>1, <1>3, <2>1 DEF Screened, V!ScreensTypeOK
  <2>3. \A q \in asking' : Trusted(q)'
    BY <1>1, <2>1 DEF Screened, Trusted
  <2>4. V!KeepsUp' /\ Knocking' /\ OneWanted(asking')
    BY <1>1, <1>6, <2>1 DEF Screened, V!KeepsUp, V!Mounted, Knocking
  <2>5. QED
    BY <1>1, <1>4, <2>2, <2>3, <2>4 DEF Screened
<1>7. QED
  BY <1>5, <1>6

\* The session is read again, whatever becomes of it.
LEMMA SessionIsRead ==
  ASSUME V!ScreensAssumption, Screened, V!SignOut \/ V!SignIn
  PROVE  Screened' /\ shown' = shown
<1>1. /\ asking' = V!Reloaded("session", asking) /\ valid' \in BOOLEAN
      /\ breaks' \in 0..MaxBreaks
      /\ valid' => gate = "out"
      /\ UNCHANGED <<latest, shown, unread, gate, gateFailed, sockets, current, timers, connected,
                     pulses, promised>>
  <2>1. breaks \in 0..MaxBreaks /\ MaxBreaks \in Nat
    BY DEF Screened, V!ScreensTypeOK, V!ScreensAssumption
  <2>2. CASE V!SignOut
    <3>1. valid' = FALSE /\ breaks' \in 0..MaxBreaks
      BY <2>1, <2>2 DEF V!SignOut, V!Break
    <3>2. QED
      BY <2>2, <3>1 DEF V!SignOut
  <2>3. CASE V!SignIn
    <3>1. valid' = TRUE /\ gate = "out" /\ breaks' = breaks
      BY <2>3 DEF V!SignIn
    <3>2. QED
      BY <2>1, <2>3, <3>1 DEF V!SignIn
  <2>4. QED
    BY <2>2, <2>3
<1>2. /\ asking' \subseteq V!Request /\ OneWanted(asking') /\ \A q \in asking' : Trusted(q)
      /\ \A q \in asking' : \/ q.what = "session" /\ q.wanted /\ q.got = V!Sent
                            \/ q.what = "session" /\ ~q.wanted
                            \/ q.what # "session" /\ q \in asking
      /\ \A q \in asking : q.what # "session" => q \in asking'
      /\ \E q \in asking' : q.what = "session" /\ q.wanted
  BY <1>1, Asks
<1>3. V!ScreensTypeOK'
  BY <1>1, <1>2 DEF Screened, V!ScreensTypeOK
<1>4. \A q \in asking' : Trusted(q)'
  BY <1>1, <1>2 DEF Trusted
<1>5. OfThePast' /\ V!KeepsUp'
  BY <1>1, <1>2 DEF Screened, OfThePast, V!KeepsUp, V!Mounted
<1>6. Knocking'
  <2>1. \A q \in asking' : q.what = "session" /\ q.wanted => q.got # V!In
    BY <1>2 DEF V!Sent, V!In
  <2>2. QED
    BY <1>1, <1>2, <2>1 DEF Screened, Knocking
<1>7. QED
  BY <1>1, <1>2, <1>3, <1>4, <1>5, <1>6 DEF Screened

\* What an operator sets off, and what the server and the sockets do by themselves.
LEMMA DeedKeeps ==
  ASSUME V!ScreensAssumption, Screened, V!Deed
  PROVE  Screened' /\ shown' = shown
<1>1. PICK n : n = [what |-> "deed", wanted |-> TRUE, got |-> V!Sent]
  OBVIOUS
<1>2. /\ asking' = asking \cup {n} /\ \A r \in asking : r.what # "deed"
      /\ UNCHANGED <<latest, valid, shown, unread, gate, gateFailed, sockets, current, timers,
                     connected, pulses, promised, breaks>>
      /\ n.what = "deed" /\ n.wanted /\ n.got = V!Sent
  BY <1>1 DEF V!Deed
<1>3. n \in V!Request
  BY <1>1, NewRequest
<1>4. V!ScreensTypeOK'
  BY <1>2, <1>3 DEF Screened, V!ScreensTypeOK
<1>5. OneWanted(asking')
  BY <1>2 DEF Screened, OneWanted
<1>6. \A q \in asking' : Trusted(q)'
  <2>1. latest \in 0..LastVersion
    BY DEF Screened, V!ScreensTypeOK
  <2>2. V!Sent <= latest
    BY <2>1 DEF V!Sent, V!ScreensAssumption
  <2>3. QED
    BY <1>2, <2>2 DEF Screened, Trusted
<1>7. OfThePast' /\ V!KeepsUp' /\ Knocking'
  BY <1>2 DEF Screened, OfThePast, V!KeepsUp, V!Mounted, Knocking
<1>8. QED
  BY <1>2, <1>4, <1>5, <1>6, <1>7 DEF Screened

LEMMA NothingAsked ==
  ASSUME V!ScreensAssumption, Screened,
         \/ V!Tick \/ V!Happens \/ V!SessionEnds \/ V!Reconnect
         \/ \E s \in V!SocketIds : V!SocketOpens(s) \/ V!SocketCloses(s)
  PROVE  Screened' /\ shown' = shown
<1>1. UNCHANGED <<asking, shown, unread, gate, gateFailed, promised>> /\ (valid' => valid)
  BY DEF V!Tick, V!Happens, V!SessionEnds, V!Reconnect, V!SocketOpens, V!SocketCloses
<1>2. /\ latest \in 0..LastVersion /\ promised \in Int /\ shown \in Int /\ LastVersion \in Nat
      /\ \A s \in V!SocketIds : pulses[s] \in Int
      /\ \A q \in asking : q.got \in Int
  BY ScreensTyping DEF Screened, V!ScreensTypeOK
<1>3. latest' \in 0..LastVersion /\ latest <= latest'
  BY <1>2 DEF V!Tick, V!Happens, V!SessionEnds, V!Reconnect, V!SocketOpens, V!SocketCloses
<1>4. /\ pulses' \in [V!SocketIds -> -1..LastVersion]
      /\ \A s \in V!SocketIds : pulses'[s] = pulses[s] \/ pulses'[s] = latest \/ pulses'[s] = -1
  <2>1. pulses \in [V!SocketIds -> -1..LastVersion] /\ latest \in -1..LastVersion
        /\ -1 \in -1..LastVersion
    BY <1>2 DEF Screened, V!ScreensTypeOK
  <2>2. CASE V!Tick
    BY <2>1, <2>2 DEF V!Tick
  <2>3. CASE \E s \in V!SocketIds : V!SocketCloses(s)
    BY <2>1, <2>3 DEF V!SocketCloses
  <2>4. CASE UNCHANGED pulses
    BY <2>1, <2>4
  <2>5. QED
    BY <2>2, <2>3, <2>4 DEF V!Happens, V!SessionEnds, V!Reconnect, V!SocketOpens
<1>5. sockets' \in [V!SocketIds -> {"unused", "opening", "open", "closing"}]
  <2>1. sockets \in [V!SocketIds -> {"unused", "opening", "open", "closing"}]
    BY DEF Screened, V!ScreensTypeOK
  <2>2. \/ UNCHANGED sockets
        \/ \E s \in V!SocketIds, to \in {"unused", "opening", "open"} :
             sockets' = [sockets EXCEPT ![s] = to]
    BY DEF V!Tick, V!Happens, V!SessionEnds, V!Reconnect, V!SocketOpens, V!SocketCloses,
           V!OpenSocket
  <2>3. QED
    BY <2>1, <2>2
<1>6. timers' \in Nat /\ current' \in 0..MaxSockets /\ breaks' \in 0..MaxBreaks
  <2>1. timers \in Nat /\ current \in 0..MaxSockets /\ breaks \in 0..MaxBreaks
        /\ MaxBreaks \in Nat
    BY DEF Screened, V!ScreensTypeOK, V!ScreensAssumption
  <2>2. timers' = timers \/ timers' = timers + 1 \/ (timers > 0 /\ timers' = timers - 1)
    BY DEF V!Tick, V!Happens, V!SessionEnds, V!Reconnect, V!SocketOpens, V!SocketCloses
  <2>3. breaks' = breaks \/ (breaks < MaxBreaks /\ breaks' = breaks + 1)
    BY DEF V!Tick, V!Happens, V!SessionEnds, V!Reconnect, V!SocketOpens, V!SocketCloses, V!Break
  <2>4. current' = current \/ current' \in V!SocketIds
    BY DEF V!Tick, V!Happens, V!SessionEnds, V!Reconnect, V!SocketOpens, V!SocketCloses,
           V!OpenSocket
  <2>5. QED
    BY <2>1, <2>2, <2>3, <2>4 DEF V!SocketIds, V!ScreensAssumption
<1>7. valid' \in BOOLEAN /\ connected' \in BOOLEAN
  BY DEF V!Tick, V!Happens, V!SessionEnds, V!Reconnect, V!SocketOpens, V!SocketCloses, Screened,
         V!ScreensTypeOK
<1>8. V!ScreensTypeOK'
  BY <1>1, <1>3, <1>4, <1>5, <1>6, <1>7 DEF Screened, V!ScreensTypeOK
<1>9. OfThePast'
  <2>1. shown' <= latest' /\ promised' <= latest'
    BY <1>1, <1>2, <1>3 DEF Screened, OfThePast
  <2>2. ASSUME NEW s \in V!SocketIds PROVE pulses'[s] <= latest'
    BY <1>2, <1>3, <1>4 DEF Screened, OfThePast
  <2>3. QED
    BY <2>1, <2>2 DEF OfThePast
<1>10. ASSUME NEW q \in asking' PROVE Trusted(q)'
  <2>1. Trusted(q) /\ q.got \in Int
    BY <1>1, <1>2 DEF Screened
  <2>2. q.got <= latest => q.got <= latest'
    BY <1>2, <1>3, <2>1
  <2>3. QED
    BY <1>1, <2>1, <2>2 DEF Trusted
<1>11. V!KeepsUp' /\ Knocking' /\ OneWanted(asking')
  BY <1>1 DEF Screened, V!KeepsUp, V!Mounted, Knocking
<1>12. QED
  BY <1>1, <1>8, <1>9, <1>10, <1>11 DEF Screened

\* The sockets, one step after another. Only the session's answer puts the app up or takes it
\* down, and it finds no socket open that is not the one it knows.
LEMMA StaysPlugged ==
  ASSUME V!ScreensAssumption, ~Hasty, Screened, Plugged, V!ScreensNext
  PROVE  Plugged'
<1> USE DEF Plugged
<1>1. sockets \in [V!SocketIds -> {"unused", "opening", "open", "closing"}]
  BY DEF Screened, V!ScreensTypeOK
<1>2. CASE UNCHANGED <<sockets, current, timers, gate>>
  BY <1>2
<1>3. ASSUME NEW r \in asking, V!SessionAnswered(r) PROVE Plugged'
  <2>1. CASE UNCHANGED <<sockets, current, timers, gate>>
    BY <2>1
  <2>2. CASE V!PutUp(asking \ {r}) /\ gate' = "in" /\ gate # "in"
    <3>1. PICK s \in V!SocketIds : V!OpenSocket(s)
      BY <2>2 DEF V!PutUp
    <3>2. \A t \in V!SocketIds : sockets[t] = "unused"
      BY <2>2 DEF V!PutUp
    <3>3. timers' = 0
      BY <2>2 DEF V!PutUp
    <3>4. \A t \in V!SocketIds : sockets'[t] = IF t = s THEN "opening" ELSE "unused"
      BY <1>1, <3>1, <3>2 DEF V!OpenSocket
    <3>5. QED
      BY <2>2, <3>1, <3>3, <3>4 DEF V!OpenSocket
  <2>3. CASE V!TakenDown(asking \ {r}) /\ gate' = "out" /\ gate = "in"
    <3>1. \A s \in V!SocketIds :
            sockets'[s] = IF s = current /\ sockets[s] \in {"opening", "open"} THEN "closing"
                          ELSE sockets[s]
      BY <2>3 DEF V!TakenDown
    <3>2. timers' = 0
      BY <2>3 DEF V!TakenDown
    <3>3. \A s \in V!SocketIds : sockets'[s] \in {"unused", "closing"}
      BY <1>1, <2>3, <3>1
    <3>4. QED
      BY <2>3, <3>2, <3>3
  <2>4. CASE UNCHANGED <<sockets, current, timers>> /\ (gate' = "in" <=> gate = "in")
    BY <2>4
  <2>5. CASE ~r.wanted
    BY <1>3, <2>1, <2>5 DEF V!SessionAnswered, V!Counts
  <2>6. CASE r.wanted
    <3>1. gate' = (IF r.got = V!In THEN "in" ELSE "out")
      BY <1>3, <2>6 DEF V!SessionAnswered, V!Counts
    <3>2. V!In # V!Out
      BY DEF V!In, V!Out
    <3>3. CASE r.got = V!In /\ gate # "in"
      BY <1>3, <2>2, <2>6, <3>1, <3>3 DEF V!SessionAnswered, V!Counts, V!Mounted
    <3>4. CASE r.got = V!Out /\ gate = "in"
      BY <1>3, <2>3, <2>6, <3>1, <3>2, <3>4 DEF V!SessionAnswered, V!Counts, V!Mounted
    <3>5. CASE ~(r.got = V!In /\ gate # "in") /\ ~(r.got = V!Out /\ gate = "in")
      <4>1. UNCHANGED <<sockets, current, timers>>
        BY <1>3, <2>6, <3>5 DEF V!SessionAnswered, V!Counts, V!Mounted
      <4>2. r.got \in {V!In, V!Out}
        BY <1>3 DEF V!SessionAnswered, Screened, Trusted
      <4>3. QED
        BY <2>4, <3>1, <3>5, <4>1, <4>2
    <3>6. QED
      BY <3>3, <3>4, <3>5
  <2>7. QED
    BY <2>5, <2>6
<1>4. ASSUME NEW s \in V!SocketIds, V!SocketOpens(s) PROVE Plugged'
  <2>1. /\ \A t \in V!SocketIds : sockets'[t] = IF t = s THEN "open" ELSE sockets[t]
        /\ sockets[s] = "opening" /\ UNCHANGED <<current, timers, gate>>
    BY <1>1, <1>4 DEF V!SocketOpens
  <2>2. QED
    BY <2>1
<1>5. ASSUME NEW s \in V!SocketIds, V!SocketCloses(s) PROVE Plugged'
  <2>1. /\ \A t \in V!SocketIds : sockets'[t] = IF t = s THEN "unused" ELSE sockets[t]
        /\ sockets[s] \in {"opening", "open", "closing"} /\ UNCHANGED <<current, gate>>
        /\ timers' = IF gate = "in" THEN timers + 1 ELSE timers
    BY <1>1, <1>5 DEF V!SocketCloses, V!Again, V!Mounted
  <2>2. CASE gate = "in"
    <3>1. s = current /\ timers = 0 /\ timers' = 1
      BY <2>1, <2>2
    <3>2. \A t \in V!SocketIds : sockets'[t] \notin {"opening", "open", "closing"}
      BY <1>1, <2>1, <2>2, <3>1
    <3>3. QED
      BY <2>1, <2>2, <3>1, <3>2
  <2>3. CASE gate # "in"
    BY <2>1, <2>3
  <2>4. QED
    BY <2>2, <2>3
<1>6. CASE V!Reconnect
  <2>1. PICK s \in V!SocketIds : V!OpenSocket(s)
    BY <1>6 DEF V!Reconnect
  <2>2. timers = 1 /\ timers' = 0 /\ gate = "in" /\ gate' = gate
    BY <1>6 DEF V!Reconnect
  <2>3. \A t \in V!SocketIds : sockets'[t] = IF t = s THEN "opening" ELSE sockets[t]
    BY <1>1, <2>1 DEF V!OpenSocket
  <2>4. \A t \in V!SocketIds : sockets[t] = "unused"
    BY <1>1, <2>2
  <2>5. QED
    BY <2>1, <2>2, <2>3, <2>4 DEF V!OpenSocket
<1>7. ASSUME NEW r \in asking,
             V!Serve(r) \/ V!ScreenAnswered(r) \/ V!DeedAnswered(r) \/ V!RequestFails(r)
      PROVE  UNCHANGED <<sockets, current, timers, gate>>
  BY <1>7 DEF V!Serve, V!ScreenAnswered, V!DeedAnswered, V!RequestFails
<1>8. ASSUME NEW s \in V!SocketIds, V!Pulse(s)
      PROVE  UNCHANGED <<sockets, current, timers, gate>>
  BY <1>8 DEF V!Pulse
<1>9. ASSUME V!Deed \/ V!Tick \/ V!Happens \/ V!SessionEnds \/ V!SignOut \/ V!SignIn
      PROVE  UNCHANGED <<sockets, current, timers, gate>>
  BY <1>9 DEF V!Deed, V!Tick, V!Happens, V!SessionEnds, V!SignOut, V!SignIn
<1> HIDE DEF Plugged
<1>10. QED
  BY <1>2, <1>3, <1>4, <1>5, <1>6, <1>7, <1>8, <1>9 DEF V!ScreensNext

LEMMA ScreensKept ==
  ASSUME ScreensInv, V!ScreensAssumption, [V!ScreensNext]_screensVars
  PROVE  ScreensInv' /\ (shown' = -1 \/ shown' >= shown)
<1>1. Screened /\ shown \in Int
  BY ScreensTyping DEF ScreensInv, Screened
<1>2. CASE UNCHANGED screensVars
  <2>1. UNCHANGED <<latest, valid, asking, shown, unread, gate, gateFailed, sockets, current,
                    timers, connected, pulses, promised, breaks>>
    BY <1>2 DEF screensVars
  <2>2. V!ScreensTypeOK' /\ OneWanted(asking') /\ OfThePast' /\ V!KeepsUp' /\ Knocking'
    BY <1>1, <2>1 DEF Screened, V!ScreensTypeOK, OfThePast, V!KeepsUp, V!Mounted, Knocking
  <2>3. \A r \in asking' : Trusted(r)'
    BY <1>1, <2>1 DEF Screened, Trusted
  <2>4. ~Hasty => Plugged'
    BY <2>1 DEF ScreensInv, Plugged
  <2>5. QED
    BY <1>1, <2>1, <2>2, <2>3, <2>4 DEF ScreensInv, Screened
<1>3. CASE V!ScreensNext
  <2>1. ~Hasty => Plugged'
    BY <1>1, <1>3, StaysPlugged DEF ScreensInv
  <2>2. Screened' /\ (shown' = -1 \/ shown' >= shown)
    <3>1. ASSUME NEW r \in asking,
                 \/ V!Serve(r) \/ V!ScreenAnswered(r) \/ V!SessionAnswered(r)
                 \/ V!DeedAnswered(r) \/ V!RequestFails(r)
          PROVE  Screened' /\ (shown' = -1 \/ shown' >= shown)
      <4>1. CASE V!Serve(r)
        <5>1. shown' = shown
          BY <4>1 DEF V!Serve
        <5>2. QED
          BY <1>1, <4>1, <5>1, Served
      <4>2. CASE V!ScreenAnswered(r)
        BY <1>1, <4>2, ScreenIsAnswered
      <4>3. CASE V!SessionAnswered(r)
        BY <1>1, <4>3, SessionIsAnswered
      <4>4. CASE V!DeedAnswered(r)
        BY <1>1, <4>4, DeedIsAnswered
      <4>5. CASE V!RequestFails(r)
        BY <1>1, <4>5, RequestIsLost
      <4>6. QED
        BY <3>1, <4>1, <4>2, <4>3, <4>4, <4>5
    <3>2. ASSUME NEW s \in V!SocketIds, V!Pulse(s)
          PROVE  Screened' /\ (shown' = -1 \/ shown' >= shown)
      BY <1>1, <3>2, PulseKeeps
    <3>3. ASSUME V!SignOut \/ V!SignIn PROVE Screened' /\ (shown' = -1 \/ shown' >= shown)
      BY <1>1, <3>3, SessionIsRead
    <3>4. ASSUME V!Deed PROVE Screened' /\ (shown' = -1 \/ shown' >= shown)
      BY <1>1, <3>4, DeedKeeps
    <3>5. ASSUME \/ V!Tick \/ V!Happens \/ V!SessionEnds \/ V!Reconnect
                 \/ \E s \in V!SocketIds : V!SocketOpens(s) \/ V!SocketCloses(s)
          PROVE  Screened' /\ (shown' = -1 \/ shown' >= shown)
      BY <1>1, <3>5, NothingAsked
    <3>6. QED
      BY <1>3, <3>1, <3>2, <3>3, <3>4, <3>5 DEF V!ScreensNext
  <2>3. QED
    BY <2>1, <2>2 DEF ScreensInv
<1>4. QED
  BY <1>2, <1>3

\* The properties of a browser, from what goes on being so.
LEMMA ScreensSay ==
  ASSUME ScreensInv, ~Hasty, V!ScreensAssumption
  PROVE  V!KeepsUp /\ V!RefusedAsksAgain /\ V!OneSocket
<1>1. V!KeepsUp /\ V!RefusedAsksAgain
  BY DEF ScreensInv, Screened, Knocking, V!RefusedAsksAgain
<1>2. V!OneSocket
  <2> DEFINE plugs == {s \in V!SocketIds : sockets[s] \in {"opening", "open"}}
  <2>1. Plugged /\ timers \in {0, 1}
    BY DEF ScreensInv, Plugged
  <2>2. V!OneSocket <=> Cardinality(plugs) + timers <= (IF gate = "in" THEN 1 ELSE 0)
    BY DEF V!OneSocket, V!Mounted, V!Cardinality, Cardinality, V!IsFiniteSet, IsFiniteSet
  <2>3. CASE plugs = {}
    <3>1. Cardinality(plugs) = 0
      BY <2>3, FS_EmptySet
    <3>2. timers <= IF gate = "in" THEN 1 ELSE 0
      BY <2>1 DEF Plugged
    <3>3. QED
      BY <2>1, <2>2, <3>1, <3>2
  <2>4. CASE plugs # {}
    <3>1. plugs = {current} /\ timers = 0 /\ gate = "in"
      BY <2>1, <2>4 DEF Plugged
    <3>2. Cardinality(plugs) = 1
      BY <3>1, FS_Singleton
    <3>3. QED
      BY <2>2, <3>1, <3>2
  <2>5. QED
    BY <2>3, <2>4
<1>3. QED
  BY <1>1, <1>2
-----------------------------------------------------------------------------
(* Forms: an event that is moved with its outputs held where they are *)

\* The save under way.
JobFits ==
  job \in [step : {"rest", "series", "outputs", "fresh"}, to : Nat, by : Int,
           hold : {<<>>} \cup [F!Outputs -> Nat], left : SUBSET F!Outputs, failed : BOOLEAN]

EventTyped ==
  /\ start \in Nat /\ typed \in Nat /\ saved \in Nat
  /\ offsets \in [F!Outputs -> Nat] /\ JobFits
  /\ moving \in {<<>>} \cup [F!Outputs -> Nat]

\* What a save works from is what was read before the series moved: while it goes on nothing is
\* typed or read, and a save that failed is repeated from the same. The outputs that it has been
\* through are as far from the new start as they were from the old one.
EventInv ==
  /\ EventTyped
  /\ moving # <<>> => \A o \in F!Outputs : was[o] = saved + moving[o]
  /\ reading => job.step = "rest" /\ ~job.failed
  /\ job.step = "rest" /\ ~job.failed => start = saved
  /\ job.step # "rest" =>
       /\ job.to = typed /\ job.by = typed - saved /\ job.hold \in {<<>>, moving}
       /\ job.left \subseteq DOMAIN job.hold
  /\ job.step \in {"outputs", "fresh"} =>
       /\ start = job.to
       /\ job.hold # <<>> =>
            \A o \in F!Outputs \ job.left : offsets[o] = job.hold[o] - job.by
  /\ job.step = "series" => job.left = DOMAIN job.hold
  /\ job.step = "outputs" => job.left # {}
  /\ job.step = "fresh" => job.left = {}

LEMMA IdleJob ==
  /\ F!Idle.step = "rest" /\ ~F!Idle.failed /\ F!Failed.step = "rest" /\ F!Failed.failed
  /\ F!Idle \in [step : {"rest", "series", "outputs", "fresh"}, to : Nat, by : Int,
                 hold : {<<>>} \cup [F!Outputs -> Nat], left : SUBSET F!Outputs, failed : BOOLEAN]
  /\ F!Failed \in [step : {"rest", "series", "outputs", "fresh"}, to : Nat, by : Int,
                 hold : {<<>>} \cup [F!Outputs -> Nat], left : SUBSET F!Outputs, failed : BOOLEAN]
<1>1. F!Idle = [step |-> "rest", to |-> 0, by |-> 0, hold |-> <<>>, left |-> {}, failed |-> FALSE]
  BY DEF F!Idle
<1>2. F!Failed = [F!Idle EXCEPT !.failed = TRUE]
  BY DEF F!Failed
<1>3. 0 \in Int /\ 0 \in Nat /\ {} \in SUBSET F!Outputs
  OBVIOUS
<1>4. F!Idle \in [step : {"rest", "series", "outputs", "fresh"}, to : Nat, by : Int,
                 hold : {<<>>} \cup [F!Outputs -> Nat], left : SUBSET F!Outputs, failed : BOOLEAN]
  BY <1>1, <1>3
<1>5. QED
  BY <1>1, <1>2, <1>4

LEMMA EventHolds == ASSUME F!FormsAssumption PROVE F!FormsInit => EventInv
<1> SUFFICES ASSUME F!FormsInit PROVE EventInv
  OBVIOUS
<1>1. /\ start = 1 /\ typed = 1 /\ saved = 1 /\ moving = <<>> /\ ~reading /\ job = F!Idle
      /\ offsets = [o \in F!Outputs |-> o - 1]
  BY DEF F!FormsInit
<1>2. offsets \in [F!Outputs -> Nat]
  BY <1>1 DEF F!Outputs, F!FormsAssumption
<1>3. EventTyped
  BY <1>1, <1>2, IdleJob DEF EventTyped, JobFits
<1>4. QED
  BY <1>1, <1>3, IdleJob DEF EventInv

\* Nothing that a save goes by is touched.
LEMMA EventStands ==
  ASSUME EventInv,
         UNCHANGED <<start, offsets, typed, saved, moving, reading, job, was>>
  PROVE  EventInv'
BY DEF EventInv, EventTyped, JobFits

LEMMA TypeKeeps ==
  ASSUME EventInv, Patient, NEW t \in F!Times, F!Type(t), F!FormsAssumption
  PROVE  EventInv'
<1>1. /\ job.step = "rest" /\ ~job.failed /\ typed' = t /\ t \in Nat
      /\ UNCHANGED <<start, offsets, saved, job>>
      /\ \/ moving' = <<>>
         \/ UNCHANGED <<moving, was>>
  BY DEF F!Type, F!Shown, F!Times, F!FormsAssumption
<1>2. EventTyped'
  BY <1>1 DEF EventInv, EventTyped, JobFits
<1>3. QED
  BY <1>1, <1>2 DEF EventInv

LEMMA ReadOutputsKeeps ==
  ASSUME EventInv, F!ReadOutputs
  PROVE  EventInv'
<1>1. /\ reading /\ reading' = FALSE /\ moving' = offsets
      /\ was' = [o \in F!Outputs |-> start + offsets[o]]
      /\ UNCHANGED <<start, offsets, typed, saved, job>>
  BY DEF F!ReadOutputs
<1>2. job.step = "rest" /\ start = saved
  BY <1>1 DEF EventInv
<1>3. EventTyped'
  BY <1>1 DEF EventInv, EventTyped, JobFits
<1>4. \A o \in F!Outputs : was'[o] = saved' + moving'[o]
  BY <1>1, <1>2
<1>5. QED
  BY <1>1, <1>2, <1>3, <1>4 DEF EventInv

LEMMA SaveKeeps ==
  ASSUME EventInv, Patient, F!Save
  PROVE  EventInv'
<1>1. PICK hold \in {<<>>, moving} :
        job' = [step |-> "series", to |-> typed, by |-> typed - saved, hold |-> hold,
                left |-> DOMAIN hold, failed |-> FALSE]
  BY DEF F!Save, F!Captured
<1>2. UNCHANGED <<start, offsets, typed, saved, moving, reading, was>> /\ ~reading
  BY DEF F!Save
<1>3. DOMAIN hold \subseteq F!Outputs /\ hold \in {<<>>} \cup [F!Outputs -> Nat]
  BY <1>1 DEF EventInv, EventTyped
<1>4. EventTyped'
  BY <1>1, <1>2, <1>3 DEF EventInv, EventTyped, JobFits
<1>5. /\ job'.step = "series" /\ job'.to = typed /\ job'.by = typed - saved /\ job'.hold = hold
      /\ job'.left = DOMAIN hold
  BY <1>1
<1>6. QED
  BY <1>1, <1>2, <1>4, <1>5 DEF EventInv

\* What is left of a save, when these outputs are still to be held.
LEMMA RemainingIs ==
  ASSUME EventTyped, NEW left \in SUBSET F!Outputs
  PROVE  /\ F!Remaining(left) \in
              [step : {"rest", "series", "outputs", "fresh"}, to : Nat, by : Int,
               hold : {<<>>} \cup [F!Outputs -> Nat], left : SUBSET F!Outputs, failed : BOOLEAN]
         /\ F!Remaining(left).to = job.to /\ F!Remaining(left).by = job.by
         /\ F!Remaining(left).hold = job.hold /\ F!Remaining(left).left = left
         /\ F!Remaining(left).step = IF left # {} THEN "outputs" ELSE "fresh"
         /\ F!Remaining(left).failed = job.failed
BY DEF EventTyped, JobFits, F!Remaining

LEMMA SaveSeriesKeeps ==
  ASSUME EventInv, NEW done \in BOOLEAN, F!SaveSeries(done)
  PROVE  EventInv'
<1>1. /\ job.step = "series" /\ (start' = job.to \/ (~done /\ start' = start))
      /\ job' = IF done THEN F!Remaining(job.left) ELSE F!Failed
      /\ UNCHANGED <<offsets, typed, saved, moving, reading, was>>
  BY DEF F!SaveSeries
<1>2. /\ EventTyped /\ job.left \subseteq DOMAIN job.hold /\ job.left \subseteq F!Outputs
      /\ job.hold # <<>> => DOMAIN job.hold = F!Outputs
      /\ job.to \in Nat /\ job.to = typed /\ job.by = typed - saved
      /\ job.hold \in {<<>>, moving} /\ ~reading
  <2>1. /\ EventTyped /\ job.left \subseteq F!Outputs /\ job.to \in Nat
        /\ job.hold \in {<<>>} \cup [F!Outputs -> Nat]
    BY DEF EventInv, EventTyped, JobFits
  <2>2. /\ job.left \subseteq DOMAIN job.hold /\ job.to = typed /\ job.by = typed - saved
        /\ job.hold \in {<<>>, moving} /\ ~reading
    BY <1>1 DEF EventInv
  <2>3. job.hold # <<>> => DOMAIN job.hold = F!Outputs
    BY <2>1
  <2>4. QED
    BY <2>1, <2>2, <2>3
<1>3. start' \in Nat
  BY <1>1, <1>2 DEF EventTyped
<1>4. CASE done
  <2>1. job' = F!Remaining(job.left) /\ start' = job.to
    BY <1>1, <1>4
  <2>2. /\ EventTyped' /\ job'.to = job.to /\ job'.by = job.by /\ job'.hold = job.hold
        /\ job'.left = job.left /\ job'.step = IF job.left # {} THEN "outputs" ELSE "fresh"
    BY <1>1, <1>2, <1>3, <2>1, RemainingIs DEF EventTyped, JobFits
  <2>3. job'.hold # <<>> =>
          \A o \in F!Outputs \ job'.left : offsets'[o] = job'.hold[o] - job'.by
    <3>1. job.left = DOMAIN job.hold
      BY <1>1 DEF EventInv
    <3>2. QED
      BY <1>1, <1>2, <2>2, <3>1
  <2>4. QED
    BY <1>1, <1>2, <2>1, <2>2, <2>3 DEF EventInv
<1>5. CASE ~done
  <2>1. job' = F!Failed
    BY <1>1, <1>5
  <2>2. EventTyped'
    BY <1>1, <1>2, <1>3, <2>1, IdleJob DEF EventTyped, JobFits
  <2>3. QED
    BY <1>1, <1>2, <2>1, <2>2, IdleJob DEF EventInv
<1>6. QED
  BY <1>4, <1>5

LEMMA SaveOutputKeeps ==
  ASSUME EventInv, NEW done \in BOOLEAN, F!SaveOutput(done), F!FormsAssumption
  PROVE  EventInv'
<1>1. /\ job.step = "outputs"
      /\ UNCHANGED <<start, typed, saved, moving, reading, was>>
  BY DEF F!SaveOutput
<1>2. PICK o : o = F!Min(job.left)
  OBVIOUS
<1>3. PICK to : to = job.hold[o] - job.by
  OBVIOUS
<1>4. IF to < 0 THEN ~done /\ job' = F!Failed /\ UNCHANGED offsets
      ELSE /\ offsets' = [offsets EXCEPT ![o] = to] \/ (~done /\ offsets' = offsets)
           /\ job' = IF done THEN F!Remaining(job.left \ {o}) ELSE F!Failed
  BY <1>2, <1>3 DEF F!SaveOutput
<1>5. /\ EventTyped /\ job.left \subseteq F!Outputs /\ job.left # {} /\ start = job.to
      /\ job.hold \in {<<>>} \cup [F!Outputs -> Nat] /\ job.left \subseteq DOMAIN job.hold
      /\ job.to = typed /\ job.by = typed - saved /\ job.hold \in {<<>>, moving} /\ ~reading
      /\ job.by \in Int /\ offsets \in [F!Outputs -> Nat]
      /\ job.hold # <<>> => \A x \in F!Outputs \ job.left : offsets[x] = job.hold[x] - job.by
  <2>1. /\ EventTyped /\ job.left \subseteq F!Outputs /\ offsets \in [F!Outputs -> Nat]
        /\ job.hold \in {<<>>} \cup [F!Outputs -> Nat] /\ job.by \in Int
    BY DEF EventInv, EventTyped, JobFits
  <2>2. QED
    BY <1>1, <2>1 DEF EventInv
<1>6. o \in job.left
  <2>1. job.left \subseteq Nat
    BY <1>5 DEF F!Outputs
  <2>2. QED
    BY <1>2, <1>5, <2>1, LeastOne DEF T!Least, F!Min
<1>7. job.hold # <<>>
  <2>1. DOMAIN << >> = {}
    OBVIOUS
  <2>2. QED
    BY <1>5, <1>6, <2>1
<1>8. o \in F!Outputs /\ job.hold[o] \in Nat /\ to \in Int
  BY <1>3, <1>5, <1>6, <1>7
<1>9. CASE done
  <2>1. /\ to \in Nat /\ offsets' = [offsets EXCEPT ![o] = to]
        /\ job' = F!Remaining(job.left \ {o})
    BY <1>4, <1>8, <1>9
  <2>2. job.left \ {o} \in SUBSET F!Outputs
    BY <1>5
  <2>3. /\ JobFits' /\ job'.to = job.to /\ job'.by = job.by /\ job'.hold = job.hold
        /\ job'.left = job.left \ {o}
        /\ job'.step = IF job.left \ {o} # {} THEN "outputs" ELSE "fresh"
    BY <1>5, <2>1, <2>2, RemainingIs DEF JobFits
  <2>4. offsets' \in [F!Outputs -> Nat]
    BY <1>5, <1>8, <2>1
  <2>5. EventTyped'
    BY <1>1, <1>5, <2>3, <2>4 DEF EventTyped
  <2>6. \A x \in F!Outputs \ job'.left : offsets'[x] = job'.hold[x] - job'.by
    BY <1>3, <1>5, <1>7, <1>8, <2>1, <2>3
  <2>7. /\ job'.left \subseteq DOMAIN job'.hold /\ job'.step \in {"outputs", "fresh"}
        /\ job'.step = "outputs" => job'.left # {}
        /\ job'.step = "fresh" => job'.left = {}
    BY <1>5, <2>3
  <2>8. QED
    BY <1>1, <1>5, <2>3, <2>5, <2>6, <2>7 DEF EventInv
<1>10. CASE ~done
  <2>1. job' = F!Failed
    BY <1>4, <1>10
  <2>2. offsets' \in [F!Outputs -> Nat]
    <3>1. CASE to < 0
      BY <1>4, <1>5, <3>1
    <3>2. CASE ~(to < 0)
      <4>1. to \in Nat
        BY <1>8, <3>2
      <4>2. offsets' = [offsets EXCEPT ![o] = to] \/ offsets' = offsets
        BY <1>4, <3>2
      <4>3. QED
        BY <1>5, <1>8, <4>1, <4>2
    <3>3. QED
      BY <3>1, <3>2
  <2>3. EventTyped'
    BY <1>1, <1>5, <2>1, <2>2, IdleJob DEF EventTyped, JobFits
  <2>4. QED
    BY <1>1, <1>5, <2>1, <2>3, IdleJob DEF EventInv
<1>11. QED
  BY <1>9, <1>10

\* The event is read again, and the save is over; whatever was to be held still was.
LEMMA ReadSavedKeeps ==
  ASSUME EventInv, NEW done \in BOOLEAN, F!ReadSaved(done)
  PROVE  EventInv' /\ (job.hold # <<>> => \A o \in F!Outputs : start' + offsets'[o] = was[o])
<1>1. /\ job.step = "fresh" /\ job' = IF done THEN F!Idle ELSE F!Failed
      /\ IF done THEN saved' = start /\ F!Shown(typed, start)
         ELSE UNCHANGED <<saved, moving, reading, was>>
      /\ UNCHANGED <<start, offsets, typed>>
  BY DEF F!ReadSaved
<1>2. EventTyped /\ JobFits /\ start = job.to /\ job.to = typed /\ ~reading
  BY <1>1 DEF EventInv, EventTyped
<1>3. ASSUME done PROVE EventInv'
  <2>1. saved' = start /\ moving' = <<>> /\ reading' = FALSE /\ job' = F!Idle
    BY <1>1, <1>2, <1>3 DEF F!Shown
  <2>2. EventTyped'
    BY <1>1, <1>2, <2>1, IdleJob DEF EventTyped, JobFits
  <2>3. QED
    BY <1>1, <2>1, <2>2, IdleJob DEF EventInv
<1>4. ASSUME ~done PROVE EventInv'
  <2>1. UNCHANGED <<saved, moving, reading, was>> /\ job' = F!Failed
    BY <1>1, <1>4
  <2>2. EventTyped'
    BY <1>1, <1>2, <2>1, IdleJob DEF EventTyped, JobFits
  <2>3. QED
    BY <1>1, <1>2, <2>1, <2>2, IdleJob DEF EventInv
<1>5. ASSUME job.hold # <<>>, NEW o \in F!Outputs PROVE start' + offsets'[o] = was[o]
  <2>1. job.left = {} /\ job.hold = moving /\ moving # <<>> /\ job.by = typed - saved
    BY <1>1, <1>5 DEF EventInv
  <2>2. offsets[o] = moving[o] - (typed - saved) /\ was[o] = saved + moving[o] /\ start = typed
    BY <1>1, <1>2, <1>5, <2>1 DEF EventInv
  <2>3. moving[o] \in Nat /\ saved \in Nat /\ typed \in Nat
    BY <1>2, <2>1 DEF EventTyped
  <2>4. QED
    BY <1>1, <2>2, <2>3
<1>6. QED
  BY <1>3, <1>4, <1>5

LEMMA SaveRowKeeps ==
  ASSUME EventInv, NEW o \in F!Outputs, NEW clock \in F!Times, F!SaveRow(o, clock),
         F!FormsAssumption
  PROVE  EventInv'
<1>1. /\ job.step = "rest" /\ clock >= saved /\ offsets' = [offsets EXCEPT ![o] = clock - saved]
      /\ UNCHANGED <<start, typed, saved, moving, reading, job, was>>
  BY DEF F!SaveRow
<1>2. clock - saved \in Nat
  BY <1>1 DEF EventInv, EventTyped, F!Times, F!FormsAssumption
<1>3. EventTyped'
  BY <1>1, <1>2 DEF EventInv, EventTyped, JobFits
<1>4. QED
  BY <1>1, <1>3 DEF EventInv

\* Whoever waits for answers, and repeats a save that failed as it was, finds the outputs where
\* they were.
HeldStep ==
  job.step = "fresh" /\ job'.step = "rest" /\ ~job'.failed /\ job.hold # <<>>
    => \A o \in F!Outputs \ touched : start' + offsets'[o] = was[o]

LEMMA EventKept ==
  ASSUME EventInv, Patient, F!FormsAssumption, F!EventNext \/ UNCHANGED F!eventVars
  PROVE  EventInv' /\ HeldStep
<1>1. ASSUME NEW done \in BOOLEAN, F!ReadSaved(done) PROVE EventInv' /\ HeldStep
  BY <1>1, ReadSavedKeeps DEF HeldStep
<1>2. ASSUME NEW t \in F!Times, F!Type(t) PROVE EventInv' /\ HeldStep
  <2>1. job' = job
    BY <1>2 DEF F!Type
  <2>2. QED
    BY <1>2, <2>1, TypeKeeps DEF HeldStep
<1>3. ASSUME NEW t \in F!Times, NEW o \in F!Outputs, F!SaveRow(o, t) PROVE EventInv' /\ HeldStep
  <2>1. job' = job
    BY <1>3 DEF F!SaveRow
  <2>2. QED
    BY <1>3, <2>1, SaveRowKeeps DEF HeldStep
<1>4. ASSUME NEW done \in BOOLEAN, F!SaveSeries(done) PROVE EventInv' /\ HeldStep
  <2>1. job.step = "series"
    BY <1>4 DEF F!SaveSeries
  <2>2. QED
    BY <1>4, <2>1, SaveSeriesKeeps DEF HeldStep
<1>5. ASSUME NEW done \in BOOLEAN, F!SaveOutput(done) PROVE EventInv' /\ HeldStep
  <2>1. job.step = "outputs"
    BY <1>5 DEF F!SaveOutput
  <2>2. QED
    BY <1>5, <2>1, SaveOutputKeeps DEF HeldStep
<1>6. CASE F!ReadOutputs
  <2>1. job' = job
    BY <1>6 DEF F!ReadOutputs
  <2>2. QED
    BY <1>6, <2>1, ReadOutputsKeeps DEF HeldStep
<1>7. CASE F!TickKeep \/ UNCHANGED F!eventVars
  <2>1. UNCHANGED <<start, offsets, typed, saved, moving, reading, job, was>>
    BY <1>7 DEF F!TickKeep, F!eventVars
  <2>2. QED
    BY <2>1, EventStands DEF HeldStep
<1>8. CASE F!Save
  <2>1. job.step = "rest"
    BY <1>8 DEF F!Save
  <2>2. QED
    BY <1>8, <2>1, SaveKeeps DEF HeldStep
<1>9. QED
  BY <1>1, <1>2, <1>3, <1>4, <1>5, <1>6, <1>7, <1>8 DEF F!EventNext
-----------------------------------------------------------------------------
(* Forms: one occurrence, from several browsers *)

\* The fields of an occurrence, and what an operator may have sent.
Fields == [label : F!Texts, start : 1..2, length : 1..2, title : F!Texts \cup {F!Absent},
           file : F!Texts \cup {F!Absent}]
Names == {"label", "start", "length", "title", "file"}
Edit == [fields : SUBSET Names, to : F!Drafts]

OneTyped ==
  /\ booked \in [fields : Fields, movedFrom : {0, 1}, lengthenedFrom : {0, 1}, running : BOOLEAN]
  /\ meant \in F!Drafts
  /\ seen \in [Editors -> Fields] /\ sending \in [Editors -> Edit]

\* What is on its way is what differs from what its editor saw; an occurrence that was never
\* moved is where its event has it, and one that was moved came from there.
OneInv ==
  /\ OneTyped
  /\ \A e \in Editors : sending[e] # F!Nobody =>
       sending[e].fields = F!Differing(sending[e].to, F!DraftOf(seen[e]))
  /\ booked.movedFrom = 0 => booked.fields.start = 1
  /\ booked.lengthenedFrom = 0 => booked.fields.length = 1
  /\ F!LastWordStands

LEMMA DraftsOf ==
  ASSUME NEW fields \in Fields
  PROVE  /\ F!DraftOf(fields) \in F!Drafts
         /\ F!DraftOf(fields).label = fields.label /\ F!DraftOf(fields).start = fields.start
         /\ F!DraftOf(fields).length = fields.length
BY DEF Fields, F!DraftOf, F!Drafts, F!Texts

LEMMA SeriesFits ==
  /\ F!FromSeries \in Fields /\ F!FromSeries.start = 1 /\ F!FromSeries.length = 1
  /\ F!FromSeries.label = "series"
  /\ F!DraftOf(F!FromSeries) \in F!Drafts
  /\ F!Nobody \in Edit
<1>1. F!FromSeries \in Fields /\ F!FromSeries.start = 1 /\ F!FromSeries.length = 1
      /\ F!FromSeries.label = "series"
  BY DEF F!FromSeries, Fields, F!Texts, F!Absent
<1>2. F!DraftOf(F!FromSeries) \in F!Drafts
  BY <1>1, DraftsOf
<1>3. F!Nobody \in Edit
  BY <1>2 DEF F!Nobody, Edit
<1>4. QED
  BY <1>1, <1>2, <1>3

LEMMA OneHolds == F!FormsInit => OneInv
<1> SUFFICES ASSUME F!FormsInit PROVE OneInv
  OBVIOUS
<1>1. /\ booked = F!Attached /\ meant = F!DraftOf(F!FromSeries)
      /\ seen = [e \in Editors |-> F!FromSeries]
      /\ sending = [e \in Editors |-> F!Nobody]
  BY DEF F!FormsInit
<1>2. /\ booked.fields = F!FromSeries /\ booked.movedFrom = 0
      /\ booked \in [fields : Fields, movedFrom : {0, 1}, lengthenedFrom : {0, 1},
                     running : BOOLEAN]
  BY <1>1, SeriesFits DEF F!Attached
<1>3. OneTyped
  BY <1>1, <1>2, SeriesFits DEF OneTyped
<1>4. F!LastWordStands
  <2>1. /\ meant.label = "series" /\ meant.start = 1 /\ meant.length = 1
    BY <1>1, SeriesFits, DraftsOf
  <2>2. QED
    BY <1>2, <2>1, SeriesFits DEF F!LastWordStands
<1>5. QED
  BY <1>1, <1>2, <1>3, <1>4, SeriesFits DEF OneInv

LEMMA RunBeginsKeeps == ASSUME OneInv, F!Begin PROVE OneInv'
<1>1. booked' = [booked EXCEPT !.running = TRUE] /\ UNCHANGED <<meant, seen, sending>>
  BY DEF F!Begin
<1>2. /\ booked' \in [fields : Fields, movedFrom : {0, 1}, lengthenedFrom : {0, 1},
                      running : BOOLEAN]
      /\ booked'.fields = booked.fields /\ booked'.movedFrom = booked.movedFrom
      /\ booked'.lengthenedFrom = booked.lengthenedFrom
  BY <1>1 DEF OneInv, OneTyped
<1>3. QED
  BY <1>1, <1>2 DEF OneInv, OneTyped, F!LastWordStands

LEMMA ReopenKeeps == ASSUME OneInv, NEW e \in Editors, F!Reopen(e) PROVE OneInv'
<1>1. /\ sending[e] = F!Nobody /\ seen' = [seen EXCEPT ![e] = booked.fields]
      /\ UNCHANGED <<booked, meant, sending>>
  BY DEF F!Reopen
<1>2. OneTyped'
  BY <1>1 DEF OneInv, OneTyped
<1>3. F!LastWordStands'
  BY <1>1 DEF OneInv, F!LastWordStands
<1>4. ASSUME NEW d \in Editors, sending'[d] # F!Nobody
      PROVE  sending'[d].fields = F!Differing(sending'[d].to, F!DraftOf(seen'[d]))
  <2>1. d # e /\ seen'[d] = seen[d]
    BY <1>1, <1>4 DEF OneInv, OneTyped
  <2>2. QED
    BY <1>1, <1>4, <2>1 DEF OneInv
<1>5. QED
  BY <1>1, <1>2, <1>3, <1>4 DEF OneInv

LEMMA SaveOneKeeps ==
  ASSUME OneInv, NEW e \in Editors, NEW draft \in F!Drafts, F!SaveOne(e, draft) PROVE OneInv'
<1>1. /\ sending' = [sending EXCEPT ![e] =
                       [fields |-> F!Differing(draft, F!DraftOf(seen[e])), to |-> draft]]
      /\ UNCHANGED <<booked, meant, seen>>
  BY DEF F!SaveOne
<1>2. PICK edit : edit = [fields |-> F!Differing(draft, F!DraftOf(seen[e])), to |-> draft]
  OBVIOUS
<1>3. edit \in Edit
  <2>1. F!Differing(draft, F!DraftOf(seen[e])) \subseteq Names
    BY DEF F!Differing, F!Drafts, Names
  <2>2. QED
    BY <1>2, <2>1 DEF Edit
<1>4. edit.fields = F!Differing(edit.to, F!DraftOf(seen[e]))
  BY <1>2
<1>5. sending' = [sending EXCEPT ![e] = edit]
  BY <1>1, <1>2
<1>6. OneTyped'
  BY <1>1, <1>3, <1>5 DEF OneInv, OneTyped
<1>7. \A d \in Editors : sending'[d] # F!Nobody =>
        sending'[d].fields = F!Differing(sending'[d].to, F!DraftOf(seen'[d]))
  BY <1>1, <1>4, <1>5 DEF OneInv, OneTyped
<1>8. F!LastWordStands'
  BY <1>1 DEF OneInv, F!LastWordStands
<1>9. QED
  BY <1>1, <1>6, <1>7, <1>8 DEF OneInv

\* What is said of the other editors goes on being so when one has been answered.
LEMMA Answered ==
  ASSUME OneInv, NEW e \in Editors, seen' = [seen EXCEPT ![e] = booked'.fields],
         booked'.fields \in Fields,
         UNCHANGED sending \/ sending' = [sending EXCEPT ![e] = F!Nobody],
         sending'[e] = F!Nobody
  PROVE  /\ seen' \in [Editors -> Fields] /\ sending' \in [Editors -> Edit]
         /\ \A d \in Editors : sending'[d] # F!Nobody =>
              sending'[d].fields = F!Differing(sending'[d].to, F!DraftOf(seen'[d]))
<1>1. seen \in [Editors -> Fields] /\ sending \in [Editors -> Edit]
  BY DEF OneInv, OneTyped
<1>2. seen' \in [Editors -> Fields] /\ sending' \in [Editors -> Edit]
  BY <1>1, SeriesFits
<1>3. ASSUME NEW d \in Editors, sending'[d] # F!Nobody
      PROVE  sending'[d].fields = F!Differing(sending'[d].to, F!DraftOf(seen'[d]))
  <2>1. d # e /\ seen'[d] = seen[d] /\ sending'[d] = sending[d]
    BY <1>1, <1>3
  <2>2. QED
    BY <1>3, <2>1 DEF OneInv
<1>4. QED
  BY <1>2, <1>3

LEMMA RevertKeeps == ASSUME OneInv, NEW e \in Editors, F!Revert(e) PROVE OneInv'
<1>1. PICK fields :
        fields = [F!FromSeries EXCEPT
          !.start = IF booked.movedFrom # 0 THEN booked.movedFrom ELSE booked.fields.start,
          !.length = IF booked.lengthenedFrom # 0 THEN booked.lengthenedFrom
                     ELSE booked.fields.length]
  OBVIOUS
<1>2. /\ booked' = [booked EXCEPT !.fields = fields, !.movedFrom = 0, !.lengthenedFrom = 0]
      /\ meant' = F!DraftOf(F!FromSeries) /\ sending[e] = F!Nobody
      /\ seen' = [seen EXCEPT ![e] = booked'.fields] /\ UNCHANGED sending
  BY <1>1 DEF F!Revert
<1>3. /\ booked.movedFrom \in {0, 1} /\ booked.lengthenedFrom \in {0, 1}
      /\ booked.movedFrom = 0 => booked.fields.start = 1
      /\ booked.lengthenedFrom = 0 => booked.fields.length = 1
  BY DEF OneInv, OneTyped
<1>4. fields \in Fields /\ fields.start = 1 /\ fields.length = 1 /\ fields.label = "series"
  BY <1>1, <1>3, SeriesFits DEF Fields
<1>5. /\ booked' \in [fields : Fields, movedFrom : {0, 1}, lengthenedFrom : {0, 1},
                      running : BOOLEAN]
      /\ booked'.fields = fields /\ booked'.movedFrom = 0 /\ booked'.lengthenedFrom = 0
  BY <1>2, <1>4 DEF OneInv, OneTyped
<1>6. /\ seen' \in [Editors -> Fields] /\ sending' \in [Editors -> Edit]
      /\ \A d \in Editors : sending'[d] # F!Nobody =>
           sending'[d].fields = F!Differing(sending'[d].to, F!DraftOf(seen'[d]))
  BY <1>2, <1>4, <1>5, Answered
<1>7. /\ meant' \in F!Drafts /\ meant'.label = "series" /\ meant'.start = 1 /\ meant'.length = 1
  BY <1>2, SeriesFits, DraftsOf
<1>8. F!LastWordStands'
  BY <1>4, <1>5, <1>7 DEF F!LastWordStands
<1>9. QED
  BY <1>4, <1>5, <1>6, <1>7, <1>8 DEF OneInv, OneTyped

LEMMA PatchKeeps == ASSUME OneInv, NEW e \in Editors, F!PatchOccurrence(e) PROVE OneInv'
<1>1. PICK edit : edit = sending[e]
  OBVIOUS
<1>2. PICK sent :
        sent = (edit.fields \ {"title", "file"}) \cup
                 (IF edit.fields \cap {"title", "file"} # {} THEN {"title", "file"} ELSE {})
  OBVIOUS
<1>3. PICK fields :
        fields = [f \in DOMAIN booked.fields |->
                    IF f \in sent THEN edit.to[f] ELSE booked.fields[f]]
  OBVIOUS
<1>4. /\ edit # F!Nobody /\ sending' = [sending EXCEPT ![e] = F!Nobody]
      /\ seen' = [seen EXCEPT ![e] = booked'.fields]
  BY <1>1 DEF F!PatchOccurrence
<1>5. IF booked.running THEN UNCHANGED <<booked, meant>>
      ELSE /\ booked' = [booked EXCEPT !.fields = fields,
                !.movedFrom = IF fields.start # booked.fields.start
                              THEN F!FirstPlace(@, booked.fields.start) ELSE @,
                !.lengthenedFrom = IF fields.length # booked.fields.length
                                   THEN F!FirstPlace(@, booked.fields.length) ELSE @]
           /\ meant' = [f \in DOMAIN meant |->
                          IF edit.to[f] # F!DraftOf(seen[e])[f] THEN edit.to[f] ELSE meant[f]]
  BY <1>1, <1>2, <1>3 DEF F!PatchOccurrence
<1>6. /\ edit \in Edit /\ edit.fields = F!Differing(edit.to, F!DraftOf(seen[e]))
      /\ F!DraftOf(seen[e]) \in F!Drafts /\ edit.to \in F!Drafts
      /\ booked.fields \in Fields /\ meant \in F!Drafts
      /\ sending'[e] = F!Nobody
  BY <1>1, <1>4, DraftsOf DEF OneInv, OneTyped, Edit
<1>7. DOMAIN booked.fields = Names /\ DOMAIN meant = Names /\ DOMAIN edit.to = Names
  BY <1>6 DEF Fields, F!Drafts, Names
<1>8. \A f \in {"label", "start", "length"} :
        f \in sent <=> edit.to[f] # F!DraftOf(seen[e])[f]
  BY <1>2, <1>6, <1>7 DEF F!Differing, Names
<1>9. /\ fields \in Fields
      /\ \A f \in {"label", "start", "length"} :
           fields[f] = IF f \in sent THEN edit.to[f] ELSE booked.fields[f]
  BY <1>3, <1>6, <1>7 DEF Fields, F!Drafts, Names
<1>10. CASE booked.running
  <2>1. UNCHANGED <<booked, meant>>
    BY <1>5, <1>10
  <2>2. /\ seen' \in [Editors -> Fields] /\ sending' \in [Editors -> Edit]
        /\ \A d \in Editors : sending'[d] # F!Nobody =>
             sending'[d].fields = F!Differing(sending'[d].to, F!DraftOf(seen'[d]))
    BY <1>4, <1>6, <2>1, Answered
  <2>3. QED
    BY <2>1, <2>2 DEF OneInv, OneTyped, F!LastWordStands
<1>11. CASE ~booked.running
  <2>1. PICK from \in {0, 1} :
          /\ from = IF fields.start # booked.fields.start
                    THEN F!FirstPlace(booked.movedFrom, booked.fields.start)
                    ELSE booked.movedFrom
          /\ from = 0 => fields.start = 1
    BY DEF OneInv, OneTyped, F!FirstPlace
  <2>2. PICK span \in {0, 1} :
          /\ span = IF fields.length # booked.fields.length
                    THEN F!FirstPlace(booked.lengthenedFrom, booked.fields.length)
                    ELSE booked.lengthenedFrom
          /\ span = 0 => fields.length = 1
    BY DEF OneInv, OneTyped, F!FirstPlace
  <2>3. booked' = [booked EXCEPT !.fields = fields, !.movedFrom = from, !.lengthenedFrom = span]
    BY <1>5, <1>11, <2>1, <2>2
  <2>4. /\ booked' \in [fields : Fields, movedFrom : {0, 1}, lengthenedFrom : {0, 1},
                        running : BOOLEAN]
        /\ booked'.fields = fields /\ booked'.movedFrom = from /\ booked'.lengthenedFrom = span
    BY <1>9, <2>3 DEF OneInv, OneTyped
  <2>5. /\ seen' \in [Editors -> Fields] /\ sending' \in [Editors -> Edit]
        /\ \A d \in Editors : sending'[d] # F!Nobody =>
             sending'[d].fields = F!Differing(sending'[d].to, F!DraftOf(seen'[d]))
    BY <1>4, <1>6, <1>9, <2>4, Answered
  <2>6. meant' = [f \in Names |->
                    IF edit.to[f] # F!DraftOf(seen[e])[f] THEN edit.to[f] ELSE meant[f]]
    BY <1>5, <1>7, <1>11
  <2>7. meant' \in F!Drafts
    BY <1>6, <2>6 DEF F!Drafts, Names
  <2>8. F!LastWordStands'
    <3>1. ASSUME NEW f \in {"label", "start", "length"} PROVE booked'.fields[f] = meant'[f]
      <4>1. f \in Names /\ booked.fields[f] = meant[f]
        BY DEF OneInv, F!LastWordStands, Names
      <4>2. QED
        BY <1>8, <1>9, <2>4, <2>6, <4>1
    <3>2. QED
      BY <3>1 DEF F!LastWordStands
  <2>9. QED
    BY <2>1, <2>2, <2>4, <2>5, <2>7, <2>8 DEF OneInv, OneTyped
<1>12. QED
  BY <1>10, <1>11

LEMMA OneKept ==
  ASSUME OneInv, F!OneNext \/ UNCHANGED F!oneVars
  PROVE  OneInv'
<1>1. CASE UNCHANGED F!oneVars
  BY <1>1 DEF F!oneVars, OneInv, OneTyped, F!LastWordStands
<1>2. CASE F!Begin
  BY <1>2, RunBeginsKeeps
<1>3. ASSUME NEW e \in Editors,
             F!Reopen(e) \/ F!PatchOccurrence(e) \/ F!Revert(e)
               \/ \E draft \in F!Drafts : F!SaveOne(e, draft)
      PROVE  OneInv'
  BY <1>3, ReopenKeeps, PatchKeeps, RevertKeeps, SaveOneKeeps
<1>4. QED
  BY <1>1, <1>2, <1>3 DEF F!OneNext

LEMMA OneReverted == ASSUME OneInv PROVE F!RevertedIsAttached
BY SeriesFits DEF OneInv, F!RevertedIsAttached
-----------------------------------------------------------------------------
(* Forms: how an event repeats *)

RuleShape == [freq : {"none", "daily", "weekly", "monthly", "yearly"}, days : SUBSET Nat, nth : Nat]

\* What a rule has besides its frequency belongs to it.
WellMade(r) ==
  \/ r = F!None \/ r = F!Daily \/ r = F!Yearly \/ r = F!Weekly(r.days)
  \/ r.freq = "monthly"

Choices == {"once", "daily", "weekly", "monthly", "custom", "plan"}

Dates == 0..(2 * F!Week - 1)

RuleTyped ==
  /\ rule \in RuleShape /\ WellMade(rule) /\ first \in Dates
  /\ form \in [repeat : Choices, byday : SUBSET Nat, bydayTouched : BOOLEAN, custom : RuleShape,
               prior : RuleShape, date : Dates, open : BOOLEAN]
  /\ picked \in BOOLEAN

\* The form remembers the rule that it was opened with, and its days until others are picked.
RuleInv ==
  /\ RuleTyped
  /\ form.open =>
       /\ form.prior = rule
       /\ form.custom = IF rule.freq = "yearly" THEN rule ELSE F!None
       /\ ~picked => /\ form.byday = F!DaysOf(rule)
                     /\ form.bydayTouched <=> F!DaysOf(rule) # {}

LEMMA RulesAre ==
  /\ F!None \in RuleShape /\ F!Daily \in RuleShape /\ F!Yearly \in RuleShape
  /\ F!None.freq = "none" /\ F!Daily.freq = "daily" /\ F!Yearly.freq = "yearly"
  /\ F!None.days = {} /\ F!Daily.days = {} /\ F!Yearly.days = {}
  /\ WellMade(F!None) /\ WellMade(F!Daily) /\ WellMade(F!Yearly)
BY DEF F!None, F!Daily, F!Yearly, RuleShape, WellMade

LEMMA WeeklyIs ==
  ASSUME NEW which
  PROVE  /\ which \in SUBSET Nat => F!Weekly(which) \in RuleShape
         /\ F!Weekly(which).freq = "weekly" /\ F!Weekly(which).days = which
         /\ WellMade(F!Weekly(which))
<1>1. /\ which \in SUBSET Nat => F!Weekly(which) \in RuleShape
      /\ F!Weekly(which).freq = "weekly" /\ F!Weekly(which).days = which
  BY DEF F!Weekly, RuleShape
<1>2. WellMade(F!Weekly(which))
  BY <1>1 DEF WellMade
<1>3. QED
  BY <1>1, <1>2

LEMMA WeekdayIs == ASSUME NEW date \in Dates PROVE F!Weekday(date) \in Nat /\ F!Nth(date) \in Nat
BY DEF F!Weekday, F!Nth, F!Week, Dates

LEMMA MonthlyIs ==
  ASSUME NEW day \in Nat, NEW nth \in Nat
  PROVE  /\ F!Monthly(day, nth) \in RuleShape /\ F!Monthly(day, nth).freq = "monthly"
         /\ WellMade(F!Monthly(day, nth))
BY DEF F!Monthly, RuleShape, WellMade

LEMMA DaysAre ==
  ASSUME NEW r \in RuleShape
  PROVE  /\ F!DaysOf(r) \in SUBSET Nat
         /\ r.freq = "weekly" => F!DaysOf(r) = r.days
         /\ r.freq # "weekly" => F!DaysOf(r) = {}
BY DEF F!DaysOf, RuleShape

LEMMA RuleHolds == F!FormsInit => RuleInv
<1> SUFFICES ASSUME F!FormsInit PROVE RuleInv
  OBVIOUS
<1>1. /\ rule \in {F!None, F!Daily, F!Weekly({0}), F!Weekly({0, 1}), F!Monthly(1, 1), F!Yearly}
      /\ first = 0 /\ form = F!Blank /\ picked = FALSE
  BY DEF F!FormsInit
<1>2. rule \in RuleShape /\ WellMade(rule)
  <2>1. {0} \in SUBSET Nat /\ {0, 1} \in SUBSET Nat /\ 1 \in Nat
    OBVIOUS
  <2>2. QED
    BY <1>1, <2>1, RulesAre, WeeklyIs, MonthlyIs
<1>3. /\ form \in [repeat : Choices, byday : SUBSET Nat, bydayTouched : BOOLEAN,
                   custom : RuleShape, prior : RuleShape, date : Dates, open : BOOLEAN]
      /\ ~form.open
  BY <1>1, RulesAre DEF F!Blank, Choices, Dates, F!Week
<1>4. first \in Dates
  BY <1>1 DEF Dates, F!Week
<1>5. QED
  BY <1>1, <1>2, <1>3, <1>4 DEF RuleInv, RuleTyped

LEMMA OpenKeeps == ASSUME RuleInv, NEW paired \in BOOLEAN, F!OpenForm(paired) PROVE RuleInv'
<1>1. /\ form' = F!Parsed(rule, paired) /\ picked' = FALSE /\ UNCHANGED <<rule, first>>
  BY DEF F!OpenForm
<1>2. rule \in RuleShape /\ first \in Dates
  BY DEF RuleInv, RuleTyped
<1>3. F!Repeats(rule.freq) \in Choices /\ (F!Repeats(rule.freq) = "custom" <=> rule.freq = "yearly")
  BY <1>2 DEF F!Repeats, Choices, RuleShape
<1>4. PICK repeat \in Choices, custom \in RuleShape, marked \in BOOLEAN :
        /\ form' = [repeat |-> repeat, byday |-> F!DaysOf(rule), bydayTouched |-> marked,
                    custom |-> custom, prior |-> rule, date |-> first, open |-> TRUE]
        /\ custom = IF rule.freq = "yearly" THEN rule ELSE F!None
        /\ marked <=> F!DaysOf(rule) # {}
  <2>1. PICK repeat : repeat = IF paired THEN "plan" ELSE F!Repeats(rule.freq)
    OBVIOUS
  <2>2. PICK custom : custom = IF F!Repeats(rule.freq) = "custom" THEN rule ELSE F!None
    OBVIOUS
  <2>3. PICK marked \in BOOLEAN : marked = (F!DaysOf(rule) # {})
    OBVIOUS
  <2>4. form' = [repeat |-> repeat, byday |-> F!DaysOf(rule), bydayTouched |-> marked,
                 custom |-> custom, prior |-> rule, date |-> first, open |-> TRUE]
    BY <1>1, <2>1, <2>2, <2>3 DEF F!Parsed
  <2>5. repeat \in Choices
    BY <1>3, <2>1 DEF Choices
  <2>6. custom = (IF rule.freq = "yearly" THEN rule ELSE F!None) /\ custom \in RuleShape
    BY <1>2, <1>3, <2>2, RulesAre
  <2>7. QED
    BY <2>3, <2>4, <2>5, <2>6
<1>5. F!DaysOf(rule) \in SUBSET Nat
  BY <1>2, DaysAre
<1>6. RuleTyped'
  <2>1. form' \in [repeat : Choices, byday : SUBSET Nat, bydayTouched : BOOLEAN,
                   custom : RuleShape, prior : RuleShape, date : Dates, open : BOOLEAN]
    BY <1>2, <1>4, <1>5
  <2>2. QED
    BY <1>1, <2>1 DEF RuleInv, RuleTyped, WellMade
<1>7. QED
  BY <1>1, <1>4, <1>6 DEF RuleInv, F!DaysOf

LEMMA ChooseKeeps ==
  ASSUME RuleInv,
         \/ \E r \in Choices : F!ChooseRepeat(r)
         \/ \E d \in 0..(2 * F!Week - 1) : F!ChooseDate(d)
  PROVE  RuleInv' /\ form'.open
<1>1. PICK r \in Choices, d \in Dates :
        /\ form.open /\ UNCHANGED <<rule, first, picked>>
        /\ form' = [form EXCEPT !.repeat = r] \/ form' = [form EXCEPT !.date = d]
  BY DEF F!ChooseRepeat, F!ChooseDate, F!Choose, Choices, Dates, F!Week
<1>2. /\ form' \in [repeat : Choices, byday : SUBSET Nat, bydayTouched : BOOLEAN,
                    custom : RuleShape, prior : RuleShape, date : Dates, open : BOOLEAN]
      /\ form'.open = form.open /\ form'.prior = form.prior /\ form'.custom = form.custom
      /\ form'.byday = form.byday /\ form'.bydayTouched = form.bydayTouched
  BY <1>1 DEF RuleInv, RuleTyped
<1>3. RuleTyped'
  BY <1>1, <1>2 DEF RuleInv, RuleTyped, WellMade
<1>4. QED
  BY <1>1, <1>2, <1>3 DEF RuleInv, F!DaysOf

LEMMA ToggleKeeps ==
  ASSUME RuleInv, NEW day \in 0..(F!Week - 1), F!ToggleDay(day) PROVE RuleInv' /\ form'.open
<1>1. PICK before :
        before = IF form.bydayTouched THEN form.byday ELSE {F!Weekday(form.date)}
  OBVIOUS
<1>2. PICK which : which = (before \ {day}) \cup ({day} \ before)
  OBVIOUS
<1>3. /\ form.open /\ form' = [form EXCEPT !.byday = which, !.bydayTouched = TRUE]
      /\ picked' = TRUE /\ UNCHANGED <<rule, first>>
  BY <1>1, <1>2 DEF F!ToggleDay, F!Choose
<1>4. which \in SUBSET Nat
  <2>1. day \in Nat
    BY DEF F!Week
  <2>2. form.byday \in SUBSET Nat /\ F!Weekday(form.date) \in Nat
    BY WeekdayIs DEF RuleInv, RuleTyped
  <2>3. QED
    BY <1>1, <1>2, <2>1, <2>2
<1>5. /\ form' \in [repeat : Choices, byday : SUBSET Nat, bydayTouched : BOOLEAN,
                    custom : RuleShape, prior : RuleShape, date : Dates, open : BOOLEAN]
      /\ form'.open /\ form'.prior = form.prior /\ form'.custom = form.custom
  BY <1>3, <1>4 DEF RuleInv, RuleTyped
<1>6. RuleTyped'
  BY <1>3, <1>5 DEF RuleInv, RuleTyped, WellMade
<1>7. QED
  BY <1>3, <1>5, <1>6 DEF RuleInv

\* A rule that was only looked at is as it was.
RuleStep ==
  form.open /\ ~form'.open =>
    /\ form.repeat = "plan" => rule' = rule
    /\ (form.repeat = F!Repeats(rule.freq) /\ form.date = first /\ ~picked
          /\ (rule.freq = "monthly" => rule = F!Monthly(F!Weekday(first), F!Nth(first))))
         => F!Meaning(rule', first') = F!Meaning(rule, first)
    /\ (form.repeat = "weekly" /\ ~picked) =>
         F!Meaning(rule', first').days \in {{F!Weekday(first')}, F!DaysOf(rule)}

LEMMA SaveRuleKeeps == ASSUME RuleInv, F!SaveRule PROVE RuleInv' /\ RuleStep
<1>1. PICK which : which = IF form.bydayTouched THEN form.byday ELSE {F!Weekday(form.date)}
  OBVIOUS
<1>2. /\ form.open /\ rule' = F!ToRule(form) /\ first' = form.date
      /\ form' = [form EXCEPT !.open = FALSE] /\ UNCHANGED picked
  BY DEF F!SaveRule
<1>3. /\ rule \in RuleShape /\ WellMade(rule) /\ form.repeat \in Choices /\ form.custom \in RuleShape
      /\ form.prior \in RuleShape /\ form.date \in Dates /\ form.byday \in SUBSET Nat
      /\ F!Weekday(form.date) \in Nat /\ F!Nth(form.date) \in Nat /\ first \in Dates
      /\ form.prior = rule
      /\ form.custom = IF rule.freq = "yearly" THEN rule ELSE F!None
      /\ ~picked => /\ form.byday = F!DaysOf(rule)
                    /\ form.bydayTouched <=> F!DaysOf(rule) # {}
  BY <1>2, WeekdayIs DEF RuleInv, RuleTyped
<1>4. /\ form.repeat = "once" => rule' = F!None
      /\ form.repeat = "daily" => rule' = F!Daily
      /\ form.repeat = "weekly" => rule' = F!Weekly(which)
      /\ form.repeat = "monthly" => rule' = F!Monthly(F!Weekday(form.date), F!Nth(form.date))
      /\ form.repeat = "custom" => rule' = form.custom
      /\ form.repeat = "plan" => rule' = form.prior
  BY <1>1, <1>2 DEF F!ToRule
<1>5. which \in SUBSET Nat
  BY <1>1, <1>3
<1>6. rule' \in RuleShape /\ WellMade(rule')
  <2>1. CASE form.repeat \in {"once", "daily"}
    BY <1>4, <2>1, RulesAre
  <2>2. CASE form.repeat = "weekly"
    BY <1>4, <1>5, <2>2, WeeklyIs
  <2>3. CASE form.repeat = "monthly"
    BY <1>3, <1>4, <2>3, MonthlyIs
  <2>4. CASE form.repeat \in {"custom", "plan"}
    BY <1>3, <1>4, <2>4, RulesAre
  <2>5. QED
    BY <1>3, <2>1, <2>2, <2>3, <2>4 DEF Choices
<1>7. RuleInv'
  <2>1. form' \in [repeat : Choices, byday : SUBSET Nat, bydayTouched : BOOLEAN,
                   custom : RuleShape, prior : RuleShape, date : Dates, open : BOOLEAN]
        /\ ~form'.open
    BY <1>2 DEF RuleInv, RuleTyped
  <2>2. RuleTyped'
    BY <1>2, <1>3, <1>6, <2>1 DEF RuleInv, RuleTyped, WellMade
  <2>3. QED
    BY <2>1, <2>2 DEF RuleInv
<1>8. ASSUME form.repeat = "weekly", ~picked
      PROVE  F!Meaning(rule', first').days \in {{F!Weekday(first')}, F!DaysOf(rule)}
  <2>1. rule' = F!Weekly(which) /\ which \in {{F!Weekday(first')}, F!DaysOf(rule)} /\ which # {}
    BY <1>1, <1>2, <1>3, <1>4, <1>8
  <2>2. F!Weekly(which) # F!Weekly({})
    BY <2>1, WeeklyIs
  <2>3. QED
    BY <2>1, <2>2, WeeklyIs DEF F!Meaning
<1>9. ASSUME form.repeat = F!Repeats(rule.freq), form.date = first, ~picked,
             rule.freq = "monthly" => rule = F!Monthly(F!Weekday(first), F!Nth(first))
      PROVE  F!Meaning(rule', first') = F!Meaning(rule, first)
  <2>1. CASE rule.freq = "none"
    <3>1. rule = F!None /\ rule' = F!None
      BY <1>3, <1>4, <1>9, <2>1, RulesAre, WeeklyIs DEF WellMade, F!Repeats
    <3>2. QED
      BY <1>2, <1>9, <3>1
  <2>2. CASE rule.freq = "daily"
    <3>1. rule = F!Daily /\ rule' = F!Daily
      BY <1>3, <1>4, <1>9, <2>2, RulesAre, WeeklyIs DEF WellMade, F!Repeats
    <3>2. QED
      BY <1>2, <1>9, <3>1
  <2>3. CASE rule.freq = "yearly"
    <3>1. rule' = rule
      BY <1>3, <1>4, <1>9, <2>3 DEF F!Repeats
    <3>2. QED
      BY <1>2, <1>9, <3>1
  <2>4. CASE rule.freq = "monthly"
    <3>1. rule' = rule
      BY <1>4, <1>9, <2>4 DEF F!Repeats
    <3>2. QED
      BY <1>2, <1>9, <3>1
  <2>5. CASE rule.freq = "weekly"
    <3>1. rule = F!Weekly(rule.days) /\ rule' = F!Weekly(which) /\ F!DaysOf(rule) = rule.days
      BY <1>3, <1>4, <1>9, <2>5, RulesAre, DaysAre DEF WellMade, F!Repeats
    <3>2. CASE rule.days = {}
      <4>1. which = {F!Weekday(first)}
        BY <1>1, <1>3, <1>9, <3>1, <3>2
      <4>2. F!Weekly(which) # F!Weekly({})
        BY <4>1, WeeklyIs
      <4>3. QED
        BY <1>2, <1>9, <3>1, <3>2, <4>1, <4>2 DEF F!Meaning
    <3>3. CASE rule.days # {}
      <4>1. which = rule.days
        BY <1>1, <1>3, <1>9, <3>1, <3>3
      <4>2. QED
        BY <1>2, <1>9, <3>1, <4>1
    <3>4. QED
      BY <3>2, <3>3
  <2>6. QED
    BY <1>3, <2>1, <2>2, <2>3, <2>4, <2>5 DEF RuleShape
<1>10. form.repeat = "plan" => rule' = rule
  BY <1>3, <1>4
<1>11. QED
  BY <1>7, <1>8, <1>9, <1>10 DEF RuleStep

LEMMA RuleKeeps ==
  ASSUME RuleInv, F!RuleNext \/ UNCHANGED F!ruleVars
  PROVE  RuleInv' /\ RuleStep
<1>1. ASSUME NEW paired \in BOOLEAN, F!OpenForm(paired) PROVE RuleInv' /\ RuleStep
  <2>1. ~form.open
    BY <1>1 DEF F!OpenForm
  <2>2. QED
    BY <1>1, <2>1, OpenKeeps DEF RuleStep
<1>2. ASSUME \/ \E r \in Choices : F!ChooseRepeat(r)
             \/ \E d \in 0..(2 * F!Week - 1) : F!ChooseDate(d)
      PROVE  RuleInv' /\ RuleStep
  BY <1>2, ChooseKeeps DEF RuleStep
<1>3. ASSUME NEW day \in 0..(F!Week - 1), F!ToggleDay(day) PROVE RuleInv' /\ RuleStep
  BY <1>3, ToggleKeeps DEF RuleStep
<1>4. CASE F!SaveRule
  BY <1>4, SaveRuleKeeps
<1>5. CASE UNCHANGED F!ruleVars
  BY <1>5 DEF F!ruleVars, RuleInv, RuleTyped, RuleStep, WellMade, F!DaysOf
<1>6. QED
  BY <1>1, <1>2, <1>3, <1>4, <1>5 DEF F!RuleNext, Choices

\* A step of one page leaves what the others go by as it is.
LEMMA PagesApart ==
  ASSUME [F!FormsNext]_formsVars
  PROVE  /\ F!EventNext \/ UNCHANGED F!eventVars
         /\ F!OneNext \/ UNCHANGED F!oneVars
         /\ F!RuleNext \/ UNCHANGED F!ruleVars
<1>1. CASE UNCHANGED formsVars
  BY <1>1 DEF formsVars, F!eventVars, F!oneVars, F!ruleVars
<1>2. CASE F!EventNext /\ UNCHANGED <<page, F!oneVars, words, F!ruleVars>>
  BY <1>2
<1>3. CASE F!OneNext /\ UNCHANGED <<page, F!eventVars, F!ruleVars>>
  BY <1>3
<1>4. CASE F!RuleNext /\ UNCHANGED <<page, F!eventVars, F!oneVars>>
  BY <1>4
<1>5. QED
  BY <1>1, <1>2, <1>3, <1>4 DEF F!FormsNext

\* What the pages hold, whatever operators do.
FormsTyped ==
  /\ start \in F!Times /\ typed \in F!Times /\ saved \in F!Times /\ keep \in BOOLEAN
  /\ EventTyped /\ job.to \in F!Times
  /\ job.step # "rest" => job.left \subseteq DOMAIN job.hold
  /\ job.step = "outputs" => job.left # {}
  /\ touched \subseteq F!Outputs /\ lost \in 0..MaxLost /\ words \in 0..MaxWords

LEMMA FormsTypedHolds == ASSUME F!FormsAssumption PROVE F!FormsInit => FormsTyped
<1> SUFFICES ASSUME F!FormsInit PROVE FormsTyped
  OBVIOUS
<1>1. EventTyped
  BY EventHolds DEF EventInv
<1>2. /\ start = 1 /\ typed = 1 /\ saved = 1 /\ job = F!Idle /\ keep = FALSE
      /\ touched = {} /\ lost = 0 /\ words = 0
  BY DEF F!FormsInit
<1>3. 1 \in F!Times /\ 0 \in F!Times /\ 0 \in 0..MaxLost /\ 0 \in 0..MaxWords
  BY DEF F!Times, F!FormsAssumption
<1>4. F!Idle.to = 0
  BY DEF F!Idle
<1>5. QED
  BY <1>1, <1>2, <1>3, <1>4, IdleJob DEF FormsTyped

LEMMA TimesAre == ASSUME F!FormsAssumption PROVE F!Times \subseteq Nat /\ 0 \in F!Times
BY DEF F!Times, F!FormsAssumption

LEMMA LossesCounted ==
  ASSUME F!FormsAssumption, lost \in 0..MaxLost, NEW done \in BOOLEAN, F!Loses(done)
  PROVE  lost' \in 0..MaxLost
BY DEF F!Loses, F!FormsAssumption

LEMMA EventTypesKept ==
  ASSUME FormsTyped, F!FormsAssumption, F!EventNext, UNCHANGED words
  PROVE  FormsTyped'
<1>1. EventTyped /\ JobFits /\ job.left \subseteq F!Outputs /\ job.hold \in {<<>>} \cup [F!Outputs -> Nat]
  BY DEF FormsTyped, EventTyped, JobFits
<1>2. F!Failed.to = 0 /\ F!Idle.to = 0
  BY DEF F!Failed, F!Idle
<1>3. ASSUME NEW t \in F!Times, F!Type(t) PROVE FormsTyped'
  <2>1. /\ typed' = t /\ UNCHANGED <<start, offsets, saved, keep, job, lost>>
        /\ (moving' = <<>> /\ touched' = {}) \/ UNCHANGED <<moving, touched>>
    BY <1>3 DEF F!Type, F!Shown
  <2>2. EventTyped'
    BY <1>1, <2>1, TimesAre DEF EventTyped, JobFits
  <2>3. QED
    BY <2>1, <2>2 DEF FormsTyped
<1>4. ASSUME NEW t \in F!Times, NEW o \in F!Outputs, F!SaveRow(o, t) PROVE FormsTyped'
  <2>1. /\ t >= saved /\ offsets' = [offsets EXCEPT ![o] = t - saved]
        /\ touched' = {} \/ touched' = touched \cup {o}
        /\ UNCHANGED <<start, typed, saved, moving, keep, job, lost>>
    BY <1>4 DEF F!SaveRow
  <2>2. t - saved \in Nat
    BY <1>1, <2>1, TimesAre DEF EventTyped
  <2>3. EventTyped'
    BY <1>1, <2>1, <2>2 DEF EventTyped, JobFits
  <2>4. QED
    BY <2>1, <2>3 DEF FormsTyped
<1>5. ASSUME NEW done \in BOOLEAN, F!SaveSeries(done) PROVE FormsTyped'
  <2>1. /\ job.step = "series" /\ start' \in {job.to, start}
        /\ job' = IF done THEN F!Remaining(job.left) ELSE F!Failed
        /\ UNCHANGED <<offsets, typed, saved, moving, keep, touched>> /\ F!Loses(done)
    BY <1>5 DEF F!SaveSeries
  <2>2. start' \in F!Times
    BY <2>1 DEF FormsTyped
  <2>3. /\ JobFits' /\ job'.to \in F!Times
        /\ job'.step # "rest" => job'.left \subseteq DOMAIN job'.hold
        /\ job'.step = "outputs" => job'.left # {}
    <3>1. CASE done
      BY <1>1, <2>1, <3>1, RemainingIs DEF JobFits, FormsTyped
    <3>2. CASE ~done
      BY <1>2, <2>1, <3>2, IdleJob, TimesAre DEF JobFits
    <3>3. QED
      BY <3>1, <3>2
  <2>4. EventTyped'
    BY <1>1, <2>1, <2>2, <2>3, TimesAre DEF EventTyped
  <2>5. lost' \in 0..MaxLost
    BY <2>1, LossesCounted DEF FormsTyped
  <2>6. QED
    BY <2>1, <2>2, <2>3, <2>4, <2>5 DEF FormsTyped
<1>6. ASSUME NEW done \in BOOLEAN, F!SaveOutput(done) PROVE FormsTyped'
  <2>1. PICK o : o = F!Min(job.left)
    OBVIOUS
  <2>2. PICK to : to = job.hold[o] - job.by
    OBVIOUS
  <2>3. /\ job.step = "outputs" /\ UNCHANGED <<start, typed, saved, moving, keep, touched>>
        /\ to < 0 => ~done
        /\ ~(to < 0) => F!Loses(done)
        /\ offsets' = offsets \/ (~(to < 0) /\ offsets' = [offsets EXCEPT ![o] = to])
        /\ job' = IF done THEN F!Remaining(job.left \ {o}) ELSE F!Failed
        /\ lost' = lost \/ F!Loses(done)
    BY <1>6, <2>1, <2>2 DEF F!SaveOutput
  <2>4. job.left \subseteq DOMAIN job.hold /\ job.left # {} /\ job.left \subseteq Nat
    BY <1>1, <2>3 DEF FormsTyped, F!Outputs
  <2>5. o \in job.left
    BY <2>1, <2>4, LeastOne DEF T!Least, F!Min
  <2>6. job.hold # <<>>
    <3>1. DOMAIN << >> = {}
      OBVIOUS
    <3>2. QED
      BY <2>4, <2>5, <3>1
  <2>7. o \in F!Outputs /\ to \in Int
    <3>1. job.by \in Int /\ job.hold[o] \in Nat
      BY <1>1, <2>5, <2>6 DEF JobFits
    <3>2. QED
      BY <1>1, <2>2, <2>5, <3>1
  <2>8. offsets' \in [F!Outputs -> Nat]
    <3>1. ~(to < 0) => to \in Nat
      BY <2>7
    <3>2. QED
      BY <1>1, <2>3, <2>7, <3>1 DEF EventTyped
  <2>9. /\ JobFits' /\ job'.to \in F!Times
        /\ job'.step # "rest" => job'.left \subseteq DOMAIN job'.hold
        /\ job'.step = "outputs" => job'.left # {}
    <3>1. CASE done
      <4>1. job.left \ {o} \in SUBSET F!Outputs
        BY <1>1
      <4>2. /\ JobFits' /\ job'.to = job.to /\ job'.hold = job.hold /\ job'.left = job.left \ {o}
            /\ job'.step = IF job.left \ {o} # {} THEN "outputs" ELSE "fresh"
        BY <1>1, <2>3, <3>1, <4>1, RemainingIs DEF JobFits
      <4>3. job.to \in F!Times
        BY DEF FormsTyped
      <4>4. QED
        BY <2>4, <4>2, <4>3
    <3>2. CASE ~done
      BY <1>2, <2>3, <3>2, IdleJob, TimesAre DEF JobFits
    <3>3. QED
      BY <3>1, <3>2
  <2>10. EventTyped'
    BY <1>1, <2>3, <2>8, <2>9 DEF EventTyped
  <2>11. lost' \in 0..MaxLost
    BY <2>3, LossesCounted DEF FormsTyped
  <2>12. QED
    BY <2>3, <2>9, <2>10, <2>11 DEF FormsTyped
<1>7. ASSUME NEW done \in BOOLEAN, F!ReadSaved(done) PROVE FormsTyped'
  <2>1. /\ job' \in {F!Idle, F!Failed} /\ saved' \in {start, saved} /\ keep' = FALSE
        /\ UNCHANGED <<start, offsets, typed>> /\ F!Loses(done)
        /\ (moving' = <<>> /\ touched' = {}) \/ UNCHANGED <<moving, touched>>
    BY <1>7 DEF F!ReadSaved, F!Shown
  <2>2. JobFits' /\ job'.to \in F!Times /\ job'.step = "rest"
    BY <1>2, <2>1, IdleJob, TimesAre DEF JobFits
  <2>3. EventTyped'
    BY <1>1, <2>1, <2>2 DEF EventTyped
  <2>4. lost' \in 0..MaxLost
    BY <2>1, LossesCounted DEF FormsTyped
  <2>5. QED
    BY <2>1, <2>2, <2>3, <2>4 DEF FormsTyped
<1>8. CASE F!ReadOutputs
  <2>1. moving' = offsets /\ touched' = {} /\ UNCHANGED <<start, offsets, typed, saved, keep, job, lost>>
    BY <1>8 DEF F!ReadOutputs
  <2>2. EventTyped'
    BY <1>1, <2>1 DEF EventTyped, JobFits
  <2>3. QED
    BY <2>1, <2>2 DEF FormsTyped
<1>9. CASE F!TickKeep
  <2>1. /\ keep' \in BOOLEAN
        /\ UNCHANGED <<start, offsets, typed, saved, moving, job, touched, lost>>
    BY <1>9 DEF F!TickKeep, FormsTyped
  <2>2. EventTyped'
    BY <1>1, <2>1 DEF EventTyped, JobFits
  <2>3. QED
    BY <2>1, <2>2 DEF FormsTyped
<1>10. CASE F!Save
  <2>1. PICK hold \in {<<>>, moving} :
          job' = [step |-> "series", to |-> typed, by |-> typed - saved, hold |-> hold,
                  left |-> DOMAIN hold, failed |-> FALSE]
    BY <1>10 DEF F!Save, F!Captured
  <2>2. UNCHANGED <<start, offsets, typed, saved, moving, keep, touched, lost>>
    BY <1>10 DEF F!Save
  <2>3. DOMAIN hold \subseteq F!Outputs /\ hold \in {<<>>} \cup [F!Outputs -> Nat]
    BY <1>1, <2>1 DEF EventTyped
  <2>4. EventTyped'
    BY <1>1, <2>1, <2>2, <2>3 DEF EventTyped, JobFits
  <2>5. job'.step = "series" /\ job'.to = typed /\ job'.hold = hold /\ job'.left = DOMAIN hold
    BY <2>1
  <2>6. QED
    BY <2>2, <2>4, <2>5 DEF FormsTyped
<1>11. QED
  BY <1>3, <1>4, <1>5, <1>6, <1>7, <1>8, <1>9, <1>10 DEF F!EventNext

LEMMA FormsTypedKept ==
  ASSUME FormsTyped, F!FormsAssumption, [F!FormsNext]_formsVars
  PROVE  FormsTyped'
<1>1. CASE F!EventNext /\ UNCHANGED words
  BY <1>1, EventTypesKept
<1>2. ASSUME words' \in 0..MaxWords, UNCHANGED F!eventVars PROVE FormsTyped'
  BY <1>2 DEF F!eventVars, FormsTyped, EventTyped, JobFits
<1>3. words \in 0..MaxWords /\ MaxWords \in Nat
  BY DEF FormsTyped, F!FormsAssumption
<1>4. CASE F!OneNext /\ UNCHANGED F!eventVars
  <2>1. words' = words \/ (words < MaxWords /\ words' = words + 1)
    BY <1>4 DEF F!OneNext, F!Begin, F!Reopen, F!PatchOccurrence, F!Revert, F!SaveOne
  <2>2. words' \in 0..MaxWords
    BY <1>3, <2>1
  <2>3. QED
    BY <1>2, <1>4, <2>2
<1>5. CASE F!RuleNext /\ UNCHANGED F!eventVars
  <2>1. words' = words \/ (words < MaxWords /\ words' = words + 1)
    BY <1>5 DEF F!RuleNext, F!OpenForm, F!ChooseRepeat, F!ChooseDate, F!ToggleDay, F!Choose,
                F!SaveRule
  <2>2. words' \in 0..MaxWords
    BY <1>3, <2>1
  <2>3. QED
    BY <1>2, <1>5, <2>2
<1>6. CASE UNCHANGED formsVars
  <2>1. UNCHANGED words /\ UNCHANGED F!eventVars
    BY <1>6 DEF formsVars, F!eventVars
  <2>2. QED
    BY <1>2, <1>3, <2>1
<1>7. QED
  BY <1>1, <1>4, <1>5, <1>6 DEF F!FormsNext

LEMMA FormsTypes == ASSUME FormsTyped, OneInv, RuleInv PROVE F!FormsTypeOK
<1>1. /\ start \in F!Times /\ typed \in F!Times /\ saved \in F!Times /\ keep \in BOOLEAN
      /\ touched \subseteq F!Outputs /\ lost \in 0..MaxLost /\ words \in 0..MaxWords
  BY DEF FormsTyped
<1>2. /\ offsets \in [F!Outputs -> Int] /\ \A o \in F!Outputs : offsets[o] >= 0
      /\ moving \in [F!Outputs -> Nat] \/ moving = <<>>
  BY DEF FormsTyped, EventTyped
<1>3. job.step \in {"rest", "series", "outputs", "fresh"} /\ job.left \subseteq F!Outputs
  BY DEF FormsTyped, EventTyped, JobFits
<1>4. /\ rule.freq \in {"none", "daily", "weekly", "monthly", "yearly"}
      /\ first \in 0..(2 * F!Week - 1)
  BY DEF RuleInv, RuleTyped, RuleShape, Dates
<1>5. F!DraftOf(booked.fields) \in F!Drafts
  BY DraftsOf DEF OneInv, OneTyped
<1>6. QED
  BY <1>1, <1>2, <1>3, <1>4, <1>5 DEF F!FormsTypeOK
-----------------------------------------------------------------------------
(* All of them together *)

LEMMA NobodyLeft == ASSUME MagewellInv PROVE M!NobodyLeftEncoding
BY DEF MagewellInv, M!NobodyLeftEncoding

\* Every component keeps what it knows of its device.
KnowInv == ProInv /\ HyperInv /\ ObsInv

\* For any devices, however they are commanded, lose their links and forget, and whatever
\* other callers do: what ProPresenter says it streams to is where it streams, where the
\* install reports the destination at all; the codec a HyperDeck is believed to record in is
\* the one it records in; and what OBS is believed to have written is the file it wrote.
THEOREM AdaptersDoKnow ==
  ASSUME Reports PROVE AdaptersSpec => []AdaptersKnow
<1>1. AdaptersInit => KnowInv
  BY AdaptersAssumption, ProHolds, HyperHolds, ObsHolds DEF AdaptersInit, KnowInv
<1>2. KnowInv /\ [AdaptersNext]_adaptersVars => KnowInv'
  <2> SUFFICES ASSUME KnowInv, [AdaptersNext]_adaptersVars PROVE KnowInv'
    OBVIOUS
  <2>1. [P!ProNext]_proVars /\ [H!HyperNext]_hypVars /\ [O!ObsNext]_obsVars
    BY StepOfPro, StepOfHyper, StepOfObs
  <2>2. ProInv'
    BY <2>1, AdaptersAssumption, ProKept DEF KnowInv
  <2>3. HyperInv'
    BY <2>1, AdaptersAssumption, HyperKept DEF KnowInv
  <2>4. ObsInv'
    BY <2>1, AdaptersAssumption, ObsKept DEF KnowInv
  <2>5. QED
    BY <2>2, <2>3, <2>4 DEF KnowInv
<1>3. KnowInv => AdaptersKnow
  <2> SUFFICES ASSUME KnowInv PROVE AdaptersKnow
    OBVIOUS
  <2>1. P!SaysWhatItDoes
    BY AdaptersAssumption, ProSays DEF KnowInv
  <2>2. H!CodecKnown
    BY DEF KnowInv, HyperInv
  <2>3. O!LedgerHasTheFile
    BY DEF KnowInv, ObsInv
  <2>4. QED
    BY <2>1, <2>2, <2>3 DEF AdaptersKnow
<1>4. QED
  BY <1>1, <1>2, <1>3, PTL DEF AdaptersSpec

\* For any encoders, faults and callers: what a caller has read back after it set an encoder,
\* and nobody came between, is what the encoder holds; and a Magewell is not left encoding
\* for nobody, unless a request to it failed.
THEOREM EncodersDoAnswerRight == AdaptersSpec => []EncodersAnswerRight
<1>1. AdaptersInit => EncInv /\ MagewellInv
  BY AdaptersAssumption, EncHolds, MagewellHolds DEF AdaptersInit
<1>2. EncInv /\ MagewellInv /\ [AdaptersNext]_adaptersVars => (EncInv /\ MagewellInv)'
  <2> SUFFICES ASSUME EncInv, MagewellInv, [AdaptersNext]_adaptersVars
               PROVE  EncInv' /\ MagewellInv'
    OBVIOUS
  <2>1. [E!EncNext]_encVars /\ [M!MagewellNext]_magVars
    BY StepOfEncoders, StepOfMagewell
  <2>2. QED
    BY <2>1, AdaptersAssumption, EncKept, MagewellKept
<1>3. EncInv /\ MagewellInv => EncodersAnswerRight
  BY EncAnswers, NobodyLeft DEF EncodersAnswerRight
<1>4. QED
  BY <1>1, <1>2, <1>3, PTL DEF AdaptersSpec

\* For any runs, settings and budget: however often a broadcast is prepared again, after
\* whatever was lost or refused on the way, the channel announces it once, it has a stream
\* when its run is told it is ready, and the day's limit is passed by the calls under way at
\* most; a run that has its Twitch channel ready is pointed at it while nobody interferes, and
\* every title that is sent is one that Twitch accepts.
THEOREM BroadcastIsReady == AdaptersSpec => []BroadcastReady
<1>1. AdaptersInit => TubeInv /\ TwitchInv
  BY AdaptersAssumption, TubeHolds, TwitchHolds DEF AdaptersInit
<1>2. TubeInv /\ TwitchInv /\ [AdaptersNext]_adaptersVars => (TubeInv /\ TwitchInv)'
  <2> SUFFICES ASSUME TubeInv, TwitchInv, [AdaptersNext]_adaptersVars
               PROVE  TubeInv' /\ TwitchInv'
    OBVIOUS
  <2>1. [Y!TubeNext]_tubeVars /\ [T!TwitchNext]_twitchVars
    BY StepOfTube, StepOfTwitch
  <2>2. QED
    BY <2>1, AdaptersAssumption, TubeKept, TwitchKept
<1>3. TubeInv /\ TwitchInv => BroadcastReady
  BY AdaptersAssumption, TubeReady, TwitchReady DEF BroadcastReady
<1>4. QED
  BY <1>1, <1>2, <1>3, PTL DEF AdaptersSpec

\* What browsers go by.
BrowsersInv == ScreensInv /\ EventInv /\ OneInv /\ RuleInv

\* For any requests, sockets, sessions, outputs and editors, and answers in whatever order they
\* come: a screen shows what it was last told to look for, never goes back to what was, and
\* asks who is signed in when it is refused; one socket serves the whole app; outputs that are
\* to stay where they are stay there, through any saves that fail half-way; a form saves what
\* its operator changed and nothing else; and a rule that was only looked at is as it was. Of
\* operators it takes that they wait for answers and repeat a save that failed, and that nobody
\* signs in before the last socket has closed.
THEOREM BrowsersDoKeepFaith ==
  ASSUME ~Hasty, Patient PROVE AdaptersSpec => BrowsersKeepFaith
<1>1. AdaptersInit => BrowsersInv
  BY AdaptersAssumption, ScreensHolds, EventHolds, OneHolds, RuleHolds DEF AdaptersInit, BrowsersInv
<1>2. ASSUME BrowsersInv, [AdaptersNext]_adaptersVars
      PROVE  /\ BrowsersInv' /\ HeldStep /\ RuleStep
             /\ shown' = -1 \/ shown' >= shown
  <2>1. [V!ScreensNext]_screensVars /\ [F!FormsNext]_formsVars
    BY <1>2, StepOfScreens, StepOfForms
  <2>2. ScreensInv' /\ (shown' = -1 \/ shown' >= shown)
    BY <1>2, <2>1, AdaptersAssumption, ScreensKept DEF BrowsersInv
  <2>3. EventInv' /\ HeldStep
    BY <1>2, <2>1, AdaptersAssumption, PagesApart, EventKept DEF BrowsersInv
  <2>4. OneInv'
    BY <1>2, <2>1, PagesApart, OneKept DEF BrowsersInv
  <2>5. RuleInv' /\ RuleStep
    BY <1>2, <2>1, PagesApart, RuleKeeps DEF BrowsersInv
  <2>6. QED
    BY <2>2, <2>3, <2>4, <2>5 DEF BrowsersInv
<1>3. BrowsersInv =>
        V!KeepsUp /\ V!RefusedAsksAgain /\ V!OneSocket /\ F!LastWordStands /\ F!RevertedIsAttached
  BY AdaptersAssumption, ScreensSay, OneReverted DEF BrowsersInv, OneInv
<1>4. BrowsersInv /\ [AdaptersNext]_adaptersVars => BrowsersInv'
  BY <1>2
<1>5. BrowsersInv /\ [AdaptersNext]_adaptersVars => [shown' = -1 \/ shown' >= shown]_shown
  BY <1>2
<1>6. BrowsersInv /\ [AdaptersNext]_adaptersVars => [HeldStep]_<<page, F!eventVars>>
  BY <1>2
<1>7. BrowsersInv /\ [AdaptersNext]_adaptersVars => [RuleStep]_F!ruleVars
  BY <1>2
<1>8. AdaptersSpec => [][shown' = -1 \/ shown' >= shown]_shown
  BY <1>1, <1>4, <1>5, PTL DEF AdaptersSpec
<1>9. AdaptersSpec => [][HeldStep]_<<page, F!eventVars>>
  BY <1>1, <1>4, <1>6, PTL DEF AdaptersSpec
<1>10. AdaptersSpec => [][RuleStep]_F!ruleVars
  BY <1>1, <1>4, <1>7, PTL DEF AdaptersSpec
<1>11. AdaptersSpec => [](/\ V!KeepsUp /\ V!RefusedAsksAgain /\ V!OneSocket
                          /\ F!LastWordStands /\ F!RevertedIsAttached)
  BY <1>1, <1>3, <1>4, PTL DEF AdaptersSpec
<1>12. QED
  BY <1>8, <1>9, <1>10, <1>11, PTL
     DEF BrowsersKeepFaith, V!NeverBackwards, F!HeldStill, F!RuleKept, HeldStep, RuleStep

\* What each component holds, whichever is explored.
EdgesInv ==
  /\ part \in Parts /\ KnowInv /\ EncInv /\ MagewellInv /\ TubeInv /\ TwitchInv
  /\ ScreensInv /\ FormsTyped /\ OneInv /\ RuleInv

\* The state of every adapter and service, of the screens and of the forms has the shape it is
\* declared to have, for any devices, channels, browsers and operators.
THEOREM AdaptersTypeCorrect == AdaptersSpec => []AdaptersTypeOK
<1>1. AdaptersInit => EdgesInv
  BY AdaptersAssumption, ProHolds, HyperHolds, ObsHolds, EncHolds, MagewellHolds, TubeHolds,
     TwitchHolds, ScreensHolds, FormsTypedHolds, OneHolds, RuleHolds
     DEF AdaptersInit, EdgesInv, KnowInv
<1>2. EdgesInv /\ [AdaptersNext]_adaptersVars => EdgesInv'
  <2> SUFFICES ASSUME EdgesInv, [AdaptersNext]_adaptersVars PROVE EdgesInv'
    OBVIOUS
  <2>1. part' \in Parts
    BY Zenon DEF EdgesInv, AdaptersNext, Still, adaptersVars
  <2>2. ProInv' /\ HyperInv' /\ ObsInv'
    BY AdaptersAssumption, StepOfPro, StepOfHyper, StepOfObs, ProKept, HyperKept, ObsKept
       DEF EdgesInv, KnowInv
  <2>3. EncInv' /\ MagewellInv'
    BY AdaptersAssumption, StepOfEncoders, StepOfMagewell, EncKept, MagewellKept DEF EdgesInv
  <2>4. TubeInv' /\ TwitchInv'
    BY AdaptersAssumption, StepOfTube, StepOfTwitch, TubeKept, TwitchKept DEF EdgesInv
  <2>5. ScreensInv'
    BY AdaptersAssumption, StepOfScreens, ScreensKept DEF EdgesInv
  <2>6. FormsTyped' /\ OneInv' /\ RuleInv'
    BY AdaptersAssumption, StepOfForms, FormsTypedKept, PagesApart, OneKept, RuleKeeps DEF EdgesInv
  <2>7. QED
    BY <2>1, <2>2, <2>3, <2>4, <2>5, <2>6 DEF EdgesInv, KnowInv
<1>3. EdgesInv => AdaptersTypeOK
  <2> SUFFICES ASSUME EdgesInv PROVE AdaptersTypeOK
    OBVIOUS
  <2>1. M!MagewellTypeOK /\ O!ObsTypeOK /\ P!ProTypeOK /\ H!HyperTypeOK
    BY HyperTypes DEF EdgesInv, KnowInv, MagewellInv, ObsInv, ProInv
  <2>2. E!EncTypeOK /\ Y!TubeTypeOK /\ T!TwitchTypeOK /\ V!ScreensTypeOK
    BY DEF EdgesInv, EncInv, TubeInv, TwitchInv, ScreensInv, Screened
  <2>3. F!FormsTypeOK
    BY FormsTypes DEF EdgesInv
  <2>4. part \in Parts
    BY DEF EdgesInv
  <2>5. QED
    BY <2>1, <2>2, <2>3, <2>4 DEF AdaptersTypeOK, Parts
<1>4. QED
  BY <1>1, <1>2, <1>3, PTL DEF AdaptersSpec
=============================================================================
