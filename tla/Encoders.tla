------------------------------ MODULE Encoders ------------------------------
(***************************************************************************)
(* Pointing an encoder somewhere and putting it on the air, each verified  *)
(* by reading it back (applyAndVerify), through four adapters: an ATEM     *)
(* pushes its state, and is read from the mirror of it; a Streaming        *)
(* Encoder is asked; a vMix cannot say where it streams to, and is told    *)
(* url and key one after the other; and the simulator has the faults that  *)
(* real gear does not show on demand.                                      *)
(***************************************************************************)
EXTENDS Naturals, FiniteSets

CONSTANTS
  Kinds,      \* of encoders, among "atem", "encoder", "vmix", "mock"
  Faults,     \* what is wrong with a simulator: "none", "ignores-writes", "slow-to-settle", "flaky"
  Targets,    \* url and key, as one value
  Callers,    \* runs and operators
  Reads,      \* how often applyAndVerify looks (bound)
  SlowReads,  \* what is left of SLOW_READS after the reading that a start pushes
  MaxCalls,   \* bound: calls
  MaxTrouble  \* bound: commands that fail

EncoderAssumption ==
  /\ Kinds \subseteq {"atem", "encoder", "vmix", "mock"} /\ Kinds # {} /\ "none" \notin Targets
  /\ Reads \in Nat /\ SlowReads \in Nat /\ MaxCalls \in Nat /\ MaxTrouble \in Nat

VARIABLES
  kind, fault,
  box,        \* the encoder: [url, key: of which target, onair: the url and key it sends to]
  mirror,     \* what an ATEM said of itself last
  memory,     \* this.targets of a vMix
  settling,   \* settleReads of a simulator
  fresh,      \* no command reached the simulator since it was connected
  turn,       \* [Callers -> what it does, with which target, and the reads that are left]
  alone,      \* callers that nobody came between
  called, trouble

encVars == <<kind, fault, box, mirror, memory, settling, fresh, turn, alone, called, trouble>>

Off == <<"none", "none">>
Pair(b) == <<b.url, b.key>>
AnyTarget == Targets \cup {"none"}
Box == [url : AnyTarget, key : AnyTarget, onair : AnyTarget \X AnyTarget]
Resting == [is |-> "idle", to |-> "none", reads |-> 0]

EncTypeOK ==
  /\ kind \in Kinds /\ fault \in Faults \cup {"none"} /\ box \in Box /\ mirror \in Box
  /\ memory \in AnyTarget /\ settling \in 0..SlowReads /\ fresh \in BOOLEAN
  /\ turn \in [Callers -> [is : {"idle", "url", "key", "start", "stop", "target?", "onair?", "off?",
                                 "target!", "onair!", "off!"},
                           to : AnyTarget, reads : 0..Reads]]
  /\ alone \subseteq Callers /\ called \in 0..MaxCalls /\ trouble \in 0..MaxTrouble

EncInit ==
  /\ kind \in Kinds /\ fault \in IF kind = "mock" THEN Faults ELSE {"none"}
  /\ box = [url |-> "none", key |-> "none", onair |-> Off] /\ mirror = box
  /\ memory = "none" /\ settling = 0 /\ fresh = TRUE
  /\ turn = [c \in Callers |-> Resting] /\ alone = {} /\ called = 0 /\ trouble = 0

-----------------------------------------------------------------------------
\* readState(), by kind of adapter.

ReportedTarget ==
  CASE kind = "atem" -> Pair(mirror) [] kind = "vmix" -> <<memory, memory>> [] OTHER -> Pair(box)

\* settled(): the first readings after a start say the opposite.
Settled(active) == IF settling = 0 THEN active ELSE ~active

\* Mutant: it is counted down past the last.
LeftOf(n) == n - 1

\* What a reading leaves of settleReads.
Left(n) == IF n = 0 THEN 0 ELSE n - 1

ReportedActive == CASE kind = "atem" -> mirror.onair # Off
                    [] kind = "mock" -> Settled(box.onair # Off)
                    [] OTHER -> box.onair # Off

-----------------------------------------------------------------------------
\* Calls

Busy(c) == turn[c].is \in {"url", "key", "start", "stop", "target?", "onair?", "off?"}
Go(c, to) == turn' = [turn EXCEPT ![c] = to]
GiveUp(c) == Go(c, Resting)
Trouble == trouble < MaxTrouble /\ trouble' = trouble + 1
Looking(c, what) == [turn[c] EXCEPT !.is = what, !.reads = Reads]

\* A call begins; what others have verified may not be so for long. A start finds nobody
\* else's stream under way.
Calls(c, what, to) ==
  /\ ~Busy(c) /\ called < MaxCalls /\ called' = called + 1
  /\ Go(c, [is |-> what, to |-> to, reads |-> 0])
  /\ alone' = IF \E o \in Callers \ {c} : Busy(o) THEN {}
              ELSE IF what = "url" THEN {c}
              ELSE IF what = "start" /\ box.onair # Off THEN {} ELSE alone \cap {c}
  /\ UNCHANGED <<kind, fault, box, mirror, memory, settling, fresh, trouble>>

ApplyStreamTarget(c) == \E t \in Targets : Calls(c, "url", t)
\* An ATEM's mirror, the Streaming Encoder and the simulator are asked for a target first.
StartStreaming(c) ==
  /\ turn[c].is = "target!" /\ (kind # "vmix" => ReportedTarget # Off)
  /\ Calls(c, "start", turn[c].to)
StopStreaming(c) == turn[c].is = "onair!" /\ Calls(c, "stop", turn[c].to)

\* What the command does at the encoder. A vMix is told the url and then the key.
After(c) ==
  CASE turn[c].is = "url" ->
         [box EXCEPT !.url = turn[c].to, !.key = IF kind = "vmix" THEN @ ELSE turn[c].to]
    [] turn[c].is = "key" -> [box EXCEPT !.key = turn[c].to]
    [] turn[c].is = "start" -> [box EXCEPT !.onair = IF @ = Off THEN Pair(box) ELSE @]
    [] turn[c].is = "stop" -> [box EXCEPT !.onair = Off]

AfterUrl(c) == IF kind = "vmix" THEN [turn[c] EXCEPT !.is = "key"] ELSE Looking(c, "target?")

Then(c) ==
  CASE turn[c].is = "url" -> AfterUrl(c)
    [] turn[c].is = "start" -> Looking(c, "onair?")
    [] turn[c].is = "stop" -> Looking(c, "off?")
    [] OTHER -> Looking(c, "target?")

Commanding(c) == turn[c].is \in {"url", "key", "start", "stop"}

\* A simulator may ignore what it is told, but for a stop, or refuse the first command.
Refuses == fault = "flaky" /\ fresh
Command(c) ==
  /\ Commanding(c) /\ ~Refuses /\ fresh' = FALSE /\ Go(c, Then(c))
  /\ box' = IF fault = "ignores-writes" /\ turn[c].is # "stop" THEN box ELSE After(c)
  /\ memory' = IF turn[c].is = "key" THEN turn[c].to ELSE memory
  /\ settling' = IF fault = "slow-to-settle" /\ turn[c].is = "start" THEN SlowReads ELSE settling
  /\ UNCHANGED <<kind, fault, mirror, alone, called, trouble>>

\* It is refused, or done and its answer lost; the call is over.
CommandFails(c) ==
  /\ Commanding(c) /\ GiveUp(c) /\ fresh' = FALSE
  /\ IF kind = "mock" THEN Refuses /\ UNCHANGED <<box, trouble>> ELSE Trouble /\ box' \in {box,
                                                  After(c)}
  /\ UNCHANGED <<kind, fault, mirror, memory, settling, alone, called>>

\* Mutant: a command that was answered is taken for done.
TakenForDone(c) == TRUE

Satisfied(c) ==
  CASE turn[c].is = "target?" -> ReportedTarget = <<turn[c].to, turn[c].to>>
    [] turn[c].is = "onair?" -> ReportedActive
    [] turn[c].is = "off?" -> ~ReportedActive
    [] OTHER -> FALSE

Verified(what) ==
  CASE what = "target?" -> "target!" [] what = "onair?" -> "onair!" [] OTHER -> "off!"

\* applyAndVerify reads until it sees what it wants, and gives up at the end.
Verify(c) ==
  /\ turn[c].is \in {"target?", "onair?", "off?"} /\ turn[c].reads > 0
  /\ Go(c, IF Satisfied(c) THEN [turn[c] EXCEPT !.is = Verified(@), !.reads = 0]
           ELSE IF turn[c].reads = 1 THEN Resting ELSE [turn[c] EXCEPT !.reads = @ - 1])
  /\ settling' = IF kind = "mock" THEN Left(settling) ELSE settling
  /\ UNCHANGED <<kind, fault, box, mirror, memory, fresh, alone, called, trouble>>

\* An ATEM pushes its state.
StateChanged ==
  /\ kind = "atem" /\ mirror # box /\ mirror' = box
  /\ UNCHANGED <<kind, fault, box, memory, settling, fresh, turn, alone, called, trouble>>

EncNext ==
  \/ StateChanged
  \/ \E c \in Callers :
       ApplyStreamTarget(c) \/ StartStreaming(c) \/ StopStreaming(c)
         \/ Command(c) \/ CommandFails(c) \/ Verify(c)

EncSpec == EncInit /\ [][EncNext]_encVars

-----------------------------------------------------------------------------
\* What applyAndVerify has verified is so, until somebody else calls: the encoder holds the
\* url and the key, and it is on the air with them. Whatever the adapter can see of its
\* machine, what calls before have left half done, and however long it takes to settle.
VerifiedIsReal ==
  \A c \in alone :
    /\ turn[c].is = "target!" => Pair(box) = <<turn[c].to, turn[c].to>>
    /\ turn[c].is = "onair!" => box.onair = <<turn[c].to, turn[c].to>>
=============================================================================
