---------------------------- MODULE Connections ----------------------------
(***************************************************************************)
(* The connection manager (devices/connection-manager.ts) and the requests *)
(* that work on it (api/server.ts): one map from device to open instance,  *)
(* filled and emptied by call chains that wait for devices in between. A   *)
(* chain is a pass of tick(), or a request that opens, commands, changes   *)
(* or deletes a device.                                                    *)
(***************************************************************************)
EXTENDS Integers, FiniteSets

CONSTANTS
  Equipment,      \* the devices
  SaysSo,         \* those whose adapter answers health() of a lost device, and does not reject
  Rounds,         \* passes of tick() that may be in flight at once (bound)
  Requests,       \* requests that may be in flight at once (bound)
  Jobs,           \* what requests ask
  MaxInstances,   \* bound: instances at one time
  MaxConfigs,     \* bound: versions of a device's settings
  MaxWait,        \* MAX_BACKOFF_MS over BASE_BACKOFF_MS
  Polls,          \* how often applyAndVerify reads a device back
  MaxTrouble      \* bound: calls that fail and devices that are lost

AllJobs == {"open", "invoke", "apply", "change", "delete"}

ASSUME ConnectionsAssumption ==
  /\ SaysSo \subseteq Equipment
  /\ Rounds \cap Requests = {}
  /\ Jobs \subseteq AllJobs
  /\ MaxInstances \in Nat /\ MaxConfigs \in Nat \ {0}
  /\ MaxWait \in Nat \ {0} /\ Polls \in Nat /\ MaxTrouble \in Nat

Chains == Rounds \cup Requests
Instances == 1..MaxInstances
NoDevice == "none"

VARIABLES
  config,     \* [Equipment -> 0..MaxConfigs], device.config by version, 0 without a row
  enabled,    \* the devices that are switched on, device.enabled
  health,     \* [Equipment -> ...], device.health
  held,       \* [Equipment -> 0..MaxInstances], the connections map, 0 without an entry
  failures,   \* [Equipment -> Nat], backoff.attempts, 0 without an entry
  wait,       \* [Equipment -> Nat], backoff.nextAttemptAt - now, no less than 0
  instance,   \* [Instances -> what became of each instance that an adapter created]
  chain,      \* [Chains -> what a call chain remembers]
  troubles    \* calls that failed and devices that were lost so far

deviceRows == <<config, enabled, health>>
backoff == <<failures, wait>>
connVars == <<deviceRows, held, backoff, instance, chain, troubles>>

\* What a chain awaits: "creating" createDevice; "probing" the new instance; "refusing"
\* the dispose of one that would not be probed; "priming" its first readState; "calling" a
\* command; "asking" health after one that failed; "checking" health in a tick; "closing"
\* the dispose in close(). At "turn" a tick is between two devices of its loops.
\* on: the instance it works with. read: the settings it opens with. known, ripe, todo: a
\* tick's list of connections, devices not backing off, devices to open.
\* raced: the settings changed, or another open of the device was under way, meanwhile.
Chain == [pc : {"idle", "creating", "probing", "refusing", "priming", "calling", "asking",
                "checking", "closing", "turn"},
          job : AllJobs \cup {"none", "tick"}, device : Equipment \cup {NoDevice},
          on : 0..MaxInstances, read : 0..MaxConfigs, polls : 0..Polls,
          known : SUBSET Instances, ripe : SUBSET Equipment, todo : SUBSET Equipment,
          raced : BOOLEAN]

Resting == [pc |-> "idle", job |-> "none", device |-> NoDevice, on |-> 0, read |-> 0,
            polls |-> 0, known |-> {}, ripe |-> {}, todo |-> {}, raced |-> FALSE]
Unmade == [device |-> NoDevice, config |-> 0, life |-> "none", sound |-> FALSE, raced |-> FALSE]

ConnTypeOK ==
  /\ config \in [Equipment -> 0..MaxConfigs] /\ enabled \subseteq Equipment
  /\ health \in [Equipment -> {"unknown", "connected", "disconnected"}]
  /\ held \in [Equipment -> 0..MaxInstances]
  /\ failures \in [Equipment -> Nat] /\ wait \in [Equipment -> Nat]
  /\ instance \in [Instances -> [device : Equipment \cup {NoDevice}, config : 0..MaxConfigs,
                     life : {"none", "live", "disposed"}, sound : BOOLEAN, raced : BOOLEAN]]
  /\ chain \in [Chains -> Chain]
  /\ troubles \in 0..MaxTrouble

ConnInit ==
  /\ config = [d \in Equipment |-> 1] /\ enabled = Equipment
  /\ health = [d \in Equipment |-> "unknown"]
  /\ held = [d \in Equipment |-> 0]
  /\ failures = [d \in Equipment |-> 0] /\ wait = [d \in Equipment |-> 0]
  /\ instance = [i \in Instances |-> Unmade]
  /\ chain = [c \in Chains |-> Resting]
  /\ troubles = 0

Usable(i) == instance[i].life = "live" /\ instance[i].sound
Device(c) == chain[c].device
Goto(c, pc) == chain' = [chain EXCEPT ![c].pc = pc]
Trouble == troubles < MaxTrouble /\ troubles' = troubles + 1

\* A request answers, or throws; a tick catches whatever open() throws and goes on.
After(c) == IF chain[c].job = "tick" THEN [chain[c] EXCEPT !.pc = "turn", !.on = 0, !.device = NoDevice]
            ELSE Resting
Finish(c) == chain' = [chain EXCEPT ![c] = After(c)]

-----------------------------------------------------------------------------
\* open()

\* The chains that are between reading a device's row and entering it in the map.
Opening(d) == {c \in Chains : Device(c) = d /\ chain[c].pc \in {"creating", "probing"}}
Deleting(d) == \E c \in Chains : Device(c) = d /\ chain[c].job = "delete"

\* Others that open the device at the same time are marked, and so is this one.
Raced(c, d, rest) ==
  LET clash == Opening(d) \ {c} # {} \/ Deleting(d) IN
  [e \in Chains |->
     IF e = c THEN [rest EXCEPT !.device = d, !.pc = "creating", !.read = config[d], !.raced = clash]
     ELSE IF e \in Opening(d) THEN [chain[e] EXCEPT !.raced = TRUE]
     ELSE chain[e]]

\* The map has no entry and the device a row: the adapter is asked for an instance.
StartOpening(c, d, rest) ==
  /\ held[d] = 0 /\ config[d] # 0
  /\ chain' = Raced(c, d, rest)

\* The connection is open already: what the caller wants it for comes next.
UseHeld(c, d, rest) ==
  /\ held[d] # 0
  /\ chain' = [chain EXCEPT ![c] =
       IF rest.job = "open" THEN Resting
       ELSE [rest EXCEPT !.device = d, !.on = held[d], !.pc = "calling"]]

\* Mutant: in the map before it has been probed.
CreatedAndHeld(c) ==
  /\ chain[c].pc = "creating"
  /\ \E i \in Instances :
       /\ instance[i].life = "none"
       /\ instance' = [instance EXCEPT ![i] =
            [device |-> Device(c), config |-> chain[c].read, life |-> "live", sound |-> TRUE,
             raced |-> chain[c].raced]]
       /\ chain' = [chain EXCEPT ![c].pc = "probing", ![c].on = i]
       /\ held' = [held EXCEPT ![Device(c)] = i]
  /\ UNCHANGED <<deviceRows, backoff, troubles>>

\* Numbers of instances that nobody can refer to any more are used again, those of
\* leaked ones too, which in the program stay open.
Unused(i) ==
  /\ \A d \in Equipment : held[d] # i
  /\ \A c \in Chains : chain[c].on # i /\ i \notin chain[c].known

Created(c) ==
  /\ chain[c].pc = "creating"
  /\ \E i \in Instances :
       /\ Unused(i) /\ \A j \in Instances : Unused(j) => i <= j
       /\ instance' = [instance EXCEPT ![i] =
            [device |-> Device(c), config |-> chain[c].read, life |-> "live", sound |-> TRUE,
             raced |-> chain[c].raced]]
       /\ chain' = [chain EXCEPT ![c].pc = "probing", ![c].on = i]
  /\ UNCHANGED <<deviceRows, held, backoff, troubles>>

Doubling(n) == IF 2^(n - 1) \in 1..MaxWait THEN 2^(n - 1) ELSE MaxWait
\* The count has no bound in the code; past the longest delay it makes no difference.
OneMore(n) == IF n > 0 /\ Doubling(n + 1) = Doubling(n) THEN n ELSE n + 1

\* Whoever is in the middle of a tick finds the next attempt later than its own start.
Unripe(d) == [c \in Chains |-> [chain[c] EXCEPT !.ripe = @ \ {d}]]

\* noteFailure(), with half of the delay left to chance.
NoteFailure(d) ==
  LET n == OneMore(failures[d]) IN
  /\ failures' = [failures EXCEPT ![d] = n]
  /\ \E w \in ((Doubling(n) + 1) \div 2)..Doubling(n) : wait' = [wait EXCEPT ![d] = w]
  /\ health' = IF config[d] # 0 THEN [health EXCEPT ![d] = "disconnected"] ELSE health

FailAndFinish(c) ==
  /\ NoteFailure(Device(c))
  /\ chain' = [Unripe(Device(c)) EXCEPT ![c] = [After(c) EXCEPT !.ripe = @ \ {Device(c)}]]

CreateFails(c) ==
  /\ chain[c].pc = "creating" /\ Trouble
  /\ FailAndFinish(c)
  /\ UNCHANGED <<config, enabled, held, instance>>

\* What a lost device's adapter makes of health().
Answers(i) == Usable(i) \/ instance[i].device \in SaysSo
Reported(i) == IF Usable(i) THEN "connected" ELSE "disconnected"

\* Probed, listed and asked for its health, whatever that is: the connection enters the
\* map, whatever is there by now.
Probed(c) ==
  /\ chain[c].pc = "probing" /\ Answers(chain[c].on)
  /\ LET d == Device(c) IN
       /\ held' = [held EXCEPT ![d] = chain[c].on]
       /\ instance' = [instance EXCEPT ![chain[c].on].raced = chain[c].raced]
       /\ failures' = [failures EXCEPT ![d] = 0] /\ wait' = [wait EXCEPT ![d] = 0]
       /\ health' = IF config[d] # 0 THEN [health EXCEPT ![d] = Reported(chain[c].on)] ELSE health
  /\ Goto(c, "priming")
  /\ UNCHANGED <<config, enabled, troubles>>

ProbeFails(c) ==
  /\ chain[c].pc = "probing"
  /\ IF Usable(chain[c].on) THEN Trouble ELSE UNCHANGED troubles
  /\ Goto(c, "refusing")
  /\ UNCHANGED <<deviceRows, held, backoff, instance>>

\* Mutant: an instance that is not wanted is forgotten, and not disposed of.
Forgotten(i) == UNCHANGED instance

Disposed(i) == instance' = [instance EXCEPT ![i] = [Unmade EXCEPT !.device = instance[i].device, !.life = "disposed"]]

Refused(c) ==
  /\ chain[c].pc = "refusing"
  /\ Disposed(chain[c].on)
  /\ FailAndFinish(c)
  /\ UNCHANGED <<config, enabled, held, troubles>>

\* The first readState answered, failed or ran into its deadline, which are all the same.
Primed(c) ==
  /\ chain[c].pc = "priming"
  /\ IF chain[c].job \in {"invoke", "apply"} THEN Goto(c, "calling") ELSE Finish(c)
  /\ UNCHANGED <<deviceRows, held, backoff, instance, troubles>>

-----------------------------------------------------------------------------
\* close()

\* Whatever instance of the device is in the map goes, and then the caller goes on.
CloseHeld(c, d, rest) ==
  /\ held[d] # 0
  /\ held' = [held EXCEPT ![d] = 0]
  /\ chain' = [chain EXCEPT ![c] = [rest EXCEPT !.pc = "closing", !.on = held[d], !.device = d]]

\* DELETE FROM device
RowGone(d) ==
  /\ config' = [config EXCEPT ![d] = 0] /\ enabled' = enabled \ {d}
  /\ health' = [health EXCEPT ![d] = "unknown"]

ClosedAfterFailure(c) ==
  /\ chain[c].pc = "closing" /\ chain[c].job \in {"invoke", "apply", "tick"}
  /\ Disposed(chain[c].on)
  /\ FailAndFinish(c)
  /\ UNCHANGED <<config, enabled, held, troubles>>

ClosedForChange(c) ==
  /\ chain[c].pc = "closing" /\ chain[c].job = "change"
  /\ Disposed(chain[c].on)
  /\ Finish(c)
  /\ UNCHANGED <<deviceRows, held, backoff, troubles>>

ClosedForDeletion(c) ==
  /\ chain[c].pc = "closing" /\ chain[c].job = "delete"
  /\ Disposed(chain[c].on)
  /\ RowGone(Device(c))
  /\ Finish(c)
  /\ UNCHANGED <<held, backoff, troubles>>

-----------------------------------------------------------------------------
\* invoke() and applyAndVerify()

\* The device did as it was asked. What it must be read back for is asked again, through
\* another invoke(), until it agrees or there have been enough readings.
Obeyed(c) ==
  /\ chain[c].pc = "calling" /\ Usable(chain[c].on)
  /\ LET again == [chain[c] EXCEPT !.polls = @ - 1, !.on = 0] IN
     IF chain[c].job = "apply" /\ chain[c].polls > 0
     THEN \/ UseHeld(c, Device(c), again) \/ StartOpening(c, Device(c), again)
          \/ (held[Device(c)] = 0 /\ config[Device(c)] = 0 /\ Finish(c))
          \/ (chain[c].polls < Polls /\ Finish(c))
     ELSE Finish(c)
  /\ UNCHANGED <<deviceRows, held, backoff, instance, troubles>>

\* The device refused, or is lost, or has been disposed of: is it still healthy?
Failed(c) ==
  /\ chain[c].pc = "calling"
  /\ IF Usable(chain[c].on) THEN Trouble ELSE UNCHANGED troubles
  /\ Goto(c, "asking")
  /\ UNCHANGED <<deviceRows, held, backoff, instance>>

\* A command that a healthy device refused costs it nothing.
StillHealthy(c) ==
  /\ chain[c].pc = "asking" /\ Usable(chain[c].on)
  /\ Finish(c)
  /\ UNCHANGED <<deviceRows, held, backoff, instance, troubles>>

\* Mutant: the failure is noted, and the connection stays.
NoteOnly(c) == FailAndFinish(c) /\ UNCHANGED <<config, enabled, held>>

\* close(deviceId), which closes the device's connection, not the one that failed.
CloseFailed(c) ==
  IF held[Device(c)] # 0
  THEN CloseHeld(c, Device(c), chain[c]) /\ UNCHANGED <<deviceRows, backoff>>
  ELSE FailAndFinish(c) /\ UNCHANGED <<config, enabled, held>>

Unhealthy(c) ==
  /\ chain[c].pc = "asking" /\ ~Usable(chain[c].on)
  /\ CloseFailed(c)
  /\ UNCHANGED <<instance, troubles>>

-----------------------------------------------------------------------------
\* tick()

Connected == {held[d] : d \in Equipment} \ {0}

\* The guard of the scheduler's tick admits a pass beside one it has given up on.
BeginTick(c) ==
  /\ chain[c].pc = "idle"
  /\ Connected # {} \/ \E d \in enabled : held[d] = 0 /\ wait[d] = 0
  /\ chain' = [chain EXCEPT ![c] = [Resting EXCEPT !.pc = "turn", !.job = "tick",
                 !.known = Connected, !.ripe = {d \in Equipment : wait[d] = 0}, !.todo = Equipment]]
  /\ UNCHANGED <<deviceRows, held, backoff, instance, troubles>>

Check(c) ==
  /\ chain[c].pc = "turn"
  /\ \E i \in chain[c].known :
       chain' = [chain EXCEPT ![c].pc = "checking", ![c].on = i, ![c].device = instance[i].device,
                   ![c].known = @ \ {i}]
  /\ UNCHANGED <<deviceRows, held, backoff, instance, troubles>>

\* Whatever it answers is recorded, and the connection is kept.
Checked(c) ==
  /\ chain[c].pc = "checking" /\ Answers(chain[c].on)
  /\ health' = [health EXCEPT ![Device(c)] =
       IF config[Device(c)] = 0 THEN @ ELSE Reported(chain[c].on)]
  /\ Finish(c)
  /\ UNCHANGED <<config, enabled, held, backoff, instance, troubles>>

CheckFails(c) ==
  /\ chain[c].pc = "checking"
  /\ IF Usable(chain[c].on) THEN Trouble ELSE (~Answers(chain[c].on) /\ UNCHANGED troubles)
  /\ CloseFailed(c)
  /\ UNCHANGED instance

\* Mutant: nextAttemptAt is not looked at.
DueAlways(c, d) == d \in enabled /\ held[d] = 0

\* Switched on, not connected, and its backoff was over when this tick began.
DueToOpen(c, d) == d \in enabled /\ held[d] = 0 /\ (failures[d] = 0 \/ d \in chain[c].ripe)

Reconnect(c) ==
  /\ chain[c].pc = "turn" /\ chain[c].known = {}
  /\ \E d \in chain[c].todo :
       DueToOpen(c, d) /\ StartOpening(c, d, [chain[c] EXCEPT !.todo = @ \ {d}])
  /\ UNCHANGED <<deviceRows, held, backoff, instance, troubles>>

EndTick(c) ==
  /\ chain[c].pc = "turn" /\ chain[c].known = {}
  /\ \A d \in chain[c].todo : ~DueToOpen(c, d)
  /\ chain' = [chain EXCEPT ![c] = Resting]
  /\ UNCHANGED <<deviceRows, held, backoff, instance, troubles>>

-----------------------------------------------------------------------------
\* Requests

\* POST connect, or a preflight check.
AskOpen(c, d) ==
  /\ chain[c].pc = "idle"
  /\ StartOpening(c, d, [Resting EXCEPT !.job = "open"])
  /\ UNCHANGED <<deviceRows, held, backoff, instance, troubles>>

\* The engine, the telemetry and the sweep command a device, connected or not.
AskDevice(c, d, job) ==
  /\ chain[c].pc = "idle"
  /\ LET rest == [Resting EXCEPT !.job = job, !.polls = IF job = "apply" THEN Polls ELSE 0] IN
       StartOpening(c, d, rest) \/ UseHeld(c, d, rest)
  /\ UNCHANGED <<deviceRows, held, backoff, instance, troubles>>

\* An operator commands only what is connected.
ByHand(c, d, job) ==
  /\ held[d] # 0
  /\ AskDevice(c, d, job)

\* Mutant: the connection is left as it is.
KeepOpen(c, d, job) == UNCHANGED <<held, chain>>

\* The row is written first, and the connection made with the old settings closed.
CloseStale(c, d, job) ==
  LET marked == [e \in Chains |-> IF e \in Opening(d) THEN [chain[e] EXCEPT !.raced = TRUE] ELSE chain[e]]
      rest == [Resting EXCEPT !.job = job, !.device = d, !.pc = "closing", !.on = held[d]]
  IN /\ held' = [held EXCEPT ![d] = 0]
     /\ chain' = IF held[d] # 0 THEN [marked EXCEPT ![c] = rest] ELSE marked

\* PATCH: the settings, and whether the device is switched on.
Change(c, d) ==
  /\ chain[c].pc = "idle"
  /\ config[d] \in 1..(MaxConfigs - 1)
  /\ config' = [config EXCEPT ![d] = @ + 1]
  /\ \E on \in BOOLEAN : enabled' = IF on THEN enabled \cup {d} ELSE enabled \ {d}
  /\ CloseStale(c, d, "change")
  /\ UNCHANGED <<health, backoff, instance, troubles>>

\* DELETE of a device that no output names: close() first, and the row after it.
Delete(c, d) ==
  /\ chain[c].pc = "idle" /\ config[d] # 0
  /\ CloseStale(c, d, "delete")
  /\ IF held[d] = 0 THEN RowGone(d) ELSE UNCHANGED deviceRows
  /\ UNCHANGED <<backoff, instance, troubles>>

-----------------------------------------------------------------------------
\* The world

\* A device goes off, or its socket breaks. An adapter that knows says so at once.
Lost(i) ==
  /\ instance[i].life = "live" /\ instance[i].sound
  /\ Trouble
  /\ instance' = [instance EXCEPT ![i].sound = FALSE]
  /\ LET d == instance[i].device IN
       health' = IF d \in SaysSo /\ config[d] # 0 THEN [health EXCEPT ![d] = "disconnected"] ELSE health
  /\ UNCHANGED <<config, enabled, held, backoff, chain>>

Elapsing ==
  /\ \E d \in Equipment : wait[d] > 0
  /\ wait' = [d \in Equipment |-> IF wait[d] > 0 THEN wait[d] - 1 ELSE 0]
  /\ UNCHANGED <<deviceRows, held, failures, instance, chain, troubles>>

OpenStep(c) == Created(c) \/ CreateFails(c) \/ Probed(c) \/ ProbeFails(c) \/ Refused(c) \/ Primed(c)
CloseStep(c) == ClosedAfterFailure(c) \/ ClosedForChange(c) \/ ClosedForDeletion(c)
CallStep(c) == Obeyed(c) \/ Failed(c) \/ StillHealthy(c) \/ Unhealthy(c)
TickStep(c) == Check(c) \/ Checked(c) \/ CheckFails(c) \/ Reconnect(c) \/ EndTick(c)
Advance(c) == OpenStep(c) \/ CloseStep(c) \/ CallStep(c) \/ TickStep(c)

Request(c) ==
  \E d \in Equipment :
    \/ ("open" \in Jobs /\ AskOpen(c, d))
    \/ \E job \in Jobs \cap {"invoke", "apply"} : AskDevice(c, d, job) \/ ByHand(c, d, job)
    \/ ("change" \in Jobs /\ Change(c, d))
    \/ ("delete" \in Jobs /\ Delete(c, d))

ConnNext ==
  \/ \E c \in Chains : Advance(c)
  \/ \E c \in Rounds : BeginTick(c)
  \/ \E c \in Requests : Request(c)
  \/ \E i \in Instances : Lost(i)
  \/ Elapsing

\* Adapters bound their calls, so a chain goes on; the timer brings ticks; time passes.
ConnFairness ==
  /\ \A c \in Chains : WF_connVars(Advance(c))
  /\ WF_connVars(\E c \in Rounds : BeginTick(c))
  /\ WF_connVars(Elapsing)

ConnSpec == ConnInit /\ [][ConnNext]_connVars /\ ConnFairness

-----------------------------------------------------------------------------
\* Properties

\* Nobody is handed a connection whose device has been disposed of: an instance enters
\* the map once it is fit to be used, and leaves it before it is disposed of.
HeldIsLive == \A d \in Equipment : held[d] # 0 => instance[held[d]].life = "live"

\* Sockets do not leak: an instance is in the map, or in the hands of the chain that
\* opens or closes it, until it is disposed of. The exception is an instance opened
\* while another chain opened the device too, which is then lost from the map.
InHand(i) ==
  \/ held[instance[i].device] = i
  \/ \E c \in Chains : chain[c].on = i /\ chain[c].pc \in {"probing", "refusing", "closing"}
NoLeak == \A i \in Instances : instance[i].life = "live" /\ ~instance[i].raced => InHand(i)

\* A change of a device's settings, or its deletion, takes effect on its connection,
\* unless a chain was opening the device at that very time.
SettingsHold ==
  \A d \in Equipment :
    held[d] # 0 /\ ~instance[held[d]].raced =>
      \/ instance[held[d]].config = config[d]
      \/ Deleting(d)

\* A pass of tick() opens no device whose backoff has not run out, whoever has failed
\* to reach it since the pass began.
BackoffRespected ==
  [][\A c \in Chains, d \in Equipment :
       chain[c].pc = "turn" /\ chain'[c].pc = "creating" /\ Device(c)' = d /\ failures[d] > 0
         => wait[d] = 0]_connVars

\* A device that stays switched on is connected again, however its connection was lost:
\* no failure, backoff or deletion of an entry keeps tick() from it for good. That it
\* stays connected is not promised: a late failure may close the new connection too.
EventuallyConnected ==
  \A d \in Equipment :
    [](d \in enabled) => []<>(held[d] # 0 /\ instance[held[d]].sound)
=============================================================================
