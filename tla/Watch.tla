------------------------------- MODULE Watch --------------------------------
(***************************************************************************)
(* What the scheduler looks at without being asked: events ahead, while    *)
(* there is still time to fix them (notify/preflight.ts), and the encoders *)
(* of a run on air (runs/telemetry.ts). Alerts are kept apart by the key   *)
(* that they are queued under, which no one ever forgets.                  *)
(***************************************************************************)
EXTENDS Integers, FiniteSets

CONSTANTS
  Ahead,       \* occurrences, by the hour at which they start
  LeadHours,   \* leadMs
  Percents,    \* how full a cache may be, and the thresholds that may be set
  LastHour,    \* bound: the clock
  MaxUpsets    \* bound: faults, repairs, deletions, settings and restarts

WatchAssumption ==
  /\ Ahead \subseteq Nat /\ LeadHours \in Nat
  /\ Percents \subseteq Nat \ {0} /\ Percents # {}
  /\ LastHour \in Nat /\ MaxUpsets \in Nat

\* What a check reads: the event itself at once, its devices and its accounts when they answer.
Faults == {"event", "device", "account"}

VARIABLES
  hour,
  standing,    \* [Ahead -> the state of the occurrence]: pending, skipped, or no row any more
  faults,      \* [Ahead -> SUBSET Faults], what is really wrong with it
  checked,     \* lastPreflightAt
  check,       \* the tick's pre-flight: where it is, what is left, at which, what it found
  lasting,     \* [Ahead -> SUBSET Faults], what has been wrong since the pass began
  told,        \* [Ahead -> the sets of problems that were queued for it]
  onAir,       \* the runs that are active, by their number
  cache,       \* how full the encoder's cache is, 0 when it does not answer
  streaming,   \* whether the encoder streams
  threshold,   \* cacheWarningPercent
  warned,      \* runs that were warned of, in memory
  alarms,      \* [runs -> alarms queued], by the outbox
  samples,     \* the runs with a sample of this hour
  upsets

watchVars ==
  <<hour, standing, faults, checked, check, lasting, told, onAir, cache, streaming, threshold,
    warned, alarms, samples, upsets>>

Runs == 1..2
Resting == [pc |-> "idle", left |-> {}, at |-> 0, found |-> {}]

WatchTypeOK ==
  /\ hour \in 0..LastHour /\ checked \in -1..LastHour
  /\ standing \in [Ahead -> {"pending", "skipped", "gone"}]
  /\ {faults[o] : o \in Ahead} \cup {lasting[o] : o \in Ahead} \subseteq SUBSET Faults
  /\ check.pc \in {"idle", "next", "device", "account", "sample"} /\ check.left \subseteq Ahead
  /\ check.found \subseteq Faults
  /\ \A o \in Ahead : told[o] \subseteq (SUBSET Faults) \ {{}}
  /\ onAir \subseteq Runs /\ warned \subseteq Runs /\ samples \subseteq Runs
  /\ alarms \in [Runs -> Nat] /\ cache \in Percents \cup {0} /\ threshold \in Percents
  /\ streaming \in BOOLEAN /\ upsets \in 0..MaxUpsets

WatchInit ==
  /\ hour = 0 /\ checked = -1 /\ check = Resting
  /\ standing = [o \in Ahead |-> "pending"]
  /\ faults = [o \in Ahead |-> {}] /\ lasting = [o \in Ahead |-> {}]
  /\ told = [o \in Ahead |-> {}]
  /\ onAir = {} /\ cache = 0 /\ streaming = FALSE /\ warned = {} /\ samples = {}
  /\ threshold = CHOOSE p \in Percents : \A q \in Percents : p <= q
  /\ alarms = [r \in Runs |-> 0] /\ upsets = 0

-----------------------------------------------------------------------------
\* The world: faults come and go, operators skip and delete, services start and end.
Upset == upsets < MaxUpsets /\ upsets' = upsets + 1

Fault(o, f) ==
  /\ Upset /\ faults' = [faults EXCEPT ![o] = @ \cup {f}]
  /\ UNCHANGED <<hour, standing, checked, check, lasting, told, onAir, cache, streaming,
                 threshold, warned, alarms, samples>>

Repair(o, f) ==
  /\ Upset /\ f \in faults[o]
  /\ faults' = [faults EXCEPT ![o] = @ \ {f}] /\ lasting' = [lasting EXCEPT ![o] = @ \ {f}]
  /\ UNCHANGED <<hour, standing, checked, check, told, onAir, cache, streaming, threshold,
                 warned, alarms, samples>>

SkipOrDelete(o, how) ==
  /\ Upset /\ standing[o] = "pending" /\ how \in {"skipped", "gone"}
  /\ standing' = [standing EXCEPT ![o] = how]
  /\ UNCHANGED <<hour, faults, checked, check, lasting, told, onAir, cache, streaming,
                 threshold, warned, alarms, samples>>

Service(r, active) ==
  /\ Upset
  /\ onAir' = (IF r \in onAir THEN onAir \ {r} ELSE onAir \cup {r}) /\ streaming' = active
  /\ UNCHANGED <<hour, standing, faults, checked, check, lasting, told, cache, threshold,
                 warned, alarms, samples>>

CacheMoves(p) ==
  /\ Upset /\ p # cache /\ cache' = p
  /\ UNCHANGED <<hour, standing, faults, checked, check, lasting, told, onAir, streaming,
                 threshold, warned, alarms, samples>>

\* A threshold outside of its limits is refused.
SetThreshold(p) ==
  /\ Upset /\ p \in Percents /\ threshold' = p
  /\ UNCHANGED <<hour, standing, faults, checked, check, lasting, told, onAir, cache,
                 streaming, warned, alarms, samples>>

\* What was warned of is forgotten, and so is when the last pass was.
Restart ==
  /\ Upset /\ check' = Resting /\ warned' = {} /\ checked' = -1 /\ samples' = {}
  /\ UNCHANGED <<hour, standing, faults, lasting, told, onAir, cache, streaming, threshold,
                 alarms>>

NextHour ==
  /\ check.pc = "idle" /\ hour < LastHour /\ hour' = hour + 1 /\ samples' = {}
  /\ UNCHANGED <<standing, faults, checked, check, lasting, told, onAir, cache, streaming,
                 threshold, warned, alarms, upsets>>

-----------------------------------------------------------------------------
\* tick() comes to the pre-flight: once an hour it lists what is pending within the lead.
Upcoming == {o \in Ahead : standing[o] = "pending" /\ o > hour /\ o <= hour + LeadHours}

Tick ==
  /\ check.pc = "idle"
  /\ IF checked < hour
       THEN /\ checked' = hour /\ lasting' = faults
            /\ check' = [Resting EXCEPT !.pc = "next", !.left = Upcoming]
       ELSE check' = [Resting EXCEPT !.pc = "sample"] /\ UNCHANGED <<checked, lasting>>
  /\ UNCHANGED <<hour, standing, faults, told, onAir, cache, streaming, threshold, warned,
                 alarms, samples, upsets>>

\* The next of the list, by its start. One that was deleted meanwhile ends the tick, with the
\* rest of the list and all that a tick does afterwards.
Soonest(s) == CHOOSE o \in s : \A p \in s : o <= p

Look ==
  /\ check.pc = "next"
  /\ IF check.left = {} THEN check' = [Resting EXCEPT !.pc = "sample"]
     ELSE LET o == Soonest(check.left) IN
          IF standing[o] = "gone" THEN check' = Resting
          ELSE check' = [pc |-> "device", left |-> check.left, at |-> o,
                         found |-> faults[o] \cap {"event"}]
  /\ UNCHANGED <<hour, standing, faults, checked, lasting, told, onAir, cache, streaming,
                 threshold, warned, alarms, samples, upsets>>

DeviceAnswers ==
  /\ check.pc = "device"
  /\ check' = [check EXCEPT !.pc = "account", !.found = @ \cup (faults[check.at] \cap {"device"})]
  /\ UNCHANGED <<hour, standing, faults, checked, lasting, told, onAir, cache, streaming,
                 threshold, warned, alarms, samples, upsets>>

\* The key of an alert: the occurrence and what is wrong with it. UNIQUE in the outbox.
QueuedOnce(o, found) == IF told[o] = {} THEN told[o] \cup {found} ELSE told[o]
Queued(o, found) == told[o] \cup {found}

\* The account is the last to answer; then the whole run is planned without being made, which
\* a broken event does not survive, nor one that is no longer there.
AccountAnswers ==
  /\ check.pc = "account"
  /\ LET o == check.at
         broken == "event" \in faults[o] \/ standing[o] = "gone"
         found == check.found \cup (faults[o] \cap {"account"})
                    \cup (IF broken THEN {"event"} ELSE {})
     IN  /\ told' = IF found = {} THEN told ELSE [told EXCEPT ![o] = Queued(o, found)]
         /\ check' = [Resting EXCEPT !.pc = "next", !.left = check.left \ {o}]
  /\ UNCHANGED <<hour, standing, faults, checked, lasting, onAir, cache, streaming, threshold,
                 warned, alarms, samples, upsets>>

-----------------------------------------------------------------------------
\* The telemetry of the runs on air, and the alarm of a cache that fills up: once for a run,
\* and only while it streams. The outbox knows the key of the alarm from before a restart.
AlarmingOffAir(r) == cache >= threshold /\ r \notin warned
Alarming(r) == cache >= threshold /\ streaming /\ r \notin warned

\* Once for a device and a run, whoever asks: the key of the alarm.
CacheHighQueued(r) == IF r \in onAir /\ Alarming(r) THEN 1 ELSE alarms[r]

Sample ==
  /\ check.pc = "sample" /\ check' = Resting
  /\ IF cache = 0 THEN UNCHANGED <<samples, warned, alarms>>
     ELSE /\ samples' = samples \cup onAir
          /\ warned' = warned \cup {r \in onAir : Alarming(r)}
          /\ alarms' = [r \in Runs |-> CacheHighQueued(r)]
  /\ UNCHANGED <<hour, standing, faults, checked, lasting, told, onAir, cache, streaming,
                 threshold, upsets>>

WatchNext ==
  \/ \E o \in Ahead, f \in Faults : Fault(o, f) \/ Repair(o, f)
  \/ \E o \in Ahead, how \in {"skipped", "gone"} : SkipOrDelete(o, how)
  \/ \E r \in Runs, active \in BOOLEAN : Service(r, active)
  \/ \E p \in Percents \cup {0} : CacheMoves(p) \/ SetThreshold(p)
  \/ Restart \/ NextHour \/ Tick \/ Look \/ DeviceAnswers \/ AccountAnswers \/ Sample

-----------------------------------------------------------------------------
\* When a pass is over and was not broken off, whatever has been wrong with an event ahead
\* since the pass began was told to somebody: in this pass, or in an earlier one whose words
\* are not repeated.
StandingFaultsAreTold ==
  [][check.pc = "next" /\ check'.pc = "sample" =>
       \A o \in Upcoming : lasting[o] \subseteq UNION told[o]]_watchVars

\* Nobody is alarmed about a cache while the encoder is off the air.
AlarmedOnAir == [][\A r \in Runs : alarms'[r] > alarms[r] => streaming /\ r \in onAir]_watchVars
=============================================================================
