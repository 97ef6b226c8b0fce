------------------------------ MODULE Calendar ------------------------------
(***************************************************************************)
(* The occurrences of one event series: written from its rule              *)
(* (schedule/materialize.ts) or from a plan source (plans/sync.ts),        *)
(* changed one by one (api/server.ts, events/occurrence-overrides.ts), and *)
(* turned into runs by the scheduler (app.ts, runs/engine.ts). A series    *)
(* has one occurrence at most for each start, UNIQUE (series_id,           *)
(* scheduled_start), so the starts are the keys.                           *)
(***************************************************************************)
EXTENDS Integers, FiniteSets, SequencesExt

CONSTANTS
  MaxDay,      \* bound: the clock
  Horizon,     \* horizonMs
  Lead,        \* prepare_lead_ms
  Length,      \* duration_ms
  Rules,       \* the recurrence rules an operator may give, each the starts it expands to
  Services,    \* the ids a plan source gives to its services
  Plans,       \* what the source may publish: [Services -> a start, 0 when it is not planned]
  Askers,      \* requests that may be reading the plan at once (bound)
  MaxChanges   \* bound: what operators and the source change

Days == 1..MaxDay

CalendarAssumption ==
  /\ MaxDay \in Nat \ {0} /\ Horizon \in Nat /\ Lead \in Nat /\ Length \in Nat \ {0}
  /\ MaxChanges \in Nat
  /\ Rules \subseteq SUBSET Days
  /\ Plans \subseteq [Services -> 0..MaxDay]
  /\ "loop" \notin Askers /\ "none" \notin Services /\ IsFiniteSet(Services)

VARIABLES
  day,       \* the clock
  series,    \* [rule, on: enabled, paired: plan_source_id and plan_group_id are set]
  slot,      \* [Days -> the occurrence that starts then]
  plan,      \* what the source publishes at present
  reading,   \* [Readers -> the plan that was fetched and is not reconciled yet]
  loop,      \* how far App.tick is
  due,       \* an hour has passed since lastMaterializedAt
  lost,      \* the last pass of the loop threw before it came to the engine
  changes    \* changes so far

calVars == <<day, series, slot, plan, reading, loop, due, lost, changes>>

Readers == Askers \cup {"loop"}

\* edited: overrides is not null. from: movedFrom, 0 without. ref: external_ref.
Free == [status |-> "none", edited |-> FALSE, from |-> 0, ref |-> "none"]
Occurrence == [status : {"none", "pending", "skipped", "running", "over"}, edited : BOOLEAN,
               from : 0..MaxDay, ref : Services \cup {"none"}]
NoPlan == [s \in Services |-> 0]

CalTypeOK ==
  /\ day \in Days
  /\ series \in [rule : Rules, on : BOOLEAN, paired : BOOLEAN]
  /\ slot \in [Days -> Occurrence] /\ plan \in Plans
  /\ reading \in [Readers -> Plans \cup {NoPlan}]
  /\ loop \in {"idle", "reading", "engine"}
  /\ due \in BOOLEAN /\ lost \in BOOLEAN /\ changes \in 0..MaxChanges

CalInit ==
  /\ day = 1
  /\ series \in [rule : Rules, on : {TRUE}, paired : BOOLEAN]
  /\ slot = [t \in Days |-> Free] /\ plan \in Plans
  /\ reading = [r \in Readers |-> NoPlan]
  /\ loop = "idle" /\ due = TRUE /\ lost = FALSE /\ changes = 0

Taken(c, t) == c[t].status # "none"
Pending(c, t) == c[t].status = "pending"
\* Nobody edited it, and no run was made for it.
Regular(c, t) == Pending(c, t) /\ ~c[t].edited
Fresh(s) == [status |-> "pending", edited |-> FALSE, from |-> 0, ref |-> s]
Put(c, from, to) == [c EXCEPT ![from] = Free, ![to] = c[from]]

-----------------------------------------------------------------------------
\* materializeSeries()

\* expandOccurrences(): what overlaps the time from now to the horizon.
Wanted(s) == IF s.on THEN {t \in s.rule : t + Length >= day /\ t <= day + Horizon} ELSE {}

\* Mutant: an occurrence that somebody edited goes with the rest.
RemovedAll(c, gone) == [t \in Days |-> IF t \in gone /\ Pending(c, t) THEN Free ELSE c[t]]

Removed(c, gone) == [t \in Days |-> IF t \in gone /\ Regular(c, t) THEN Free ELSE c[t]]

\* The occurrences looked at begin now or later, and those wanted end now or later: one
\* that is going on is inserted a second time, and the transaction fails.
Collides(c, s) == ~s.paired /\ \E t \in Wanted(s) : t < day /\ Taken(c, t)

\* Mutant: a paired series keeps what its rule has put on the calendar.
NotCleared(c) == c

\* clearRuleOccurrences(), of a series that follows a plan.
Cleared(c) == Removed(c, {t \in Days : t >= day /\ c[t].ref = "none"})

Materialized(c, s) ==
  LET wanted == Wanted(s)
      filled == [t \in Days |-> IF t \in wanted /\ ~Taken(c, t) THEN Fresh("none") ELSE c[t]]
  IN IF s.paired THEN Cleared(c)
     ELSE IF Collides(c, s) THEN c
     ELSE Removed(filled, {t \in Days : t >= day} \ wanted)

-----------------------------------------------------------------------------
\* reconcile()

Frozen(t) == day >= t - Lead
RowOf(c, s) == {t \in Days : c[t].ref = s}

\* One service: inserted, moved, or left alone where its time is taken.
Followed(c, s, to) ==
  IF Taken(c, to) THEN c
  ELSE IF RowOf(c, s) = {} THEN [c EXCEPT ![to] = Fresh(s)]
  ELSE LET t == CHOOSE u \in RowOf(c, s) : TRUE IN
       IF c[t].edited \/ Frozen(t) THEN c ELSE Put(c, t, to)

\* Mutant: a service that has begun to prepare is withdrawn with the others.
WithdrawnAll(c, p) ==
  Removed(c, {t \in Days : c[t].ref # "none" /\ ~(p[c[t].ref] > day)})

\* What the plan no longer has.
Withdrawn(c, p) ==
  Removed(c, {t \in Days : c[t].ref # "none" /\ ~(p[c[t].ref] > day) /\ ~Frozen(t)})

\* The services to come, as the source sorts them: those of one time in any order.
Orders(p) ==
  LET wanted == {s \in Services : p[s] > day}
  IN {q \in SetToSeqs(wanted) : \A i, j \in DOMAIN q : i < j => p[q[i]] <= p[q[j]]}

\* One service after the other, and then what the plan no longer has.
Reconciled(c, p, inOrder) ==
  LET after[n \in 0..Len(inOrder)] ==
        IF n = 0 THEN c ELSE Followed(after[n - 1], inOrder[n], p[inOrder[n]])
  IN Withdrawn(after[Len(inOrder)], p)

\* clearPlanOccurrences(), when a series is paired no more.
Unpaired(c) == Removed(c, {t \in Days : t >= day /\ c[t].ref # "none"})

-----------------------------------------------------------------------------
\* App.tick: once an hour the calendar, and then the engine

Asks(r) == IF series'.paired /\ series'.on THEN reading' = [reading EXCEPT ![r] = plan]
           ELSE UNCHANGED reading

\* this.materialize() throws, and the rest of the pass with it: no engine, no devices.
LosePass ==
  /\ loop = "idle" /\ due /\ Collides(slot, series)
  /\ lost' = TRUE
  /\ UNCHANGED <<day, series, slot, plan, reading, loop, due, changes>>

Hourly ==
  /\ loop = "idle" /\ due /\ due' = FALSE /\ ~Collides(slot, series)
  /\ slot' = Materialized(slot, series)
  /\ UNCHANGED series /\ Asks("loop")
  /\ loop' = IF series.paired /\ series.on THEN "reading" ELSE "engine"
  /\ UNCHANGED <<day, plan, lost, changes>>

NotYet ==
  /\ loop = "idle" /\ ~due
  /\ loop' = "engine"
  /\ UNCHANGED <<day, series, slot, plan, reading, due, lost, changes>>

\* The source answered, with what it publishes by now or had when it was asked. Whether the
\* series is still paired is not asked again.
Reconcile(r) ==
  /\ reading[r] # NoPlan
  /\ \E p \in {reading[r], plan} : \E inOrder \in Orders(p) : slot' = Reconciled(slot, p, inOrder)
  /\ reading' = [reading EXCEPT ![r] = NoPlan]
  /\ loop' = IF r = "loop" THEN "engine" ELSE loop
  /\ UNCHANGED <<day, series, plan, due, lost, changes>>

\* The source did not answer: the calendar stays as it is.
Unreachable(r) ==
  /\ reading[r] # NoPlan
  /\ reading' = [reading EXCEPT ![r] = NoPlan]
  /\ loop' = IF r = "loop" THEN "engine" ELSE loop
  /\ UNCHANGED <<day, series, slot, plan, due, lost, changes>>

\* dueOccurrences(): however late it is.
Due(t) == Pending(slot, t) /\ series.on /\ day >= t - Lead

EnginePass ==
  /\ loop = "engine"
  /\ slot' = [t \in Days |-> IF Due(t) THEN [slot[t] EXCEPT !.status = "running"] ELSE slot[t]]
  /\ loop' = "idle" /\ lost' = FALSE
  /\ UNCHANGED <<day, series, plan, reading, due, changes>>

\* A run of the occurrence ended, in one way or the other.
RunEnds(t) ==
  /\ slot[t].status = "running"
  /\ slot' = [slot EXCEPT ![t].status = "over"]
  /\ UNCHANGED <<day, series, plan, reading, loop, due, lost, changes>>

-----------------------------------------------------------------------------
\* Requests

Changing == changes < MaxChanges /\ changes' = changes + 1

Changes(c) ==
  /\ Changing /\ slot' = c
  /\ UNCHANGED <<day, series, plan, reading, loop, due, lost>>

\* PATCH /api/series/:id. The row is written; what fails after it leaves it written.
ChangeSeries(r) ==
  /\ Changing /\ reading[r] = NoPlan
  /\ \E rule \in Rules, on \in BOOLEAN, paired \in BOOLEAN :
       LET new == [rule |-> rule, on |-> on, paired |-> paired]
           cleared == IF series.paired /\ ~paired THEN Unpaired(slot) ELSE slot
       IN /\ new # series /\ series' = new
          /\ slot' = Materialized(cleared, new)
          /\ IF Collides(cleared, new) THEN UNCHANGED reading ELSE Asks(r)
  /\ UNCHANGED <<day, plan, loop, due, lost>>

\* PATCH /api/occurrences/:id. The first move is remembered, a taken time refused.
MoveOne(t, to) ==
  /\ Pending(slot, t) /\ to >= day /\ ~Taken(slot, to)
  /\ LET first == IF slot[t].from = 0 THEN t ELSE slot[t].from
     IN Changes(Put([slot EXCEPT ![t].edited = TRUE, ![t].from = first], t, to))

Retitle(t) ==
  /\ Pending(slot, t) /\ ~slot[t].edited
  /\ Changes([slot EXCEPT ![t].edited = TRUE])

ClearTitle(t) ==
  /\ Pending(slot, t) /\ slot[t].edited /\ slot[t].from = 0
  /\ Changes([slot EXCEPT ![t].edited = FALSE])

\* DELETE /api/occurrences/:id/overrides, refused where its first time is taken by now.
Reattach(t) ==
  /\ Pending(slot, t)
  /\ LET back == IF slot[t].from = 0 THEN t ELSE slot[t].from
         plain == [slot EXCEPT ![t].edited = FALSE, ![t].from = 0]
     IN /\ back = t \/ ~Taken(slot, back)
        /\ Changes(Materialized(IF back = t THEN plain ELSE Put(plain, t, back), series))

Skip(t) == Pending(slot, t) /\ Changes([slot EXCEPT ![t].status = "skipped"])
Unskip(t) == slot[t].status = "skipped" /\ Changes([slot EXCEPT ![t].status = "pending"])

\* Prepare now, start now: a run, whatever the time is, unless it has one under way.
RunNow(t) ==
  /\ Taken(slot, t) /\ slot[t].status # "running"
  /\ Changes([slot EXCEPT ![t].status = "running"])

Replan ==
  /\ Changing
  /\ \E p \in Plans : p # plan /\ plan' = p
  /\ UNCHANGED <<day, series, slot, reading, loop, due, lost>>

Clock ==
  /\ day < MaxDay /\ day' = day + 1
  /\ due' \in {due, TRUE}
  /\ UNCHANGED <<series, slot, plan, reading, loop, lost, changes>>

Operator(t) ==
  Retitle(t) \/ ClearTitle(t) \/ Reattach(t) \/ Skip(t) \/ Unskip(t) \/ RunNow(t)
    \/ \E to \in Days : MoveOne(t, to)

CalNext ==
  \/ LosePass \/ Hourly \/ NotYet \/ EnginePass \/ Replan \/ Clock
  \/ \E r \in Readers : Reconcile(r) \/ Unreachable(r)
  \/ \E r \in Askers : ChangeSeries(r)
  \/ \E t \in Days : RunEnds(t) \/ Operator(t)

CalSpec == CalInit /\ [][CalNext]_calVars

-----------------------------------------------------------------------------
\* Properties

\* What follows the rule or the plan by itself.
Automatic == Hourly \/ \E r \in Askers : ChangeSeries(r) \/ \E s \in Readers : Reconcile(s)

\* An occurrence that somebody edited survives every change of the rule, of the plan and
\* of the pairing: only a request about that occurrence, or its run, touches it.
EditKept == [][\A t \in Days : slot[t].edited /\ slot'[t] # slot[t] => ~Automatic]_calVars

\* What begins within the lead is not re-timed or withdrawn by a plan that arrives late,
\* however old the reading of it is and whatever the occurrence has come to.
FrozenKept ==
  [][\A t \in Days : Taken(slot, t) /\ Frozen(t) /\ slot'[t] # slot[t] =>
       ~\E r \in Readers : Reconcile(r)]_calVars

\* Whatever requests and late readings left on the calendar, the hourly pass leaves no
\* occurrence to come that neither the rule nor the plan asks for, and no start of the
\* rule without one.
CalendarAgrees ==
  [][Hourly =>
       /\ \A t \in Days : t >= day /\ Regular(slot', t) =>
            IF series.paired THEN slot'[t].ref # "none" ELSE t \in Wanted(series)
       /\ ~series.paired => \A t \in Wanted(series) : Taken(slot', t)]_calVars

-----------------------------------------------------------------------------
\* What comments say, and the code does not do

\* app.ts tick: one pass after the other goes on to the devices and the engine; the
\* calendar's part of it is not what stops the scheduler.
NoPassIsLost == ~lost

\* plans/sync.ts: nothing is moved or removed once it is preparing.
NothingMovesOncePreparing ==
  [][\A t \in Days : slot[t].status = "running" => Taken(slot', t)]_calVars

\* api/server.ts: "changes one occurrence, and only that one". A moved occurrence is
\* still the only one for the time it was moved from.
MovedIsNotDoubled ==
  \A t, u \in Days : t # u /\ Pending(slot, t) /\ slot[t].from = u => ~(Regular(slot, u))
=============================================================================
