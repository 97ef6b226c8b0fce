-------------------------------- MODULE Forms -------------------------------
(***************************************************************************)
(* The forms on which an operator works out a deed of several requests, or *)
(* one that depends on what was read before: moving an event while holding *)
(* its outputs still, how it repeats (EventForm.tsx, with Outputs.tsx),    *)
(* and changing one occurrence (OccurrenceDetail.tsx, and PATCH            *)
(* /api/occurrences). They share no state; "page" says which is open.      *)
(***************************************************************************)
EXTENDS Integers, FiniteSets, FiniteSetsExt

CONSTANTS
  LastTime,    \* bound: clock times of a day
  OutputCount, \* the event's outputs, in the order of the list
  MaxLost,     \* bound: requests of a save that fail
  Patient,     \* whether an operator waits for answers, and repeats a save that failed as it was
  Editors,     \* browsers that have one occurrence open
  MaxWords     \* bound: saves of an occurrence, and of a rule

FormsAssumption ==
  /\ {LastTime, OutputCount, MaxLost, MaxWords} \subseteq Nat /\ LastTime # 0
  /\ Patient \in BOOLEAN

Times == 0..LastTime
Outputs == 1..OutputCount
Week == 3   \* days of a week, which has Sundays, Mondays and Tuesdays

VARIABLES
  page,
  start, offsets,       \* the event and its outputs, on the server
  typed, saved,         \* the form's time, and the start as the form last read it
  moving, asked,        \* the outputs as they were read when the time was changed, <<>> before
  keep,                 \* keepOutputTimes
  job,                  \* the save under way
  was, touched, lost,   \* clock times when the outputs were read; those changed since; failures
  row, meant,           \* the occurrence, and what operators last set it to
  seen, sending,        \* per editor: what was read, and what is on its way
  words,                \* saves so far
  rule, first,          \* the event's rule, and its first date
  form, picked          \* the rule's part of the draft; whether the operator picked days

eventVars == <<start, offsets, typed, saved, moving, asked, keep, job, was, touched, lost>>
oneVars == <<row, meant, seen, sending>>
ruleVars == <<rule, first, form, picked>>
formsVars == <<page, eventVars, oneVars, words, ruleVars>>

-----------------------------------------------------------------------------
\* EventForm: the start is moved, and the outputs with it, or not.

Idle == [step |-> "rest", to |-> 0, by |-> 0, hold |-> <<>>, left |-> {}, failed |-> FALSE]

\* The effect of useResource that reads the outputs runs as the shift begins to differ from 0.
Shown(time, base) ==
  IF time = base THEN moving' = <<>> /\ was' = <<>> /\ touched' = {} /\ asked' = FALSE
  ELSE asked' = (asked \/ typed = saved) /\ UNCHANGED <<moving, was, touched>>

Type(t) ==
  /\ t # typed
  /\ Patient => job.step = "rest" /\ ~job.failed
  /\ typed' = t /\ Shown(t, saved)
  /\ UNCHANGED <<start, offsets, saved, keep, job, lost>>

ReadOutputs ==
  /\ asked /\ asked' = FALSE
  /\ moving' = offsets
  /\ was' = [o \in Outputs |-> start + offsets[o]] /\ touched' = {}
  /\ UNCHANGED <<start, offsets, typed, saved, keep, job, lost>>

\* stuck: an output that would have to begin before the event.
Stuck(by) == \E o \in DOMAIN moving : moving[o] - by < 0

TickKeep ==
  /\ typed # saved /\ moving # <<>> /\ ~Stuck(typed - saved)
  /\ keep' = ~keep
  /\ UNCHANGED <<start, offsets, typed, saved, moving, asked, job, was, touched, lost>>

\* Mutant: the outputs as they are when Save is pressed.
CapturedNow == offsets

\* Captured before the series moves.
Captured == moving

Save ==
  /\ job.step = "rest"
  /\ Patient => ~asked
  /\ LET hold == IF keep /\ typed # saved THEN Captured ELSE <<>> IN
     /\ \A o \in DOMAIN hold : hold[o] - (typed - saved) <= LastTime   \* bound
     /\ job' = [step |-> "series", to |-> typed, by |-> typed - saved, hold |-> hold,
                left |-> DOMAIN hold, failed |-> FALSE]
  /\ UNCHANGED <<start, offsets, typed, saved, moving, asked, keep, was, touched, lost>>

\* What is left of a save when these outputs are still to be held.
Remaining(left) ==
  [job EXCEPT !.left = left, !.step = IF left # {} THEN "outputs" ELSE "fresh"]

\* A request of the save fails: before the server, or when it was done.
Failed == [Idle EXCEPT !.failed = TRUE]
Loses(done) == IF done THEN UNCHANGED lost ELSE lost < MaxLost /\ lost' = lost + 1

SaveSeries(done) ==
  /\ job.step = "series"
  /\ start' = job.to \/ (~done /\ start' = start)
  /\ job' = (IF done THEN Remaining(job.left) ELSE Failed) /\ Loses(done)
  /\ UNCHANGED <<offsets, typed, saved, moving, asked, keep, was, touched>>

\* One output after the other; what would begin before the event is refused (outputBody).
SaveOutput(done) ==
  /\ job.step = "outputs"
  /\ LET o == Min(job.left)  to == job.hold[o] - job.by IN
     IF to < 0 THEN ~done /\ job' = Failed /\ UNCHANGED <<offsets, lost>>
     ELSE /\ offsets' = [offsets EXCEPT ![o] = to] \/ (~done /\ offsets' = offsets)
          /\ job' = IF done THEN Remaining(job.left \ {o}) ELSE Failed
          /\ Loses(done)
  /\ UNCHANGED <<start, typed, saved, moving, asked, keep, was, touched>>

\* The box is cleared, and the event read again.
ReadSaved(done) ==
  /\ job.step = "fresh" /\ keep' = FALSE
  /\ job' = (IF done THEN Idle ELSE Failed) /\ Loses(done)
  /\ IF done THEN saved' = start /\ Shown(typed, start)
     ELSE UNCHANGED <<saved, moving, asked, was, touched>>
  /\ UNCHANGED <<start, offsets, typed>>

\* A row of the outputs' panel is saved: a clock time is made an offset from the event's start.
SaveRow(o, clock) ==
  /\ job.step = "rest" /\ clock >= saved /\ offsets[o] # clock - saved
  /\ offsets' = [offsets EXCEPT ![o] = clock - saved]
  /\ touched' = IF moving = <<>> THEN {} ELSE touched \cup {o}
  /\ UNCHANGED <<start, typed, saved, moving, asked, keep, job, was, lost>>

EventNext ==
  \/ \E t \in Times : Type(t) \/ \E o \in Outputs : SaveRow(o, t)
  \/ \E done \in BOOLEAN : SaveSeries(done) \/ SaveOutput(done) \/ ReadSaved(done)
  \/ ReadOutputs \/ TickKeep \/ Save

-----------------------------------------------------------------------------
\* EditOne: a date of its own. Fields of the occurrence, or "series" where it has none.
Texts == {"series", "own"}
Absent == "absent"

\* How the event has it.
FromSeries == [label |-> "series", start |-> 1, length |-> 1, title |-> Absent, file |-> Absent]
Attached == [fields |-> FromSeries, movedFrom |-> 0, lengthenedFrom |-> 0, running |-> FALSE]

\* draftOf: what is not set reads as the event has it.
DraftOf(fields) ==
  [fields EXCEPT !.title = IF @ = Absent THEN "series" ELSE @,
                 !.file = IF @ = Absent THEN "series" ELSE @]

Nobody == [fields |-> {}, to |-> DraftOf(FromSeries)]

\* Mutant: the form is sent as it stands.
Everything(draft, original) == DOMAIN draft

\* Only what differs.
Differing(draft, original) == {f \in DOMAIN draft : draft[f] # original[f]}

\* The page is read again, by itself or by the operator.
Reopen(e) ==
  /\ sending[e] = Nobody /\ seen[e] # row.fields
  /\ seen' = [seen EXCEPT ![e] = row.fields]
  /\ UNCHANGED <<row, meant, sending, words>>

\* What may be typed over what the form shows; a save puts back whatever is typed meanwhile.
Drafts == [label : Texts, start : 1..2, length : 1..2, title : Texts, file : Texts]

SaveOne(e, draft) ==
  /\ sending[e] = Nobody /\ draft # DraftOf(seen[e]) /\ words < MaxWords /\ words' = words + 1
  /\ sending' = [sending EXCEPT ![e] =
                   [fields |-> Differing(draft, DraftOf(seen[e])), to |-> draft]]
  /\ UNCHANGED <<row, meant, seen>>

\* Mutant: where it comes from is where it was last.
LastPlace(kept, now) == now

\* Only the first move records where it came from.
FirstPlace(kept, now) == IF kept = 0 THEN now ELSE kept

\* PATCH /api/occurrences/:id, and the answer: the templates go together.
PatchOccurrence(e) ==
  /\ sending[e] # Nobody
  /\ LET edit == sending[e]
         group == edit.fields \cap {"title", "file"} # {}
         sent == (edit.fields \ {"title", "file"}) \cup (IF group THEN {"title", "file"} ELSE {})
         fields == [f \in DOMAIN row.fields |-> IF f \in sent THEN edit.to[f] ELSE row.fields[f]]
     IN IF row.running THEN UNCHANGED <<row, meant>>
        ELSE /\ row' = [row EXCEPT !.fields = fields,
                          !.movedFrom = IF fields.start # row.fields.start
                                        THEN FirstPlace(@, row.fields.start) ELSE @,
                          !.lengthenedFrom = IF fields.length # row.fields.length
                                             THEN FirstPlace(@, row.fields.length) ELSE @]
             /\ meant' = [f \in DOMAIN meant |->
                            IF edit.to[f] # DraftOf(seen[e])[f] THEN edit.to[f] ELSE meant[f]]
  /\ sending' = [sending EXCEPT ![e] = Nobody]
  /\ seen' = [seen EXCEPT ![e] = row'.fields]
  /\ UNCHANGED words

\* DELETE /api/occurrences/:id/overrides.
Revert(e) ==
  /\ row # [Attached EXCEPT !.running = row.running] /\ sending[e] = Nobody
  /\ row' = [row EXCEPT
       !.fields = [FromSeries EXCEPT
          !.start = IF row.movedFrom # 0 THEN row.movedFrom ELSE row.fields.start,
          !.length = IF row.lengthenedFrom # 0 THEN row.lengthenedFrom ELSE row.fields.length],
       !.movedFrom = 0, !.lengthenedFrom = 0]
  /\ meant' = DraftOf(FromSeries)
  /\ seen' = [seen EXCEPT ![e] = row'.fields]
  /\ UNCHANGED <<sending, words>>

\* Its run begins to prepare.
Begin ==
  /\ ~row.running /\ row' = [row EXCEPT !.running = TRUE]
  /\ UNCHANGED <<meant, seen, sending, words>>

OneNext ==
  \/ Begin
  \/ \E e \in Editors :
       \/ Reopen(e) \/ PatchOccurrence(e) \/ Revert(e)
       \/ \E draft \in Drafts : SaveOne(e, draft)

-----------------------------------------------------------------------------
\* How an event repeats: a rule, and the controls that stand for it.
Weekday(date) == date % Week
Nth(date) == date \div Week

None == [freq |-> "none", days |-> {}, nth |-> 0]
Daily == [freq |-> "daily", days |-> {}, nth |-> 0]
Weekly(days) == [freq |-> "weekly", days |-> days, nth |-> 0]
Monthly(day, nth) == [freq |-> "monthly", days |-> {day}, nth |-> nth]
Yearly == [freq |-> "yearly", days |-> {}, nth |-> 0]   \* any that has no control of its own

Repeats(freq) ==
  CASE freq = "none" -> "once" [] freq = "yearly" -> "custom" [] OTHER -> freq

\* Mutant: the days of a rule that is opened are taken for those of the first date.
DaysForgotten(r) == {}

\* The days that a weekly rule names.
DaysOf(r) == IF r.freq = "weekly" THEN r.days ELSE {}

\* toDraft, with parseRrule.
Parsed(r, paired) ==
  [repeat |-> IF paired THEN "plan" ELSE Repeats(r.freq), byday |-> DaysOf(r),
   bydayTouched |-> DaysOf(r) # {}, custom |-> IF Repeats(r.freq) = "custom" THEN r ELSE None,
   prior |-> r, date |-> first, open |-> TRUE]

\* toRrule.
ToRule(f) ==
  LET days == IF f.bydayTouched THEN f.byday ELSE {Weekday(f.date)} IN
  CASE f.repeat = "once" -> None
    [] f.repeat = "daily" -> Daily
    [] f.repeat = "weekly" -> Weekly(days)
    [] f.repeat = "monthly" -> Monthly(Weekday(f.date), Nth(f.date))
    [] f.repeat = "custom" -> f.custom
    [] f.repeat = "plan" -> f.prior

OpenForm(paired) ==
  /\ ~form.open /\ form' = Parsed(rule, paired) /\ picked' = FALSE
  /\ UNCHANGED <<rule, first, words>>

Choose(f) == form.open /\ form' = f /\ form' # form /\ UNCHANGED <<rule, first, words>>

ChooseRepeat(repeat) == Choose([form EXCEPT !.repeat = repeat]) /\ UNCHANGED picked
ChooseDate(date) == Choose([form EXCEPT !.date = date]) /\ UNCHANGED picked

\* A day is put in or taken out, of those that are shown.
ToggleDay(day) ==
  /\ form.repeat = "weekly"
  /\ LET shown == IF form.bydayTouched THEN form.byday ELSE {Weekday(form.date)}
         days == (shown \ {day}) \cup ({day} \ shown)
     IN Choose([form EXCEPT !.byday = days, !.bydayTouched = TRUE]) /\ picked' = TRUE

SaveRule ==
  /\ form.open /\ words < MaxWords /\ words' = words + 1
  /\ rule' = ToRule(form) /\ first' = form.date
  /\ form' = [form EXCEPT !.open = FALSE] /\ UNCHANGED picked

RuleNext ==
  \/ \E paired \in BOOLEAN : OpenForm(paired)
  \/ \E r \in {"once", "daily", "weekly", "monthly", "custom", "plan"} : ChooseRepeat(r)
  \/ \E d \in 0..(2 * Week - 1) : ChooseDate(d)
  \/ \E d \in 0..(Week - 1) : ToggleDay(d)
  \/ SaveRule

-----------------------------------------------------------------------------
Blank == [repeat |-> "once", byday |-> {}, bydayTouched |-> FALSE, custom |-> None,
          prior |-> None, date |-> 0, open |-> FALSE]

FormsInit ==
  /\ page \in {"event", "one", "repeats"}
  /\ start = 1 /\ offsets = [o \in Outputs |-> o - 1] /\ typed = 1 /\ saved = 1
  /\ moving = <<>> /\ asked = FALSE /\ keep = FALSE /\ job = Idle
  /\ was = <<>> /\ touched = {} /\ lost = 0
  /\ row = Attached /\ meant = DraftOf(FromSeries) /\ words = 0
  /\ seen = [e \in Editors |-> FromSeries]
  /\ sending = [e \in Editors |-> Nobody]
  /\ rule \in (IF page = "repeats" THEN {None, Daily, Weekly({0}), Weekly({0, 1}),
                                         Monthly(1, 1), Yearly} ELSE {None})
  /\ first = 0 /\ form = Blank /\ picked = FALSE

FormsNext ==
  \/ page = "event" /\ EventNext /\ UNCHANGED <<page, oneVars, words, ruleVars>>
  \/ page = "one" /\ OneNext /\ UNCHANGED <<page, eventVars, ruleVars>>
  \/ page = "repeats" /\ RuleNext /\ UNCHANGED <<page, eventVars, oneVars>>

FormsSpec == FormsInit /\ [][FormsNext]_formsVars

FormsTypeOK ==
  /\ start \in Times /\ typed \in Times /\ saved \in Times /\ keep \in BOOLEAN
  /\ offsets \in [Outputs -> Int] /\ \A o \in Outputs : offsets[o] >= 0
  /\ moving \in [Outputs -> Nat] \/ moving = <<>>
  /\ job.step \in {"rest", "series", "outputs", "fresh"} /\ job.left \subseteq Outputs
  /\ touched \subseteq Outputs /\ lost \in 0..MaxLost /\ words \in 0..MaxWords
  /\ rule.freq \in {"none", "daily", "weekly", "monthly", "yearly"} /\ first \in 0..(2 * Week - 1)
  /\ DraftOf(row.fields) \in Drafts

\* A weekly rule that names no day runs on the day of its first date.
Meaning(r, date) == IF r = Weekly({}) THEN Weekly({Weekday(date)}) ELSE r

-----------------------------------------------------------------------------
\* When an event has been moved with "keep them at their current times", every output that
\* was not changed in the panel meanwhile is where it was on the clock, however many of the
\* requests before had failed half-way (EventForm's save).
HeldStill ==
  [][job.step = "fresh" /\ job'.step = "rest" /\ ~job'.failed /\ job.hold # <<>>
       => \A o \in Outputs \ touched : start' + offsets'[o] = was[o]]_<<page, eventVars>>

\* What operators last set the name, the start and the length of one occurrence to is what it
\* has, from whichever browser: a save brings nothing along that was only read (EditOne).
LastWordStands ==
  \A f \in {"label", "start", "length"} : row.fields[f] = meant[f]

\* An occurrence that is put back on its event has the event's time, after any number of
\* moves (DELETE overrides).
RevertedIsAttached ==
  row.movedFrom = 0 /\ row.lengthenedFrom = 0 =>
    row.fields.start = FromSeries.start /\ row.fields.length = FromSeries.length

\* Opening an event and saving it leaves its rule as it was, when the rule fits the first
\* date, or is not consulted (parseRrule and toRrule); and a weekly rule for which nobody
\* picked days runs on the day of the first date, or on those it ran on.
RuleKept ==
  [][form.open /\ ~form'.open =>
       /\ form.repeat = "plan" => rule' = rule
       /\ (form.repeat = Repeats(rule.freq) /\ form.date = first /\ ~picked
             /\ (rule.freq = "monthly" => rule = Monthly(Weekday(first), Nth(first))))
            => Meaning(rule', first') = Meaning(rule, first)
       /\ (form.repeat = "weekly" /\ ~picked) =>
            Meaning(rule', first').days \in {{Weekday(first')}, DaysOf(rule)}]_ruleVars
=============================================================================
