------------------------------ MODULE Reckoning -----------------------------
(***************************************************************************)
(* What the scheduler works out without touching anything: which outputs   *)
(* of an event clash (events/overlap.ts), when a rule's wall times happen  *)
(* in a zone whose clocks change (schedule/zoned.ts, recurrence.ts), and   *)
(* what a name template becomes (template/render.ts). A question is        *)
(* answered in one step, and the answer is compared with what was to be    *)
(* worked out.                                                             *)
(***************************************************************************)
EXTENDS Integers, FiniteSets, FiniteSetsExt, SequencesExt

CONSTANTS
  DayLength,   \* the day by which offsets are probed, and half of what a range is widened by
  LastWall,    \* bound: wall times and instants asked about
  Shifts,      \* offsets from UTC that a zone may have
  Spare        \* how many results of a rule are looked at beyond the limit

ReckoningAssumption ==
  /\ DayLength \in Nat \ {0} /\ LastWall \in Nat /\ Shifts \subseteq Nat /\ Spare \in Nat
  \* A zone's offset is less than the day by which it is probed.
  /\ \A s \in Shifts : s < DayLength

VARIABLES
  question,
  answer     \* <<>> until it is worked out

reckonVars == <<question, answer>>

-----------------------------------------------------------------------------
\* Outputs that clash.

\* deviceFor: the device and the node, or none while the event is set up.
Places == {<<>>, <<"d1", "n1">>, <<"d1", "n2">>, <<"d2", "n1">>}

Planned(from, len) ==
  [from : {from}, len : {len}, place : Places, kind : {"stream", "recording"},
   quality : {"none", "low", "high"}, dest : {"none", "k1"}, enabled : {TRUE}]

From(a, b) == IF a.from > b.from THEN a.from ELSE b.from
To(a, b) == IF a.from + a.len < b.from + b.len THEN a.from + a.len ELSE b.from + b.len

\* Mutant: what begins as the other ends counts as a clash.
MeetOrTouch(a, b) == To(a, b) >= From(a, b)

\* to <= from: nothing that happens at once.
Meet(a, b) == To(a, b) > From(a, b)

SamePlace(a, b) == a.place # <<>> /\ a.place = b.place

ClashesOver(a, b, shares) ==
  IF ~(a.enabled /\ b.enabled /\ Meet(a, b)) THEN {}
  ELSE {k \in {"device", "setting", "destination"} :
          CASE k = "device" -> SamePlace(a, b) /\ a.kind = b.kind
            [] k = "setting" ->
                 /\ a.place # <<>> /\ b.place # <<>> /\ a.place[1] = b.place[1]
                 /\ "none" \notin {a.quality, b.quality} /\ a.quality # b.quality
            [] k = "destination" ->
                 a.dest # "none" /\ a.dest = b.dest /\ shares /\ ~SamePlace(a, b)}

-----------------------------------------------------------------------------
\* Wall times in a zone, whose clocks change at one instant.
Zones == [changes : 0..LastWall, before : Shifts, after : Shifts]

ZoneOffsetAt(zone, instant) == IF instant < zone.changes THEN zone.before ELSE zone.after

WallTimeAt(zone, instant) == instant + ZoneOffsetAt(zone, instant)

\* Mutant: only the day before is tried.
ProbesBefore(naive) == {naive - DayLength}

\* The days whose offset is tried for a wall time.
Probes(naive) == {naive - DayLength, naive + DayLength}

ZonedWallTimeToUtc(naive, zone) ==
  LET candidates == {naive - ZoneOffsetAt(zone, p) : p \in Probes(naive)}
      valid == {i \in candidates : WallTimeAt(zone, i) = naive}
  IN CASE Cardinality(valid) = 1 -> [instant |-> Min(valid), resolution |-> "exact"]
       [] Cardinality(valid) > 1 -> [instant |-> Min(valid), resolution |-> "ambiguous"]
       [] OTHER -> [instant |-> Max(candidates), resolution |-> "skipped"]

\* expandRule: the wall times of the rule near the range, as many as the cap allows.
ExpandRule(rule, zone, from, to, cap) ==
  LET wall == {w \in rule : /\ WallTimeAt(zone, from) - 2 * DayLength <= w
                            /\ w <= WallTimeAt(zone, to) + 2 * DayLength}
      taken == SubSeq(SetToSortSeq(wall, <), 1, Min({cap, Cardinality(wall)}))
  IN [i \in DOMAIN taken |-> ZonedWallTimeToUtc(taken[i], zone).instant]

\* What a range holds: any part of an occurrence counts.
InRange(start, length, from, to) == start + length >= from /\ start <= to

ExpandOccurrences(q) ==
  LET candidates == ExpandRule(q.rule, q.zone, q.from, q.to,
                               q.limit + Cardinality(q.exdates) + Spare)
      wanted == {i \in DOMAIN candidates :
                   /\ InRange(candidates[i], q.length, q.from, q.to)
                   /\ candidates[i] \notin q.exdates
                   \* seen: a skipped time can land on another occurrence
                   /\ \A j \in 1..(i - 1) : candidates[j] # candidates[i]}
  IN {candidates[i] : i \in {k \in wanted : Cardinality({j \in wanted : j <= k}) <= q.limit}}

-----------------------------------------------------------------------------
\* Names. A template is a sequence of pieces; a plan has some of its fields.
Pieces == {"text", "event.name", "plan.title", "encoder.label", "unknown", ""}

\* What a token becomes, or the issue that it is left for.
Resolve(piece, ctx) ==
  CASE piece \in {"text", "event.name"} -> piece
    [] piece = "plan.title" /\ ctx.plan = "titled" -> piece
    [] piece = "encoder.label" /\ ctx.encoder -> piece
    [] OTHER -> "issue"

RenderTemplateOrThrow(pieces, ctx) ==
  LET text == [i \in DOMAIN pieces |-> Resolve(pieces[i], ctx)]
  IN IF "issue" \in {text[i] : i \in DOMAIN text} THEN "throws" ELSE text

\* effectiveTemplates: the output's own, where it has any.
EffectiveTemplate(event, output) == IF output # <<>> THEN output ELSE event

-----------------------------------------------------------------------------
Rules == {r \in SUBSET (0..LastWall) : Cardinality(r) \in 1..3}

\* The second output begins with the first, in its middle or as it ends.
ClashQuestions ==
  UNION {[ask : {"clash"}, first : Planned(0, 2), second : Planned(f, 2), shares : BOOLEAN]
           : f \in 0..2}

DateQuestions ==
  [ask : {"dates"}, rule : Rules, zone : {z \in Zones : z.changes \in {2, 4}},
   from : {3}, to : {3, 5}, length : {1, 2}, exdates : {{}, {3}}, limit : {1, 3}]

Questions ==
  ClashQuestions \cup DateQuestions
    \cup [ask : {"zone"}, wall : 0..LastWall, zone : Zones]
    \cup [ask : {"name"}, event : {<<"event.name">>, <<"plan.title">>},
          output : {<<>>} \cup [1..2 -> Pieces],
          ctx : [plan : {"none", "untitled", "titled"}, encoder : BOOLEAN]]

ReckonInit == question \in Questions /\ answer = <<>>

\* overlapsForSeries, zonedWallTimeToUtc, expandOccurrences, and renderTemplateOrThrow of the
\* effective template.
Reckon ==
  /\ answer = <<>>
  /\ LET q == question IN
     answer' = CASE q.ask = "clash" -> <<ClashesOver(q.first, q.second, q.shares)>>
                 [] q.ask = "zone" -> <<ZonedWallTimeToUtc(q.wall, q.zone)>>
                 [] q.ask = "dates" -> <<ExpandOccurrences(q)>>
                 [] OTHER -> <<RenderTemplateOrThrow(EffectiveTemplate(q.event, q.output), q.ctx)>>
  /\ UNCHANGED question

ReckonNext == Reckon
ReckonSpec == ReckonInit /\ [][ReckonNext]_reckonVars

ReckonTypeOK == question.ask \in {"clash", "dates", "zone", "name"} /\ Len(answer) \in 0..1

-----------------------------------------------------------------------------
Answered(kind) == answer # <<>> /\ question.ask = kind

\* Two outputs that want one transport, one box set two ways or one key at one instant are
\* told of before the event is saved, and no others (overlap.ts). Lengths are those that are
\* stored: an output that follows the window is judged by the length it does not run for.
ClashesAreTold ==
  Answered("clash") =>
    LET a == question.first  b == question.second
        Busy(o) == {t \in 0..4 : o.from <= t /\ t < o.from + o.len}
        together == Busy(a) \cap Busy(b) # {}
        onePlace == a.place # <<>> /\ a.place = b.place
    IN /\ (answer[1] # {} => together)
       /\ (together /\ onePlace /\ a.kind = b.kind) <=> "device" \in answer[1]
       /\ (together /\ ~onePlace /\ a.dest = "k1" /\ b.dest = "k1" /\ question.shares)
            <=> "destination" \in answer[1]
       /\ (together /\ {a.quality, b.quality} = {"low", "high"} /\ a.place # <<>>
             /\ b.place # <<>> /\ Head(a.place) = Head(b.place)) <=> "setting" \in answer[1]

\* A service runs when a clock on the wall shows its time: the first time where the clocks go
\* back over it, and later by the hour that is missing where they go forward (zoned.ts).
WallTimeIsKept ==
  Answered("zone") =>
    LET z == question.zone
        Shows(i) == IF i < z.changes THEN i + z.before ELSE i + z.after
        times == {i \in -DayLength..(LastWall + DayLength) : Shows(i) = question.wall}
    IN IF times = {}
       THEN answer[1].resolution = "skipped"
              /\ Shows(answer[1].instant) = question.wall + (z.after - z.before)
       ELSE /\ answer[1].instant \in times /\ \A i \in times : answer[1].instant <= i
            /\ (answer[1].resolution = "ambiguous" <=> Cardinality(times) > 1)

\* A range of dates holds the occurrences that touch it, in wall time, without those that were
\* taken out, and the earliest of them when it is cut short (recurrence.ts).
RangeIsComplete ==
  Answered("dates") =>
    LET q == question
        Start(w) == ZonedWallTimeToUtc(w, q.zone).instant
        all == {s \in {Start(w) : w \in q.rule} :
                  s <= q.to /\ s + q.length >= q.from /\ s \notin q.exdates}
    IN /\ answer[1] \subseteq all
       /\ Cardinality(all) <= q.limit => answer[1] = all
       /\ Cardinality(answer[1]) <= q.limit
       /\ \A s \in answer[1], t \in all \ answer[1] : s < t

\* A name that is given to a service has every token filled in, from a plan or an encoder
\* that there is (render.ts).
NamesAreFilledIn ==
  Answered("name") =>
    LET wanted == IF question.output = <<>> THEN question.event ELSE question.output
        holes == {wanted[i] : i \in DOMAIN wanted} \ {"text", "event.name"}
        missing == (holes \ {"plan.title", "encoder.label"})
                     \cup (IF question.ctx.plan = "titled" THEN {} ELSE holes \cap {"plan.title"})
                     \cup (IF question.ctx.encoder THEN {} ELSE holes \cap {"encoder.label"})
    IN answer[1] = IF missing # {} THEN "throws" ELSE wanted
=============================================================================
