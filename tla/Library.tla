------------------------------- MODULE Library -------------------------------
(***************************************************************************)
(* The files of one recorder and the ledger of what the scheduler put      *)
(* there: written as a recording starts (runs/artifacts.ts), judged by the *)
(* policy of the output (runs/retention.ts), removed by sweeps, by the     *)
(* hour or by an operator (runs/sweep.ts), by the screen of the card, and  *)
(* by a format (api/server.ts). Footage is numbered in the order it was    *)
(* shot; what others put on the card is "Theirs".                          *)
(***************************************************************************)
EXTENDS Integers, FiniteSets

CONSTANTS
  Footage,     \* the recordings of the output, 1..n (bound)
  Tails,    \* 0..n: what the recorder appends where a name is taken (bound)
  Titles,      \* the names the template renders
  Told,        \* the recorder reports the name it chose
  KeepLast, KeepFor, Ttl,
  Sweeps,      \* the hourly sweep and those of operators (bound)
  MaxTime,     \* bound: the clock
  MaxMeddling  \* bound: what people do at the recorder and on the screen of its card

Theirs == Cardinality(Footage) + 1
Files == Titles \X Tails

LibraryAssumption ==
  /\ Cardinality(Footage) \in Nat /\ Footage = 1..Cardinality(Footage)
  /\ KeepLast \in Nat /\ KeepFor \in Nat /\ Ttl \in Nat /\ MaxTime \in Nat /\ MaxMeddling \in Nat
  /\ 0 \in Tails /\ Tails \subseteq Nat /\ Titles # {} /\ Told \in BOOLEAN

VARIABLES
  card,      \* [Files -> the footage under this name, 0 without]
  ledger,    \* [Footage -> its row in recording_artifact]
  deck,      \* what the recorder is recording, 0 when it is not
  seen,      \* the last state it pushed says that it is recording
  running,   \* an unfinished run has an output on this device
  sweep,     \* [Sweeps -> a SweepPlan and how far it is]
  picked,    \* the files of the card that an operator ticked: pendingDeletes
  primed,    \* the recorder's token to format the card: "no", "given", "quoted"
  time,      \* in units of five minutes
  meddled    \* what people did so far

libVars == <<card, ledger, deck, seen, running, sweep, picked, primed, time, meddled>>

NoRow == [is |-> "none", file |-> CHOOSE f \in Files : f[2] = 0, at |-> 0]
NoSweep == [is |-> "none", files |-> {}, at |-> 0]
Planned == [row : Footage, file : Files]

LibTypeOK ==
  /\ card \in [Files -> 0..Theirs]
  /\ ledger \in [Footage -> [is : {"none", "open", "closed", "deleted"}, file : Files, at : 0..MaxTime]]
  /\ deck \in 0..Theirs /\ seen \in BOOLEAN /\ running \in BOOLEAN
  /\ \A s \in Sweeps :
       /\ sweep[s].is \in {"none", "listing", "prepared", "removing", "asked"}
       /\ sweep[s].at \in 0..MaxTime /\ sweep[s].files \subseteq Planned
  /\ picked.is \in {"none", "described", "removing"}
  /\ primed \in {"no", "given", "quoted"} /\ time \in 0..MaxTime /\ meddled \in 0..MaxMeddling

LibInit ==
  /\ card = [f \in Files |-> 0] /\ ledger = [r \in Footage |-> NoRow]
  /\ deck = 0 /\ seen = FALSE /\ running = FALSE
  /\ sweep = [s \in Sweeps |-> NoSweep]
  /\ picked = [is |-> "none", files |-> {}, at |-> 0]
  /\ primed = "no" /\ time = 0 /\ meddled = 0

OnCard(r) == \E f \in Files : card[f] = r
Shot == {r \in Footage : ledger[r].is # "none"}
Meddle == meddled < MaxMeddling /\ meddled' = meddled + 1
Erased(f) == card' = [card EXCEPT ![f] = 0]

-----------------------------------------------------------------------------
\* Recording

\* The recorder writes under the name it is asked for, or the next that is free.
Writes(r, title) ==
  LET free == {n \in Tails : card[<<title, n>>] = 0}
      f == <<title, CHOOSE n \in free : \A m \in free : n <= m>>
  IN /\ free # {} /\ deck = 0 /\ deck' = r
     /\ card' = [card EXCEPT ![f] = r]
     /\ r # Theirs =>
          ledger' = [ledger EXCEPT ![r] =
                       [is |-> "open", file |-> IF Told THEN f ELSE <<title, 0>>, at |-> time]]

RunStarts ==
  /\ ~running /\ running' = TRUE
  /\ UNCHANGED <<card, ledger, deck, seen, sweep, picked, primed, time, meddled>>

\* startRecording, and the row as the recorder has confirmed it.
StartRecording ==
  /\ running /\ Shot # Footage
  /\ \E title \in Titles : Writes(Cardinality(Shot) + 1, title)
  /\ UNCHANGED <<seen, running, sweep, picked, primed, time, meddled>>

\* stopRecording, and the row closed.
StopRecording ==
  /\ running /\ deck \in Footage /\ deck' = 0
  /\ ledger' = [ledger EXCEPT ![deck].is = IF @ = "open" THEN "closed" ELSE @]
  /\ UNCHANGED <<card, seen, running, sweep, picked, primed, time, meddled>>

\* The run is over: as it should be, or with a row left open.
RunIsOver ==
  /\ running /\ running' = FALSE
  /\ deck' \in {deck, 0}
  /\ UNCHANGED <<card, ledger, seen, sweep, picked, primed, time, meddled>>

\* Somebody records, stops or tidies up at the recorder itself.
ByHand ==
  /\ \/ (\E title \in Titles : Writes(Theirs, title)) /\ UNCHANGED ledger
     \/ deck # 0 /\ deck' = 0 /\ UNCHANGED <<card, ledger>>
     \/ (\E f \in Files : card[f] \notin {0, deck} /\ Erased(f)) /\ UNCHANGED <<deck, ledger>>
  /\ Meddle /\ UNCHANGED <<seen, running, sweep, picked, primed, time>>

StatePushed ==
  /\ seen # (deck # 0) /\ seen' = (deck # 0)
  /\ UNCHANGED <<card, ledger, deck, running, sweep, picked, primed, time, meddled>>

Elapse ==
  /\ time < MaxTime /\ time' = time + 1
  /\ UNCHANGED <<card, ledger, deck, seen, running, sweep, picked, primed, meddled>>

-----------------------------------------------------------------------------
\* The policy

\* sameFile(): an extension or a suffix may follow the name we know.
SameFile(row, f) == IF Told THEN row.file = f ELSE row.file[1] = f[1]
Listed(row) == {f \in Files : card[f] # 0 /\ SameFile(row, f)}

\* Mutant: the newest are looked for at the wrong end.
IndexFromOldest(r) == Cardinality({q \in Shot : ledger[q].is # "deleted" /\ q < r})

\* The place of a row among those not deleted, the newest first.
Index(r) == Cardinality({q \in Shot : ledger[q].is # "deleted" /\ q > r})

\* assess(): age decides, or not where the card runs out of room.
Eligible(r, pressed) ==
  /\ ledger[r].is = "closed" /\ Index(r) >= KeepLast
  /\ pressed \/ time - ledger[r].at > KeepFor

\* With the name that the recorder lists first, or ours where it lists nothing at all.
Candidates(pressed, lists) ==
  {p \in Planned :
     /\ Eligible(p.row, pressed)
     /\ IF lists THEN p.file \in Listed(ledger[p.row]) ELSE p.file = ledger[p.row].file}

-----------------------------------------------------------------------------
\* The sweeper

Busy == running \/ seen

Ask(s) ==
  /\ sweep[s].is \in {"none", "prepared"} /\ ~Busy
  /\ sweep' = [sweep EXCEPT ![s] = [NoSweep EXCEPT !.is = "listing"]]
  /\ UNCHANGED <<card, ledger, deck, seen, running, picked, primed, time, meddled>>

\* The listing arrives, or does not: one file for each row that may go.
Prepare(s) ==
  /\ sweep[s].is = "listing"
  /\ \E pressed, lists \in BOOLEAN :
       LET offered == Candidates(pressed, lists)
           rows == {p.row : p \in offered}
       IN \E named \in [rows -> Files] :
            /\ \A r \in rows : [row |-> r, file |-> named[r]] \in offered
            /\ sweep' = [sweep EXCEPT ![s] =
                 [is |-> "prepared", at |-> time,
                  files |-> {[row |-> r, file |-> named[r]] : r \in rows}]]
  /\ UNCHANGED <<card, ledger, deck, seen, running, picked, primed, time, meddled>>

Confirm(s) ==
  /\ sweep[s].is = "prepared"
  /\ sweep' = [sweep EXCEPT ![s] =
                 IF time - @.at > Ttl \/ Busy THEN NoSweep ELSE [@ EXCEPT !.is = "removing"]]
  /\ UNCHANGED <<card, ledger, deck, seen, running, picked, primed, time, meddled>>

\* A plan is gone through from the newest of its files.
Newest(s) == CHOOSE p \in sweep[s].files : \A q \in sweep[s].files : q.row <= p.row
Rest(s) == sweep[s].files \ {Newest(s)}

\* The next file of the plan: passed over where its row is gone or open by now.
NextFile(s) ==
  /\ sweep[s].is = "removing"
  /\ sweep' = [sweep EXCEPT ![s] =
       IF @.files = {} THEN NoSweep
       ELSE IF ledger[Newest(s).row].is # "closed" THEN [@ EXCEPT !.files = Rest(s)]
       ELSE [@ EXCEPT !.is = "asked"]]
  /\ UNCHANGED <<card, ledger, deck, seen, running, picked, primed, time, meddled>>

Answered(s) == sweep' = [sweep EXCEPT ![s].is = "removing", ![s].files = Rest(s)]

\* Mutant: the row is marked though the recorder kept the file.
RemovedAnyway(s) ==
  LET p == Newest(s) IN
    /\ UNCHANGED card
    /\ ledger' = [ledger EXCEPT ![p.row].is = "deleted"]

\* The recorder removed the file, and its listing says so.
Removed(s) ==
  LET p == Newest(s) IN
    /\ card[p.file] # 0 /\ Erased(p.file)
    /\ ledger' = [ledger EXCEPT ![p.row].is = "deleted"]

\* It is not there, or the recorder would not: last_error, and the row stays.
Kept == UNCHANGED <<card, ledger>>

RemoveFile(s) ==
  /\ sweep[s].is = "asked" /\ (Removed(s) \/ Kept) /\ Answered(s)
  /\ UNCHANGED <<deck, seen, running, picked, primed, time, meddled>>

-----------------------------------------------------------------------------
\* The screen of the card

\* Whatever the card holds, one confirmation at a time (bound).
Pick ==
  /\ picked.is # "removing" /\ ~Busy
  /\ \E f \in {g \in Files : card[g] # 0} :
       picked' = [is |-> "described", files |-> {f}, at |-> time]
  /\ Meddle /\ UNCHANGED <<card, ledger, deck, seen, running, sweep, primed, time>>

ConfirmPick ==
  /\ picked.is = "described" /\ ~Busy
  /\ picked' = IF time - picked.at > Ttl THEN [picked EXCEPT !.is = "none", !.files = {}]
               ELSE [picked EXCEPT !.is = "removing"]
  /\ UNCHANGED <<card, ledger, deck, seen, running, sweep, primed, time, meddled>>

\* One file after the other, and no word to the ledger.
RemovePicked ==
  /\ picked.is = "removing"
  /\ \E f \in picked.files :
       /\ card' \in {card, [card EXCEPT ![f] = 0]}
       /\ picked' = [picked EXCEPT !.files = @ \ {f},
                                 !.is = IF picked.files = {f} THEN "none" ELSE @]
  /\ UNCHANGED <<ledger, deck, seen, running, sweep, primed, time, meddled>>

\* The recorder gives a token, takes it back, and erases the card when it is quoted.
Format ==
  /\ \/ primed = "no" /\ ~running /\ Meddle /\ primed' = "given" /\ UNCHANGED card
     \/ primed = "given" /\ primed' = "no" /\ UNCHANGED <<card, meddled>>
     \/ primed = "given" /\ ~running /\ primed' = "quoted" /\ UNCHANGED <<card, meddled>>
     \/ primed = "quoted" /\ primed' = "no" /\ card' = [f \in Files |-> 0] /\ UNCHANGED meddled
  /\ UNCHANGED <<ledger, deck, seen, running, sweep, picked, time>>

LibNext ==
  \/ RunStarts \/ StartRecording \/ StopRecording \/ RunIsOver \/ ByHand \/ StatePushed \/ Elapse
  \/ Pick \/ ConfirmPick \/ RemovePicked \/ Format
  \/ \E s \in Sweeps : Ask(s) \/ Prepare(s) \/ Confirm(s) \/ NextFile(s) \/ RemoveFile(s)

LibSpec == LibInit /\ [][LibNext]_libVars

-----------------------------------------------------------------------------
\* Properties

\* "A row marked deleted for a file still on the card is a lie the next sweep cannot
\* detect": whatever sweeps, operators and recordings do to the names meanwhile, footage
\* whose row is marked is gone. (Of a recorder that tells the names it chose.)
DeletedIsGone == \A r \in Footage : ledger[r].is = "deleted" => ~OnCard(r)

\* However many sweeps are under way on lists of different ages, a sweep that marks a row
\* leaves the newest KeepLast rows behind it.
NewestRowsStay ==
  [][\A r \in Footage :
       ledger[r].is # "deleted" /\ ledger'[r].is = "deleted" =>
         Cardinality({q \in Footage : q > r /\ ledger[q].is \in {"open", "closed"}}) >= KeepLast]_libVars

\* What retention.ts says, and the code does not do: the newest recordings on the card
\* stay, whatever the dates say.
NewestStay ==
  [][\A s \in Sweeps : RemoveFile(s) =>
       \A r \in Footage :
         OnCard(r) /\ ~OnCard(r)' =>
           Cardinality({q \in Footage : q > r /\ OnCard(q)}) >= KeepLast]_libVars
=============================================================================
