# Verification of stream-scheduler

TLA+ models of the scheduler that puts church services on air: the run engine and
its step executor, the timeline, the guard that keeps ticks apart, the calendar and
the plan source it follows, the connections and adapters of the encoders, YouTube
and Twitch, the outbox that tells people what went wrong, the ledger of recordings,
what operators keep at the desk, accounts, sessions, upgrades, backups, and the
browser that shows it all. TLC checks them on small instances; TLAPS proves type
invariants, invariants of the durable state and properties of steps for every value
of the constants. Paths below are relative to `packages/core/src/` unless they name
another package.

## 1. The system

A household or a church describes *event series* (a weekly service, its outputs,
its devices, its streaming accounts). They are materialised as *occurrences*, by a
rule or from a plan source. When the lead time of an occurrence is reached a *run* is
created for it: a list of *steps* committed to the database before any of them is
executed. A timer calls `tick()`, which advances every active run and looks after
everything else; operators press buttons that work on the same rows through the HTTP
API. Nothing but SQLite survives a restart, and what already happened at a streaming
service or in an encoder.

| Component | State it keeps | Operations | Interacts with |
|---|---|---|---|
| run lifecycle (`runs/state-machine.ts`, `store.ts`) | run, step rows | create, transition, mark* | every user of a run |
| run engine (`runs/engine.ts`) | none of its own; reads rows and clock | tick, advance, step, prepare, complete, fail, cancel, prepareNow, startNow, recover | executor, store, occurrence, notifier |
| step executor (`runs/executor.ts`) | attempt counter in memory | executeSteps, compensate*, reconcileRun | plan steps, store |
| event planner, timeline (`runs/`) | none | occurrence to steps; window of each output | devices, destinations, vault, overrides |
| scheduler loop (`app.ts`) | the flag and start of the tick in flight | start, tick, stop | everything that is looked after |
| occurrences (`schedule/`), plan sync (`plans/`) | occurrence rows, links | materialise, move, skip, reconcile, retire | series, engine, plan source |
| plan source (`plugin-planning-center`) | a token in two halves | list plans and times, types and folders | plan sync, settings |
| connection manager (`devices/`) | open instances, retry times | open, close, invoke, applyAndVerify, tick | adapters, planner, API |
| device adapters (`plugin-*`) | sockets, what was last read | connect, read, point, start, stop | devices |
| streaming services (`plugin-youtube`, `plugin-twitch`) | quota ledger, tokens | prepare, reconcile, discard, finalize | executor through the planner |
| accounts, destinations (`destinations/`, `api/oauth-routes.ts`) | account rows, vault | connect, refresh, remove | services, planner |
| notifier, preflight, telemetry (`notify/`, `runs/telemetry.ts`) | channels, outbox rows, pacing, samples | enqueue, flush, check, sample | engine, vault |
| recordings (`runs/artifacts.ts`, `retention.ts`, `sweep.ts`) | ledger of files | record, assess, sweep | planner, devices |
| outputs, tags, overlap (`events/`, `tags/`, `api/server.ts`) | rows | put, remove, tag, judge | engine, devices |
| authentication (`auth/`) | password, sessions, delays in memory | gate, login, change | API |
| database, backup (`db/`, `backup/`) | the file, its versions, copies, a staged restore | migrate, copy, stage, apply | everything |
| web interface (`packages/web`) | what it has read, one socket, drafts | read, show, save | API |
| templates, configuration, SDK, desktop, host, FTP | none whose order matters | render, resolve, start | |

### What is hard here

- **Interleaving.** The program is one event loop, but a tick that waits longer
  than its deadline is given up on and *goes on working* beside its successor
  (`app.ts:456`), and requests of several operators work on the same rows, devices
  and accounts while others wait for a device or a service.
- **Lost answers.** Creating a broadcast, refreshing a token, posting an alert and
  commanding an encoder are calls whose answer can be lost after they took effect.
- **Crashes.** Anywhere between two writes, between a write and a call, or between
  two changes to the disk.
- **Partial failure.** One output, one of the many requests of a reading, or one of
  the requests of a form fails, and the others were done.
- **Stale state.** Plans are rebuilt on every pass and matched to rows by position;
  sweeps work on lists read earlier; adapters answer from mirrors and memory;
  browsers show and save what they read before.
- **Time.** Windows are compared with a clock that may jump; wall times are skipped
  and doubled; budgets are per day, delays double, sessions expire.

The complete list, line by line, is under `hazards` in `PROJECT.json`, with the
properties that cover each one, or the reason why none does.

### What makes each component correct

- lifecycle, engine, executor: an ended run stays ended and its occurrence agrees;
  one broadcast per service and none the database has never heard of; a failure costs
  no other output its broadcast; what did not air is not completed; what started is told
  to stop; nothing is left on the channel or in the vault;
- scheduler loop: ticks take turns, and neither a tick that hangs nor one that throws
  stops the next;
- calendar: an operator's edit survives every pass; what is published, announced in
  the rule or withdrawn shows in the occurrences; no start is filled twice;
- connections and adapters: no socket leaks, settings take effect, a lost device comes
  back, what was verified is so, nobody waits for ever;
- services and accounts: announced once, ready means ready, the budget is kept, a
  rotating token is not lost;
- notifier and watch: every alert is delivered or given up for cause, none hides
  another, what is wrong with an event ahead is told;
- recordings: the ledger knows the files, a sweep takes the oldest and no others;
- desk, sessions, database: rows refer to rows, old passwords are signed out, no
  migration, copy or restore loses anything;
- browser: never back to what was true before, and a save changes what was changed.

## 2. The modules

| Module | Models | Built on |
|---|---|---|
| `RunStates` | the states of a run, the table of moves the store accepts, step rows | |
| `EventPlanner` | the list of steps of an event's stream outputs | `RunStates` |
| `Timeline` | window, start and end of each output, forced or planned | |
| `Broadcasts` | the channel as runs see it: what `prepare`, `reconcile`, `discard` find and leave | |
| `RunEngine` | one run from creation to end: engine, executor, rows, recovery, operators, edits, clock, faults, crashes | `RunStates`, `Timeline`, `Broadcasts` |
| `RunProperties`, `RunClaims` | what a run promises; what a comment says and the code does not do | `RunEngine`, `TickTurns` |
| `TickTurns`, `TickGuard` | abstract: ticks take turns; the flag, token and deadline of `App.tick`, refining it | |
| `Connections` | the map of open devices, backoff, and the chains that open, probe, command, change and delete | |
| `Outbox` | queueing, flushes that may overlap, retries, giving up, what the remotes have heard | |
| `Calendar` | occurrences of one series under a rule or a plan source, operators and the loop | |
| `Published` | a reading of Planning Center request by request, pages, folders, the two halves of a token | |
| `Library` | a recorder's card, the ledger, sweeps by the hour and by hand, the format | |
| `Desk` | devices, keys, events, outputs, tags, runs and commands by hand | |
| `Accounts` | connecting, destinations, rotating refresh tokens, the vault | |
| `Sessions` | password, sessions, gate and handler, delays after wrong attempts | |
| `Upgrade` | migrations 4 to 7 with their conversions, builds that come and go | |
| `Backup` | scheduled copies, downloads, staged restores, the salt, being killed | |
| `Watch` | pre-flight passes and the alarms of telemetry, with their keys | |
| `Reckoning` | clashes of outputs, wall times and ranges, names with tokens, as functions | |
| `YouTube`, `Twitch` | every call of the two plug-ins, against a budget, a channel and its owner | |
| `Magewell`, `Obs`, `ProPresenter`, `Hyperdeck`, `Encoders` | an adapter each (`Encoders`: ATEM, streaming encoder, vMix, mock) with its device | |
| `Screens`, `Forms` | a browser: the live channel, overlapping requests, sign-in; the forms | |
| `MCRun`, `MCOutbox`, `MCLoop`, `MCRecords`, `MCAdapters` | instances for TLC | all of the above |
| `RunRows` | how rows, run state, driver, vault and encoders keep in step: the inductive invariant behind the theorems about services, and what they take for granted of a plan | `RunProperties` |
| `RunProofs`, `RunServiceProofs`, `RunRowsProofs`, `RunStreamProofs` | proofs about the run engine, each built on the one before | `RunRows` |
| `LoopProofs`, `OutboxProofs` | proofs about guard and connections, outbox | the modules named |
| `RecordsProofs`, `AdaptersProofs` | proofs about the ten parts of `MCRecords`; about the adapters, services and browsers of `MCAdapters` | `MCRecords`, `MCAdapters` |

In every module the comment beside a variable names the column, field or device state
it stands for, and an action has the name of what the code calls it or of the event it
is. The finer points:

### RunEngine

*State.* `run`, `forced`, `row`, `ext`, `occ` and `told` are columns of the database
(`run.state`, `run.forced_at`, `run_step.state`, `run_step.external_id`,
`occurrence.status`, the outbox's dedupe keys) and survive a crash. `version` is the
version of the event that the database holds. `channel`, `encoder` and `vault` are the
world. `drv` is what a call chain remembers and loses in a crash.

*Drivers.* A driver is one asynchronous call chain working on the run: a tick or an
operator's request. Its `pc` says where it is:

| `pc` | code |
|---|---|
| `idle` | nobody |
| `step` | the `while` of `advance()`, before a pass of `step()` |
| `next` | the loop over outputs of `prepare()` and `cancel()` |
| `loop` | the loop over steps of `executeSteps()` |
| `call` | awaiting a step's `execute` (`sent`, `absent`: looked and found none, `landed`: done but not yet answered) |
| `failed` | a step has failed for good |
| `undo`, `undoing` | the loop of `compensateSelected()`, awaiting a `compensate` |
| `settle` | between the last transition of the run and the update of its occurrence |

*Actions.* `Pass` is one pass of `step()` with its branches in the code's order.
`NextStep`, `Call`, `LoopDone` and `StepFailed` are `executeSteps` and `executeStep`;
`Undo` is compensation. `Cancel`, `PrepareNow` and `StartNow` are the buttons;
`EditEvent` is an edit of the event's outputs; `Overrun` is a tick passing its
deadline; `Crash`, `Reconcile` and `Recovered` are a restart.

*Atomicity.* Node runs one chain until it awaits something outside. So a driver's
steps between two awaits are not interleaved with another driver's (`Quiet`); each
committed write is a step of its own all the same, because a crash may fall between
any two. The other modules draw the same line: one action is what happens between two
awaits, and a step that awaits is two actions or more.

*Abstractions.* Times are small integers, ids are numbers, broadcast 0 is a null
external id. The service starts and ends a broadcast when video comes and goes; the
other mode is in `YouTube`. Back-off times and messages are left out.

### TickGuard, Connections

`ticking`, `token` and `age` are `this.ticking`, `this.tickToken` and the time since
`this.tickStartedAt`. `Enter` is the guard, `Leave` the `finally`; a call may never
leave. The refinement maps a call to `going` while it owns the guard and is in time and
to `late` afterwards; `RunEngine`'s ticks obey the same `TickTurns`, so `RunEngine`
assumes of the guard exactly what `TickGuard` guarantees. In `Connections` a *chain* is a
pass of `tick()` or a request; `chain[c].pc` is the await it is at, `instance` records
the life of everything an adapter ever made, `raced` marks an instance opened while
another chain opened or changed the device. `SaysSo` is the set of devices whose `health()`
answers "disconnected" instead of rejecting: empty in `loop`, not in `claim_reconnect`.

### Outbox, Watch

`status`, `attempts`, `wait` and `born` are the columns of `notification_outbox`;
`flush` is what each call of `flush()` remembers, `heard` is the world. A flush begins when
the guard lets one in: when every flush under way belongs to a tick that was given up on
(`Overrun`). The test button sends beside the outbox and is left out. `Watch` queues under
the keys of `preflight.ts` and `telemetry.ts`; `told` holds the sets of problems that
were queued for an event, which nothing ever forgets.

### Calendar, Published, Reckoning

`slot` is keyed by the start, because `UNIQUE (series_id, scheduled_start)` makes it
one. `loop` is how far the pass of `tick()` is; an `INSERT` that the constraint refuses
ends the pass (`LosePass`). A reader holds in `reading` the plan it fetched until it
reconciles. The rows that `Reconciled`, `Materialized` and `Cleared` compute are those of
one transaction in the code. `Published` opens up what `Calendar` takes for one step:
`ReadPlans`, `ReadTimes`, `ReadTypes` and `ReadFolders` are one request each, `stood`,
`ever` and `calm` only record what was so while a reading went on. `Reckoning` compares
pure functions, translated from the code, with definitions of what they are to compute,
on every question within its bounds.

### Library, Desk, Accounts, Sessions, Upgrade, Backup

`Library` numbers footage in the order it was shot and keys the ledger by it; a sweep is
planned, confirmed and carried out file by file, each with a list that may be old. In
`Desk` a device is removed in two steps because closing its connection is awaited.
`Accounts` keeps an authorization (`flow`), a row, the token in the vault and any number of
opened instances that have read it; `good` is what the service takes. `Sessions` splits
every request at the gate. `Upgrade` has each migration as one transaction and lets any
build start next. `Backup` has a step for each change to the disk; `KillPoints` says
between which of them the process may be killed.

### Adapters, services, browser

Each is one adapter with one device: its requests, replies and notifications, answered
late, refused, lost or given up and carried out all the same. `Encoders` has
`applyAndVerify` against four kinds of status. `YouTube` has every call with its cost,
held against the ledger before it is sent and entered afterwards. `Twitch` has the
channel's one title, which runs and the owner write. `Screens` has one socket and one
screen; `Forms` has three pages.

## 3. The runs

| Run | Instance | Distinct states | Shows |
|---|---|---|---|
| `run_services` | three services, planned and forced, 2 faults: two hand one encoder over, the third airs beside them | 13,250 | `OnTarget`, `NotCutOff`, `StreamAccounted`, `CompletedMeansAired`, `ServiceKept`, `NoLitter`, `KeysGone` |
| `run_crash` | two services, a crash, a fault and an edit anywhere | 22,074 | `TypeOK`, `OneBroadcast`, `CallsMatchRows`, `EventuallyOver`, `StopIsTried` |
| `run_races` | an abandoned tick, its successor, an operator pressing any buttons (ticks symmetric) | 221,057 | `SettledAgrees`, `NoOrphan`, `TerminalIsFinal` |
| `loop` | four calls of `tick()`, a deadline of 3; or a device, a pass and a request of any kind, 2 troubles | 220,242 | `TakesTurns`, `NextTickComes`; `NoLeak`, `SettingsHold`, `BackoffRespected`, `Reconnects` |
| `outbox` | two alerts for a paced channel, two flushes, a lost answer, overrun, crash or lost secret | 243,233 | `TypeOK`, `AnnouncedOnce`, `SentMeansHeard`, `GivenUpForCause`, `EveryMessageSettles` |
| `adapters` | nine parts, see below | 663,949 | `AdaptersTypeOK`, `AdaptersKnow`, `EncodersAnswerRight`, `BroadcastReady`, `CallsComeBack`, `BrowsersKeepFaith` |
| `records` | ten parts, see below | 763,143 | `RecordsTypeOK`, `NothingDangles`, `AccessHolds`, `OperatorsWordStands`, `CalendarAgrees`, `SweepsAreSafe`, `FaultsAreTold`, `DatabaseSurvives` |

*Parts.* The modules behind `adapters`, `records` and `loop` share no state, so each of
these runs explores one of them at a time: `part` is chosen in the initial state, and the
steps are those of that module with the variables of the others unchanged. This is a
union of models and not a product; where modules do meet (a run and its broadcast, a
tick and its guard) they are composed in `RunEngine`. Their properties are conjunctions:

| Property | Conjuncts |
|---|---|
| `AdaptersKnow` | ProPresenter `SaysWhatItDoes`, HyperDeck `CodecKnown`, OBS `LedgerHasTheFile` |
| `EncodersAnswerRight` | `VerifiedIsReal` (ATEM, streaming encoder, vMix, mock), Magewell `NobodyLeftEncoding` |
| `BroadcastReady` | YouTube `AnnouncedOnce`, `ReadyHasStream`, `Overspent`; Twitch `ReadyIsPointed`, `OnlyCallsFail`, `TitleStands` |
| `BrowsersKeepFaith` | `NeverBackwards`, `KeepsUp`, `RefusedAsksAgain`, `OneSocket`; `HeldStill`, `LastWordStands`, `RevertedIsAttached`, `RuleKept` |
| `NothingDangles` | `TagsHaveOwners`, `OutputsStand` |
| `AccessHolds` | `NobodyLockedOut`, `NoStrayToken`; `SignedOut`, `SeededOnce`, `GuessesBounded` |
| `OperatorsWordStands` | `EditKept`, `FrozenKept` |
| `CalendarAgrees` | `CalendarAgrees` of Calendar; `WallTimeIsKept`, `RangeIsComplete`; `ReadingIsTheShelf`, `TreeIsWhole`, `HalfIsNone` |
| `SweepsAreSafe` | `DeletedIsGone`, `NewestRowsStay` |
| `FaultsAreTold` | `StandingFaultsAreTold`, `AlarmedOnAir`; `ClashesAreTold`, `NamesAreFilledIn` |
| `DatabaseSurvives` | `UpgradeKeeps`, `OldPlansEnd`; `NothingLost`, `SecretsReadable`, `LatestCopyStays` |

*Bounds of the runs of a service.* Two outputs are what it takes for one to harm another,
three for a hand-over beside a bystander. A second attempt (`MaxAttempts` 2, 3 in the
code) is a retry; with two faults a step fails for good. One crash falls anywhere,
including in the retry that follows a fault. `MaxBroadcasts` is one more than an instance
can need, so that a superfluous broadcast would show, and is never what disables a step.
The clock runs past the end of every window and may jump over one.

*Bounds of the parts.* Two of whatever can get into each other's way (sweeps, hands,
instances of an account, outputs of a Magewell, callers of an encoder, runs on a channel,
editors, browsers), and one of what is only acted upon. `MaxChanges`, `MaxEdits`,
`MaxMeddling`, `MaxUpsets`, `MaxPlanned` and the like bound what people do, 1 to 3 acts
each; `MaxTrouble`, `MaxMishaps`, `MaxBreaks`, `MaxLost` and `MaxKills` bound what goes
wrong. Four days hold an occurrence in the past, one on air, one inside the horizon and one
beyond it. `FreeAttempts` 1, `MaxDelay` 2 and a clock of 3 let a delay double and be capped
(5 and a minute in the code). A budget of 12 units with a reserve of 5 runs out in every
phase of preparing; `MaxDays` brings the next. Three service types in two folders with pages of two
need a second page and a nested folder; three plans of which a reading takes two (25 in the code)
need its bound. `MaxTitle` 2 (140) and texts of up to three characters, of which blanks are one,
need the cut, the ellipsis and the trim. Tokens, ids and versions are counted up to a bound that
disables what would issue more.

*Constants that choose a world.* `Told`: the recorder tells the names it chose.
`Reports`: ProPresenter says where its capture goes. `Patient`: the operator of a form waits
for a save before typing on. `Hasty`: somebody signs in again before the last socket has
closed. `Odd`: Planning Center answers 200 with a body of another shape. `KillPoints` omits two
moments: between swapping a restored file in and writing its salt, and between a second
upload and its marker (`Careful` in the proofs). Each is set in `.cfg` to the
world in which the properties hold; section 4 says what happens in the other.

*Constraint.* `run_races` leaves out states in which three chains of calls advance the run at
once (`MCTwoAdvance`): "start now" advances the run like a tick does, so that two at a time,
with the marks and cancellations of a third, show every pair. Each tick and each button still
meets each other one; the three properties are also proved, without it (section 5).

*Symmetry.* `run_races` permutes the two ticks. It checks no liveness, and no constant
tells them apart. Nothing else uses symmetry.

*Fairness.* `WF(Work(d))`: `setInterval` brings another tick, adapters bound every
call by a time-out and the executor bounds attempts, so a call chain that can go on does.
`WF(Clock)`: time passes. `WF(Reconcile)`, `WF(Recovered)`: a crashed program is started
again and `recover()` is a bounded loop. No button, edit, fault or crash is ever fair. In
`TickGuard` the timer and the clock are fair, and nothing makes a call come back. In
`Connections` chains advance (every call has a time-out), the timer begins passes, and
backoffs elapse. In `Outbox` the timer brings flushes, remotes answer or time out, and the
clock goes on; nobody repairs a secret in fairness. In `Hyperdeck` the adapter sends what is
next, its ten seconds go by, and a script that is through returns; the deck is never
fair.

*Deadlock* is checked where the system never stops by itself; the cfg of `outbox`, `loop`,
`adapters` and `records` says `CHECK_DEADLOCK FALSE` because bounded people, faults and
clocks leave nothing to do at the end.

*What the properties leave out on purpose.* `NoLitter` speaks of runs without faults,
because compensation is best effort; `StreamAccounted`, `NoLitter` and `KeysGone` are
checked without crashes, because the model shows what happens with one: an encoder caught
starting is not asked, and its stream is not stopped once the grace has passed; a crash
between the two halves of `markMissed` leaves a broadcast; `StopIsTried` excepts edited
events, which the code fails without stopping what is on air. `SignedOut` excepts a program
that stopped between writing a password and revoking its sessions, which are two statements
without a transaction. `NobodyLockedOut` excepts a lost answer, which no client of a rotating
token can survive.

*Mutants.* Every property of a passing run has mutant definitions beside the definitions
they replace (marked "Mutant"): the guard dropped, the wrong phase taken, the row left
unmarked and so on; a conjunction has one for most of the modules behind it. TLC finds the
property violated under the same configuration.

## 4. Where the code and its words disagree

Each of the first five has a run whose counterexample shows it.

- `claim_cancel` The stop button is pressed while the call that starts the encoder is in
  flight. The output counts as pending, so nothing is stopped; the run is `cancelled`, the
  call lands, and the encoder streams on (`runs/engine.ts:547`, against the comment at 541).
- `claim_poison` The secret of one channel cannot be revealed. `channelFor` throws outside
  the `try`, so every flush ends at that channel's oldest alert and no newer alert of any
  channel is ever sent (`notify/notifier.ts:162`).
- `claim_reconnect` The adapters answer `health()` with "disconnected" rather than reject,
  and `tick()` drops a connection only when it rejects: the device is never connected again
  until somebody edits it or a command fails (`devices/connection-manager.ts:360`).
- `claim_loop` From the start of a service to its end the hourly pass inserts its occurrence
  a second time and throws, so that no pass of the scheduler gets to the engine while the
  service is on air (`schedule/materialize.ts:74`).
- `claim_backup` A database that was restored can never be backed up again: its copy already
  has the table of the manifest (`backup/index.ts:122`).

Seen while modelling, without a run (a formula or a constant of the named module shows it to
whoever puts it into a configuration):

*Runs.* When the only aired output fails to stop, the run fails with `nothing_aired` and its
broadcast is discarded (`runs/engine.ts:327`, `docs/plan/03-scheduling-engine.md:101`).
"Prepare now" twice, both look before either has created. Switching a second service off
discards the broadcast on air of the first. After such an edit `cancel()` runs the edited
plan's stop steps by position and leaves the encoder on. A run cancelled on air keeps its
stream key in the vault (`runs/event-planner.ts:262`). Two outputs of one run that fail share
a dedupe key, and the second failure is told to nobody (`notify/run-events.ts:40`). An encoder
that would not stop streams on; the next service's start on it is a verified no-op, and its broadcast
never goes live although it counts as delivered (`FreshEncoders` rules it out).

*Calendar.* An occurrence prepared early by "prepare now" is still moved by a sync
(`Calendar!NothingMovesOncePreparing`). A moved occurrence's old start is filled again
by the next pass (`MovedIsNotDoubled`). Two services whose times are swapped never converge. A
reading in flight while a series is unpaired writes the plan's rows again.

*Planning Center.* A 200 of another shape is an empty list (`api.ts:387`), which a sync takes
for "everything withdrawn" and deletes pending occurrences (`Odd`; against `plans/sync.ts`: "an
unreachable Planning Center must never empty a calendar"). Plans past the first 25 are never
asked for. A plan withdrawn between the list and its times fails the whole reading.

*Devices.* One Magewell output that ends may take another off the air that is just starting
(`Magewell!OthersStayOnAir`). A ProPresenter that does not report its destination reads a
leftover url as a stream (`ProPresenter!LeftoverIsNoStream`). A HyperDeck drops notifications
that come while it emits. An ATEM connection that times out leaks its client; its recording quality is
that of the stream's encoder. Two connections opened at once leak one; an open in flight while
settings change keeps the old ones. A sweep goes on file by file after the deck has started to
record (`runs/sweep.ts:169`); rows of files removed by hand count among the newest that are kept
(`Library!NewestStay`); for a recorder that does not tell its names a prefix may match a newer one.

*Services and accounts.* The reserve does not serve a broadcast that begins with a listing, which
is not critical (`YouTube!ReserveServes`, against `quota.ts:36`); a discard is not critical
either, so an orphan stays. Twitch's next service retitles a channel that is still on air. A
YouTube destination with a playlist cannot be saved: `playlistId` has no `choices`, and
`validateConfig` refuses what is not among them (`plugin-sdk/src/config-fields.ts`). With two OAuth
clients a refresh in flight while a channel is reconnected writes its own token back
(`NobodyLockedOut` needs one client).

*Desk.* Deleting a series cascades over a live run, and its encoder is nobody's
(`Desk!NobodysDevice`). A command by hand checks before it awaits (`HandsOff`). A device whose
removal is refused by a foreign key has lost its tags already.

*Telling.* An event that is deleted during the hourly pre-flight makes `check()` throw and ends the
pass; a set of problems told once is never told again when it comes back; keys made of labels
are shared by two devices of one name. What was queued is sent though its channel was switched
off; an unreachable webhook is given up after two tries like one that rejects.

*Reckoning.* Overlap is judged by stored lengths, not by those that follow the window. A token
that is not closed stays in the name without a warning. A rule with more than 65 results in the two
padded days has no next occurrence, and a service longer than two days that is under way is lost.

*Backup.* Killed between the swap and the salt, the restored secrets are unreadable for good
(`backup/index.ts:311`). A second upload cut short leaves the first one's marker with a file nobody
has looked at. The log of the database moved aside is deleted. A backup of a newer build is
staged and every start fails. A graph that names a deleted device aborts the upgrade at every start.

*Browser.* Typing another time while a save is in flight, or after one that failed half-way, holds
outputs at the wrong times (`Patient`). An output edited in the panel meanwhile is overwritten. A
"third Sunday" rule whose first date is in another week is rewritten when the event is opened and saved.
Signing in before the last socket has closed leaves two (`Hasty`). Choosing another backup while the
first is inspected shows the first one's description.

## 5. What is proved

`tlapm` checks every obligation. The theorems hold for any number of whatever the modules
count, under the assumptions that each module names for its constants (`EngineAssumption`,
`ConnectionsAssumption`, `CalendarAssumption` and so on: types, what is finite, the shape of
plans and pipelines), which TLC evaluates on every run. Some theorems take more for granted, and
say so in their statement; the tables below say why.

### The run, whatever the scheduler does

- `RunProofs!TypeCorrect`: `Spec => []TypeOK`. `TypeOK` is not inductive: a driver at a call
  looks its step up in the plan it started with. `Placed` says that a driver inside a loop holds
  a position of that plan, and of the rows once its call is made; `WellTyped == TypeOK /\ Placed`
  is inductive, one lemma per action.
- `RunProofs!EndedStaysEnded`: `TerminalIsFinal`. Whoever still works on an ended run, the store
  accepts no move out of a terminal state.
- `RunProofs!OccurrenceFollowsRun`: `[]SettledAgrees`. `DriversOrderly` is the strengthening: a
  driver at `settle` carries the very state the run has ended in.
- `RunProofs!TicksInTurn`: the engine's ticks implement `TickTurns`.
- `RunProofs!NothingUnknown`: without edits, `[]NoOrphan`. The strengthening `Known` says that a
  driver about to create a broadcast has marked its row (`RowsAdmit`), and that rows are never
  unmarked as long as a broadcast may exist. With edits it is false: recovery then asks for
  another output's broadcast by position.
- `RunServiceProofs!CallsAreOfTheirRows`: `[]CallsMatchRows`, with edits, crashes and overlapping
  ticks. `DriversFaithful` says that whoever runs the steps of a phase read them from a plan that
  agrees with the rows, because `step()` fails a run that has drifted before it does anything
  else. It takes for granted that nobody presses "prepare now" or "cancel", which do not look:
  after an edit they run another plan's steps by position (section 4).

### Services, while one scheduler drives them

What a run owes its services depends on who else is at work, so these theorems name their
hypotheses. TLC evaluates them for the plans and instances of `MCRun` (`MCPlansAreWellMade`,
`MCOneScheduler`), and each leaves out what section 4 shows to go wrong:

| Hypothesis | Says | Without it |
|---|---|---|
| `Alone` | one tick at a time, no operator | two chains both look before either creates; every property below fails |
| `SlotsOnce` | no two prepare steps with one title and start | the second adopts the first's broadcast |
| `WellPlanned` | an output has one pointing, one start and one stop, in order; what is prepared is finalized | `event-planner.ts` makes every plan so |
| `Undisturbed` | the three above, and no edits | recovery and drift work by position on another output's rows |
| `Uncrashed` | `Undisturbed` without crashes | an encoder caught starting is reset without being asked |
| `Kept` | `Uncrashed`, and no two outputs with one title and start | an edit, or two faults around a crash, discard what is on air |
| `HandedOver` | whoever starts on an encoder does so after the ones before are to have stopped | with a postroll longer than the gap one service takes the encoder from another |
| `Turned` | `Undisturbed` and `HandedOver`; crashes and faults are included | |
| `Fresh` | `Turned` and `FreshEncoders`: an output with a broadcast of its own takes no encoder over | after a stop that failed, the next start on that encoder is a no-op and puts nothing on the air |
| `Tended` | `Uncrashed` and `HandedOver` | a crash between the two halves of `markMissed` leaves a broadcast |

- `RunServiceProofs!OneBroadcastEach`: `[]OneBroadcast` under `Alone` and `SlotsOnce`, with edits,
  crashes and lost answers. `CallsRight` says that a call which has looked and found none finds none
  until it creates, and that one which has landed knows a broadcast of its own title and start;
  `RowsRight` that a prepare row which is done does as well, unless an edit has shifted
  the rows; and whatever went on air is backed by a row that knows it, so that a broadcast which
  nobody can find any more is never put back on the channel.
- `RunRowsProofs!NoKeyLeft`: `[]KeysGone` under `Undisturbed`, crashes and faults included. A key is
  stored by one call, cleared by two, and the run may end in three ways; `InStep` says what the place
  a driver is at, the rows and the run's state say of each other (a loop leaves done rows
  behind, an output's rows are done in the order of its plan, a run that completes is through with
  every output), and with them that a stored key always has a prepared row that is yet to be
  finalized or undone. `InStep` is what all theorems below are built on.
- `RunStreamProofs!StreamsAccountedFor`: `[]StreamAccounted` under `Uncrashed`. `InStream` says of
  every encoder that streams which step started it, and that nothing of a finished run is on.
- `RunStreamProofs!ServicesAreKept`: `[]ServiceKept` under `Kept`. `Clean` says that an undo for one
  output's sake finds something to discard only if that output failed to start; `ErasedKnown` that
  what people had watched is discarded with its run or when it had not started.
- `RunStreamProofs!EncodersOnTarget`, `NothingIsCutOff`: `[]OnTarget` and `NotCutOff` under `Turned`.
  `InTurn` says that nothing of an output is pointed or started until those before it on its
  encoder are stopped or lost, that an output whose broadcast was discarded is not started again,
  and that until it is through the encoder points where it was pointed. That a window is over
  before the next one opens is arithmetic over `Timeline`; that what is missed is never resumed
  when the clock jumps is `Abandoned`.
- `RunStreamProofs!CompletedHasAired`: `[]CompletedMeansAired` under `Fresh`. `GoodFits` leads from a
  completed run to an output that was stopped, `RowOrder` from its stop to its start, and
  `StartsAired` from a start to a broadcast that went out. A start puts it on the air only if the encoder
  was off, points at it and the broadcast is still to come: `ActiveAired` says whose broadcast is on the air
  when an encoder is on, `InTurn` where it points, and `GoneLost` that an output whose broadcast was discarded
  unwatched is not started any more.
- `RunStreamProofs!NothingIsLeftOver`: `[]NoLitter` under `Tended`, also where an encoder is handed over
  to an output with a broadcast. `Tidy` is an invariant for as long as the faults are all left: only starts
  that came too late fail (`FewFail`), an encoder that streams was started by a step that has not been
  stopped (`OnlyStarted`), a done prepare row has its broadcast on the channel until it is undone
  (`PreparedStands`, `UndoneIsOff`), and whoever did not start, or belongs to a run that fails, is being
  undone (`FailedUndone`). `NoOrphan` gives an upcoming broadcast a row; `Tidy` leaves that row no state
  to be in.

### The parts beside the run

- `LoopProofs!TickGuardHeld`, `GuardTakesTurns`: the guard's invariant and the refinement of
  `TickTurns`, for any number of calls and any deadline.
- `LoopProofs!NothingLeaks`, `SettingsTakeEffect`: `[]NoLeak` and `[]SettingsHold` of `ConnSpec`, which
  is the part "connections" of the run `loop`, for any devices, chains and instances. The
  strengthening `ConnInv` gives every live instance one owner, the map or the one chain that has
  just opened it, and says that a chain which opens a device nobody else opens or changes meanwhile
  holds its current settings.
- `LoopProofs!HeldIsUsable`: what the map holds is live, so no command goes to a closed adapter.
- `LoopProofs!BackoffIsRespected`: `BackoffRespected`. A pass works on the list of devices that were ripe
  when it began; the strengthening `RipeIsOver` says that whoever is still on such a list has no time
  left to wait, because a failure that is noted takes the device off it.
- `OutboxProofs!OutboxTypeCorrect`, `SentIsHeard`, `NothingGivenUpLightly`: for any channels,
  alerts, caps, batch and overlapping flushes. The strengthening `Honest` says that a flush whose
  message has landed has been heard (`Received`) and that no count of attempts exceeds the errors
  so far (`Counted`).
- `OutboxProofs!ToldOnce`: `[]AnnouncedOnce`, for finitely many flushes. `Balanced` keeps an
  account: what has been heard, plus the flushes that bear the message (`Bearers`), plus one if it
  is pending and in the hand of no flush in time (`Owing`), is at most one and the mishaps.

### The records

The theorems of `RecordsProofs` are about `RecordsSpec`, and state the properties of the run
`records` themselves. Each of its ten parts has an invariant of its own, and a step of
`RecordsNext` is a step of one part (`StepOfDesk` and so on).

| Hypothesis | Says | Without it |
|---|---|---|
| `OneClient` | all channels are connected with one OAuth client | a refresh in flight writes the token of the other client back (section 4) |
| `Told` | the recorder tells the names it chose | a prefix may match a newer file |
| `Careful` | the program is not killed between two files that have to agree | restored secrets are unreadable |
| `~Odd` | every answer of Planning Center is a list | what is no list reads as an empty one |

- `RecordsTypeCorrect`: `[]RecordsTypeOK`.
- `NothingIsLeftDangling`: `[]NothingDangles`. No tag is orphaned because the last statement of a
  removal clears tags and deletes the row between two awaits.
- `AccessIsKept`: `[]AccessHolds` under `OneClient`; `AccessIsKeptByAnyClients`: all of it but
  `NobodyLockedOut` for any clients. That a token in the vault is good says nothing of a
  refresh by another instance of the account, so `Owned` says that tokens belong to one account and
  only its instances hold them, `WaitingIsGood` that a new token on its way is good and held
  nowhere else, and `Answered` and `Issued` that no token is used before it was issued. `DoorInv`
  says of the sessions that they are of the current password whenever nothing is being served
  (`LiveIsCurrent`), and of a guesser (`Slowed`) that the delays so far, which double and are capped,
  have gone by since the first of the attempts.
- `SweepsDoNoHarm`: `SweepsAreSafe` under `Told`. A sweep goes by a list that may be as old as it
  likes, so `PlansKeepNewest` says of every row on a list that it is closed or gone and has enough
  newer ones behind it *now*; when rows are marked in between, those of a list that is older may
  only be marked after the newer ones of it. `NamesAreKnown` ties row, file and list together.
- `DatabasesSurvive`: `DatabaseSurvives` under `Careful`; `RestoresLoseNothing`: the same without it
  but for the secrets. `ConversionKeeps` and `BackfillKeeps` compare what a pipeline drives with what
  its outputs drive, for any pipeline; `BackupInv` says at each place between two changes to the disk
  which file holds the data (`Placed`) and which salt goes with it (`Salted`).
- `FaultsDoGetTold`: `FaultsAreTold`. `WatchInv` relates what a pass has found and what it has yet to
  look at to what was wrong all the while; `ClashesTold` and `NamesFilledIn` are about the functions,
  for any two windows and any template.
- `OperatorsHaveTheLastWord`: `OperatorsWordStands`. `Spares` is kept by each operator that computes
  rows (`Removed`, `Materialized`, `Followed`, `Reconciled`), and so by any number of them in a row.
- `TheHourlyPassAgrees`, `ClocksOnTheWallAreKept`, `ReadingsAreTheShelf` (under `~Odd`) and
  `HalfATokenIsNone`: four of the six conjuncts of `CalendarAgrees`. `ReadingInv` says of a reading
  that every time which stood so far is read, or of a plan still to be asked, or not to be read at all.
  Wall times are arithmetic: an offset is less than the day by which the zone is probed.

Recursive functions (`Doubled`, `Delays`, the reconciling of one service after another) are proved
about by induction over the sets of numbers they reach: `AllNumbers` (a set that has 0 and with n
has n + 1 is `Nat`) and `Recursion` (what is defined by its value before is a function) need no
operator as a parameter.

### The adapters, services and browsers

`AdaptersProofs` is about `AdaptersSpec`, in the same way.

- `AdaptersDoKnow`: `[]AdaptersKnow` under `Reports` (ProPresenter says where its capture goes; without
  it a leftover url reads as a stream). The strengthenings relate mirror, memory and device through every
  reply on its way: a reply that is yet to come says what the device has, or somebody has moved it since.
- `EncodersDoAnswerRight`: `[]EncodersAnswerRight`, for any encoders, callers and outputs.
- `BroadcastIsReady`: `[]BroadcastReady`, for any runs, settings, budget and texts. Of YouTube the
  strengthening says which broadcast a run would find by its title, which stream it is bound to,
  and, of the ledger, that what is spent and what is under way keep to the limit; of Twitch, that a title
  is cut to what is accepted and never ends in a blank.
- `BrowsersDoKeepFaith`: `BrowsersKeepFaith` under `~Hasty` (nobody signs in before the last socket has
  closed; otherwise a second socket stays open) and `Patient` (operators wait for an answer and repeat a
  save that failed; otherwise outputs move that were to stay). `ScreensInv` orders the answers: only one
  request of a kind is wanted (`OneWanted`), its answer is as new as what is shown and as what the screen
  was promised (`Trusted`, `OfThePast`), a refused screen has asked who is signed in (`Knocking`), and
  a socket is the current one or being closed (`Plugged`). `EventInv` says of a save that it works from
  what was read before the series moved, `OneInv` that what is sent of a form is where it differs from
  what its editor last saw, `RuleInv` that a form remembers the rule it was opened with.
- `AdaptersTypeCorrect`: `[]AdaptersTypeOK`, with no hypotheses.

*Only model-checked*: what the run engine promises its services while operators or overlapping ticks
are at work too; and of `CalendarAgrees` the two parts that go over lists, `TreeIsWhole` (paths of folders, page by page) and `RangeIsComplete` (dates in order up to
a cap). Out of the prover's reach: liveness under fairness and `ENABLED` (`EventuallyOver`, `StopIsTried`,
`NextTickComes`, `Reconnects`, `CallsComeBack`, `EveryMessageSettles`), and what a definition by recursion
over data computes (`PlanFor`, `PathOf`).

## 6. What is not modelled

`PROJECT.json` lists every component with its status. Left out for good: wire protocols and their
parsing, the wording of alerts, views that only show what they have read, packaging, configuration,
the file transfer's protocol, the fake servers of the tests. Left for later:

1. `RunLifecycle`: the abstract promise of a run, refined by `RunEngine`.
2. Several runs side by side in one engine, further attempts, and one occurrence whose planning
   throws (`runs/engine.ts:107`).
3. Recordings among the steps of `RunEngine`, beside the ledger of `Library`.
