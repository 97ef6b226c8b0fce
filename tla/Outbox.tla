------------------------------- MODULE Outbox -------------------------------
(***************************************************************************)
(* The notifier (notify/notifier.ts): alerts are rows of a durable outbox,  *)
(* one per channel that wants them, and a flush at the end of every tick    *)
(* sends what is due. A send waits for a remote; meanwhile its tick may be  *)
(* given up on, and the next one flushes beside it.                         *)
(***************************************************************************)
EXTENDS Integers, FiniteSets

CONSTANTS
  Channels, Keys,   \* notification channels; dedupe keys of what there is to tell
  Messages,         \* the pairs <<channel, key>> whose event the channel subscribed to
  Paced,            \* channels with a minIntervalMs
  Ticks,            \* the flushes that may be in flight at once (bound)
  Batch,            \* BATCH
  MaxAttempts,      \* MAX_ATTEMPTS, of a message that fails for a passing reason
  MaxRejected,      \* 2 in the code, of one that the remote rejects
  MaxBackoff,       \* MAX_BACKOFF_MS over BASE_BACKOFF_MS
  RetryAfter,       \* the delays a remote may ask for
  MaxMishaps        \* bound: lost answers, abandoned ticks and crashes together

ASSUME OutboxAssumption ==
  /\ Messages \subseteq Channels \X Keys
  /\ Paced \subseteq Channels
  /\ Batch \in Nat \ {0} /\ MaxBackoff \in Nat \ {0} /\ MaxMishaps \in Nat
  /\ MaxRejected \in Nat \ {0} /\ MaxAttempts \in Nat /\ MaxRejected <= MaxAttempts
  /\ RetryAfter \subseteq Nat
  /\ IsFiniteSet(Ticks)

VARIABLES
  present,    \* the channels that have a row in notification_channel
  unreadable, \* the channels whose secret the vault cannot reveal
  cooling,    \* the channels whose last_sent_at is within their interval
  status,     \* [Messages -> ...], notification_outbox.status, "none" without a row
  attempts,   \* [Messages -> Nat], notification_outbox.attempts
  wait,       \* [Messages -> Nat], next_attempt_at - now of a pending row, no less than 0
  born,       \* [Messages -> Nat], the order of created_at
  latest,     \* created_at of the newest row
  flush,      \* [Ticks -> what a flush remembers]
  heard,      \* [Messages -> Nat], how often the remote has received the message
  setbacks,   \* [Messages -> Nat], how many sends of the message came back as errors
  rejected,   \* the messages of which one of those errors was not a passing one
  mishaps     \* how many of those so far

rows == <<status, attempts, wait, born, latest>>
world == <<heard, setbacks, rejected>>
settings == <<present, unreadable>>
vars == <<settings, cooling, rows, flush, world, mishaps>>

\* pc "walk": between two sends of the batch; "sending", "landed": awaiting the
\* remote, which has not or has received the message. late: given up on by the guard.
\* seen: the attempts of the batch's rows as they were read.
None == <<>>
Flush == [pc : {"idle", "walk", "sending", "landed"}, todo : SUBSET Messages,
          seen : [Messages -> Nat], at : Messages \cup {None},
          done : SUBSET Channels, late : BOOLEAN]

TypeOK ==
  /\ present \subseteq Channels
  /\ unreadable \subseteq Channels
  /\ cooling \subseteq Channels
  /\ status \in [Messages -> {"none", "pending", "sent", "failed"}]
  /\ attempts \in [Messages -> Nat]
  /\ wait \in [Messages -> Nat]
  /\ born \in [Messages -> Nat] /\ latest \in Nat
  /\ flush \in [Ticks -> Flush]
  /\ heard \in [Messages -> Nat]
  /\ setbacks \in [Messages -> Nat] /\ rejected \subseteq Messages
  /\ mishaps \in 0..MaxMishaps

Zero == [m \in Messages |-> 0]
Idle == [pc |-> "idle", todo |-> {}, seen |-> Zero, at |-> None, done |-> {}, late |-> FALSE]

Init ==
  /\ present = Channels
  /\ unreadable = {} /\ cooling = {}
  /\ status = [m \in Messages |-> "none"]
  /\ attempts = Zero /\ wait = Zero /\ born = Zero /\ latest = 0
  /\ flush = [t \in Ticks |-> Idle]
  /\ heard = Zero /\ setbacks = Zero /\ rejected = {}
  /\ mishaps = 0

\* Node runs a flush until it awaits a send: nothing else happens during a walk.
Quiet == \A t \in Ticks : flush[t].pc # "walk"

-----------------------------------------------------------------------------
\* What is queued.

\* Mutant: INSERT OR REPLACE.
QueuedAnew(k, enabled) == {m \in Messages : m[2] = k /\ m[1] \in enabled}

\* INSERT OR IGNORE: the unique key keeps what was announced from being told again.
Queued(k, enabled) ==
  {m \in Messages : m[2] = k /\ m[1] \in enabled /\ status[m] = "none"}

\* Which channels are switched on is up to the settings screen at any time, and
\* matters here only: what is queued is sent whether or not its channel is on.
Enqueue(k, enabled) ==
  /\ Quiet /\ Queued(k, enabled) # {}
  /\ status' = [m \in Messages |-> IF m \in Queued(k, enabled) THEN "pending" ELSE status[m]]
  /\ attempts' = [m \in Messages |-> IF m \in Queued(k, enabled) THEN 0 ELSE attempts[m]]
  /\ wait' = [m \in Messages |-> IF m \in Queued(k, enabled) THEN 0 ELSE wait[m]]
  /\ born' = [m \in Messages |-> IF m \in Queued(k, enabled) THEN latest + 1 ELSE born[m]]
  /\ latest' = latest + 1
  /\ UNCHANGED <<settings, cooling, flush, world, mishaps>>

\* The foreign key's ON DELETE CASCADE takes the channel's rows with it.
Remove(c) ==
  /\ Quiet /\ c \in present
  /\ present' = present \ {c}
  /\ status' = [m \in Messages |-> IF m[1] = c THEN "none" ELSE status[m]]
  /\ attempts' = [m \in Messages |-> IF m[1] = c THEN 0 ELSE attempts[m]]
  /\ wait' = [m \in Messages |-> IF m[1] = c THEN 0 ELSE wait[m]]
  /\ born' = [m \in Messages |-> IF m[1] = c THEN 0 ELSE born[m]]
  /\ cooling' = cooling \ {c}
  /\ unreadable' = unreadable \ {c}
  /\ UNCHANGED <<latest, flush, world, mishaps>>

\* A backup restored under another master key: the secret is there, unreadable.
LoseSecret(c) ==
  /\ Quiet /\ c \in present /\ c \notin unreadable
  /\ mishaps < MaxMishaps /\ mishaps' = mishaps + 1
  /\ unreadable' = unreadable \cup {c}
  /\ UNCHANGED <<present, cooling, rows, flush, world>>

\* update(), with the secret entered again.
EnterSecret(c) ==
  /\ Quiet /\ c \in unreadable
  /\ unreadable' = unreadable \ {c}
  /\ UNCHANGED <<present, cooling, rows, flush, world, mishaps>>

-----------------------------------------------------------------------------
\* One flush.

\* Mutant: what has failed once is not due again.
DueOnce == {m \in Messages : status[m] = "pending" /\ wait[m] = 0 /\ attempts[m] = 0}

Due == {m \in Messages : status[m] = "pending" /\ wait[m] = 0}

\* ORDER BY created_at LIMIT BATCH.
Batches == {b \in SUBSET Due :
  /\ Cardinality(b) = (IF Cardinality(Due) < Batch THEN Cardinality(Due) ELSE Batch)
  /\ \A m \in b, n \in Due \ b : born[m] <= born[n]}

\* The guard of the tick lets one flush in beside those that were abandoned.
BeginFlush(t) ==
  /\ Quiet /\ Due # {}
  /\ flush[t].pc = "idle"
  /\ \A u \in Ticks : flush[u].pc # "idle" => flush[u].late
  /\ \E b \in Batches :
       flush' = [flush EXCEPT ![t].pc = "walk", ![t].todo = b,
                   ![t].seen = [m \in Messages |-> IF m \in b THEN attempts[m] ELSE 0]]
  /\ UNCHANGED <<settings, cooling, rows, world, mishaps>>

\* One message per flush on a paced channel, and none within its interval.
HeldBack(f, c) == c \in Paced /\ (c \in f.done \/ c \in cooling)

Oldest(f) == {m \in f.todo : \A n \in f.todo : born[m] <= born[n]}

\* channelFor finds no row: discard() updates none. Or the pacing says later.
Skip(t) ==
  /\ flush[t].pc = "walk"
  /\ \E m \in Oldest(flush[t]) :
       /\ m[1] \notin present \/ (m[1] \notin unreadable /\ HeldBack(flush[t], m[1]))
       /\ flush' = [flush EXCEPT ![t].todo = @ \ {m}, ![t].seen[m] = 0]
  /\ UNCHANGED <<settings, cooling, rows, world, mishaps>>

\* vault.reveal throws outside the try: the flush ends, and so does the tick.
Throw(t) ==
  /\ flush[t].pc = "walk"
  /\ \E m \in Oldest(flush[t]) : m[1] \in present /\ m[1] \in unreadable
  /\ flush' = [flush EXCEPT ![t] = Idle]
  /\ UNCHANGED <<settings, cooling, rows, world, mishaps>>

\* Mutant: marked before it is sent.
MarkThenSend(t) ==
  /\ flush[t].pc = "walk"
  /\ \E m \in Oldest(flush[t]) :
       /\ m[1] \in present /\ m[1] \notin unreadable
       /\ ~HeldBack(flush[t], m[1])
       /\ flush' = [flush EXCEPT ![t].pc = "sending", ![t].at = m, ![t].todo = @ \ {m}]
       /\ status' = [status EXCEPT ![m] = "sent"]
  /\ UNCHANGED <<settings, cooling, attempts, wait, born, latest, world, mishaps>>

Send(t) ==
  /\ flush[t].pc = "walk"
  /\ \E m \in Oldest(flush[t]) :
       /\ m[1] \in present /\ m[1] \notin unreadable
       /\ ~HeldBack(flush[t], m[1])
       /\ flush' = [flush EXCEPT ![t].pc = "sending", ![t].at = m, ![t].todo = @ \ {m}]
  /\ UNCHANGED <<settings, cooling, rows, world, mishaps>>

EndFlush(t) ==
  /\ flush[t].pc = "walk" /\ flush[t].todo = {}
  /\ flush' = [flush EXCEPT ![t] = Idle]
  /\ UNCHANGED <<settings, cooling, rows, world, mishaps>>

-----------------------------------------------------------------------------
\* The remote, and what is written when it answers.

Land(t) ==
  /\ Quiet /\ flush[t].pc = "sending"
  /\ flush' = [flush EXCEPT ![t].pc = "landed"]
  /\ heard' = [heard EXCEPT ![flush[t].at] = @ + 1]
  /\ UNCHANGED <<settings, cooling, rows, setbacks, rejected, mishaps>>

Walking(t, m) ==
  [flush EXCEPT ![t].pc = "walk", ![t].at = None, ![t].seen[m] = 0, ![t].done = @ \cup {m[1]}]

\* An UPDATE of a row that its channel took along changes nothing.
Exists(m) == status[m] # "none"

\* markSent
Answered(t) ==
  /\ Quiet /\ flush[t].pc = "landed"
  /\ LET m == flush[t].at IN
       /\ status' = IF Exists(m) THEN [status EXCEPT ![m] = "sent"] ELSE status
       /\ wait' = [wait EXCEPT ![m] = 0]
       /\ cooling' = IF m[1] \in present THEN cooling \cup {m[1]} ELSE cooling
       /\ flush' = Walking(t, m)
  /\ UNCHANGED <<settings, attempts, born, latest, world, mishaps>>

\* Mutants: any failure counts as a rejection; the backlog is never given up.
CapOfAny(transient) == MaxRejected
CapOfNone(transient) == IF transient THEN MaxAttempts * MaxAttempts ELSE MaxRejected

Cap(transient) == IF transient THEN MaxAttempts ELSE MaxRejected

Backoff(n) == IF 2^(n - 1) \in 1..MaxBackoff THEN 2^(n - 1) ELSE MaxBackoff

\* Only a remote that answered 429 or the like says when to come back.
Delays(n, transient) == {Backoff(n)} \cup (IF transient THEN RetryAfter ELSE {})

\* markFailed: what it writes is computed from the row as the flush read it.
MarkFailed(t, transient) ==
  LET m == flush[t].at
      n == flush[t].seen[m] + 1
  IN
  /\ IF Exists(m)
     THEN /\ attempts' = [attempts EXCEPT ![m] = n]
          /\ IF n >= Cap(transient)
             THEN status' = [status EXCEPT ![m] = "failed"] /\ wait' = [wait EXCEPT ![m] = 0]
             ELSE /\ status' = [status EXCEPT ![m] = "pending"]
                  /\ \E d \in Delays(n, transient) : wait' = [wait EXCEPT ![m] = d]
     ELSE UNCHANGED <<attempts, status, wait>>
  /\ setbacks' = [setbacks EXCEPT ![m] = @ + 1]
  /\ rejected' = IF transient THEN rejected ELSE rejected \cup {m}
  /\ flush' = Walking(t, m)
  /\ UNCHANGED <<settings, cooling, born, latest, heard>>

\* An error for a message that did not arrive: TransientChannelError or another.
Refused(t, transient) ==
  /\ Quiet /\ flush[t].pc = "sending"
  /\ MarkFailed(t, transient)
  /\ UNCHANGED mishaps

\* The message arrived and the answer did not, or said 500.
LostAnswer(t, transient) ==
  /\ Quiet /\ flush[t].pc = "landed"
  /\ mishaps < MaxMishaps /\ mishaps' = mishaps + 1
  /\ MarkFailed(t, transient)

-----------------------------------------------------------------------------
\* Time, and what goes wrong around a flush.

\* Mutant: a due message goes on counting.
LeftUnbounded(n, d) == n - d

Left(n, d) == IF n > 0 THEN n - d ELSE 0

\* An interval of pacing is much shorter than a unit of backing off.
Elapse ==
  /\ cooling # {} \/ \E m \in Messages : wait[m] > 0
  /\ cooling' = {}
  /\ \E d \in {0, 1} : wait' = [m \in Messages |-> Left(wait[m], d)]
  /\ UNCHANGED <<settings, status, attempts, born, latest, flush, world, mishaps>>

\* The tick is past its deadline; its flush goes on beside the next one.
Overrun(t) ==
  /\ Quiet /\ flush[t].pc \in {"sending", "landed"} /\ ~flush[t].late
  /\ mishaps < MaxMishaps /\ mishaps' = mishaps + 1
  /\ flush' = [flush EXCEPT ![t].late = TRUE]
  /\ UNCHANGED <<settings, cooling, rows, world>>

\* The rows survive; what the flushes knew does not.
Crash ==
  /\ \E t \in Ticks : flush[t].pc # "idle"
  /\ mishaps < MaxMishaps /\ mishaps' = mishaps + 1
  /\ flush' = [t \in Ticks |-> Idle]
  /\ UNCHANGED <<settings, cooling, rows, world>>

Walk(t) == Skip(t) \/ Throw(t) \/ Send(t) \/ EndFlush(t)
Return(t) == Land(t) \/ Answered(t) \/ \E transient \in BOOLEAN : Refused(t, transient)

Next ==
  \/ \E k \in Keys, enabled \in SUBSET present : Enqueue(k, enabled)
  \/ \E c \in Channels : Remove(c) \/ LoseSecret(c) \/ EnterSecret(c)
  \/ \E t \in Ticks :
       BeginFlush(t) \/ Walk(t) \/ Return(t) \/ Overrun(t)
         \/ \E transient \in BOOLEAN : LostAnswer(t, transient)
  \/ Elapse
  \/ Crash

\* The timer brings ticks, a flush goes on, remotes answer or time out, time passes.
Fairness ==
  /\ WF_vars(\E t \in Ticks : BeginFlush(t))
  /\ \A t \in Ticks : WF_vars(Walk(t)) /\ WF_vars(Return(t))
  /\ WF_vars(Elapse)

Spec == Init /\ [][Next]_vars /\ Fairness

-----------------------------------------------------------------------------
\* What the outbox promises.

\* A message is heard once, and once more for every answer that was lost, tick
\* that was given up on or crash: never because a tick looked again.
AnnouncedOnce == \A m \in Messages : heard[m] <= 1 + mishaps

\* A message marked as sent has been received.
SentMeansHeard == \A m \in Messages : status[m] = "sent" => heard[m] > 0

\* Nothing is given up lightly, not even by a flush that read the row long ago:
\* as many sends have failed as it takes, and more if none of them was rejected.
GivenUpForCause ==
  \A m \in Messages : status[m] = "failed" =>
    setbacks[m] >= (IF m \in rejected THEN MaxRejected ELSE MaxAttempts)

\* A remote that fails is not asked forever. A flush that was given up on may write
\* an old count of attempts over a newer one, which grants all of them again, even
\* to a message that has been given up.
NotHammered ==
  \A m \in Messages : setbacks[m] <= (1 + mishaps) * MaxAttempts

\* Every alert ends, sent, given up visibly or gone with its channel, once the
\* vault can read every secret.
Settled(m) == status[m] # "pending"
EveryMessageSettles ==
  <>[](unreadable = {}) => \A m \in Messages : (status[m] = "pending") ~> Settled(m)

\* A comment on the outbox says that a failure must still tell somebody. An alert
\* for a channel that is in order is settled, whatever became of other channels.
HealthyChannelIsTold ==
  \A m \in Messages : (status[m] = "pending") ~> (Settled(m) \/ m[1] \in unreadable)
=============================================================================
