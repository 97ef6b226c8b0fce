---------------------------- MODULE OutboxProofs ----------------------------
(***************************************************************************)
(* What holds of the outbox for any channels, messages, caps and number of  *)
(* flushes that overlap: its types, that what is marked as sent has been    *)
(* received, that nothing is given up before its sends have failed as often *)
(* as it takes, however old the row was that a flush worked from, and that  *)
(* a message is told once but for mishaps.                                  *)
(***************************************************************************)
EXTENDS Outbox, FiniteSetTheorems, TLAPS

\* A flush awaits the answer for a message, never for none.
Carrying == \A t \in Ticks : flush[t].pc \in {"sending", "landed"} => flush[t].at \in Messages

\* A flush whose message has landed has been heard.
Received == \A t \in Ticks : flush[t].pc = "landed" => heard[flush[t].at] > 0

\* No count of attempts, in a row or in what a flush read, exceeds the errors so far.
Counted ==
  \A m \in Messages :
    /\ attempts[m] <= setbacks[m]
    /\ \A t \in Ticks : flush[t].seen[m] <= setbacks[m]

Typed == TypeOK /\ Carrying

Honest == Received /\ SentMeansHeard /\ Counted /\ GivenUpForCause

-----------------------------------------------------------------------------
\* Types.

LEMMA IdleIsFlush == Idle \in Flush
BY DEF Idle, Flush, Zero, None

LEMMA ChannelOf ==
  ASSUME NEW m \in Messages
  PROVE  m[1] \in Channels
BY OutboxAssumption

LEMMA DelaysAreNumbers ==
  ASSUME NEW n, NEW transient \in BOOLEAN
  PROVE  Delays(n, transient) \subseteq Nat
<1>1. Backoff(n) \in Nat
  BY OutboxAssumption DEF Backoff
<1>2. RetryAfter \subseteq Nat
  BY OutboxAssumption
<1>3. QED
  BY <1>1, <1>2, Zenon DEF Delays

\* A step of one flush.
LEMMA FlushTyped ==
  ASSUME Typed, NEW t \in Ticks, NEW g \in Flush, flush' = [flush EXCEPT ![t] = g],
         g.pc \in {"sending", "landed"} => g.at \in Messages
  PROVE  flush' \in [Ticks -> Flush] /\ Carrying'
BY DEF Typed, TypeOK, Carrying

LEMMA WalkingTyped ==
  ASSUME Typed, NEW t \in Ticks, flush[t].at \in Messages,
         flush' = Walking(t, flush[t].at)
  PROVE  flush' \in [Ticks -> Flush] /\ Carrying'
<1> DEFINE m == flush[t].at
<1>1. m[1] \in Channels
  BY ChannelOf
<1>2. flush[t] \in Flush
  BY DEF Typed, TypeOK
<1> DEFINE g == [flush[t] EXCEPT !.pc = "walk", !.at = None, !.seen[m] = 0,
                                 !.done = @ \cup {m[1]}]
<1>3. g \in Flush /\ g.pc = "walk"
  BY <1>1, <1>2 DEF Flush
<1>4. flush' = [flush EXCEPT ![t] = g]
  <2> flush \in [Ticks -> Flush]
    BY DEF Typed, TypeOK
  <2>1. QED
    BY Zenon DEF Walking
<1>5. QED
  BY <1>3, <1>4, FlushTyped

\* What markFailed writes.
LEMMA MarkFailedTyped ==
  ASSUME Typed, NEW t \in Ticks, NEW transient \in BOOLEAN,
         flush[t].at \in Messages, mishaps' \in 0..MaxMishaps, MarkFailed(t, transient)
  PROVE  Typed'
<1> DEFINE m == flush[t].at
<1>1. flush' \in [Ticks -> Flush] /\ Carrying'
  BY WalkingTyped DEF MarkFailed
<1>2. flush[t].seen[m] + 1 \in Nat
  BY DEF Typed, TypeOK, Flush
<1>3. status' \in [Messages -> {"none", "pending", "sent", "failed"}]
  BY DEF MarkFailed, Typed, TypeOK
<1>4. attempts' \in [Messages -> Nat]
  BY <1>2 DEF MarkFailed, Typed, TypeOK
<1>5. wait' \in [Messages -> Nat]
  <2>1. \A d \in Delays(flush[t].seen[m] + 1, transient) : d \in Nat
    BY DelaysAreNumbers
  <2>2. wait' = wait \/ wait' = [wait EXCEPT ![m] = 0]
          \/ \E d \in Delays(flush[t].seen[m] + 1, transient) : wait' = [wait EXCEPT ![m] = d]
    BY Zenon DEF MarkFailed
  <2>3. QED
    BY <2>1, <2>2 DEF Typed, TypeOK
<1>6. setbacks' \in [Messages -> Nat] /\ rejected' \subseteq Messages
  <2>1. setbacks' \in [Messages -> Nat]
    BY DEF MarkFailed, Typed, TypeOK
  <2>2. rejected' = rejected \/ rejected' = rejected \cup {m}
    BY Zenon DEF MarkFailed
  <2>3. QED
    BY <2>1, <2>2 DEF Typed, TypeOK
<1>7. UNCHANGED <<settings, cooling, born, latest, heard>>
  BY DEF MarkFailed
<1>8. QED
  BY <1>1, <1>3, <1>4, <1>5, <1>6, <1>7 DEF Typed, TypeOK, settings

LEMMA TypedStep == Typed /\ [Next]_vars => Typed'
<1> SUFFICES ASSUME Typed, [Next]_vars PROVE Typed'
  OBVIOUS
<1>1. ASSUME NEW k \in Keys, NEW enabled \in SUBSET present, Enqueue(k, enabled)
      PROVE  Typed'
  BY <1>1, OutboxAssumption DEF Enqueue, Typed, TypeOK, Carrying, settings, world
<1>2. ASSUME NEW c \in Channels, Remove(c) PROVE Typed'
  BY <1>2, OutboxAssumption DEF Remove, Typed, TypeOK, Carrying, world
<1>3. ASSUME NEW c \in Channels, LoseSecret(c) \/ EnterSecret(c) PROVE Typed'
  BY <1>3, OutboxAssumption DEF LoseSecret, EnterSecret, Typed, TypeOK, Carrying, world, rows
<1>4. ASSUME NEW t \in Ticks, BeginFlush(t) PROVE Typed'
  <2>1. PICK b \in Batches :
          flush' = [flush EXCEPT ![t].pc = "walk", ![t].todo = b,
                     ![t].seen = [m \in Messages |-> IF m \in b THEN attempts[m] ELSE 0]]
    BY <1>4 DEF BeginFlush
  <2>2. b \subseteq Messages
    BY DEF Batches, Due
  <2>3. [m \in Messages |-> IF m \in b THEN attempts[m] ELSE 0] \in [Messages -> Nat]
    BY DEF Typed, TypeOK
  <2> DEFINE g == [flush[t] EXCEPT !.pc = "walk", !.todo = b,
                     !.seen = [m \in Messages |-> IF m \in b THEN attempts[m] ELSE 0]]
  <2>4. g \in Flush /\ g.pc = "walk"
    BY <2>2, <2>3 DEF Typed, TypeOK, Flush
  <2>5. flush' = [flush EXCEPT ![t] = g]
    BY <2>1 DEF Typed, TypeOK
  <2>6. flush' \in [Ticks -> Flush] /\ Carrying'
    BY <2>4, <2>5, FlushTyped
  <2>7. QED
    BY <1>4, <2>6 DEF BeginFlush, Typed, TypeOK, settings, rows, world
<1>5. ASSUME NEW t \in Ticks, Skip(t) \/ Send(t) PROVE Typed'
  <2>1. PICK m \in Oldest(flush[t]) :
          \/ flush' = [flush EXCEPT ![t].todo = @ \ {m}, ![t].seen[m] = 0]
          \/ flush' = [flush EXCEPT ![t].pc = "sending", ![t].at = m, ![t].todo = @ \ {m}]
    BY <1>5 DEF Skip, Send
  <2>2. flush[t] \in Flush /\ m \in Messages /\ (Skip(t) => flush[t].pc = "walk")
    BY DEF Oldest, Typed, TypeOK, Flush, Skip
  <2> DEFINE skipped == [flush[t] EXCEPT !.todo = @ \ {m}, !.seen[m] = 0]
             sent == [flush[t] EXCEPT !.pc = "sending", !.at = m, !.todo = @ \ {m}]
  <2>3. skipped \in Flush /\ sent \in Flush /\ sent.at = m
          /\ skipped.pc = flush[t].pc /\ flush[t].pc = "walk"
    BY <1>5, <2>2 DEF Flush, Skip, Send
  <2>4. flush' = [flush EXCEPT ![t] = skipped] \/ flush' = [flush EXCEPT ![t] = sent]
    BY <2>1 DEF Typed, TypeOK
  <2>5. flush' \in [Ticks -> Flush] /\ Carrying'
    BY <2>2, <2>3, <2>4, FlushTyped
  <2>6. QED
    BY <1>5, <2>5 DEF Skip, Send, Typed, TypeOK, settings, rows, world
<1>6. ASSUME NEW t \in Ticks, Throw(t) \/ EndFlush(t) PROVE Typed'
  <2>1. flush' = [flush EXCEPT ![t] = Idle]
    BY <1>6 DEF Throw, EndFlush
  <2>2. flush' \in [Ticks -> Flush] /\ Carrying'
    BY <2>1, IdleIsFlush DEF Typed, TypeOK, Carrying, Idle
  <2>3. QED
    BY <1>6, <2>2 DEF Throw, EndFlush, Typed, TypeOK, settings, rows, world
<1>7. ASSUME NEW t \in Ticks, Land(t) PROVE Typed'
  <2> DEFINE g == [flush[t] EXCEPT !.pc = "landed"]
  <2>1. flush[t] \in Flush /\ flush[t].at \in Messages
    BY <1>7 DEF Land, Typed, TypeOK, Carrying
  <2>2. g \in Flush /\ g.at \in Messages
    BY <2>1 DEF Flush
  <2>3. flush' = [flush EXCEPT ![t] = g]
    BY <1>7 DEF Land, Typed, TypeOK
  <2>4. flush' \in [Ticks -> Flush] /\ Carrying'
    BY <2>2, <2>3, FlushTyped
  <2>5. heard' \in [Messages -> Nat]
    BY <1>7, <2>1 DEF Land, Typed, TypeOK
  <2>6. QED
    BY <1>7, <2>4, <2>5 DEF Land, Typed, TypeOK, settings, rows
<1>8. ASSUME NEW t \in Ticks, Answered(t) PROVE Typed'
  <2>1. flush[t].at \in Messages
    BY <1>8 DEF Answered, Typed, Carrying
  <2>2. flush' \in [Ticks -> Flush] /\ Carrying'
    BY <1>8, <2>1, WalkingTyped DEF Answered
  <2>3. cooling' \subseteq Channels
    BY <1>8, <2>1, ChannelOf DEF Answered, Typed, TypeOK
  <2>4. QED
    BY <1>8, <2>1, <2>2, <2>3, OutboxAssumption DEF Answered, Typed, TypeOK, settings, world
<1>9. ASSUME NEW t \in Ticks, NEW transient \in BOOLEAN,
             Refused(t, transient) \/ LostAnswer(t, transient)
      PROVE  Typed'
  <2>1. flush[t].at \in Messages /\ MarkFailed(t, transient)
    BY <1>9 DEF Refused, LostAnswer, Typed, Carrying
  <2>2. mishaps' \in 0..MaxMishaps
    BY <1>9, OutboxAssumption DEF Refused, LostAnswer, Typed, TypeOK
  <2>3. QED
    BY <2>1, <2>2, MarkFailedTyped
<1>10. ASSUME NEW t \in Ticks, Overrun(t) PROVE Typed'
  <2> DEFINE g == [flush[t] EXCEPT !.late = TRUE]
  <2>1. flush[t] \in Flush /\ flush[t].at \in Messages
    BY <1>10 DEF Overrun, Typed, TypeOK, Carrying
  <2>2. g \in Flush /\ g.at \in Messages
    BY <2>1 DEF Flush
  <2>3. flush' = [flush EXCEPT ![t] = g]
    BY <1>10 DEF Overrun, Typed, TypeOK
  <2>4. flush' \in [Ticks -> Flush] /\ Carrying'
    BY <2>2, <2>3, FlushTyped
  <2>5. mishaps' \in 0..MaxMishaps
    BY <1>10, OutboxAssumption DEF Overrun, Typed, TypeOK
  <2>6. QED
    BY <1>10, <2>4, <2>5 DEF Overrun, Typed, TypeOK, settings, rows, world
<1>11. CASE Elapse
  BY <1>11, OutboxAssumption DEF Elapse, Left, Typed, TypeOK, Carrying, settings, world
<1>12. CASE Crash
  BY <1>12, IdleIsFlush, OutboxAssumption
     DEF Crash, Typed, TypeOK, Carrying, Idle, settings, rows, world
<1>13. CASE UNCHANGED vars
  BY <1>13 DEF vars, Typed, TypeOK, Carrying, settings, rows, world
<1>14. QED
  BY <1>1, <1>2, <1>3, <1>4, <1>5, <1>6, <1>7, <1>8, <1>9, <1>10, <1>11, <1>12, <1>13
     DEF Next, Walk, Return

LEMMA TypedInit == Init => Typed
BY IdleIsFlush, OutboxAssumption DEF Init, Typed, TypeOK, Carrying, Zero, Idle

\* The type invariant of the outbox (notify/notifier.ts and its two tables).
THEOREM OutboxTypeCorrect == Spec => []TypeOK
<1>1. Typed => TypeOK
  BY DEF Typed
<1>2. QED
  BY <1>1, TypedInit, TypedStep, PTL DEF Spec

-----------------------------------------------------------------------------
\* What the columns say is true of the remote.

\* A walk between two sends: rows and world stay, no flush gets to land, and what
\* the flushes have seen gets no larger than the rows.
LEMMA HonestWalk ==
  ASSUME Typed, Honest, UNCHANGED <<rows, world>>, flush' \in [Ticks -> Flush],
         \A t \in Ticks : flush'[t].pc = "landed" =>
           flush[t].pc = "landed" /\ flush'[t].at = flush[t].at,
         \A t \in Ticks, m \in Messages :
           flush'[t].seen[m] = flush[t].seen[m] \/ flush'[t].seen[m] = attempts[m]
             \/ flush'[t].seen[m] = 0
  PROVE  Honest'
<1>1. \A m \in Messages : setbacks[m] \in Nat
  BY DEF Typed, TypeOK
<1>2. SentMeansHeard' /\ GivenUpForCause'
  BY DEF Honest, SentMeansHeard, GivenUpForCause, rows, world
<1>3. Received'
  BY DEF Honest, Received, world
<1>4. Counted'
  BY <1>1 DEF Honest, Counted, rows, world
<1>5. QED
  BY <1>2, <1>3, <1>4 DEF Honest

\* markFailed: the error that is counted is the one that may end the message.
LEMMA HonestFailure ==
  ASSUME Typed, Honest, NEW t \in Ticks, NEW transient \in BOOLEAN,
         flush[t].at \in Messages, MarkFailed(t, transient)
  PROVE  Honest'
<1> DEFINE m == flush[t].at
           n == flush[t].seen[m] + 1
<1>1. /\ flush[t] \in Flush /\ n \in Nat /\ n <= setbacks[m] + 1
      /\ setbacks' = [setbacks EXCEPT ![m] = @ + 1] /\ setbacks \in [Messages -> Nat]
  BY DEF MarkFailed, Typed, TypeOK, Flush, Honest, Counted
<1>2. /\ heard' = heard /\ flush' = Walking(t, m)
      /\ rejected \subseteq rejected' /\ (~transient => m \in rejected')
  BY Zenon DEF MarkFailed
<1>3. \A x \in Messages : setbacks'[x] \in Nat /\ setbacks[x] <= setbacks'[x]
  BY <1>1
<1>4. /\ attempts' = attempts \/ attempts' = [attempts EXCEPT ![m] = n]
      /\ status' = status \/ status' = [status EXCEPT ![m] = "pending"]
           \/ (status' = [status EXCEPT ![m] = "failed"] /\ n >= Cap(transient))
  BY DEF MarkFailed
<1>5. Received'
  <2>1. \A u \in Ticks : flush'[u].pc = "landed" => u # t /\ flush'[u] = flush[u]
    BY <1>1, <1>2 DEF Walking, Typed, TypeOK, Flush
  <2>2. QED
    BY <1>2, <2>1 DEF Honest, Received
<1>6. SentMeansHeard'
  BY <1>2, <1>4 DEF Honest, SentMeansHeard, Typed, TypeOK
<1>7. Counted'
  <2>1. \A x \in Messages : attempts'[x] <= setbacks'[x]
    BY <1>1, <1>3, <1>4 DEF Honest, Counted, Typed, TypeOK
  <2>2. \A x \in Messages, u \in Ticks :
          flush'[u].seen[x] = flush[u].seen[x] \/ flush'[u].seen[x] = 0
    BY <1>2 DEF Walking, Typed, TypeOK, Flush
  <2>3. \A x \in Messages, u \in Ticks : flush[u].seen[x] \in Nat
    BY DEF Typed, TypeOK, Flush
  <2>4. QED
    BY <1>3, <1>1, <2>1, <2>2, <2>3 DEF Honest, Counted
<1>8. GivenUpForCause'
  <2> SUFFICES ASSUME NEW x \in Messages, status'[x] = "failed"
               PROVE  setbacks'[x] >= (IF x \in rejected' THEN MaxRejected ELSE MaxAttempts)
    BY DEF GivenUpForCause
  <2>1. CASE x = m /\ status' = [status EXCEPT ![m] = "failed"] /\ n >= Cap(transient)
    <3>1. setbacks'[x] >= n
      BY <1>1, <2>1
    <3>2. transient \/ x \in rejected'
      BY <1>2, <2>1
    <3>3. n >= (IF transient THEN MaxAttempts ELSE MaxRejected)
      BY <2>1 DEF Cap
    <3>4. MaxAttempts \in Nat /\ MaxRejected \in Nat /\ MaxRejected <= MaxAttempts
      BY OutboxAssumption
    <3>5. CASE transient = TRUE
      BY <1>1, <1>3, <3>1, <3>3, <3>4, <3>5
    <3>6. CASE transient = FALSE
      BY <1>1, <1>3, <3>1, <3>2, <3>3, <3>4, <3>6
    <3>7. QED
      BY <3>5, <3>6
  <2>2. CASE status[x] = "failed"
    <3>1. setbacks[x] >= (IF x \in rejected THEN MaxRejected ELSE MaxAttempts)
      BY <2>2 DEF Honest, GivenUpForCause
    <3>2. MaxAttempts \in Nat /\ MaxRejected \in Nat /\ MaxRejected <= MaxAttempts
      BY OutboxAssumption
    <3>3. QED
      BY <1>1, <1>2, <1>3, <3>1, <3>2
  <2>3. QED
    BY <1>4, <2>1, <2>2 DEF Typed, TypeOK
<1>9. QED
  BY <1>5, <1>6, <1>7, <1>8 DEF Honest

LEMMA HonestStep == Typed /\ Honest /\ [Next]_vars => Honest'
<1> SUFFICES ASSUME Typed, Honest, [Next]_vars PROVE Honest'
  OBVIOUS
<1>0. Typed'
  BY TypedStep
<1>1. ASSUME NEW k \in Keys, NEW enabled \in SUBSET present, Enqueue(k, enabled)
      PROVE  Honest'
  <2>1. flush' = flush /\ heard' = heard /\ setbacks' = setbacks /\ rejected' = rejected
    BY <1>1 DEF Enqueue, world
  <2>2. \A m \in Messages : (status'[m] = "pending" /\ attempts'[m] = 0)
                              \/ (status'[m] = status[m] /\ attempts'[m] = attempts[m])
    BY <1>1 DEF Enqueue
  <2>3. QED
    BY <2>1, <2>2
       DEF Honest, Received, SentMeansHeard, Counted, GivenUpForCause, Typed, TypeOK
<1>2. ASSUME NEW c \in Channels, Remove(c) PROVE Honest'
  <2>1. flush' = flush /\ heard' = heard /\ setbacks' = setbacks /\ rejected' = rejected
    BY <1>2 DEF Remove, world
  <2>2. \A m \in Messages : (status'[m] = "none" /\ attempts'[m] = 0)
                              \/ (status'[m] = status[m] /\ attempts'[m] = attempts[m])
    BY <1>2 DEF Remove
  <2>3. QED
    BY <2>1, <2>2
       DEF Honest, Received, SentMeansHeard, Counted, GivenUpForCause, Typed, TypeOK
<1>3. ASSUME NEW c \in Channels, LoseSecret(c) \/ EnterSecret(c) PROVE Honest'
  BY <1>0, <1>3, HonestWalk DEF LoseSecret, EnterSecret, Typed, TypeOK
<1>4. ASSUME NEW t \in Ticks, BeginFlush(t) PROVE Honest'
  <2>1. PICK b \in Batches :
          flush' = [flush EXCEPT ![t].pc = "walk", ![t].todo = b,
                     ![t].seen = [m \in Messages |-> IF m \in b THEN attempts[m] ELSE 0]]
    BY <1>4 DEF BeginFlush
  <2>2. \A u \in Ticks : flush'[u].pc = "landed" => flush'[u] = flush[u]
    BY <2>1 DEF Typed, TypeOK, Flush
  <2>3. \A u \in Ticks, m \in Messages :
          flush'[u].seen[m] \in {flush[u].seen[m], attempts[m], 0}
    BY <2>1 DEF Typed, TypeOK, Flush
  <2>4. QED
    BY <1>0, <1>4, <2>2, <2>3, HonestWalk DEF BeginFlush, Typed, TypeOK
<1>5. ASSUME NEW t \in Ticks, Skip(t) \/ Send(t) PROVE Honest'
  <2>1. PICK m \in Oldest(flush[t]) :
          \/ flush' = [flush EXCEPT ![t].todo = @ \ {m}, ![t].seen[m] = 0]
          \/ flush' = [flush EXCEPT ![t].pc = "sending", ![t].at = m, ![t].todo = @ \ {m}]
    BY <1>5 DEF Skip, Send
  <2>2. flush[t].pc = "walk"
    BY <1>5 DEF Skip, Send
  <2>3. \A u \in Ticks : flush'[u].pc = "landed" => flush'[u] = flush[u]
    BY <2>1, <2>2 DEF Typed, TypeOK, Flush
  <2>4. \A u \in Ticks, x \in Messages : flush'[u].seen[x] \in {flush[u].seen[x], 0}
    <3>1. \/ flush'[t].seen = flush[t].seen
          \/ flush'[t].seen = [flush[t].seen EXCEPT ![m] = 0]
      <4> flush \in [Ticks -> Flush] /\ flush[t] \in Flush
        BY DEF Typed, TypeOK
      <4>1. CASE flush' = [flush EXCEPT ![t].todo = @ \ {m}, ![t].seen[m] = 0]
        BY <4>1, Zenon DEF Flush
      <4>2. CASE flush' = [flush EXCEPT ![t].pc = "sending", ![t].at = m,
                                         ![t].todo = @ \ {m}]
        BY <4>2 DEF Flush
      <4>3. QED
        BY <2>1, <4>1, <4>2
    <3>2. \A x \in Messages : flush'[t].seen[x] \in {flush[t].seen[x], 0}
      BY <3>1 DEF Typed, TypeOK, Flush
    <3>3. \A u \in Ticks \ {t} : flush'[u] = flush[u]
      BY <2>1 DEF Typed, TypeOK
    <3>4. QED
      BY <3>2, <3>3
  <2>5. QED
    BY <1>0, <1>5, <2>3, <2>4, HonestWalk DEF Skip, Send, Typed, TypeOK
<1>6. ASSUME NEW t \in Ticks, Throw(t) \/ EndFlush(t) PROVE Honest'
  <2>1. flush' = [flush EXCEPT ![t] = Idle] /\ UNCHANGED <<rows, world>>
    BY <1>6 DEF Throw, EndFlush
  <2>2. \A u \in Ticks : flush'[u].pc = "landed" => flush'[u] = flush[u]
    BY <2>1 DEF Typed, TypeOK, Idle
  <2>3. \A u \in Ticks, x \in Messages : flush'[u].seen[x] \in {flush[u].seen[x], 0}
    BY <2>1 DEF Typed, TypeOK, Idle, Zero
  <2>4. QED
    BY <1>0, <2>1, <2>2, <2>3, HonestWalk DEF Typed, TypeOK
<1>7. ASSUME NEW t \in Ticks, Land(t) PROVE Honest'
  <2>1. flush[t].at \in Messages /\ flush[t] \in Flush
    BY <1>7 DEF Land, Typed, TypeOK, Carrying
  <2>2. /\ heard' = [heard EXCEPT ![flush[t].at] = @ + 1]
        /\ \A m \in Messages : heard'[m] \in Nat /\ heard[m] <= heard'[m]
    BY <1>7, <2>1 DEF Land, Typed, TypeOK
  <2>3. \A u \in Ticks : flush'[u].at = flush[u].at /\ flush'[u].seen = flush[u].seen
                           /\ (u # t => flush'[u].pc = flush[u].pc)
    BY <1>7, <2>1 DEF Land, Typed, TypeOK, Flush
  <2>4. Received'
    <3> SUFFICES ASSUME NEW u \in Ticks, flush'[u].pc = "landed" PROVE heard'[flush'[u].at] > 0
      BY DEF Received
    <3>1. CASE u = t
      BY <2>1, <2>2, <2>3, <3>1 DEF Typed, TypeOK
    <3>2. CASE u # t
      <4>1. flush[u].at \in Messages /\ heard[flush[u].at] > 0
        BY <2>3, <3>2 DEF Typed, Carrying, Honest, Received
      <4>2. QED
        BY <2>2, <2>3, <4>1 DEF Typed, TypeOK
    <3>3. QED
      BY <3>1, <3>2
  <2>5. SentMeansHeard'
    BY <1>7, <2>2 DEF Land, Honest, SentMeansHeard, rows, Typed, TypeOK
  <2>6. Counted' /\ GivenUpForCause'
    BY <1>7, <2>3 DEF Land, Honest, Counted, GivenUpForCause, rows
  <2>7. QED
    BY <2>4, <2>5, <2>6 DEF Honest
<1>8. ASSUME NEW t \in Ticks, Answered(t) PROVE Honest'
  <2> DEFINE m == flush[t].at
  <2>1. m \in Messages /\ heard[m] > 0
    BY <1>8 DEF Answered, Typed, Carrying, Honest, Received
  <2>2. /\ status' = status \/ status' = [status EXCEPT ![m] = "sent"]
        /\ flush' = Walking(t, m) /\ UNCHANGED <<attempts, heard, setbacks, rejected>>
    BY <1>8 DEF Answered, world
  <2>3. \A u \in Ticks : flush'[u].pc = "landed" => flush'[u] = flush[u]
    BY <2>2 DEF Walking, Typed, TypeOK, Flush
  <2>4. \A u \in Ticks, x \in Messages : flush'[u].seen[x] \in {flush[u].seen[x], 0}
    <3>1. flush'[t].seen = [flush[t].seen EXCEPT ![m] = 0]
      BY <2>2 DEF Walking, Typed, TypeOK
    <3>2. \A x \in Messages : flush'[t].seen[x] \in {flush[t].seen[x], 0}
      BY <3>1 DEF Typed, TypeOK, Flush
    <3>3. \A u \in Ticks \ {t} : flush'[u] = flush[u]
      BY <2>2 DEF Walking, Typed, TypeOK
    <3>4. QED
      BY <3>2, <3>3
  <2>5. Received' /\ Counted'
    BY <2>2, <2>3, <2>4 DEF Honest, Received, Counted, Typed, TypeOK
  <2>6. SentMeansHeard' /\ GivenUpForCause'
    BY <2>1, <2>2 DEF Honest, SentMeansHeard, GivenUpForCause, Typed, TypeOK
  <2>7. QED
    BY <2>5, <2>6 DEF Honest
<1>9. ASSUME NEW t \in Ticks, NEW transient \in BOOLEAN,
             Refused(t, transient) \/ LostAnswer(t, transient)
      PROVE  Honest'
  <2>1. flush[t].at \in Messages /\ MarkFailed(t, transient)
    BY <1>9 DEF Refused, LostAnswer, Typed, Carrying
  <2>2. QED
    BY <2>1, HonestFailure
<1>10. ASSUME NEW t \in Ticks, Overrun(t) PROVE Honest'
  <2>1. \A u \in Ticks : flush'[u].pc = flush[u].pc /\ flush'[u].at = flush[u].at
                           /\ flush'[u].seen = flush[u].seen
    BY <1>10 DEF Overrun, Typed, TypeOK, Flush
  <2>2. QED
    BY <1>0, <1>10, <2>1, HonestWalk DEF Overrun, Typed, TypeOK
<1>11. CASE Elapse
  BY <1>11 DEF Elapse, Honest, Received, SentMeansHeard, Counted, GivenUpForCause, world
<1>12. CASE Crash
  <2>1. \A u \in Ticks : flush'[u].pc = "idle" /\ flush'[u].seen = Zero
    BY <1>12 DEF Crash, Idle
  <2>2. \A u \in Ticks, x \in Messages : flush'[u].seen[x] = 0
    BY <2>1 DEF Zero
  <2>3. QED
    BY <1>0, <1>12, <2>1, <2>2, HonestWalk DEF Crash, Typed, TypeOK
<1>13. CASE UNCHANGED vars
  BY <1>13 DEF vars, rows, world, Honest, Received, SentMeansHeard, Counted, GivenUpForCause
<1>14. QED
  BY <1>1, <1>2, <1>3, <1>4, <1>5, <1>6, <1>7, <1>8, <1>9, <1>10, <1>11, <1>12, <1>13
     DEF Next, Walk, Return

LEMMA HonestInit == Init => Honest
BY DEF Init, Honest, Received, SentMeansHeard, Counted, GivenUpForCause, Zero, Idle

LEMMA HonestAlways == Spec => []Honest
BY TypedInit, TypedStep, HonestInit, HonestStep, PTL DEF Spec

\* notifier.ts, markSent: a row that says "sent" has reached its remote, whatever
\* crashed, was abandoned or sent again in between.
THEOREM SentIsHeard == Spec => []SentMeansHeard
<1>1. Honest => SentMeansHeard
  BY DEF Honest
<1>2. QED
  BY <1>1, HonestAlways, PTL

\* notifier.ts, markFailed: no message is given up before its sends have failed as
\* often as its cap says, even when the count was read before other flushes failed.
THEOREM NothingGivenUpLightly == Spec => []GivenUpForCause
<1>1. Honest => GivenUpForCause
  BY DEF Honest
<1>2. QED
  BY <1>1, HonestAlways, PTL

-----------------------------------------------------------------------------
\* A message is told once. It is not inductive: what flushes have read and not yet
\* sent must be counted with what has been heard, and so must a row that is pending
\* while nobody has it in hand, for the next flush will read it again.

\* The flushes by which a message may yet be heard.
Bearers(m) == {t \in Ticks : m \in flush[t].todo
                               \/ (flush[t].pc = "sending" /\ flush[t].at = m)}

\* A flush of a tick in time has the message in hand.
InHand(m) == \E t \in Ticks :
  /\ flush[t].pc # "idle" /\ ~flush[t].late
  /\ m \in flush[t].todo \/ (flush[t].pc \in {"sending", "landed"} /\ flush[t].at = m)

\* A pending message that is in nobody's hand will be heard once more.
Owing(m) == IF status[m] = "pending" /\ ~InHand(m) THEN 1 ELSE 0

\* What has been heard and what is on its way is paid for by mishaps.
PaidFor(m) == heard[m] + Cardinality(Bearers(m)) + Owing(m) <= 1 + mishaps

\* What was never queued has not been sent.
Untold(m) == status[m] = "none" /\ m[1] \in present => heard[m] = 0 /\ Bearers(m) = {}

Orderly == \A t \in Ticks :
  /\ flush[t].pc = "idle" => flush[t].todo = {} /\ ~flush[t].late
  /\ flush[t].pc \in {"sending", "landed"} => flush[t].at \notin flush[t].todo

Balanced == Orderly /\ \A m \in Messages : PaidFor(m) /\ Untold(m)

\* The flushes are finitely many, so those with a message can be counted.
LEMMA BearersFinite ==
  ASSUME NEW m \in Messages
  PROVE  IsFiniteSet(Bearers(m)) /\ Cardinality(Bearers(m)) \in Nat
BY OutboxAssumption, FS_Subset, FS_CardinalityType DEF Bearers

\* The same after a step.
LEMMA BearersFiniteNext ==
  ASSUME NEW m \in Messages
  PROVE  IsFiniteSet(Bearers(m)') /\ Cardinality(Bearers(m)') \in Nat
BY OutboxAssumption, FS_Subset, FS_CardinalityType DEF Bearers

\* The other summands of the account are numbers.
LEMMA OwedType ==
  ASSUME Typed, NEW m \in Messages
  PROVE  heard[m] \in Nat /\ mishaps \in Nat /\ Owing(m) \in {0, 1}
BY OutboxAssumption DEF Typed, TypeOK, Owing

\* Nothing changes for the message, or it is no longer to be told.
LEMMA Kept ==
  ASSUME Typed, Typed', NEW m \in Messages, PaidFor(m),
         heard'[m] = heard[m], mishaps' >= mishaps, Bearers(m)' = Bearers(m),
         \/ status'[m] = status[m] /\ (InHand(m) => InHand(m)')
         \/ status'[m] # "pending"
  PROVE  PaidFor(m)'
<1>1. Owing(m)' <= Owing(m)
  BY DEF Owing
<1>2. QED
  BY <1>1, OwedType, BearersFinite DEF PaidFor, Typed, TypeOK, Owing

\* One flush drops the message: it may be due again.
LEMMA Dropped ==
  ASSUME Typed, Typed', NEW m \in Messages, PaidFor(m), NEW t \in Bearers(m),
         heard'[m] = heard[m], mishaps' = mishaps, Bearers(m)' = Bearers(m) \ {t}
  PROVE  PaidFor(m)'
<1>1. Cardinality(Bearers(m)') = Cardinality(Bearers(m)) - 1
  BY BearersFinite, FS_RemoveElement
<1>2. Owing(m) \in {0, 1} /\ Owing(m)' \in {0, 1}
  BY DEF Owing
<1>3. QED
  BY <1>1, <1>2, OwedType, BearersFinite DEF PaidFor

\* One flush is heard of it.
LEMMA HeardOf ==
  ASSUME Typed, Typed', NEW m \in Messages, PaidFor(m), NEW t \in Bearers(m),
         heard'[m] = heard[m] + 1, mishaps' = mishaps, Bearers(m)' = Bearers(m) \ {t},
         status'[m] = status[m], InHand(m) => InHand(m)'
  PROVE  PaidFor(m)'
<1>1. Cardinality(Bearers(m)') = Cardinality(Bearers(m)) - 1
  BY BearersFinite, FS_RemoveElement
<1>2. Owing(m)' <= Owing(m)
  BY DEF Owing
<1>3. Owing(m) \in {0, 1} /\ Owing(m)' \in {0, 1}
  BY DEF Owing
<1>4. QED
  BY <1>1, <1>2, <1>3, OwedType, BearersFinite DEF PaidFor

\* A mishap pays for one more.
LEMMA Excused ==
  ASSUME Typed, Typed', NEW m \in Messages, PaidFor(m),
         heard'[m] = heard[m], mishaps' = mishaps + 1, Bearers(m)' \subseteq Bearers(m)
  PROVE  PaidFor(m)'
<1>1. Cardinality(Bearers(m)') <= Cardinality(Bearers(m)) /\ Cardinality(Bearers(m)') \in Nat
  BY BearersFinite, BearersFiniteNext, FS_Subset
<1>2. Owing(m) \in {0, 1} /\ Owing(m)' \in {0, 1}
  BY DEF Owing
<1>3. QED
  BY <1>1, <1>2, OwedType, BearersFinite DEF PaidFor

\* A step that changes no flush and does not tell.
LEMMA FlushesKept ==
  ASSUME Typed, Typed', NEW m \in Messages, PaidFor(m), Untold(m), flush' = flush,
         heard'[m] = heard[m], mishaps' >= mishaps, present' \subseteq present,
         status'[m] = status[m] \/ (status'[m] = "none" /\ m[1] \notin present')
  PROVE  PaidFor(m)' /\ Untold(m)'
<1>1. Bearers(m)' = Bearers(m) /\ (InHand(m) => InHand(m)')
  BY DEF Bearers, InHand
<1>2. PaidFor(m)'
  BY <1>1, Kept
<1>3. Untold(m)'
  BY <1>1 DEF Untold
<1>4. QED
  BY <1>2, <1>3

\* What a step of one flush leaves of the others.
LEMMA BearersOfOthers ==
  ASSUME Typed, NEW t \in Ticks, NEW g, flush' = [flush EXCEPT ![t] = g], NEW m \in Messages,
         (m \in g.todo \/ (g.pc = "sending" /\ g.at = m)) =>
           (m \in flush[t].todo \/ (flush[t].pc = "sending" /\ flush[t].at = m))
  PROVE  \/ Bearers(m)' = Bearers(m)
         \/ t \in Bearers(m) /\ Bearers(m)' = Bearers(m) \ {t}
<1>1. flush'[t] = g /\ \A u \in Ticks \ {t} : flush'[u] = flush[u]
  BY DEF Typed, TypeOK
<1>2. CASE m \in g.todo \/ (g.pc = "sending" /\ g.at = m)
  BY <1>1, <1>2 DEF Bearers
<1>3. CASE ~(m \in g.todo \/ (g.pc = "sending" /\ g.at = m))
  BY <1>1, <1>3 DEF Bearers
<1>4. QED
  BY <1>2, <1>3

\* A flush that only lets go of messages: the rest is in whose hand it was.
LEMMA LetGo ==
  ASSUME Typed, Typed', NEW t \in Ticks, NEW g, flush' = [flush EXCEPT ![t] = g],
         NEW m \in Messages, PaidFor(m), Untold(m),
         m \in g.todo => m \in flush[t].todo,
         g.pc = "sending" /\ g.at = m => m \in flush[t].todo,
         flush[t].pc = "walk", g.pc # "idle" => g.late = flush[t].late,
         g.pc = "idle" => g.todo = {},
         UNCHANGED <<present, status, heard, mishaps>>
  PROVE  PaidFor(m)' /\ Untold(m)'
<1>1. flush'[t] = g /\ \A u \in Ticks \ {t} : flush'[u] = flush[u]
  BY DEF Typed, TypeOK
<1>2. CASE Bearers(m)' = Bearers(m)
  <2>1. InHand(m) => InHand(m)'
    <3> SUFFICES ASSUME NEW u \in Ticks, flush[u].pc # "idle", ~flush[u].late,
                        m \in flush[u].todo
                          \/ (flush[u].pc \in {"sending", "landed"} /\ flush[u].at = m)
                 PROVE  InHand(m)'
      BY DEF InHand
    <3>1. CASE u # t
      BY <1>1, <3>1 DEF InHand
    <3>2. CASE u = t
      <4>1. t \in Bearers(m) /\ ~flush[t].late
        BY <3>2 DEF Bearers
      <4>2. m \in g.todo \/ (g.pc = "sending" /\ g.at = m)
        BY <1>1, <1>2, <4>1 DEF Bearers
      <4>3. g.pc # "idle" /\ ~g.late
        BY <4>1, <4>2
      <4>4. QED
        BY <1>1, <4>2, <4>3 DEF InHand
    <3>3. QED
      BY <3>1, <3>2
  <2>2. mishaps' >= mishaps
    BY OwedType
  <2>3. QED
    BY <1>2, <2>1, <2>2, Kept DEF Untold
<1>3. CASE t \in Bearers(m) /\ Bearers(m)' = Bearers(m) \ {t}
  BY <1>3, Dropped DEF Untold
<1>4. QED
  BY <1>2, <1>3, BearersOfOthers

\* A flush is never handed the message it is sending.
LEMMA OrderlyStep == Typed /\ Orderly /\ [Next]_vars => Orderly'
<1> SUFFICES ASSUME Typed, Orderly, [Next]_vars PROVE Orderly'
  OBVIOUS
<1> USE DEF Orderly
<1>0. flush \in [Ticks -> Flush]
  BY DEF Typed, TypeOK
<1>1. ASSUME NEW k \in Keys, NEW enabled \in SUBSET present, Enqueue(k, enabled)
      PROVE  Orderly'
  BY <1>1 DEF Enqueue
<1>2. ASSUME NEW c \in Channels, Remove(c) \/ LoseSecret(c) \/ EnterSecret(c)
      PROVE  Orderly'
  BY <1>2 DEF Remove, LoseSecret, EnterSecret
<1>3. ASSUME NEW t \in Ticks, BeginFlush(t) PROVE Orderly'
  BY <1>0, <1>3 DEF BeginFlush, Flush
<1>4. ASSUME NEW t \in Ticks, Skip(t) \/ Send(t) PROVE Orderly'
  <2>1. PICK m \in Oldest(flush[t]) :
          \/ flush' = [flush EXCEPT ![t].todo = @ \ {m}, ![t].seen[m] = 0]
          \/ flush' = [flush EXCEPT ![t].pc = "sending", ![t].at = m, ![t].todo = @ \ {m}]
    BY <1>4 DEF Skip, Send
  <2>2. flush[t].pc = "walk"
    BY <1>4 DEF Skip, Send
  <2>3. CASE flush' = [flush EXCEPT ![t].todo = @ \ {m}, ![t].seen[m] = 0]
    BY <1>0, <2>2, <2>3 DEF Flush
  <2>4. CASE flush' = [flush EXCEPT ![t].pc = "sending", ![t].at = m, ![t].todo = @ \ {m}]
    BY <1>0, <2>4 DEF Flush
  <2>5. QED
    BY <2>1, <2>3, <2>4
<1>5. ASSUME NEW t \in Ticks, Throw(t) \/ EndFlush(t) PROVE Orderly'
  BY <1>0, <1>5 DEF Throw, EndFlush, Idle
<1>6. ASSUME NEW t \in Ticks, Land(t) \/ Overrun(t) PROVE Orderly'
  <2>1. CASE Land(t)
    BY <1>0, <2>1 DEF Land, Flush
  <2>2. CASE Overrun(t)
    BY <1>0, <2>2 DEF Overrun, Flush
  <2>3. QED
    BY <1>6, <2>1, <2>2
<1>7. ASSUME NEW t \in Ticks, NEW m, flush' = Walking(t, m) PROVE Orderly'
  BY <1>0, <1>7 DEF Walking, Flush
<1>8. ASSUME NEW t \in Ticks, Answered(t) PROVE Orderly'
  BY <1>7, <1>8 DEF Answered
<1>9. ASSUME NEW t \in Ticks, NEW transient \in BOOLEAN,
             Refused(t, transient) \/ LostAnswer(t, transient)
      PROVE  Orderly'
  BY <1>7, <1>9 DEF Refused, LostAnswer, MarkFailed
<1>10. CASE Elapse
  BY <1>10 DEF Elapse
<1>11. CASE Crash
  BY <1>11 DEF Crash, Idle
<1>12. CASE UNCHANGED vars
  BY <1>12 DEF vars
<1>13. QED
  BY <1>1, <1>2, <1>3, <1>4, <1>5, <1>6, <1>8, <1>9, <1>10, <1>11, <1>12
     DEF Next, Walk, Return

\* What markSent and markFailed do to the messages they are not about.
LEMMA OthersAfterAnswer ==
  ASSUME Typed, Typed', NEW t \in Ticks, flush[t].at \in Messages,
         flush' = Walking(t, flush[t].at), NEW x \in Messages, x # flush[t].at,
         PaidFor(x), Untold(x), status'[x] = status[x], heard' = heard,
         present' = present, mishaps' >= mishaps
  PROVE  PaidFor(x)' /\ Untold(x)'
<1>1. /\ \A u \in Ticks \ {t} : flush'[u] = flush[u]
      /\ flush'[t].todo = flush[t].todo /\ flush'[t].pc = "walk"
      /\ flush'[t].late = flush[t].late
  BY DEF Walking, Typed, TypeOK, Flush
<1>2. Bearers(x)' = Bearers(x)
  BY <1>1 DEF Bearers
<1>3. InHand(x) => InHand(x)'
  BY <1>1 DEF InHand
<1>4. QED
  BY <1>2, <1>3, Kept DEF Untold

-----------------------------------------------------------------------------
\* The account stays balanced: one step of the proof per action.
LEMMA BalancedStep == Typed /\ Balanced /\ [Next]_vars => Balanced'
<1> SUFFICES ASSUME Typed, Balanced, [Next]_vars, NEW m \in Messages
             PROVE  PaidFor(m)' /\ Untold(m)'
  BY OrderlyStep DEF Balanced
<1>0. /\ Typed' /\ PaidFor(m) /\ Untold(m) /\ Orderly
      /\ flush \in [Ticks -> Flush] /\ mishaps \in Nat
  BY TypedStep, OwedType DEF Balanced, Typed, TypeOK
<1> DEFINE Goal == PaidFor(m)' /\ Untold(m)'
<1>1. ASSUME NEW k \in Keys, NEW enabled \in SUBSET present, Enqueue(k, enabled)
      PROVE  Goal
  <2>1. UNCHANGED <<flush, heard, present, mishaps>>
    BY <1>1 DEF Enqueue, world, settings
  <2>2. CASE m \in Queued(k, enabled)
    <3>1. m[1] \in present /\ status[m] = "none"
      BY <2>2 DEF Queued
    <3>2. heard[m] = 0 /\ Bearers(m) = {}
      BY <1>0, <3>1 DEF Untold
    <3>3. Bearers(m)' = {} /\ heard'[m] = 0 /\ status'[m] = "pending"
      BY <1>1, <2>1, <2>2, <3>2 DEF Enqueue, Bearers
    <3>4. Cardinality(Bearers(m)') = 0 /\ Owing(m)' \in {0, 1}
      BY <3>3, FS_EmptySet DEF Owing
    <3>5. QED
      BY <1>0, <2>1, <3>3, <3>4 DEF PaidFor, Untold
  <2>3. CASE m \notin Queued(k, enabled)
    <3>1. status'[m] = status[m] /\ mishaps' >= mishaps /\ present' \subseteq present
      BY <1>0, <1>1, <2>1, <2>3 DEF Enqueue
    <3>2. flush' = flush /\ heard'[m] = heard[m]
      BY <2>1
    <3>3. QED
      BY <1>0, <3>1, <3>2, FlushesKept
  <2>4. QED
    BY <2>2, <2>3
<1>2. ASSUME NEW c \in Channels, Remove(c) PROVE Goal
  <2>1. /\ UNCHANGED <<flush, heard, mishaps>> /\ present' = present \ {c}
        /\ status'[m] = (IF m[1] = c THEN "none" ELSE status[m])
    BY <1>2 DEF Remove, world
  <2>2. /\ flush' = flush /\ heard'[m] = heard[m]
        /\ mishaps' >= mishaps /\ present' \subseteq present
        /\ status'[m] = status[m] \/ (status'[m] = "none" /\ m[1] \notin present')
    BY <1>0, <2>1
  <2>3. QED
    BY <1>0, <2>2, FlushesKept
<1>3. ASSUME NEW c \in Channels, LoseSecret(c) \/ EnterSecret(c) PROVE Goal
  <2>1. UNCHANGED <<flush, heard, status, present>> /\ mishaps' >= mishaps
    BY <1>0, <1>3 DEF LoseSecret, EnterSecret, world, rows
  <2>2. /\ flush' = flush /\ heard'[m] = heard[m] /\ status'[m] = status[m]
        /\ mishaps' >= mishaps /\ present' \subseteq present
    BY <2>1
  <2>3. QED
    BY <1>0, <2>2, FlushesKept
<1>4. ASSUME NEW t \in Ticks, BeginFlush(t) PROVE Goal
  <2>1. UNCHANGED <<heard, status, present, mishaps>> /\ flush[t].pc = "idle"
          /\ \A u \in Ticks : flush[u].pc # "idle" => flush[u].late
    BY <1>4 DEF BeginFlush, settings, world, rows
  <2>2. PICK b \in Batches :
          flush' = [flush EXCEPT ![t].pc = "walk", ![t].todo = b,
                     ![t].seen = [x \in Messages |-> IF x \in b THEN attempts[x] ELSE 0]]
    BY <1>4 DEF BeginFlush
  <2>3. /\ \A u \in Ticks \ {t} : flush'[u] = flush[u]
        /\ flush'[t].todo = b /\ flush'[t].pc = "walk" /\ ~flush'[t].late
    BY <1>0, <2>1, <2>2 DEF Flush, Orderly
  <2>4. ~InHand(m) /\ t \notin Bearers(m)
    BY <1>0, <2>1 DEF InHand, Bearers, Orderly
  <2>5. CASE m \in b
    <3>1. status[m] = "pending"
      BY <2>5 DEF Batches, Due
    <3>2. Bearers(m)' = Bearers(m) \cup {t} /\ InHand(m)'
      BY <2>3, <2>5 DEF Bearers, InHand
    <3>3. Cardinality(Bearers(m)') = Cardinality(Bearers(m)) + 1
      BY <2>4, <3>2, BearersFinite, FS_AddElement
    <3>4. Owing(m) = 1 /\ Owing(m)' = 0
      BY <2>4, <3>1, <3>2 DEF Owing
    <3>5. QED
      BY <1>0, <2>1, <3>1, <3>3, <3>4, OwedType, BearersFinite DEF PaidFor, Untold
  <2>6. CASE m \notin b
    <3>1. Bearers(m)' = Bearers(m)
      BY <2>3, <2>4, <2>6 DEF Bearers
    <3>2. QED
      BY <1>0, <2>1, <2>4, <3>1, Kept DEF Untold
  <2>7. QED
    BY <2>5, <2>6
<1>5. ASSUME NEW t \in Ticks, Skip(t) \/ Send(t) PROVE Goal
  <2>1. PICK x \in Oldest(flush[t]) :
          \/ flush' = [flush EXCEPT ![t].todo = @ \ {x}, ![t].seen[x] = 0]
          \/ flush' = [flush EXCEPT ![t].pc = "sending", ![t].at = x, ![t].todo = @ \ {x}]
    BY <1>5 DEF Skip, Send
  <2>2. flush[t].pc = "walk" /\ UNCHANGED <<heard, status, present, mishaps>>
    BY <1>5 DEF Skip, Send, settings, world, rows
  <2> DEFINE skipped == [flush[t] EXCEPT !.todo = @ \ {x}, !.seen[x] = 0]
             sent == [flush[t] EXCEPT !.pc = "sending", !.at = x, !.todo = @ \ {x}]
  <2>3. CASE flush' = [flush EXCEPT ![t] = skipped]
    <3>1. /\ skipped.pc = "walk" /\ skipped.late = flush[t].late
          /\ skipped.todo \subseteq flush[t].todo
      BY <1>0, <2>2 DEF Flush
    <3>2. QED
      BY <1>0, <2>2, <2>3, <3>1, LetGo
  <2>4. CASE flush' = [flush EXCEPT ![t] = sent]
    <3>1. /\ sent.pc = "sending" /\ sent.late = flush[t].late /\ sent.at = x
          /\ sent.todo \subseteq flush[t].todo /\ x \in flush[t].todo
      BY <1>0 DEF Flush, Oldest
    <3>2. QED
      BY <1>0, <2>2, <2>4, <3>1, LetGo
  <2>5. flush' = [flush EXCEPT ![t] = skipped] \/ flush' = [flush EXCEPT ![t] = sent]
    BY <1>0, <2>1
  <2>6. QED
    BY <2>3, <2>4, <2>5
<1>6. ASSUME NEW t \in Ticks, Throw(t) \/ EndFlush(t) PROVE Goal
  <2>1. flush[t].pc = "walk" /\ UNCHANGED <<heard, status, present, mishaps>>
          /\ flush' = [flush EXCEPT ![t] = Idle]
    BY <1>6 DEF Throw, EndFlush, settings, world, rows
  <2>2. Idle.pc = "idle" /\ Idle.todo = {}
    BY DEF Idle
  <2>3. QED
    BY <1>0, <2>1, <2>2, LetGo
<1>7. ASSUME NEW t \in Ticks, Land(t) PROVE Goal
  <2>1. /\ flush[t].pc = "sending" /\ UNCHANGED <<status, present, mishaps>>
        /\ heard' = [heard EXCEPT ![flush[t].at] = @ + 1]
        /\ flush[t].at \notin flush[t].todo
    BY <1>0, <1>7 DEF Land, settings, rows, Orderly
  <2>2. /\ \A u \in Ticks \ {t} : flush'[u] = flush[u]
        /\ flush'[t].pc = "landed" /\ flush'[t].at = flush[t].at
        /\ flush'[t].todo = flush[t].todo /\ flush'[t].late = flush[t].late
    BY <1>0, <1>7 DEF Land, Flush
  <2>3. InHand(m) => InHand(m)'
    BY <2>1, <2>2 DEF InHand
  <2>4. CASE m = flush[t].at
    <3>1. t \in Bearers(m) /\ Bearers(m)' = Bearers(m) \ {t}
      BY <2>1, <2>2, <2>4 DEF Bearers
    <3>2. heard'[m] = heard[m] + 1
      BY <2>1, <2>4 DEF Typed, TypeOK
    <3>3. PaidFor(m)'
      BY <1>0, <2>1, <2>3, <3>1, <3>2, HeardOf
    <3>4. Untold(m)'
      BY <1>0, <2>1, <3>1 DEF Untold
    <3>5. QED
      BY <3>3, <3>4
  <2>5. CASE m # flush[t].at
    <3>1. Bearers(m)' = Bearers(m) /\ heard'[m] = heard[m]
      BY <2>1, <2>2, <2>5 DEF Bearers, Typed, TypeOK
    <3>2. QED
      BY <1>0, <2>1, <2>3, <3>1, Kept DEF Untold
  <2>6. QED
    BY <2>4, <2>5
<1>8. ASSUME NEW t \in Ticks, flush[t].pc \in {"sending", "landed"},
             NEW x \in Messages, x = flush[t].at, flush' = Walking(t, x)
      PROVE  /\ flush[t].pc = "landed" => Bearers(x)' = Bearers(x)
             /\ flush[t].pc = "sending" =>
                  t \in Bearers(x) /\ Bearers(x)' = Bearers(x) \ {t}
  <2>1. x \notin flush[t].todo
    BY <1>0, <1>8 DEF Orderly
  <2>2. /\ \A u \in Ticks \ {t} : flush'[u] = flush[u]
        /\ flush'[t].todo = flush[t].todo /\ flush'[t].pc = "walk"
    BY <1>0, <1>8 DEF Walking, Flush
  <2>3. CASE flush[t].pc = "landed"
    BY <1>8, <2>1, <2>2, <2>3 DEF Bearers
  <2>4. CASE flush[t].pc = "sending"
    BY <1>8, <2>1, <2>2, <2>4 DEF Bearers
  <2>5. QED
    BY <1>8, <2>1, <2>3, <2>4
<1>9. ASSUME NEW t \in Ticks, Answered(t) PROVE Goal
  <2>0. PICK x \in Messages : x = flush[t].at
    BY <1>9 DEF Answered, Typed, Carrying
  <2>1. /\ flush[t].pc = "landed" /\ flush' = Walking(t, x)
        /\ UNCHANGED <<heard, present, mishaps>>
        /\ \/ status' = status /\ status[x] = "none"
           \/ status' = [status EXCEPT ![x] = "sent"]
    BY <1>9, <2>0 DEF Answered, Exists, settings, world
  <2>2. Bearers(x)' = Bearers(x)
    BY <1>8, <2>0, <2>1
  <2>3. CASE m = x
    <3>1. status'[m] # "pending" /\ (status'[m] = "none" => status[m] = "none")
      BY <2>1, <2>2, <2>3 DEF Typed, TypeOK
    <3>2. Bearers(m)' = Bearers(m) /\ heard'[m] = heard[m] /\ mishaps' >= mishaps
      BY <1>0, <2>1, <2>2, <2>3
    <3>3. PaidFor(m)'
      BY <1>0, <3>1, <3>2, Kept
    <3>4. Untold(m)'
      BY <1>0, <2>1, <3>1, <3>2 DEF Untold
    <3>5. QED
      BY <3>3, <3>4
  <2>4. CASE m # x
    <3>1. status'[m] = status[m]
      BY <2>1, <2>4 DEF Typed, TypeOK
    <3>2. QED
      BY <1>0, <2>0, <2>1, <2>4, <3>1, OthersAfterAnswer
  <2>5. QED
    BY <2>3, <2>4
<1>10. ASSUME NEW t \in Ticks, NEW transient \in BOOLEAN,
              Refused(t, transient) \/ LostAnswer(t, transient)
       PROVE  Goal
  <2>0. PICK x \in Messages : x = flush[t].at
    BY <1>10 DEF Refused, LostAnswer, Typed, Carrying
  <2>1. /\ flush' = Walking(t, x) /\ UNCHANGED <<heard, present>>
        /\ status' = status \/ (status[x] # "none" /\
             \E s \in {"pending", "failed"} : status' = [status EXCEPT ![x] = s])
    BY <1>10, <2>0 DEF Refused, LostAnswer, MarkFailed, Exists, settings
  <2>2. \/ flush[t].pc = "sending" /\ mishaps' = mishaps
        \/ flush[t].pc = "landed" /\ mishaps' = mishaps + 1
    BY <1>10 DEF Refused, LostAnswer
  <2>3. \/ flush[t].pc = "landed" /\ Bearers(x)' = Bearers(x)
        \/ flush[t].pc = "sending" /\ t \in Bearers(x) /\ Bearers(x)' = Bearers(x) \ {t}
    BY <1>8, <2>0, <2>1, <2>2
  <2>4. CASE m = x
    <3>1. PaidFor(m)'
      <4> heard'[m] = heard[m]
        BY <2>1
      <4>1. CASE flush[t].pc = "sending"
        <5>1. t \in Bearers(m) /\ Bearers(m)' = Bearers(m) \ {t} /\ mishaps' = mishaps
          BY <2>2, <2>3, <2>4, <4>1
        <5>2. QED
          BY <1>0, <5>1, Dropped
      <4>2. CASE flush[t].pc = "landed"
        <5>1. Bearers(m)' \subseteq Bearers(m) /\ mishaps' = mishaps + 1
          BY <2>2, <2>3, <2>4, <4>2
        <5>2. QED
          BY <1>0, <5>1, Excused
      <4>3. QED
        BY <2>2, <4>1, <4>2
    <3>2. status'[m] = "none" => status[m] = "none"
      BY <2>1, <2>3, <2>4 DEF Typed, TypeOK
    <3>3. Untold(m)'
      <4>1. Bearers(m)' \subseteq Bearers(m)
        BY <2>3, <2>4
      <4>2. QED
        BY <1>0, <2>1, <3>2, <4>1 DEF Untold
    <3>4. QED
      BY <3>1, <3>3
  <2>5. CASE m # x
    <3>1. status'[m] = status[m] /\ mishaps' >= mishaps
      BY <1>0, <2>1, <2>2, <2>5 DEF Typed, TypeOK
    <3>2. QED
      BY <1>0, <2>0, <2>1, <2>5, <3>1, OthersAfterAnswer
  <2>6. QED
    BY <2>4, <2>5
<1>11. ASSUME NEW t \in Ticks, Overrun(t) PROVE Goal
  <2>1. \A u \in Ticks : /\ flush'[u].pc = flush[u].pc /\ flush'[u].at = flush[u].at
                         /\ flush'[u].todo = flush[u].todo
    BY <1>0, <1>11 DEF Overrun, Flush
  <2>2. Bearers(m)' = Bearers(m)
    BY <2>1 DEF Bearers
  <2>3. UNCHANGED <<heard, status, present>> /\ mishaps' = mishaps + 1
    BY <1>11 DEF Overrun, settings, rows, world
  <2>4. heard'[m] = heard[m] /\ status'[m] = status[m] /\ present' = present
    BY <2>3
  <2>5. PaidFor(m)'
    BY <1>0, <2>2, <2>3, <2>4, Excused
  <2>6. QED
    BY <1>0, <2>2, <2>4, <2>5 DEF Untold
<1>12. CASE Elapse
  <2>1. UNCHANGED <<flush, heard, status, present, mishaps>>
    BY <1>12 DEF Elapse, settings, world
  <2>2. /\ flush' = flush /\ heard'[m] = heard[m] /\ status'[m] = status[m]
        /\ mishaps' >= mishaps /\ present' \subseteq present
    BY <1>0, <2>1
  <2>3. QED
    BY <1>0, <2>2, FlushesKept
<1>13. CASE Crash
  <2>1. Bearers(m)' = {}
    BY <1>13 DEF Crash, Idle, Bearers
  <2>2. UNCHANGED <<heard, status, present>> /\ mishaps' = mishaps + 1
    BY <1>13 DEF Crash, settings, rows, world
  <2>3. heard'[m] = heard[m] /\ status'[m] = status[m] /\ present' = present
    BY <2>2
  <2>4. Bearers(m)' \subseteq Bearers(m)
    BY <2>1
  <2>5. PaidFor(m)'
    BY <1>0, <2>2, <2>3, <2>4, Excused
  <2>6. QED
    BY <1>0, <2>1, <2>3, <2>5 DEF Untold
<1>14. CASE UNCHANGED vars
  <2>1. UNCHANGED <<flush, heard, status, present, mishaps>>
    BY <1>14 DEF vars, settings, rows, world
  <2>2. /\ flush' = flush /\ heard'[m] = heard[m] /\ status'[m] = status[m]
        /\ mishaps' >= mishaps /\ present' \subseteq present
    BY <1>0, <2>1
  <2>3. QED
    BY <1>0, <2>2, FlushesKept
<1>15. QED
  BY <1>1, <1>2, <1>3, <1>4, <1>5, <1>6, <1>7, <1>9, <1>10, <1>11, <1>12, <1>13, <1>14
     DEF Next, Walk, Return

\* Nothing is heard, on its way or due before the first alert.
LEMMA BalancedInit == Init => Balanced
<1> SUFFICES ASSUME Init PROVE Balanced
  OBVIOUS
<1>1. Orderly
  BY DEF Init, Orderly, Idle
<1>2. ASSUME NEW m \in Messages PROVE PaidFor(m) /\ Untold(m)
  <2>1. Bearers(m) = {} /\ heard[m] = 0 /\ status[m] = "none" /\ mishaps = 0
    BY DEF Init, Bearers, Idle, Zero
  <2>2. Cardinality(Bearers(m)) = 0 /\ Owing(m) = 0
    BY <2>1, FS_EmptySet DEF Owing
  <2>3. QED
    BY <2>1, <2>2 DEF PaidFor, Untold
<1>3. QED
  BY <1>1, <1>2 DEF Balanced

\* The unique key of the outbox keeps every later tick from telling the same thing
\* again: a message is heard once, and once more per mishap at most, for any number
\* of channels, messages and flushes that overlap.
THEOREM ToldOnce == Spec => []AnnouncedOnce
<1>1. Typed /\ Balanced => AnnouncedOnce
  BY OwedType, BearersFinite DEF Balanced, PaidFor, AnnouncedOnce
<1>2. QED
  BY <1>1, TypedInit, TypedStep, BalancedInit, BalancedStep, PTL DEF Spec
=============================================================================
