------------------------------ MODULE Sessions ------------------------------
(***************************************************************************)
(* The one password of an install (auth/index.ts), the sessions it is      *)
(* traded for (auth/sessions.ts), the delay after wrong attempts           *)
(* (auth/throttle.ts), and the routes of auth-routes.ts. A request passes  *)
(* the gate when its headers are there and is handled when its body is, so *)
(* that others are handled in between.                                     *)
(***************************************************************************)
EXTENDS Integers, FiniteSets, FiniteSetsExt

CONSTANTS
  Tokens,      \* the sessions ever minted, 1..n (bound)
  Addresses,   \* where attempts come from
  Browsers,    \* requests to change the password that are under way at once (bound)
  FreeAttempts, MaxDelay, ForgetAfter,   \* of throttle.ts, with FIRST_DELAY_MS as the unit
  SessionTtl,
  MaxSet,      \* bound: passwords set, after the one of the environment
  MaxClock     \* bound: the clock

SessionsAssumption ==
  /\ {FreeAttempts, MaxDelay, ForgetAfter, SessionTtl, MaxSet, MaxClock} \subseteq Nat
  /\ MaxDelay > 0

VARIABLES
  password,   \* ui_password by version: 0 without, 1 the one of SCHEDULER_UI_PASSWORD
  seeded,     \* ui_password_seeded_at is there
  seeds,      \* how often the environment's was copied
  sessions,   \* [Tokens -> the row of a session]
  failures,   \* [Addresses -> the record of the throttle]
  streak,     \* [Addresses -> wrong attempts in a row, and when the first of them was]
  request,    \* [Browsers -> what passed the gate]
  serving,    \* the password is written and the sessions are not revoked yet
  cut,        \* the program stopped there
  up, clock, changed

doorVars == <<password, seeded, seeds, sessions, failures, streak, request, serving, cut, up, clock, changed>>

NoSession == [is |-> "none", since |-> 0, expires |-> 0]
NoFailure == [n |-> 0, until |-> 0, at |-> 0]

SessionsTypeOK ==
  /\ password \in 0..(MaxSet + 1) /\ seeded \in BOOLEAN /\ seeds \in Nat
  /\ sessions \in [Tokens -> [is : {"none", "live", "revoked", "deleted"},
                              since : 0..MaxSet, expires : 0..(MaxClock + SessionTtl)]]
  /\ failures \in [Addresses -> [n : Nat, until : 0..(MaxClock + MaxDelay), at : 0..MaxClock]]
  /\ streak \in [Addresses -> [n : Nat, from : 0..MaxClock]]
  /\ request \in [Browsers -> {"none", "set", "clear"}] /\ serving \in {"none", "set", "clear"}
  /\ cut \in BOOLEAN /\ up \in BOOLEAN /\ clock \in 0..MaxClock /\ changed \in 0..MaxSet

SessionsInit ==
  /\ password = 0 /\ seeded = FALSE /\ seeds = 0 /\ sessions = [t \in Tokens |-> NoSession]
  /\ failures = [a \in Addresses |-> NoFailure] /\ streak = [a \in Addresses |-> [n |-> 0, from |-> 0]]
  /\ request = [b \in Browsers |-> "none"] /\ serving = "none" /\ cut = FALSE
  /\ up = FALSE /\ clock = 0 /\ changed = 0

Valid(t) == sessions[t].is = "live" /\ sessions[t].expires > clock
Serves == up /\ serving = "none"

\* The fingerprint of a token nobody has seen before.
Mint(now) ==
  LET unused == {t \in Tokens : sessions[t].is = "none"}
      t == CHOOSE u \in unused : \A v \in unused : u <= v
  IN /\ unused # {}
     /\ sessions' = [now EXCEPT ![t] = [is |-> "live", since |-> changed', expires |-> clock + SessionTtl]]

-----------------------------------------------------------------------------
\* Starting and stopping.

\* Mutant: the environment's password wins at every start.
AlwaysSeeds == TRUE

Seeds == ~seeded

Start(env) ==
  /\ ~up /\ up' = TRUE /\ failures' = [a \in Addresses |-> NoFailure]
  /\ streak' = [a \in Addresses |-> [n |-> 0, from |-> 0]]
  /\ IF env /\ Seeds THEN password' = 1 /\ seeded' = TRUE /\ seeds' = seeds + 1
     ELSE UNCHANGED <<password, seeded, seeds>>
  /\ UNCHANGED <<sessions, request, serving, cut, clock, changed>>

Stop ==
  /\ up /\ up' = FALSE /\ request' = [b \in Browsers |-> "none"]
  /\ cut' = (cut \/ serving # "none") /\ serving' = "none"
  /\ UNCHANGED <<password, seeded, seeds, sessions, failures, streak, clock, changed>>

Elapses ==
  /\ clock < MaxClock /\ clock' = clock + 1 /\ serving = "none"
  /\ UNCHANGED <<password, seeded, seeds, sessions, failures, streak, request, serving, cut,
                 up, changed>>

\* Every hour.
SweepSessions ==
  /\ Serves
  /\ sessions' = [t \in Tokens |->
       IF sessions[t].is # "none" /\ ~Valid(t) THEN [NoSession EXCEPT !.is = "deleted"] ELSE sessions[t]]
  /\ UNCHANGED <<password, seeded, seeds, failures, streak, request, serving, cut, up, clock,
                 changed>>

-----------------------------------------------------------------------------
\* Signing in and out.

Forgotten(a) == clock - failures[a].at > ForgetAfter
RetryAfter(a) == IF Forgotten(a) THEN 0 ELSE Max({failures[a].until - clock, 0})

\* 2 ** k
Doubled[k \in Nat] == IF k = 0 THEN 1 ELSE 2 * Doubled[k - 1]

\* Mutant: nothing caps it.
Uncapped(n) == IF n <= FreeAttempts THEN 0 ELSE Doubled[n - FreeAttempts - 1]

Delay(n) == IF n <= FreeAttempts THEN 0 ELSE Min({Doubled[n - FreeAttempts - 1], MaxDelay})

\* A wrong attempt. (prune() takes no record that would still count.)
Fail(a) ==
  LET n == IF failures[a].n > 0 /\ ~Forgotten(a) THEN failures[a].n + 1 ELSE 1 IN
    /\ failures' = [failures EXCEPT ![a] = [n |-> n, until |-> clock + Delay(n), at |-> clock]]
    /\ streak' = [streak EXCEPT ![a] = IF n = 1 THEN [n |-> 1, from |-> clock] ELSE [n |-> @.n + 1, from |-> @.from]]

Login(a, right) ==
  /\ Serves /\ password # 0 /\ RetryAfter(a) = 0
  /\ IF right
     THEN /\ changed' = changed /\ Mint(sessions)
          /\ failures' = [failures EXCEPT ![a] = NoFailure]
          /\ streak' = [streak EXCEPT ![a] = [n |-> 0, from |-> 0]]
     ELSE Fail(a) /\ UNCHANGED <<sessions, changed>>
  /\ UNCHANGED <<password, seeded, seeds, request, serving, cut, up, clock>>

Logout(t) ==
  /\ Serves /\ sessions[t].is = "live" /\ sessions' = [sessions EXCEPT ![t].is = "revoked"]
  /\ UNCHANGED <<password, seeded, seeds, failures, streak, request, serving, cut, up, clock,
                 changed>>

-----------------------------------------------------------------------------
\* Changing the password.

\* The gate: open without a password, else for a session that is good now.
PassesGate(b) ==
  /\ Serves /\ request[b] = "none" /\ (password = 0 \/ \E t \in Tokens : Valid(t))
  /\ \E what \in {"set", "clear"} : request' = [request EXCEPT ![b] = what]
  /\ UNCHANGED <<password, seeded, seeds, sessions, failures, streak, serving, cut, up, clock,
                 changed>>

\* setPassword and clearPassword write first; the seeded marker stays.
WritePassword(b) ==
  /\ Serves /\ request[b] # "none" /\ \E t \in Tokens : sessions[t].is = "none"
  /\ changed < MaxSet /\ changed' = changed + 1
  /\ password' = IF request[b] = "set" THEN changed' + 1 ELSE 0
  /\ serving' = request[b] /\ request' = [request EXCEPT ![b] = "none"]
  /\ UNCHANGED <<seeded, seeds, sessions, failures, streak, cut, up, clock>>

\* Mutant: sessions that have expired are the ones revoked.
RevokesStale == [t \in Tokens |-> IF Valid(t) THEN sessions[t] ELSE [sessions[t] EXCEPT !.is = IF @ = "live" THEN "revoked" ELSE @]]

RevokesAll == [t \in Tokens |-> [sessions[t] EXCEPT !.is = IF @ = "live" THEN "revoked" ELSE @]]

\* And revoke then; whoever set a password is signed in again.
RevokeAll ==
  /\ up /\ serving # "none" /\ serving' = "none" /\ cut' = FALSE /\ changed' = changed
  /\ IF serving = "set" THEN Mint(RevokesAll) ELSE sessions' = RevokesAll
  /\ UNCHANGED <<password, seeded, seeds, failures, streak, request, up, clock>>

SessionsNext ==
  \/ Stop \/ Elapses \/ SweepSessions \/ RevokeAll
  \/ \E env \in BOOLEAN : Start(env)
  \/ \E a \in Addresses, right \in BOOLEAN : Login(a, right)
  \/ \E t \in Tokens : Logout(t)
  \/ \E b \in Browsers : PassesGate(b) \/ WritePassword(b)

SessionsSpec == SessionsInit /\ [][SessionsNext]_doorVars

-----------------------------------------------------------------------------
\* Nobody who signed in with an earlier password is still signed in, whichever of several
\* changes is handled last, and across restarts: unless the program stopped between the
\* writing of the password and the revoking.
SignedOut ==
  serving = "none" /\ ~cut => \A t \in Tokens : Valid(t) => sessions[t].since = changed

\* The environment's password is copied once ever: no restart brings it back, after it was
\* changed or taken off.
SeededOnce == seeds <= 1

\* What k delays come to, one after the other.
Delays[k \in Nat] == IF k = 0 THEN 0 ELSE Delays[k - 1] + Min({Doubled[k - 1], MaxDelay})

\* A guesser gets the free attempts, the one that starts the delays, and one more for each
\* delay that has gone by since, however it times them.
GuessesBounded ==
  \A a \in Addresses :
    LET waited == {k \in 1..MaxClock : Delays[k] <= clock - streak[a].from}
    IN streak[a].n <= FreeAttempts + 1 + Cardinality(waited)
=============================================================================
