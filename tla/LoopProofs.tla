----------------------------- MODULE LoopProofs -----------------------------
(***************************************************************************)
(* The scheduler's loop and the connections it looks after. The guard of   *)
(* App.tick implements the promise of TickTurns, for any number of calls   *)
(* in flight and any deadline. For any devices, any number of passes and   *)
(* requests at once and any number of instances, no connection leaks, a    *)
(* change of settings takes effect, and a backoff is respected.            *)
(***************************************************************************)
EXTENDS TickGuard, Connections, TLAPS

-----------------------------------------------------------------------------
(* The guard *)

\* The token and the flag of app.ts agree with the calls in flight: a call that
\* is awaiting and owns the token has the flag set.
THEOREM TickGuardHeld == Spec => []GuardHeld
<1>1. Init => GuardHeld
  <2> SUFFICES ASSUME Init PROVE GuardHeld
    OBVIOUS
  <2>1. TypeOK
    <3>1. ticking \in BOOLEAN /\ token \in Ticks
      BY DEF Init
    <3>2. age \in 0..Deadline
      BY TickGuardAssumption DEF Init
    <3>3. call \in [Ticks -> {"none", "awaiting"}]
      BY DEF Init
    <3>4. QED
      BY <3>1, <3>2, <3>3 DEF TypeOK
  <2>2. \A t \in Ticks : call[t] = "none"
    BY DEF Init
  <2>3. QED
    BY <2>1, <2>2 DEF GuardHeld
<1>2. GuardHeld /\ [Next]_vars => GuardHeld'
  <2> SUFFICES ASSUME GuardHeld, [Next]_vars PROVE GuardHeld'
    OBVIOUS
  <2> USE TickGuardAssumption DEF GuardHeld, TypeOK
  <2>1. ASSUME NEW t \in Ticks, Enter(t) PROVE GuardHeld'
    BY <2>1 DEF Enter
  <2>2. ASSUME NEW t \in Ticks, Leave(t) PROVE GuardHeld'
    BY <2>2 DEF Leave, FlagAfter
  <2>3. CASE Elapse
    BY <2>3 DEF Elapse
  <2>4. CASE UNCHANGED vars
    BY <2>4 DEF vars
  <2>5. QED
    BY <2>1, <2>2, <2>3, <2>4 DEF Next
<1>3. QED
  BY <1>1, <1>2, PTL DEF Spec

\* The turn of every call, as TickTurns sees it.
Seen == [t \in Ticks |-> TurnOf(t)]

\* No call is in time beside another when the guard admits one.
LEMMA NobodyGoing ==
  ASSUME GuardHeld, Admits, NEW u \in Ticks
  PROVE  TurnOf(u) # "going"
BY TickGuardAssumption DEF GuardHeld, TypeOK, Admits, TurnOf

\* An Enter is a Begin: whoever held the guard before was late and stays so.
LEMMA EnterBegins ==
  ASSUME GuardHeld, NEW t \in Ticks, Enter(t)
  PROVE  Turns!Begin(t)
<1> USE DEF Enter
<1>1. TurnOf(t) = "idle"
  BY DEF TurnOf
<1>2. \A u \in Ticks : TurnOf(u) # "going"
  BY NobodyGoing
<1>3. TurnOf(t)' = "going"
  BY TickGuardAssumption DEF TurnOf, GuardHeld, TypeOK
<1>4. ASSUME NEW u \in Ticks, u # t PROVE TurnOf(u)' = TurnOf(u)
  BY <1>2, <1>4 DEF TurnOf, GuardHeld, TypeOK
<1>5. QED
  BY <1>1, <1>2, <1>3, <1>4 DEF Turns!Begin

\* A Leave is an End, and moves nobody else's turn: an abandoned call leaves
\* the flag to its successor.
LEMMA LeaveEnds ==
  ASSUME GuardHeld, NEW t \in Ticks, Leave(t)
  PROVE  Turns!End(t)
<1> USE DEF Leave, FlagAfter
<1>1. TurnOf(t) # "idle"
  BY DEF TurnOf
<1>2. TurnOf(t)' = "idle"
  BY DEF TurnOf, GuardHeld, TypeOK
<1>3. ASSUME NEW u \in Ticks, u # t PROVE TurnOf(u)' = TurnOf(u)
  BY <1>3 DEF TurnOf, GuardHeld, TypeOK
<1>4. QED
  BY <1>1, <1>2, <1>3 DEF Turns!End

\* Time passing is a GiveUp when the owner reaches its deadline, and otherwise
\* no step at all.
LEMMA ElapseGivesUp ==
  ASSUME GuardHeld, Elapse
  PROVE  (\E t \in Ticks : Turns!GiveUp(t)) \/ Seen' = Seen
<1> USE TickGuardAssumption DEF GuardHeld, TypeOK, Elapse
<1>1. ASSUME NEW u \in Ticks, u # token PROVE TurnOf(u)' = TurnOf(u)
  BY <1>1 DEF TurnOf
<1>2. CASE TurnOf(token)' = TurnOf(token)
  BY <1>1, <1>2 DEF Seen
<1>3. CASE TurnOf(token)' # TurnOf(token)
  <2>1. TurnOf(token) = "going" /\ TurnOf(token)' = "late"
    BY <1>3 DEF TurnOf
  <2>2. Turns!GiveUp(token)
    BY <1>1, <2>1 DEF Turns!GiveUp
  <2>3. QED
    BY <2>2
<1>4. QED
  BY <1>2, <1>3

\* App.tick's guard takes turns: never two ticks in time at once, and one that
\* was given up on never frees the guard its successor holds.
THEOREM GuardTakesTurns == Spec => TakesTurns
<1>1. Init => Turns!Init
  BY DEF Init, Turns!Init, TurnOf
<1>2. GuardHeld /\ [Next]_vars => [Turns!Next]_Seen
  <2> SUFFICES ASSUME GuardHeld, [Next]_vars PROVE [Turns!Next]_Seen
    OBVIOUS
  <2>1. ASSUME NEW t \in Ticks, Enter(t) PROVE Turns!Next
    BY <2>1, EnterBegins DEF Turns!Next
  <2>2. ASSUME NEW t \in Ticks, Leave(t) PROVE Turns!Next
    BY <2>2, LeaveEnds DEF Turns!Next
  <2>3. CASE Elapse
    BY <2>3, ElapseGivesUp DEF Turns!Next
  <2>4. CASE UNCHANGED vars
    BY <2>4 DEF vars, Seen, TurnOf
  <2>5. QED
    BY <2>1, <2>2, <2>3, <2>4 DEF Next
<1>3. QED
  BY <1>1, <1>2, TickGuardHeld, PTL DEF Spec, TakesTurns, Turns!Spec, Seen

-----------------------------------------------------------------------------
(* The connections *)

Instance == [device : Equipment \cup {NoDevice}, config : 0..MaxConfigs,
             life : {"none", "live", "disposed"}, sound : BOOLEAN, raced : BOOLEAN]

\* The part of the type that the arguments below need.
Shape ==
  /\ config \in [Equipment -> 0..MaxConfigs]
  /\ held \in [Equipment -> 0..MaxInstances]
  /\ instance \in [Instances -> Instance]
  /\ chain \in [Chains -> Chain]

\* Whoever awaits something awaits it of a device and, once made, of an instance.
Placed ==
  \A c \in Chains :
    /\ chain[c].pc \notin {"idle", "turn"} => Device(c) \in Equipment
    /\ chain[c].pc \notin {"idle", "turn", "creating"} => chain[c].on \in Instances
    /\ chain[c].job = "delete" => chain[c].pc = "closing"
    /\ \A i \in chain[c].known : instance[i].device \in Equipment

Owns(c) == chain[c].pc \in {"probing", "refusing", "closing"}

\* An instance has one owner, the map or a chain that opens or closes it, and is
\* live for as long as it has one.
Owned ==
  /\ \A d \in Equipment : held[d] # 0 => instance[held[d]].life = "live" /\ instance[held[d]].device = d
  /\ \A c \in Chains : Owns(c) =>
       /\ instance[chain[c].on].life = "live" /\ instance[chain[c].on].device = Device(c)
       /\ \A d \in Equipment : held[d] # chain[c].on
       /\ \A e \in Chains : Owns(e) /\ e # c => chain[e].on # chain[c].on

\* Unless somebody else came in between, who opens a device does so alone, with the
\* settings that it has now, and the connection in the map is alone as well.
Current ==
  /\ \A d \in Equipment : \A c \in Opening(d) :
       /\ chain[c].pc = "probing" => instance[chain[c].on].config = chain[c].read
       /\ ~chain[c].raced =>
            /\ chain[c].read = config[d] /\ held[d] = 0 /\ ~Deleting(d)
            /\ \A e \in Opening(d) : e = c
  /\ \A d \in Equipment : held[d] # 0 /\ ~instance[held[d]].raced =>
       instance[held[d]].config = config[d] /\ Opening(d) = {} /\ ~Deleting(d)

\* A live instance is some device's.
Belongs == \A i \in Instances : instance[i].life = "live" => instance[i].device \in Equipment

ConnInv == Shape /\ Placed /\ Belongs /\ Owned /\ Current /\ NoLeak

LEMMA ConnHolds == ASSUME ConnInit PROVE ConnInv
<1>1. Resting \in Chain
  BY ConnectionsAssumption DEF Resting, Chain
<1>2. Unmade \in Instance
  BY ConnectionsAssumption DEF Unmade, Instance
<1>3. Shape
  BY <1>1, <1>2, ConnectionsAssumption DEF ConnInit, Shape
<1>4. \A c \in Chains : chain[c].pc = "idle" /\ chain[c].job = "none" /\ chain[c].known = {}
  BY DEF ConnInit, Resting
<1>5. \A i \in Instances : instance[i].life = "none"
  BY DEF ConnInit, Unmade
<1>6. \A d \in Equipment : held[d] = 0 /\ Opening(d) = {}
  BY <1>4 DEF ConnInit, Opening
<1>7. QED
  BY <1>3, <1>4, <1>5, <1>6 DEF ConnInv, Placed, Belongs, Owned, Owns, Current, NoLeak

\* A chain that keeps its place; another may have come in between.
Stays(e) ==
  /\ chain'[e].pc = chain[e].pc /\ chain'[e].job = chain[e].job /\ chain'[e].device = chain[e].device
  /\ chain'[e].on = chain[e].on /\ chain'[e].read = chain[e].read /\ chain'[e].known = chain[e].known
  /\ chain[e].raced => chain'[e].raced

\* Chain c, afterwards, neither opens nor closes anything.
Uninvolved(c) ==
  /\ chain'[c].pc \in {"idle", "turn", "priming", "calling", "asking", "checking"}
  /\ chain'[c].pc \notin {"idle", "turn"} => chain'[c].device \in Equipment /\ chain'[c].on \in Instances
  /\ chain'[c].job # "delete"
  /\ \A i \in chain'[c].known : instance[i].device \in Equipment

LEMMA GoesOn ==
  ASSUME ConnInv, Shape', NEW c \in Chains, \A e \in Chains : e # c => Stays(e), Uninvolved(c), ~Owns(c),
         UNCHANGED <<config, held, instance>>
  PROVE  ConnInv'
<1>1. Placed'
  BY DEF ConnInv, Placed, Stays, Uninvolved, Device
<1>2. Owned'
  BY DEF ConnInv, Owned, Owns, Stays, Uninvolved, Device
<1>3. \A d : (Deleting(d)' => Deleting(d)) /\ Opening(d)' \subseteq Opening(d) \ {c}
  BY DEF Deleting, Opening, Stays, Uninvolved, Device
<1>4. Current'
  <2>1. ASSUME NEW d \in Equipment, NEW e \in Opening(d)'
        PROVE  /\ chain'[e].pc = "probing" => instance[chain'[e].on].config = chain'[e].read
               /\ ~chain'[e].raced =>
                    /\ chain'[e].read = config[d] /\ held[d] = 0 /\ ~Deleting(d)'
                    /\ \A f \in Opening(d)' : f = e
    <3>1. e \in Opening(d) /\ Stays(e) /\ e \in Chains
      BY <1>3, <2>1 DEF Opening
    <3>2. QED
      BY <1>3, <3>1 DEF ConnInv, Current, Stays
  <2>2. ASSUME NEW d \in Equipment, held[d] # 0, ~instance[held[d]].raced
        PROVE  instance[held[d]].config = config[d] /\ Opening(d)' = {} /\ ~Deleting(d)'
    BY <1>3, <2>2 DEF ConnInv, Current
  <2>3. QED
    BY <2>1, <2>2 DEF Current
<1>5. NoLeak'
  <2>1. ASSUME NEW i \in Instances, InHand(i) PROVE InHand(i)'
    BY <2>1 DEF InHand, Stays, Owns
  <2>2. QED
    BY <2>1 DEF ConnInv, NoLeak
<1>6. Belongs'
  BY DEF ConnInv, Belongs
<1>7. QED
  BY <1>1, <1>2, <1>4, <1>5, <1>6 DEF ConnInv

\* What a chain opens or closes, and what is in the map, are instances.
LEMMA OwnInstances == ASSUME Placed PROVE \A e \in Chains : Owns(e) => chain[e].on \in Instances
BY DEF Placed, Owns

LEMMA HeldInstances == ASSUME Shape PROVE \A d \in Equipment : held[d] # 0 => held[d] \in Instances
<1> SUFFICES ASSUME NEW d \in Equipment, held[d] # 0 PROVE held[d] \in Instances
  OBVIOUS
<1>1. held[d] \in 0..MaxInstances /\ MaxInstances \in Nat
  BY ConnectionsAssumption DEF Shape
<1>2. QED
  BY <1>1 DEF Instances

\* What a chain had in hand is disposed of, and with a deletion the row goes.
LEMMA Discards ==
  ASSUME ConnInv, Shape', NEW c \in Chains, \A e \in Chains : e # c => Stays(e), Uninvolved(c),
         chain[c].pc \in {"refusing", "closing"}, Disposed(chain[c].on), held' = held,
         \/ config' = config
         \/ chain[c].job = "delete" /\ config' = [config EXCEPT ![Device(c)] = 0]
  PROVE  ConnInv'
<1> DEFINE i == chain[c].on
<1>0. /\ i \in Instances /\ Device(c) \in Equipment /\ Owns(c)
      /\ instance \in [Instances -> Instance] /\ config \in [Equipment -> 0..MaxConfigs]
  BY DEF ConnInv, Placed, Owns, Shape
<1>1. /\ \A j \in Instances : j # i => instance'[j] = instance[j]
      /\ instance'[i].device = instance[i].device /\ instance'[i].life = "disposed"
  BY <1>0 DEF Disposed, Unmade
<1>2. \A j \in Instances : instance'[j].device = instance[j].device
  BY <1>1
<1>3. /\ \A d \in Equipment : held[d] # i
      /\ \A e \in Chains : Owns(e) /\ e # c => chain[e].on # i
  BY <1>0 DEF ConnInv, Owned
<1>4. /\ \A e \in Chains : Owns(e) => chain[e].on \in Instances
      /\ \A d \in Equipment : held[d] # 0 => held[d] \in Instances
  BY OwnInstances, HeldInstances DEF ConnInv
<1>5. \A d \in Equipment : Deleting(d) \/ config'[d] = config[d]
  <2>1. chain[c].job = "delete" => Deleting(Device(c))
    BY DEF Deleting
  <2>2. QED
    BY <1>0, <2>1
<1>6. Placed'
  <2>1. ASSUME NEW e \in Chains, NEW j \in chain'[e].known PROVE instance[j].device \in Equipment
    BY <2>1 DEF ConnInv, Placed, Stays, Uninvolved
  <2>2. ASSUME NEW e \in Chains, NEW j \in chain'[e].known PROVE instance'[j].device \in Equipment
    <3>1. chain'[e] \in Chain
      BY DEF Shape
    <3>2. j \in Instances
      BY <2>2, <3>1 DEF Chain
    <3>3. QED
      BY <1>2, <2>1, <2>2, <3>2
  <2>3. QED
    BY <2>2 DEF ConnInv, Placed, Stays, Uninvolved, Device
<1>7. Owned'
  BY <1>1, <1>3, <1>4 DEF ConnInv, Owned, Owns, Stays, Uninvolved, Device
<1>8. \A d : (Deleting(d)' => Deleting(d)) /\ Opening(d)' \subseteq Opening(d) \ {c}
  BY DEF Deleting, Opening, Stays, Uninvolved, Device
<1>9. Current'
  <2>1. ASSUME NEW d \in Equipment, NEW e \in Opening(d)'
        PROVE  /\ chain'[e].pc = "probing" => instance'[chain'[e].on].config = chain'[e].read
               /\ ~chain'[e].raced =>
                    /\ chain'[e].read = config'[d] /\ held[d] = 0 /\ ~Deleting(d)'
                    /\ \A f \in Opening(d)' : f = e
    <3>1. e \in Opening(d) /\ Stays(e) /\ e \in Chains /\ e # c
      BY <1>8, <2>1 DEF Opening
    <3>2. chain[e].pc = "probing" => instance'[chain[e].on] = instance[chain[e].on]
      BY <1>1, <1>3, <1>4, <3>1 DEF Owns
    <3>3. QED
      BY <1>5, <1>8, <3>1, <3>2 DEF ConnInv, Current, Stays
  <2>2. ASSUME NEW d \in Equipment, held[d] # 0, ~instance'[held[d]].raced
        PROVE  instance'[held[d]].config = config'[d] /\ Opening(d)' = {} /\ ~Deleting(d)'
    <3>1. instance'[held[d]] = instance[held[d]]
      BY <1>1, <1>3, <1>4, <2>2
    <3>2. QED
      BY <1>5, <1>8, <2>2, <3>1 DEF ConnInv, Current
  <2>3. QED
    BY <2>1, <2>2 DEF Current
<1>10. NoLeak'
  <2>1. ASSUME NEW j \in Instances, j # i, InHand(j) PROVE InHand(j)'
    BY <1>1, <2>1 DEF InHand, Stays
  <2>2. QED
    BY <1>1, <2>1 DEF ConnInv, NoLeak
<1>11. Belongs'
  BY <1>1 DEF ConnInv, Belongs
<1>12. QED
  BY <1>6, <1>7, <1>9, <1>10, <1>11 DEF ConnInv

LEMMA AfterIs ==
  ASSUME ConnInv, NEW c \in Chains
  PROVE  /\ After(c) \in Chain /\ After(c).pc \in {"idle", "turn"} /\ After(c).job # "delete"
         /\ After(c).known \subseteq chain[c].known
<1>1. chain[c] \in Chain
  BY DEF ConnInv, Shape
<1>2. CASE chain[c].job = "tick"
  <2>1. After(c) = [chain[c] EXCEPT !.pc = "turn", !.on = 0, !.device = NoDevice]
    BY <1>2 DEF After
  <2>2. NoDevice \in Equipment \cup {NoDevice} /\ 0 \in 0..MaxInstances
    BY ConnectionsAssumption
  <2>3. /\ After(c).pc = "turn" /\ After(c).job = "tick" /\ After(c).known = chain[c].known
        /\ After(c) \in Chain
    BY <1>1, <1>2, <2>1, <2>2 DEF Chain
  <2>4. QED
    BY <2>3
<1>3. CASE chain[c].job # "tick"
  <2>1. After(c) = Resting
    BY <1>3 DEF After
  <2>2. QED
    BY <2>1, ConnectionsAssumption DEF Resting, Chain
<1>4. QED
  BY <1>2, <1>3

LEMMA FinishIs ==
  ASSUME ConnInv, NEW c \in Chains, Finish(c)
  PROVE  /\ chain' \in [Chains -> Chain] /\ \A e \in Chains : e # c => Stays(e)
         /\ Uninvolved(c)
<1>1. chain \in [Chains -> Chain]
  BY DEF ConnInv, Shape
<1>2. /\ chain' \in [Chains -> Chain] /\ chain'[c] = After(c)
      /\ \A e \in Chains : e # c => chain'[e] = chain[e]
  BY <1>1, AfterIs DEF Finish
<1>3. QED
  BY <1>2, AfterIs DEF Stays, Uninvolved, ConnInv, Placed

LEMMA FailIs ==
  ASSUME ConnInv, NEW c \in Chains, FailAndFinish(c)
  PROVE  /\ chain' \in [Chains -> Chain] /\ \A e \in Chains : e # c => Stays(e)
         /\ Uninvolved(c)
<1> DEFINE d == Device(c)
<1>1. chain \in [Chains -> Chain]
  BY DEF ConnInv, Shape
<1>2. chain' = [Unripe(d) EXCEPT ![c] = [After(c) EXCEPT !.ripe = @ \ {d}]]
  BY DEF FailAndFinish
<1>3. ASSUME NEW e \in Chains
      PROVE  /\ [chain[e] EXCEPT !.ripe = @ \ {d}] \in Chain
             /\ [After(c) EXCEPT !.ripe = @ \ {d}] \in Chain
  <2>1. chain[e] \in Chain /\ After(c) \in Chain
    BY <1>1, AfterIs
  <2>2. QED
    BY <2>1 DEF Chain
<1>4. Unripe(d) \in [Chains -> Chain] /\ \A e \in Chains : Unripe(d)[e] = [chain[e] EXCEPT !.ripe = @ \ {d}]
  BY <1>3 DEF Unripe
<1>5. /\ chain' \in [Chains -> Chain] /\ chain'[c] = [After(c) EXCEPT !.ripe = @ \ {d}]
      /\ \A e \in Chains : e # c => chain'[e] = [chain[e] EXCEPT !.ripe = @ \ {d}]
  BY <1>2, <1>3, <1>4
<1>6. ASSUME NEW e \in Chains, e # c PROVE Stays(e)
  <2>1. chain[e] \in Chain
    BY <1>1
  <2>2. QED
    BY <1>5, <1>6, <2>1 DEF Stays, Chain
<1>7. /\ chain'[c].pc \in {"idle", "turn"} /\ chain'[c].job # "delete"
      /\ chain'[c].known \subseteq chain[c].known
  <2>1. After(c) \in Chain
    BY AfterIs
  <2>2. chain'[c].pc = After(c).pc /\ chain'[c].job = After(c).job /\ chain'[c].known = After(c).known
    BY <1>5, <2>1 DEF Chain
  <2>3. QED
    BY <2>2, AfterIs
<1>8. QED
  BY <1>5, <1>6, <1>7 DEF Uninvolved, ConnInv, Placed

\* A chain that starts to open a device is marked if it is not alone in that, and so
\* are the others.
LEMMA OpeningIs ==
  ASSUME ConnInv, NEW c \in Chains, NEW d \in Equipment, NEW rest \in Chain, StartOpening(c, d, rest)
  PROVE  /\ chain' \in [Chains -> Chain]
         /\ chain'[c].pc = "creating" /\ chain'[c].device = d /\ chain'[c].read = config[d]
         /\ chain'[c].job = rest.job /\ chain'[c].known = rest.known /\ chain'[c].on = rest.on
         /\ ~chain'[c].raced => Opening(d) \ {c} = {} /\ ~Deleting(d)
         /\ \A e \in Chains : e # c => Stays(e) /\ (e \in Opening(d) => chain'[e].raced)
<1> DEFINE clash == Opening(d) \ {c} # {} \/ Deleting(d)
           mine == [rest EXCEPT !.device = d, !.pc = "creating", !.read = config[d], !.raced = clash]
           other(e) == IF e \in Opening(d) THEN [chain[e] EXCEPT !.raced = TRUE] ELSE chain[e]
<1>1. chain \in [Chains -> Chain] /\ config[d] \in 0..MaxConfigs
  BY DEF ConnInv, Shape
<1>2. chain' = [e \in Chains |-> IF e = c THEN mine ELSE other(e)]
  BY DEF StartOpening, Raced
<1>3. clash \in BOOLEAN
  OBVIOUS
<1>4. /\ mine \in Chain /\ mine.pc = "creating" /\ mine.device = d /\ mine.read = config[d]
      /\ mine.job = rest.job /\ mine.known = rest.known /\ mine.on = rest.on /\ mine.raced = clash
  <2> HIDE DEF clash
  <2>1. d \in Equipment \cup {NoDevice}
    OBVIOUS
  <2>2. QED
    BY <1>1, <1>3, <2>1 DEF Chain
<1>5. ASSUME NEW e \in Chains
      PROVE  /\ other(e) \in Chain /\ other(e).pc = chain[e].pc /\ other(e).job = chain[e].job
             /\ other(e).device = chain[e].device /\ other(e).on = chain[e].on
             /\ other(e).read = chain[e].read /\ other(e).known = chain[e].known
             /\ (chain[e].raced => other(e).raced) /\ (e \in Opening(d) => other(e).raced)
  <2>1. chain[e] \in Chain
    BY <1>1
  <2>2. QED
    BY <2>1 DEF Chain
<1> HIDE DEF mine, other
<1>6. chain'[c] = mine /\ \A e \in Chains : e # c => chain'[e] = other(e)
  BY <1>2
<1>7. chain' \in [Chains -> Chain]
  BY <1>2, <1>4, <1>5
<1>8. ~mine.raced => Opening(d) \ {c} = {} /\ ~Deleting(d)
  BY <1>4
<1>9. ASSUME NEW e \in Chains, e # c PROVE Stays(e) /\ (e \in Opening(d) => chain'[e].raced)
  <2>1. chain'[e] = other(e)
    BY <1>6, <1>9
  <2>2. QED
    BY <1>5, <2>1 DEF Stays
<1>10. QED
  BY <1>4, <1>6, <1>7, <1>8, <1>9

LEMMA OpensDevice ==
  ASSUME ConnInv, NEW c \in Chains, NEW d \in Equipment, NEW rest \in Chain, StartOpening(c, d, rest),
         rest.job # "delete", \A i \in rest.known : instance[i].device \in Equipment,
         ~Owns(c), UNCHANGED <<config, held, instance>>
  PROVE  ConnInv'
<1>1. /\ chain' \in [Chains -> Chain]
      /\ chain'[c].pc = "creating" /\ chain'[c].device = d /\ chain'[c].read = config[d]
      /\ chain'[c].job # "delete" /\ chain'[c].known = rest.known
      /\ ~chain'[c].raced => Opening(d) \ {c} = {} /\ ~Deleting(d)
  BY OpeningIs
<1>2. ASSUME NEW e \in Chains, e # c PROVE Stays(e) /\ (e \in Opening(d) => chain'[e].raced)
  BY <1>2, OpeningIs
<1>3. Shape'
  BY <1>1 DEF ConnInv, Shape
<1>4. Placed'
  BY <1>1, <1>2 DEF ConnInv, Placed, Stays, Device
<1>5. Owned'
  BY <1>1, <1>2 DEF ConnInv, Owned, Owns, Stays, Device
<1>6. /\ \A x : Deleting(x)' => Deleting(x)
      /\ \A x : x # d => Opening(x)' \subseteq Opening(x) \ {c}
      /\ Opening(d)' \subseteq Opening(d) \cup {c}
  BY <1>1, <1>2 DEF Deleting, Opening, Stays, Device
<1>7. Current'
  <2>1. ASSUME NEW x \in Equipment, NEW e \in Opening(x)', e # c
        PROVE  /\ chain'[e].pc = "probing" => instance[chain'[e].on].config = chain'[e].read
               /\ ~chain'[e].raced =>
                    /\ chain'[e].read = config[x] /\ held[x] = 0 /\ ~Deleting(x)'
                    /\ \A f \in Opening(x)' : f = e
    <3>1. e \in Opening(x) /\ e \in Chains
      BY <1>6, <2>1 DEF Opening
    <3>2. Stays(e) /\ (x = d => chain'[e].raced)
      BY <1>2, <2>1, <3>1
    <3>3. QED
      BY <1>6, <3>1, <3>2 DEF ConnInv, Current, Stays
  <2>2. ASSUME NEW x \in Equipment, c \in Opening(x)'
        PROVE  /\ chain'[c].pc = "probing" => instance[chain'[c].on].config = chain'[c].read
               /\ ~chain'[c].raced =>
                    /\ chain'[c].read = config[x] /\ held[x] = 0 /\ ~Deleting(x)'
                    /\ \A f \in Opening(x)' : f = c
    <3>1. x = d
      BY <1>1, <2>2 DEF Opening, Device
    <3>2. held[d] = 0
      BY DEF StartOpening
    <3>3. QED
      BY <1>1, <1>6, <3>1, <3>2
  <2>3. ASSUME NEW x \in Equipment, held[x] # 0, ~instance[held[x]].raced
        PROVE  instance[held[x]].config = config[x] /\ Opening(x)' = {} /\ ~Deleting(x)'
    <3>1. x # d
      BY <2>3 DEF StartOpening
    <3>2. QED
      BY <1>6, <2>3, <3>1 DEF ConnInv, Current
  <2>4. QED
    BY <2>1, <2>2, <2>3 DEF Current
<1>8. NoLeak'
  <2>1. ASSUME NEW i \in Instances, InHand(i) PROVE InHand(i)'
    BY <1>2, <2>1 DEF InHand, Stays, Owns
  <2>2. QED
    BY <2>1 DEF ConnInv, NoLeak
<1>9. Belongs'
  BY DEF ConnInv, Belongs
<1>10. QED
  BY <1>3, <1>4, <1>5, <1>7, <1>8, <1>9 DEF ConnInv

\* A chain that finds the device connected uses that connection.
LEMMA UsesHeld ==
  ASSUME ConnInv, NEW c \in Chains, NEW d \in Equipment, NEW rest \in Chain, UseHeld(c, d, rest),
         rest.job # "delete", \A i \in rest.known : instance[i].device \in Equipment,
         ~Owns(c), UNCHANGED <<config, held, instance>>
  PROVE  ConnInv'
<1> DEFINE mine == [rest EXCEPT !.device = d, !.on = held[d], !.pc = "calling"]
           new == IF rest.job = "open" THEN Resting ELSE mine
<1>1. chain \in [Chains -> Chain] /\ held[d] \in 0..MaxInstances /\ held[d] \in Instances
  BY HeldInstances DEF ConnInv, Shape, UseHeld
<1>2. /\ mine \in Chain /\ mine.pc = "calling" /\ mine.device = d /\ mine.on = held[d]
      /\ mine.job = rest.job /\ mine.known = rest.known
  BY <1>1 DEF Chain
<1>3. Resting \in Chain
  BY ConnectionsAssumption DEF Resting, Chain
<1>4. new \in Chain
  BY <1>2, <1>3
<1>5. chain' = [chain EXCEPT ![c] = new]
  BY DEF UseHeld
<1> HIDE DEF mine
<1>6. chain' \in [Chains -> Chain] /\ chain'[c] = new /\ \A e \in Chains : e # c => chain'[e] = chain[e]
  BY <1>1, <1>4, <1>5
<1>7. Uninvolved(c)
  BY <1>1, <1>2, <1>6 DEF Uninvolved, Resting
<1>8. \A e \in Chains : e # c => Stays(e)
  BY <1>6 DEF Stays
<1>9. Shape'
  BY <1>6 DEF ConnInv, Shape
<1>10. QED
  BY <1>7, <1>8, <1>9, GoesOn

\* The adapter made an instance, which nobody else refers to.
LEMMA CreatedHolds ==
  ASSUME ConnInv, NEW c \in Chains, Created(c)
  PROVE  ConnInv'
<1>1. PICK i \in Instances :
        /\ Unused(i)
        /\ instance' = [instance EXCEPT ![i] =
             [device |-> Device(c), config |-> chain[c].read, life |-> "live", sound |-> TRUE,
              raced |-> chain[c].raced]]
        /\ chain' = [chain EXCEPT ![c].pc = "probing", ![c].on = i]
  BY DEF Created
<1>2. chain[c].pc = "creating" /\ UNCHANGED <<config, held>>
  BY DEF Created, deviceRows
<1>3. /\ chain \in [Chains -> Chain] /\ chain[c] \in Chain
      /\ instance \in [Instances -> Instance] /\ Device(c) \in Equipment
  BY <1>2 DEF ConnInv, Shape, Placed
<1>4. i \in 0..MaxInstances
  BY ConnectionsAssumption DEF Instances
<1>5. /\ chain' \in [Chains -> Chain]
      /\ chain'[c].pc = "probing" /\ chain'[c].on = i /\ chain'[c].device = Device(c)
      /\ chain'[c].job = chain[c].job /\ chain'[c].read = chain[c].read
      /\ chain'[c].known = chain[c].known /\ chain'[c].raced = chain[c].raced
  <2> DEFINE new == [chain[c] EXCEPT !.pc = "probing", !.on = i]
  <2>1. /\ new \in Chain /\ new.pc = "probing" /\ new.on = i /\ new.device = Device(c)
        /\ new.job = chain[c].job /\ new.read = chain[c].read
        /\ new.known = chain[c].known /\ new.raced = chain[c].raced
    BY <1>3, <1>4 DEF Chain, Device
  <2>2. chain' = [chain EXCEPT ![c] = new]
    BY <1>1, <1>3
  <2>3. QED
    BY <1>3, <2>1, <2>2
<1>6. \A e \in Chains : e # c => chain'[e] = chain[e]
  BY <1>1, <1>3
<1>7. /\ instance' \in [Instances -> Instance] /\ instance'[i].device = Device(c)
      /\ instance'[i].life = "live" /\ instance'[i].config = chain[c].read
  BY <1>1, <1>3 DEF Instance, Chain
<1>8. \A j \in Instances : j # i => instance'[j] = instance[j]
  BY <1>1, <1>3
<1>9. Shape'
  BY <1>2, <1>5, <1>7 DEF ConnInv, Shape
<1>10. /\ \A e \in Chains : Owns(e) => chain[e].on \in Instances /\ chain[e].on # i
       /\ \A d \in Equipment : held[d] # i /\ (held[d] # 0 => held[d] \in Instances)
  BY <1>1, OwnInstances, HeldInstances DEF ConnInv, Unused
<1>11. Placed'
  <2>1. ASSUME NEW e \in Chains, NEW j \in chain'[e].known PROVE instance'[j].device \in Equipment
    <3>1. j \in chain[e].known
      BY <1>5, <1>6, <2>1
    <3>2. j \in Instances /\ j # i
      BY <1>1, <1>3, <3>1 DEF Unused, Chain
    <3>3. QED
      BY <1>8, <3>1, <3>2 DEF ConnInv, Placed
  <2>2. \A e \in Chains : e # c => Device(e)' = Device(e)
    BY <1>6 DEF Device
  <2>3. QED
    BY <1>2, <1>3, <1>5, <1>6, <2>1, <2>2 DEF ConnInv, Placed, Device
<1>12. Owned'
  BY <1>2, <1>5, <1>6, <1>7, <1>8, <1>10 DEF ConnInv, Owned, Owns, Device
<1>13. \A d : (Deleting(d)' <=> Deleting(d)) /\ Opening(d)' = Opening(d)
  BY <1>2, <1>5, <1>6 DEF Deleting, Opening, Device
<1>14. Current'
  <2>1. ASSUME NEW d \in Equipment, NEW e \in Opening(d)'
        PROVE  /\ chain'[e].pc = "probing" => instance'[chain'[e].on].config = chain'[e].read
               /\ ~chain'[e].raced =>
                    /\ chain'[e].read = config'[d] /\ held'[d] = 0 /\ ~Deleting(d)'
                    /\ \A f \in Opening(d)' : f = e
    <3>1. e \in Opening(d) /\ e \in Chains /\ chain'[e].raced = chain[e].raced /\ chain'[e].read = chain[e].read
      BY <1>5, <1>6, <1>13, <2>1 DEF Opening
    <3>2. chain'[e].pc = "probing" => instance'[chain'[e].on].config = chain'[e].read
      BY <1>5, <1>6, <1>7, <1>8, <1>10, <3>1 DEF ConnInv, Current, Owns
    <3>3. QED
      BY <1>2, <1>13, <3>1, <3>2 DEF ConnInv, Current
  <2>2. ASSUME NEW d \in Equipment, held'[d] # 0, ~instance'[held'[d]].raced
        PROVE  instance'[held'[d]].config = config'[d] /\ Opening(d)' = {} /\ ~Deleting(d)'
    BY <1>2, <1>8, <1>10, <1>13, <2>2 DEF ConnInv, Current
  <2>3. QED
    BY <2>1, <2>2 DEF Current
<1>15. NoLeak'
  <2>1. InHand(i)'
    BY <1>5 DEF InHand
  <2>2. ASSUME NEW j \in Instances, j # i, InHand(j) PROVE InHand(j)'
    BY <1>2, <1>6, <1>8, <2>2 DEF InHand
  <2>3. QED
    BY <1>8, <2>1, <2>2 DEF ConnInv, NoLeak
<1>16. Belongs'
  BY <1>3, <1>7, <1>8 DEF ConnInv, Belongs
<1>17. QED
  BY <1>9, <1>11, <1>12, <1>14, <1>15, <1>16 DEF ConnInv

\* What chain c made enters the map. Whatever it replaces there was marked before.
LEMMA ProbedHolds ==
  ASSUME ConnInv, NEW c \in Chains, Probed(c)
  PROVE  ConnInv'
<1>0. PICK d, i : d = Device(c) /\ i = chain[c].on
  OBVIOUS
<1>1. /\ chain[c].pc = "probing" /\ held' = [held EXCEPT ![d] = i] /\ config' = config
      /\ instance' = [instance EXCEPT ![i].raced = chain[c].raced]
      /\ chain' = [chain EXCEPT ![c].pc = "priming"]
  BY <1>0 DEF Probed, Goto
<1>2. /\ chain \in [Chains -> Chain] /\ chain[c] \in Chain /\ instance \in [Instances -> Instance]
      /\ held \in [Equipment -> 0..MaxInstances] /\ d \in Equipment /\ i \in Instances
      /\ instance[i] \in Instance /\ i \in 0..MaxInstances
  BY <1>0, <1>1 DEF ConnInv, Shape, Placed, Chain
<1>3. Owns(c) /\ c \in Opening(d)
  BY <1>0, <1>1 DEF Owns, Opening
<1>4. /\ chain' \in [Chains -> Chain]
      /\ chain'[c].pc = "priming" /\ chain'[c].on = i /\ chain'[c].device = d
      /\ chain'[c].job = chain[c].job /\ chain'[c].known = chain[c].known
      /\ \A e \in Chains : e # c => chain'[e] = chain[e]
  <2> DEFINE new == [chain[c] EXCEPT !.pc = "priming"]
  <2>1. /\ new \in Chain /\ new.pc = "priming" /\ new.on = i /\ new.device = d
        /\ new.job = chain[c].job /\ new.known = chain[c].known
    BY <1>0, <1>2 DEF Chain, Device
  <2>2. chain' = [chain EXCEPT ![c] = new]
    BY <1>1, <1>2
  <2>3. QED
    BY <1>2, <2>1, <2>2
<1>5. /\ instance' \in [Instances -> Instance] /\ instance'[i].device = instance[i].device
      /\ instance'[i].life = instance[i].life /\ instance'[i].config = instance[i].config
      /\ instance'[i].raced = chain[c].raced
      /\ \A j \in Instances : j # i => instance'[j] = instance[j]
  BY <1>1, <1>2 DEF Instance, Chain
<1>6. /\ held' \in [Equipment -> 0..MaxInstances] /\ held'[d] = i /\ i # 0
      /\ \A x \in Equipment : x # d => held'[x] = held[x]
  BY <1>1, <1>2 DEF Instances
<1>7. Shape'
  BY <1>1, <1>4, <1>5, <1>6 DEF ConnInv, Shape
<1>8. /\ instance[i].life = "live" /\ instance[i].device = d
      /\ \A x \in Equipment : held[x] # i
      /\ \A e \in Chains : Owns(e) /\ e # c => chain[e].on # i
  BY <1>0, <1>2, <1>3 DEF ConnInv, Owned
<1>9. /\ \A e \in Chains : Owns(e) => chain[e].on \in Instances
      /\ \A x \in Equipment : held[x] # 0 => held[x] \in Instances
  BY OwnInstances, HeldInstances DEF ConnInv
<1>10. Placed'
  <2>1. ASSUME NEW e \in Chains, NEW j \in chain'[e].known PROVE instance'[j].device \in Equipment
    <3>1. j \in chain[e].known /\ j \in Instances
      BY <1>2, <1>4, <2>1 DEF Chain
    <3>2. instance'[j].device = instance[j].device
      BY <1>5, <3>1
    <3>3. QED
      BY <3>1, <3>2 DEF ConnInv, Placed
  <2>2. \A e \in Chains : Device(e)' = Device(e)
    BY <1>0, <1>4 DEF Device
  <2>3. QED
    BY <1>1, <1>2, <1>4, <2>1, <2>2 DEF ConnInv, Placed
<1>11. Owned'
  <2>1. \A x \in Equipment : held'[x] # 0 => instance'[held'[x]].life = "live" /\ instance'[held'[x]].device = x
    BY <1>5, <1>6, <1>8, <1>9 DEF ConnInv, Owned
  <2>2. ASSUME NEW e \in Chains, Owns(e)' PROVE e # c /\ Owns(e) /\ chain'[e] = chain[e] /\ chain[e].on # i
    BY <1>4, <1>8, <2>2 DEF Owns
  <2>3. ASSUME NEW e \in Chains, Owns(e)'
        PROVE  /\ instance'[chain'[e].on].life = "live" /\ instance'[chain'[e].on].device = Device(e)'
               /\ \A x \in Equipment : held'[x] # chain'[e].on
               /\ \A f \in Chains : Owns(f)' /\ f # e => chain'[f].on # chain'[e].on
    BY <1>5, <1>6, <1>9, <2>2, <2>3 DEF ConnInv, Owned, Device
  <2>4. QED
    BY <2>1, <2>3 DEF Owned
<1>12. \A x : (Deleting(x)' <=> Deleting(x)) /\ Opening(x)' = Opening(x) \ {c}
  BY <1>1, <1>4 DEF Deleting, Opening, Device
<1>13. \A e \in Opening(d) : e # c => chain[e].raced
  BY <1>2, <1>3 DEF ConnInv, Current
<1>14. held[d] # 0 => instance[held[d]].raced
  BY <1>2, <1>3 DEF ConnInv, Current
<1>15. Current'
  <2>1. ASSUME NEW x \in Equipment, NEW e \in Opening(x)'
        PROVE  /\ chain'[e].pc = "probing" => instance'[chain'[e].on].config = chain'[e].read
               /\ ~chain'[e].raced =>
                    /\ chain'[e].read = config'[x] /\ held'[x] = 0 /\ ~Deleting(x)'
                    /\ \A f \in Opening(x)' : f = e
    <3>1. e \in Opening(x) /\ e # c /\ e \in Chains /\ chain'[e] = chain[e]
      BY <1>4, <1>12, <2>1 DEF Opening
    <3>2. chain[e].pc = "probing" => instance'[chain[e].on] = instance[chain[e].on]
      BY <1>5, <1>8, <1>9, <3>1 DEF Owns
    <3>3. x = d => chain[e].raced
      BY <1>13, <3>1
    <3>4. QED
      BY <1>1, <1>6, <1>12, <3>1, <3>2, <3>3 DEF ConnInv, Current
  <2>2. ASSUME NEW x \in Equipment, held'[x] # 0, ~instance'[held'[x]].raced
        PROVE  instance'[held'[x]].config = config'[x] /\ Opening(x)' = {} /\ ~Deleting(x)'
    <3>1. CASE x = d
      BY <1>0, <1>1, <1>2, <1>3, <1>5, <1>6, <1>12, <2>2, <3>1 DEF ConnInv, Current
    <3>2. CASE x # d
      BY <1>1, <1>5, <1>6, <1>8, <1>9, <1>12, <2>2, <3>2 DEF ConnInv, Current
    <3>3. QED
      BY <3>1, <3>2
  <2>3. QED
    BY <2>1, <2>2 DEF Current
<1>16. NoLeak'
  <2>1. InHand(i)'
    BY <1>5, <1>6, <1>8 DEF InHand
  <2>2. ASSUME NEW j \in Instances, j # i, instance[j].life = "live", InHand(j), ~instance[j].raced
        PROVE  InHand(j)'
    <3>1. instance'[j] = instance[j] /\ instance[j].device \in Equipment /\ j # 0
      BY <1>5, <2>2 DEF ConnInv, Belongs, Instances
    <3>2. CASE held[instance[j].device] = j
      BY <1>6, <1>14, <2>2, <3>1, <3>2 DEF InHand
    <3>3. ASSUME NEW e \in Chains, chain[e].on = j, chain[e].pc \in {"probing", "refusing", "closing"}
          PROVE  InHand(j)'
      BY <1>0, <1>4, <2>2, <3>3 DEF InHand
    <3>4. QED
      BY <2>2, <3>2, <3>3 DEF InHand
  <2>3. QED
    BY <1>5, <2>1, <2>2 DEF ConnInv, NoLeak
<1>17. Belongs'
  BY <1>5 DEF ConnInv, Belongs
<1>18. QED
  BY <1>7, <1>10, <1>11, <1>15, <1>16, <1>17 DEF ConnInv

\* A new instance that does not answer is still the chain's to dispose of.
LEMMA ProbeFailsHolds ==
  ASSUME ConnInv, NEW c \in Chains, ProbeFails(c)
  PROVE  ConnInv'
<1>1. chain[c].pc = "probing" /\ chain' = [chain EXCEPT ![c].pc = "refusing"] /\ UNCHANGED <<config, held, instance>>
  BY DEF ProbeFails, Goto, deviceRows
<1>2. chain \in [Chains -> Chain] /\ chain[c] \in Chain
  BY DEF ConnInv, Shape
<1>3. /\ chain' \in [Chains -> Chain] /\ chain'[c].pc = "refusing"
      /\ \A e \in Chains :
           /\ e # c => chain'[e].pc = chain[e].pc
           /\ chain'[e].job = chain[e].job /\ chain'[e].device = chain[e].device
           /\ chain'[e].on = chain[e].on /\ chain'[e].read = chain[e].read
           /\ chain'[e].known = chain[e].known /\ chain'[e].raced = chain[e].raced
  BY <1>1, <1>2 DEF Chain
<1>4. Shape'
  BY <1>1, <1>3 DEF ConnInv, Shape
<1>5. Placed'
  BY <1>1, <1>3 DEF ConnInv, Placed, Device
<1>6. \A e \in Chains : Owns(e)' <=> Owns(e)
  BY <1>1, <1>3 DEF Owns
<1>7. Owned'
  BY <1>1, <1>3, <1>6 DEF ConnInv, Owned, Device
<1>8. \A x : (Deleting(x)' <=> Deleting(x)) /\ Opening(x)' \subseteq Opening(x)
  BY <1>1, <1>3 DEF Deleting, Opening, Device
<1>9. \A x : \A e \in Opening(x)' : e \in Chains /\ e # c
  BY <1>3 DEF Opening
<1>10. Current'
  BY <1>1, <1>3, <1>8, <1>9 DEF ConnInv, Current
<1>11. NoLeak'
  <2>1. \A i \in Instances : InHand(i) => InHand(i)'
    BY <1>1, <1>3, <1>6 DEF InHand, Owns
  <2>2. QED
    BY <1>1, <2>1 DEF ConnInv, NoLeak
<1>12. Belongs'
  BY <1>1 DEF ConnInv, Belongs
<1>13. QED
  BY <1>4, <1>5, <1>7, <1>10, <1>11, <1>12 DEF ConnInv

\* A chain takes the device's instance out of the map to close it. Who does that
\* because the settings change, or go, marks whoever is opening the device.
LEMMA TakesFromMap ==
  ASSUME ConnInv, Shape', NEW c \in Chains, NEW d \in Equipment, held[d] # 0,
         held' = [held EXCEPT ![d] = 0], instance' = instance,
         chain[c].pc \in {"idle", "asking", "checking"},
         chain'[c].pc = "closing", chain'[c].on = held[d], chain'[c].device = d,
         \A i \in chain'[c].known : instance[i].device \in Equipment,
         \A e \in Chains : e # c => Stays(e),
         \A x \in Equipment : x # d => config'[x] = config[x],
         \/ \A e \in Opening(d) : e # c => chain'[e].raced
         \/ config' = config /\ chain'[c].job # "delete"
  PROVE  ConnInv'
<1>1. ~Owns(c) /\ held[d] \in Instances /\ held \in [Equipment -> 0..MaxInstances]
  BY HeldInstances DEF Owns, ConnInv, Shape
<1>2. held'[d] = 0 /\ \A x \in Equipment : x # d => held'[x] = held[x]
  BY <1>1
<1>3. /\ instance[held[d]].life = "live" /\ instance[held[d]].device = d
      /\ \A x \in Equipment : x # d /\ held[x] # 0 => held[x] # held[d]
      /\ \A e \in Chains : Owns(e) => chain[e].on # held[d]
  BY DEF ConnInv, Owned
<1>4. Placed'
  BY <1>1 DEF ConnInv, Placed, Stays, Device
<1>5. Owned'
  <2>1. ASSUME NEW x \in Equipment, held'[x] # 0
        PROVE  x # d /\ held'[x] = held[x] /\ instance[held[x]].life = "live" /\ instance[held[x]].device = x
    BY <1>2, <2>1 DEF ConnInv, Owned
  <2>2. ASSUME NEW e \in Chains, e # c
        PROVE  (Owns(e)' <=> Owns(e)) /\ chain'[e].on = chain[e].on /\ Device(e)' = Device(e)
    BY <2>2 DEF Owns, Stays, Device
  <2>3. held[d] # 0 /\ \A x \in Equipment : held'[x] # held[d]
    BY <1>2, <1>3
  <2>4. ASSUME NEW e \in Chains, Owns(e)', e # c
        PROVE  /\ instance[chain'[e].on].life = "live" /\ instance[chain'[e].on].device = Device(e)'
               /\ \A x \in Equipment : held'[x] # chain'[e].on
               /\ \A f \in Chains : Owns(f)' /\ f # e => chain'[f].on # chain'[e].on
    <3>1. Owns(e) /\ chain'[e].on = chain[e].on /\ chain[e].on \in Instances
      BY <2>2, <2>4, OwnInstances DEF ConnInv
    <3>2. \A x \in Equipment : held'[x] # chain[e].on
      BY <1>2, <3>1 DEF ConnInv, Owned, Instances
    <3>3. \A f \in Chains : Owns(f)' /\ f # e => chain'[f].on # chain[e].on
      BY <1>3, <2>2, <3>1 DEF ConnInv, Owned
    <3>4. QED
      BY <2>2, <2>4, <3>1, <3>2, <3>3 DEF ConnInv, Owned
  <2>5. \A f \in Chains : Owns(f)' /\ f # c => chain'[f].on # held[d]
    BY <1>3, <2>2
  <2>6. QED
    BY <1>3, <2>1, <2>3, <2>4, <2>5 DEF Owned, Device
<1>6. /\ \A x : Opening(x)' \subseteq Opening(x) \ {c}
      /\ \A x \in Equipment : x # d \/ chain'[c].job # "delete" => (Deleting(x)' => Deleting(x))
  BY DEF Opening, Deleting, Stays, Device
<1>7. Current'
  <2>1. ASSUME NEW x \in Equipment, NEW e \in Opening(x)'
        PROVE  /\ chain'[e].pc = "probing" => instance'[chain'[e].on].config = chain'[e].read
               /\ ~chain'[e].raced =>
                    /\ chain'[e].read = config'[x] /\ held'[x] = 0 /\ ~Deleting(x)'
                    /\ \A f \in Opening(x)' : f = e
    <3>1. e \in Opening(x) /\ e # c /\ e \in Chains /\ Stays(e)
      BY <1>6, <2>1 DEF Opening
    <3>2. x = d => chain'[e].raced
      BY <3>1 DEF ConnInv, Current, Stays
    <3>3. QED
      BY <1>2, <1>6, <3>1, <3>2 DEF ConnInv, Current, Stays
  <2>2. ASSUME NEW x \in Equipment, held'[x] # 0, ~instance'[held'[x]].raced
        PROVE  instance'[held'[x]].config = config'[x] /\ Opening(x)' = {} /\ ~Deleting(x)'
    BY <1>2, <1>6, <2>2 DEF ConnInv, Current
  <2>3. QED
    BY <2>1, <2>2 DEF Current
<1>8. NoLeak'
  <2>1. ASSUME NEW i \in Instances, instance[i].life = "live", InHand(i) PROVE InHand(i)'
    <3>1. instance[i].device \in Equipment
      BY <2>1 DEF ConnInv, Belongs
    <3>2. CASE held[instance[i].device] = i
      <4>1. CASE instance[i].device = d
        BY <3>2, <4>1 DEF InHand
      <4>2. CASE instance[i].device # d
        BY <1>2, <3>1, <3>2, <4>2 DEF InHand
      <4>3. QED
        BY <4>1, <4>2
    <3>3. ASSUME NEW e \in Chains, chain[e].on = i, Owns(e) PROVE InHand(i)'
      BY <1>1, <3>3 DEF InHand, Stays, Owns
    <3>4. QED
      BY <2>1, <3>2, <3>3 DEF InHand, Owns
  <2>2. QED
    BY <2>1 DEF ConnInv, NoLeak
<1>9. Belongs'
  BY DEF ConnInv, Belongs
<1>10. QED
  BY <1>4, <1>5, <1>7, <1>8, <1>9 DEF ConnInv

\* The settings change, or go, of a device that is not connected.
LEMMA RowChanges ==
  ASSUME ConnInv, Shape', NEW d \in Equipment, held[d] = 0, held' = held, instance' = instance,
         \A e \in Chains : Stays(e) /\ (e \in Opening(d) => chain'[e].raced),
         \A x \in Equipment : x # d => config'[x] = config[x]
  PROVE  ConnInv'
<1>1. Placed'
  BY DEF ConnInv, Placed, Stays, Device
<1>2. Owned'
  BY DEF ConnInv, Owned, Owns, Stays, Device
<1>3. \A x : (Deleting(x)' <=> Deleting(x)) /\ Opening(x)' = Opening(x)
  BY DEF Deleting, Opening, Stays, Device
<1>4. \A x : \A e \in Opening(x) : e \in Chains /\ Stays(e) /\ (x = d => chain'[e].raced)
  BY DEF Opening
<1>5. Current'
  BY <1>3, <1>4 DEF ConnInv, Current, Stays
<1>6. NoLeak'
  <2>1. \A i \in Instances : InHand(i) => InHand(i)'
    BY DEF InHand, Stays
  <2>2. QED
    BY <2>1 DEF ConnInv, NoLeak
<1>7. Belongs'
  BY DEF ConnInv, Belongs
<1>8. QED
  BY <1>1, <1>2, <1>5, <1>6, <1>7 DEF ConnInv

\* A failure that was noted costs the device its connection, whichever that is.
LEMMA CloseFailedHolds ==
  ASSUME ConnInv, NEW c \in Chains, chain[c].pc \in {"asking", "checking"}, CloseFailed(c), instance' = instance
  PROVE  ConnInv'
<1>1. /\ chain \in [Chains -> Chain] /\ held \in [Equipment -> 0..MaxInstances] /\ Device(c) \in Equipment
      /\ chain[c].job # "delete" /\ ~Owns(c)
  BY DEF ConnInv, Shape, Placed, Owns
<1>2. CASE held[Device(c)] = 0
  <2>1. FailAndFinish(c) /\ UNCHANGED <<config, held>>
    BY <1>2 DEF CloseFailed
  <2>2. /\ chain' \in [Chains -> Chain] /\ \A e \in Chains : e # c => Stays(e)
        /\ Uninvolved(c)
    BY <2>1, FailIs
  <2>3. Shape'
    BY <2>1, <2>2 DEF ConnInv, Shape
  <2>4. QED
    BY <1>1, <2>1, <2>2, <2>3, GoesOn
<1>3. CASE held[Device(c)] # 0
  <2>0. PICK d, h : d = Device(c) /\ h = held[d]
    OBVIOUS
  <2>1. /\ held' = [held EXCEPT ![d] = 0] /\ config' = config
        /\ chain' = [chain EXCEPT ![c] = [chain[c] EXCEPT !.pc = "closing", !.on = h, !.device = d]]
    BY <1>3, <2>0 DEF CloseFailed, CloseHeld, deviceRows
  <2>2. chain[c] \in Chain /\ h \in 0..MaxInstances /\ d \in Equipment
    BY <1>1, <2>0
  <2> DEFINE new == [chain[c] EXCEPT !.pc = "closing", !.on = h, !.device = d]
  <2>3. /\ new \in Chain /\ new.pc = "closing" /\ new.on = h /\ new.device = d
        /\ new.job = chain[c].job /\ new.known = chain[c].known
    BY <2>2 DEF Chain
  <2> HIDE DEF new
  <2>4. chain' \in [Chains -> Chain] /\ chain'[c] = new /\ \A e \in Chains : e # c => chain'[e] = chain[e]
    BY <1>1, <2>1, <2>3 DEF new
  <2>5. held' \in [Equipment -> 0..MaxInstances]
    <3>1. 0 \in 0..MaxInstances
      BY ConnectionsAssumption
    <3>2. QED
      BY <1>1, <2>1, <3>1
  <2>6. Shape'
    BY <2>1, <2>4, <2>5 DEF ConnInv, Shape
  <2>7. \A e \in Chains : e # c => Stays(e)
    BY <2>4 DEF Stays
  <2>8. \A i \in chain'[c].known : instance[i].device \in Equipment
    BY <2>3, <2>4 DEF ConnInv, Placed
  <2>9. held[d] # 0
    BY <1>3, <2>0
  <2>10. chain'[c].pc = "closing" /\ chain'[c].on = held[d] /\ chain'[c].device = d /\ chain'[c].job # "delete"
    BY <1>1, <2>0, <2>3, <2>4
  <2>11. QED
    BY <2>1, <2>2, <2>6, <2>7, <2>8, <2>9, <2>10, TakesFromMap
<1>4. QED
  BY <1>2, <1>3

\* The row was written, or is to go, and the connection made with it is closed.
LEMMA CloseStaleHolds ==
  ASSUME ConnInv, NEW c \in Chains, NEW d \in Equipment, chain[c].pc = "idle",
         NEW job \in {"change", "delete"}, CloseStale(c, d, job), instance' = instance,
         config' \in [Equipment -> 0..MaxConfigs], \A x \in Equipment : x # d => config'[x] = config[x]
  PROVE  ConnInv'
<1> DEFINE other(e) == IF e \in Opening(d) THEN [chain[e] EXCEPT !.raced = TRUE] ELSE chain[e]
           marked == [e \in Chains |-> other(e)]
<1>1. PICK rest : rest = [Resting EXCEPT !.job = job, !.device = d, !.pc = "closing", !.on = held[d]]
  OBVIOUS
<1>2. /\ held' = [held EXCEPT ![d] = 0]
      /\ chain' = IF held[d] # 0 THEN [marked EXCEPT ![c] = rest] ELSE marked
  BY <1>1 DEF CloseStale
<1>3. /\ chain \in [Chains -> Chain] /\ held \in [Equipment -> 0..MaxInstances]
      /\ held[d] \in 0..MaxInstances /\ 0 \in 0..MaxInstances
  BY ConnectionsAssumption DEF ConnInv, Shape
<1>4. /\ rest \in Chain /\ rest.job = job /\ rest.device = d /\ rest.pc = "closing" /\ rest.on = held[d]
      /\ rest.known = {}
  <2>1. Resting \in Chain /\ Resting.known = {}
    BY <1>3, ConnectionsAssumption DEF Resting, Chain
  <2>2. job \in AllJobs /\ d \in Equipment \cup {NoDevice}
    BY DEF AllJobs
  <2>3. QED
    BY <1>1, <1>3, <2>1, <2>2 DEF Chain
<1>5. ASSUME NEW e \in Chains
      PROVE  /\ other(e) \in Chain /\ other(e).pc = chain[e].pc /\ other(e).job = chain[e].job
             /\ other(e).device = chain[e].device /\ other(e).on = chain[e].on
             /\ other(e).read = chain[e].read /\ other(e).known = chain[e].known
             /\ (chain[e].raced => other(e).raced) /\ (e \in Opening(d) => other(e).raced)
  <2>1. chain[e] \in Chain
    BY <1>3
  <2>2. QED
    BY <2>1 DEF Chain
<1> HIDE DEF other
<1>6. held' \in [Equipment -> 0..MaxInstances]
  BY <1>2, <1>3
<1>7. CASE held[d] = 0
  <2>1. chain' = marked
    BY <1>2, <1>7
  <2>2. \A e \in Chains : chain'[e] = other(e)
    BY <2>1
  <2>3. \A e \in Chains : Stays(e) /\ (e \in Opening(d) => chain'[e].raced)
    BY <1>5, <2>2 DEF Stays
  <2>4. chain' \in [Chains -> Chain]
    BY <1>5, <2>1
  <2>5. Shape'
    BY <1>6, <2>4 DEF ConnInv, Shape
  <2>6. held' = held
    BY <1>2, <1>3, <1>7
  <2>7. QED
    BY <1>7, <2>3, <2>5, <2>6, RowChanges
<1>8. CASE held[d] # 0
  <2>1. chain' = [marked EXCEPT ![c] = rest]
    BY <1>2, <1>8
  <2>2. chain'[c] = rest /\ \A e \in Chains : e # c => chain'[e] = other(e)
    BY <2>1
  <2>3. ASSUME NEW e \in Chains, e # c PROVE Stays(e) /\ (e \in Opening(d) => chain'[e].raced)
    BY <1>5, <2>2, <2>3 DEF Stays
  <2>4. chain' \in [Chains -> Chain]
    BY <1>4, <1>5, <2>1
  <2>5. Shape'
    BY <1>6, <2>4 DEF ConnInv, Shape
  <2>6. /\ chain'[c].pc = "closing" /\ chain'[c].on = held[d] /\ chain'[c].device = d
        /\ chain'[c].known = {}
    BY <1>4, <2>2
  <2>7. \A e \in Opening(d) : e # c => chain'[e].raced
    BY <2>3 DEF Opening
  <2>8. \A i \in chain'[c].known : instance[i].device \in Equipment
    BY <2>6
  <2>9. QED
    BY <1>2, <1>8, <2>3, <2>5, <2>6, <2>7, <2>8, TakesFromMap
<1>9. QED
  BY <1>7, <1>8

\* The chain's call fails, or its work is over, and it had nothing in hand.
LEMMA EndsHolds ==
  ASSUME ConnInv, NEW c \in Chains, ~Owns(c), Finish(c) \/ FailAndFinish(c),
         UNCHANGED <<config, held, instance>>
  PROVE  ConnInv'
<1>1. chain' \in [Chains -> Chain] /\ (\A e \in Chains : e # c => Stays(e)) /\ Uninvolved(c)
  BY FinishIs, FailIs
<1>2. Shape'
  BY <1>1 DEF ConnInv, Shape
<1>3. QED
  BY <1>1, <1>2, GoesOn

\* A chain that goes to another of its places, with nothing in hand.
LEMMA GoesHolds ==
  ASSUME ConnInv, NEW c \in Chains, ~Owns(c), chain[c].pc \notin {"idle", "turn", "creating"},
         NEW pc \in {"calling", "asking"}, Goto(c, pc), UNCHANGED <<config, held, instance>>
  PROVE  ConnInv'
<1>1. chain \in [Chains -> Chain] /\ chain[c] \in Chain
  BY DEF ConnInv, Shape
<1> DEFINE new == [chain[c] EXCEPT !.pc = pc]
<1>2. /\ new \in Chain /\ new.pc = pc /\ new.job = chain[c].job /\ new.device = chain[c].device
      /\ new.on = chain[c].on /\ new.known = chain[c].known
  BY <1>1 DEF Chain
<1>3. chain' = [chain EXCEPT ![c] = new]
  BY <1>1 DEF Goto
<1> HIDE DEF new
<1>4. chain' \in [Chains -> Chain] /\ chain'[c] = new /\ \A e \in Chains : e # c => chain'[e] = chain[e]
  BY <1>1, <1>2, <1>3
<1>5. \A e \in Chains : e # c => Stays(e)
  BY <1>4 DEF Stays
<1>6. Uninvolved(c)
  BY <1>2, <1>4 DEF Uninvolved, ConnInv, Placed, Owns, Device
<1>7. Shape'
  BY <1>4 DEF ConnInv, Shape
<1>8. QED
  BY <1>5, <1>6, <1>7, GoesOn

\* What the chain had in hand is disposed of, and its work is over.
LEMMA DisposesHolds ==
  ASSUME ConnInv, NEW c \in Chains, chain[c].pc \in {"refusing", "closing"},
         Disposed(chain[c].on), Finish(c) \/ FailAndFinish(c), held' = held,
         \/ config' = config
         \/ chain[c].job = "delete" /\ config' = [config EXCEPT ![Device(c)] = 0]
  PROVE  ConnInv'
<1>1. chain' \in [Chains -> Chain] /\ (\A e \in Chains : e # c => Stays(e)) /\ Uninvolved(c)
  BY FinishIs, FailIs
<1>2. instance' \in [Instances -> Instance]
  <2>1. chain[c].on \in Instances /\ instance \in [Instances -> Instance]
    BY DEF ConnInv, Placed, Shape
  <2>2. [Unmade EXCEPT !.device = instance[chain[c].on].device, !.life = "disposed"] \in Instance
    <3>1. Unmade \in Instance
      BY ConnectionsAssumption DEF Unmade, Instance
    <3>2. instance[chain[c].on].device \in Equipment \cup {NoDevice}
      BY <2>1 DEF Instance
    <3>3. QED
      BY <3>1, <3>2 DEF Instance
  <2>3. QED
    BY <2>1, <2>2 DEF Disposed
<1>3. config' \in [Equipment -> 0..MaxConfigs]
  <2>1. config \in [Equipment -> 0..MaxConfigs] /\ 0 \in 0..MaxConfigs
    BY ConnectionsAssumption DEF ConnInv, Shape
  <2>2. QED
    BY <2>1
<1>4. Shape'
  BY <1>1, <1>2, <1>3 DEF ConnInv, Shape
<1>5. QED
  BY <1>1, <1>4, Discards

LEMMA OpenStepHolds ==
  ASSUME ConnInv, NEW c \in Chains, OpenStep(c)
  PROVE  ConnInv'
<1>1. ASSUME CreateFails(c) PROVE ConnInv'
  BY <1>1, EndsHolds DEF CreateFails, Owns
<1>2. ASSUME Refused(c) PROVE ConnInv'
  BY <1>2, DisposesHolds DEF Refused
<1>3. ASSUME Primed(c) PROVE ConnInv'
  BY <1>3, EndsHolds, GoesHolds DEF Primed, Owns, deviceRows
<1>4. QED
  BY <1>1, <1>2, <1>3, CreatedHolds, ProbedHolds, ProbeFailsHolds DEF OpenStep

LEMMA CloseStepHolds ==
  ASSUME ConnInv, NEW c \in Chains, CloseStep(c)
  PROVE  ConnInv'
<1>1. ASSUME ClosedAfterFailure(c) PROVE ConnInv'
  BY <1>1, DisposesHolds DEF ClosedAfterFailure
<1>2. ASSUME ClosedForChange(c) PROVE ConnInv'
  BY <1>2, DisposesHolds DEF ClosedForChange, deviceRows
<1>3. ASSUME ClosedForDeletion(c) PROVE ConnInv'
  BY <1>3, DisposesHolds DEF ClosedForDeletion, RowGone
<1>4. QED
  BY <1>1, <1>2, <1>3 DEF CloseStep

\* What is read back is asked again through invoke(), with one poll less.
LEMMA ObeyedHolds ==
  ASSUME ConnInv, NEW c \in Chains, Obeyed(c)
  PROVE  ConnInv'
<1>1. chain[c].pc = "calling" /\ ~Owns(c) /\ UNCHANGED <<config, held, instance>>
  BY DEF Obeyed, Owns, deviceRows
<1>2. chain[c] \in Chain /\ Device(c) \in Equipment
  BY <1>1 DEF ConnInv, Shape, Placed
<1>3. PICK again : again = [chain[c] EXCEPT !.polls = @ - 1, !.on = 0]
  OBVIOUS
<1>4. CASE Finish(c)
  BY <1>1, <1>4, EndsHolds
<1>5. CASE /\ chain[c].job = "apply" /\ chain[c].polls > 0
           /\ UseHeld(c, Device(c), again) \/ StartOpening(c, Device(c), again)
  <2>1. chain[c].polls - 1 \in 0..Polls /\ 0 \in 0..MaxInstances
    <3>1. chain[c].polls \in 0..Polls
      BY <1>2 DEF Chain
    <3>2. QED
      BY <1>5, <3>1, ConnectionsAssumption
  <2>2. again \in Chain /\ again.job = chain[c].job /\ again.known = chain[c].known
    BY <1>2, <1>3, <2>1 DEF Chain
  <2>3. again.job # "delete" /\ \A i \in again.known : instance[i].device \in Equipment
    BY <1>5, <2>2 DEF ConnInv, Placed
  <2>4. QED
    BY <1>1, <1>2, <1>5, <2>2, <2>3, UsesHeld, OpensDevice
<1>6. QED
  BY <1>3, <1>4, <1>5 DEF Obeyed

LEMMA CallStepHolds ==
  ASSUME ConnInv, NEW c \in Chains, CallStep(c)
  PROVE  ConnInv'
<1>1. ASSUME Failed(c) PROVE ConnInv'
  BY <1>1, GoesHolds DEF Failed, Owns, deviceRows
<1>2. ASSUME StillHealthy(c) PROVE ConnInv'
  BY <1>2, EndsHolds DEF StillHealthy, Owns, deviceRows
<1>3. ASSUME Unhealthy(c) PROVE ConnInv'
  BY <1>3, CloseFailedHolds DEF Unhealthy
<1>4. QED
  BY <1>1, <1>2, <1>3, ObeyedHolds DEF CallStep

\* What a tick is to check are connections of devices.
LEMMA ConnectedAre ==
  ASSUME ConnInv
  PROVE  Connected \subseteq Instances /\ \A i \in Connected : instance[i].device \in Equipment
<1> SUFFICES ASSUME NEW i \in Connected PROVE i \in Instances /\ instance[i].device \in Equipment
  OBVIOUS
<1>1. PICK d \in Equipment : i = held[d] /\ held[d] # 0
  BY DEF Connected
<1>2. QED
  BY <1>1, HeldInstances DEF ConnInv, Owned

LEMMA BeginTickHolds ==
  ASSUME ConnInv, NEW c \in Chains, BeginTick(c)
  PROVE  ConnInv'
<1>1. chain \in [Chains -> Chain]
  BY DEF ConnInv, Shape
<1>2. PICK new : new = [Resting EXCEPT !.pc = "turn", !.job = "tick", !.known = Connected,
                          !.ripe = {d \in Equipment : wait[d] = 0}, !.todo = Equipment]
  OBVIOUS
<1>3. ~Owns(c) /\ chain' = [chain EXCEPT ![c] = new] /\ UNCHANGED <<config, held, instance>>
  BY <1>2 DEF BeginTick, Owns, deviceRows
<1>4. new \in Chain /\ new.pc = "turn" /\ new.job = "tick" /\ new.known = Connected
  <2>1. {d \in Equipment : wait[d] = 0} \subseteq Equipment /\ Connected \subseteq Instances
    BY ConnectedAre
  <2>2. Resting \in Chain
    BY ConnectionsAssumption DEF Resting, Chain
  <2>3. QED
    BY <1>2, <2>1, <2>2 DEF Chain
<1>5. chain' \in [Chains -> Chain] /\ chain'[c] = new /\ \A e \in Chains : e # c => chain'[e] = chain[e]
  BY <1>1, <1>3, <1>4
<1>6. Uninvolved(c)
  BY <1>4, <1>5, ConnectedAre DEF Uninvolved
<1>7. (\A e \in Chains : e # c => Stays(e)) /\ Shape'
  BY <1>3, <1>5 DEF Stays, ConnInv, Shape
<1>8. QED
  BY <1>3, <1>6, <1>7, GoesOn

LEMMA CheckHolds ==
  ASSUME ConnInv, NEW c \in Chains, Check(c)
  PROVE  ConnInv'
<1>1. PICK i \in chain[c].known :
        chain' = [chain EXCEPT ![c].pc = "checking", ![c].on = i, ![c].device = instance[i].device,
                    ![c].known = @ \ {i}]
  BY DEF Check
<1>2. chain[c].pc = "turn" /\ ~Owns(c) /\ UNCHANGED <<config, held, instance>>
  BY DEF Check, Owns, deviceRows
<1>3. chain \in [Chains -> Chain] /\ chain[c] \in Chain
  BY DEF ConnInv, Shape
<1>4. i \in Instances /\ i \in 0..MaxInstances /\ instance[i].device \in Equipment
  BY <1>3, ConnectionsAssumption DEF Chain, Instances, ConnInv, Placed
<1> DEFINE new == [chain[c] EXCEPT !.pc = "checking", !.on = i, !.device = instance[i].device,
                     !.known = @ \ {i}]
<1>5. /\ new \in Chain /\ new.pc = "checking" /\ new.on = i /\ new.device = instance[i].device
      /\ new.known \subseteq chain[c].known /\ new.job = chain[c].job
  BY <1>3, <1>4 DEF Chain
<1>6. chain' = [chain EXCEPT ![c] = new]
  BY <1>1, <1>3
<1> HIDE DEF new
<1>7. chain' \in [Chains -> Chain] /\ chain'[c] = new /\ \A e \in Chains : e # c => chain'[e] = chain[e]
  BY <1>3, <1>5, <1>6
<1>8. Uninvolved(c)
  BY <1>2, <1>4, <1>5, <1>7 DEF Uninvolved, ConnInv, Placed
<1>9. (\A e \in Chains : e # c => Stays(e)) /\ Shape'
  BY <1>2, <1>7 DEF Stays, ConnInv, Shape
<1>10. QED
  BY <1>2, <1>8, <1>9, GoesOn

\* A tick opens a device that is due, and has no device or instance of its own.
LEMMA ReconnectHolds ==
  ASSUME ConnInv, NEW c \in Chains, Reconnect(c)
  PROVE  ConnInv'
<1>1. PICK d \in chain[c].todo : StartOpening(c, d, [chain[c] EXCEPT !.todo = @ \ {d}])
  BY DEF Reconnect
<1>2. chain[c].pc = "turn" /\ ~Owns(c) /\ UNCHANGED <<config, held, instance>>
  BY DEF Reconnect, Owns, deviceRows
<1>3. PICK rest : rest = [chain[c] EXCEPT !.todo = @ \ {d}]
  OBVIOUS
<1>4. chain[c] \in Chain
  BY DEF ConnInv, Shape
<1>5. d \in Equipment /\ rest \in Chain /\ rest.job = chain[c].job /\ rest.known = chain[c].known
  BY <1>1, <1>3, <1>4 DEF Chain
<1>6. rest.job # "delete" /\ \A i \in rest.known : instance[i].device \in Equipment
  BY <1>2, <1>5 DEF ConnInv, Placed
<1>7. QED
  BY <1>1, <1>2, <1>3, <1>5, <1>6, OpensDevice

LEMMA EndTickHolds ==
  ASSUME ConnInv, NEW c \in Chains, EndTick(c)
  PROVE  ConnInv'
<1>1. ~Owns(c) /\ chain' = [chain EXCEPT ![c] = Resting] /\ UNCHANGED <<config, held, instance>>
  BY DEF EndTick, Owns, deviceRows
<1>2. chain \in [Chains -> Chain] /\ Resting \in Chain
  BY ConnectionsAssumption DEF ConnInv, Shape, Resting, Chain
<1>3. /\ chain' \in [Chains -> Chain] /\ chain'[c] = Resting
      /\ \A e \in Chains : e # c => chain'[e] = chain[e]
  BY <1>1, <1>2
<1>4. Uninvolved(c)
  BY <1>3 DEF Uninvolved, Resting
<1>5. (\A e \in Chains : e # c => Stays(e)) /\ Shape'
  BY <1>1, <1>3 DEF Stays, ConnInv, Shape
<1>6. QED
  BY <1>1, <1>4, <1>5, GoesOn

LEMMA TickStepHolds ==
  ASSUME ConnInv, NEW c \in Chains, TickStep(c)
  PROVE  ConnInv'
<1>1. ASSUME Checked(c) PROVE ConnInv'
  BY <1>1, EndsHolds DEF Checked, Owns
<1>2. ASSUME CheckFails(c) PROVE ConnInv'
  BY <1>2, CloseFailedHolds DEF CheckFails
<1>3. QED
  BY <1>1, <1>2, CheckHolds, ReconnectHolds, EndTickHolds DEF TickStep

LEMMA AskHolds ==
  ASSUME ConnInv, NEW c \in Chains, NEW d \in Equipment, NEW job \in {"invoke", "apply"},
         AskOpen(c, d) \/ AskDevice(c, d, job)
  PROVE  ConnInv'
<1>1. ~Owns(c) /\ UNCHANGED <<config, held, instance>>
  BY DEF AskOpen, AskDevice, Owns, deviceRows
<1>2. Resting \in Chain
  BY ConnectionsAssumption DEF Resting, Chain
<1>3. CASE AskOpen(c, d)
  <2>1. PICK rest : rest = [Resting EXCEPT !.job = "open"]
    OBVIOUS
  <2>2. rest \in Chain /\ rest.job = "open" /\ rest.known = {}
    BY <1>2, <2>1 DEF Resting, Chain, AllJobs
  <2>3. StartOpening(c, d, rest)
    BY <1>3, <2>1 DEF AskOpen
  <2>4. rest.job # "delete" /\ \A i \in rest.known : instance[i].device \in Equipment
    BY <2>2
  <2>5. QED
    BY <1>1, <2>2, <2>3, <2>4, OpensDevice
<1>4. CASE AskDevice(c, d, job)
  <2>1. PICK rest : rest = [Resting EXCEPT !.job = job, !.polls = IF job = "apply" THEN Polls ELSE 0]
    OBVIOUS
  <2>2. rest \in Chain /\ rest.job = job /\ rest.known = {}
    <3>1. (IF job = "apply" THEN Polls ELSE 0) \in 0..Polls
      BY ConnectionsAssumption
    <3>2. QED
      BY <1>2, <2>1, <3>1 DEF Resting, Chain, AllJobs
  <2>3. StartOpening(c, d, rest) \/ UseHeld(c, d, rest)
    BY <1>4, <2>1 DEF AskDevice
  <2>4. rest.job # "delete" /\ \A i \in rest.known : instance[i].device \in Equipment
    BY <2>2
  <2>5. QED
    BY <1>1, <2>2, <2>3, <2>4, OpensDevice, UsesHeld
<1>5. QED
  BY <1>3, <1>4

LEMMA RequestHolds ==
  ASSUME ConnInv, NEW c \in Chains, Request(c)
  PROVE  ConnInv'
<1>1. PICK d \in Equipment :
        \/ AskOpen(c, d)
        \/ \E job \in {"invoke", "apply"} : AskDevice(c, d, job) \/ ByHand(c, d, job)
        \/ Change(c, d)
        \/ Delete(c, d)
  BY DEF Request
<1>2. config \in [Equipment -> 0..MaxConfigs]
  BY DEF ConnInv, Shape
<1>3. ASSUME NEW job \in {"invoke", "apply"}, AskOpen(c, d) \/ AskDevice(c, d, job) \/ ByHand(c, d, job)
      PROVE  ConnInv'
  BY <1>3, AskHolds DEF ByHand
<1>4. CASE Change(c, d)
  <2>1. /\ chain[c].pc = "idle" /\ CloseStale(c, d, "change") /\ instance' = instance
        /\ config[d] \in 1..(MaxConfigs - 1) /\ config' = [config EXCEPT ![d] = @ + 1]
    BY <1>4 DEF Change
  <2>2. config[d] + 1 \in 0..MaxConfigs
    BY <2>1, ConnectionsAssumption
  <2>3. config' \in [Equipment -> 0..MaxConfigs] /\ \A x \in Equipment : x # d => config'[x] = config[x]
    BY <1>2, <2>1, <2>2
  <2>4. QED
    BY <2>1, <2>3, CloseStaleHolds
<1>5. CASE Delete(c, d)
  <2>1. /\ chain[c].pc = "idle" /\ CloseStale(c, d, "delete") /\ instance' = instance
        /\ config' = config \/ config' = [config EXCEPT ![d] = 0]
    BY <1>5 DEF Delete, RowGone, deviceRows
  <2>2. 0 \in 0..MaxConfigs
    BY ConnectionsAssumption
  <2>3. config' \in [Equipment -> 0..MaxConfigs] /\ \A x \in Equipment : x # d => config'[x] = config[x]
    BY <1>2, <2>1, <2>2
  <2>4. QED
    BY <2>1, <2>3, CloseStaleHolds
<1>6. QED
  BY <1>1, <1>3, <1>4, <1>5

LEMMA LostHolds ==
  ASSUME ConnInv, NEW i \in Instances, Lost(i)
  PROVE  ConnInv'
<1>1. UNCHANGED <<config, held, chain>> /\ instance' = [instance EXCEPT ![i].sound = FALSE]
  BY DEF Lost
<1>2. instance \in [Instances -> Instance] /\ instance[i] \in Instance
  BY DEF ConnInv, Shape
<1> DEFINE new == [instance[i] EXCEPT !.sound = FALSE]
<1>3. /\ new \in Instance /\ new.device = instance[i].device /\ new.life = instance[i].life
      /\ new.config = instance[i].config /\ new.raced = instance[i].raced
  BY <1>2 DEF Instance
<1>4. instance' = [instance EXCEPT ![i] = new]
  BY <1>1, <1>2
<1> HIDE DEF new
<1>5. /\ instance' \in [Instances -> Instance]
      /\ \A j \in Instances :
           /\ instance'[j].device = instance[j].device /\ instance'[j].life = instance[j].life
           /\ instance'[j].config = instance[j].config /\ instance'[j].raced = instance[j].raced
  BY <1>2, <1>3, <1>4
<1>6. Shape'
  BY <1>1, <1>5 DEF ConnInv, Shape
<1>7. /\ \A e \in Chains : Owns(e) => chain[e].on \in Instances
      /\ \A d \in Equipment : held[d] # 0 => held[d] \in Instances
      /\ \A e \in Chains : chain[e].known \subseteq Instances
  BY OwnInstances, HeldInstances DEF ConnInv, Shape, Chain
<1>8. Placed'
  BY <1>1, <1>5, <1>7 DEF ConnInv, Placed, Device
<1>9. Owned'
  BY <1>1, <1>5, <1>7 DEF ConnInv, Owned, Owns, Device
<1>10. \A d : (Deleting(d)' <=> Deleting(d)) /\ Opening(d)' = Opening(d) /\ Opening(d) \subseteq Chains
  BY <1>1 DEF Deleting, Opening, Device
<1>11. Current'
  <2>1. \A e \in Chains : chain[e].pc = "probing" => Owns(e)
    BY DEF Owns
  <2>2. QED
    BY <1>1, <1>5, <1>7, <1>10, <2>1 DEF ConnInv, Current
<1>12. NoLeak'
  BY <1>1, <1>5 DEF ConnInv, NoLeak, InHand
<1>13. Belongs'
  BY <1>5 DEF ConnInv, Belongs
<1>14. QED
  BY <1>6, <1>8, <1>9, <1>11, <1>12, <1>13 DEF ConnInv

LEMMA ConnStep ==
  ASSUME ConnInv, [ConnNext]_connVars
  PROVE  ConnInv'
<1>1. ASSUME NEW c \in Chains, Advance(c) PROVE ConnInv'
  BY <1>1, OpenStepHolds, CloseStepHolds, CallStepHolds, TickStepHolds DEF Advance
<1>2. ASSUME NEW c \in Rounds, BeginTick(c) PROVE ConnInv'
  BY <1>2, BeginTickHolds DEF Chains
<1>3. ASSUME NEW c \in Requests, Request(c) PROVE ConnInv'
  BY <1>3, RequestHolds DEF Chains
<1>4. ASSUME UNCHANGED <<config, held, instance, chain>> PROVE ConnInv'
  BY <1>4 DEF ConnInv, Shape, Placed, Belongs, Owned, Owns, Current, Opening, Deleting, Device, NoLeak, InHand
<1>5. QED
  BY <1>1, <1>2, <1>3, <1>4, LostHolds DEF ConnNext, Elapsing, connVars, deviceRows

\* Nobody but the map and the chain that opens or closes it holds a live instance,
\* and one of them does: no socket leaks, unless two chains opened its device at once.
THEOREM NothingLeaks == ConnSpec => []NoLeak
<1>1. ConnInv => NoLeak
  BY DEF ConnInv
<1>2. QED
  BY <1>1, ConnHolds, ConnStep, PTL DEF ConnSpec

\* The connection in the map was made with the settings that the device has, unless
\* its deletion is under way or another chain was opening the device meanwhile.
THEOREM SettingsTakeEffect == ConnSpec => []SettingsHold
<1>1. ConnInv => SettingsHold
  BY DEF ConnInv, Current, SettingsHold
<1>2. QED
  BY <1>1, ConnHolds, ConnStep, PTL DEF ConnSpec

\* A connection that the map hands out has not been disposed of.
THEOREM HeldIsUsable == ConnSpec => []HeldIsLive
<1>1. ConnInv => HeldIsLive
  BY DEF ConnInv, Owned, HeldIsLive
<1>2. QED
  BY <1>1, ConnHolds, ConnStep, PTL DEF ConnSpec

-----------------------------------------------------------------------------
(* The backoff *)

\* What a pass of tick() found ripe has no backoff to wait for since: whoever notes a
\* failure of a device takes it from the lists of all passes.
RipeIsOver == \A c \in Chains : \A d \in chain[c].ripe : wait[d] = 0

BackoffInv == ConnInv /\ wait \in [Equipment -> Int] /\ RipeIsOver

\* No list of ripe devices grows, and no other chain goes on.
Ripens(c) ==
  \A e \in Chains : chain'[e].ripe \subseteq chain[e].ripe /\ (e # c => chain'[e].pc = chain[e].pc)

LEMMA FinishRipens == ASSUME ConnInv, NEW c \in Chains, Finish(c) PROVE Ripens(c)
<1>1. chain \in [Chains -> Chain] /\ chain[c] \in Chain
  BY DEF ConnInv, Shape
<1>2. After(c).ripe \subseteq chain[c].ripe
  <2>1. CASE chain[c].job = "tick"
    BY <1>1, <2>1 DEF After, Chain
  <2>2. CASE chain[c].job # "tick"
    BY <2>2 DEF After, Resting
  <2>3. QED
    BY <2>1, <2>2
<1>3. chain'[c] = After(c) /\ \A e \in Chains : e # c => chain'[e] = chain[e]
  BY <1>1 DEF Finish
<1>4. QED
  BY <1>2, <1>3 DEF Ripens

\* After a failure the device is in no list.
LEMMA FailRipens ==
  ASSUME ConnInv, NEW c \in Chains, FailAndFinish(c)
  PROVE  Ripens(c) /\ \A e \in Chains : Device(c) \notin chain'[e].ripe
<1>0. PICK d : d = Device(c)
  OBVIOUS
<1>1. chain \in [Chains -> Chain]
  BY DEF ConnInv, Shape
<1>2. chain' = [Unripe(d) EXCEPT ![c] = [After(c) EXCEPT !.ripe = @ \ {d}]]
  BY <1>0 DEF FailAndFinish
<1>3. /\ chain'[c] = [After(c) EXCEPT !.ripe = @ \ {d}]
      /\ \A e \in Chains : e # c => chain'[e] = [chain[e] EXCEPT !.ripe = @ \ {d}]
  BY <1>2 DEF Unripe
<1>4. ASSUME NEW e \in Chains, e # c
      PROVE  chain'[e].ripe = chain[e].ripe \ {d} /\ chain'[e].pc = chain[e].pc
  <2>1. chain[e] \in Chain
    BY <1>1
  <2>2. QED
    BY <1>3, <1>4, <2>1 DEF Chain
<1>5. chain'[c].ripe \subseteq chain[c].ripe \ {d}
  <2>1. After(c) \in Chain
    BY AfterIs
  <2>2. After(c).ripe \subseteq chain[c].ripe
    <3>1. chain[c] \in Chain
      BY <1>1
    <3>2. CASE chain[c].job = "tick"
      BY <3>1, <3>2 DEF After, Chain
    <3>3. CASE chain[c].job # "tick"
      BY <3>3 DEF After, Resting
    <3>4. QED
      BY <3>2, <3>3
  <2>3. QED
    BY <1>3, <2>1, <2>2 DEF Chain
<1>6. QED
  BY <1>0, <1>4, <1>5 DEF Ripens

LEMMA OpeningRipens ==
  ASSUME ConnInv, NEW c \in Chains, NEW d \in Equipment, NEW rest \in Chain, StartOpening(c, d, rest),
         rest.ripe \subseteq chain[c].ripe
  PROVE  Ripens(c) /\ chain'[c].device = d
<1>1. chain \in [Chains -> Chain]
  BY DEF ConnInv, Shape
<1>2. chain' = Raced(c, d, rest)
  BY DEF StartOpening
<1>3. chain'[c].ripe = rest.ripe
  BY <1>2 DEF Raced, Chain
<1>4. ASSUME NEW e \in Chains, e # c PROVE chain'[e].ripe = chain[e].ripe /\ chain'[e].pc = chain[e].pc
  <2>1. chain[e] \in Chain /\ chain'[e] = IF e \in Opening(d) THEN [chain[e] EXCEPT !.raced = TRUE] ELSE chain[e]
    BY <1>1, <1>2, <1>4 DEF Raced
  <2>2. QED
    BY <2>1 DEF Chain
<1>5. chain'[c].device = d
  BY OpeningIs
<1>6. QED
  BY <1>3, <1>4, <1>5 DEF Ripens

LEMMA UsingRipens ==
  ASSUME ConnInv, NEW c \in Chains, NEW d \in Equipment, NEW rest \in Chain, UseHeld(c, d, rest),
         rest.ripe \subseteq chain[c].ripe
  PROVE  Ripens(c)
<1>1. chain \in [Chains -> Chain]
  BY DEF ConnInv, Shape
<1>2. /\ chain'[c] = IF rest.job = "open" THEN Resting
                     ELSE [rest EXCEPT !.device = d, !.on = held[d], !.pc = "calling"]
      /\ \A e \in Chains : e # c => chain'[e] = chain[e]
  BY <1>1 DEF UseHeld
<1>3. chain'[c].ripe \subseteq rest.ripe
  <2>1. CASE rest.job = "open"
    BY <1>2, <2>1 DEF Resting
  <2>2. CASE rest.job # "open"
    BY <1>2, <2>2 DEF Chain
  <2>3. QED
    BY <2>1, <2>2
<1>4. QED
  BY <1>2, <1>3 DEF Ripens

\* A chain that only moves keeps its list.
LEMMA GotoRipens == ASSUME ConnInv, NEW c \in Chains, NEW pc, Goto(c, pc) PROVE Ripens(c)
<1>1. chain \in [Chains -> Chain] /\ chain[c] \in Chain
  BY DEF ConnInv, Shape
<1>2. chain'[c].ripe = chain[c].ripe /\ \A e \in Chains : e # c => chain'[e] = chain[e]
  BY <1>1 DEF Goto, Chain
<1>3. QED
  BY <1>2 DEF Ripens

\* A failure that was noted is closed, or over.
LEMMA CloseFailedRipens ==
  ASSUME ConnInv, NEW c \in Chains, CloseFailed(c)
  PROVE  Ripens(c) /\ (FailAndFinish(c) \/ wait' = wait)
<1>1. CASE held[Device(c)] = 0
  BY <1>1, FailRipens DEF CloseFailed
<1>2. CASE held[Device(c)] # 0
  <2>1. chain \in [Chains -> Chain] /\ chain[c] \in Chain
    BY DEF ConnInv, Shape
  <2>2. PICK d, h : d = Device(c) /\ h = held[d]
    OBVIOUS
  <2>3. /\ chain' = [chain EXCEPT ![c] = [chain[c] EXCEPT !.pc = "closing", !.on = h, !.device = d]]
        /\ wait' = wait
    BY <1>2, <2>2 DEF CloseFailed, CloseHeld, backoff
  <2>4. chain'[c].ripe = chain[c].ripe /\ \A e \in Chains : e # c => chain'[e] = chain[e]
    BY <2>1, <2>3 DEF Chain
  <2>5. QED
    BY <2>3, <2>4 DEF Ripens
<1>3. QED
  BY <1>1, <1>2

\* What becomes of the backoffs while a chain goes on.
Waits(c) == wait' = wait \/ FailAndFinish(c) \/ \E d \in Equipment : wait' = [wait EXCEPT ![d] = 0]

LEMMA OpenStepRipens == ASSUME ConnInv, NEW c \in Chains, OpenStep(c) PROVE Ripens(c) /\ Waits(c)
<1>1. CASE Created(c)
  <2>1. chain \in [Chains -> Chain] /\ chain[c] \in Chain
    BY DEF ConnInv, Shape
  <2>2. PICK i \in Instances : chain' = [chain EXCEPT ![c].pc = "probing", ![c].on = i]
    BY <1>1 DEF Created
  <2>3. chain'[c].ripe = chain[c].ripe /\ \A e \in Chains : e # c => chain'[e] = chain[e]
    BY <2>1, <2>2 DEF Chain
  <2>4. QED
    BY <1>1, <2>3 DEF Ripens, Waits, Created, backoff
<1>2. CASE CreateFails(c) \/ Refused(c)
  BY <1>2, FailRipens DEF CreateFails, Refused, Waits
<1>3. CASE Probed(c)
  BY <1>3, GotoRipens DEF Probed, Waits, ConnInv, Placed
<1>4. CASE ProbeFails(c)
  BY <1>4, GotoRipens DEF ProbeFails, Waits, backoff
<1>5. CASE Primed(c)
  BY <1>5, GotoRipens, FinishRipens DEF Primed, Waits, backoff
<1>6. QED
  BY <1>1, <1>2, <1>3, <1>4, <1>5 DEF OpenStep

LEMMA CloseStepRipens == ASSUME ConnInv, NEW c \in Chains, CloseStep(c) PROVE Ripens(c) /\ Waits(c)
BY FailRipens, FinishRipens DEF CloseStep, ClosedAfterFailure, ClosedForChange, ClosedForDeletion, Waits, backoff

LEMMA CallStepRipens == ASSUME ConnInv, NEW c \in Chains, CallStep(c) PROVE Ripens(c) /\ Waits(c)
<1>1. CASE Obeyed(c)
  <2>1. chain[c] \in Chain /\ Device(c) \in Equipment /\ wait' = wait
    BY <1>1 DEF ConnInv, Shape, Placed, Obeyed, backoff
  <2>2. PICK again : again = [chain[c] EXCEPT !.polls = @ - 1, !.on = 0]
    OBVIOUS
  <2>3. CASE Finish(c)
    BY <2>1, <2>3, FinishRipens DEF Waits
  <2>4. CASE /\ chain[c].polls > 0
             /\ UseHeld(c, Device(c), again) \/ StartOpening(c, Device(c), again)
    <3>1. chain[c].polls - 1 \in 0..Polls /\ 0 \in 0..MaxInstances
      <4>1. chain[c].polls \in 0..Polls
        BY <2>1 DEF Chain
      <4>2. QED
        BY <2>4, <4>1, ConnectionsAssumption
    <3>2. again \in Chain /\ again.ripe = chain[c].ripe
      BY <2>1, <2>2, <3>1 DEF Chain
    <3>3. QED
      BY <2>1, <2>4, <3>2, UsingRipens, OpeningRipens DEF Waits
  <2>5. QED
    BY <1>1, <2>2, <2>3, <2>4 DEF Obeyed
<1>2. CASE Failed(c)
  BY <1>2, GotoRipens DEF Failed, Waits, backoff
<1>3. CASE StillHealthy(c)
  BY <1>3, FinishRipens DEF StillHealthy, Waits, backoff
<1>4. CASE Unhealthy(c)
  BY <1>4, CloseFailedRipens DEF Unhealthy, Waits
<1>5. QED
  BY <1>1, <1>2, <1>3, <1>4 DEF CallStep

\* A tick that starts to open a device found it ripe.
LEMMA ReconnectIsDue ==
  ASSUME BackoffInv, NEW c \in Chains, Reconnect(c)
  PROVE  /\ Ripens(c) /\ Waits(c)
         /\ failures[Device(c)'] > 0 => wait[Device(c)'] = 0
<1>1. PICK d \in chain[c].todo : DueToOpen(c, d) /\ StartOpening(c, d, [chain[c] EXCEPT !.todo = @ \ {d}])
  BY DEF Reconnect
<1>2. chain[c] \in Chain
  BY DEF BackoffInv, ConnInv, Shape
<1>3. PICK rest : rest = [chain[c] EXCEPT !.todo = @ \ {d}]
  OBVIOUS
<1>4. d \in Equipment /\ rest \in Chain /\ rest.ripe = chain[c].ripe
  BY <1>1, <1>2, <1>3 DEF Chain
<1>5. Ripens(c) /\ chain'[c].device = d
  BY <1>1, <1>3, <1>4, OpeningRipens DEF BackoffInv
<1>6. failures[d] > 0 => wait[d] = 0
  BY <1>1 DEF DueToOpen, BackoffInv, RipeIsOver
<1>7. QED
  BY <1>5, <1>6 DEF Device, Waits, Reconnect, backoff

LEMMA TickStepRipens == ASSUME BackoffInv, NEW c \in Chains, TickStep(c) PROVE Ripens(c) /\ Waits(c)
<1>1. ConnInv /\ chain \in [Chains -> Chain] /\ chain[c] \in Chain
  BY DEF BackoffInv, ConnInv, Shape
<1>2. CASE Check(c)
  <2>1. PICK i \in chain[c].known :
          chain' = [chain EXCEPT ![c].pc = "checking", ![c].on = i, ![c].device = instance[i].device,
                      ![c].known = @ \ {i}]
    BY <1>2 DEF Check
  <2>2. chain'[c].ripe = chain[c].ripe /\ \A e \in Chains : e # c => chain'[e] = chain[e]
    BY <1>1, <2>1 DEF Chain
  <2>3. QED
    BY <1>2, <2>2 DEF Ripens, Waits, Check, backoff
<1>3. CASE Checked(c)
  BY <1>1, <1>3, FinishRipens DEF Checked, Waits, backoff
<1>4. CASE CheckFails(c)
  BY <1>1, <1>4, CloseFailedRipens DEF CheckFails, Waits
<1>5. CASE Reconnect(c)
  BY <1>5, ReconnectIsDue
<1>6. CASE EndTick(c)
  BY <1>1, <1>6 DEF EndTick, Ripens, Resting, Waits, backoff
<1>7. QED
  BY <1>2, <1>3, <1>4, <1>5, <1>6 DEF TickStep

LEMMA RequestRipens ==
  ASSUME ConnInv, NEW c \in Chains, Request(c)
  PROVE  Ripens(c) /\ wait' = wait /\ chain[c].pc = "idle"
<1>1. chain \in [Chains -> Chain] /\ Resting \in Chain
  BY ConnectionsAssumption DEF ConnInv, Shape, Resting, Chain
<1>2. PICK d \in Equipment :
        \/ AskOpen(c, d)
        \/ \E job \in {"invoke", "apply"} : AskDevice(c, d, job) \/ ByHand(c, d, job)
        \/ Change(c, d)
        \/ Delete(c, d)
  BY DEF Request
<1>3. CASE AskOpen(c, d)
  <2>1. PICK rest : rest = [Resting EXCEPT !.job = "open"]
    OBVIOUS
  <2>2. rest \in Chain /\ rest.ripe = {}
    BY <1>1, <2>1 DEF Resting, Chain, AllJobs
  <2>3. QED
    BY <1>3, <2>1, <2>2, OpeningRipens DEF AskOpen, backoff
<1>4. ASSUME NEW job \in {"invoke", "apply"}, AskDevice(c, d, job)
      PROVE  Ripens(c) /\ wait' = wait /\ chain[c].pc = "idle"
  <2>1. PICK rest : rest = [Resting EXCEPT !.job = job, !.polls = IF job = "apply" THEN Polls ELSE 0]
    OBVIOUS
  <2>2. rest \in Chain /\ rest.ripe = {}
    <3>1. (IF job = "apply" THEN Polls ELSE 0) \in 0..Polls
      BY ConnectionsAssumption
    <3>2. QED
      BY <1>1, <2>1, <3>1 DEF Resting, Chain, AllJobs
  <2>3. StartOpening(c, d, rest) \/ UseHeld(c, d, rest)
    BY <1>4, <2>1 DEF AskDevice
  <2>4. QED
    BY <1>4, <2>2, <2>3, OpeningRipens, UsingRipens DEF AskDevice, backoff
<1>5. ASSUME NEW job, CloseStale(c, d, job) PROVE Ripens(c)
  <2>1. PICK marked : marked = [e \in Chains |-> IF e \in Opening(d) THEN [chain[e] EXCEPT !.raced = TRUE] ELSE chain[e]]
    OBVIOUS
  <2>2. PICK rest : rest = [Resting EXCEPT !.job = job, !.device = d, !.pc = "closing", !.on = held[d]]
    OBVIOUS
  <2>3. chain' = IF held[d] # 0 THEN [marked EXCEPT ![c] = rest] ELSE marked
    BY <1>5, <2>1, <2>2 DEF CloseStale
  <2>4. rest.ripe = {}
    BY <2>2 DEF Resting
  <2>5. ASSUME NEW e \in Chains PROVE marked[e].ripe = chain[e].ripe /\ marked[e].pc = chain[e].pc
    <3>1. chain[e] \in Chain
      BY <1>1
    <3>2. QED
      BY <2>1, <3>1 DEF Chain
  <2>6. DOMAIN marked = Chains
    BY <2>1
  <2>7. QED
    BY <2>3, <2>4, <2>5, <2>6 DEF Ripens
<1>6. CASE Change(c, d)
  BY <1>5, <1>6 DEF Change, backoff
<1>7. CASE Delete(c, d)
  BY <1>5, <1>7 DEF Delete, backoff
<1>8. QED
  BY <1>2, <1>3, <1>4, <1>6, <1>7 DEF ByHand

\* Only whoever notes a failure makes a device wait, and takes it from the lists.
LEMMA WaitsKeep ==
  ASSUME BackoffInv, NEW c \in Chains, Ripens(c), Waits(c)
  PROVE  wait' \in [Equipment -> Int] /\ RipeIsOver'
<1>1. \A e \in Chains : chain[e].ripe \subseteq Equipment
  BY DEF BackoffInv, ConnInv, Shape, Chain
<1>2. wait \in [Equipment -> Int]
  BY DEF BackoffInv
<1>3. CASE wait' = wait
  BY <1>2, <1>3 DEF BackoffInv, RipeIsOver, Ripens
<1>4. CASE \E d \in Equipment : wait' = [wait EXCEPT ![d] = 0]
  <2>1. PICK d \in Equipment : wait' = [wait EXCEPT ![d] = 0]
    BY <1>4
  <2>2. wait' \in [Equipment -> Int] /\ \A x \in Equipment : wait[x] = 0 => wait'[x] = 0
    BY <1>2, <2>1
  <2>3. QED
    BY <1>1, <2>2 DEF BackoffInv, RipeIsOver, Ripens
<1>5. CASE FailAndFinish(c)
  <2>1. PICK d : d = Device(c)
    OBVIOUS
  <2>2. \A e \in Chains : d \notin chain'[e].ripe
    BY <1>5, <2>1, FailRipens DEF BackoffInv
  <2>3. PICK w \in Int : wait' = [wait EXCEPT ![d] = w]
    <3>1. PICK low, high : \E w \in low..high : wait' = [wait EXCEPT ![d] = w]
      BY <1>5, <2>1 DEF FailAndFinish, NoteFailure
    <3>2. PICK w \in low..high : wait' = [wait EXCEPT ![d] = w]
      BY <3>1
    <3>3. w \in Int
      OBVIOUS
    <3>4. QED
      BY <3>2, <3>3
  <2>4. QED
    BY <1>1, <1>2, <2>2, <2>3 DEF BackoffInv, RipeIsOver, Ripens
<1>6. QED
  BY <1>3, <1>4, <1>5 DEF Waits

LEMMA BackoffStep ==
  ASSUME BackoffInv, [ConnNext]_connVars
  PROVE  BackoffInv'
<1>1. ConnInv'
  BY ConnStep DEF BackoffInv
<1>2. wait' \in [Equipment -> Int] /\ RipeIsOver'
  <2>1. ASSUME NEW c \in Chains, Advance(c) PROVE wait' \in [Equipment -> Int] /\ RipeIsOver'
    <3>1. Ripens(c) /\ Waits(c)
      BY <2>1, OpenStepRipens, CloseStepRipens, CallStepRipens, TickStepRipens DEF Advance, BackoffInv
    <3>2. QED
      BY <3>1, WaitsKeep
  <2>2. ASSUME NEW c \in Rounds, BeginTick(c) PROVE wait' \in [Equipment -> Int] /\ RipeIsOver'
    <3>1. c \in Chains /\ chain \in [Chains -> Chain] /\ wait' = wait
      BY <2>2 DEF BackoffInv, ConnInv, Shape, Chains, BeginTick, backoff
    <3>2. PICK ripe : ripe = {d \in Equipment : wait[d] = 0}
      OBVIOUS
    <3>3. /\ chain'[c].ripe = ripe
          /\ \A e \in Chains : e # c => chain'[e] = chain[e]
      BY <2>2, <3>1, <3>2 DEF BeginTick, Resting
    <3>4. QED
      BY <3>1, <3>2, <3>3 DEF BackoffInv, RipeIsOver
  <2>3. ASSUME NEW c \in Requests, Request(c) PROVE wait' \in [Equipment -> Int] /\ RipeIsOver'
    BY <2>3, RequestRipens, WaitsKeep DEF Chains, Waits, BackoffInv
  <2>4. ASSUME NEW i \in Instances, Lost(i) PROVE wait' \in [Equipment -> Int] /\ RipeIsOver'
    BY <2>4 DEF Lost, backoff, BackoffInv, RipeIsOver
  <2>5. CASE Elapsing
    <3>1. /\ chain' = chain /\ wait \in [Equipment -> Int]
          /\ wait' = [d \in Equipment |-> IF wait[d] > 0 THEN wait[d] - 1 ELSE 0]
      BY <2>5 DEF Elapsing, BackoffInv
    <3>2. \A e \in Chains : chain[e].ripe \subseteq Equipment
      BY DEF BackoffInv, ConnInv, Shape, Chain
    <3>3. QED
      BY <3>1, <3>2 DEF BackoffInv, RipeIsOver
  <2>6. CASE UNCHANGED connVars
    BY <2>6 DEF connVars, backoff, BackoffInv, RipeIsOver
  <2>7. QED
    BY <2>1, <2>2, <2>3, <2>4, <2>5, <2>6 DEF ConnNext
<1>3. QED
  BY <1>1, <1>2 DEF BackoffInv

\* Only Reconnect takes a pass from between two devices to the opening of one.
LEMMA OnlyReconnectOpens ==
  ASSUME BackoffInv, [ConnNext]_connVars, NEW c \in Chains, chain[c].pc = "turn", chain'[c].pc = "creating"
  PROVE  Reconnect(c)
<1>1. ConnInv /\ chain \in [Chains -> Chain]
  BY DEF BackoffInv, ConnInv, Shape
<1>2. ASSUME NEW e \in Chains, Advance(e) PROVE e = c
  <2>1. Ripens(e)
    BY <1>2, OpenStepRipens, CloseStepRipens, CallStepRipens, TickStepRipens DEF Advance, BackoffInv
  <2>2. QED
    BY <2>1 DEF Ripens
<1>3. ASSUME Advance(c) PROVE Reconnect(c)
  <2>1. TickStep(c)
    BY <1>3 DEF Advance, OpenStep, Created, CreateFails, Probed, ProbeFails, Refused, Primed,
                CloseStep, ClosedAfterFailure, ClosedForChange, ClosedForDeletion,
                CallStep, Obeyed, Failed, StillHealthy, Unhealthy
  <2>2. ~Checked(c) /\ ~CheckFails(c)
    BY DEF Checked, CheckFails
  <2>3. ~Check(c)
    <3>1. SUFFICES ASSUME Check(c) PROVE FALSE
      OBVIOUS
    <3>2. PICK i : chain' = [chain EXCEPT ![c].pc = "checking", ![c].on = i, ![c].device = instance[i].device,
                               ![c].known = @ \ {i}]
      BY <3>1 DEF Check
    <3>3. chain[c] \in Chain
      BY <1>1
    <3>4. chain'[c].pc = "checking"
      BY <1>1, <3>2, <3>3 DEF Chain
    <3>5. QED
      BY <3>4
  <2>4. ~EndTick(c)
    BY <1>1 DEF EndTick, Resting
  <2>5. QED
    BY <2>1, <2>2, <2>3, <2>4 DEF TickStep
<1>4. ASSUME NEW e \in Rounds, BeginTick(e) PROVE FALSE
  BY <1>1, <1>4 DEF BeginTick
<1>5. ASSUME NEW e \in Requests, Request(e) PROVE FALSE
  <2>1. Ripens(e) /\ chain[e].pc = "idle" /\ e \in Chains
    BY <1>1, <1>5, RequestRipens DEF Chains
  <2>2. QED
    BY <2>1 DEF Ripens
<1>6. ASSUME chain' = chain PROVE FALSE
  BY <1>6
<1>7. QED
  BY <1>2, <1>3, <1>4, <1>5, <1>6 DEF ConnNext, Lost, Elapsing, connVars

\* No pass of tick() opens a device that is backing off, however long the pass takes and
\* whoever fails to reach the device meanwhile.
THEOREM BackoffIsRespected == ConnSpec => BackoffRespected
<1>1. ConnInit => BackoffInv
  <2> SUFFICES ASSUME ConnInit PROVE BackoffInv
    OBVIOUS
  <2>1. \A c \in Chains : chain[c].ripe = {}
    BY DEF ConnInit, Resting
  <2>2. wait \in [Equipment -> Int]
    BY DEF ConnInit
  <2>3. QED
    BY <2>1, <2>2, ConnHolds DEF BackoffInv, RipeIsOver
<1>2. ASSUME BackoffInv, [ConnNext]_connVars
      PROVE  [\A c \in Chains, d \in Equipment :
                chain[c].pc = "turn" /\ chain'[c].pc = "creating" /\ Device(c)' = d /\ failures[d] > 0
                  => wait[d] = 0]_connVars
  BY <1>2, OnlyReconnectOpens, ReconnectIsDue
<1>3. QED
  BY <1>1, <1>2, BackoffStep, PTL DEF ConnSpec, BackoffRespected
=============================================================================
