---------------------------- MODULE RecordsProofs ----------------------------
(***************************************************************************)
(* What holds of what the program keeps and works out between and around   *)
(* its runs, for any number of devices, operators, sessions, accounts,     *)
(* recordings, rules, plans and copies: that outputs have the rows they    *)
(* refer to (Desk); that a change of the password signs everybody else out *)
(* and guesses slow down (Sessions); that the vault has the tokens of     *)
(* those that are there, and while there is one OAuth client a token that  *)
(* works (Accounts); that a sweep leaves the newest recordings (Library);  *)
(* that an upgrade changes nothing that an event drives (Upgrade), and a   *)
(* restore loses nothing (Backup); that what stays wrong is told (Watch),  *)
(* and clashes and holes in names are (Reckoning); that operators have the *)
(* last word on the calendar (Calendar); and that what is read of a plan   *)
(* source is what it has published (Published). Each part of MCRecords has *)
(* an invariant of its own; a step of RecordsNext is one of one part, and  *)
(* leaves the variables of the others as they are.                         *)
(***************************************************************************)
EXTENDS MCRecords, FiniteSetTheorems, SequenceTheorems, WellFoundedInduction, TLAPS

-----------------------------------------------------------------------------
(* A step of the composition, as each part sees it *)

LEMMA StepOfDesk == ASSUME [RecordsNext]_recordsVars PROVE [D!DeskNext]_deskVars
BY Zenon DEF RecordsNext, Still, recordsVars

LEMMA StepOfDoor == ASSUME [RecordsNext]_recordsVars PROVE [S!SessionsNext]_doorVars
BY Zenon DEF RecordsNext, Still, recordsVars

LEMMA StepOfLibrary == ASSUME [RecordsNext]_recordsVars PROVE [L!LibNext]_libVars
BY Zenon DEF RecordsNext, Still, recordsVars

LEMMA StepOfUpgrade == ASSUME [RecordsNext]_recordsVars PROVE [U!UpgradeNext]_upgradeVars
BY Zenon DEF RecordsNext, Still, recordsVars

LEMMA StepOfBackup == ASSUME [RecordsNext]_recordsVars PROVE [B!BackupNext]_backupVars
BY Zenon DEF RecordsNext, Still, recordsVars

LEMMA StepOfCalendar == ASSUME [RecordsNext]_recordsVars PROVE [C!CalNext]_calVars
BY Zenon DEF RecordsNext, Still, recordsVars

LEMMA StepOfWatch == ASSUME [RecordsNext]_recordsVars PROVE [W!WatchNext]_watchVars
BY Zenon DEF RecordsNext, Still, recordsVars

LEMMA StepOfPublished == ASSUME [RecordsNext]_recordsVars PROVE [P!PublishedNext]_publishedVars
BY Zenon DEF RecordsNext, Still, recordsVars

LEMMA StepOfAccounts == ASSUME [RecordsNext]_recordsVars PROVE [A!AccNext]_accVars
BY Zenon DEF RecordsNext, Still, recordsVars

-----------------------------------------------------------------------------
(* Numbers *)

\* Sets of numbers have a least one, and a greatest where they are bounded.
LEMMA LeastOf ==
  ASSUME NEW s \in SUBSET Nat, s # {}
  PROVE  \E x \in s : \A y \in s : x <= y
<1> DEFINE less == OpToRel(<, Nat)
<1>1. PICK x \in s : \A y \in s : <<y, x>> \notin less
  <2> HIDE DEF less
  <2>1. IsWellFoundedOn(less, Nat)
    BY NatLessThanWellFounded DEF less
  <2> QED  BY <2>1, WFMin
<1>2. \A y \in s : ~ (y < x)
  BY <1>1 DEF OpToRel
<1> QED  BY <1>2

LEMMA GreatestOf ==
  ASSUME NEW n \in Nat, NEW s \in SUBSET (0..n), s # {}
  PROVE  \E x \in s : \A y \in s : y <= x
<1> DEFINE rest == {n - x : x \in s}
<1>1. rest \in SUBSET Nat /\ rest # {}
  <2>1. \A x \in s : x \in 0..n /\ n - x \in Nat
    OBVIOUS
  <2> QED  BY <2>1
<1>2. PICK m \in rest : \A y \in rest : m <= y
  <2> HIDE DEF rest
  <2> QED  BY <1>1, LeastOf
<1>3. PICK x \in s : m = n - x
  BY <1>2
<1>4. \A y \in s : n - x <= n - y
  BY <1>2, <1>3
<1> QED  BY <1>3, <1>4

\* A set of numbers that has the first, and the next of each, has them all.
LEMMA AllNumbers ==
  ASSUME NEW s \in SUBSET Nat, 0 \in s, \A n \in s : n + 1 \in s
  PROVE  s = Nat
<1> SUFFICES ASSUME Nat \ s # {} PROVE FALSE
  OBVIOUS
<1> DEFINE missing == Nat \ s
<1>1. missing \in SUBSET Nat /\ missing # {}
  OBVIOUS
<1>2. PICK x \in missing : \A y \in missing : x <= y
  <2> HIDE DEF missing
  <2> QED  BY <1>1, LeastOf
<1>3. x # 0 /\ x - 1 \in Nat /\ x - 1 < x
  BY <1>2
<1>4. x - 1 \in s
  BY <1>2, <1>3
<1> QED  BY <1>2, <1>3, <1>4

\* Functions on the numbers that are given by their first value and how one follows from the
\* other.
Followers(xs) == [Nat \X xs -> xs]
Follows(xs, first, follow) ==
  \E f \in [Nat -> xs] : f[0] = first /\ \A k \in Nat : f[k + 1] = follow[<<k, f[k]>>]

LEMMA Recursion ==
  ASSUME NEW xs, NEW first \in xs, NEW follow \in Followers(xs)
  PROVE  Follows(xs, first, follow)
<1> USE DEF Followers, Follows
<1> DEFINE Starts(n) == {f \in [0..n -> xs] :
             f[0] = first /\ \A k \in 0..n : k < n => f[k + 1] = follow[<<k, f[k]>>]}
<1>1. \A n \in Nat : Starts(n) # {}
  <2> DEFINE some == {n \in Nat : Starts(n) # {}}
  <2>1. 0 \in some
    <3>1. [k \in 0..0 |-> first] \in Starts(0)
      OBVIOUS
    <3> QED  BY <3>1
  <2>2. ASSUME NEW n \in some PROVE n + 1 \in some
    <3>1. PICK f : f \in Starts(n)
      OBVIOUS
    <3> DEFINE g == [k \in 0..(n + 1) |-> IF k = n + 1 THEN follow[<<n, f[n]>>] ELSE f[k]]
    <3>2. n \in Nat /\ f \in [0..n -> xs] /\ f[0] = first
          /\ \A k \in 0..n : k < n => f[k + 1] = follow[<<k, f[k]>>]
      BY <3>1
    <3>3. f[n] \in xs /\ follow[<<n, f[n]>>] \in xs
      BY <3>2
    <3>4. g \in [0..(n + 1) -> xs]
      BY <3>2, <3>3
    <3>5. g[0] = first
      BY <3>2
    <3>6. ASSUME NEW k \in 0..(n + 1), k < n + 1
          PROVE  g[k + 1] = follow[<<k, g[k]>>]
      <4>1. k \in 0..n /\ g[k] = f[k] /\ k + 1 \in 0..(n + 1)
        BY <3>2, <3>6
      <4>2. CASE k = n
        BY <3>2, <4>1, <4>2
      <4>3. CASE k < n
        BY <3>2, <4>1, <4>3
      <4> QED  BY <3>2, <4>1, <4>2, <4>3
    <3>7. g \in Starts(n + 1)
      BY <3>4, <3>5, <3>6
    <3> HIDE DEF g, Starts
    <3>8. Starts(n + 1) # {} /\ n + 1 \in Nat
      BY <3>2, <3>7
    <3> QED  BY <3>8
  <2> HIDE DEF some
  <2>3. some = Nat
    <3>1. some \in SUBSET Nat
      BY DEF some
    <3> QED  BY <2>1, <2>2, <3>1, AllNumbers
  <2> QED  BY <2>3 DEF some
<1>2. ASSUME NEW n \in Nat, NEW m \in Nat, NEW f \in Starts(n), NEW g \in Starts(m)
      PROVE  \A k \in Nat : k <= n /\ k <= m => f[k] = g[k]
  <2> DEFINE same == {k \in Nat : k <= n /\ k <= m => f[k] = g[k]}
  <2>1. 0 \in same
    OBVIOUS
  <2>2. ASSUME NEW k \in same PROVE k + 1 \in same
    <3> SUFFICES ASSUME k + 1 <= n, k + 1 <= m PROVE f[k + 1] = g[k + 1]
      OBVIOUS
    <3>1. k \in 0..n /\ k \in 0..m /\ k < n /\ k < m /\ f[k] = g[k]
      OBVIOUS
    <3>2. f[k + 1] = follow[<<k, f[k]>>] /\ g[k + 1] = follow[<<k, g[k]>>]
      BY <3>1
    <3> QED  BY <3>1, <3>2
  <2> HIDE DEF same
  <2>3. same = Nat
    <3>1. same \in SUBSET Nat
      BY DEF same
    <3> QED  BY <2>1, <2>2, <3>1, AllNumbers
  <2> QED  BY <2>3 DEF same
<1> DEFINE upto(n) == CHOOSE f : f \in Starts(n)
           whole == [n \in Nat |-> upto(n)[n]]
<1>3. \A n \in Nat : upto(n) \in Starts(n)
  BY <1>1
<1> HIDE DEF upto
<1>4. \A n \in Nat : upto(n) \in [0..n -> xs] /\ upto(n)[0] = first
  BY <1>3
<1>5. \A n \in Nat : whole[n] = upto(n)[n] /\ upto(n)[n] \in xs
  BY <1>4
<1>6. ASSUME NEW k \in Nat PROVE whole[k + 1] = follow[<<k, whole[k]>>]
  <2>1. upto(k + 1) \in Starts(k + 1) /\ upto(k) \in Starts(k) /\ k + 1 \in Nat
    BY <1>3
  <2>2. upto(k + 1)[k + 1] = follow[<<k, upto(k + 1)[k]>>]
    <3>1. k \in 0..(k + 1) /\ k < k + 1
      OBVIOUS
    <3> QED  BY <2>1, <3>1
  <2> HIDE DEF Starts
  <2>3. upto(k + 1)[k] = upto(k)[k]
    BY <1>2, <2>1
  <2> QED  BY <1>5, <2>1, <2>2, <2>3
<1>7. whole \in [Nat -> xs] /\ whole[0] = first
  BY <1>4, <1>5
<1> HIDE DEF whole
<1> QED  BY <1>6, <1>7

\* What Doubled and Delays are.
LEMMA Doubling ==
  /\ S!Doubled \in [Nat -> Nat] /\ S!Doubled[0] = 1
  /\ \A k \in Nat : S!Doubled[k + 1] = 2 * S!Doubled[k]
<1> DEFINE follow == [x \in Nat \X Nat |-> 2 * x[2]]
<1>1. follow \in [Nat \X Nat -> Nat]
  OBVIOUS
<1>2. \A x, y \in Nat : follow[<<x, y>>] = 2 * y
  OBVIOUS
<1> HIDE DEF follow
<1>3. PICK f \in [Nat -> Nat] : f[0] = 1 /\ \A k \in Nat : f[k + 1] = follow[<<k, f[k]>>]
  <2>1. 1 \in Nat
    OBVIOUS
  <2>2. follow \in Followers(Nat)
    BY <1>1 DEF Followers
  <2>3. Follows(Nat, 1, follow)
    BY <2>1, <2>2, Recursion
  <2> QED  BY <2>3 DEF Follows
<1>4. \A k \in Nat : f[k + 1] = 2 * f[k]
  BY <1>2, <1>3
<1>5. f = [k \in Nat |-> IF k = 0 THEN 1 ELSE 2 * f[k - 1]]
  <2>1. ASSUME NEW k \in Nat PROVE f[k] = IF k = 0 THEN 1 ELSE 2 * f[k - 1]
    <3>1. CASE k = 0
      BY <1>3, <3>1
    <3>2. CASE k # 0
      <4>1. k - 1 \in Nat /\ (k - 1) + 1 = k
        BY <3>2
      <4> QED  BY <1>4, <3>2, <4>1
    <3> QED  BY <3>1, <3>2
  <2> QED  BY <2>1
<1>6. S!Doubled = [k \in Nat |-> IF k = 0 THEN 1 ELSE 2 * S!Doubled[k - 1]]
  BY <1>5 DEF S!Doubled
<1>7. S!Doubled[0] = 1
  BY <1>6
<1>8. ASSUME NEW k \in Nat PROVE S!Doubled[k + 1] = 2 * S!Doubled[k]
  <2>1. S!Doubled[k + 1] = IF k + 1 = 0 THEN 1 ELSE 2 * S!Doubled[(k + 1) - 1]
    BY <1>6
  <2> QED  BY <2>1
<1> DEFINE whole == {k \in Nat : S!Doubled[k] \in Nat}
<1>9. whole = Nat
  <2>1. 0 \in whole /\ \A k \in whole : k + 1 \in whole
    BY <1>7, <1>8
  <2>2. whole \in SUBSET Nat
    OBVIOUS
  <2> HIDE DEF whole
  <2> QED  BY <2>1, <2>2, AllNumbers
<1>10. S!Doubled \in [Nat -> Nat]
  <2>1. \A k \in Nat : S!Doubled[k] \in Nat
    BY <1>9
  <2> QED  BY <1>6, <2>1
<1> QED  BY <1>7, <1>8, <1>10

LEMMA LesserOf ==
  ASSUME NEW x \in Int, NEW y \in Int
  PROVE  S!Min({x, y}) = IF x <= y THEN x ELSE y
<1>1. PICK m \in {x, y} : \A z \in {x, y} : m <= z
  OBVIOUS
<1>2. S!Min({x, y}) \in {x, y} /\ \A z \in {x, y} : S!Min({x, y}) <= z
  BY <1>1 DEF S!Min
<1> QED  BY <1>2

LEMMA GreaterOf ==
  ASSUME NEW x \in Int, NEW y \in Int
  PROVE  S!Max({x, y}) = IF x <= y THEN y ELSE x
<1>1. PICK m \in {x, y} : \A z \in {x, y} : z <= m
  OBVIOUS
<1>2. S!Max({x, y}) \in {x, y} /\ \A z \in {x, y} : z <= S!Max({x, y})
  BY <1>1 DEF S!Max
<1> QED  BY <1>2

\* A delay lasts, and none is longer than the longest.
LEMMA DelayLasts ==
  ASSUME S!SessionsAssumption, NEW k \in Nat
  PROVE  /\ S!Min({S!Doubled[k], MaxDelay}) \in 1..MaxDelay
         /\ S!Delay(FreeAttempts + k + 1) = S!Min({S!Doubled[k], MaxDelay})
<1> USE DEF S!SessionsAssumption
<1> DEFINE positive == {n \in Nat : S!Doubled[n] > 0}
<1>1. positive = Nat
  <2>1. 0 \in positive /\ \A n \in positive : n + 1 \in positive
    BY Doubling
  <2>2. positive \in SUBSET Nat
    OBVIOUS
  <2> HIDE DEF positive
  <2> QED  BY <2>1, <2>2, AllNumbers
<1>2. S!Doubled[k] \in Nat /\ S!Doubled[k] > 0
  BY <1>1, Doubling
<1>3. MaxDelay \in Nat /\ MaxDelay > 0 /\ FreeAttempts \in Nat
  OBVIOUS
<1>4. S!Min({S!Doubled[k], MaxDelay}) \in 1..MaxDelay
  BY <1>2, <1>3, LesserOf
<1>5. (FreeAttempts + k + 1) - FreeAttempts - 1 = k /\ ~(FreeAttempts + k + 1 <= FreeAttempts)
  BY <1>3
<1> QED  BY <1>4, <1>5 DEF S!Delay

\* The delays add up.
LEMMA DelaysAddUp ==
  ASSUME S!SessionsAssumption
  PROVE  /\ S!Delays[0] = 0
         /\ \A k \in Nat : /\ S!Delays[k] \in Nat /\ k <= S!Delays[k]
                           /\ S!Delays[k + 1] = S!Delays[k] + S!Delay(FreeAttempts + k + 1)
                           /\ S!Delays[k] < S!Delays[k + 1]
<1> DEFINE d(k) == S!Min({S!Doubled[k], MaxDelay})
<1>1. \A k \in Nat : d(k) \in Nat /\ d(k) > 0 /\ d(k) = S!Delay(FreeAttempts + k + 1)
  BY DelayLasts DEF S!SessionsAssumption
<1>2. S!Delays[0] = 0 /\ \A k \in Nat : S!Delays[k + 1] = S!Delays[k] + d(k)
  <2> DEFINE follow == [x \in Nat \X Nat |-> x[2] + d(x[1])]
  <2>1. follow \in [Nat \X Nat -> Nat] /\ 0 \in Nat
    <3> HIDE DEF d
    <3> QED  BY <1>1
  <2>2. \A x, y \in Nat : follow[<<x, y>>] = y + d(x)
    OBVIOUS
  <2> HIDE DEF follow
  <2>3. PICK f \in [Nat -> Nat] : f[0] = 0 /\ \A k \in Nat : f[k + 1] = follow[<<k, f[k]>>]
    <3>1. follow \in Followers(Nat)
      BY <2>1 DEF Followers
    <3>2. Follows(Nat, 0, follow)
      BY <2>1, <3>1, Recursion
    <3> QED  BY <3>2 DEF Follows
  <2>4. \A k \in Nat : f[k + 1] = f[k] + d(k)
    <3> HIDE DEF d
    <3> QED  BY <2>2, <2>3
  <2>5. f = [k \in Nat |-> IF k = 0 THEN 0 ELSE f[k - 1] + d(k - 1)]
    <3> HIDE DEF d
    <3>1. ASSUME NEW k \in Nat PROVE f[k] = IF k = 0 THEN 0 ELSE f[k - 1] + d(k - 1)
      <4>1. CASE k = 0
        BY <2>3, <4>1
      <4>2. CASE k # 0
        <5>1. k - 1 \in Nat /\ (k - 1) + 1 = k
          BY <4>2
        <5> QED  BY <2>4, <4>2, <5>1
      <4> QED  BY <4>1, <4>2
    <3> QED  BY <2>3, <3>1
  <2>6. S!Delays = [k \in Nat |-> IF k = 0 THEN 0 ELSE S!Delays[k - 1] + d(k - 1)]
    BY <2>5 DEF S!Delays
  <2> HIDE DEF d
  <2>7. ASSUME NEW k \in Nat PROVE S!Delays[k + 1] = S!Delays[k] + d(k)
    <3>1. S!Delays[k + 1] = IF k + 1 = 0 THEN 0 ELSE S!Delays[(k + 1) - 1] + d((k + 1) - 1)
      BY <2>6
    <3> QED  BY <3>1
  <2> QED  BY <2>6, <2>7
<1> HIDE DEF d
<1> DEFINE sound == {k \in Nat : S!Delays[k] \in Nat /\ k <= S!Delays[k]}
<1>3. sound = Nat
  <2>1. 0 \in sound
    BY <1>2
  <2>2. \A k \in sound : k + 1 \in sound
    BY <1>1, <1>2
  <2>3. sound \in SUBSET Nat
    OBVIOUS
  <2> HIDE DEF sound
  <2> QED  BY <2>1, <2>2, <2>3, AllNumbers
<1>4. \A k \in Nat : S!Delays[k] \in Nat /\ k <= S!Delays[k]
  BY <1>3
<1> QED  BY <1>1, <1>2, <1>4

\* And grow.
LEMMA DelaysGrow ==
  ASSUME S!SessionsAssumption, NEW m \in Nat
  PROVE  \A k \in 0..m : S!Delays[k] <= S!Delays[m]
<1> DEFINE below == {n \in Nat : \A k \in 0..n : S!Delays[k] <= S!Delays[n]}
<1>1. 0 \in below
  BY DelaysAddUp
<1>2. ASSUME NEW n \in below PROVE n + 1 \in below
  <2>1. ASSUME NEW k \in 0..(n + 1) PROVE S!Delays[k] <= S!Delays[n + 1]
    <3>1. CASE k = n + 1
      BY <3>1, DelaysAddUp
    <3>2. CASE k # n + 1
      <4>1. k \in 0..n /\ k \in Nat
        BY <3>2
      <4>2. S!Delays[k] <= S!Delays[n]
        BY <4>1
      <4> QED  BY <4>1, <4>2, DelaysAddUp
    <3> QED  BY <3>1, <3>2
  <2> QED  BY <2>1
<1> HIDE DEF below
<1>3. below = Nat
  <2>1. below \in SUBSET Nat
    BY DEF below
  <2> QED  BY <1>1, <1>2, <2>1, AllNumbers
<1> QED  BY <1>3 DEF below

-----------------------------------------------------------------------------
(* The desk *)

DeskInv == D!DeskTypeOK /\ D!OutputsStand /\ D!TagsHaveOwners

-----------------------------------------------------------------------------
LEMMA DeskHolds == ASSUME D!DeskAssumption PROVE D!DeskInit => DeskInv
  BY DEF D!DeskAssumption, D!DeskInit, DeskInv, D!DeskTypeOK, D!OutputsStand, D!TagsHaveOwners, D!Free

\* Every step keeps the types.
LEMMA DeskTypes ==
  ASSUME D!DeskAssumption, D!DeskTypeOK, [D!DeskNext]_deskVars
  PROVE  D!DeskTypeOK'
<1> USE DEF D!DeskTypeOK, D!DeskAssumption, D!Edit, D!Free
<1>1. ASSUME NEW o \in Outs, D!PutOutput(o) PROVE D!DeskTypeOK'
  BY <1>1 DEF D!PutOutput
<1>2. ASSUME NEW o \in Outs, D!RemoveOutput(o) PROVE D!DeskTypeOK'
  BY <1>2 DEF D!RemoveOutput
<1>3. ASSUME NEW s \in Sinks, D!RemoveSink(s) PROVE D!DeskTypeOK'
  BY <1>3 DEF D!RemoveSink
<1>4. ASSUME NEW x \in Devices \cup Events, D!Tag(x) PROVE D!DeskTypeOK'
  BY <1>4 DEF D!Tag
<1>5. ASSUME NEW e \in Events, D!RemoveEvent(e) PROVE D!DeskTypeOK'
  BY <1>5 DEF D!RemoveEvent
<1>6. ASSUME NEW e \in Events, D!Begins(e) PROVE D!DeskTypeOK'
  <2>1. ASSUME NEW o \in Outs, outs[o].on PROVE outs[o].device \in Devices
    BY <2>1 DEF D!Output, D!None
  <2>2. {outs[o].device : o \in {p \in D!Of(e) : outs[p].on}} \X {e} \subseteq Devices \X Events
    BY <2>1 DEF D!Of
  <2>3. driven' \subseteq Devices \X Events
    BY <1>6, <2>2 DEF D!Begins
  <2>4. run' \in [Events -> {"none", "live", "over"}]
    BY <1>6 DEF D!Begins
  <2> QED  BY <1>6, <2>3, <2>4 DEF D!Begins
<1>7. ASSUME NEW e \in Events, D!Ends(e) PROVE D!DeskTypeOK'
  BY <1>7 DEF D!Ends
<1>8. ASSUME NEW e \in Events, D!RemoveRun(e) PROVE D!DeskTypeOK'
  BY <1>8 DEF D!RemoveRun
<1>9. ASSUME NEW d \in Devices, D!Connect(d) PROVE D!DeskTypeOK'
  BY <1>9 DEF D!Connect
<1>10. ASSUME NEW d \in Devices, D!ChangeDevice(d) PROVE D!DeskTypeOK'
  BY <1>10 DEF D!ChangeDevice
<1>11. ASSUME NEW h \in Hands, NEW d \in Devices, D!RemoveDevice(h, d) PROVE D!DeskTypeOK'
  BY <1>11 DEF D!RemoveDevice
<1>12. ASSUME NEW h \in Hands, NEW d \in Devices, D!Command(h, d) PROVE D!DeskTypeOK'
  BY <1>12 DEF D!Command
<1>13. ASSUME NEW h \in Hands, D!DeviceClosed(h) PROVE D!DeskTypeOK'
  BY <1>13 DEF D!DeviceClosed, D!Cleared
<1>14. ASSUME NEW h \in Hands, D!Arrives(h) PROVE D!DeskTypeOK'
  BY <1>14 DEF D!Arrives
<1>15. CASE UNCHANGED deskVars
  BY <1>15 DEF deskVars
<1> QED  BY <1>1, <1>2, <1>3, <1>4, <1>5, <1>6, <1>7, <1>8, <1>9, <1>10, <1>11, <1>12, <1>13,
            <1>14, <1>15 DEF D!DeskNext

\* No row goes while an output refers to it: not a device either whose connection was still
\* being closed when the output was made.
LEMMA DeskRows ==
  ASSUME DeskInv, [D!DeskNext]_deskVars
  PROVE  D!OutputsStand'
<1> USE DEF DeskInv
<1>1. ASSUME NEW o \in Outs, D!PutOutput(o) PROVE D!OutputsStand'
  <2>1. PICK to \in D!Output : D!RefersToRows(to) /\ outs' = [outs EXCEPT ![o] = to]
    BY <1>1 DEF D!PutOutput
  <2>2. \A p \in Outs : outs'[p] \in {outs[p], to}
    BY <2>1 DEF D!DeskTypeOK
  <2> QED  BY <1>1, <2>1, <2>2 DEF D!PutOutput, D!OutputsStand, D!RefersToRows
<1>2. ASSUME NEW o \in Outs, D!RemoveOutput(o) PROVE D!OutputsStand'
  <2>1. \A p \in Outs : outs'[p] \in {outs[p], D!None}
    BY <1>2 DEF D!RemoveOutput, D!DeskTypeOK
  <2> QED  BY <1>2, <2>1 DEF D!RemoveOutput, D!OutputsStand, D!RefersToRows
<1>3. ASSUME NEW s \in Sinks, D!RemoveSink(s) PROVE D!OutputsStand'
  BY <1>3 DEF D!RemoveSink, D!OutputsStand, D!RefersToRows
<1>4. ASSUME NEW e \in Events, D!RemoveEvent(e) PROVE D!OutputsStand'
  <2>1. \A o \in Outs : outs'[o] = IF outs[o].event = e THEN D!None ELSE outs[o]
    BY <1>4 DEF D!RemoveEvent, D!Of
  <2> QED  BY <1>4, <2>1 DEF D!RemoveEvent, D!OutputsStand, D!RefersToRows
<1>5. ASSUME NEW h \in Hands, D!DeviceClosed(h) PROVE D!OutputsStand'
  BY <1>5 DEF D!DeviceClosed, D!MayGo, D!OutputsStand, D!RefersToRows
<1>6. CASE UNCHANGED <<outs, events, devices, sinks>>
  BY <1>6 DEF D!OutputsStand, D!RefersToRows
<1> QED  BY <1>1, <1>2, <1>3, <1>4, <1>5, <1>6 DEF D!DeskNext, deskVars, D!Tag, D!Begins, D!Ends,
            D!RemoveRun, D!Connect, D!ChangeDevice, D!RemoveDevice, D!Command, D!Arrives

\* Whatever goes takes its tags with it, in one go.
LEMMA DeskTags ==
  ASSUME DeskInv, [D!DeskNext]_deskVars
  PROVE  D!TagsHaveOwners'
<1> USE DEF DeskInv
<1>1. ASSUME NEW x \in Devices \cup Events, D!Tag(x) PROVE D!TagsHaveOwners'
  BY <1>1 DEF D!Tag, D!TagsHaveOwners
<1>2. ASSUME NEW e \in Events, D!RemoveEvent(e) PROVE D!TagsHaveOwners'
  BY <1>2 DEF D!RemoveEvent, D!TagsHaveOwners
<1>3. ASSUME NEW h \in Hands, D!DeviceClosed(h) PROVE D!TagsHaveOwners'
  BY <1>3 DEF D!DeviceClosed, D!Cleared, D!TagsHaveOwners
<1>4. CASE UNCHANGED <<tags, devices, events>>
  BY <1>4 DEF D!TagsHaveOwners
<1> QED  BY <1>1, <1>2, <1>3, <1>4 DEF D!DeskNext, deskVars, D!PutOutput, D!RemoveOutput, D!RemoveSink,
            D!Begins, D!Ends, D!RemoveRun, D!Connect, D!ChangeDevice, D!RemoveDevice, D!Command, D!Arrives

-----------------------------------------------------------------------------
-----------------------------------------------------------------------------
(* The door *)

Session == [is : {"none", "live", "revoked", "deleted"}, since : 0..MaxSet,
            expires : 0..(MaxClock + SessionTtl)]
Failure == [n : Nat, until : 0..(MaxClock + MaxDelay), at : 0..MaxClock]
Streak == [n : Nat, from : 0..MaxClock]

\* Not only who is signed in, also whoever's session has expired and is not swept yet has the
\* password of now: a session can expire while the password is being changed.
LiveIsCurrent ==
  serving = "none" /\ ~cut =>
    \A t \in SessionTokens : sessions[t].is = "live" => sessions[t].since = changed

\* The marker is what says whether the environment's was copied.
MarkerTells == seeded \in BOOLEAN /\ seeds = (IF seeded THEN 1 ELSE 0)

\* The throttle has counted the attempts in a row, the next has to wait out the delay after the
\* last, and those beyond the free ones have waited out the delays before them.
SlowedDown(a) ==
  /\ streak[a].n = failures[a].n /\ streak[a].from <= failures[a].at /\ failures[a].at <= clock
  /\ failures[a].until = failures[a].at + S!Delay(failures[a].n)
  /\ failures[a].n > FreeAttempts =>
       streak[a].from + S!Delays[failures[a].n - FreeAttempts - 1] <= failures[a].at

Slowed == \A a \in Addresses : SlowedDown(a)

DoorInv == S!SessionsTypeOK /\ LiveIsCurrent /\ MarkerTells /\ Slowed

-----------------------------------------------------------------------------
LEMMA NoAttempts ==
  ASSUME S!SessionsAssumption
  PROVE  /\ S!NoFailure = [n |-> 0, until |-> 0, at |-> 0] /\ S!NoFailure \in Failure
         /\ [n |-> 0, from |-> 0] \in Streak /\ S!Delay(0) = 0
BY DEF S!SessionsAssumption, S!NoFailure, Failure, Streak, S!Delay

\* Whoever has not tried yet is not slowed down.
LEMMA NotTried ==
  ASSUME S!SessionsAssumption, clock \in 0..MaxClock, clock' = clock, NEW a \in Addresses,
         failures'[a] = S!NoFailure, streak'[a] = [n |-> 0, from |-> 0]
  PROVE  SlowedDown(a)'
<1>1. FreeAttempts \in Nat /\ clock \in Nat
  BY DEF S!SessionsAssumption
<1> QED  BY <1>1, NoAttempts DEF SlowedDown

LEMMA DoorHolds == ASSUME S!SessionsAssumption PROVE S!SessionsInit => DoorInv
<1> SUFFICES ASSUME S!SessionsInit PROVE DoorInv
  OBVIOUS
<1>1. /\ S!NoSession \in Session /\ S!NoSession.is # "live"
      /\ 0 \in 0..MaxSet /\ 0 \in 0..(MaxSet + 1) /\ 0 \in 0..MaxClock /\ FreeAttempts \in Nat
  BY DEF S!NoSession, Session, S!SessionsAssumption
<1>2. sessions \in [SessionTokens -> Session] /\ \A t \in SessionTokens : sessions[t].is # "live"
  BY <1>1 DEF S!SessionsInit
<1>3. failures \in [Addresses -> Failure] /\ streak \in [Addresses -> Streak]
  BY NoAttempts DEF S!SessionsInit
<1>4. S!SessionsTypeOK
  BY <1>1, <1>2, <1>3 DEF S!SessionsInit, S!SessionsTypeOK, Session, Failure, Streak
<1>5. Slowed
  <2> SUFFICES ASSUME NEW a \in Addresses PROVE SlowedDown(a)
    BY DEF Slowed
  <2>1. failures[a] = [n |-> 0, until |-> 0, at |-> 0] /\ streak[a] = [n |-> 0, from |-> 0]
        /\ clock = 0
    BY NoAttempts DEF S!SessionsInit
  <2> QED  BY <1>1, <2>1, NoAttempts DEF SlowedDown
<1> QED  BY <1>2, <1>4, <1>5 DEF S!SessionsInit, DoorInv, LiveIsCurrent, MarkerTells

\* One session more, of the password of now.
LEMMA Minted ==
  ASSUME S!SessionsAssumption, clock \in 0..MaxClock, changed' \in 0..MaxSet,
         NEW now \in [SessionTokens -> Session], S!Mint(now)
  PROVE  /\ sessions' \in [SessionTokens -> Session]
         /\ (\A t \in SessionTokens : now[t].is = "live" => now[t].since = changed') =>
              \A t \in SessionTokens : sessions'[t].is = "live" => sessions'[t].since = changed'
<1> DEFINE fresh == [is |-> "live", since |-> changed', expires |-> clock + SessionTtl]
<1>1. fresh \in Session
  BY DEF Session, S!SessionsAssumption
<1>2. PICK t : sessions' = [now EXCEPT ![t] = fresh]
  BY DEF S!Mint
<1>3. \A u \in SessionTokens : sessions'[u] \in {now[u], fresh}
  BY <1>2
<1>4. sessions' \in [SessionTokens -> Session]
  BY <1>1, <1>2
<1> QED  BY <1>3, <1>4

\* Revoking leaves nobody.
LEMMA NobodyIsLeft ==
  ASSUME sessions \in [SessionTokens -> Session]
  PROVE  /\ S!RevokesAll \in [SessionTokens -> Session]
         /\ \A t \in SessionTokens : S!RevokesAll[t].is # "live"
<1> DEFINE revoked(t) == [sessions[t] EXCEPT !.is = IF @ = "live" THEN "revoked" ELSE @]
<1>1. \A t \in SessionTokens : revoked(t) \in Session /\ revoked(t).is # "live"
  BY DEF Session
<1>2. S!RevokesAll = [t \in SessionTokens |-> revoked(t)]
  BY DEF S!RevokesAll
<1> HIDE DEF revoked
<1> QED  BY <1>1, <1>2

\* An attempt that fails has waited, and so will the next.
LEMMA FailedAgain ==
  ASSUME S!SessionsAssumption, DoorInv, NEW a \in Addresses, S!Fail(a), S!RetryAfter(a) = 0,
         clock' = clock
  PROVE  /\ failures' \in [Addresses -> Failure] /\ streak' \in [Addresses -> Streak]
         /\ Slowed'
<1> DEFINE n == IF failures[a].n > 0 /\ ~S!Forgotten(a) THEN failures[a].n + 1 ELSE 1
           run0 == IF n = 1 THEN [n |-> 1, from |-> clock]
                   ELSE [n |-> streak[a].n + 1, from |-> streak[a].from]
           failure == [n |-> n, until |-> clock + S!Delay(n), at |-> clock]
<1>1. /\ FreeAttempts \in Nat /\ MaxDelay \in Nat /\ MaxClock \in Nat /\ MaxDelay > 0
      /\ clock \in 0..MaxClock /\ clock \in Nat
      /\ failures \in [Addresses -> Failure] /\ streak \in [Addresses -> Streak]
  BY DEF DoorInv, S!SessionsTypeOK, S!SessionsAssumption, Failure, Streak
<1>2. failures[a] \in Failure /\ streak[a] \in Streak /\ SlowedDown(a)
  BY <1>1 DEF DoorInv, Slowed
<1>3. /\ failures[a].n \in Nat /\ failures[a].until \in Nat /\ failures[a].at \in Nat
      /\ streak[a].n \in Nat /\ streak[a].from \in 0..MaxClock /\ streak[a].from \in Nat
  BY <1>1, <1>2 DEF Failure, Streak
<1>4. n \in Nat /\ n > 0
  BY <1>3
<1>5. S!Delay(n) \in 0..MaxDelay
  <2>1. CASE n <= FreeAttempts
    BY <1>1, <2>1 DEF S!Delay
  <2>2. CASE ~(n <= FreeAttempts)
    <3> HIDE DEF n
    <3>1. PICK k \in Nat : n = FreeAttempts + k + 1
      <4>1. n - FreeAttempts - 1 \in Nat /\ n = FreeAttempts + (n - FreeAttempts - 1) + 1
        BY <1>1, <1>4, <2>2
      <4> QED  BY <4>1
    <3>2. S!Delay(FreeAttempts + k + 1) \in 1..MaxDelay
      BY DelayLasts
    <3>3. S!Delay(n) \in 1..MaxDelay
      BY <3>1, <3>2, Zenon
    <3> QED  BY <1>1, <3>3
  <2> QED  BY <2>1, <2>2
<1>6. failures' = [failures EXCEPT ![a] = failure] /\ streak' = [streak EXCEPT ![a] = run0]
  <2>1. failures' = [failures EXCEPT ![a] = failure]
    BY Zenon DEF S!Fail
  <2>2. streak' = [streak EXCEPT ![a] = run0]
    BY Zenon DEF S!Fail
  <2> QED  BY <2>1, <2>2
<1>7. failure \in Failure
  <2> HIDE DEF n
  <2> QED  BY <1>1, <1>4, <1>5 DEF Failure
<1>8. /\ run0 \in Streak /\ run0.n = n
      /\ run0.from = IF n = 1 THEN clock ELSE streak[a].from
  <2>1. CASE n = 1
    BY <1>1, <2>1 DEF Streak
  <2>2. CASE n # 1
    <3>1. n = failures[a].n + 1 /\ streak[a].n = failures[a].n
      BY <1>2, <2>2 DEF SlowedDown
    <3> HIDE DEF n
    <3> QED  BY <1>2, <1>3, <2>2, <3>1 DEF Streak
  <2> QED  BY <2>1, <2>2
<1>9. /\ failure.n = n /\ failure.at = clock /\ failure.until = clock + S!Delay(n)
  OBVIOUS
<1>10. run0.from <= clock /\ (n > FreeAttempts =>
                               run0.from + S!Delays[n - FreeAttempts - 1] <= clock)
  <2>1. CASE n = 1
    <3>1. n > FreeAttempts => n - FreeAttempts - 1 = 0
      BY <1>1, <2>1
    <3> HIDE DEF n, run0
    <3> QED  BY <1>1, <1>8, <2>1, <3>1, DelaysAddUp
  <2>2. CASE n # 1
    <3>1. n = failures[a].n + 1 /\ ~S!Forgotten(a)
      BY <2>2
    <3>2. failures[a].until <= clock
      <4>1. S!Max({failures[a].until - clock, 0}) = 0
        BY <3>1 DEF S!RetryAfter
      <4>2. failures[a].until - clock \in Int /\ 0 \in Int
        BY <1>1, <1>3
      <4> QED  BY <1>1, <1>3, <4>1, <4>2, GreaterOf
    <3> HIDE DEF n, run0
    <3>3. run0.from = streak[a].from /\ streak[a].from <= failures[a].at /\ failures[a].at <= clock
      BY <1>2, <1>8, <2>2 DEF SlowedDown
    <3>4. CASE ~(failures[a].n > FreeAttempts)
      <4>1. n > FreeAttempts => n - FreeAttempts - 1 = 0
        BY <1>1, <1>3, <3>1, <3>4
      <4> QED  BY <1>1, <1>3, <3>3, <4>1, DelaysAddUp
    <3>5. CASE failures[a].n > FreeAttempts
      <4> DEFINE k == failures[a].n - FreeAttempts - 1
      <4>1. k \in Nat /\ FreeAttempts + k + 1 = failures[a].n /\ n - FreeAttempts - 1 = k + 1
        BY <1>1, <1>3, <3>1, <3>5
      <4>2. streak[a].from + S!Delays[k] <= failures[a].at
            /\ failures[a].until = failures[a].at + S!Delay(failures[a].n)
        BY <1>2, <3>5 DEF SlowedDown
      <4> HIDE DEF k
      <4>3. S!Delays[k + 1] = S!Delays[k] + S!Delay(failures[a].n) /\ S!Delays[k] \in Nat
            /\ S!Delays[k + 1] \in Nat
        BY <4>1, DelaysAddUp
      <4>4. S!Delay(failures[a].n) \in Nat
        <5>1. S!Delay(FreeAttempts + k + 1) \in 1..MaxDelay
          BY <4>1, DelayLasts
        <5>2. S!Delay(failures[a].n) \in 1..MaxDelay
          BY <4>1, <5>1, Zenon
        <5> QED  BY <1>1, <5>2
      <4>5. streak[a].from + S!Delays[k + 1] <= clock
        BY <1>1, <1>3, <3>2, <4>2, <4>3, <4>4
      <4> QED  BY <1>1, <1>3, <3>3, <4>1, <4>5
    <3> QED  BY <3>4, <3>5
  <2> QED  BY <2>1, <2>2
<1> HIDE DEF n, failure, run0
<1>11. failures' \in [Addresses -> Failure] /\ streak' \in [Addresses -> Streak]
  BY <1>1, <1>6, <1>7, <1>8
<1>12. SlowedDown(a)'
  <2>1. failures'[a] = failure /\ streak'[a] = run0
    BY <1>1, <1>6
  <2> QED  BY <1>1, <1>8, <1>9, <1>10, <2>1 DEF SlowedDown
<1>13. ASSUME NEW b \in Addresses, b # a PROVE SlowedDown(b)'
  <2>1. failures'[b] = failures[b] /\ streak'[b] = streak[b]
    BY <1>1, <1>6, <1>13
  <2> QED  BY <2>1 DEF DoorInv, Slowed, SlowedDown
<1> QED  BY <1>11, <1>12, <1>13 DEF Slowed

-----------------------------------------------------------------------------
LEMMA DoorStep ==
  ASSUME S!SessionsAssumption, DoorInv, [S!SessionsNext]_doorVars
  PROVE  DoorInv'
<1>1. /\ {FreeAttempts, MaxDelay, ForgetAfter, SessionTtl, MaxSet, MaxClock} \subseteq Nat
      /\ password \in 0..(MaxSet + 1) /\ seeded \in BOOLEAN /\ seeds \in Nat
      /\ sessions \in [SessionTokens -> Session] /\ failures \in [Addresses -> Failure]
      /\ streak \in [Addresses -> Streak]
      /\ request \in [Browsers -> {"none", "set", "clear"}] /\ serving \in {"none", "set", "clear"}
      /\ cut \in BOOLEAN /\ up \in BOOLEAN /\ clock \in 0..MaxClock /\ changed \in 0..MaxSet
  BY DEF DoorInv, S!SessionsTypeOK, S!SessionsAssumption, Session, Failure, Streak
<1>2. LiveIsCurrent /\ MarkerTells /\ Slowed
  BY DEF DoorInv
<1> DEFINE DoorTypes ==
      /\ password \in 0..(MaxSet + 1) /\ seeded \in BOOLEAN /\ seeds \in Nat
      /\ sessions \in [SessionTokens -> Session] /\ failures \in [Addresses -> Failure]
      /\ streak \in [Addresses -> Streak]
      /\ request \in [Browsers -> {"none", "set", "clear"}] /\ serving \in {"none", "set", "clear"}
      /\ cut \in BOOLEAN /\ up \in BOOLEAN /\ clock \in 0..MaxClock /\ changed \in 0..MaxSet
<1>3. DoorTypes' => S!SessionsTypeOK'
  BY DEF S!SessionsTypeOK, Session, Failure, Streak
<1>4. UNCHANGED <<failures, streak, clock>> => Slowed'
  BY <1>2 DEF Slowed, SlowedDown
<1>5. UNCHANGED <<sessions, serving, cut, changed>> => LiveIsCurrent'
  BY <1>2 DEF LiveIsCurrent
<1>6. UNCHANGED <<seeded, seeds>> => MarkerTells'
  BY <1>2 DEF MarkerTells
<1>7. ASSUME S!Stop PROVE DoorInv'
  <2>1. DoorTypes'
    BY <1>1, <1>7 DEF S!Stop
  <2>2. LiveIsCurrent'
    BY <1>1, <1>2, <1>7 DEF S!Stop, LiveIsCurrent
  <2> QED  BY <1>3, <1>4, <1>6, <1>7, <2>1, <2>2 DEF S!Stop, DoorInv
<1>8. ASSUME S!Elapses PROVE DoorInv'
  <2>1. DoorTypes' /\ clock \in Nat /\ clock' = clock + 1 /\ UNCHANGED <<failures, streak>>
    BY <1>1, <1>8 DEF S!Elapses
  <2>2. Slowed'
    <3> SUFFICES ASSUME NEW a \in Addresses PROVE SlowedDown(a)'
      BY DEF Slowed
    <3>1. failures[a].at \in Nat
      BY <1>1 DEF Failure
    <3> QED  BY <1>2, <2>1, <3>1 DEF Slowed, SlowedDown
  <2> QED  BY <1>3, <1>5, <1>6, <1>8, <2>1, <2>2 DEF S!Elapses, DoorInv
<1>9. ASSUME S!SweepSessions PROVE DoorInv'
  <2> DEFINE swept(t) == IF sessions[t].is # "none" /\ ~S!Valid(t)
                         THEN [S!NoSession EXCEPT !.is = "deleted"] ELSE sessions[t]
  <2>1. sessions' = [t \in SessionTokens |-> swept(t)]
    BY <1>9 DEF S!SweepSessions
  <2>2. \A t \in SessionTokens : swept(t) \in Session
                                 /\ (swept(t).is = "live" => swept(t) = sessions[t])
    BY <1>1 DEF Session, S!NoSession
  <2> HIDE DEF swept
  <2>3. sessions' \in [SessionTokens -> Session]
    BY <2>1, <2>2
  <2>4. \A t \in SessionTokens : sessions'[t].is = "live" => sessions'[t] = sessions[t]
    BY <2>1, <2>2
  <2>5. DoorTypes'
    BY <1>1, <1>9, <2>3 DEF S!SweepSessions
  <2>6. LiveIsCurrent'
    BY <1>2, <1>9, <2>4 DEF S!SweepSessions, LiveIsCurrent
  <2> QED  BY <1>3, <1>4, <1>6, <1>9, <2>5, <2>6 DEF S!SweepSessions, DoorInv
<1>10. ASSUME S!RevokeAll PROVE DoorInv'
  <2>1. changed' = changed /\ serving' = "none" /\ cut' = FALSE
        /\ UNCHANGED <<password, seeded, seeds, failures, streak, request, up, clock>>
    BY <1>10 DEF S!RevokeAll
  <2>2. /\ sessions' \in [SessionTokens -> Session]
        /\ \A t \in SessionTokens : sessions'[t].is = "live" => sessions'[t].since = changed'
    <3>1. CASE serving = "set"
      <4>1. S!Mint(S!RevokesAll)
        BY <1>10, <3>1 DEF S!RevokeAll
      <4>2. \A t \in SessionTokens : S!RevokesAll[t].is = "live" => S!RevokesAll[t].since = changed'
        BY <1>1, NobodyIsLeft
      <4> QED  BY <1>1, <2>1, <4>1, <4>2, NobodyIsLeft, Minted
    <3>2. CASE serving # "set"
      BY <1>1, <1>10, <3>2, NobodyIsLeft DEF S!RevokeAll
    <3> QED  BY <3>1, <3>2
  <2>3. DoorTypes' /\ LiveIsCurrent'
    BY <1>1, <2>1, <2>2 DEF LiveIsCurrent
  <2> QED  BY <1>3, <1>4, <1>6, <2>1, <2>3 DEF DoorInv
<1>11. ASSUME NEW env \in BOOLEAN, S!Start(env) PROVE DoorInv'
  <2>1. /\ UNCHANGED <<sessions, request, serving, cut, clock, changed>> /\ up' = TRUE
        /\ failures' = [a \in Addresses |-> S!NoFailure]
        /\ streak' = [a \in Addresses |-> [n |-> 0, from |-> 0]]
    BY <1>11 DEF S!Start
  <2>2. Slowed'
    <3> SUFFICES ASSUME NEW a \in Addresses PROVE SlowedDown(a)'
      BY DEF Slowed
    <3> QED  BY <1>1, <2>1, NotTried
  <2>3. failures' \in [Addresses -> Failure] /\ streak' \in [Addresses -> Streak]
    BY <2>1, NoAttempts
  <2>4. CASE env /\ S!Seeds
    <3>1. seeded' = TRUE /\ seeds' = seeds + 1 /\ seeds = 0 /\ password' = 1
      BY <1>2, <1>11, <2>4 DEF S!Start, S!Seeds, MarkerTells
    <3>2. DoorTypes'
      BY <1>1, <2>1, <2>3, <3>1
    <3> QED  BY <1>3, <1>5, <2>1, <2>2, <3>1, <3>2 DEF MarkerTells, DoorInv
  <2>5. CASE ~(env /\ S!Seeds)
    <3>1. seeded' = seeded /\ seeds' = seeds /\ password' = password
      BY <1>11, <2>5 DEF S!Start
    <3>2. DoorTypes'
      BY <1>1, <2>1, <2>3, <3>1
    <3> QED  BY <1>3, <1>5, <1>6, <2>1, <2>2, <3>1, <3>2 DEF DoorInv
  <2> QED  BY <2>4, <2>5
<1>12. ASSUME NEW a \in Addresses, NEW right \in BOOLEAN, S!Login(a, right) PROVE DoorInv'
  <2>1. /\ serving = "none" /\ changed' = changed /\ S!RetryAfter(a) = 0
        /\ UNCHANGED <<password, seeded, seeds, request, serving, cut, up, clock>>
    BY <1>12 DEF S!Login, S!Serves
  <2>2. CASE right
    <3>1. /\ S!Mint(sessions) /\ failures' = [failures EXCEPT ![a] = S!NoFailure]
          /\ streak' = [streak EXCEPT ![a] = [n |-> 0, from |-> 0]]
      BY <1>12, <2>2 DEF S!Login
    <3>2. /\ sessions' \in [SessionTokens -> Session]
          /\ ~cut => \A t \in SessionTokens : sessions'[t].is = "live"
                                                => sessions'[t].since = changed'
      BY <1>1, <1>2, <2>1, <3>1, Minted DEF LiveIsCurrent
    <3>3. failures' \in [Addresses -> Failure] /\ streak' \in [Addresses -> Streak]
      BY <1>1, <3>1, NoAttempts
    <3>4. Slowed'
      <4> SUFFICES ASSUME NEW b \in Addresses PROVE SlowedDown(b)'
        BY DEF Slowed
      <4>1. CASE b = a
        BY <1>1, <2>1, <3>1, <4>1, NotTried
      <4>2. CASE b # a
        <5>1. failures'[b] = failures[b] /\ streak'[b] = streak[b]
          BY <1>1, <3>1, <4>2
        <5> QED  BY <1>2, <2>1, <5>1 DEF Slowed, SlowedDown
      <4> QED  BY <4>1, <4>2
    <3>5. DoorTypes' /\ LiveIsCurrent'
      BY <1>1, <2>1, <3>2, <3>3 DEF LiveIsCurrent
    <3> QED  BY <1>3, <1>6, <2>1, <3>4, <3>5 DEF DoorInv
  <2>3. CASE ~right
    <3>1. sessions' = sessions /\ S!Fail(a)
      BY <1>12, <2>3 DEF S!Login
    <3>2. failures' \in [Addresses -> Failure] /\ streak' \in [Addresses -> Streak] /\ Slowed'
      BY <2>1, <3>1, FailedAgain
    <3>3. DoorTypes'
      BY <1>1, <2>1, <3>1, <3>2
    <3> QED  BY <1>3, <1>5, <1>6, <2>1, <3>1, <3>2, <3>3 DEF DoorInv
  <2> QED  BY <2>2, <2>3
<1>13. ASSUME NEW t \in SessionTokens, S!Logout(t) PROVE DoorInv'
  <2>1. sessions' = [sessions EXCEPT ![t] = [sessions[t] EXCEPT !.is = "revoked"]]
    BY <1>13 DEF S!Logout
  <2>2. [sessions[t] EXCEPT !.is = "revoked"] \in Session
    BY <1>1 DEF Session
  <2>3. sessions' \in [SessionTokens -> Session]
    BY <1>1, <2>1, <2>2
  <2>4. \A u \in SessionTokens : sessions'[u].is = "live" => sessions'[u] = sessions[u]
    BY <1>1, <2>1, <2>2 DEF Session
  <2>5. DoorTypes'
    BY <1>1, <1>13, <2>3 DEF S!Logout
  <2>6. LiveIsCurrent'
    BY <1>2, <1>13, <2>4 DEF S!Logout, LiveIsCurrent
  <2> QED  BY <1>3, <1>4, <1>6, <1>13, <2>5, <2>6 DEF S!Logout, DoorInv
<1>14. ASSUME NEW b \in Browsers, S!PassesGate(b) PROVE DoorInv'
  <2>1. DoorTypes'
    BY <1>1, <1>14 DEF S!PassesGate
  <2> QED  BY <1>3, <1>4, <1>5, <1>6, <1>14, <2>1 DEF S!PassesGate, DoorInv
<1>15. ASSUME NEW b \in Browsers, S!WritePassword(b) PROVE DoorInv'
  <2>1. changed' \in 0..MaxSet /\ password' \in 0..(MaxSet + 1)
    BY <1>1, <1>15 DEF S!WritePassword
  <2>2. DoorTypes'
    BY <1>1, <1>15, <2>1 DEF S!WritePassword
  <2>3. serving' # "none"
    BY <1>15 DEF S!WritePassword
  <2>4. LiveIsCurrent'
    BY <2>3 DEF LiveIsCurrent
  <2> QED  BY <1>3, <1>4, <1>6, <1>15, <2>2, <2>4 DEF S!WritePassword, DoorInv
<1>16. CASE UNCHANGED doorVars
  BY <1>1, <1>3, <1>4, <1>5, <1>6, <1>16 DEF doorVars, DoorInv
<1> QED  BY <1>7, <1>8, <1>9, <1>10, <1>11, <1>12, <1>13, <1>14, <1>15, <1>16 DEF S!SessionsNext

\* What is left of a guesser's attempts are the free ones, the first that is slowed down, and
\* one for each delay that is over.
LEMMA FewGuesses == ASSUME S!SessionsAssumption, DoorInv PROVE S!GuessesBounded
<1> SUFFICES ASSUME NEW a \in Addresses
             PROVE  streak[a].n <= FreeAttempts + 1 + S!Cardinality(
                      {k \in 1..MaxClock : S!Delays[k] <= clock - streak[a].from})
  BY DEF S!GuessesBounded
<1> DEFINE waited == {k \in 1..MaxClock : S!Delays[k] <= clock - streak[a].from}
<1>1. FreeAttempts \in Nat /\ MaxClock \in Nat /\ clock \in 0..MaxClock
  BY DEF DoorInv, S!SessionsTypeOK, S!SessionsAssumption
<1>2. failures[a] \in Failure /\ streak[a] \in Streak /\ SlowedDown(a)
  BY DEF DoorInv, S!SessionsTypeOK, Slowed, Failure, Streak
<1>3. /\ streak[a].n \in Nat /\ streak[a].from \in Nat /\ failures[a].at \in Nat
      /\ streak[a].n = failures[a].n
  BY <1>1, <1>2 DEF Failure, Streak, SlowedDown
<1>4. IsFiniteSet(waited)
  <2>1. IsFiniteSet(1..MaxClock)
    BY <1>1, FS_Interval
  <2> QED  BY <2>1, FS_Subset
<1>5. Cardinality(waited) \in Nat /\ S!Cardinality(waited) = Cardinality(waited)
  BY <1>4, FS_CardinalityType DEF S!Cardinality, Cardinality, S!IsFiniteSet, IsFiniteSet
<1>6. CASE ~(streak[a].n > FreeAttempts + 1)
  <2> HIDE DEF waited
  <2>1. streak[a].n <= FreeAttempts + 1 + Cardinality(waited)
    BY <1>1, <1>3, <1>5, <1>6
  <2> QED  BY <1>5, <2>1 DEF waited
<1>7. CASE streak[a].n > FreeAttempts + 1
  <2> DEFINE m == streak[a].n - FreeAttempts - 1
  <2>1. m \in Nat /\ streak[a].n = FreeAttempts + 1 + m
    BY <1>1, <1>3, <1>7
  <2>2. streak[a].from + S!Delays[m] <= failures[a].at /\ failures[a].at <= clock
    BY <1>1, <1>2, <1>3, <1>7 DEF SlowedDown
  <2> HIDE DEF m
  <2>3. S!Delays[m] \in Nat /\ m <= S!Delays[m]
    BY <2>1, DelaysAddUp
  <2>4. S!Delays[m] <= clock - streak[a].from /\ m <= MaxClock
    BY <1>1, <1>3, <2>1, <2>2, <2>3
  <2>5. 1..m \subseteq waited
    <3> SUFFICES ASSUME NEW k \in 1..m PROVE k \in waited
      OBVIOUS
    <3>1. k \in 0..m /\ k \in 1..MaxClock /\ k \in Nat
      BY <1>1, <2>1, <2>4
    <3>2. S!Delays[k] <= S!Delays[m] /\ S!Delays[k] \in Nat
      BY <2>1, <3>1, DelaysGrow, DelaysAddUp
    <3> QED  BY <1>1, <1>3, <2>3, <2>4, <3>1, <3>2
  <2> HIDE DEF waited
  <2>6. Cardinality(1..m) = m
    BY <2>1, FS_Interval
  <2>7. Cardinality(1..m) <= Cardinality(waited)
    BY <1>4, <2>5, FS_Subset
  <2>8. streak[a].n <= FreeAttempts + 1 + Cardinality(waited)
    BY <1>1, <1>5, <2>1, <2>6, <2>7
  <2> QED  BY <1>5, <2>8 DEF waited
<1> QED  BY <1>6, <1>7

LEMMA DoorShut ==
  ASSUME S!SessionsAssumption, DoorInv
  PROVE  S!SignedOut /\ S!SeededOnce /\ S!GuessesBounded
BY FewGuesses DEF DoorInv, LiveIsCurrent, MarkerTells, S!SignedOut, S!SeededOnce, S!Valid

-----------------------------------------------------------------------------
(* Accounts *)

OneClient == \A c, d \in Clients : c = d

\* A refresh was answered with another token than the instance had.
Waiting(o) == open[o].answer = "new" /\ A!WrittenBack(o)

\* Rows are told apart by their ids, and a new one is beyond them all.
Numbered ==
  /\ \A c, d \in Channels : account[c] = account[d] /\ account[c] # 0 => c = d
  /\ \A c \in Channels : account[c] <= ids

\* No token is there before it was issued.
Issued ==
  /\ \A t \in A!Tokens, c \in Clients : <<t, c>> \in good => t \in 1..issued
  /\ \A a \in A!Ids : vault[a] <= issued
  /\ \A f \in Flows : flow[f].token <= issued
  /\ \A o \in Opened : open[o].holds <= issued /\ open[o].new <= issued

\* An instance that was not answered has no other token, one that was has one; none has a
\* token without an account.
Answered ==
  \A o \in Opened :
    /\ open[o].answer = "new" <=> open[o].new # 0
    /\ open[o].of = 0 => open[o].holds = 0 /\ open[o].new = 0

\* No two accounts share a token, and only instances of an account have its token.
Owned ==
  /\ \A a, b \in A!Ids : vault[a] = vault[b] /\ vault[a] # 0 => a = b
  /\ \A a \in A!Ids, o \in Opened :
       vault[a] = open[o].holds /\ vault[a] # 0 => a = open[o].of

\* A token that was granted is good, and nobody else's yet.
GrantedIsGood ==
  \A f \in Flows : flow[f].is = "granted" =>
    /\ flow[f].token # 0 /\ <<flow[f].token, flow[f].client>> \in good
    /\ \A g \in Flows : flow[g].is = "granted" /\ flow[g].token = flow[f].token => g = f
    /\ \A a \in A!Ids : vault[a] # flow[f].token
    /\ \A o \in Opened : open[o].holds # flow[f].token /\ open[o].new # flow[f].token

\* So is a token on its way to the vault.
WaitingIsGood ==
  \A o \in Opened : Waiting(o) =>
    /\ <<open[o].new, open[o].client>> \in good
    /\ \A a \in A!Ids : vault[a] # open[o].new
    /\ \A p \in Opened : open[p].holds # open[o].new
    /\ \A p \in Opened : open[p].new = open[o].new => p = o

\* The token of an account is good, or one that is goes to its place.
Reachable ==
  OneClient => \A a \in A!Rows \ unlucky :
    <<vault[a], client[a]>> \in good \/ \E o \in Opened : open[o].of = a /\ Waiting(o)

VaultInv == A!AccTypeOK /\ Numbered /\ Issued /\ Answered /\ GrantedIsGood /\ A!NoStrayToken
TokenInv == VaultInv /\ Owned /\ WaitingIsGood /\ Reachable

-----------------------------------------------------------------------------
LEMMA NothingYet ==
  ASSUME A!AccountAssumption
  PROVE  /\ A!SomeClient \in Clients /\ A!NoFlow.of \in Channels
         /\ A!Closed = [of |-> 0, client |-> A!SomeClient, holds |-> 0, answer |-> "none", new |-> 0]
         /\ A!NoFlow.is = "none" /\ A!NoFlow.client = A!SomeClient /\ A!NoFlow.token = 0
         /\ A!NoFlow \in [is : {"none", "pending", "asking", "granted"},
                        client : Clients, of : Channels, token : A!Tokens]
         /\ A!Closed \in [of : 0..MaxIds, client : Clients, holds : A!Tokens,
                        answer : {"none", "new", "no"}, new : A!Tokens]
  BY DEF A!AccountAssumption, A!SomeClient, A!NoFlow, A!Closed, A!Tokens

LEMMA TokensHold == ASSUME A!AccountAssumption PROVE A!AccInit => TokenInv
<1> SUFFICES ASSUME A!AccInit PROVE TokenInv
  OBVIOUS
<1>1. A!AccTypeOK
  BY NothingYet DEF A!AccountAssumption, A!AccInit, A!AccTypeOK, A!Ids, A!Tokens
<1>2. A!Rows = {}
  BY DEF A!AccInit, A!Rows
<1> QED  BY <1>1, <1>2, NothingYet DEF A!AccountAssumption, A!AccInit, TokenInv, VaultInv, Numbered,
            Issued, Answered, GrantedIsGood, A!NoStrayToken, Owned, WaitingIsGood, Waiting,
            A!WrittenBack, Reachable, A!Ids, A!Tokens

LEMMA RowsAreIds == ASSUME A!AccountAssumption, A!AccTypeOK PROVE A!Rows \subseteq A!Ids
<1>1. \A c \in Channels : account[c] \in 0..MaxIds
  BY DEF A!AccTypeOK
<1> QED  BY <1>1 DEF A!Rows, A!Ids, A!AccountAssumption

-----------------------------------------------------------------------------
\* Steps of authorizations that change flows only.
LEMMA FlowSteps ==
  ASSUME A!AccountAssumption, TokenInv, NEW f \in Flows,
         (\E c \in Clients : A!Start(f, c)) \/ (\E ch \in Channels : A!Callback(f, ch)) \/ A!Fails(f)
  PROVE  TokenInv'
<1> USE DEF TokenInv, VaultInv
<1>1. UNCHANGED <<account, client, vault, ids, uses, open, issued, good, unlucky, trouble>>
  BY DEF A!Start, A!Callback, A!Fails
<1> DEFINE FlowsFewer ==
             /\ flow' \in [Flows -> [is : {"none", "pending", "asking", "granted"},
                                    client : Clients, of : Channels, token : A!Tokens]]
             /\ \A g \in Flows : flow'[g].is = "granted" => flow'[g] = flow[g]
             /\ \A g \in Flows : flow'[g].token \in {flow[g].token, 0}
<1>2. FlowsFewer
  <2>1. ASSUME NEW c \in Clients, A!Start(f, c) PROVE FlowsFewer
    <3> DEFINE waits == [A!NoFlow EXCEPT !.is = "pending", !.client = c]
    <3>1. /\ waits \in [is : {"none", "pending", "asking", "granted"},
                          client : Clients, of : Channels, token : A!Tokens]
          /\ waits.is = "pending" /\ waits.token = 0
      BY NothingYet
    <3>2. PICK old \in SUBSET {g \in Flows : flow[g].is = "pending"} :
            flow' = [g \in Flows |-> IF g = f THEN waits ELSE IF g \in old THEN A!NoFlow ELSE flow[g]]
      BY <2>1 DEF A!Start
    <3> HIDE DEF waits
    <3>3. \A g \in Flows : flow'[g] \in {waits, A!NoFlow, flow[g]}
      BY <3>2
    <3>4. flow' \in [Flows -> [is : {"none", "pending", "asking", "granted"},
                              client : Clients, of : Channels, token : A!Tokens]]
      BY <3>1, <3>2, <3>3, NothingYet DEF A!AccTypeOK
    <3> QED  BY <3>1, <3>3, <3>4, NothingYet
  <2>2. ASSUME NEW ch \in Channels, A!Callback(f, ch) PROVE FlowsFewer
    <3> DEFINE asking == [flow[f] EXCEPT !.is = "asking", !.of = ch]
    <3>1. /\ asking \in [is : {"none", "pending", "asking", "granted"},
                         client : Clients, of : Channels, token : A!Tokens]
          /\ asking.is = "asking" /\ asking.token = flow[f].token
      BY DEF A!AccTypeOK
    <3>2. flow' = [flow EXCEPT ![f] = asking]
      BY <2>2 DEF A!Callback
    <3> HIDE DEF asking
    <3> QED  BY <3>1, <3>2 DEF A!AccTypeOK
  <2>3. CASE A!Fails(f)
    BY <2>3, NothingYet DEF A!Fails, A!AccTypeOK
  <2> QED  BY <2>1, <2>2, <2>3
<1>3. A!AccTypeOK'
  BY <1>1, <1>2 DEF A!AccTypeOK
<1>4. Numbered' /\ Answered' /\ A!NoStrayToken' /\ Owned'
  BY <1>1 DEF Numbered, Answered, A!NoStrayToken, Owned, A!Rows
<1>5. Issued'
  BY <1>1, <1>2 DEF Issued, A!AccTypeOK, A!AccountAssumption, A!Tokens
<1>6. GrantedIsGood'
  BY <1>1, <1>2 DEF GrantedIsGood
<1>7. WaitingIsGood' /\ Reachable'
  BY <1>1 DEF WaitingIsGood, Reachable, Waiting, A!WrittenBack, A!Rows
<1> QED  BY <1>3, <1>4, <1>5, <1>6, <1>7

\* A token is granted that nobody had.
LEMMA GrantStep ==
  ASSUME A!AccountAssumption, TokenInv, NEW f \in Flows, A!Grants(f)
  PROVE  TokenInv'
<1> USE DEF TokenInv, VaultInv
<1>1. /\ UNCHANGED <<account, client, vault, ids, uses, open, unlucky, trouble>>
      /\ issued' = issued + 1 /\ issued < MaxTokens /\ flow[f].is = "asking"
      /\ good' = good \cup {<<issued + 1, flow[f].client>>}
      /\ flow' = [flow EXCEPT ![f] = [flow[f] EXCEPT !.is = "granted", !.token = issued + 1]]
  BY DEF A!Grants
<1>2. issued \in Nat /\ issued + 1 \in A!Tokens /\ issued \in A!Tokens
  BY <1>1 DEF A!AccTypeOK, A!AccountAssumption, A!Tokens
<1>3. flow[f] \in [is : {"none", "pending", "asking", "granted"},
                  client : Clients, of : Channels, token : A!Tokens]
  BY DEF A!AccTypeOK
<1>4. /\ flow'[f].is = "granted" /\ flow'[f].token = issued + 1
      /\ flow'[f].client = flow[f].client
      /\ \A g \in Flows \ {f} : flow'[g] = flow[g]
  BY <1>1, <1>3 DEF A!AccTypeOK
<1>5. A!AccTypeOK'
  <2>1. flow' \in [Flows -> [is : {"none", "pending", "asking", "granted"},
                            client : Clients, of : Channels, token : A!Tokens]]
    BY <1>1, <1>2, <1>3 DEF A!AccTypeOK
  <2>2. good' \subseteq A!Tokens \X Clients
    BY <1>1, <1>2, <1>3 DEF A!AccTypeOK
  <2> QED  BY <1>1, <1>2, <2>1, <2>2 DEF A!AccTypeOK
<1>6. Numbered' /\ Answered' /\ A!NoStrayToken' /\ Owned'
  BY <1>1 DEF Numbered, Answered, A!NoStrayToken, Owned, A!Rows
<1>7. Issued'
  BY <1>1, <1>2, <1>4 DEF Issued, A!AccTypeOK, A!Tokens
<1>8. GrantedIsGood'
  BY <1>1, <1>2, <1>4 DEF GrantedIsGood, Issued, A!AccTypeOK, A!Tokens
<1>9. WaitingIsGood' /\ Reachable'
  BY <1>1 DEF WaitingIsGood, Reachable, Waiting, A!WrittenBack, A!Rows
<1> QED  BY <1>5, <1>6, <1>7, <1>8, <1>9

\* The token that was granted comes into the vault, for a row that is new or was there.
LEMMA ConnectStep ==
  ASSUME A!AccountAssumption, TokenInv, NEW f \in Flows, A!Connects(f)
  PROVE  TokenInv'
<1> USE DEF TokenInv, VaultInv
<1> DEFINE ch == flow[f].of
           a == A!Row(ch)
           token == flow[f].token
<1>1. /\ flow[f].is = "granted" /\ a \in A!Ids /\ flow' = [flow EXCEPT ![f] = A!NoFlow]
      /\ account' = [account EXCEPT ![ch] = a] /\ ids' = IF a > ids THEN a ELSE ids
      /\ client' = [client EXCEPT ![a] = flow[f].client]
      /\ vault' = [vault EXCEPT ![a] = token]
      /\ unlucky' = unlucky \ {a} /\ UNCHANGED <<uses, open, issued, good, trouble>>
  BY DEF A!Connects
<1>2. ch \in Channels /\ token \in A!Tokens /\ flow[f].client \in Clients
  BY DEF A!AccTypeOK
<1>3. token # 0 /\ <<token, flow[f].client>> \in good
      /\ (\A b \in A!Ids : vault[b] # token)
      /\ (\A o \in Opened : open[o].holds # token /\ open[o].new # token)
  BY <1>1 DEF GrantedIsGood
<1>4. a \in 1..MaxIds /\ ids \in 0..MaxIds /\ a = (IF account[ch] = 0 THEN ids + 1 ELSE account[ch])
  BY <1>1 DEF A!Ids, A!AccTypeOK, A!Row
<1>5. \A c \in Channels : account[c] \in 0..MaxIds
  BY DEF A!AccTypeOK
<1>6. \A c \in Channels \ {ch} : account[c] # a
  BY <1>2, <1>4, <1>5 DEF Numbered, A!AccountAssumption
<1>7. account'[ch] = a /\ \A c \in Channels \ {ch} : account'[c] = account[c]
  BY <1>1, <1>2 DEF A!AccTypeOK
<1>8. vault'[a] = token /\ \A b \in A!Ids \ {a} : vault'[b] = vault[b]
  BY <1>1 DEF A!AccTypeOK
<1>9. client'[a] = flow[f].client /\ \A b \in A!Ids \ {a} : client'[b] = client[b]
  BY <1>1 DEF A!AccTypeOK
<1>10. flow'[f] = A!NoFlow /\ \A g \in Flows \ {f} : flow'[g] = flow[g]
  BY <1>1 DEF A!AccTypeOK
<1>11. A!Rows' = A!Rows \cup {a}
  <2>1. \A x \in A!Rows' : x \in A!Rows \cup {a}
    BY <1>7 DEF A!Rows
  <2>2. a # 0
    BY <1>4
  <2>3. a \in A!Rows'
    BY <1>2, <1>7, <2>2 DEF A!Rows
  <2>4. \A x \in A!Rows : x \in A!Rows'
    BY <1>2, <1>4, <1>7, <2>3 DEF A!Rows
  <2> QED  BY <2>1, <2>3, <2>4
<1> HIDE DEF ch, a, token
<1>12. A!AccTypeOK'
  <2>1. flow' \in [Flows -> [is : {"none", "pending", "asking", "granted"},
                            client : Clients, of : Channels, token : A!Tokens]]
    BY <1>1, NothingYet DEF A!AccTypeOK
  <2>2. a \in 0..MaxIds
    BY <1>4 DEF A!AccountAssumption
  <2>3. account' \in [Channels -> 0..MaxIds]
    BY <1>1, <2>2 DEF A!AccTypeOK
  <2>4. ids' \in 0..MaxIds
    BY <1>1, <1>4, <2>2
  <2>5. client' \in [A!Ids -> Clients] /\ vault' \in [A!Ids -> A!Tokens] /\ unlucky' \subseteq A!Ids
    BY <1>1, <1>2 DEF A!AccTypeOK
  <2> QED  BY <1>1, <2>1, <2>3, <2>4, <2>5 DEF A!AccTypeOK
<1>13. Numbered'
  BY <1>1, <1>4, <1>5, <1>6, <1>7 DEF Numbered, A!AccountAssumption
<1>14. Issued'
  <2>1. token <= issued
    BY DEF Issued, token
  <2>2. \A g \in Flows : flow'[g].token <= issued
    BY <1>10, NothingYet DEF Issued, A!AccTypeOK, A!Tokens
  <2> QED  BY <1>1, <1>8, <2>1, <2>2 DEF Issued
<1>15. Answered'
  BY <1>1 DEF Answered
<1>16. GrantedIsGood'
  BY <1>1, <1>8, <1>10, NothingYet DEF GrantedIsGood, token
<1>17. A!NoStrayToken'
  BY <1>3, <1>8, <1>11 DEF A!NoStrayToken
<1>18. Owned'
  BY <1>1, <1>3, <1>8 DEF Owned
<1>19. WaitingIsGood'
  BY <1>1, <1>3, <1>8 DEF WaitingIsGood, Waiting, A!WrittenBack
<1>20. Reachable'
  <2>1. <<vault'[a], client'[a]>> \in good'
    BY <1>1, <1>3, <1>8, <1>9
  <2>2. ASSUME OneClient, NEW b \in A!Rows' \ unlucky', b # a
        PROVE  <<vault'[b], client'[b]>> \in good'
               \/ \E o \in Opened : open'[o].of = b /\ Waiting(o)'
    <3>1. b \in A!Rows \ unlucky /\ b \in A!Ids
      BY <1>1, <1>5, <1>11, <2>2 DEF A!Rows, A!Ids
    <3>2. vault'[b] = vault[b] /\ client'[b] = client[b]
      BY <1>8, <1>9, <2>2, <3>1
    <3> QED  BY <1>1, <2>2, <3>1, <3>2 DEF Reachable, Waiting, A!WrittenBack
  <2> QED  BY <2>1, <2>2 DEF Reachable
<1> QED  BY <1>12, <1>13, <1>14, <1>15, <1>16, <1>17, <1>18, <1>19, <1>20

\* A row goes, and its token with it.
LEMMA RemoveStep ==
  ASSUME A!AccountAssumption, TokenInv, NEW ch \in Channels, A!RemoveAccount(ch)
  PROVE  TokenInv'
<1> USE DEF TokenInv, VaultInv
<1> DEFINE a == account[ch]
<1>1. /\ a # 0 /\ vault' = [vault EXCEPT ![a] = 0] /\ account' = [account EXCEPT ![ch] = 0]
      /\ UNCHANGED <<flow, client, ids, uses, open, issued, good, unlucky, trouble>>
  BY DEF A!RemoveAccount
<1>2. a \in 0..MaxIds /\ a \in A!Ids
  BY <1>1 DEF A!AccTypeOK, A!Ids, A!AccountAssumption
<1>3. account'[ch] = 0 /\ \A c \in Channels \ {ch} : account'[c] = account[c]
  BY <1>1 DEF A!AccTypeOK
<1>4. vault'[a] = 0 /\ \A b \in A!Ids \ {a} : vault'[b] = vault[b]
  BY <1>1, <1>2 DEF A!AccTypeOK
<1>5. \A c \in Channels \ {ch} : account[c] # a
  BY <1>1 DEF Numbered
<1>6. A!Rows' = A!Rows \ {a}
  BY <1>3, <1>5 DEF A!Rows
<1> HIDE DEF a
<1>7. A!AccTypeOK'
  <2>1. 0 \in 0..MaxIds /\ 0 \in A!Tokens
    BY DEF A!AccountAssumption, A!Tokens
  <2>2. account' \in [Channels -> 0..MaxIds] /\ vault' \in [A!Ids -> A!Tokens]
    BY <1>1, <2>1 DEF A!AccTypeOK
  <2> QED  BY <1>1, <2>2 DEF A!AccTypeOK
<1>8. Numbered'
  BY <1>1, <1>3 DEF Numbered, A!AccTypeOK, A!AccountAssumption
<1>9. Issued'
  BY <1>1, <1>4 DEF Issued, A!AccTypeOK, A!Tokens, A!AccountAssumption
<1>10. Answered' /\ GrantedIsGood'
  BY <1>1, <1>4 DEF Answered, GrantedIsGood
<1>11. A!NoStrayToken'
  BY <1>4, <1>6 DEF A!NoStrayToken
<1>12. Owned'
  BY <1>1, <1>4 DEF Owned
<1>13. WaitingIsGood'
  <2>1. \A o \in Opened : Waiting(o) => open[o].new # 0
    BY DEF Waiting, Answered
  <2> QED  BY <1>1, <1>4, <2>1 DEF WaitingIsGood, Waiting, A!WrittenBack
<1>14. Reachable'
  <2>1. \A b \in A!Rows' : b \in A!Ids \ {a} /\ b \in A!Rows
    BY <1>6, RowsAreIds
  <2> QED  BY <1>1, <1>4, <2>1 DEF Reachable, Waiting, A!WrittenBack
<1> QED  BY <1>7, <1>8, <1>9, <1>10, <1>11, <1>12, <1>13, <1>14

-----------------------------------------------------------------------------
\* Steps of one instance. What an instance can be:
Instance == [of : 0..MaxIds, client : Clients, holds : A!Tokens, answer : {"none", "new", "no"},
             new : A!Tokens]

\* A destination is opened with the token that is in the vault.
LEMMA OpenStep ==
  ASSUME A!AccountAssumption, TokenInv, NEW o \in Opened, NEW a \in A!Ids, A!Open(o, a)
  PROVE  TokenInv'
<1> USE DEF TokenInv, VaultInv
<1> DEFINE now == [of |-> a, client |-> client[a], holds |-> vault[a], answer |-> "none", new |-> 0]
<1>1. /\ open[o] = A!Closed /\ a \in A!Rows /\ open' = [open EXCEPT ![o] = now]
      /\ UNCHANGED <<flow, account, client, vault, ids, uses, issued, good, unlucky, trouble>>
  BY DEF A!Open
<1>2. /\ now \in Instance /\ now.of = a /\ now.holds = vault[a] /\ now.answer = "none"
      /\ now.new = 0 /\ vault[a] # 0
  <2>1. a \in 0..MaxIds /\ client[a] \in Clients /\ vault[a] \in A!Tokens /\ 0 \in A!Tokens
    BY DEF A!AccTypeOK, A!Ids, A!AccountAssumption, A!Tokens
  <2>2. vault[a] # 0
    BY <1>1 DEF A!NoStrayToken
  <2> QED  BY <2>1, <2>2 DEF Instance
<1> HIDE DEF now
<1>3. open'[o] = now /\ \A p \in Opened \ {o} : open'[p] = open[p]
  BY <1>1 DEF A!AccTypeOK
<1>4. A!AccTypeOK'
  BY <1>1, <1>2 DEF A!AccTypeOK, Instance
<1>5. Numbered' /\ A!NoStrayToken'
  BY <1>1 DEF Numbered, A!NoStrayToken, A!Rows
<1>6. Issued'
  BY <1>1, <1>2, <1>3 DEF Issued, A!AccTypeOK, A!Tokens, A!AccountAssumption
<1>7. Answered'
  BY <1>2, <1>3 DEF Answered, A!Ids
<1>8. GrantedIsGood'
  BY <1>1, <1>2, <1>3 DEF GrantedIsGood
<1>9. Owned'
  BY <1>1, <1>2, <1>3 DEF Owned
<1>10. WaitingIsGood'
  <2>1. \A p \in Opened : Waiting(p)' => p # o /\ Waiting(p) /\ open[p].new # 0
    BY <1>2, <1>3 DEF Waiting, A!WrittenBack, Answered
  <2> QED  BY <1>1, <1>2, <1>3, <2>1 DEF WaitingIsGood
<1>11. Reachable'
  <2>1. \A p \in Opened : Waiting(p) => p # o
    BY <1>1, NothingYet DEF Waiting
  <2>2. \A p \in Opened : Waiting(p) => Waiting(p)' /\ open'[p].of = open[p].of
    BY <1>3, <2>1 DEF Waiting, A!WrittenBack
  <2> QED  BY <1>1, <2>2 DEF Reachable, A!Rows
<1> QED  BY <1>4, <1>5, <1>6, <1>7, <1>8, <1>9, <1>10, <1>11

\* One is closed, or refused, that no token is on its way from.
LEMMA ClosedStep ==
  ASSUME A!AccountAssumption, TokenInv, NEW o \in Opened,
         A!Dispose(o) \/ A!GivesUp(o) \/ A!Rejected(o)
  PROVE  TokenInv'
<1> USE DEF TokenInv, VaultInv
<1> DEFINE refused == [open[o] EXCEPT !.answer = "no"]
<1>1. UNCHANGED <<flow, account, client, vault, ids, uses, issued, good, unlucky, trouble>>
  BY DEF A!Dispose, A!GivesUp, A!Rejected
<1>2. open[o] \in Instance /\ open[o].answer # "new" /\ open[o].new = 0
  BY DEF A!Dispose, A!GivesUp, A!Rejected, A!Asks, A!AccTypeOK, Instance, Answered
<1>3. open' = [open EXCEPT ![o] = A!Closed] \/ open' = [open EXCEPT ![o] = refused]
  BY DEF A!Dispose, A!GivesUp, A!Rejected
<1>4. /\ refused \in Instance /\ refused.answer # "new" /\ refused.new = open[o].new
      /\ refused.holds = open[o].holds /\ refused.of = open[o].of
  BY <1>2 DEF Instance
<1> HIDE DEF refused
<1>5. /\ open' \in [Opened -> Instance] /\ open'[o].answer # "new" /\ open'[o].new = 0
      /\ (open'[o].holds = open[o].holds /\ open'[o].of = open[o].of) \/ open'[o].holds = 0
      /\ \A p \in Opened \ {o} : open'[p] = open[p]
  BY <1>2, <1>3, <1>4, NothingYet DEF A!AccTypeOK, Instance
<1>6. \A p \in Opened : Waiting(p)' <=> Waiting(p)
  BY <1>2, <1>5 DEF Waiting, A!WrittenBack
<1>7. \A p \in Opened : Waiting(p) => p # o /\ open[p].new # 0
  BY <1>2 DEF Waiting, Answered
<1>8. A!AccTypeOK'
  BY <1>1, <1>5 DEF A!AccTypeOK, Instance
<1>9. Numbered' /\ A!NoStrayToken'
  BY <1>1 DEF Numbered, A!NoStrayToken, A!Rows
<1>10. Issued'
  BY <1>1, <1>5 DEF Issued, A!AccTypeOK, A!Tokens, A!AccountAssumption
<1>11. Answered'
  BY <1>2, <1>3, <1>4, <1>5, NothingYet DEF Answered, A!AccTypeOK
<1>12. GrantedIsGood'
  BY <1>1, <1>5 DEF GrantedIsGood
<1>13. Owned'
  BY <1>1, <1>5 DEF Owned
<1>14. WaitingIsGood'
  BY <1>1, <1>5, <1>6, <1>7 DEF WaitingIsGood
<1>15. Reachable'
  BY <1>1, <1>5, <1>6, <1>7 DEF Reachable, A!Rows
<1> QED  BY <1>8, <1>9, <1>10, <1>11, <1>12, <1>13, <1>14, <1>15

\* The service answers a refresh: with the token it was asked with, or with one that nobody
\* had and that is good from now on in place of the other.
LEMMA RefreshStep ==
  ASSUME A!AccountAssumption, TokenInv, NEW o \in Opened, A!Refreshed(o)
  PROVE  TokenInv'
<1> USE DEF TokenInv, VaultInv
<1> DEFINE now(t) == [open[o] EXCEPT !.answer = "new", !.new = t]
<1>1. /\ open[o].answer = "none" /\ A!Held(o) \in good
      /\ UNCHANGED <<flow, account, client, vault, ids, uses, unlucky, trouble>>
  BY DEF A!Refreshed, A!Asks
<1>2. open[o] \in Instance /\ issued \in Nat /\ open[o].new = 0 /\ open[o].holds # 0
      /\ <<open[o].holds, open[o].client>> \in good
  BY <1>1 DEF A!AccTypeOK, Instance, A!Tokens, Answered, Issued, A!Held
<1>3. \A t \in A!Tokens : /\ now(t) \in Instance /\ now(t).answer = "new" /\ now(t).new = t
                        /\ now(t).holds = open[o].holds /\ now(t).of = open[o].of
                        /\ now(t).client = open[o].client
  BY <1>2 DEF Instance
<1>4. CASE UNCHANGED <<issued, good>> /\ open' = [open EXCEPT ![o] = now(open[o].holds)]
  <2>1. open[o].holds \in A!Tokens
    BY <1>2 DEF Instance
  <2>2. /\ open' \in [Opened -> Instance] /\ open'[o].answer = "new"
        /\ open'[o].new = open[o].holds /\ open'[o].holds = open[o].holds
        /\ open'[o].of = open[o].of /\ open'[o].client = open[o].client
        /\ \A p \in Opened \ {o} : open'[p] = open[p]
    BY <1>3, <1>4, <2>1 DEF A!AccTypeOK, Instance
  <2>3. \A p \in Opened : Waiting(p)' <=> Waiting(p)
    BY <1>1, <2>2 DEF Waiting, A!WrittenBack
  <2>4. \A p \in Opened : Waiting(p) => p # o
    BY <1>1 DEF Waiting
  <2>5. A!AccTypeOK'
    BY <1>1, <1>4, <2>2 DEF A!AccTypeOK, Instance
  <2>6. Numbered' /\ A!NoStrayToken'
    BY <1>1 DEF Numbered, A!NoStrayToken, A!Rows
  <2>7. Issued'
    BY <1>1, <1>4, <2>2 DEF Issued
  <2>8. Answered'
    BY <1>2, <2>2 DEF Answered
  <2>9. GrantedIsGood'
    BY <1>1, <1>4, <2>2 DEF GrantedIsGood
  <2>10. Owned'
    BY <1>1, <2>2 DEF Owned
  <2>11. WaitingIsGood'
    <3>1. ASSUME NEW w \in Opened, Waiting(w)' PROVE
            /\ Waiting(w) /\ w # o /\ open'[w] = open[w]
            /\ \A p \in Opened : open[p].holds # open[w].new
      BY <2>2, <2>3, <2>4, <3>1 DEF WaitingIsGood
    <3> QED  BY <1>1, <1>4, <2>2, <3>1 DEF WaitingIsGood
  <2>12. Reachable'
    BY <1>1, <1>4, <2>2, <2>3 DEF Reachable, A!Rows
  <2> QED  BY <2>5, <2>6, <2>7, <2>8, <2>9, <2>10, <2>11, <2>12
<1>5. CASE /\ issued < MaxTokens /\ issued' = issued + 1
           /\ good' = (good \ {A!Held(o)}) \cup {<<issued + 1, open[o].client>>}
           /\ open' = [open EXCEPT ![o] = now(issued + 1)]
  <2>1. issued + 1 \in A!Tokens
    BY <1>2, <1>5 DEF A!Tokens, A!AccountAssumption
  <2>2. /\ open' \in [Opened -> Instance] /\ open'[o].answer = "new"
        /\ open'[o].new = issued + 1 /\ open'[o].holds = open[o].holds
        /\ open'[o].of = open[o].of /\ open'[o].client = open[o].client
        /\ \A p \in Opened \ {o} : open'[p] = open[p]
    BY <1>3, <1>5, <2>1 DEF A!AccTypeOK, Instance
  <2>3. open[o].holds < issued + 1
    BY <1>2, <2>1 DEF Issued, Instance, A!Tokens
  <2>4. Waiting(o)' /\ \A p \in Opened \ {o} : Waiting(p)' <=> Waiting(p)
    BY <1>2, <2>2, <2>3 DEF Waiting, A!WrittenBack, Instance, A!Tokens
  <2>5. \A p \in Opened : Waiting(p) => p # o
    BY <1>1 DEF Waiting
  <2>6. \A t \in A!Tokens, c \in Clients :
          <<t, c>> \in good /\ t # open[o].holds => <<t, c>> \in good'
    BY <1>5 DEF A!Held
  <2>7. /\ \A a \in A!Ids : vault[a] \in A!Tokens /\ vault[a] < issued + 1
        /\ \A f \in Flows : flow[f].token \in A!Tokens /\ flow[f].token < issued + 1
        /\ \A p \in Opened : /\ open[p].holds \in A!Tokens /\ open[p].holds < issued + 1
                             /\ open[p].new \in A!Tokens /\ open[p].new < issued + 1
    BY <1>2 DEF Issued, A!AccTypeOK, A!Tokens
  <2>8. A!AccTypeOK'
    <3>1. good' \subseteq A!Tokens \X Clients
      BY <1>2, <1>5, <2>1 DEF A!AccTypeOK, Instance
    <3> QED  BY <1>1, <1>5, <2>1, <2>2, <3>1 DEF A!AccTypeOK, Instance
  <2>9. Numbered' /\ A!NoStrayToken'
    BY <1>1 DEF Numbered, A!NoStrayToken, A!Rows
  <2>10. Issued'
    <3>1. \A t \in A!Tokens, c \in Clients : <<t, c>> \in good' => t \in 1..issued'
      BY <1>2, <1>5 DEF Issued, A!AccTypeOK, A!Tokens
    <3>2. \A p \in Opened : open'[p].holds <= issued' /\ open'[p].new <= issued'
      BY <1>2, <1>5, <2>2, <2>7 DEF A!Tokens
    <3> QED  BY <1>1, <1>2, <1>5, <2>7, <3>1, <3>2 DEF Issued, A!Tokens
  <2>11. Answered'
    BY <1>2, <2>2 DEF Answered
  <2>12. GrantedIsGood'
    <3>1. ASSUME NEW f \in Flows, flow[f].is = "granted"
          PROVE  <<flow[f].token, flow[f].client>> \in good'
      BY <2>6, <2>7, <3>1 DEF GrantedIsGood, A!AccTypeOK
    <3> QED  BY <1>1, <2>2, <2>7, <3>1 DEF GrantedIsGood, A!Tokens
  <2>13. Owned'
    BY <1>1, <2>2 DEF Owned
  <2>14. WaitingIsGood'
    <3>1. ASSUME NEW w \in Opened, w # o, Waiting(w)'
          PROVE  /\ open'[w] = open[w] /\ <<open[w].new, open[w].client>> \in good'
                 /\ \A a \in A!Ids : vault'[a] # open[w].new
                 /\ \A p \in Opened : open'[p].holds # open[w].new
                 /\ \A p \in Opened : open'[p].new = open[w].new => p = w
      <4>1. Waiting(w) /\ open'[w] = open[w]
        BY <2>2, <2>4, <3>1
      <4>2. open[w].new \in A!Tokens /\ open[w].client \in Clients
        BY DEF A!AccTypeOK
      <4>3. open[w].new # open[o].holds /\ <<open[w].new, open[w].client>> \in good
        BY <4>1 DEF WaitingIsGood
      <4> QED  BY <1>1, <2>2, <2>6, <2>7, <4>1, <4>2, <4>3 DEF WaitingIsGood, A!Tokens
    <3>2. /\ <<open'[o].new, open'[o].client>> \in good'
          /\ \A a \in A!Ids : vault'[a] # open'[o].new
          /\ \A p \in Opened : open'[p].holds # open'[o].new
          /\ \A p \in Opened : open'[p].new = open'[o].new => p = o
      BY <1>1, <1>2, <1>5, <2>2, <2>7 DEF A!Tokens
    <3> QED  BY <3>1, <3>2 DEF WaitingIsGood
  <2>15. Reachable'
    <3>1. ASSUME NEW a \in A!Rows \ unlucky, <<vault[a], client[a]>> \in good,
                 vault[a] = open[o].holds
          PROVE  open'[o].of = a
      BY <1>2, <2>2, <3>1, RowsAreIds DEF Owned
    <3>2. ASSUME NEW a \in A!Rows \ unlucky, <<vault[a], client[a]>> \in good,
                 vault[a] # open[o].holds
          PROVE  <<vault[a], client[a]>> \in good'
      BY <2>6, <2>7, <3>2, RowsAreIds DEF A!AccTypeOK
    <3>3. \A p \in Opened : Waiting(p) => Waiting(p)' /\ open'[p].of = open[p].of
      BY <2>2, <2>4, <2>5
    <3> QED  BY <1>1, <2>4, <3>1, <3>2, <3>3 DEF Reachable, A!Rows
  <2> QED  BY <2>8, <2>9, <2>10, <2>11, <2>12, <2>13, <2>14, <2>15
<1> QED
  <2>1. \/ UNCHANGED <<issued, good>> /\ open' = [open EXCEPT ![o] = now(open[o].holds)]
        \/ /\ issued < MaxTokens /\ issued' = issued + 1
           /\ good' = (good \ {A!Held(o)}) \cup {<<issued + 1, open[o].client>>}
           /\ open' = [open EXCEPT ![o] = now(issued + 1)]
    BY DEF A!Refreshed
  <2> QED  BY <1>4, <1>5, <2>1

\* An answer has come: a token that is new goes into the vault if the account is still there.
LEMMA ReceiveStep ==
  ASSUME A!AccountAssumption, TokenInv, NEW o \in Opened, A!Receives(o)
  PROVE  TokenInv'
<1> USE DEF TokenInv, VaultInv
<1> DEFINE new == open[o].new
           a == open[o].of
           now == [open[o] EXCEPT !.holds = new, !.answer = "none", !.new = 0]
<1>1. /\ open[o].answer = "new" /\ open' = [open EXCEPT ![o] = now]
      /\ vault' = IF A!WrittenBack(o) /\ A!Known(o) THEN [vault EXCEPT ![a] = new] ELSE vault
      /\ UNCHANGED <<flow, account, client, ids, uses, issued, good, unlucky, trouble>>
  BY DEF A!Receives
<1>2. open[o] \in Instance /\ new # 0 /\ new \in A!Tokens /\ a \in A!Ids
  BY <1>1 DEF A!AccTypeOK, Instance, Answered, A!Ids, A!AccountAssumption
<1>3. now \in Instance /\ now.holds = new /\ now.answer = "none" /\ now.new = 0 /\ now.of = a
  <2>1. 0 \in A!Tokens
    BY DEF A!AccountAssumption, A!Tokens
  <2> HIDE DEF new
  <2> QED  BY <1>2, <2>1 DEF Instance
<1>4. (A!Known(o) <=> a \in A!Rows) /\ (Waiting(o) <=> new # open[o].holds)
  BY <1>1 DEF A!Known, Waiting, A!WrittenBack
<1> HIDE DEF now
<1>5. open'[o] = now /\ \A p \in Opened \ {o} : open'[p] = open[p]
  BY <1>1 DEF A!AccTypeOK
<1>6. Waiting(o) => /\ <<new, open[o].client>> \in good
                    /\ \A b \in A!Ids : vault[b] # new
                    /\ \A p \in Opened : open[p].holds # new
                    /\ \A p \in Opened : open[p].new = new => p = o
  BY DEF WaitingIsGood
<1>7. vault' \in [A!Ids -> A!Tokens] /\ \A b \in A!Ids \ {a} : vault'[b] = vault[b]
  BY <1>1, <1>2 DEF A!AccTypeOK
<1>8. vault'[a] = vault[a] \/ (Waiting(o) /\ a \in A!Rows /\ vault'[a] = new)
  BY <1>1, <1>2, <1>4 DEF A!AccTypeOK, Waiting
<1>9. Waiting(o) /\ a \in A!Rows => vault'[a] = new
  BY <1>1, <1>2, <1>4 DEF A!AccTypeOK, Waiting
<1>10. \A p \in Opened : Waiting(p)' <=> Waiting(p) /\ p # o
  BY <1>3, <1>5 DEF Waiting, A!WrittenBack
<1>11. A!AccTypeOK'
  BY <1>1, <1>3, <1>7 DEF A!AccTypeOK, Instance
<1>12. Numbered'
  BY <1>1 DEF Numbered
<1>13. Issued'
  <2>1. new <= issued
    BY DEF Issued
  <2>2. \A b \in A!Ids : vault'[b] <= issued
    BY <1>7, <1>8, <2>1 DEF Issued
  <2>3. \A p \in Opened : open'[p].holds <= issued /\ open'[p].new <= issued
    BY <1>3, <1>5, <2>1 DEF Issued, A!AccTypeOK, A!Tokens
  <2> QED  BY <1>1, <2>2, <2>3 DEF Issued
<1>14. Answered'
  BY <1>2, <1>3, <1>5 DEF Answered, A!Ids
<1>15. GrantedIsGood'
  BY <1>1, <1>2, <1>3, <1>5, <1>7, <1>8 DEF GrantedIsGood, A!AccTypeOK
<1>16. A!NoStrayToken'
  BY <1>1, <1>2, <1>7, <1>8 DEF A!NoStrayToken, A!Rows
<1> HIDE DEF new, a
<1>17. Owned'
  <2>1. ASSUME NEW b \in A!Ids, NEW c \in A!Ids, vault'[b] = vault'[c], vault'[b] # 0 PROVE b = c
    BY <1>6, <1>7, <1>8, <2>1 DEF Owned
  <2>2. ASSUME NEW b \in A!Ids, NEW p \in Opened, vault'[b] = open'[p].holds, vault'[b] # 0
        PROVE  b = open'[p].of
    <3>1. CASE p # o
      BY <1>5, <1>6, <1>7, <1>8, <2>2, <3>1 DEF Owned
    <3>2. CASE p = o
      <4>1. CASE Waiting(o)
        BY <1>3, <1>5, <1>6, <1>7, <2>2, <3>2, <4>1
      <4>2. CASE ~Waiting(o)
        BY <1>3, <1>4, <1>5, <1>7, <1>8, <2>2, <3>2, <4>2 DEF Owned, a
      <4> QED  BY <4>1, <4>2
    <3> QED  BY <3>1, <3>2
  <2> QED  BY <2>1, <2>2 DEF Owned
<1>18. WaitingIsGood'
  <2>1. ASSUME NEW w \in Opened, Waiting(w)'
        PROVE  /\ <<open'[w].new, open'[w].client>> \in good'
               /\ \A b \in A!Ids : vault'[b] # open'[w].new
               /\ \A p \in Opened : open'[p].holds # open'[w].new
               /\ \A p \in Opened : open'[p].new = open'[w].new => p = w
    <3>1. Waiting(w) /\ w # o /\ open'[w] = open[w]
      BY <1>5, <1>10, <2>1
    <3>2. open[w].new # 0 /\ open[w].new # new
      BY <3>1 DEF WaitingIsGood, Waiting, Answered, new
    <3>3. /\ <<open[w].new, open[w].client>> \in good
          /\ \A b \in A!Ids : vault[b] # open[w].new
          /\ \A p \in Opened : open[p].holds # open[w].new
          /\ \A p \in Opened : open[p].new = open[w].new => p = w
      BY <3>1 DEF WaitingIsGood
    <3> QED  BY <1>1, <1>3, <1>5, <1>7, <1>8, <3>1, <3>2, <3>3
  <2> QED  BY <2>1 DEF WaitingIsGood
<1>19. Reachable'
  <2>1. ASSUME OneClient, NEW b \in A!Rows \ unlucky
        PROVE  <<vault'[b], client[b]>> \in good
               \/ \E p \in Opened : open'[p].of = b /\ Waiting(p)'
    <3>1. b \in A!Ids
      BY RowsAreIds
    <3>2. CASE b = a /\ Waiting(o)
      <4>1. client[b] = open[o].client
        BY <1>2, <2>1, <3>1 DEF OneClient, A!AccTypeOK, Instance
      <4> QED  BY <1>6, <1>9, <3>2, <4>1
    <3>3. CASE b # a \/ ~Waiting(o)
      <4>1. vault'[b] = vault[b]
        BY <1>7, <1>8, <3>1, <3>3
      <4>2. \A p \in Opened : open[p].of = b /\ Waiting(p) => p # o
        BY <3>3 DEF a
      <4> QED  BY <1>5, <1>10, <2>1, <4>1, <4>2 DEF Reachable
    <3> QED  BY <3>2, <3>3
  <2> QED  BY <1>1, <2>1 DEF Reachable, A!Rows
<1> QED  BY <1>11, <1>12, <1>13, <1>14, <1>15, <1>16, <1>17, <1>18, <1>19

\* Instances end whose answer may be lost, and authorizations that are kept in memory with them.
LEMMA LossStep ==
  ASSUME A!AccountAssumption, TokenInv, NEW gone \in SUBSET Opened, trouble < MaxTrouble,
         trouble' = trouble + 1, unlucky' = A!Lost(gone),
         open' = [o \in Opened |-> IF o \in gone THEN A!Closed ELSE open[o]],
         flow' = flow \/ flow' = [f \in Flows |-> A!NoFlow],
         UNCHANGED <<account, client, vault, ids, uses, issued, good>>
  PROVE  TokenInv'
<1> USE DEF TokenInv, VaultInv
<1>1. \A o \in Opened : IF o \in gone THEN open'[o] = A!Closed ELSE open'[o] = open[o]
  OBVIOUS
<1>2. A!Closed \in Instance /\ A!Closed.of = 0 /\ A!Closed.holds = 0 /\ A!Closed.answer = "none"
      /\ A!Closed.new = 0
  BY NothingYet DEF Instance
<1>3. unlucky \subseteq unlucky' /\ \A o \in gone : Waiting(o) => open[o].of \in unlucky'
  BY DEF A!Lost, Waiting
<1>4. unlucky' \subseteq A!Ids
  <2>1. \A o \in Opened : open[o].answer = "new" => open[o].of \in A!Ids
    BY DEF A!AccTypeOK, Answered, A!Ids, A!AccountAssumption
  <2> QED  BY <2>1 DEF A!Lost, A!AccTypeOK
<1>5. \A o \in Opened : Waiting(o)' <=> Waiting(o) /\ o \notin gone
  BY <1>1, <1>2 DEF Waiting, A!WrittenBack
<1>6. \A f \in Flows : flow'[f] = flow[f] \/ flow'[f] = A!NoFlow
  OBVIOUS
<1>7. A!AccTypeOK'
  <2>1. flow' \in [Flows -> [is : {"none", "pending", "asking", "granted"},
                            client : Clients, of : Channels, token : A!Tokens]]
    BY NothingYet DEF A!AccTypeOK
  <2>2. open' \in [Opened -> Instance]
    BY <1>1, <1>2 DEF A!AccTypeOK, Instance
  <2> QED  BY <1>4, <2>1, <2>2 DEF A!AccTypeOK, Instance, A!AccountAssumption
<1>8. Numbered' /\ A!NoStrayToken'
  BY DEF Numbered, A!NoStrayToken, A!Rows
<1>9. Issued'
  BY <1>1, <1>2, <1>6, NothingYet DEF Issued, A!AccTypeOK, A!Tokens, A!AccountAssumption
<1>10. Answered'
  BY <1>1, <1>2 DEF Answered
<1>11. GrantedIsGood'
  BY <1>1, <1>2, <1>6, NothingYet DEF GrantedIsGood
<1>12. Owned'
  BY <1>1, <1>2 DEF Owned
<1>13. WaitingIsGood'
  <2>1. \A w \in Opened : Waiting(w)' => Waiting(w) /\ open'[w] = open[w] /\ open[w].new # 0
    BY <1>1, <1>5 DEF Waiting, Answered
  <2> QED  BY <1>1, <1>2, <2>1 DEF WaitingIsGood
<1>14. Reachable'
  <2>1. ASSUME NEW b \in A!Rows \ unlucky', NEW o \in Opened, open[o].of = b, Waiting(o)
        PROVE  open'[o].of = b /\ Waiting(o)'
    BY <1>1, <1>3, <1>5, <2>1
  <2> QED  BY <1>3, <2>1 DEF Reachable, A!Rows
<1> QED  BY <1>7, <1>8, <1>9, <1>10, <1>11, <1>12, <1>13, <1>14

-----------------------------------------------------------------------------
LEMMA TokenStep ==
  ASSUME A!AccountAssumption, TokenInv, [A!AccNext]_accVars PROVE TokenInv'
<1>1. ASSUME UNCHANGED <<flow, account, client, vault, ids, open, issued, good, unlucky, trouble>>,
             uses' \subseteq A!Ids
      PROVE  TokenInv'
  BY <1>1 DEF TokenInv, VaultInv, A!AccTypeOK, Numbered, Issued, Answered, GrantedIsGood,
     A!NoStrayToken, Owned, WaitingIsGood, Waiting, A!WrittenBack, Reachable, A!Rows
<1>2. A!AccTypeOK /\ uses \subseteq A!Ids
  BY DEF TokenInv, VaultInv, A!AccTypeOK
<1>3. CASE A!Restart
  <2>1. open' = [o \in Opened |-> IF o \in Opened THEN A!Closed ELSE open[o]]
    BY <1>3 DEF A!Restart
  <2> QED  BY <1>3, <2>1, LossStep DEF A!Restart
<1>4. ASSUME NEW f \in Flows, (\E c \in Clients : A!Start(f, c))
             \/ (\E ch \in Channels : A!Callback(f, ch)) \/ A!Grants(f) \/ A!Connects(f) \/ A!Fails(f)
      PROVE  TokenInv'
  BY <1>4, FlowSteps, GrantStep, ConnectStep
<1>5. ASSUME NEW ch \in Channels, A!RemoveAccount(ch) PROVE TokenInv'
  BY <1>5, RemoveStep
<1>6. ASSUME NEW a \in A!Ids, A!AddDestination(a) \/ A!RemoveDestination(a) PROVE TokenInv'
  BY <1>1, <1>2, <1>6 DEF A!AddDestination, A!RemoveDestination
<1>7. ASSUME NEW o \in Opened, (\E a \in A!Ids : A!Open(o, a)) \/ A!Dispose(o) \/ A!Refreshed(o)
             \/ A!Rejected(o) \/ A!Receives(o) \/ A!GivesUp(o)
      PROVE  TokenInv'
  BY <1>7, OpenStep, ClosedStep, RefreshStep, ReceiveStep
<1>8. ASSUME NEW o \in Opened, A!AnswerLost(o) PROVE TokenInv'
  <2>1. open' = [p \in Opened |-> IF p \in {o} THEN A!Closed ELSE open[p]]
    BY <1>2, <1>8 DEF A!AnswerLost, A!AccTypeOK
  <2> QED  BY <1>8, <2>1, LossStep DEF A!AnswerLost
<1>9. CASE UNCHANGED accVars
  BY <1>1, <1>2, <1>9 DEF accVars
<1> QED  BY <1>3, <1>4, <1>5, <1>6, <1>7, <1>8, <1>9 DEF A!AccNext

-----------------------------------------------------------------------------
(* The library *)

Sweep == [is : {"none", "listing", "prepared", "removing", "asked"}, files : SUBSET L!Planned,
          at : 0..MaxTime]
LibRow == [is : {"none", "open", "closed", "deleted"}, file : L!Files, at : 0..MaxTime]
Card == [is : {"none", "described", "removing"}, files : SUBSET L!Files, at : 0..MaxTime]

LibTypes ==
  /\ card \in [L!Files -> 0..L!Theirs] /\ ledger \in [Footage -> LibRow]
  /\ deck \in 0..L!Theirs /\ seen \in BOOLEAN /\ running \in BOOLEAN
  /\ sweep \in [Sweeps -> Sweep] /\ picked \in Card
  /\ primed \in {"no", "given", "quoted"} /\ time \in 0..MaxTime /\ meddled \in 0..MaxMeddling

\* Footage is numbered as it is shot, and only what was shot is on the card.
ShotInOrder ==
  /\ L!Shot = 1..Cardinality(L!Shot)
  /\ \A f \in L!Files : card[f] \in Footage => ledger[card[f]].is # "none"

\* Rows newer than this one that are neither open nor deleted: what the policy counts.
Newer(r) == {q \in Footage : q > r /\ ledger[q].is \in {"open", "closed"}}

\* A plan, however old, names rows that were closed, with enough behind each of them: those of
\* the same plan that are newer go first, and each of them has enough behind it as well.
PlansKeepNewest ==
  \A s \in Sweeps :
    /\ \A p \in sweep[s].files :
         ledger[p.row].is \in {"closed", "deleted"} /\ Cardinality(Newer(p.row)) >= KeepLast
    /\ sweep[s].is = "asked" => sweep[s].files # {}

\* Where the recorder tells the names it chose, footage is under the name in its row, and a
\* plan has that name.
NamesAreKnown ==
  Told => /\ \A f \in L!Files : card[f] \in Footage => ledger[card[f]].file = f
          /\ \A s \in Sweeps : \A p \in sweep[s].files : p.file = ledger[p.row].file

LibInv ==
  LibTypes /\ ShotInOrder /\ PlansKeepNewest /\ NamesAreKnown /\ (Told => L!DeletedIsGone)

-----------------------------------------------------------------------------
LEMMA SameCount == \A xs : L!Cardinality(xs) = Cardinality(xs)
BY DEF L!Cardinality, Cardinality, L!IsFiniteSet, IsFiniteSet

LEMMA LibraryFacts ==
  ASSUME L!LibraryAssumption
  PROVE  /\ Cardinality(Footage) \in Nat /\ Footage = 1..Cardinality(Footage)
         /\ L!Theirs = Cardinality(Footage) + 1 /\ L!Theirs \notin Footage
         /\ Footage \subseteq 0..L!Theirs /\ Footage \subseteq Nat /\ IsFiniteSet(Footage)
         /\ KeepLast \in Nat /\ MaxTime \in Nat /\ MaxMeddling \in Nat /\ 0 \notin Footage
         /\ L!NoRow \in LibRow /\ L!NoSweep \in Sweep
         /\ L!NoRow.is = "none" /\ L!NoSweep.files = {} /\ L!NoSweep.is = "none"
<1>1. /\ Cardinality(Footage) \in Nat /\ Footage = 1..Cardinality(Footage)
      /\ L!Theirs = Cardinality(Footage) + 1
      /\ KeepLast \in Nat /\ MaxTime \in Nat /\ MaxMeddling \in Nat
  BY SameCount DEF L!LibraryAssumption, L!Theirs
<1>2. /\ L!Theirs \notin Footage /\ 0 \notin Footage /\ Footage \subseteq 0..L!Theirs
      /\ Footage \subseteq Nat
  BY <1>1
<1>3. IsFiniteSet(Footage)
  <2>1. IsFiniteSet(1..Cardinality(Footage))
    BY <1>1, FS_Interval
  <2> QED  BY <1>1, <2>1
<1>4. (CHOOSE f \in L!Files : f[2] = 0) \in L!Files
  <2>1. PICK t \in Titles : TRUE
    BY DEF L!LibraryAssumption
  <2>2. <<t, 0>> \in L!Files /\ <<t, 0>>[2] = 0
    BY DEF L!LibraryAssumption, L!Files
  <2> QED  BY <2>2
<1>5. L!NoRow \in LibRow /\ L!NoRow.is = "none"
  BY <1>1, <1>4 DEF L!NoRow, LibRow
<1>6. L!NoSweep \in Sweep /\ L!NoSweep.files = {} /\ L!NoSweep.is = "none"
  BY <1>1 DEF L!NoSweep, Sweep
<1> QED  BY <1>1, <1>2, <1>3, <1>5, <1>6

LEMMA LibHolds == ASSUME L!LibraryAssumption PROVE L!LibInit => LibInv
<1> SUFFICES ASSUME L!LibInit PROVE LibInv
  OBVIOUS
<1>1. LibTypes
  <2>1. card \in [L!Files -> 0..L!Theirs] /\ ledger \in [Footage -> LibRow]
    BY LibraryFacts DEF L!LibInit
  <2>2. sweep \in [Sweeps -> Sweep] /\ picked \in Card /\ time \in 0..MaxTime
    BY LibraryFacts DEF L!LibInit, Card
  <2>3. deck \in 0..L!Theirs /\ meddled \in 0..MaxMeddling
    BY LibraryFacts DEF L!LibInit
  <2> QED  BY <2>1, <2>2, <2>3 DEF L!LibInit, LibTypes
<1>2. \A r \in Footage : ledger[r].is = "none"
  BY LibraryFacts DEF L!LibInit
<1>3. ShotInOrder
  <2>1. L!Shot = {}
    BY <1>2 DEF L!Shot
  <2>2. Cardinality({}) = 0 /\ 1..0 = {}
    BY FS_EmptySet
  <2>3. \A f \in L!Files : card[f] = 0
    BY DEF L!LibInit
  <2> QED  BY <2>1, <2>2, <2>3, LibraryFacts DEF ShotInOrder
<1>4. PlansKeepNewest
  BY LibraryFacts DEF L!LibInit, PlansKeepNewest
<1>5. NamesAreKnown /\ L!DeletedIsGone
  BY <1>2, LibraryFacts DEF L!LibInit, NamesAreKnown, L!DeletedIsGone
<1> QED  BY <1>1, <1>3, <1>4, <1>5 DEF LibInv

\* The newest file of a plan is one of its files.
LEMMA NewestOne ==
  ASSUME L!LibraryAssumption, NEW s \in Sweeps, sweep[s].files \subseteq L!Planned,
         sweep[s].files # {}
  PROVE  L!Newest(s) \in sweep[s].files
<1> DEFINE rows == {p.row : p \in sweep[s].files}
<1>1. rows \subseteq Footage /\ rows # {} /\ \A p \in sweep[s].files : p.row \in rows
  BY DEF L!Planned
<1>2. PICK x \in rows : \A y \in rows : y <= x
  <2> HIDE DEF rows
  <2>1. L!Theirs \in Nat /\ rows \in SUBSET (0..L!Theirs)
    BY <1>1, LibraryFacts
  <2> QED  BY <1>1, <2>1, GreatestOf
<1>3. PICK p \in sweep[s].files : p.row = x
  BY <1>2
<1>4. \A q \in sweep[s].files : q.row <= p.row
  BY <1>1, <1>2, <1>3
<1> QED  BY <1>3, <1>4 DEF L!Newest

\* Steps that leave card and ledger alone, and of plans keep what they name.
LEMMA PlansMoveOn ==
  ASSUME LibInv, LibTypes', UNCHANGED <<card, ledger>>,
         \A s \in Sweeps : /\ sweep'[s].files \subseteq sweep[s].files
                           /\ sweep'[s].is = "asked" => sweep'[s].files # {}
  PROVE  LibInv'
<1>1. ShotInOrder' /\ L!DeletedIsGone' = L!DeletedIsGone
  BY DEF LibInv, ShotInOrder, L!Shot, L!DeletedIsGone, L!OnCard
<1>2. PlansKeepNewest'
  <2>1. \A r : Newer(r)' = Newer(r)
    BY DEF Newer
  <2> QED  BY <2>1 DEF LibInv, PlansKeepNewest
<1>3. NamesAreKnown'
  BY DEF LibInv, NamesAreKnown
<1>4. (Told => L!DeletedIsGone)'
  BY DEF LibInv, L!DeletedIsGone, L!OnCard
<1> QED  BY <1>1, <1>2, <1>3, <1>4 DEF LibInv

\* Files that go from the card, without a word to the ledger.
LEMMA FilesGo ==
  ASSUME L!LibraryAssumption, LibInv, LibTypes', UNCHANGED <<ledger, sweep>>,
         \A f \in L!Files : card'[f] \in {card[f], 0, L!Theirs}
  PROVE  LibInv'
<1>1. \A f \in L!Files : card'[f] \in Footage => card'[f] = card[f]
  BY LibraryFacts
<1>2. ShotInOrder'
  BY <1>1 DEF LibInv, ShotInOrder, L!Shot
<1>3. PlansKeepNewest'
  <2>1. \A r : Newer(r)' = Newer(r)
    BY DEF Newer
  <2> QED  BY <2>1 DEF LibInv, PlansKeepNewest
<1>4. NamesAreKnown'
  BY <1>1 DEF LibInv, NamesAreKnown
<1>5. (Told => L!DeletedIsGone)'
  BY <1>1 DEF LibInv, L!DeletedIsGone, L!OnCard
<1> QED  BY <1>2, <1>3, <1>4, <1>5 DEF LibInv

\* The name that a recorder gives is free.
LEMMA FreeName ==
  ASSUME L!LibraryAssumption, LibTypes, NEW r \in 1..L!Theirs, NEW title \in Titles,
         L!Writes(r, title)
  PROVE  \E f \in L!Files :
           /\ card[f] = 0 /\ card' = [card EXCEPT ![f] = r] /\ deck' = r
           /\ r # L!Theirs =>
                ledger' = [ledger EXCEPT ![r] =
                  [is |-> "open", file |-> IF Told THEN f ELSE <<title, 0>>, at |-> time]]
<1> DEFINE free == {n \in Tails : card[<<title, n>>] = 0}
           n == CHOOSE m \in free : \A k \in free : m <= k
<1>1. free # {}
  BY DEF L!Writes
<1>2. free \in SUBSET Nat
  BY DEF L!LibraryAssumption
<1>3. \E m \in free : \A k \in free : m <= k
  <2> HIDE DEF free
  <2> QED  BY <1>1, <1>2, LeastOf
<1>4. n \in free
  <2> HIDE DEF free
  <2> QED  BY <1>3
<1>5. <<title, n>> \in L!Files /\ card[<<title, n>>] = 0
  <2> HIDE DEF n
  <2> QED  BY <1>4 DEF L!Files
<1>6. /\ card' = [card EXCEPT ![<<title, n>>] = r] /\ deck' = r
      /\ r # L!Theirs =>
           ledger' = [ledger EXCEPT ![r] =
             [is |-> "open", file |-> IF Told THEN <<title, n>> ELSE <<title, 0>>, at |-> time]]
  BY DEF L!Writes
<1> HIDE DEF n
<1> QED  BY <1>5, <1>6

\* A recording begins, of footage that was not there.
LEMMA RecordingBegins ==
  ASSUME L!LibraryAssumption, LibInv, L!StartRecording
  PROVE  LibInv'
<1> DEFINE r == Cardinality(L!Shot) + 1
<1>1. PICK title \in Titles : L!Writes(r, title)
  BY SameCount DEF L!StartRecording
<1>2. /\ L!Shot # Footage
      /\ UNCHANGED <<seen, running, sweep, picked, primed, time, meddled>>
  BY DEF L!StartRecording
<1>3. LibTypes /\ ShotInOrder /\ PlansKeepNewest /\ NamesAreKnown
  BY DEF LibInv
<1>4. r \in Footage /\ r \in 1..L!Theirs /\ r # L!Theirs /\ r \notin L!Shot
  <2>1. L!Shot \subseteq Footage
    BY DEF L!Shot
  <2>2. IsFiniteSet(L!Shot) /\ Cardinality(L!Shot) \in Nat
        /\ Cardinality(L!Shot) <= Cardinality(Footage)
        /\ Cardinality(L!Shot) # Cardinality(Footage)
    BY <1>2, <2>1, LibraryFacts, FS_Subset, FS_CardinalityType
  <2>3. r \in Footage
    BY <2>2, LibraryFacts
  <2>4. r \notin 1..Cardinality(L!Shot)
    BY <2>2
  <2>5. r \notin L!Shot
    BY <1>3, <2>4 DEF ShotInOrder
  <2> HIDE DEF r
  <2> QED  BY <2>3, <2>5, LibraryFacts
<1> HIDE DEF r
<1>5. PICK f \in L!Files :
        /\ card[f] = 0 /\ card' = [card EXCEPT ![f] = r] /\ deck' = r
        /\ ledger' = [ledger EXCEPT ![r] =
             [is |-> "open", file |-> IF Told THEN f ELSE <<title, 0>>, at |-> time]]
  BY <1>1, <1>3, <1>4, FreeName
<1> DEFINE row == [is |-> "open", file |-> IF Told THEN f ELSE <<title, 0>>, at |-> time]
<1>6. row \in LibRow /\ row.is = "open" /\ (Told => row.file = f)
  BY <1>3 DEF LibRow, LibTypes, L!Files, L!LibraryAssumption
<1> HIDE DEF row
<1>7. ledger' = [ledger EXCEPT ![r] = row]
  BY <1>5 DEF row
<1>8. /\ ledger'[r] = row /\ \A q \in Footage \ {r} : ledger'[q] = ledger[q]
      /\ ledger' \in [Footage -> LibRow]
  BY <1>3, <1>4, <1>6, <1>7 DEF LibTypes
<1>9. /\ card'[f] = r /\ \A g \in L!Files \ {f} : card'[g] = card[g]
      /\ card' \in [L!Files -> 0..L!Theirs]
  BY <1>3, <1>4, <1>5, LibraryFacts DEF LibTypes
<1>10. ledger[r].is = "none"
  BY <1>4 DEF L!Shot
<1>11. LibTypes'
  BY <1>2, <1>3, <1>4, <1>5, <1>8, <1>9, LibraryFacts DEF LibTypes
<1>12. ShotInOrder'
  <2>1. L!Shot' = L!Shot \cup {r}
    BY <1>4, <1>6, <1>8 DEF L!Shot
  <2>2. L!Shot \subseteq Footage /\ IsFiniteSet(L!Shot) /\ Cardinality(L!Shot) \in Nat
    BY LibraryFacts, FS_Subset, FS_CardinalityType DEF L!Shot
  <2>3. Cardinality(L!Shot \cup {r}) = Cardinality(L!Shot) + 1
    BY <1>4, <2>2, FS_AddElement
  <2>4. r = Cardinality(L!Shot) + 1 /\ L!Shot = 1..Cardinality(L!Shot)
    BY <1>3 DEF r, ShotInOrder
  <2>5. L!Shot \cup {r} = 1..(Cardinality(L!Shot) + 1)
    BY <2>2, <2>4
  <2>6. L!Shot' = 1..Cardinality(L!Shot')
    BY <2>1, <2>3, <2>5
  <2>7. \A g \in L!Files : card'[g] \in Footage => ledger'[card'[g]].is # "none"
    BY <1>3, <1>6, <1>8, <1>9 DEF ShotInOrder
  <2> QED  BY <2>6, <2>7 DEF ShotInOrder
<1>13. PlansKeepNewest'
  <2> SUFFICES ASSUME NEW s \in Sweeps, NEW p \in sweep[s].files
               PROVE  /\ ledger'[p.row].is \in {"closed", "deleted"}
                      /\ Cardinality(Newer(p.row)') >= KeepLast
    BY <1>2, <1>3 DEF PlansKeepNewest
  <2>1. p.row \in Footage /\ ledger[p.row].is \in {"closed", "deleted"}
        /\ Cardinality(Newer(p.row)) >= KeepLast
    BY <1>3 DEF PlansKeepNewest, LibTypes, Sweep, L!Planned
  <2>2. p.row # r /\ ledger'[p.row] = ledger[p.row]
    BY <1>8, <1>10, <2>1
  <2>3. Newer(p.row) \subseteq Newer(p.row)'
    BY <1>8, <1>10 DEF Newer
  <2>4. IsFiniteSet(Newer(p.row)')
    BY LibraryFacts, FS_Subset DEF Newer
  <2>5. Cardinality(Newer(p.row)) <= Cardinality(Newer(p.row)')
        /\ Cardinality(Newer(p.row)) \in Nat /\ Cardinality(Newer(p.row)') \in Nat
    BY <2>3, <2>4, FS_Subset, FS_CardinalityType
  <2> QED  BY <2>1, <2>2, <2>5, LibraryFacts
<1>14. NamesAreKnown'
  <2> SUFFICES ASSUME Told
               PROVE  /\ \A g \in L!Files : card'[g] \in Footage => ledger'[card'[g]].file = g
                      /\ \A s \in Sweeps : \A p \in sweep[s].files : p.file = ledger'[p.row].file
    BY <1>2 DEF NamesAreKnown
  <2>1. ASSUME NEW g \in L!Files, card'[g] \in Footage PROVE ledger'[card'[g]].file = g
    <3>1. CASE g = f
      BY <1>6, <1>8, <1>9, <3>1
    <3>2. CASE g # f
      BY <1>3, <1>8, <1>9, <1>10, <2>1, <3>2 DEF NamesAreKnown, ShotInOrder
    <3> QED  BY <3>1, <3>2
  <2>2. ASSUME NEW s \in Sweeps, NEW p \in sweep[s].files PROVE p.file = ledger'[p.row].file
    <3>1. p.row \in Footage /\ ledger[p.row].is \in {"closed", "deleted"}
      BY <1>3 DEF PlansKeepNewest, LibTypes, Sweep, L!Planned
    <3> QED  BY <1>3, <1>8, <1>10, <3>1 DEF NamesAreKnown
  <2> QED  BY <2>1, <2>2
<1>15. (Told => L!DeletedIsGone)'
  BY <1>6, <1>8, <1>9 DEF LibInv, L!DeletedIsGone, L!OnCard
<1> QED  BY <1>11, <1>12, <1>13, <1>14, <1>15 DEF LibInv

\* A row is closed.
LEMMA RecordingEnds ==
  ASSUME L!LibraryAssumption, LibInv, L!StopRecording
  PROVE  LibInv'
<1>1. /\ deck \in Footage /\ deck' = 0
      /\ UNCHANGED <<card, seen, running, sweep, picked, primed, time, meddled>>
  BY DEF L!StopRecording
<1>2. PICK r \in Footage : r = deck
  BY <1>1
<1> DEFINE row == [ledger[r] EXCEPT !.is = IF @ = "open" THEN "closed" ELSE @]
<1>3. ledger' = [ledger EXCEPT ![r] = row]
  BY <1>2 DEF L!StopRecording
<1>4. LibTypes /\ ShotInOrder /\ PlansKeepNewest /\ NamesAreKnown
  BY DEF LibInv
<1>5. /\ row \in LibRow /\ row.file = ledger[r].file
      /\ row.is = "deleted" <=> ledger[r].is = "deleted"
      /\ row.is = "none" <=> ledger[r].is = "none"
      /\ row.is \in {"open", "closed"} <=> ledger[r].is \in {"open", "closed"}
      /\ ledger[r].is \in {"closed", "deleted"} => row.is = ledger[r].is
  BY <1>4 DEF LibTypes, LibRow
<1> HIDE DEF row
<1>6. /\ ledger' \in [Footage -> LibRow]
      /\ \A q \in Footage :
           /\ ledger'[q].file = ledger[q].file
           /\ ledger'[q].is = "deleted" <=> ledger[q].is = "deleted"
           /\ ledger'[q].is = "none" <=> ledger[q].is = "none"
           /\ ledger'[q].is \in {"open", "closed"} <=> ledger[q].is \in {"open", "closed"}
           /\ ledger[q].is \in {"closed", "deleted"} => ledger'[q].is = ledger[q].is
  BY <1>3, <1>4, <1>5 DEF LibTypes
<1>7. LibTypes'
  BY <1>1, <1>4, <1>6, LibraryFacts DEF LibTypes
<1>8. ShotInOrder'
  BY <1>1, <1>4, <1>6 DEF ShotInOrder, L!Shot
<1>9. \A s \in Sweeps : \A p \in sweep[s].files : p.row \in Footage
  BY <1>4 DEF LibTypes, Sweep, L!Planned
<1>10. PlansKeepNewest'
  <2>1. \A q : Newer(q)' = Newer(q)
    BY <1>6 DEF Newer
  <2> QED  BY <1>1, <1>4, <1>6, <1>9, <2>1 DEF PlansKeepNewest
<1>11. NamesAreKnown'
  BY <1>1, <1>4, <1>6, <1>9 DEF NamesAreKnown
<1>12. (Told => L!DeletedIsGone)'
  BY <1>1, <1>6 DEF LibInv, L!DeletedIsGone, L!OnCard
<1> QED  BY <1>7, <1>8, <1>10, <1>11, <1>12 DEF LibInv

\* A plan is made, of rows that have enough behind them.
LEMMA PlanMade ==
  ASSUME L!LibraryAssumption, LibInv, NEW s \in Sweeps, L!Prepare(s)
  PROVE  LibInv'
<1>1. LibTypes /\ ShotInOrder /\ PlansKeepNewest /\ NamesAreKnown
  BY DEF LibInv
<1>2. PICK pressed \in BOOLEAN, lists \in BOOLEAN :
        \E named \in [{p.row : p \in L!Candidates(pressed, lists)} -> L!Files] :
          /\ \A r \in {p.row : p \in L!Candidates(pressed, lists)} :
               [row |-> r, file |-> named[r]] \in L!Candidates(pressed, lists)
          /\ sweep' = [sweep EXCEPT ![s] =
               [is |-> "prepared", at |-> time,
                files |-> {[row |-> r, file |-> named[r]] :
                             r \in {p.row : p \in L!Candidates(pressed, lists)}}]]
  BY DEF L!Prepare
<1>3. PICK files \in SUBSET L!Candidates(pressed, lists) :
        sweep' = [sweep EXCEPT ![s] = [is |-> "prepared", at |-> time, files |-> files]]
  <2> DEFINE rows == {p.row : p \in L!Candidates(pressed, lists)}
  <2>1. PICK named \in [rows -> L!Files] :
          /\ \A r \in rows : [row |-> r, file |-> named[r]] \in L!Candidates(pressed, lists)
          /\ sweep' = [sweep EXCEPT ![s] =
               [is |-> "prepared", at |-> time,
                files |-> {[row |-> r, file |-> named[r]] : r \in rows}]]
    BY <1>2
  <2> DEFINE files == {[row |-> r, file |-> named[r]] : r \in rows}
  <2>2. files \in SUBSET L!Candidates(pressed, lists)
    <3> HIDE DEF rows
    <3> QED  BY <2>1
  <2>3. sweep' = [sweep EXCEPT ![s] = [is |-> "prepared", at |-> time, files |-> files]]
    BY <2>1
  <2> HIDE DEF files
  <2> QED  BY <2>2, <2>3
<1>4. UNCHANGED <<card, ledger, deck, seen, running, picked, primed, time, meddled>>
  BY DEF L!Prepare
<1>5. files \subseteq L!Planned
  BY DEF L!Candidates
<1> DEFINE now == [is |-> "prepared", at |-> time, files |-> files]
<1>6. now \in Sweep /\ now.files = files /\ now.is = "prepared"
  BY <1>1, <1>5 DEF Sweep, LibTypes
<1> HIDE DEF now
<1>7. /\ sweep' \in [Sweeps -> Sweep] /\ sweep'[s] = now
      /\ \A t \in Sweeps \ {s} : sweep'[t] = sweep[t]
  BY <1>1, <1>3, <1>6 DEF LibTypes, now
<1>8. LibTypes'
  BY <1>1, <1>4, <1>7 DEF LibTypes
<1>9. ASSUME NEW p \in files
      PROVE  /\ p.row \in Footage /\ ledger[p.row].is = "closed"
             /\ Cardinality(Newer(p.row)) >= KeepLast
             /\ Told => p.file = ledger[p.row].file
  <2>1. p \in L!Candidates(pressed, lists)
    OBVIOUS
  <2>2. p.row \in Footage /\ L!Eligible(p.row, pressed)
        /\ (IF lists THEN p.file \in L!Listed(ledger[p.row]) ELSE p.file = ledger[p.row].file)
    BY <2>1 DEF L!Candidates, L!Planned
  <2>3. ledger[p.row].is = "closed" /\ L!Index(p.row) >= KeepLast
    BY <2>2 DEF L!Eligible
  <2>4. {q \in L!Shot : ledger[q].is # "deleted" /\ q > p.row} = Newer(p.row)
    BY <1>1 DEF L!Shot, Newer, LibTypes, LibRow
  <2>5. L!Index(p.row) = Cardinality(Newer(p.row))
    BY <2>4, SameCount DEF L!Index
  <2>6. Told => p.file = ledger[p.row].file
    BY <2>2 DEF L!Listed, L!SameFile
  <2> QED  BY <2>2, <2>3, <2>5, <2>6
<1>10. \A r : Newer(r)' = Newer(r)
  BY <1>4 DEF Newer
<1>11. PlansKeepNewest'
  BY <1>1, <1>4, <1>6, <1>7, <1>9, <1>10 DEF PlansKeepNewest
<1>12. NamesAreKnown'
  BY <1>1, <1>4, <1>6, <1>7, <1>9 DEF NamesAreKnown
<1>13. ShotInOrder' /\ (Told => L!DeletedIsGone)'
  BY <1>1, <1>4 DEF LibInv, ShotInOrder, L!Shot, L!DeletedIsGone, L!OnCard
<1> QED  BY <1>8, <1>11, <1>12, <1>13 DEF LibInv

\* The recorder answers, with the file gone or not.
LEMMA FileRemoved ==
  ASSUME L!LibraryAssumption, LibInv, NEW s \in Sweeps, L!RemoveFile(s)
  PROVE  LibInv'
<1>1. LibTypes /\ ShotInOrder /\ PlansKeepNewest /\ NamesAreKnown
  BY DEF LibInv
<1>2. /\ sweep[s].is = "asked" /\ L!Answered(s)
      /\ UNCHANGED <<deck, seen, running, picked, primed, time, meddled>>
  BY DEF L!RemoveFile
<1> DEFINE left == [sweep[s] EXCEPT !.is = "removing", !.files = L!Rest(s)]
<1>3. sweep' = [sweep EXCEPT ![s] = left]
  BY <1>2 DEF L!Answered
<1>4. left \in Sweep /\ left.files \subseteq sweep[s].files /\ left.is = "removing"
  BY <1>1 DEF LibTypes, Sweep, L!Rest
<1> HIDE DEF left
<1>5. /\ sweep' \in [Sweeps -> Sweep]
      /\ \A t \in Sweeps : /\ sweep'[t].files \subseteq sweep[t].files
                           /\ sweep'[t].is = "asked" => sweep'[t] = sweep[t]
  BY <1>1, <1>3, <1>4 DEF LibTypes
<1>6. CASE UNCHANGED <<card, ledger>>
  <2>1. LibTypes'
    BY <1>1, <1>2, <1>5, <1>6 DEF LibTypes
  <2>2. \A t \in Sweeps : sweep'[t].is = "asked" => sweep'[t].files # {}
    BY <1>1, <1>5 DEF PlansKeepNewest
  <2> QED  BY <1>5, <1>6, <2>1, <2>2, PlansMoveOn
<1>7. CASE L!Removed(s)
  <2>1. PICK p \in sweep[s].files : p = L!Newest(s)
    <3>1. sweep[s].files # {} /\ sweep[s].files \subseteq L!Planned
      BY <1>1, <1>2 DEF PlansKeepNewest, LibTypes, Sweep
    <3> QED  BY <3>1, NewestOne
  <2>2. /\ p.row \in Footage /\ p.file \in L!Files
        /\ ledger[p.row].is \in {"closed", "deleted"}
        /\ Cardinality(Newer(p.row)) >= KeepLast
        /\ Told => p.file = ledger[p.row].file
    BY <1>1, <2>1 DEF PlansKeepNewest, NamesAreKnown, LibTypes, Sweep, L!Planned
  <2> DEFINE row == [ledger[p.row] EXCEPT !.is = "deleted"]
  <2>3. card' = [card EXCEPT ![p.file] = 0] /\ ledger' = [ledger EXCEPT ![p.row] = row]
    BY <1>7, <2>1 DEF L!Removed, L!Erased
  <2>4. row \in LibRow /\ row.is = "deleted" /\ row.file = ledger[p.row].file
    BY <1>1, <2>2 DEF LibTypes, LibRow
  <2> HIDE DEF row
  <2>5. /\ ledger' \in [Footage -> LibRow] /\ ledger'[p.row] = row
        /\ \A q \in Footage \ {p.row} : ledger'[q] = ledger[q]
    BY <1>1, <2>2, <2>3, <2>4 DEF LibTypes
  <2>6. /\ card' \in [L!Files -> 0..L!Theirs] /\ card'[p.file] = 0
        /\ \A f \in L!Files \ {p.file} : card'[f] = card[f]
    <3>1. 0 \in 0..L!Theirs /\ card \in [L!Files -> 0..L!Theirs]
      BY <1>1, LibraryFacts DEF LibTypes
    <3> QED  BY <2>2, <2>3, <3>1
  <2>7. LibTypes'
    BY <1>1, <1>2, <1>5, <2>5, <2>6 DEF LibTypes
  <2>8. \A f \in L!Files : card'[f] \in Footage => f # p.file /\ card'[f] = card[f]
    BY <2>6, LibraryFacts
  <2>9. ShotInOrder'
    <3>1. L!Shot' = L!Shot
      BY <2>2, <2>4, <2>5 DEF L!Shot
    <3> QED  BY <1>1, <2>4, <2>5, <2>8, <3>1 DEF ShotInOrder
  <2>10. \A t \in Sweeps : \A q \in sweep'[t].files :
           q \in sweep[t].files /\ q.row \in Footage
    BY <1>1, <1>5 DEF LibTypes, Sweep, L!Planned
  <2>11. ASSUME NEW t \in Sweeps, NEW q \in sweep'[t].files
         PROVE  /\ ledger'[q.row].is \in {"closed", "deleted"}
                /\ Cardinality(Newer(q.row)') >= KeepLast
    <3>1. /\ q.row \in Footage /\ ledger[q.row].is \in {"closed", "deleted"}
          /\ Cardinality(Newer(q.row)) >= KeepLast
      BY <1>1, <2>10 DEF PlansKeepNewest
    <3>2. ledger'[q.row].is \in {"closed", "deleted"}
      BY <2>4, <2>5, <3>1
    <3>3. PICK r \in Footage : Newer(r) \subseteq Newer(q.row)' /\ r \in {p.row, q.row}
      <4>1. p.row \in Nat /\ q.row \in Nat /\ \A x \in Footage : x \in Nat
        BY <2>2, <3>1, LibraryFacts
      <4>2. CASE q.row < p.row
        <5>1. Newer(p.row) \subseteq Newer(q.row)'
          BY <2>5, <4>1, <4>2 DEF Newer
        <5> QED  BY <2>2, <5>1
      <4>3. CASE ~(q.row < p.row)
        <5>1. Newer(q.row) \subseteq Newer(q.row)'
          BY <2>5, <4>1, <4>3 DEF Newer
        <5> QED  BY <3>1, <5>1
      <4> QED  BY <4>2, <4>3
    <3>4. IsFiniteSet(Newer(q.row)')
      BY LibraryFacts, FS_Subset DEF Newer
    <3>5. Cardinality(Newer(r)) <= Cardinality(Newer(q.row)')
          /\ Cardinality(Newer(r)) \in Nat /\ Cardinality(Newer(q.row)') \in Nat
      BY <3>3, <3>4, FS_Subset, FS_CardinalityType
    <3>6. Cardinality(Newer(r)) >= KeepLast
      BY <2>2, <3>1, <3>3
    <3> QED  BY <3>2, <3>5, <3>6, LibraryFacts
  <2>12. PlansKeepNewest'
    BY <1>1, <1>5, <2>11 DEF PlansKeepNewest
  <2>13. NamesAreKnown'
    <3> SUFFICES ASSUME Told
                 PROVE  /\ \A f \in L!Files : card'[f] \in Footage => ledger'[card'[f]].file = f
                        /\ \A t \in Sweeps : \A q \in sweep'[t].files :
                             q.file = ledger'[q.row].file
      BY DEF NamesAreKnown
    <3>1. \A q \in Footage : ledger'[q].file = ledger[q].file
      BY <2>4, <2>5
    <3> QED  BY <1>1, <2>8, <2>10, <3>1 DEF NamesAreKnown
  <2>14. ASSUME Told PROVE L!DeletedIsGone'
    <3> SUFFICES ASSUME NEW r \in Footage, ledger'[r].is = "deleted", NEW f \in L!Files,
                        card'[f] = r
                 PROVE  FALSE
      BY DEF L!DeletedIsGone, L!OnCard
    <3>1. card[f] = r /\ f # p.file
      BY <2>8
    <3>2. ledger[r].file = f
      BY <1>1, <2>14, <3>1 DEF NamesAreKnown
    <3>3. CASE r = p.row
      BY <2>2, <2>14, <3>1, <3>2, <3>3
    <3>4. CASE r # p.row
      BY <2>5, <2>14, <3>1, <3>4 DEF LibInv, L!DeletedIsGone, L!OnCard
    <3> QED  BY <3>3, <3>4
  <2>15. (Told => L!DeletedIsGone)'
    BY <2>14
  <2> QED  BY <2>7, <2>9, <2>12, <2>13, <2>15 DEF LibInv
<1> QED  BY <1>6, <1>7 DEF L!RemoveFile, L!Kept

\* A plan is asked for, confirmed or gone on with.
LEMMA PlanGoesOn ==
  ASSUME L!LibraryAssumption, LibInv, NEW s \in Sweeps,
         L!Ask(s) \/ L!Confirm(s) \/ L!NextFile(s)
  PROVE  LibInv'
<1>1. LibTypes /\ PlansKeepNewest
  BY DEF LibInv
<1>2. UNCHANGED <<card, ledger, deck, seen, running, picked, primed, time, meddled>>
  BY DEF L!Ask, L!Confirm, L!NextFile
<1>3. sweep[s] \in Sweep
  BY <1>1 DEF LibTypes
<1>4. PICK now \in Sweep :
        /\ sweep' = [sweep EXCEPT ![s] = now] /\ now.files \subseteq sweep[s].files
        /\ now.is = "asked" => now.files # {}
  <2>1. ASSUME L!Ask(s)
        PROVE  \E now \in Sweep :
                 /\ sweep' = [sweep EXCEPT ![s] = now] /\ now.files \subseteq sweep[s].files
                 /\ now.is = "asked" => now.files # {}
    <3> DEFINE now == [L!NoSweep EXCEPT !.is = "listing"]
    <3>1. now \in Sweep /\ now.files = {} /\ now.is # "asked"
      BY LibraryFacts DEF L!NoSweep, Sweep
    <3>2. sweep' = [sweep EXCEPT ![s] = now]
      BY <2>1 DEF L!Ask
    <3> HIDE DEF now
    <3> QED  BY <3>1, <3>2
  <2>2. ASSUME L!Confirm(s)
        PROVE  \E now \in Sweep :
                 /\ sweep' = [sweep EXCEPT ![s] = now] /\ now.files \subseteq sweep[s].files
                 /\ now.is = "asked" => now.files # {}
    <3> DEFINE now == IF time - sweep[s].at > Ttl \/ L!Busy THEN L!NoSweep
                      ELSE [sweep[s] EXCEPT !.is = "removing"]
    <3>1. now \in Sweep /\ now.files \subseteq sweep[s].files /\ now.is # "asked"
      BY <1>3, LibraryFacts DEF Sweep
    <3>2. sweep' = [sweep EXCEPT ![s] = now]
      BY <2>2 DEF L!Confirm
    <3> HIDE DEF now
    <3> QED  BY <3>1, <3>2
  <2>3. ASSUME L!NextFile(s)
        PROVE  \E now \in Sweep :
                 /\ sweep' = [sweep EXCEPT ![s] = now] /\ now.files \subseteq sweep[s].files
                 /\ now.is = "asked" => now.files # {}
    <3> DEFINE now == IF sweep[s].files = {} THEN L!NoSweep
                      ELSE IF ledger[L!Newest(s).row].is # "closed"
                           THEN [sweep[s] EXCEPT !.files = L!Rest(s)]
                      ELSE [sweep[s] EXCEPT !.is = "asked"]
    <3>0. sweep[s].is = "removing"
      BY <2>3 DEF L!NextFile
    <3>1. now \in Sweep /\ now.files \subseteq sweep[s].files
          /\ (now.is = "asked" => now.files # {})
      BY <1>3, <3>0, LibraryFacts DEF Sweep, L!Rest
    <3>2. sweep' = [sweep EXCEPT ![s] = now]
      BY <2>3 DEF L!NextFile
    <3> HIDE DEF now
    <3> QED  BY <3>1, <3>2
  <2> QED  BY <2>1, <2>2, <2>3
<1>5. /\ sweep' \in [Sweeps -> Sweep]
      /\ \A t \in Sweeps : /\ sweep'[t].files \subseteq sweep[t].files
                           /\ sweep'[t].is = "asked" => sweep'[t].files # {}
  BY <1>1, <1>4 DEF LibTypes, PlansKeepNewest
<1>6. LibTypes'
  BY <1>1, <1>2, <1>5 DEF LibTypes
<1> QED  BY <1>2, <1>5, <1>6, PlansMoveOn

\* What people do at the recorder and on the screen of its card, and the time that passes.
LEMMA CardChanges ==
  ASSUME L!LibraryAssumption, LibInv,
         \/ L!RunStarts \/ L!RunIsOver \/ L!ByHand \/ L!StatePushed \/ L!Elapse
         \/ L!Pick \/ L!ConfirmPick \/ L!RemovePicked \/ L!Format
  PROVE  LibInv'
<1>1. LibTypes /\ PlansKeepNewest
  BY DEF LibInv
<1>2. /\ L!Theirs \in 1..L!Theirs /\ 0 \in 0..L!Theirs
      /\ \A f \in L!Files : card[f] \in 0..L!Theirs
  BY <1>1, LibraryFacts DEF LibTypes
<1> DEFINE Fewer == /\ card' \in [L!Files -> 0..L!Theirs] /\ UNCHANGED <<ledger, sweep>>
                    /\ \A f \in L!Files : card'[f] \in {card[f], 0, L!Theirs}
<1>3. ASSUME Fewer, LibTypes' PROVE LibInv'
  BY <1>3, FilesGo
<1>4. ASSUME L!RunStarts \/ L!RunIsOver \/ L!StatePushed \/ L!Elapse PROVE LibInv'
  <2>1. Fewer
    BY <1>1, <1>4 DEF L!RunStarts, L!RunIsOver, L!StatePushed, L!Elapse, LibTypes
  <2>2. LibTypes'
    <3>1. L!RunStarts \/ L!RunIsOver \/ L!StatePushed => LibTypes'
      BY <1>1, <1>2 DEF L!RunStarts, L!RunIsOver, L!StatePushed, LibTypes
    <3>2. ASSUME L!Elapse PROVE LibTypes'
      <4>1. time' \in 0..MaxTime
        BY <1>1, <3>2, LibraryFacts DEF L!Elapse, LibTypes
      <4> QED  BY <1>1, <3>2, <4>1 DEF L!Elapse, LibTypes
    <3> QED  BY <1>4, <3>1, <3>2
  <2> QED  BY <1>3, <2>1, <2>2
<1>5. ASSUME L!ByHand PROVE LibInv'
  <2>1. meddled' \in 0..MaxMeddling /\ UNCHANGED <<ledger, seen, running, sweep, picked, primed, time>>
    BY <1>1, <1>5, LibraryFacts DEF L!ByHand, L!Meddle, LibTypes
  <2>2. deck' \in 0..L!Theirs /\ Fewer
    <3>1. ASSUME NEW title \in Titles, L!Writes(L!Theirs, title)
          PROVE  deck' \in 0..L!Theirs /\ Fewer
      <4>1. PICK f \in L!Files : card' = [card EXCEPT ![f] = L!Theirs] /\ deck' = L!Theirs
        BY <1>1, <1>2, <3>1, FreeName
      <4>2. L!Theirs \in 0..L!Theirs
        BY LibraryFacts
      <4> QED  BY <1>1, <2>1, <4>1, <4>2 DEF LibTypes
    <3>2. ASSUME deck' = 0, UNCHANGED card PROVE deck' \in 0..L!Theirs /\ Fewer
      BY <1>1, <1>2, <2>1, <3>2 DEF LibTypes
    <3>3. ASSUME NEW f \in L!Files, L!Erased(f), UNCHANGED deck
          PROVE  deck' \in 0..L!Theirs /\ Fewer
      BY <1>1, <1>2, <2>1, <3>3 DEF LibTypes, L!Erased
    <3> QED  BY <1>5, <3>1, <3>2, <3>3 DEF L!ByHand
  <2>3. LibTypes'
    BY <1>1, <2>1, <2>2 DEF LibTypes
  <2> QED  BY <1>3, <2>2, <2>3
<1>6. ASSUME L!Pick PROVE LibInv'
  <2>1. PICK f \in L!Files : picked' = [is |-> "described", files |-> {f}, at |-> time]
    BY <1>6 DEF L!Pick
  <2>2. picked' \in Card
    BY <1>1, <2>1 DEF Card, LibTypes
  <2>3. LibTypes'
    BY <1>1, <1>6, <2>2, LibraryFacts DEF L!Pick, L!Meddle, LibTypes
  <2> QED  BY <1>1, <1>3, <1>6, <2>3 DEF L!Pick, LibTypes
<1>7. ASSUME L!ConfirmPick PROVE LibInv'
  <2>1. picked' \in Card
    BY <1>1, <1>7 DEF L!ConfirmPick, Card, LibTypes
  <2>2. LibTypes'
    BY <1>1, <1>7, <2>1 DEF L!ConfirmPick, LibTypes
  <2> QED  BY <1>1, <1>3, <1>7, <2>2 DEF L!ConfirmPick, LibTypes
<1>8. ASSUME L!RemovePicked PROVE LibInv'
  <2>1. PICK f \in picked.files :
          /\ card' \in {card, [card EXCEPT ![f] = 0]}
          /\ picked' = [picked EXCEPT !.files = @ \ {f},
                                      !.is = IF picked.files = {f} THEN "none" ELSE @]
    BY <1>8 DEF L!RemovePicked
  <2>2. f \in L!Files /\ picked' \in Card
    BY <1>1, <2>1 DEF Card, LibTypes
  <2>3. Fewer
    BY <1>1, <1>2, <1>8, <2>1, <2>2 DEF L!RemovePicked, LibTypes
  <2>4. LibTypes'
    BY <1>1, <1>8, <2>2, <2>3 DEF L!RemovePicked, LibTypes
  <2> QED  BY <1>3, <2>3, <2>4
<1>9. ASSUME L!Format PROVE LibInv'
  <2>1. card' \in {card, [f \in L!Files |-> 0]} /\ meddled' \in 0..MaxMeddling
        /\ primed' \in {"no", "given", "quoted"}
        /\ UNCHANGED <<ledger, deck, seen, running, sweep, picked, time>>
    BY <1>1, <1>9, LibraryFacts DEF L!Format, L!Meddle, LibTypes
  <2>2. Fewer
    BY <1>1, <1>2, <2>1 DEF LibTypes
  <2>3. LibTypes'
    BY <1>1, <2>1, <2>2 DEF LibTypes
  <2> QED  BY <1>3, <2>2, <2>3
<1> QED  BY <1>4, <1>5, <1>6, <1>7, <1>8, <1>9

LEMMA LibStep ==
  ASSUME L!LibraryAssumption, LibInv, [L!LibNext]_libVars
  PROVE  LibInv'
<1>1. ASSUME NEW s \in Sweeps, L!Ask(s) \/ L!Prepare(s) \/ L!Confirm(s) \/ L!NextFile(s)
                               \/ L!RemoveFile(s)
      PROVE  LibInv'
  BY <1>1, PlanGoesOn, PlanMade, FileRemoved
<1>2. CASE UNCHANGED libVars
  <2>1. LibTypes'
    BY <1>2 DEF libVars, LibInv, LibTypes
  <2>2. \A s \in Sweeps : sweep'[s].is = "asked" => sweep'[s].files # {}
    BY <1>2 DEF libVars, LibInv, PlansKeepNewest
  <2> QED  BY <1>2, <2>1, <2>2, PlansMoveOn DEF libVars
<1> QED  BY <1>1, <1>2, RecordingBegins, RecordingEnds, CardChanges DEF L!LibNext

\* A row is marked by the sweep whose plan it heads, and has enough behind it then.
LEMMA MarkedRowHasEnough ==
  ASSUME L!LibraryAssumption, LibInv, [L!LibNext]_libVars, NEW r \in Footage,
         ledger[r].is # "deleted", ledger'[r].is = "deleted"
  PROVE  L!Cardinality({q \in Footage : q > r /\ ledger[q].is \in {"open", "closed"}}) >= KeepLast
<1>1. LibTypes /\ PlansKeepNewest
  BY DEF LibInv
<1>2. ledger' # ledger
  OBVIOUS
<1>3. ASSUME L!StartRecording PROVE FALSE
  <2>1. PICK title \in Titles : L!Writes(L!Cardinality(L!Shot) + 1, title)
    BY <1>3 DEF L!StartRecording
  <2>2. Cardinality(L!Shot) \in Nat /\ Cardinality(L!Shot) <= Cardinality(Footage)
        /\ L!Shot \subseteq Footage
    BY LibraryFacts, FS_Subset, FS_CardinalityType DEF L!Shot
  <2>3. L!Shot # Footage
    BY <1>3 DEF L!StartRecording
  <2>4. Cardinality(L!Shot) # Cardinality(Footage)
    BY <2>2, <2>3, LibraryFacts, FS_Subset
  <2> DEFINE k == L!Cardinality(L!Shot) + 1
  <2>5. k \in 1..L!Theirs /\ k # L!Theirs
    BY <2>2, <2>4, SameCount, LibraryFacts
  <2>6. L!Writes(k, title)
    BY <2>1
  <2> HIDE DEF k
  <2>7. PICK f \in L!Files :
          ledger' = [ledger EXCEPT ![k] =
            [is |-> "open", file |-> IF Told THEN f ELSE <<title, 0>>, at |-> time]]
    BY <1>1, <2>5, <2>6, FreeName
  <2> QED  BY <1>1, <2>7 DEF LibTypes
<1>4. ASSUME L!StopRecording PROVE FALSE
  BY <1>1, <1>4 DEF L!StopRecording, LibTypes
<1>5. ASSUME NEW s \in Sweeps, L!RemoveFile(s)
      PROVE  Cardinality(Newer(r)) >= KeepLast
  <2>1. sweep[s].files # {} /\ sweep[s].files \subseteq L!Planned
    BY <1>1, <1>5 DEF L!RemoveFile, PlansKeepNewest, LibTypes, Sweep
  <2>2. L!Newest(s) \in sweep[s].files
    BY <2>1, NewestOne
  <2>3. PICK p \in sweep[s].files : p = L!Newest(s)
    BY <2>2
  <2>4. ledger' = [ledger EXCEPT ![p.row].is = "deleted"]
    BY <1>2, <1>5, <2>3 DEF L!RemoveFile, L!Removed, L!Kept
  <2>5. p.row = r
    BY <1>1, <2>1, <2>4 DEF LibTypes, L!Planned
  <2> QED  BY <1>1, <2>5 DEF PlansKeepNewest
<1>6. PICK s \in Sweeps : L!RemoveFile(s)
  BY <1>2, <1>3, <1>4 DEF L!LibNext, libVars, L!RunStarts, L!RunIsOver, L!ByHand, L!StatePushed,
     L!Elapse, L!Pick, L!ConfirmPick, L!RemovePicked, L!Format, L!Ask, L!Prepare, L!Confirm,
     L!NextFile
<1>7. Cardinality(Newer(r)) >= KeepLast
  BY <1>5, <1>6
<1> QED  BY <1>7, SameCount DEF Newer
-----------------------------------------------------------------------------
(* Upgrades *)

\* An output has these columns and no other.
IsRow(o) == o = [kind |-> o.kind, device |-> o.device, to |-> o.to]

UpgradeInv ==
  /\ version \in 4..7 /\ build \in {0} \cup 4..7 /\ U!OldPlansEnd
  /\ \A o \in outputs : IsRow(o)

LEMMA UpgradeHolds == U!UpgradeInit => UpgradeInv
BY DEF U!UpgradeInit, UpgradeInv, U!OldPlansEnd

LEMMA BackfillRows ==
  ASSUME NEW o, IsRow(o)
  PROVE  /\ IsRow(U!Backfilled(o))
         /\ U!Backfilled(o).kind = o.kind /\ U!Backfilled(o).to = o.to
         /\ U!Backfilled(o).device = IF o.device = U!None THEN source ELSE o.device
<1>1. PICK k, d, t : o = [kind |-> k, device |-> d, to |-> t]
  BY DEF IsRow
<1>2. [o EXCEPT !.device = source] = [kind |-> k, device |-> source, to |-> t]
  BY <1>1
<1> QED  BY <1>1, <1>2 DEF U!Backfilled, IsRow

LEMMA UpgradeStep == ASSUME UpgradeInv, [U!UpgradeNext]_upgradeVars PROVE UpgradeInv'
<1>1. ASSUME NEW b \in U!Versions, U!Start(b) PROVE UpgradeInv'
  BY <1>1 DEF U!Start, U!Versions, UpgradeInv, U!OldPlansEnd
<1>2. ASSUME U!Migrate PROVE UpgradeInv'
  <2>1. /\ version' = version + 1 /\ version' \in 4..7 /\ version' # 4 /\ build' = build
        /\ version = 4 <=> version' = 5
    BY <1>2 DEF U!Migrate, UpgradeInv
  <2>2. U!OldPlansEnd'
    BY <1>2, <2>1 DEF U!Migrate, UpgradeInv, U!OldPlansEnd
  <2>3. \A o \in outputs' : IsRow(o)
    <3>1. CASE version' = 5
      <4>1. \A o \in U!Converted(graph) : IsRow(o)
        BY DEF U!Converted, IsRow
      <4> QED  BY <1>2, <3>1, <4>1 DEF U!Migrate
    <3>2. CASE version' = 7
      BY <1>2, <3>2, BackfillRows DEF U!Migrate, UpgradeInv
    <3>3. CASE version' \notin {5, 7}
      BY <1>2, <3>3 DEF U!Migrate, UpgradeInv
    <3> QED  BY <3>1, <3>2, <3>3
  <2> QED  BY <2>1, <2>2, <2>3 DEF UpgradeInv
<1>3. ASSUME U!Stop \/ U!RunBegins \/ U!RunEnds PROVE UpgradeInv'
  BY <1>3 DEF U!Stop, U!RunBegins, U!RunEnds, UpgradeInv, U!OldPlansEnd
<1>4. ASSUME U!Edit PROVE UpgradeInv'
  <2>1. \A o \in outputs' : IsRow(o)
    BY <1>4 DEF U!Edit, UpgradeInv, IsRow
  <2> QED  BY <1>4, <2>1 DEF U!Edit, UpgradeInv, U!OldPlansEnd
<1>5. CASE UNCHANGED upgradeVars
  BY <1>5 DEF upgradeVars, UpgradeInv, U!OldPlansEnd
<1> QED  BY <1>1, <1>2, <1>3, <1>4, <1>5 DEF U!UpgradeNext

\* An output that falls back on the source of its pipeline drives it.
LEMMA ColumnsResolve ==
  ASSUME NEW g, NEW n, n.device # U!None
  PROVE  (IF U!DeviceColumn(g, n) = U!None THEN U!SourceOf(g) ELSE U!DeviceColumn(g, n)) = n.device
BY DEF U!DeviceColumn

\* The outputs that a pipeline is converted to drive what it drove.
LEMMA ConversionKeeps ==
  ASSUME outputs' = U!Converted(graph), source' = U!SourceOf(graph)
  PROVE  U!OutputsDrive' = U!PipelineDrives
<1> DEFINE drives(o) == <<o.kind, IF o.device = U!None THEN source' ELSE o.device, o.to>>
           streams(i) == [kind |-> "stream", device |-> U!DeviceColumn(graph, graph.nodes[i]),
                          to |-> graph.nodes[i].ingest]
           spare(d) == [kind |-> "stream", device |-> U!None, to |-> d]
           records(i) == [kind |-> "recording", device |-> U!DeviceColumn(graph, graph.nodes[i]),
                          to |-> U!None]
<1>1. U!OutputsDrive' = {drives(o) : o \in outputs'}
  BY DEF U!OutputsDrive, U!None
<1>2. outputs' = {streams(i) : i \in U!Streaming(graph)} \cup {spare(d) : d \in U!Unclaimed(graph)}
                 \cup {records(i) : i \in U!RecordingOf(graph)}
  BY DEF U!Converted
<1>3. \A i \in U!Streaming(graph) \cup U!RecordingOf(graph) : graph.nodes[i].device # U!None
  BY DEF U!Streaming, U!RecordingOf, U!Nodes
<1>4. \A i \in U!Streaming(graph) :
        drives(streams(i)) = <<"stream", graph.nodes[i].device, graph.nodes[i].ingest>>
  BY <1>3, ColumnsResolve
<1>5. \A d \in U!Unclaimed(graph) : drives(spare(d)) = <<"stream", U!SourceOf(graph), d>>
  OBVIOUS
<1>6. \A i \in U!RecordingOf(graph) :
        drives(records(i)) = <<"recording", graph.nodes[i].device, U!None>>
  BY <1>3, ColumnsResolve
<1> HIDE DEF drives, streams, spare, records
<1>7. {drives(o) : o \in outputs'} =
        {drives(streams(i)) : i \in U!Streaming(graph)}
        \cup {drives(spare(d)) : d \in U!Unclaimed(graph)}
        \cup {drives(records(i)) : i \in U!RecordingOf(graph)}
  BY <1>2
<1> QED  BY <1>1, <1>4, <1>5, <1>6, <1>7 DEF U!PipelineDrives

\* An output that is given the source drives what it drove while it fell back on it.
LEMMA BackfillKeeps ==
  ASSUME outputs' = {U!Backfilled(o) : o \in outputs}, source' = U!None,
         \A o \in outputs : IsRow(o)
  PROVE  U!OutputsDrive' = U!OutputsDrive
<1> DEFINE was(o) == <<o.kind, IF o.device = U!None THEN source ELSE o.device, o.to>>
           is(o) == <<o.kind, IF o.device = U!None THEN source' ELSE o.device, o.to>>
<1>1. \A o \in outputs : is(U!Backfilled(o)) = was(o)
  BY BackfillRows
<1>2. U!OutputsDrive = {was(o) : o \in outputs} /\ U!OutputsDrive' = {is(o) : o \in outputs'}
  BY DEF U!OutputsDrive, U!None
<1> HIDE DEF was, is
<1> QED  BY <1>1, <1>2

LEMMA MigrationsKeep ==
  ASSUME UpgradeInv, [U!UpgradeNext]_upgradeVars, U!Migrate
  PROVE  U!Drives' = U!Drives
<1>1. version' = version + 1 /\ version \in 4..7 /\ version' # 4 /\ graph' = graph
      /\ (version = 4 <=> version' = 5)
  BY DEF U!Migrate, UpgradeInv
<1>2. CASE version = 4
  <2>1. outputs' = U!Converted(graph) /\ source' = U!SourceOf(graph)
    BY <1>1, <1>2 DEF U!Migrate
  <2> QED  BY <1>1, <1>2, <2>1, ConversionKeeps DEF U!Drives
<1>3. CASE version' = 7
  <2>1. outputs' = {U!Backfilled(o) : o \in outputs} /\ source' = U!None
    BY <1>3 DEF U!Migrate
  <2> QED  BY <1>1, <1>3, <2>1, BackfillKeeps DEF U!Drives, UpgradeInv
<1>4. CASE version' # 7 /\ version # 4
  <2>1. UNCHANGED <<outputs, source>>
    BY <1>1, <1>4 DEF U!Migrate
  <2> QED  BY <1>1, <1>4, <2>1 DEF U!Drives, U!OutputsDrive
<1> QED  BY <1>2, <1>3, <1>4
-----------------------------------------------------------------------------
(* Copies and restores *)

Copies == [copy : B!Database, whole : BOOLEAN]

BackupTypes ==
  /\ main \in B!Database \cup {B!None, B!Junk} /\ log \subseteq B!Work
  /\ aside \subseteq B!Database \cup {B!Junk}
  /\ pending \in B!Database \cup {B!None, B!Junk} /\ marker \in B!Database \cup {B!None}
  /\ saltFile \in {B!Ours, B!Theirs} /\ key \in {0, B!Ours, B!Theirs}
  /\ at \in B!Places /\ agreed \in {"none", "fresh", "old"}
  /\ shelf \in Seq(Copies) /\ kept \in [copy : B!Database \cup {B!None}, whole : BOOLEAN]
  /\ downloads \subseteq B!Database /\ safe \subseteq B!Work
  /\ copies \in 0..MaxCopies /\ kills \in 0..MaxKills

\* What is copied has a manifest; what is staged is a copy, or no database at all.
Manifests ==
  /\ \A d \in downloads : d.manifest # B!NoTable
  /\ pending.manifest # B!NoTable \/ pending \in {B!None, B!Junk}
  /\ marker.manifest # B!NoTable \/ marker = B!None

\* Between the database that is moved aside and the one that is swapped in there is none: then
\* a restore is staged, so that the next start goes on with it.
Placed ==
  /\ at \in {"up", "manifest", "staging"} => main \in B!Database
  /\ at \in {"salt", "clear", "key"} => main # B!None
  /\ main = B!None => pending # B!None /\ marker # B!None
  /\ at \in {"aside", "drop", "swap"} => pending # B!None /\ marker # B!None
  /\ at \in {"drop", "swap"} => main = B!None
  /\ at = "staging" => pending # B!None
  /\ at \in {"salt", "clear"} => marker # B!None

\* Nobody stops the program between two files that have to agree: the staged one and its
\* marker, the database and the salt.
Careful == KillPoints \cap {"staging", "salt"} = {}

\* The secrets of this copy were written under the salt in its manifest.
Sealed(d) == d.salt \in {0, d.manifest}

Salted ==
  /\ \A d \in downloads : Sealed(d)
  /\ pending \in {B!None, B!Junk} \/ Sealed(pending)
  /\ marker = B!None \/ Sealed(marker)
  /\ at # "staging" => pending # B!Junk /\ (pending = B!None \/ marker = B!None \/ pending = marker)
  /\ main # B!Junk
  /\ at \in {"up", "manifest", "staging"} => key = saltFile
  /\ main # B!None /\ at # "salt" => main.salt \in {0, saltFile}
  /\ at = "salt" => main = marker

OnShelf == (at = "manifest" => shelf # <<>>) /\ B!LatestCopyStays

BackupInv ==
  BackupTypes /\ Manifests /\ Placed /\ B!NothingLost /\ (Careful => Salted) /\ OnShelf

-----------------------------------------------------------------------------
LEMMA NoDatabase ==
  /\ B!None \notin B!Database /\ B!Junk \notin B!Database /\ B!None # B!Junk
  /\ B!None.has = {} /\ B!Junk.has = {} /\ B!Foreign.has = {}
  /\ B!Foreign \in B!Database /\ B!Foreign.manifest # B!NoTable /\ Sealed(B!Foreign)
  /\ \A d \in B!Database : /\ d.has \subseteq B!Work /\ d.salt \in {0, B!Ours, B!Theirs}
                           /\ d.manifest \in {B!NoTable, 0, B!Ours, B!Theirs}
<1>1. /\ B!None.salt = -2 /\ B!Junk.salt = -1
      /\ B!None.has = {} /\ B!Junk.has = {} /\ B!Foreign.has = {}
      /\ B!Foreign.manifest = 2 /\ B!Foreign.salt = 2 /\ B!NoTable = -1
      /\ B!Ours = 1 /\ B!Theirs = 2
  BY DEF B!None, B!Junk, B!Foreign, B!NoTable, B!Ours, B!Theirs
<1>2. \A d \in B!Database : /\ d.has \subseteq B!Work /\ d.salt \in {0, B!Ours, B!Theirs}
                            /\ d.manifest \in {B!NoTable, 0, B!Ours, B!Theirs}
  BY DEF B!Database
<1>3. B!Foreign \in B!Database
  BY DEF B!Foreign, B!Database
<1>4. B!None \notin B!Database /\ B!Junk \notin B!Database /\ B!None # B!Junk
  BY <1>1, <1>2
<1>5. B!Foreign.manifest # B!NoTable /\ Sealed(B!Foreign)
  BY <1>1 DEF Sealed
<1> QED  BY <1>1, <1>2, <1>3, <1>4, <1>5

LEMMA BackupHolds == ASSUME B!BackupAssumption PROVE B!BackupInit => BackupInv
<1> SUFFICES ASSUME B!BackupInit PROVE BackupInv
  OBVIOUS
<1>1. main \in B!Database /\ main.has = {} /\ main.salt = 0
  BY DEF B!BackupInit, B!Database
<1>2. /\ kept \in [copy : B!Database \cup {B!None}, whole : BOOLEAN] /\ kept.copy = B!None
      /\ shelf \in Seq(Copies)
  BY EmptySeq DEF B!BackupInit
<1>3. BackupTypes
  BY <1>1, <1>2 DEF B!BackupInit, BackupTypes, B!Places, B!BackupAssumption
<1>4. Manifests /\ Placed /\ Salted
  BY <1>1, NoDatabase DEF B!BackupInit, Manifests, Placed, Salted
<1>5. B!NothingLost /\ OnShelf
  BY <1>2 DEF B!BackupInit, B!NothingLost, OnShelf, B!LatestCopyStays
<1> QED  BY <1>3, <1>4, <1>5 DEF BackupInv

\* A copy has the changes of the database and of its log, and the salt of the database.
LEMMA CopyIs ==
  ASSUME BackupTypes, main \in B!Database
  PROVE  /\ B!Copy \in B!Database /\ B!Copy.has = main.has \cup log /\ B!Copy.salt = main.salt
         /\ \A d \in B!Database :
              /\ B!Described(d) \in B!Database /\ B!Described(d).manifest = saltFile
              /\ B!Described(d).salt = d.salt
BY DEF BackupTypes, B!Copy, B!Described, B!Database

LEMMA FirstOf ==
  ASSUME NEW xs, NEW s \in Seq(xs), NEW n \in Nat, n <= Len(s)
  PROVE  SubSeq(s, 1, n) \in Seq(xs) /\ Len(SubSeq(s, 1, n)) = n
OBVIOUS

\* Of a copy that succeeds, the shelf has the newest, this one among them.
LEMMA ShelfPruned ==
  ASSUME NEW s \in Seq(Copies), s # <<>>, NEW c \in Copies, Keep \in Nat \ {0}
  PROVE  LET now == B!Pruned(Append(B!Front(s), c))
         IN  now \in Seq(Copies) /\ c \in B!Range(now)
<1> DEFINE f == B!Front(s)
           t == Append(f, c)
           now == B!Pruned(t)
<1>1. Len(s) \in Nat /\ Len(s) >= 1
  BY EmptySeq, LenProperties
<1>0. ASSUME now \in Seq(Copies) /\ c \in B!Range(now)
      PROVE  LET then == B!Pruned(Append(B!Front(s), c))
             IN  then \in Seq(Copies) /\ c \in B!Range(then)
  BY <1>0
<1>2. f \in Seq(Copies) /\ Len(f) = Len(s) - 1
  <2>1. PICK n \in Nat : n = Len(s) - 1 /\ n <= Len(s)
    BY <1>1
  <2>2. f = SubSeq(s, 1, n)
    BY <2>1 DEF B!Front
  <2> HIDE DEF f
  <2> QED  BY <2>1, <2>2, FirstOf
<1> HIDE DEF f
<1>3. t \in Seq(Copies) /\ Len(t) = Len(f) + 1 /\ t[Len(t)] = c
  BY <1>2, AppendProperties
<1> HIDE DEF t
<1>4. ASSUME Len(t) <= Keep PROVE now \in Seq(Copies) /\ c \in B!Range(now)
  <2>1. now = t /\ Len(t) \in DOMAIN t
    BY <1>1, <1>2, <1>3, <1>4, LenProperties DEF B!Pruned
  <2> QED  BY <1>3, <2>1 DEF B!Range
<1>5. ASSUME ~(Len(t) <= Keep) PROVE now \in Seq(Copies) /\ c \in B!Range(now)
  <2> DEFINE m == Len(t) - Keep + 1
  <2>1. m \in 1..Len(t) /\ now = SubSeq(t, m, Len(t)) /\ Len(t) \in Nat
    BY <1>1, <1>2, <1>3, <1>5 DEF B!Pruned
  <2>2. now \in Seq(Copies) /\ Len(now) = Keep
    BY <1>3, <2>1, SubSeqProperties
  <2>3. now[Keep] = t[m + Keep - 1] /\ Keep \in 1..Len(now)
    BY <1>3, <2>1, <2>2, SubSeqProperties
  <2>4. now[Keep] = c /\ Keep \in DOMAIN now
    BY <1>3, <2>1, <2>2, <2>3, LenProperties
  <2> QED  BY <2>2, <2>4 DEF B!Range
<1> QED  BY <1>0, <1>4, <1>5 DEF f, t

LEMMA BackupKeepsTypes ==
  ASSUME B!BackupAssumption, BackupInv, B!BackupNext
  PROVE  BackupTypes'
<1>1. BackupTypes /\ Placed /\ Manifests /\ OnShelf
  BY DEF BackupInv
<1>2. /\ MaxCopies \in Nat /\ MaxKills \in Nat /\ Keep \in Nat \ {0}
  BY DEF B!BackupAssumption
<1>3. ASSUME B!Change PROVE BackupTypes'
  <2>1. main \in B!Database /\ key \in {B!Ours, B!Theirs, 0}
    BY <1>1, <1>3 DEF B!Change, Placed, BackupTypes
  <2>2. main' \in B!Database
    BY <1>3, <2>1 DEF B!Change, B!Database
  <2>3. log' \subseteq B!Work
    BY <1>1, <1>3 DEF B!Change, BackupTypes
  <2> QED  BY <1>1, <1>3, <2>2, <2>3 DEF B!Change, BackupTypes
<1>4. ASSUME B!Folded, main \in B!Database
      PROVE  main' \in B!Database /\ log' \subseteq B!Work /\ safe' \subseteq B!Work
  BY <1>1, <1>4 DEF B!Folded, BackupTypes, B!Database
<1>5. ASSUME B!Checkpoint PROVE BackupTypes'
  <2>1. main \in B!Database
    BY <1>1, <1>5 DEF B!Checkpoint, Placed
  <2> QED  BY <1>1, <1>4, <1>5, <2>1 DEF B!Checkpoint, BackupTypes
<1>6. ASSUME B!CopyOut PROVE BackupTypes'
  <2>1. [copy |-> B!Copy, whole |-> FALSE] \in Copies
    BY <1>1, <1>6, CopyIs DEF B!CopyOut, Placed, Copies
  <2>2. shelf' \in Seq(Copies)
    BY <1>1, <1>6, <2>1, AppendProperties DEF B!CopyOut, BackupTypes
  <2> QED  BY <1>1, <1>2, <1>6, <2>2 DEF B!CopyOut, BackupTypes, B!Places
<1>7. ASSUME B!CopyDone PROVE BackupTypes'
  <2>1. shelf \in Seq(Copies) /\ shelf # <<>> /\ main \in B!Database
    BY <1>1, <1>7 DEF BackupTypes, OnShelf, B!CopyDone, Placed
  <2>2. B!Last(shelf) \in Copies
    BY <2>1, EmptySeq, LenProperties, ElementOfSeq DEF B!Last
  <2> DEFINE whole == [copy |-> B!Described(B!Last(shelf).copy), whole |-> TRUE]
  <2>3. whole \in Copies /\ whole \in [copy : B!Database \cup {B!None}, whole : BOOLEAN]
    BY <1>1, <2>1, <2>2, CopyIs DEF Copies
  <2>4. shelf' = B!Pruned(Append(B!Front(shelf), whole)) /\ kept' = whole
    BY <1>7 DEF B!CopyDone
  <2> HIDE DEF whole
  <2>5. shelf' \in Seq(Copies)
    BY <1>2, <2>1, <2>3, <2>4, ShelfPruned
  <2> QED  BY <1>1, <1>7, <2>3, <2>4, <2>5 DEF B!CopyDone, BackupTypes, B!Places
<1>8. ASSUME B!CopyFails \/ B!Expire \/ B!CancelRestore \/ B!ClearMarker \/ B!DropLog PROVE BackupTypes'
  BY <1>1, <1>8 DEF B!CopyFails, B!Expire, B!CancelRestore, B!ClearMarker, B!DropLog, BackupTypes,
     B!Places
<1>9. ASSUME B!Download PROVE BackupTypes'
  <2>1. B!Described(B!Copy) \in B!Database
    BY <1>1, <1>9, CopyIs DEF B!Download, Placed
  <2> QED  BY <1>1, <1>2, <1>9, <2>1 DEF B!Download, BackupTypes
<1>10. ASSUME NEW f \in B!Uploads, B!Inspect(f) \/ B!Stage(f) PROVE BackupTypes'
  <2>1. f \in B!Database \cup {B!Junk}
    BY <1>1, NoDatabase DEF B!Uploads, BackupTypes
  <2> QED  BY <1>1, <1>10, <2>1 DEF B!Inspect, B!Stage, BackupTypes, B!Places
<1>11. ASSUME B!Staged PROVE BackupTypes'
  BY <1>1, <1>11 DEF B!Staged, BackupTypes, B!Places
<1>12. ASSUME B!Stop PROVE BackupTypes'
  <2>1. main \in B!Database
    BY <1>1, <1>12 DEF B!Stop, Placed
  <2> QED  BY <1>1, <1>4, <1>12, <2>1 DEF B!Stop, BackupTypes, B!Places
<1>13. ASSUME B!Kill PROVE BackupTypes'
  BY <1>1, <1>2, <1>13 DEF B!Kill, BackupTypes, B!Places
<1>14. ASSUME B!Start PROVE BackupTypes'
  BY <1>1, <1>14 DEF B!Start, BackupTypes, B!Places
<1>15. ASSUME B!MoveAside PROVE BackupTypes'
  BY <1>1, <1>15 DEF B!MoveAside, B!Kept, BackupTypes, B!Places
<1>16. ASSUME B!SwapIn PROVE BackupTypes'
  BY <1>1, <1>16 DEF B!SwapIn, BackupTypes, B!Places
<1>17. ASSUME B!WriteSalt PROVE BackupTypes'
  <2>1. marker \in B!Database /\ marker.manifest # B!NoTable
    BY <1>1, <1>17 DEF B!WriteSalt, BackupTypes, Placed, Manifests
  <2>2. saltFile' \in {B!Ours, B!Theirs}
    BY <1>1, <1>17, <2>1, NoDatabase DEF B!WriteSalt, B!SaltOf, BackupTypes
  <2> QED  BY <1>1, <1>17, <2>2 DEF B!WriteSalt, BackupTypes, B!Places
<1>18. ASSUME B!OpenUp PROVE BackupTypes'
  BY <1>1, <1>18 DEF B!OpenUp, BackupTypes, B!Places
<1> QED  BY <1>3, <1>5, <1>6, <1>7, <1>8, <1>9, <1>10, <1>11, <1>12, <1>13, <1>14, <1>15, <1>16,
            <1>17, <1>18 DEF B!BackupNext

LEMMA BackupKeepsPlace ==
  ASSUME B!BackupAssumption, BackupInv, B!BackupNext
  PROVE  Placed' /\ Manifests' /\ B!NothingLost'
<1>1. BackupTypes /\ Placed /\ Manifests /\ B!NothingLost
  BY DEF BackupInv
<1>2. ASSUME main \in B!Database, main'.has = main.has, main' \in B!Database,
             UNCHANGED <<aside, pending, marker, at, downloads, safe>>
      PROVE  Placed' /\ Manifests' /\ B!NothingLost'
  BY <1>1, <1>2, NoDatabase DEF Placed, Manifests, B!NothingLost
<1>3. ASSUME B!Change PROVE Placed' /\ Manifests' /\ B!NothingLost'
  <2>1. main \in B!Database /\ key \in {B!Ours, B!Theirs, 0}
    BY <1>1, <1>3 DEF B!Change, Placed, BackupTypes
  <2>2. main' \in B!Database /\ main'.has = main.has
    BY <1>3, <2>1 DEF B!Change, B!Database
  <2> QED  BY <1>2, <1>3, <2>1, <2>2 DEF B!Change
<1>4. ASSUME B!Folded, main \in B!Database, UNCHANGED <<aside, pending, marker, downloads>>,
             at' \in {at, "down"}, at = "up"
      PROVE  Placed' /\ Manifests' /\ B!NothingLost'
  <2>1. main' \in B!Database /\ main'.has = main.has \cup log /\ safe' = safe \cup log
    BY <1>1, <1>4 DEF B!Folded, BackupTypes, B!Database
  <2>2. B!NothingLost'
    BY <1>1, <1>4, <2>1 DEF B!NothingLost
  <2> QED  BY <1>1, <1>4, <2>1, <2>2, NoDatabase DEF Placed, Manifests
<1>5. ASSUME B!Checkpoint \/ B!Stop PROVE Placed' /\ Manifests' /\ B!NothingLost'
  <2>1. main \in B!Database /\ at = "up"
    BY <1>1, <1>5 DEF B!Checkpoint, B!Stop, Placed
  <2> QED  BY <1>4, <1>5, <2>1 DEF B!Checkpoint, B!Stop
<1>6. ASSUME B!CopyOut \/ B!CopyDone \/ B!CopyFails \/ B!Expire
             \/ B!Download
      PROVE  Placed' /\ Manifests' /\ B!NothingLost'
  <2>1. main \in B!Database \/ B!Expire
    BY <1>1, <1>6 DEF B!CopyOut, B!CopyDone, B!CopyFails, B!Download, Placed
  <2>2. \A d \in downloads' : d.manifest # B!NoTable
    <3>1. ASSUME B!Download PROVE B!Described(B!Copy).manifest # B!NoTable
      <4>1. main \in B!Database
        BY <1>1, <3>1 DEF B!Download, Placed
      <4>2. saltFile # B!NoTable
        BY <1>1 DEF BackupTypes, B!Ours, B!Theirs, B!NoTable
      <4> QED  BY <1>1, <4>1, <4>2, CopyIs
    <3> QED  BY <1>1, <1>6, <3>1
        DEF B!CopyOut, B!CopyDone, B!CopyFails, B!Expire, B!Download, Manifests
  <2>3. Manifests'
    BY <1>1, <1>6, <2>2
    DEF B!CopyOut, B!CopyDone, B!CopyFails, B!Expire, B!Download, Manifests
  <2>4. Placed'
    BY <1>1, <1>6, <2>1, NoDatabase
    DEF B!CopyOut, B!CopyDone, B!CopyFails, B!Expire, B!Download, Placed
  <2> QED  BY <1>1, <1>6, <2>3, <2>4
      DEF B!CopyOut, B!CopyDone, B!CopyFails, B!Expire, B!Download, B!NothingLost
<1>7. ASSUME NEW f \in B!Uploads, B!Inspect(f) \/ B!Stage(f)
      PROVE  Placed' /\ Manifests' /\ B!NothingLost'
  <2>1. f # B!None /\ (f.manifest # B!NoTable \/ f = B!Junk) /\ main \in B!Database
    BY <1>1, <1>7, NoDatabase DEF B!Uploads, BackupTypes, Manifests, B!Inspect, B!Stage, Placed
  <2> QED  BY <1>1, <1>7, <2>1, NoDatabase DEF B!Inspect, B!Stage, Placed, Manifests, B!NothingLost
<1>8. ASSUME B!Staged \/ B!CancelRestore PROVE Placed' /\ Manifests' /\ B!NothingLost'
  <2>1. main \in B!Database
    BY <1>1, <1>8 DEF B!Staged, B!CancelRestore, Placed
  <2> QED  BY <1>1, <1>8, <2>1, NoDatabase
      DEF B!Staged, B!CancelRestore, Placed, Manifests, B!NothingLost
<1>9. ASSUME B!Kill \/ B!Start \/ B!DropLog \/ B!WriteSalt \/ B!ClearMarker \/ B!OpenUp
      PROVE  Placed' /\ Manifests' /\ B!NothingLost'
  <2>1. Placed'
    BY <1>1, <1>9, NoDatabase
    DEF B!Kill, B!Start, B!DropLog, B!WriteSalt, B!ClearMarker, B!OpenUp, Placed, BackupTypes
  <2> QED  BY <1>1, <1>9, <2>1
      DEF B!Kill, B!Start, B!DropLog, B!WriteSalt, B!ClearMarker, B!OpenUp, Manifests, B!NothingLost
<1>10. ASSUME B!MoveAside PROVE Placed' /\ Manifests' /\ B!NothingLost'
  <2>1. B!NothingLost'
    BY <1>1, <1>10, NoDatabase DEF B!MoveAside, B!Kept, B!NothingLost
  <2> QED  BY <1>1, <1>10, <2>1, NoDatabase DEF B!MoveAside, Placed, Manifests
<1>11. ASSUME B!SwapIn PROVE Placed' /\ Manifests' /\ B!NothingLost'
  <2>1. B!NothingLost'
    BY <1>1, <1>11, NoDatabase DEF B!SwapIn, Placed, B!NothingLost
  <2> QED  BY <1>1, <1>11, <2>1, NoDatabase DEF B!SwapIn, Placed, Manifests
<1> QED  BY <1>3, <1>5, <1>6, <1>7, <1>8, <1>9, <1>10, <1>11 DEF B!BackupNext

LEMMA BackupKeepsShelf ==
  ASSUME B!BackupAssumption, BackupInv, B!BackupNext
  PROVE  OnShelf'
<1>1. BackupTypes /\ Placed /\ OnShelf
  BY DEF BackupInv
<1>2. ASSUME B!CopyOut PROVE OnShelf'
  <2> DEFINE new == [copy |-> B!Copy, whole |-> FALSE]
  <2>1. shelf' = Append(shelf, new) /\ shelf \in Seq(Copies) /\ kept' = kept
    BY <1>1, <1>2 DEF B!CopyOut, BackupTypes
  <2>2. new \in Copies
    BY <1>1, <1>2, CopyIs DEF B!CopyOut, Placed, Copies
  <2> HIDE DEF new
  <2>3. /\ shelf' \in Seq(Copies) /\ Len(shelf') = Len(shelf) + 1
        /\ \A i \in 1..Len(shelf) : shelf'[i] = shelf[i]
    BY <2>1, <2>2, AppendProperties
  <2>4. DOMAIN shelf = 1..Len(shelf) /\ DOMAIN shelf' = 1..Len(shelf') /\ Len(shelf) \in Nat
    BY <2>1, <2>3, LenProperties
  <2>5. B!Range(shelf) \subseteq B!Range(shelf') /\ shelf' # <<>>
    BY <2>3, <2>4, EmptySeq DEF B!Range
  <2> QED  BY <1>1, <2>1, <2>5 DEF OnShelf, B!LatestCopyStays
<1>3. ASSUME B!CopyDone PROVE OnShelf'
  <2>1. shelf \in Seq(Copies) /\ shelf # <<>> /\ main \in B!Database
    BY <1>1, <1>3 DEF BackupTypes, OnShelf, B!CopyDone, Placed
  <2>2. B!Last(shelf) \in Copies
    BY <2>1, EmptySeq, LenProperties, ElementOfSeq DEF B!Last
  <2> DEFINE whole == [copy |-> B!Described(B!Last(shelf).copy), whole |-> TRUE]
  <2>3. whole \in Copies
    BY <1>1, <2>1, <2>2, CopyIs DEF Copies
  <2>4. shelf' = B!Pruned(Append(B!Front(shelf), whole)) /\ kept' = whole /\ at' = "up"
    BY <1>3 DEF B!CopyDone
  <2> HIDE DEF whole
  <2>5. whole \in B!Range(shelf')
    BY <2>1, <2>3, <2>4, ShelfPruned DEF B!BackupAssumption
  <2> QED  BY <2>4, <2>5 DEF OnShelf, B!LatestCopyStays
<1>4. ASSUME UNCHANGED <<shelf, kept>>, at' = "manifest" => at = "manifest" PROVE OnShelf'
  BY <1>1, <1>4 DEF OnShelf, B!LatestCopyStays
<1>5. ASSUME NEW f, B!Inspect(f) \/ B!Stage(f) PROVE OnShelf'
  BY <1>4, <1>5 DEF B!Inspect, B!Stage
<1> QED
  BY <1>2, <1>3, <1>4, <1>5
  DEF B!BackupNext, B!Change, B!Checkpoint, B!CopyFails, B!Download, B!Expire, B!Staged,
      B!CancelRestore, B!Stop, B!Kill, B!Start, B!MoveAside, B!DropLog, B!SwapIn, B!WriteSalt,
      B!ClearMarker, B!OpenUp

LEMMA BackupKeepsSalt ==
  ASSUME B!BackupAssumption, BackupInv, B!BackupNext, Careful
  PROVE  Salted'
<1>1. BackupTypes /\ Placed /\ Manifests /\ Salted
  BY DEF BackupInv
<1>2. ASSUME B!Change PROVE Salted'
  <2>1. main \in B!Database /\ main' = [main EXCEPT !.salt = IF @ = 0 THEN key ELSE @]
    BY <1>1, <1>2 DEF B!Change, Placed
  <2>2. main'.salt = IF main.salt = 0 THEN key ELSE main.salt
    BY <2>1 DEF B!Database
  <2>3. main'.salt \in {0, saltFile} /\ at = "up"
    BY <1>1, <1>2, <2>1, <2>2, NoDatabase DEF B!Change, Salted
  <2>4. main' # B!Junk
    BY <1>1, <2>3, NoDatabase DEF BackupTypes, B!Junk, B!Ours, B!Theirs
  <2> QED  BY <1>1, <1>2, <2>3, <2>4 DEF B!Change, Salted
<1>3. ASSUME B!Folded, main \in B!Database, at = "up", at' \in {"up", "down"},
             at' = "up" => key' = key,
             UNCHANGED <<pending, marker, saltFile, downloads>>
      PROVE  Salted'
  <2>1. main' \in B!Database /\ main'.salt = main.salt
    BY <1>1, <1>3 DEF B!Folded, BackupTypes, B!Database
  <2> QED  BY <1>1, <1>3, <2>1, NoDatabase DEF Salted
<1>4. ASSUME B!Checkpoint \/ B!Stop PROVE Salted'
  <2>1. main \in B!Database
    BY <1>1, <1>4 DEF B!Checkpoint, B!Stop, Placed
  <2> QED  BY <1>3, <1>4, <2>1 DEF B!Checkpoint, B!Stop
<1>5. ASSUME B!CopyOut \/ B!CopyDone \/ B!CopyFails \/ B!Expire PROVE Salted'
  BY <1>1, <1>5 DEF B!CopyOut, B!CopyDone, B!CopyFails, B!Expire, Salted
<1>6. ASSUME B!Download PROVE Salted'
  <2>1. main \in B!Database /\ main # B!None
    BY <1>1, <1>6, NoDatabase DEF B!Download, Placed
  <2>2. Sealed(B!Described(B!Copy))
    BY <1>1, <1>6, <2>1, CopyIs DEF Sealed, Salted, B!Download
  <2> QED  BY <1>1, <1>6, <2>2 DEF B!Download, Salted
<1>7. ASSUME NEW f \in B!Uploads, B!Inspect(f) \/ B!Stage(f) PROVE Salted'
  <2>1. f = B!Junk \/ Sealed(f)
    BY <1>1, NoDatabase DEF B!Uploads, Salted
  <2> QED  BY <1>1, <1>7, <2>1 DEF B!Inspect, B!Stage, Salted
<1>8. ASSUME B!Staged \/ B!CancelRestore PROVE Salted'
  BY <1>1, <1>8, NoDatabase DEF B!Staged, B!CancelRestore, Salted
<1>9. ASSUME B!Kill PROVE Salted'
  <2>1. at # "staging" /\ at # "salt"
    BY <1>9 DEF B!Kill, Careful
  <2> QED  BY <1>1, <1>9, <2>1 DEF B!Kill, Salted
<1>10. ASSUME B!Start \/ B!DropLog \/ B!ClearMarker \/ B!OpenUp PROVE Salted'
  <2>1. ASSUME B!Start PROVE Salted'
    <3>1. at = "down" /\ UNCHANGED <<main, saltFile, downloads, key>>
      BY <2>1 DEF B!Start
    <3>2. CASE pending # B!None /\ marker # B!None
      BY <1>1, <2>1, <3>1, <3>2 DEF B!Start, Salted
    <3>3. CASE ~(pending # B!None /\ marker # B!None)
      <4>1. at' = "key" /\ pending' = B!None /\ marker' = B!None
        BY <2>1, <3>3 DEF B!Start
      <4> QED  BY <1>1, <3>1, <4>1, NoDatabase DEF Salted
    <3> QED  BY <3>2, <3>3
  <2>2. B!DropLog \/ B!ClearMarker => Salted'
    BY <1>1, NoDatabase DEF B!DropLog, B!ClearMarker, Salted, Placed
  <2>3. B!OpenUp => Salted'
    BY <1>1, NoDatabase DEF B!OpenUp, Salted, Placed
  <2> QED  BY <1>10, <2>1, <2>2, <2>3
<1>11. ASSUME B!MoveAside PROVE Salted'
  BY <1>1, <1>11, NoDatabase DEF B!MoveAside, Salted
<1>12. ASSUME B!SwapIn PROVE Salted'
  BY <1>1, <1>12, NoDatabase DEF B!SwapIn, Salted, Placed
<1>13. ASSUME B!WriteSalt PROVE Salted'
  <2>1. main = marker /\ Sealed(marker)
    BY <1>1, <1>13 DEF B!WriteSalt, Salted, Placed
  <2>2. main.salt \in {0, saltFile'}
    BY <1>13, <2>1 DEF B!WriteSalt, B!SaltOf, Sealed
  <2> QED  BY <1>1, <1>13, <2>2 DEF B!WriteSalt, Salted
<1> QED  BY <1>2, <1>4, <1>5, <1>6, <1>7, <1>8, <1>9, <1>10, <1>11, <1>12, <1>13 DEF B!BackupNext

LEMMA BackupStep ==
  ASSUME B!BackupAssumption, BackupInv, [B!BackupNext]_backupVars
  PROVE  BackupInv'
<1>1. ASSUME B!BackupNext PROVE BackupInv'
  BY <1>1, BackupKeepsTypes, BackupKeepsPlace, BackupKeepsShelf, BackupKeepsSalt DEF BackupInv, Careful
<1>2. CASE UNCHANGED backupVars
  <2>1. BackupTypes' /\ Manifests' /\ Placed'
    BY <1>2 DEF backupVars, BackupInv, BackupTypes, Manifests, Placed
  <2>2. B!NothingLost' /\ (Careful => Salted)' /\ OnShelf'
    BY <1>2 DEF backupVars, BackupInv, B!NothingLost, Careful, Salted, OnShelf, B!LatestCopyStays
  <2> QED  BY <2>1, <2>2 DEF BackupInv
<1> QED  BY <1>1, <1>2

LEMMA BackupShows ==
  ASSUME BackupInv
  PROVE  /\ B!NothingLost /\ B!LatestCopyStays /\ (Careful => B!SecretsReadable)
BY NoDatabase DEF BackupInv, OnShelf, Salted, Placed, BackupTypes, B!SecretsReadable
-----------------------------------------------------------------------------
(* The watch *)

\* While a pass goes on: each event ahead is on its list, or has been told of.
Passing == check.pc \in {"next", "device", "account"}

WatchInv ==
  /\ alarms \in [W!Runs -> Nat]
  /\ faults \in [Ahead -> SUBSET W!Faults] /\ lasting \in [Ahead -> SUBSET W!Faults]
  /\ \A o \in Ahead : lasting[o] \subseteq faults[o]
  /\ DOMAIN standing = Ahead /\ DOMAIN spoken = Ahead
  /\ check.pc \in {"idle", "next", "device", "account", "sample"} /\ check.left \subseteq Ahead
  /\ check = [pc |-> check.pc, left |-> check.left, at |-> check.at, found |-> check.found]
  /\ Passing => \A o \in W!Upcoming \ check.left : lasting[o] \subseteq UNION spoken[o]
  /\ check.pc \in {"device", "account"} =>
       check.at \in Ahead /\ lasting[check.at] \cap {"event"} \subseteq check.found
  /\ check.pc = "account" => lasting[check.at] \cap {"device"} \subseteq check.found

LEMMA WatchHolds == W!WatchInit => WatchInv
BY DEF W!WatchInit, WatchInv, Passing, W!Resting, W!Faults

\* Events ahead only get fewer while no hour passes, and what lasts of their faults gets less.
LEMMA WatchGoesOn ==
  ASSUME WatchInv, UNCHANGED <<hour, check>>,
         alarms' \in [W!Runs -> Nat],
         faults' \in [Ahead -> SUBSET W!Faults] /\ lasting' \in [Ahead -> SUBSET W!Faults],
         DOMAIN standing' = Ahead /\ DOMAIN spoken' = Ahead,
         \A o \in Ahead : /\ lasting'[o] \subseteq faults'[o] /\ lasting'[o] \subseteq lasting[o]
                          /\ standing'[o] = "pending" => standing[o] = "pending"
                          /\ spoken[o] \subseteq spoken'[o]
  PROVE  WatchInv'
<1>1. W!Upcoming' \subseteq W!Upcoming
  BY DEF W!Upcoming
<1>2. (Passing => \A o \in W!Upcoming \ check.left : lasting[o] \subseteq UNION spoken[o])'
  <2> SUFFICES ASSUME Passing, NEW o \in W!Upcoming' \ check.left
               PROVE  lasting'[o] \subseteq UNION spoken'[o]
    BY DEF Passing
  <2>1. lasting[o] \subseteq UNION spoken[o] /\ o \in Ahead
    BY <1>1 DEF WatchInv, W!Upcoming
  <2> QED  BY <2>1
<1> QED  BY <1>2 DEF WatchInv

LEMMA WatchStep == ASSUME W!WatchAssumption, WatchInv, [W!WatchNext]_watchVars PROVE WatchInv'
<1>1. ASSUME NEW o \in Ahead, NEW f \in W!Faults, W!Fault(o, f) \/ W!Repair(o, f) PROVE WatchInv'
  <2>1. /\ faults' \in [Ahead -> SUBSET W!Faults] /\ lasting' \in [Ahead -> SUBSET W!Faults]
        /\ \A u \in Ahead : lasting'[u] \subseteq faults'[u] /\ lasting'[u] \subseteq lasting[u]
    BY <1>1 DEF W!Fault, W!Repair, WatchInv
  <2> QED  BY <1>1, <2>1, WatchGoesOn DEF W!Fault, W!Repair, WatchInv
<1>2. ASSUME NEW o \in Ahead, NEW how \in {"skipped", "gone"}, W!SkipOrDelete(o, how)
      PROVE  WatchInv'
  <2>1. DOMAIN standing' = Ahead
        /\ \A u \in Ahead : standing'[u] = "pending" => standing[u] = "pending"
    BY <1>2 DEF W!SkipOrDelete, WatchInv
  <2> QED  BY <1>2, <2>1, WatchGoesOn DEF W!SkipOrDelete, WatchInv
<1>3. ASSUME \/ \E r \in W!Runs, active \in BOOLEAN : W!Service(r, active)
             \/ \E p \in Percents \cup {0} : W!CacheMoves(p) \/ W!SetThreshold(p)
             \/ UNCHANGED watchVars
      PROVE  WatchInv'
  <2>1. UNCHANGED <<hour, check, alarms, faults, lasting, standing, spoken>>
    BY <1>3 DEF W!Service, W!CacheMoves, W!SetThreshold, watchVars
  <2> QED  BY <2>1, WatchGoesOn DEF WatchInv
<1>4. ASSUME W!Restart \/ W!NextHour PROVE WatchInv'
  BY <1>4 DEF W!Restart, W!NextHour, W!Resting, WatchInv, Passing
<1>5. ASSUME W!Tick PROVE WatchInv'
  <2>1. W!Upcoming' = W!Upcoming /\ W!Upcoming \subseteq Ahead
    BY <1>5 DEF W!Tick, W!Upcoming
  <2>2. /\ check'.pc \in {"next", "sample"} /\ check'.left \subseteq Ahead
        /\ check'.pc = "next" => check'.left = W!Upcoming
        /\ check' = [pc |-> check'.pc, left |-> check'.left, at |-> check'.at, found |-> check'.found]
    BY <1>5, <2>1 DEF W!Tick, W!Resting
  <2>3. lasting' \in {lasting, faults} /\ UNCHANGED <<alarms, faults, standing, spoken>>
    BY <1>5 DEF W!Tick
  <2>4. /\ lasting' \in [Ahead -> SUBSET W!Faults] /\ faults' = faults
        /\ \A o \in Ahead : lasting'[o] \subseteq faults'[o]
    BY <2>3 DEF WatchInv
  <2>5. Passing' => check'.pc = "next" /\ W!Upcoming' \ check'.left = {}
    BY <2>1, <2>2 DEF Passing
  <2>6. check'.pc \notin {"device", "account"}
    BY <2>2
  <2>7. (Passing => \A o \in W!Upcoming \ check.left : lasting[o] \subseteq UNION spoken[o])'
    BY <2>5
  <2>8. /\ alarms' \in [W!Runs -> Nat] /\ DOMAIN standing' = Ahead /\ DOMAIN spoken' = Ahead
        /\ faults' \in [Ahead -> SUBSET W!Faults]
    BY <2>3 DEF WatchInv
  <2> QED  BY <2>2, <2>4, <2>6, <2>7, <2>8 DEF WatchInv
<1>6. ASSUME W!Look PROVE WatchInv'
  <2>1. UNCHANGED <<hour, standing, faults, lasting, spoken, alarms>> /\ check.pc = "next"
        /\ W!Upcoming' = W!Upcoming
    BY <1>6 DEF W!Look, W!Upcoming
  <2>2. CASE check' = [W!Resting EXCEPT !.pc = "sample"]
    <3>1. check' = [pc |-> "sample", left |-> {}, at |-> 0, found |-> {}]
      BY <2>2 DEF W!Resting
    <3> QED  BY <2>1, <3>1 DEF WatchInv, Passing
  <2>3. CASE check.left # {}
    <3>1. PICK o \in Ahead : o = W!Soonest(check.left)
      <4>1. check.left \in SUBSET Nat /\ check.left \subseteq Ahead
        BY DEF WatchInv, W!WatchAssumption
      <4>2. \E x \in check.left : \A y \in check.left : x <= y
        BY <2>3, <4>1, LeastOf
      <4> QED  BY <4>1, <4>2 DEF W!Soonest
    <3>2. CASE check' = [pc |-> "device", left |-> check.left, at |-> o,
                         found |-> faults[o] \cap {"event"}]
      BY <2>1, <3>1, <3>2 DEF WatchInv, Passing
    <3>3. CASE check' = W!Resting
      BY <2>1, <3>3 DEF WatchInv, Passing, W!Resting
    <3> QED  BY <1>6, <2>3, <3>1, <3>2, <3>3 DEF W!Look
  <2> QED  BY <1>6, <2>2, <2>3 DEF W!Look, W!Resting
<1>7. ASSUME W!DeviceAnswers PROVE WatchInv'
  <2>1. UNCHANGED <<hour, standing, faults, lasting, spoken, alarms>> /\ check.pc = "device"
        /\ W!Upcoming' = W!Upcoming
    BY <1>7 DEF W!DeviceAnswers, W!Upcoming
  <2>2. /\ check'.pc = "account" /\ check'.left = check.left /\ check'.at = check.at
        /\ check'.found = check.found \cup (faults[check.at] \cap {"device"})
    <3>1. PICK l, a, f : check = [pc |-> "device", left |-> l, at |-> a, found |-> f]
      BY <2>1 DEF WatchInv
    <3>2. check' = [pc |-> "account", left |-> l, at |-> a, found |-> f \cup (faults[a] \cap {"device"})]
      BY <1>7, <3>1 DEF W!DeviceAnswers
    <3> QED  BY <3>1, <3>2
  <2>3. check' = [pc |-> check'.pc, left |-> check'.left, at |-> check'.at, found |-> check'.found]
    <3>1. PICK l, a, f : check = [pc |-> "device", left |-> l, at |-> a, found |-> f]
      BY <2>1 DEF WatchInv
    <3>2. check' = [pc |-> "account", left |-> l, at |-> a, found |-> f \cup (faults[a] \cap {"device"})]
      BY <1>7, <3>1 DEF W!DeviceAnswers
    <3> QED  BY <3>2
  <2> QED  BY <2>1, <2>2, <2>3 DEF WatchInv, Passing
<1>8. ASSUME W!AccountAnswers PROVE WatchInv'
  <2>1. UNCHANGED <<hour, standing, faults, lasting, alarms>> /\ check.pc = "account"
        /\ W!Upcoming' = W!Upcoming
    BY <1>8 DEF W!AccountAnswers, W!Upcoming
  <2>2. PICK o \in Ahead : o = check.at
    BY <2>1 DEF WatchInv
  <2>3. PICK found : /\ check.found \cup (faults[o] \cap {"account"}) \subseteq found
                     /\ spoken' = IF found = {} THEN spoken
                                  ELSE [spoken EXCEPT ![o] = W!Queued(o, found)]
                     /\ check' = [W!Resting EXCEPT !.pc = "next", !.left = check.left \ {o}]
    BY <1>8, <2>2 DEF W!AccountAnswers
  <2>4. lasting[o] \subseteq found
    BY <2>1, <2>2, <2>3 DEF WatchInv, W!Faults
  <2>5. /\ DOMAIN spoken' = Ahead
        /\ found # {} => found \in spoken'[o]
        /\ \A u \in Ahead : spoken[u] \subseteq spoken'[u]
    BY <2>2, <2>3 DEF WatchInv, W!Queued
  <2>6. lasting[o] \subseteq UNION spoken'[o]
    <3>1. CASE found = {}
      BY <2>4, <3>1
    <3>2. CASE found # {}
      <4>1. \A f \in lasting[o] : f \in found /\ found \in spoken'[o]
        BY <2>4, <2>5, <3>2
      <4> QED  BY <4>1
    <3> QED  BY <3>1, <3>2
  <2>7. /\ check'.pc = "next" /\ check'.left = check.left \ {o}
        /\ check' = [pc |-> check'.pc, left |-> check'.left, at |-> check'.at, found |-> check'.found]
    BY <2>3 DEF W!Resting
  <2>8. \A u \in W!Upcoming \ check'.left : lasting[u] \subseteq UNION spoken'[u]
    <3> SUFFICES ASSUME NEW u \in W!Upcoming \ check'.left
                 PROVE  lasting[u] \subseteq UNION spoken'[u]
      OBVIOUS
    <3>1. CASE u = o
      BY <2>6, <3>1
    <3>2. CASE u # o
      <4>1. u \in W!Upcoming \ check.left /\ u \in Ahead
        BY <2>7, <3>2 DEF W!Upcoming
      <4>2. lasting[u] \subseteq UNION spoken[u] /\ spoken[u] \subseteq spoken'[u]
        BY <2>1, <2>5, <4>1 DEF WatchInv, Passing
      <4> QED  BY <4>2
    <3> QED  BY <3>1, <3>2
  <2> QED  BY <2>1, <2>5, <2>7, <2>8 DEF WatchInv, Passing
<1>9. ASSUME W!Sample PROVE WatchInv'
  <2>1. alarms' \in [W!Runs -> Nat]
    BY <1>9 DEF W!Sample, W!CacheHighQueued, WatchInv
  <2> QED  BY <1>9, <2>1 DEF W!Sample, W!Resting, WatchInv, Passing
<1> QED
  BY <1>1, <1>2, <1>3, <1>4, <1>5, <1>6, <1>7, <1>8, <1>9 DEF W!WatchNext

LEMMA WatchTells ==
  ASSUME WatchInv, [W!WatchNext]_watchVars
  PROVE  /\ check.pc = "next" /\ check'.pc = "sample" =>
              \A o \in W!Upcoming : lasting[o] \subseteq UNION spoken[o]
         /\ \A r \in W!Runs : alarms'[r] > alarms[r] => streaming /\ r \in onAir
<1>1. ASSUME check.pc = "next", check'.pc = "sample" PROVE check.left = {}
  BY <1>1 DEF W!WatchNext, watchVars, W!Fault, W!Repair, W!SkipOrDelete, W!Service, W!CacheMoves,
     W!SetThreshold, W!Restart, W!NextHour, W!Tick, W!Look, W!DeviceAnswers, W!AccountAnswers,
     W!Sample, W!Resting
<1>2. ASSUME NEW r \in W!Runs, alarms'[r] > alarms[r] PROVE streaming /\ r \in onAir
  <2>1. alarms[r] \in Nat
    BY DEF WatchInv
  <2>2. alarms'[r] # alarms[r]
    BY <1>2, <2>1
  <2>3. W!Sample
    BY <2>2 DEF W!WatchNext, watchVars, W!Fault, W!Repair, W!SkipOrDelete, W!Service, W!CacheMoves,
       W!SetThreshold, W!Restart, W!NextHour, W!Tick, W!Look, W!DeviceAnswers, W!AccountAnswers
  <2> QED  BY <2>2, <2>3 DEF W!Sample, W!CacheHighQueued, W!Alarming
<1> QED  BY <1>1, <1>2 DEF WatchInv, Passing
-----------------------------------------------------------------------------
(* The reckoning *)

\* What a question is answered with.
Answer(q) ==
  CASE q.ask = "clash" -> R!ClashesOver(q.first, q.second, q.shares)
    [] q.ask = "zone" -> R!ZonedWallTimeToUtc(q.wall, q.zone)
    [] q.ask = "dates" -> R!ExpandOccurrences(q)
    [] OTHER -> R!RenderTemplateOrThrow(R!EffectiveTemplate(q.event, q.output), q.ctx)

ReckonInv ==
  \/ answer = <<>> /\ (part = "reckoning" => question \in R!Questions)
  \/ answer = <<Answer(question)>> /\ question \in R!Questions

LEMMA StepOfReckoning ==
  ASSUME [RecordsNext]_recordsVars
  PROVE  part' = part /\ ((part = "reckoning" /\ R!Reckon) \/ UNCHANGED reckoningVars)
BY Zenon DEF RecordsNext, Still, recordsVars, R!ReckonNext

LEMMA ReckonHolds == RecordsInit => ReckonInv
BY DEF RecordsInit, R!ReckonInit, ReckonInv

LEMMA KindsOfQuestion ==
  ASSUME NEW q \in R!Questions
  PROVE  /\ q.ask \in {"clash", "dates", "zone", "name"}
         /\ q.ask = "clash" => \E f \in 0..2 :
              q.first \in R!Planned(0, 2) /\ q.second \in R!Planned(f, 2) /\ q.shares \in BOOLEAN
         /\ q.ask = "zone" => q.wall \in 0..LastWall /\ q.zone \in R!Zones
         /\ q.ask = "name" =>
              /\ q.event \in {<<"event.name">>, <<"plan.title">>}
              /\ q.output \in {<<>>} \cup [1..2 -> R!Pieces]
              /\ q.ctx \in [plan : {"none", "untitled", "titled"}, encoder : BOOLEAN]
<1>1. CASE q \in R!ClashQuestions
  <2>1. PICK f \in 0..2 : q \in [ask : {"clash"}, first : R!Planned(0, 2), second : R!Planned(f, 2),
                                 shares : BOOLEAN]
    BY <1>1 DEF R!ClashQuestions
  <2> QED  BY <2>1
<1>2. CASE q \in R!DateQuestions
  BY <1>2 DEF R!DateQuestions
<1>3. CASE q \in [ask : {"zone"}, wall : 0..LastWall, zone : R!Zones]
  BY <1>3
<1>4. CASE q \in [ask : {"name"}, event : {<<"event.name">>, <<"plan.title">>},
                  output : {<<>>} \cup [1..2 -> R!Pieces],
                  ctx : [plan : {"none", "untitled", "titled"}, encoder : BOOLEAN]]
  BY <1>4
<1> QED  BY <1>1, <1>2, <1>3, <1>4 DEF R!Questions

LEMMA ReckonStep == ASSUME ReckonInv, [RecordsNext]_recordsVars PROVE ReckonInv'
<1>1. CASE UNCHANGED reckoningVars
  BY <1>1, StepOfReckoning DEF reckoningVars, ReckonInv
<1>2. CASE part = "reckoning" /\ R!Reckon
  <2>1. question' = question /\ question \in R!Questions /\ answer' = <<Answer(question)>>
    <3>1. answer = <<>> /\ question' = question
      BY <1>2 DEF R!Reckon
    <3>2. question \in R!Questions
      BY <1>2, <3>1 DEF ReckonInv
    <3>3. answer' = <<Answer(question)>>
      BY <1>2, <3>2, KindsOfQuestion DEF R!Reckon, Answer
    <3> QED  BY <3>1, <3>2, <3>3
  <2>2. Answer(question)' = Answer(question)
    BY <2>1 DEF Answer
  <2> QED  BY <2>1, <2>2 DEF ReckonInv
<1> QED  BY <1>1, <1>2, StepOfReckoning

\* When a question was answered, this is the answer.
LEMMA Answers ==
  ASSUME ReckonInv, NEW kind, R!Answered(kind)
  PROVE  question \in R!Questions /\ question.ask = kind /\ answer[1] = Answer(question)
<1>1. answer = <<Answer(question)>> /\ question \in R!Questions
  BY DEF ReckonInv, R!Answered
<1>2. \A x : <<x>>[1] = x
  OBVIOUS
<1> QED  BY <1>1, <1>2 DEF R!Answered

-----------------------------------------------------------------------------
\* Of two outputs of two hours each, of which one begins with the other or up to two hours later.
LEMMA Meeting ==
  ASSUME NEW a \in R!Planned(0, 2), NEW f \in 0..2, NEW b \in R!Planned(f, 2)
  PROVE  R!Meet(a, b) <=> {t \in 0..4 : a.from <= t /\ t < a.from + a.len}
                            \cap {t \in 0..4 : b.from <= t /\ t < b.from + b.len} # {}
<1>1. a.from = 0 /\ a.len = 2 /\ b.from = f /\ b.len = 2
  BY DEF R!Planned
<1>2. R!Meet(a, b) <=> f < 2
  BY <1>1 DEF R!Meet, R!To, R!From
<1>3. f < 2 => f \in {t \in 0..4 : a.from <= t /\ t < a.from + a.len}
                 /\ f \in {t \in 0..4 : b.from <= t /\ t < b.from + b.len}
  BY <1>1
<1>4. ASSUME NEW t \in 0..4, a.from <= t, t < a.from + a.len, b.from <= t, t < b.from + b.len
      PROVE  f < 2
  BY <1>1, <1>4
<1> QED  BY <1>2, <1>3, <1>4

LEMMA Clashing ==
  ASSUME NEW a, NEW b, NEW shares, a.enabled = TRUE, b.enabled = TRUE,
         NEW clashes, clashes = R!ClashesOver(a, b, shares)
  PROVE  /\ clashes # {} => R!Meet(a, b)
         /\ "device" \in clashes <=>
              R!Meet(a, b) /\ R!SamePlace(a, b) /\ a.kind = b.kind
         /\ "setting" \in clashes <=>
              /\ R!Meet(a, b) /\ a.place # <<>> /\ b.place # <<>> /\ a.place[1] = b.place[1]
              /\ "none" \notin {a.quality, b.quality} /\ a.quality # b.quality
         /\ "destination" \in clashes <=>
              /\ R!Meet(a, b) /\ a.dest # "none" /\ a.dest = b.dest /\ shares
              /\ ~R!SamePlace(a, b)
<1>1. ASSUME ~R!Meet(a, b) PROVE clashes = {}
  BY <1>1 DEF R!ClashesOver
<1>2. ASSUME R!Meet(a, b)
      PROVE  /\ "device" \in clashes <=> R!SamePlace(a, b) /\ a.kind = b.kind
             /\ "setting" \in clashes <=>
                  /\ a.place # <<>> /\ b.place # <<>> /\ a.place[1] = b.place[1]
                  /\ "none" \notin {a.quality, b.quality} /\ a.quality # b.quality
             /\ "destination" \in clashes <=>
                  /\ a.dest # "none" /\ a.dest = b.dest /\ shares /\ ~R!SamePlace(a, b)
  <2> DEFINE Holds(k) ==
        CASE k = "device" -> R!SamePlace(a, b) /\ a.kind = b.kind
          [] k = "setting" ->
               /\ a.place # <<>> /\ b.place # <<>> /\ a.place[1] = b.place[1]
               /\ "none" \notin {a.quality, b.quality} /\ a.quality # b.quality
          [] k = "destination" ->
               a.dest # "none" /\ a.dest = b.dest /\ shares /\ ~R!SamePlace(a, b)
  <2>1. clashes = {k \in {"device", "setting", "destination"} : Holds(k)}
    BY <1>2 DEF R!ClashesOver
  <2>2. /\ Holds("device") <=> R!SamePlace(a, b) /\ a.kind = b.kind
        /\ Holds("setting") <=>
             /\ a.place # <<>> /\ b.place # <<>> /\ a.place[1] = b.place[1]
             /\ "none" \notin {a.quality, b.quality} /\ a.quality # b.quality
        /\ Holds("destination") <=>
             /\ a.dest # "none" /\ a.dest = b.dest /\ shares /\ ~R!SamePlace(a, b)
    OBVIOUS
  <2> HIDE DEF Holds
  <2>3. \A k \in {"device", "setting", "destination"} : k \in clashes <=> Holds(k)
    BY <2>1
  <2>4. /\ "device" \in clashes <=> Holds("device")
        /\ "setting" \in clashes <=> Holds("setting")
        /\ "destination" \in clashes <=> Holds("destination")
    BY <2>3
  <2> QED  BY Zenon, <2>2, <2>4
<1>3. CASE R!Meet(a, b)
  BY Zenon, <1>2, <1>3
<1>4. CASE ~R!Meet(a, b)
  BY Zenon, <1>1, <1>4
<1> QED  BY <1>3, <1>4

LEMMA ClashesTold == ASSUME ReckonInv PROVE R!ClashesAreTold
<1> SUFFICES ASSUME R!Answered("clash") PROVE R!ClashesAreTold
  BY DEF R!ClashesAreTold
<1>1. PICK a, b, shares, clashes :
        /\ a = question.first /\ b = question.second /\ shares = question.shares
        /\ clashes = answer[1]
  OBVIOUS
<1>2. clashes = R!ClashesOver(a, b, shares) /\ question.ask = "clash" /\ question \in R!Questions
  BY <1>1, Answers DEF Answer
<1>3. PICK f \in 0..2 : a \in R!Planned(0, 2) /\ b \in R!Planned(f, 2) /\ shares \in BOOLEAN
  BY <1>1, <1>2, KindsOfQuestion
<1>4. /\ a.enabled = TRUE /\ b.enabled = TRUE
      /\ {a.quality, b.quality} \subseteq {"none", "low", "high"}
      /\ {a.dest, b.dest} \subseteq {"none", "k1"}
  BY <1>3 DEF R!Planned
<1>5. ASSUME NEW p \in R!Places, p # <<>> PROVE Head(p) = p[1]
  BY <1>5 DEF R!Places
<1>6. a.place \in R!Places /\ b.place \in R!Places
  BY <1>3 DEF R!Planned
<1> DEFINE Busy(o) == {t \in 0..4 : o.from <= t /\ t < o.from + o.len}
           together == Busy(a) \cap Busy(b) # {}
<1>7. together <=> R!Meet(a, b)
  BY <1>3, Meeting
<1> HIDE DEF together
<1>9. /\ clashes # {} => R!Meet(a, b)
      /\ "device" \in clashes <=> R!Meet(a, b) /\ R!SamePlace(a, b) /\ a.kind = b.kind
      /\ "setting" \in clashes <=>
           /\ R!Meet(a, b) /\ a.place # <<>> /\ b.place # <<>> /\ a.place[1] = b.place[1]
           /\ "none" \notin {a.quality, b.quality} /\ a.quality # b.quality
      /\ "destination" \in clashes <=>
           /\ R!Meet(a, b) /\ a.dest # "none" /\ a.dest = b.dest /\ shares
           /\ ~R!SamePlace(a, b)
  BY <1>2, <1>4, Clashing
<1>10. a.dest = "k1" /\ b.dest = "k1" <=> a.dest # "none" /\ a.dest = b.dest
  BY <1>4
<1>11. {a.quality, b.quality} = {"low", "high"} <=>
         "none" \notin {a.quality, b.quality} /\ a.quality # b.quality
  BY <1>4
<1>12. a.place # <<>> /\ b.place # <<>> =>
         Head(a.place) = a.place[1] /\ Head(b.place) = b.place[1]
  BY <1>5, <1>6
<1>13. clashes # {} => together
  BY Zenon, <1>7, <1>9
<1>14. (together /\ (a.place # <<>> /\ a.place = b.place) /\ a.kind = b.kind)
         <=> "device" \in clashes
  BY Zenon, <1>7, <1>9 DEF R!SamePlace
<1>15. (together /\ ~(a.place # <<>> /\ a.place = b.place) /\ a.dest = "k1" /\ b.dest = "k1"
          /\ shares) <=> "destination" \in clashes
  BY Zenon, <1>7, <1>9, <1>10 DEF R!SamePlace
<1>16. (together /\ {a.quality, b.quality} = {"low", "high"} /\ a.place # <<>> /\ b.place # <<>>
          /\ Head(a.place) = Head(b.place)) <=> "setting" \in clashes
  BY Zenon, <1>7, <1>9, <1>11, <1>12
<1> QED  BY Zenon, <1>1, <1>13, <1>14, <1>15, <1>16 DEF R!ClashesAreTold, together

-----------------------------------------------------------------------------
LEMMA NamesFilledIn == ASSUME ReckonInv PROVE R!NamesAreFilledIn
<1> SUFFICES ASSUME R!Answered("name") PROVE R!NamesAreFilledIn
  BY DEF R!NamesAreFilledIn
<1> DEFINE wanted == IF question.output = <<>> THEN question.event ELSE question.output
           ctx == question.ctx
           Hole(p) == p \notin {"text", "event.name"}
                        /\ (p = "plan.title" => ctx.plan # "titled")
                        /\ (p = "encoder.label" => ~ctx.encoder)
<1>1. question \in R!Questions /\ question.ask = "name"
      /\ answer[1] = R!RenderTemplateOrThrow(wanted, ctx)
  BY Answers DEF Answer, R!EffectiveTemplate
<1>2. /\ wanted \in {<<"event.name">>, <<"plan.title">>} \cup [1..2 -> R!Pieces]
      /\ ctx \in [plan : {"none", "untitled", "titled"}, encoder : BOOLEAN]
  BY <1>1, KindsOfQuestion
<1>3. /\ wanted = [i \in DOMAIN wanted |-> wanted[i]]
      /\ \A i \in DOMAIN wanted : wanted[i] \in R!Pieces
  <2>1. ASSUME wanted \in [1..2 -> R!Pieces]
        PROVE  /\ wanted = [i \in DOMAIN wanted |-> wanted[i]]
               /\ \A i \in DOMAIN wanted : wanted[i] \in R!Pieces
    BY <2>1
  <2>2. ASSUME NEW p \in {"event.name", "plan.title"}, wanted = <<p>>
        PROVE  /\ wanted = [i \in DOMAIN wanted |-> wanted[i]]
               /\ \A i \in DOMAIN wanted : wanted[i] \in R!Pieces
    <3>1. DOMAIN <<p>> = 1..1 /\ <<p>>[1] = p /\ <<p>> = [i \in 1..1 |-> p]
      OBVIOUS
    <3>2. p \in R!Pieces
      BY DEF R!Pieces
    <3> HIDE DEF wanted
    <3>3. wanted = [i \in 1..1 |-> p]
      BY <2>2, <3>1
    <3> QED  BY <3>2, <3>3
  <2> QED  BY <1>2, <2>1, <2>2
<1>4. PICK w : w = wanted
  OBVIOUS
<1>5. PICK c \in [plan : {"none", "untitled", "titled"}, encoder : BOOLEAN] : c = ctx
  BY <1>2
<1>6. ASSUME NEW p \in R!Pieces
      PROVE  R!Resolve(p, c) = IF Hole(p) THEN "issue" ELSE p
  BY <1>5 DEF R!Resolve, R!Pieces
<1>7. "issue" \notin R!Pieces
  BY DEF R!Pieces
<1> DEFINE holes == {w[i] : i \in DOMAIN w} \ {"text", "event.name"}
           missing == (holes \ {"plan.title", "encoder.label"})
                        \cup (IF ctx.plan = "titled" THEN {} ELSE holes \cap {"plan.title"})
                        \cup (IF ctx.encoder THEN {} ELSE holes \cap {"encoder.label"})
           text == [i \in DOMAIN w |-> R!Resolve(w[i], c)]
<1>8. missing # {} <=> \E i \in DOMAIN w : Hole(w[i])
  <2>1. missing = {p \in {w[i] : i \in DOMAIN w} : Hole(p)}
    BY <1>2
  <2> HIDE DEF missing, Hole
  <2> QED  BY <2>1
<1>9. \A i \in DOMAIN w : text[i] = IF Hole(w[i]) THEN "issue" ELSE w[i]
  BY <1>3, <1>4, <1>6
<1>10. "issue" \in {text[i] : i \in DOMAIN w} <=> \E i \in DOMAIN w : Hole(w[i])
  <2> HIDE DEF text, Hole
  <2> QED  BY <1>3, <1>4, <1>7, <1>9
<1>11. answer[1] = IF "issue" \in {text[i] : i \in DOMAIN w} THEN "throws" ELSE text
  BY <1>1, <1>4, <1>5 DEF R!RenderTemplateOrThrow
<1>12. ~(\E i \in DOMAIN w : Hole(w[i])) => text = w
  <2> HIDE DEF Hole
  <2> QED  BY <1>3, <1>4, <1>9
<1>13. answer[1] = IF missing # {} THEN "throws" ELSE w
  <2> HIDE DEF missing, text, Hole
  <2> QED  BY <1>8, <1>10, <1>11, <1>12
<1> QED  BY <1>4, <1>13 DEF R!NamesAreFilledIn

\* Of one or two numbers.
LEMMA LeastAndGreatest ==
  ASSUME NEW x \in Int, NEW y \in Int, x <= y
  PROVE  R!Min({x, y}) = x /\ R!Max({x, y}) = y
BY DEF R!Min, R!Max

LEMMA WallTimeKept == ASSUME R!ReckoningAssumption, ReckonInv PROVE R!WallTimeIsKept
<1> SUFFICES ASSUME R!Answered("zone") PROVE R!WallTimeIsKept
  BY DEF R!WallTimeIsKept
<1>1. PICK z, w, reply : z = question.zone /\ w = question.wall /\ reply = answer[1]
  OBVIOUS
<1>2. w \in 0..LastWall /\ z \in R!Zones /\ reply = R!ZonedWallTimeToUtc(w, z)
  BY <1>1, Answers, KindsOfQuestion DEF Answer
<1>3. PICK c, b, a : /\ c \in 0..LastWall /\ b \in Shifts /\ a \in Shifts
                     /\ z.changes = c /\ z.before = b /\ z.after = a
  BY <1>2 DEF R!Zones
<1>4. /\ DayLength \in Nat \ {0} /\ LastWall \in Nat /\ w \in Nat /\ w <= LastWall /\ c \in Nat
      /\ a \in Nat /\ b \in Nat /\ a < DayLength /\ b < DayLength
  BY <1>2, <1>3 DEF R!ReckoningAssumption
<1>5. PICK early, late : /\ early = IF w - DayLength < c THEN w - b ELSE w - a
                         /\ late = IF w + DayLength < c THEN w - b ELSE w - a
  OBVIOUS
<1> DEFINE Shows(i) == IF i < z.changes THEN i + z.before ELSE i + z.after
           instants == {i \in -DayLength..(LastWall + DayLength) : Shows(i) = w}
           valid == {i \in {early, late} : Shows(i) = w}
<1>6. early \in Int /\ late \in Int
  BY <1>4, <1>5
<1>7. reply = CASE R!Cardinality(valid) = 1 -> [instant |-> R!Min(valid), resolution |-> "exact"]
              [] R!Cardinality(valid) > 1 -> [instant |-> R!Min(valid), resolution |-> "ambiguous"]
              [] OTHER -> [instant |-> R!Max({early, late}), resolution |-> "skipped"]
  <2>1. {w - R!ZoneOffsetAt(z, p) : p \in R!Probes(w)} = {early, late}
    <3>1. w - R!ZoneOffsetAt(z, w - DayLength) = early /\ w - R!ZoneOffsetAt(z, w + DayLength) = late
      BY <1>3, <1>5 DEF R!ZoneOffsetAt
    <3> QED  BY <3>1 DEF R!Probes
  <2>2. valid = {i \in {early, late} : R!WallTimeAt(z, i) = w}
    BY DEF R!WallTimeAt, R!ZoneOffsetAt
  <2> HIDE DEF valid
  <2> QED  BY <1>2, <2>1, <2>2 DEF R!ZonedWallTimeToUtc
<1>8. valid = instants
  <2>1. ASSUME NEW i \in {early, late}, Shows(i) = w PROVE i \in -DayLength..(LastWall + DayLength)
    BY <1>3, <1>4, <1>5, <1>6, <2>1
  <2>2. ASSUME NEW i \in -DayLength..(LastWall + DayLength), Shows(i) = w PROVE i \in {early, late}
    <3>1. CASE i < c
      BY <1>3, <1>4, <1>5, <2>2, <3>1
    <3>2. CASE ~(i < c)
      BY <1>3, <1>4, <1>5, <2>2, <3>2
    <3> QED  BY <3>1, <3>2
  <2> HIDE DEF Shows
  <2> QED  BY <2>1, <2>2
<1>9. /\ Cardinality(instants) = 0 <=> instants = {}
      /\ Cardinality(instants) \in Nat
      /\ instants \subseteq {early, late}
  <2>1. IsFiniteSet({early, late})
    <3>1. {early, late} = {early} \cup {late}
      OBVIOUS
    <3>2. IsFiniteSet({early}) /\ IsFiniteSet({early} \cup {late})
      BY FS_Singleton, FS_AddElement
    <3> QED  BY <3>1, <3>2
  <2>2. instants \subseteq {early, late}
    BY <1>8
  <2> HIDE DEF instants
  <2> QED  BY <2>1, <2>2, FS_Subset, FS_CardinalityType, FS_EmptySet
<1>10. R!Cardinality(instants) = Cardinality(instants)
  BY DEF R!Cardinality, Cardinality, R!IsFiniteSet, IsFiniteSet
<1>11. ASSUME instants # {}
       PROVE  R!Min(instants) \in instants /\ \A i \in instants : R!Min(instants) <= i
  <2>1. \E i \in instants : \A j \in instants : i <= j
    <3>1. instants \subseteq {early, late}
      BY <1>9
    <3> HIDE DEF instants
    <3>3. early \in instants \/ late \in instants
      BY <1>11, <3>1
    <3>4. \A j \in instants : j = early \/ j = late
      BY <3>1
    <3>5. CASE early <= late /\ early \in instants
      BY <3>4, <3>5, <1>6
    <3>6. CASE late <= early /\ late \in instants
      BY <3>4, <3>6, <1>6
    <3>7. CASE early \notin instants \/ late \notin instants
      BY <1>6, <3>3, <3>4, <3>7
    <3> QED  BY <1>6, <3>5, <3>6, <3>7
  <2> HIDE DEF instants
  <2> QED  BY <2>1 DEF R!Min
<1>12. ASSUME instants = {} PROVE R!Max({early, late}) = w - b /\ Shows(w - b) = w + (a - b)
  <2>1. Shows(w - b) # w /\ Shows(w - a) # w
    <3>1. w - b \in -DayLength..(LastWall + DayLength) /\ w - a \in -DayLength..(LastWall + DayLength)
      BY <1>4
    <3> HIDE DEF Shows
    <3> QED  BY <1>12, <3>1
  <2>2. ~(w - b < c) /\ w - a < c
    BY <1>3, <1>4, <2>1
  <2>3. a > b /\ early = w - b /\ late = w - a
    BY <1>4, <1>5, <2>2
  <2>4. R!Max({early, late}) = w - b
    BY <1>4, <2>3 DEF R!Max
  <2>5. Shows(w - b) = w + (a - b)
    BY <1>3, <1>4, <2>2
  <2> QED  BY <2>4, <2>5
<1>13. CASE instants = {}
  <2>1. reply = [instant |-> w - b, resolution |-> "skipped"]
    <3> HIDE DEF instants, valid
    <3> QED  BY <1>7, <1>8, <1>9, <1>10, <1>12, <1>13
  <2>2. reply.resolution = "skipped" /\ Shows(reply.instant) = w + (z.after - z.before)
    BY <1>3, <1>12, <1>13, <2>1
  <2> QED  BY <1>1, <1>13, <2>2 DEF R!WallTimeIsKept
<1>14. CASE instants # {}
  <2>1. /\ reply.instant = R!Min(instants)
        /\ reply.resolution = "ambiguous" <=> Cardinality(instants) > 1
    <3> HIDE DEF instants, valid
    <3> QED  BY <1>7, <1>8, <1>9, <1>10, <1>14
  <2>2. /\ reply.instant \in instants /\ \A i \in instants : reply.instant <= i
        /\ reply.resolution = "ambiguous" <=> R!Cardinality(instants) > 1
    <3> HIDE DEF instants
    <3> QED  BY <1>10, <1>11, <1>14, <2>1
  <2> QED  BY <1>1, <1>14, <2>2 DEF R!WallTimeIsKept
<1> QED  BY <1>13, <1>14
-----------------------------------------------------------------------------
(* The calendar *)

Calendars == [C!Days -> C!Occurrence]
Sensible(c) == c \in Calendars /\ \A t \in C!Days : c[t].edited => C!Taken(c, t)
Spares(c, after) == \A t \in C!Days : c[t].edited => after[t] = c[t]

CalendarInv == C!CalTypeOK /\ Sensible(slot)

LEMMA NewOnes ==
  /\ C!Free \in C!Occurrence /\ C!Free.edited = FALSE
  /\ \A s \in Services \cup {"none"} :
       C!Fresh(s) \in C!Occurrence /\ C!Fresh(s).edited = FALSE /\ C!Fresh(s).status = "pending"
<1>1. MaxDay \in Nat
  BY RecordsAssumption DEF C!CalendarAssumption
<1> QED  BY <1>1 DEF C!Free, C!Fresh, C!Occurrence

LEMMA CalendarHolds == C!CalInit => CalendarInv
<1>1. 1 \in C!Days /\ MaxChanges \in Nat
  BY RecordsAssumption DEF C!CalendarAssumption, C!Days
<1>2. 0 \in 0..MaxChanges
  BY <1>1
<1> QED
  BY <1>1, <1>2, NewOnes DEF C!CalInit, CalendarInv, C!CalTypeOK, Sensible, Calendars

\* What is written by itself: an occurrence that is edited is neither taken away nor written over.
LEMMA RemovedSpares ==
  ASSUME NEW c, Sensible(c), NEW some
  PROVE  Sensible(C!Removed(c, some)) /\ Spares(c, C!Removed(c, some))
BY NewOnes DEF Sensible, Calendars, Spares, C!Removed, C!Regular, C!Taken

LEMMA FilledSpares ==
  ASSUME NEW c, Sensible(c), NEW some,
         NEW after, after = [t \in C!Days |-> IF t \in some /\ ~C!Taken(c, t) THEN C!Fresh("none")
                                                ELSE c[t]]
  PROVE  Sensible(after) /\ Spares(c, after)
<1>1. C!Fresh("none") \in C!Occurrence /\ C!Fresh("none").edited = FALSE
      /\ C!Fresh("none").status = "pending"
  BY NewOnes
<1> QED  BY <1>1 DEF Sensible, Calendars, Spares, C!Taken

LEMMA SparedTwice ==
  ASSUME NEW c, NEW b, NEW a, Spares(c, b), Spares(b, a)
  PROVE  Spares(c, a)
BY DEF Spares

LEMMA MaterializedSpares ==
  ASSUME NEW c, Sensible(c), NEW s
  PROVE  Sensible(C!Materialized(c, s)) /\ Spares(c, C!Materialized(c, s))
<1>1. PICK filled : filled = [t \in C!Days |-> IF t \in C!Wanted(s) /\ ~C!Taken(c, t)
                                               THEN C!Fresh("none") ELSE c[t]]
  OBVIOUS
<1>2. Sensible(filled) /\ Spares(c, filled)
  BY <1>1, FilledSpares
<1>3. PICK trimmed : trimmed = C!Removed(filled, {t \in C!Days : t >= day} \ C!Wanted(s))
  OBVIOUS
<1>4. Sensible(trimmed) /\ Spares(c, trimmed)
  BY <1>2, <1>3, RemovedSpares, SparedTwice
<1>5. Sensible(C!Cleared(c)) /\ Spares(c, C!Cleared(c))
  BY RemovedSpares DEF C!Cleared
<1>6. Spares(c, c)
  BY DEF Spares
<1>7. \/ C!Materialized(c, s) = C!Cleared(c)
      \/ C!Materialized(c, s) = c
      \/ C!Materialized(c, s) = trimmed
  BY <1>1, <1>3 DEF C!Materialized
<1> QED  BY <1>4, <1>5, <1>6, <1>7

\* One service moves or adds one occurrence, onto a time that nothing has.
FrozenStays(c, after) == \A t \in C!Days : C!Taken(c, t) /\ C!Frozen(t) => after[t] = c[t]

LEMMA FollowedSpares ==
  ASSUME NEW c, Sensible(c), NEW s \in Services, NEW to \in C!Days
  PROVE  /\ Sensible(C!Followed(c, s, to)) /\ Spares(c, C!Followed(c, s, to))
         /\ FrozenStays(c, C!Followed(c, s, to))
<1> USE DEF Sensible, Calendars
<1>1. CASE C!Taken(c, to)
  BY <1>1 DEF C!Followed, Spares, FrozenStays
<1>2. CASE ~C!Taken(c, to) /\ C!RowOf(c, s) = {}
  <2>1. C!Fresh(s) \in C!Occurrence /\ C!Fresh(s).status = "pending"
    BY NewOnes
  <2>2. C!Followed(c, s, to) = [c EXCEPT ![to] = C!Fresh(s)]
    BY <1>2 DEF C!Followed
  <2> QED  BY <1>2, <2>1, <2>2 DEF C!Taken, Spares, FrozenStays
<1>3. CASE ~C!Taken(c, to) /\ C!RowOf(c, s) # {}
  <2>1. PICK t : t = CHOOSE u \in C!RowOf(c, s) : TRUE
    OBVIOUS
  <2>2. t \in C!Days
    BY <1>3, <2>1 DEF C!RowOf
  <2>3. C!Followed(c, s, to) = IF c[t].edited \/ C!Frozen(t) THEN c ELSE C!Put(c, t, to)
    BY <1>3, <2>1 DEF C!Followed
  <2>4. C!Free \in C!Occurrence /\ C!Free.edited = FALSE
    BY NewOnes
  <2>5. CASE c[t].edited \/ C!Frozen(t)
    BY <2>3, <2>5 DEF Spares, FrozenStays
  <2>6. CASE ~(c[t].edited \/ C!Frozen(t))
    <3>1. C!Followed(c, s, to) = [c EXCEPT ![t] = C!Free, ![to] = c[t]]
      BY <2>3, <2>6 DEF C!Put
    <3>2. PICK after : after = [c EXCEPT ![t] = C!Free, ![to] = c[t]]
      OBVIOUS
    <3>3. /\ after \in [C!Days -> C!Occurrence] /\ after[to] = c[t]
          /\ \A u \in C!Days \ {to} : after[u] = IF u = t THEN C!Free ELSE c[u]
      BY <2>2, <2>4, <3>2
    <3>4. c[t].edited = FALSE
      BY <2>2, <2>6 DEF C!Occurrence
    <3> QED  BY <1>3, <2>2, <2>4, <2>6, <3>1, <3>2, <3>3, <3>4 DEF C!Taken, Spares, FrozenStays
  <2> QED  BY <2>5, <2>6
<1> QED  BY <1>1, <1>2, <1>3

\* However many services are followed, one after the other.
LEMMA ReconciledSpares ==
  ASSUME NEW c, Sensible(c), day \in C!Days, NEW p \in Plans, NEW order \in C!Orders(p)
  PROVE  /\ Sensible(C!Reconciled(c, p, order)) /\ Spares(c, C!Reconciled(c, p, order))
         /\ FrozenStays(c, C!Reconciled(c, p, order))
<1>1. PICK count : count = Cardinality({s \in Services : p[s] > day})
  OBVIOUS
<1>2. p \in [Services -> 0..MaxDay] /\ MaxDay \in Nat /\ day \in Nat /\ IsFiniteSet(Services)
  <2>1. C!IsFiniteSet(Services) <=> IsFiniteSet(Services)
    BY DEF C!IsFiniteSet, IsFiniteSet
  <2> QED  BY <2>1, RecordsAssumption DEF C!CalendarAssumption, C!Days
<1>3. count \in Nat
  <2>1. {s \in Services : p[s] > day} \subseteq Services
    OBVIOUS
  <2> QED  BY <1>1, <1>2, <2>1, FS_Subset, FS_CardinalityType
<1>4. order \in [1..count -> {s \in Services : p[s] > day}] /\ Len(order) = count
  <2>1. C!Cardinality({s \in Services : p[s] > day}) = count
    BY <1>1 DEF C!Cardinality, Cardinality, C!IsFiniteSet, IsFiniteSet
  <2>2. order \in [1..count -> {s \in Services : p[s] > day}]
    BY <2>1 DEF C!Orders, C!SetToSeqs
  <2> QED  BY <1>3, <2>2
<1>5. ASSUME NEW n \in 1..count PROVE order[n] \in Services /\ p[order[n]] \in C!Days
  <2>1. order[n] \in Services /\ p[order[n]] > day /\ p[order[n]] \in 0..MaxDay
    BY <1>2, <1>4
  <2> QED  BY <1>2, <2>1 DEF C!Days
<1> DEFINE some == {x \in Calendars : Sensible(x)}
           One(n, x) == IF n \in 1..count THEN C!Followed(x, order[n], p[order[n]]) ELSE x
           follow == [y \in Nat \X some |-> One(y[1] + 1, y[2])]
<1>6. ASSUME NEW n \in Nat, NEW x \in some PROVE One(n, x) \in some
  BY <1>5, FollowedSpares DEF Sensible
<1>7. /\ \A n \in Nat, x \in some : follow[<<n, x>>] = One(n + 1, x)
      /\ follow \in Followers(some) /\ c \in some
  <2>1. c \in some
    BY DEF Sensible
  <2>2. \A y \in Nat \X some : y[1] + 1 \in Nat /\ y[2] \in some
    OBVIOUS
  <2> HIDE DEF some, One
  <2>3. \A y \in Nat \X some : One(y[1] + 1, y[2]) \in some
    BY <1>6, <2>2
  <2>4. follow \in [Nat \X some -> some]
    BY <2>3
  <2> QED  BY <2>1, <2>4 DEF Followers
<1>8. PICK f : /\ f \in [Nat -> some] /\ f[0] = c
               /\ \A n \in Nat : f[n + 1] = One(n + 1, f[n])
  <2> HIDE DEF some, One, follow
  <2>1. Follows(some, c, follow)
    BY <1>7, Recursion
  <2>2. PICK f \in [Nat -> some] : f[0] = c /\ \A n \in Nat : f[n + 1] = follow[<<n, f[n]>>]
    BY <2>1 DEF Follows
  <2>3. \A n \in Nat : f[n] \in some
    BY <2>2
  <2> QED  BY <1>7, <2>2, <2>3
<1> DEFINE after == CHOOSE g : g = [n \in 0..Len(order) |->
                      IF n = 0 THEN c ELSE C!Followed(g[n - 1], order[n], p[order[n]])]
<1>9. after = [n \in 0..count |->
                 IF n = 0 THEN c ELSE C!Followed(after[n - 1], order[n], p[order[n]])]
  <2>1. PICK g : g = [n \in 0..count |-> f[n]]
    OBVIOUS
  <2>2. ASSUME NEW n \in 0..count
        PROVE  g[n] = IF n = 0 THEN c ELSE C!Followed(g[n - 1], order[n], p[order[n]])
    <3>1. CASE n = 0
      BY <1>3, <1>8, <2>1, <3>1
    <3>2. CASE n # 0
      <4>1. n - 1 \in Nat /\ n - 1 \in 0..count /\ (n - 1) + 1 = n /\ n \in 1..count
        BY <1>3, <3>2
      <4>2. g[n] = f[n] /\ g[n - 1] = f[n - 1]
        BY <2>1, <4>1
      <4>3. f[n] = One(n, f[n - 1])
        <5> HIDE DEF One
        <5> QED  BY <1>8, <4>1
      <4> QED  BY <3>2, <4>1, <4>2, <4>3
    <3> QED  BY <3>1, <3>2
  <2>3. g = [n \in 0..count |->
               IF n = 0 THEN c ELSE C!Followed(g[n - 1], order[n], p[order[n]])]
    BY <2>1, <2>2
  <2> QED  BY <1>4, <2>3
<1> HIDE DEF after
<1>10. /\ after[0] = c
       /\ \A n \in Nat : n + 1 <= count =>
            after[n + 1] = C!Followed(after[n], order[n + 1], p[order[n + 1]])
  <2>1. after[0] = c
    BY <1>3, <1>9
  <2>2. ASSUME NEW n \in Nat, n + 1 <= count
        PROVE  after[n + 1] = C!Followed(after[n], order[n + 1], p[order[n + 1]])
    <3>1. n + 1 \in 0..count /\ n + 1 # 0 /\ (n + 1) - 1 = n
      BY <1>3, <2>2
    <3> QED  BY <1>9, <3>1
  <2> QED  BY <2>1, <2>2
<1> DEFINE Kept(x) == Sensible(x) /\ Spares(c, x) /\ FrozenStays(c, x)
           sound == {n \in Nat : n <= count => Kept(after[n])}
<1>11. sound = Nat
  <2>1. 0 \in sound
    BY <1>10 DEF Spares, FrozenStays
  <2>2. ASSUME NEW n \in sound PROVE n + 1 \in sound
    <3> SUFFICES ASSUME n + 1 <= count PROVE Kept(after[n + 1])
      OBVIOUS
    <3>1. n \in Nat /\ n <= count /\ n + 1 \in 1..count
      BY <1>3
    <3>2. PICK x, y, s, to : x = after[n] /\ y = after[n + 1] /\ s = order[n + 1] /\ to = p[s]
      OBVIOUS
    <3>3. Kept(x) /\ y = C!Followed(x, s, to) /\ s \in Services /\ to \in C!Days
      BY <1>5, <1>10, <3>1, <3>2
    <3>4. Sensible(y) /\ Spares(x, y) /\ FrozenStays(x, y)
      BY <3>3, FollowedSpares
    <3>5. FrozenStays(c, y)
      <4>1. \A t \in C!Days : C!Taken(c, t) /\ C!Frozen(t) => x[t] = c[t] /\ C!Taken(x, t)
        BY <3>3 DEF FrozenStays, C!Taken
      <4> QED  BY <3>4, <4>1 DEF FrozenStays
    <3> QED  BY <3>2, <3>3, <3>4, <3>5, SparedTwice
  <2>3. sound \in SUBSET Nat
    OBVIOUS
  <2> HIDE DEF sound
  <2> QED  BY <2>1, <2>2, <2>3, AllNumbers
<1>12. PICK last : last = after[count]
  OBVIOUS
<1>13. Kept(last) /\ C!Reconciled(c, p, order) = C!Withdrawn(last, p)
  <2>1. Kept(last)
    BY <1>3, <1>11, <1>12
  <2>2. C!Reconciled(c, p, order) = C!Withdrawn(last, p)
    BY <1>4, <1>12 DEF C!Reconciled, after
  <2> QED  BY <2>1, <2>2
<1>14. Sensible(C!Withdrawn(last, p)) /\ Spares(last, C!Withdrawn(last, p))
  BY <1>13, RemovedSpares DEF C!Withdrawn
<1>15. FrozenStays(last, C!Withdrawn(last, p))
  BY DEF FrozenStays, C!Withdrawn, C!Removed
<1>16. FrozenStays(c, C!Withdrawn(last, p))
  <2>1. \A t \in C!Days : C!Taken(c, t) /\ C!Frozen(t) => last[t] = c[t] /\ C!Taken(last, t)
    BY <1>13 DEF FrozenStays, C!Taken
  <2> QED  BY <1>15, <2>1 DEF FrozenStays
<1> QED  BY <1>13, <1>14, <1>16, SparedTwice

LEMMA PutSensible ==
  ASSUME NEW c, Sensible(c), NEW from \in C!Days, NEW to \in C!Days
  PROVE  Sensible(C!Put(c, from, to))
<1>1. C!Put(c, from, to) \in Calendars
  BY NewOnes DEF Sensible, Calendars, C!Put
<1>2. ASSUME NEW t \in C!Days
      PROVE  C!Put(c, from, to)[t] = IF t = to THEN c[from] ELSE IF t = from THEN C!Free ELSE c[t]
  BY DEF Sensible, Calendars, C!Put
<1> QED  BY <1>1, <1>2, NewOnes DEF Sensible, C!Taken

\* What anybody makes of one occurrence.
LEMMA OneSensible ==
  ASSUME NEW c, Sensible(c), NEW t \in C!Days, C!Taken(c, t)
  PROVE  /\ \A e \in BOOLEAN : Sensible([c EXCEPT ![t].edited = e])
         /\ \A s \in {"pending", "skipped", "running", "over"} : Sensible([c EXCEPT ![t].status = s])
         /\ \A e \in BOOLEAN, f \in 0..MaxDay : Sensible([c EXCEPT ![t].edited = e, ![t].from = f])
<1> USE DEF Sensible, Calendars, C!Taken, C!Occurrence
<1>1. ASSUME NEW e \in BOOLEAN PROVE Sensible([c EXCEPT ![t].edited = e])
  OBVIOUS
<1>2. ASSUME NEW s \in {"pending", "skipped", "running", "over"}
      PROVE  Sensible([c EXCEPT ![t].status = s])
  OBVIOUS
<1>3. ASSUME NEW e \in BOOLEAN, NEW f \in 0..MaxDay
      PROVE  Sensible([c EXCEPT ![t].edited = e, ![t].from = f])
  <2>1. [c EXCEPT ![t].edited = e, ![t].from = f] =
          [[c EXCEPT ![t].edited = e] EXCEPT ![t].from = f]
    OBVIOUS
  <2>2. PICK d : d = [c EXCEPT ![t].edited = e]
    OBVIOUS
  <2>3. Sensible(d) /\ C!Taken(d, t)
    BY <2>2
  <2>4. Sensible([d EXCEPT ![t].from = f])
    BY <2>3
  <2> QED  BY <2>1, <2>2, <2>4
<1> QED  BY <1>1, <1>2, <1>3

LEMMA CalendarStep == ASSUME CalendarInv, [C!CalNext]_calVars PROVE CalendarInv'
<1> DEFINE Rest ==
      /\ day' \in C!Days /\ series' \in [rule : Rules, on : BOOLEAN, paired : BOOLEAN]
      /\ plan' \in Plans /\ reading' \in [C!Readers -> Plans \cup {C!NoPlan}]
      /\ loop' \in {"idle", "reading", "engine"} /\ due' \in BOOLEAN /\ lost' \in BOOLEAN
      /\ changes' \in 0..MaxChanges
<1>1. ASSUME Sensible(slot'), Rest PROVE CalendarInv'
  BY <1>1 DEF CalendarInv, C!CalTypeOK, Sensible, Calendars, C!Days, C!Occurrence, C!Taken,
     C!Readers, C!NoPlan
<1>2. CalendarInv => Sensible(slot) /\ C!CalTypeOK
  BY DEF CalendarInv
<1>3. /\ day \in C!Days /\ series \in [rule : Rules, on : BOOLEAN, paired : BOOLEAN]
      /\ plan \in Plans /\ reading \in [C!Readers -> Plans \cup {C!NoPlan}]
      /\ loop \in {"idle", "reading", "engine"} /\ due \in BOOLEAN /\ lost \in BOOLEAN
      /\ changes \in 0..MaxChanges /\ MaxChanges \in Nat
  BY <1>2, RecordsAssumption DEF C!CalTypeOK, C!CalendarAssumption
<1>4. CASE UNCHANGED calVars
  BY <1>1, <1>2, <1>3, <1>4 DEF calVars
<1>5. CASE C!LosePass \/ C!NotYet
  BY <1>1, <1>2, <1>3, <1>5 DEF C!LosePass, C!NotYet
<1>6. CASE C!Hourly
  <2>1. Sensible(slot')
    BY <1>2, <1>6, MaterializedSpares DEF C!Hourly
  <2>2. reading' \in [C!Readers -> Plans \cup {C!NoPlan}]
    BY <1>3, <1>6 DEF C!Hourly, C!Asks
  <2> QED  BY <1>1, <1>3, <1>6, <2>1, <2>2 DEF C!Hourly
<1>7. CASE C!EnginePass
  <2>1. Sensible(slot')
    BY <1>2, <1>7 DEF C!EnginePass, Sensible, Calendars, C!Occurrence, C!Taken
  <2> QED  BY <1>1, <1>3, <1>7, <2>1 DEF C!EnginePass
<1>8. CASE C!Replan
  <2>1. changes' \in 0..MaxChanges
    BY <1>3, <1>8 DEF C!Replan, C!Changing
  <2> QED  BY <1>1, <1>2, <1>3, <1>8, <2>1 DEF C!Replan
<1>9. CASE C!Clock
  <2>1. day' \in C!Days
    BY <1>3, <1>9, RecordsAssumption DEF C!Clock, C!Days, C!CalendarAssumption
  <2>2. due' \in BOOLEAN
    BY Zenon, <1>3, <1>9 DEF C!Clock
  <2> QED  BY <1>1, <1>2, <1>3, <1>9, <2>1, <2>2 DEF C!Clock
<1>10. ASSUME NEW r \in C!Readers, C!Reconcile(r) \/ C!Unreachable(r) PROVE CalendarInv'
  <2>1. Sensible(slot')
    <3>1. CASE C!Unreachable(r)
      BY <1>2, <3>1 DEF C!Unreachable
    <3>2. CASE C!Reconcile(r)
      <4>1. PICK p \in {reading[r], plan} : \E inOrder \in C!Orders(p) :
                slot' = C!Reconciled(slot, p, inOrder)
        BY <3>2 DEF C!Reconcile
      <4>2. p \in Plans
        BY <1>3, <3>2 DEF C!Reconcile
      <4> QED  BY <1>2, <1>3, <4>1, <4>2, ReconciledSpares
    <3> QED  BY <1>10, <3>1, <3>2
  <2>2. /\ reading' \in [C!Readers -> Plans \cup {C!NoPlan}]
        /\ loop' \in {"idle", "reading", "engine"}
        /\ UNCHANGED <<day, series, plan, due, lost, changes>>
    BY <1>3, <1>10 DEF C!Reconcile, C!Unreachable
  <2> QED  BY <1>1, <1>3, <2>1, <2>2
<1>11. ASSUME NEW r \in Askers, C!ChangeSeries(r) PROVE CalendarInv'
  <2>1. PICK rule \in Rules, on \in BOOLEAN, paired \in BOOLEAN :
          /\ series' = [rule |-> rule, on |-> on, paired |-> paired]
          /\ slot' = C!Materialized(IF series.paired /\ ~paired THEN C!Unpaired(slot) ELSE slot,
                                    [rule |-> rule, on |-> on, paired |-> paired])
          /\ UNCHANGED reading \/ C!Asks(r)
    BY <1>11 DEF C!ChangeSeries
  <2>2. Sensible(C!Unpaired(slot))
    BY <1>2, RemovedSpares DEF C!Unpaired
  <2>3. Sensible(slot')
    BY <1>2, <2>1, <2>2, MaterializedSpares
  <2>4. r \in C!Readers
    BY DEF C!Readers
  <2>5. reading' \in [C!Readers -> Plans \cup {C!NoPlan}]
    BY <1>3, <2>1, <2>4 DEF C!Asks
  <2>6. changes' \in 0..MaxChanges /\ UNCHANGED <<day, plan, loop, due, lost>>
    BY <1>3, <1>11 DEF C!ChangeSeries, C!Changing
  <2>7. series' \in [rule : Rules, on : BOOLEAN, paired : BOOLEAN]
    BY <2>1
  <2> QED  BY <1>1, <1>3, <2>3, <2>5, <2>6, <2>7
<1>12. ASSUME NEW t \in C!Days, C!RunEnds(t) PROVE CalendarInv'
  <2>1. C!Taken(slot, t)
    BY <1>12 DEF C!RunEnds, C!Taken
  <2>2. Sensible(slot')
    BY <1>2, <1>12, <2>1, OneSensible DEF C!RunEnds
  <2> QED  BY <1>1, <1>3, <1>12, <2>2 DEF C!RunEnds
<1>13. ASSUME NEW t \in C!Days, C!Operator(t) PROVE CalendarInv'
  <2>1. C!Taken(slot, t)
    BY <1>13 DEF C!Operator, C!Retitle, C!ClearTitle, C!Reattach, C!Skip, C!Unskip, C!RunNow,
       C!MoveOne, C!Pending, C!Taken
  <2>2. MaxDay \in Nat /\ slot[t].from \in 0..MaxDay /\ t \in 0..MaxDay /\ 0 \in 0..MaxDay
    BY <1>2, RecordsAssumption DEF C!CalTypeOK, C!Occurrence, C!CalendarAssumption, C!Days
  <2>3. ASSUME NEW c, Sensible(c), C!Changes(c) PROVE CalendarInv'
    BY <1>1, <1>3, <2>3 DEF C!Changes, C!Changing
  <2>4. CASE C!Retitle(t)
    BY <1>2, <2>1, <2>3, <2>4, OneSensible DEF C!Retitle
  <2>5. CASE C!ClearTitle(t)
    BY <1>2, <2>1, <2>3, <2>5, OneSensible DEF C!ClearTitle
  <2>6. CASE C!Skip(t)
    BY <1>2, <2>1, <2>3, <2>6, OneSensible DEF C!Skip
  <2>7. CASE C!Unskip(t)
    BY <1>2, <2>1, <2>3, <2>7, OneSensible DEF C!Unskip
  <2>8. CASE C!RunNow(t)
    BY <1>2, <2>1, <2>3, <2>8, OneSensible DEF C!RunNow
  <2>9. ASSUME NEW to \in C!Days, C!MoveOne(t, to) PROVE CalendarInv'
    <3>1. PICK f \in 0..MaxDay : f = IF slot[t].from = 0 THEN t ELSE slot[t].from
      BY <2>2
    <3>2. PICK c : c = [slot EXCEPT ![t].edited = TRUE, ![t].from = f]
      OBVIOUS
    <3>3. Sensible(c)
      BY <1>2, <2>1, <3>2, OneSensible
    <3>4. Sensible(C!Put(c, t, to))
      BY <3>3, PutSensible
    <3>5. C!Changes(C!Put(c, t, to))
      BY <2>9, <3>1, <3>2 DEF C!MoveOne
    <3> QED  BY <2>3, <3>4, <3>5
  <2>10. CASE C!Reattach(t)
    <3>1. PICK back, c : /\ back = IF slot[t].from = 0 THEN t ELSE slot[t].from
                         /\ c = [slot EXCEPT ![t].edited = FALSE, ![t].from = 0]
      OBVIOUS
    <3>2. back \in C!Days
      BY <2>2, <3>1 DEF C!Days
    <3>3. Sensible(c) /\ Sensible(C!Put(c, t, back))
      <4>1. Sensible(c)
        BY <1>2, <2>1, <2>2, <3>1, OneSensible
      <4> QED  BY <3>2, <4>1, PutSensible
    <3>4. C!Changes(C!Materialized(IF back = t THEN c ELSE C!Put(c, t, back), series))
      BY <2>10, <3>1 DEF C!Reattach
    <3> QED  BY <2>3, <3>3, <3>4, MaterializedSpares
  <2> QED  BY <1>13, <2>4, <2>5, <2>6, <2>7, <2>8, <2>9, <2>10 DEF C!Operator
<1> QED
  BY <1>4, <1>5, <1>6, <1>7, <1>8, <1>9, <1>10, <1>11, <1>12, <1>13
  DEF C!CalNext, calVars

\* What happens by itself spares what is edited, a late reading what is frozen, and the hourly
\* pass leaves what the rule or the plan asks for.
LEMMA HourlyAgrees ==
  ASSUME CalendarInv, C!Hourly
  PROVE  /\ \A t \in C!Days : t >= day /\ C!Regular(slot', t) =>
              IF series.paired THEN slot'[t].ref # "none" ELSE t \in C!Wanted(series)
         /\ ~series.paired => \A t \in C!Wanted(series) : C!Taken(slot', t)
<1>1. /\ slot' = C!Materialized(slot, series) /\ ~C!Collides(slot, series)
      /\ Sensible(slot) /\ series \in [rule : Rules, on : BOOLEAN, paired : BOOLEAN]
  BY DEF C!Hourly, CalendarInv, C!CalTypeOK
<1>3. C!Free.status = "none"
  BY DEF C!Free
<1>4. CASE series.paired
  <2>1. slot' = C!Removed(slot, {t \in C!Days : t >= day /\ slot[t].ref = "none"})
    BY <1>1, <1>4 DEF C!Materialized, C!Cleared
  <2>2. ASSUME NEW t \in C!Days, t >= day, C!Regular(slot', t) PROVE slot'[t].ref # "none"
    BY <1>3, <2>1, <2>2 DEF C!Removed, C!Regular, C!Pending
  <2> QED  BY <1>4, <2>2
<1>5. CASE ~series.paired
  <2>1. PICK filled : filled = [t \in C!Days |-> IF t \in C!Wanted(series) /\ ~C!Taken(slot, t)
                                                 THEN C!Fresh("none") ELSE slot[t]]
    OBVIOUS
  <2>2. slot' = C!Removed(filled, {t \in C!Days : t >= day} \ C!Wanted(series))
    BY <1>1, <1>5, <2>1 DEF C!Materialized
  <2>3. ASSUME NEW t \in C!Days, t >= day, C!Regular(slot', t) PROVE t \in C!Wanted(series)
    BY <1>3, <2>2, <2>3 DEF C!Removed, C!Regular, C!Pending
  <2>4. C!Wanted(series) \subseteq C!Days
    BY <1>1, RecordsAssumption DEF C!Wanted, C!CalendarAssumption
  <2>5. ASSUME NEW t \in C!Wanted(series) PROVE C!Taken(slot', t)
    <3>1. t \in C!Days /\ C!Taken(filled, t)
      BY <2>1, <2>4, NewOnes DEF C!Taken
    <3>2. slot'[t] = filled[t]
      BY <2>2, <3>1 DEF C!Removed
    <3> QED  BY <3>1, <3>2 DEF C!Taken
  <2> QED  BY <1>5, <2>3, <2>5
<1> QED  BY <1>4, <1>5

LEMMA AutomaticSpares == ASSUME CalendarInv, C!Automatic PROVE Spares(slot, slot')
<1>1. Sensible(slot) /\ day \in C!Days /\ plan \in Plans
      /\ reading \in [C!Readers -> Plans \cup {C!NoPlan}]
  BY DEF CalendarInv, C!CalTypeOK
<1>2. CASE C!Hourly
  BY <1>1, <1>2, MaterializedSpares DEF C!Hourly
<1>3. ASSUME NEW r \in Askers, C!ChangeSeries(r) PROVE Spares(slot, slot')
  <2>1. PICK new, cleared :
          /\ slot' = C!Materialized(cleared, new)
          /\ cleared \in {slot, C!Unpaired(slot)}
    BY <1>3 DEF C!ChangeSeries
  <2>2. Sensible(cleared) /\ Spares(slot, cleared)
    <3>1. Spares(slot, slot)
      BY DEF Spares
    <3> QED  BY <1>1, <2>1, <3>1, RemovedSpares DEF C!Unpaired
  <2> QED  BY <2>1, <2>2, MaterializedSpares, SparedTwice
<1>4. ASSUME NEW r \in C!Readers, C!Reconcile(r)
      PROVE  Spares(slot, slot') /\ FrozenStays(slot, slot')
  <2>1. PICK p \in {reading[r], plan} : \E inOrder \in C!Orders(p) :
            slot' = C!Reconciled(slot, p, inOrder)
    BY <1>4 DEF C!Reconcile
  <2>2. p \in Plans
    BY <1>1, <1>4, <2>1 DEF C!Reconcile
  <2> QED  BY <1>1, <2>1, <2>2, ReconciledSpares
<1> QED  BY <1>2, <1>3, <1>4 DEF C!Automatic

LEMMA ReconcileSpares ==
  ASSUME CalendarInv, NEW r \in C!Readers, C!Reconcile(r) PROVE FrozenStays(slot, slot')
<1>1. Sensible(slot) /\ day \in C!Days /\ plan \in Plans
      /\ reading \in [C!Readers -> Plans \cup {C!NoPlan}]
  BY DEF CalendarInv, C!CalTypeOK
<1>2. PICK p \in {reading[r], plan} : \E inOrder \in C!Orders(p) :
          slot' = C!Reconciled(slot, p, inOrder)
  BY DEF C!Reconcile
<1>3. p \in Plans
  BY <1>1, <1>2 DEF C!Reconcile
<1> QED  BY <1>1, <1>2, <1>3, ReconciledSpares
-----------------------------------------------------------------------------
(* What is published, and read *)

ReadingInv ==
  task = "services" \/ (outcome = "listed" /\ stage = "times") =>
    /\ \A t \in P!TimeIds : times[t].there => [id |-> t, was |-> times[t]] \in ever
    /\ \A e \in got : e \in ever /\ e.was.start \in {1, 2}
    /\ \A t \in stood : P!PlanOf(t) \in P!Upcoming
    /\ stage = "times" => \A t \in stood :
         \/ P!PlanOf(t) \in ahead
         \/ ~times[t].there \/ times[t].start = P!NoStart
         \/ [id |-> t, was |-> times[t]] \in got

PublishedInv ==
  /\ P!PublishedTypeOK
  /\ P!HalfIsNone
  /\ ~Odd => ReadingInv
  /\ outcome # "none" => task = "none"
  /\ task = "services" => stage \in {"list", "times"}
  /\ task = "services" /\ stage = "list" => got = {}
  /\ outcome = "listed" /\ stage = "times" => ahead = {}

LEMMA PublishedHolds == P!PublishedInit => PublishedInv
<1> SUFFICES ASSUME P!PublishedInit PROVE PublishedInv
  OBVIOUS
<1>1. /\ PastedTokens \in Nat \ {0} /\ FolderCount \in Nat \ {0} /\ MaxPlanned \in Nat
  BY RecordsAssumption DEF P!PublishedAssumption
<1>2. times \in [P!TimeIds -> P!Time]
  BY DEF P!PublishedInit, P!Time, P!Kinds, P!Starts
<1>3. parent \in [P!Folders -> P!Parents]
  BY <1>1 DEF P!PublishedInit, P!Parents, P!Unseen
<1>4. <<appId, secret>> \in P!Halves /\ pair \in P!Halves
  BY <1>1 DEF P!PublishedInit, P!Halves
<1>5. P!PublishedTypeOK
  BY <1>1, <1>2, <1>3, <1>4 DEF P!PublishedInit, P!PublishedTypeOK
<1>6. P!HalfIsNone
  BY DEF P!PublishedInit, P!HalfIsNone
<1> QED  BY <1>5, <1>6 DEF PublishedInv, P!PublishedInit, ReadingInv

LEMMA PublishedFacts ==
  /\ PastedTokens \in Nat \ {0} /\ FolderCount \in Nat \ {0} /\ MaxPlanned \in Nat
  /\ PageSize \in Nat \ {0}
  /\ <<0, 0>> \in P!Halves /\ \A t \in 1..PastedTokens : <<t, t>> \in P!Halves
  /\ \A s, from, n : P!Slice(s, from, n) \subseteq s
  /\ \A s, rows : rows \in P!Rows(s) => rows \subseteq s
  /\ \A s, rows : rows \in P!Rows(s) /\ ~Odd => rows = s
BY RecordsAssumption DEF P!PublishedAssumption, P!Halves, P!Slice, P!Rows

LEMMA TypedCredentials ==
  ASSUME PublishedInv
  PROVE  /\ P!Credentials \in P!Halves
         /\ P!Credentials # <<0, 0>> => P!Credentials[1] # 0 /\ P!Credentials[2] # 0
         /\ appId \in 0..PastedTokens /\ secret \in 0..PastedTokens
<1>1. <<appId, secret>> \in (0..PastedTokens) \X (0..PastedTokens)
  BY DEF PublishedInv, P!PublishedTypeOK, P!Halves
<1>2. appId \in 0..PastedTokens /\ secret \in 0..PastedTokens
  BY <1>1
<1> QED  BY <1>2, PublishedFacts DEF P!Credentials, P!Halves

LEMMA PublishedTyped ==
  ASSUME PublishedInv, [P!PublishedNext]_publishedVars
  PROVE  P!PublishedTypeOK'
<1> DEFINE Shelf == /\ plans' \subseteq P!Plans /\ times' \in [P!TimeIds -> P!Time]
                    /\ types' \subseteq P!Types /\ parent' \in [P!Folders -> P!Parents]
           Keys2 == /\ accepted' \subseteq 1..PastedTokens /\ <<appId, secret>>' \in P!Halves
           Rest == /\ task' \in {"none", "services", "groups"}
                   /\ stage' \in {"list", "times", "folders"} /\ pair' \in P!Halves
                   /\ ahead' \subseteq P!Plans /\ offset' \in Nat
                   /\ nested' \subseteq P!Folders \X P!Parents
                   /\ outcome' \in {"none", "failed", "listed"}
           Ghosts == stood' \subseteq P!TimeIds /\ calm' \in BOOLEAN
           Last == trying' \in P!Halves \cup {<<>>} /\ mishaps' \in 0..MaxPlanned
<1>1. Shelf /\ Keys2 /\ Rest /\ Ghosts /\ Last => P!PublishedTypeOK'
  BY DEF P!PublishedTypeOK, P!Plans, P!TimeIds, P!Time, P!Types, P!Folders, P!Parents, P!Halves,
     P!Unseen, P!Kinds, P!Starts, P!NoStart
<1>2. P!PublishedTypeOK
  BY DEF PublishedInv
<1>3. UNCHANGED P!shelf => Shelf
  BY <1>2 DEF P!PublishedTypeOK, P!shelf
<1>4. UNCHANGED P!keys => Keys2
  BY <1>2 DEF P!PublishedTypeOK, P!keys
<1>5. UNCHANGED P!reading => Rest
  BY <1>2 DEF P!PublishedTypeOK, P!reading
<1>6. UNCHANGED P!ghosts => Ghosts
  BY <1>2 DEF P!PublishedTypeOK, P!ghosts
<1>7. /\ UNCHANGED trying => trying' \in P!Halves \cup {<<>>}
      /\ UNCHANGED mishaps => mishaps' \in 0..MaxPlanned
      /\ P!Change => mishaps' \in 0..MaxPlanned
  BY <1>2, PublishedFacts DEF P!PublishedTypeOK, P!Change
<1> USE PublishedFacts
<1>8. ASSUME NEW what \in {"services", "groups"}, P!Begin(what) PROVE P!PublishedTypeOK'
  <2>1. Rest
    BY <1>2, <1>8, TypedCredentials DEF P!Begin, P!PublishedTypeOK
  <2>2. Ghosts
    BY <1>2, <1>8 DEF P!Begin, P!PublishedTypeOK, P!ghosts
  <2> HIDE DEF Shelf, Keys2, Rest, Ghosts
  <2> QED  BY <1>1, <1>3, <1>4, <1>7, <1>8, <2>1, <2>2 DEF P!Begin
<1>9. CASE P!Refuse \/ P!FoldersRefused \/ P!ServicesRead
  <2>1. Rest
    BY <1>2, <1>9 DEF P!Refuse, P!FoldersRefused, P!ServicesRead, P!Over, P!Thrown,
       P!PublishedTypeOK
  <2> HIDE DEF Shelf, Keys2, Rest, Ghosts
  <2> QED
    BY <1>1, <1>3, <1>4, <1>6, <1>7, <1>9, <2>1 DEF P!Refuse, P!FoldersRefused, P!ServicesRead
<1>10. CASE P!ReadPlans
  <2>1. ahead' \subseteq P!Plans
    BY <1>2, <1>10 DEF P!ReadPlans, P!Upcoming, P!PublishedTypeOK
  <2>2. Rest
    BY <1>2, <1>10, <2>1 DEF P!ReadPlans, P!PublishedTypeOK
  <2> HIDE DEF Shelf, Keys2, Rest, Ghosts
  <2> QED  BY <1>1, <1>3, <1>4, <1>6, <1>7, <1>10, <2>2 DEF P!ReadPlans
<1>11. CASE P!ReadTimes
  <2>1. Rest
    BY <1>2, <1>11 DEF P!ReadTimes, P!PublishedTypeOK
  <2> HIDE DEF Shelf, Keys2, Rest, Ghosts
  <2> QED  BY <1>1, <1>3, <1>4, <1>6, <1>7, <1>11, <2>1 DEF P!ReadTimes
<1>12. CASE P!ReadTypes
  <2>1. Rest
    BY <1>2, <1>12 DEF P!ReadTypes, P!PublishedTypeOK
  <2> HIDE DEF Shelf, Keys2, Rest, Ghosts
  <2> QED  BY <1>1, <1>3, <1>4, <1>6, <1>7, <1>12, <2>1 DEF P!ReadTypes
<1>13. CASE P!ReadFolders
  <2>1. PICK page \in P!Rows(P!Slice(P!Folders, offset, PageSize)) :
          nested' = nested \cup {<<f, parent[f]>> : f \in page}
    BY <1>13 DEF P!ReadFolders
  <2>2. page \subseteq P!Folders
    BY <2>1
  <2>3. nested' \subseteq P!Folders \X P!Parents
    BY <1>2, <2>1, <2>2 DEF P!PublishedTypeOK
  <2>4. /\ task' \in {"none", "services", "groups"} /\ offset' \in Nat
        /\ outcome' \in {"none", "failed", "listed"}
    BY <1>2, <1>13 DEF P!ReadFolders, P!Over, P!PublishedTypeOK
  <2>5. Rest
    BY <1>2, <1>13, <2>3, <2>4 DEF P!ReadFolders, P!PublishedTypeOK
  <2> HIDE DEF Shelf, Keys2, Rest, Ghosts
  <2> QED  BY <1>1, <1>3, <1>4, <1>6, <1>7, <1>13, <2>5 DEF P!ReadFolders
<1>14. CASE P!Deliver
  <2>1. Rest /\ Ghosts
    BY <1>2, <1>14 DEF P!Deliver, P!PublishedTypeOK
  <2> HIDE DEF Shelf, Keys2, Rest, Ghosts
  <2> QED  BY <1>1, <1>3, <1>4, <1>7, <1>14, <2>1 DEF P!Deliver
<1>15. ASSUME NEW t \in P!TimeIds, P!PlanTime(t) PROVE P!PublishedTypeOK'
  <2>1. Shelf
    BY <1>2, <1>15 DEF P!PlanTime, P!PublishedTypeOK
  <2>2. Ghosts
    BY <1>2, <1>15 DEF P!PlanTime, P!PublishedTypeOK, P!ghosts
  <2> HIDE DEF Shelf, Keys2, Rest, Ghosts
  <2> QED  BY <1>1, <1>4, <1>5, <1>7, <1>15, <2>1, <2>2 DEF P!PlanTime, P!Edit
<1>16. ASSUME NEW p \in P!Plans, P!PlanAhead(p) PROVE P!PublishedTypeOK'
  <2>1. Shelf
    BY <1>2, <1>16 DEF P!PlanAhead, P!PublishedTypeOK
  <2>2. Ghosts
    BY <1>2, <1>16 DEF P!PlanAhead, P!PublishedTypeOK, P!ghosts
  <2> HIDE DEF Shelf, Keys2, Rest, Ghosts
  <2> QED  BY <1>1, <1>4, <1>5, <1>7, <1>16, <2>1, <2>2 DEF P!PlanAhead, P!Edit
<1>17. CASE P!Arrange
  <2>1. Shelf
    BY <1>2, <1>17 DEF P!Arrange, P!PublishedTypeOK
  <2>2. Ghosts
    BY <1>2, <1>17 DEF P!Arrange, P!PublishedTypeOK
  <2> HIDE DEF Shelf, Keys2, Rest, Ghosts
  <2> QED  BY <1>1, <1>4, <1>5, <1>7, <1>17, <2>1, <2>2 DEF P!Arrange, P!Edit
<1>18. ASSUME NEW token \in 1..PastedTokens, P!Deactivate(token) PROVE P!PublishedTypeOK'
  <2>1. Keys2
    BY <1>2, <1>18 DEF P!Deactivate, P!PublishedTypeOK
  <2> HIDE DEF Shelf, Keys2, Rest, Ghosts
  <2> QED  BY <1>1, <1>3, <1>5, <1>6, <1>7, <1>18, <2>1 DEF P!Deactivate
<1>19. P!Killed => Rest /\ Ghosts /\ trying' \in P!Halves \cup {<<>>}
  BY DEF P!Killed
<1>20. ASSUME NEW token \in 1..PastedTokens, P!SaveCredentials(token) PROVE P!PublishedTypeOK'
  <2>1. Keys2
    BY <1>2, <1>20, TypedCredentials DEF P!SaveCredentials, P!PublishedTypeOK, P!Halves
  <2>2. trying' \in P!Halves \cup {<<>>}
    BY <1>19, <1>20 DEF P!SaveCredentials
  <2> HIDE DEF Shelf, Keys2, Rest, Ghosts
  <2> QED
    BY <1>1, <1>3, <1>5, <1>6, <1>7, <1>19, <1>20, <2>1, <2>2 DEF P!SaveCredentials
<1>21. CASE P!ClearCredentials
  <2>1. Keys2
    BY <1>2, <1>21, TypedCredentials DEF P!ClearCredentials, P!PublishedTypeOK, P!Halves
  <2> HIDE DEF Shelf, Keys2, Rest, Ghosts
  <2> QED
    BY <1>1, <1>3, <1>5, <1>6, <1>7, <1>19, <1>21, <2>1 DEF P!ClearCredentials
<1>22. CASE P!Check \/ P!Checked
  <2>1. trying' \in P!Halves \cup {<<>>}
    BY <1>22, TypedCredentials DEF P!Check, P!Checked
  <2> HIDE DEF Shelf, Keys2, Rest, Ghosts
  <2> QED  BY <1>1, <1>3, <1>4, <1>5, <1>6, <1>7, <1>22, <2>1 DEF P!Check, P!Checked
<1>23. CASE UNCHANGED publishedVars
  BY <1>2, <1>23 DEF publishedVars, P!PublishedTypeOK
<1> QED
  BY <1>8, <1>9, <1>10, <1>11, <1>12, <1>13, <1>14, <1>15, <1>16, <1>17, <1>18, <1>20, <1>21,
     <1>22, <1>23
  DEF P!PublishedNext

\* Whatever a step leaves alone is left alone by what is said of a reading.
LEMMA ReadingStays ==
  ASSUME ReadingInv,
         UNCHANGED <<plans, times, stage, ahead, got, stood, ever>>,
         task' = "services" \/ (outcome' = "listed" /\ stage' = "times") =>
           task = "services" \/ (outcome = "listed" /\ stage = "times")
  PROVE  ReadingInv'
BY DEF ReadingInv, P!PlanOf, P!Upcoming, P!Slice, P!Ranked

LEMMA ReadingStep ==
  ASSUME PublishedInv, [P!PublishedNext]_publishedVars, ~Odd
  PROVE  ReadingInv'
<1>1. P!PublishedTypeOK /\ ReadingInv
      /\ (outcome # "none" => task = "none")
      /\ (task = "services" => stage \in {"list", "times"})
      /\ (task = "services" /\ stage = "list" => got = {})
  BY DEF PublishedInv
<1>2. ASSUME task' # "services", outcome' # "listed" \/ stage' # "times" PROVE ReadingInv'
  BY <1>2 DEF ReadingInv
<1>3. ASSUME NEW what \in {"services", "groups"}, P!Begin(what) PROVE ReadingInv'
  <2>1. CASE task' = "services"
    <3>1. /\ what = "services" /\ got' = {} /\ stage' = "list" /\ UNCHANGED <<plans, times>>
          /\ stood' = {t \in P!TimeIds : P!PlanOf(t) \in P!Upcoming}
          /\ ever' = {[id |-> t, was |-> times[t]] : t \in {u \in P!TimeIds : times[u].there}}
      BY <1>3, <2>1 DEF P!Begin, P!shelf
    <3>2. P!Upcoming' = P!Upcoming
      BY <3>1 DEF P!Upcoming, P!Slice, P!Ranked
    <3> QED  BY <3>1, <3>2 DEF ReadingInv
  <2>2. CASE task' # "services"
    <3>1. outcome' # "listed"
      BY <1>3, <2>2 DEF P!Begin
    <3> QED  BY <1>2, <2>2, <3>1
  <2> QED  BY <2>1, <2>2
<1>4. CASE P!Refuse
  <2>1. task' = "none" /\ outcome' = "failed"
    BY <1>4 DEF P!Refuse, P!Over, P!Thrown
  <2> QED  BY <1>2, <2>1
<1>5. CASE P!FoldersRefused
  <2>1. task' = "none" /\ stage' = "folders"
    BY <1>5 DEF P!FoldersRefused, P!Over
  <2> QED  BY <1>2, <2>1
<1>6. CASE P!ReadPlans
  <2>1. /\ task = "services" /\ stage = "list" /\ ahead' = P!Upcoming
        /\ UNCHANGED <<plans, times, got, stood, ever>>
    BY <1>6, PublishedFacts DEF P!ReadPlans, P!shelf, P!ghosts
  <2>2. P!Upcoming' = P!Upcoming
    BY <2>1 DEF P!Upcoming, P!Slice, P!Ranked
  <2> QED  BY <1>1, <2>1, <2>2 DEF ReadingInv, P!PlanOf
<1>7. CASE P!ReadTimes
  <2>1. PICK p : /\ ahead' = ahead \ {p} /\ got' = got \cup P!PlanTimes(p)
                 /\ task = "services" /\ stage = "times"
                 /\ UNCHANGED <<plans, times, stood, ever, stage>>
    BY <1>7, PublishedFacts DEF P!ReadTimes, P!shelf, P!ghosts
  <2>2. P!Upcoming' = P!Upcoming
    BY <2>1 DEF P!Upcoming, P!Slice, P!Ranked
  <2>3. ASSUME NEW e \in P!PlanTimes(p) PROVE e \in ever /\ e.was.start \in {1, 2}
    <3>1. PICK t \in P!TimeIds : /\ e = [id |-> t, was |-> times[t]] /\ times[t].there
                                 /\ times[t].start # P!NoStart
      BY <2>3 DEF P!PlanTimes, P!TimesOf, P!Timed
    <3>2. times[t].start \in P!Starts
      BY <1>1 DEF P!PublishedTypeOK, P!Time
    <3> QED  BY <1>1, <2>1, <3>1, <3>2 DEF ReadingInv, P!Starts
  <2>4. ASSUME NEW t \in stood
        PROVE  \/ P!PlanOf(t) \in ahead'
               \/ ~times[t].there \/ times[t].start = P!NoStart
               \/ [id |-> t, was |-> times[t]] \in got'
    <3>1. CASE P!PlanOf(t) = p
      <4>1. t \in P!TimeIds
        BY <1>1 DEF P!PublishedTypeOK
      <4> QED  BY <2>1, <3>1, <4>1 DEF P!PlanTimes, P!TimesOf, P!Timed
    <3>2. CASE P!PlanOf(t) # p
      BY <1>1, <2>1, <3>2 DEF ReadingInv
    <3> QED  BY <3>1, <3>2
  <2>5. \A t \in stood' :
           \/ P!PlanOf(t) \in ahead'
           \/ ~times'[t].there \/ times'[t].start = P!NoStart
           \/ [id |-> t, was |-> times'[t]] \in got'
    BY <2>1, <2>4
  <2>6. \A e \in got' : e \in ever' /\ e.was.start \in {1, 2}
    BY <1>1, <2>1, <2>3 DEF ReadingInv
  <2>7. /\ \A t \in P!TimeIds : times'[t].there => [id |-> t, was |-> times'[t]] \in ever'
        /\ \A t \in stood' : P!PlanOf(t) \in P!Upcoming'
    BY <1>1, <2>1, <2>2 DEF ReadingInv
  <2> QED  BY <2>5, <2>6, <2>7 DEF ReadingInv, P!PlanOf, P!NoStart
<1>8. CASE P!ServicesRead
  <2>1. task = "services" /\ UNCHANGED <<plans, times, stage, ahead, got, stood, ever>>
    BY <1>8 DEF P!ServicesRead, P!shelf, P!ghosts
  <2> QED  BY <1>1, <2>1, ReadingStays
<1>9. CASE P!ReadTypes
  <2>1. task' = "groups" /\ outcome' = "none"
    BY <1>1, <1>9 DEF P!ReadTypes, P!PublishedTypeOK
  <2> QED  BY <1>2, <2>1
<1>10. CASE P!ReadFolders
  <2>1. task' # "services" /\ stage' = "folders"
    BY <1>10 DEF P!ReadFolders, P!Over
  <2> QED  BY <1>2, <2>1
<1>11. CASE P!Deliver
  <2>1. task' # "services" /\ outcome' = "none"
    BY <1>1, <1>11 DEF P!Deliver
  <2> QED  BY <1>2, <2>1
<1>12. ASSUME NEW t \in P!TimeIds, P!PlanTime(t) PROVE ReadingInv'
  <2>1. outcome = "none" /\ UNCHANGED <<plans, task, stage, ahead, got, outcome>>
    BY <1>12 DEF P!PlanTime, P!Edit, P!reading
  <2>2. CASE task = "services"
    <3>1. PICK now \in P!Time :
            /\ times' = [times EXCEPT ![t] = now] /\ stood' = stood \ {t}
            /\ ever' = ever \cup (IF now.there THEN {[id |-> t, was |-> now]} ELSE {})
      BY <1>12, <2>2 DEF P!PlanTime
    <3>2. P!Upcoming' = P!Upcoming
      BY <2>1 DEF P!Upcoming, P!Slice, P!Ranked
    <3>3. /\ times'[t] = now /\ \A u \in P!TimeIds \ {t} : times'[u] = times[u]
          /\ stood \subseteq P!TimeIds
      BY <1>1, <3>1 DEF P!PublishedTypeOK
    <3>4. \A u \in P!TimeIds : times'[u].there => [id |-> u, was |-> times'[u]] \in ever'
      BY <1>1, <2>2, <3>1, <3>3 DEF ReadingInv
    <3>5. /\ \A e \in got' : e \in ever' /\ e.was.start \in {1, 2}
          /\ \A u \in stood' : P!PlanOf(u) \in P!Upcoming'
      BY <1>1, <2>1, <2>2, <3>1, <3>2 DEF ReadingInv
    <3>6. stage' = "times" => \A u \in stood' :
            \/ P!PlanOf(u) \in ahead'
            \/ ~times'[u].there \/ times'[u].start = P!NoStart
            \/ [id |-> u, was |-> times'[u]] \in got'
      BY <1>1, <2>1, <2>2, <3>1, <3>3 DEF ReadingInv
    <3> QED  BY <3>4, <3>5, <3>6 DEF ReadingInv, P!PlanOf, P!NoStart
  <2>3. CASE task # "services"
    BY <1>2, <2>1, <2>3
  <2> QED  BY <2>2, <2>3
<1>13. ASSUME NEW p \in P!Plans, P!PlanAhead(p) PROVE ReadingInv'
  <2>1. outcome = "none" /\ UNCHANGED <<times, task, stage, ahead, got, outcome>>
    BY <1>13 DEF P!PlanAhead, P!Edit, P!reading
  <2>2. CASE task = "services"
    <3>1. /\ stood' = {t \in stood : P!PlanOf(t) \in P!Slice(plans', 0, Cap)}
          /\ UNCHANGED ever
      BY <1>13, <2>2 DEF P!PlanAhead
    <3>2. P!Upcoming' = P!Slice(plans', 0, Cap)
      BY DEF P!Upcoming, P!Slice, P!Ranked
    <3>3. \A t \in stood' : P!PlanOf(t) \in P!Upcoming'
      BY <3>1, <3>2
    <3> QED  BY <1>1, <2>1, <2>2, <3>1, <3>3 DEF ReadingInv, P!PlanOf
  <2>3. CASE task # "services"
    BY <1>2, <2>1, <2>3
  <2> QED  BY <2>2, <2>3
<1>14. CASE P!Arrange
  <2>1. outcome' = "none" /\ UNCHANGED <<plans, times, stage, task, ahead, got, stood, ever>>
    BY <1>14 DEF P!Arrange, P!Edit, P!reading
  <2> QED  BY <1>1, <2>1, ReadingStays
<1>15. P!Killed => ReadingInv'
  <2>1. P!Killed => task' = "none" /\ outcome' = "none"
    BY DEF P!Killed
  <2> QED  BY <1>2, <2>1
<1>16. ASSUME UNCHANGED <<P!shelf, P!reading, P!ghosts>> PROVE ReadingInv'
  <2>1. UNCHANGED <<plans, times, stage, task, outcome, ahead, got, stood, ever>>
    BY <1>16 DEF P!shelf, P!reading, P!ghosts
  <2> QED  BY <1>1, <2>1, ReadingStays
<1>17. ASSUME NEW token \in 1..PastedTokens, P!Deactivate(token) \/ P!SaveCredentials(token)
       PROVE  ReadingInv'
  BY <1>15, <1>16, <1>17 DEF P!Deactivate, P!SaveCredentials
<1>18. CASE P!ClearCredentials \/ P!Check \/ P!Checked
  BY <1>15, <1>16, <1>18 DEF P!ClearCredentials, P!Check, P!Checked
<1>19. CASE UNCHANGED publishedVars
  BY <1>16, <1>19 DEF publishedVars, P!shelf, P!reading, P!ghosts
<1> QED
  BY <1>3, <1>4, <1>5, <1>6, <1>7, <1>8, <1>9, <1>10, <1>11, <1>12, <1>13, <1>14, <1>17, <1>18,
     <1>19
  DEF P!PublishedNext

LEMMA HalvesStep ==
  ASSUME PublishedInv, [P!PublishedNext]_publishedVars PROVE P!HalfIsNone'
<1> DEFINE Whole(h) == h = <<>> \/ ((h[1] = 0) = (h[2] = 0))
<1>1. P!HalfIsNone' <=> Whole(pair') /\ Whole(trying')
  BY DEF P!HalfIsNone
<1>2. Whole(pair) /\ Whole(trying)
  BY DEF PublishedInv, P!HalfIsNone
<1>3. Whole(<<0, 0>>) /\ Whole(<<>>) /\ Whole(P!Credentials)
  BY TypedCredentials
<1>4. \A t \in 1..PastedTokens : Whole(<<t, t>>)
  OBVIOUS
<1>5. pair' \in {pair, <<0, 0>>, P!Credentials}
  BY DEF P!PublishedNext, publishedVars, P!Begin, P!Refuse, P!FoldersRefused, P!ReadPlans,
     P!ReadTimes, P!ServicesRead, P!ReadTypes, P!ReadFolders, P!Deliver, P!PlanTime, P!PlanAhead,
     P!Arrange, P!Deactivate, P!SaveCredentials, P!ClearCredentials, P!Check, P!Checked,
     P!Killed, P!reading
<1>6. trying' \in {trying, <<>>, P!Credentials} \cup {<<t, t>> : t \in 1..PastedTokens}
  BY DEF P!PublishedNext, publishedVars, P!Begin, P!Refuse, P!FoldersRefused, P!ReadPlans,
     P!ReadTimes, P!ServicesRead, P!ReadTypes, P!ReadFolders, P!Deliver, P!PlanTime, P!PlanAhead,
     P!Arrange, P!Deactivate, P!SaveCredentials, P!ClearCredentials, P!Check, P!Checked,
     P!Killed
<1> HIDE DEF Whole
<1> QED  BY <1>1, <1>2, <1>3, <1>4, <1>5, <1>6

LEMMA StagesStep ==
  ASSUME PublishedInv, [P!PublishedNext]_publishedVars
  PROVE  /\ outcome' # "none" => task' = "none"
         /\ task' = "services" => stage' \in {"list", "times"}
         /\ task' = "services" /\ stage' = "list" => got' = {}
         /\ outcome' = "listed" /\ stage' = "times" => ahead' = {}
<1> DEFINE Goal == /\ outcome' # "none" => task' = "none"
                   /\ task' = "services" => stage' \in {"list", "times"}
                   /\ task' = "services" /\ stage' = "list" => got' = {}
                   /\ outcome' = "listed" /\ stage' = "times" => ahead' = {}
<1>1. /\ outcome # "none" => task = "none"
      /\ task = "services" => stage \in {"list", "times"}
      /\ task = "services" /\ stage = "list" => got = {}
      /\ outcome = "listed" /\ stage = "times" => ahead = {}
  BY DEF PublishedInv
<1>2. ASSUME NEW what \in {"services", "groups"}, P!Begin(what) PROVE Goal
  BY <1>1, <1>2 DEF P!Begin
<1>3. ASSUME P!Refuse \/ P!FoldersRefused PROVE Goal
  BY <1>1, <1>3 DEF P!Refuse, P!FoldersRefused, P!Over, P!Thrown
<1>4. ASSUME P!ReadPlans \/ P!ReadTimes PROVE Goal
  BY <1>1, <1>4 DEF P!ReadPlans, P!ReadTimes
<1>5. ASSUME P!ServicesRead \/ P!Deliver PROVE Goal
  BY <1>1, <1>5 DEF P!ServicesRead, P!Deliver, P!Over
<1>6. ASSUME P!ReadTypes \/ P!ReadFolders PROVE Goal
  <2>1. task' # "services" /\ (outcome' # "none" => task' = "none")
        /\ (outcome' = "listed" => stage' # "times")
    BY <1>1, <1>6 DEF P!ReadTypes, P!ReadFolders, P!Over
  <2> QED  BY <2>1
<1>7. P!Killed => Goal
  BY DEF P!Killed
<1>8. UNCHANGED P!reading => Goal
  BY <1>1 DEF P!reading
<1> HIDE DEF Goal
<1>9. ASSUME NEW t \in P!TimeIds, P!PlanTime(t) PROVE Goal
  BY <1>8, <1>9 DEF P!PlanTime
<1>10. ASSUME NEW p \in P!Plans, P!PlanAhead(p) PROVE Goal
  BY <1>8, <1>10 DEF P!PlanAhead
<1>11. ASSUME NEW token \in 1..PastedTokens, P!Deactivate(token) \/ P!SaveCredentials(token)
       PROVE  Goal
  BY <1>7, <1>8, <1>11 DEF P!Deactivate, P!SaveCredentials
<1>12. ASSUME P!Arrange \/ P!ClearCredentials \/ P!Check \/ P!Checked PROVE Goal
  BY <1>7, <1>8, <1>12 DEF P!Arrange, P!ClearCredentials, P!Check, P!Checked
<1>13. ASSUME UNCHANGED publishedVars PROVE Goal
  BY <1>8, <1>13 DEF publishedVars, P!reading
<1>14. Goal
  BY <1>2, <1>3, <1>4, <1>5, <1>6, <1>9, <1>10, <1>11, <1>12, <1>13 DEF P!PublishedNext
<1> QED  BY <1>14 DEF Goal

LEMMA PublishedStep ==
  ASSUME PublishedInv, [P!PublishedNext]_publishedVars PROVE PublishedInv'
BY PublishedTyped, HalvesStep, StagesStep, ReadingStep DEF PublishedInv

LEMMA ReadingShows == ASSUME PublishedInv, ~Odd PROVE P!ReadingIsTheShelf
<1> SUFFICES ASSUME outcome = "listed", stage = "times" PROVE P!ReadingIsTheShelf
  BY DEF P!ReadingIsTheShelf
<1>1. /\ ReadingInv /\ times \in [P!TimeIds -> P!Time] /\ stood \subseteq P!TimeIds
      /\ ahead = {}
  BY DEF PublishedInv, P!PublishedTypeOK
<1>2. ASSUME NEW t \in stood, times[t].there, times[t].kind # "rehearsal",
             times[t].start # P!NoStart
      PROVE  [id |-> t, start |-> times[t].start] \in P!Announced
  <2>1. PICK e : e = [id |-> t, was |-> times[t]]
    OBVIOUS
  <2>2. e \in got
    BY <1>1, <1>2, <2>1 DEF ReadingInv
  <2>3. times[t].kind \in {"service", "unsaid"}
    BY <1>1, <1>2 DEF P!Time, P!Kinds
  <2>4. e.id = t /\ e.was = times[t]
    BY <2>1
  <2>5. P!IsService(e.was)
    BY <2>3, <2>4 DEF P!IsService
  <2>6. [id |-> e.id, start |-> e.was.start] \in P!Announced
    BY <2>2, <2>5 DEF P!Announced
  <2> QED  BY <2>4, <2>6
<1>3. ASSUME NEW s \in P!Announced
      PROVE  s.start > 0
             /\ \E e \in ever : e.id = s.id /\ e.was.start = s.start /\ e.was.kind # "rehearsal"
  <2>1. PICK e \in got : P!IsService(e.was) /\ s = [id |-> e.id, start |-> e.was.start]
    BY DEF P!Announced
  <2>2. s.id = e.id /\ s.start = e.was.start
    BY <2>1
  <2>3. e \in ever /\ e.was.start \in {1, 2}
    BY <1>1 DEF ReadingInv
  <2>4. e.was.kind # "rehearsal"
    BY <2>1 DEF P!IsService
  <2> QED  BY <2>2, <2>3, <2>4
<1> QED  BY <1>2, <1>3 DEF P!ReadingIsTheShelf
-----------------------------------------------------------------------------
(* Types *)

\* What WatchInv does not say of the types.
WatchRest ==
  /\ hour \in 0..LastHour /\ checked \in -1..LastHour
  /\ standing \in [Ahead -> {"pending", "skipped", "gone"}]
  /\ check.found \subseteq {"event", "device", "account"}
  /\ \A o \in Ahead : spoken[o] \subseteq (SUBSET {"event", "device", "account"}) \ {{}}
  /\ onAir \subseteq 1..2 /\ warned \subseteq 1..2 /\ samples \subseteq 1..2
  /\ cache \in Percents \cup {0} /\ threshold \in Percents
  /\ streaming \in BOOLEAN /\ upsets \in 0..MaxUpsets

LEMMA WatchTyped == WatchInv /\ WatchRest => W!WatchTypeOK
<1> SUFFICES ASSUME WatchInv, WatchRest PROVE W!WatchTypeOK
  OBVIOUS
<1>1. {faults[o] : o \in Ahead} \cup {lasting[o] : o \in Ahead} \subseteq SUBSET W!Faults
  BY DEF WatchInv
<1>2. /\ hour \in 0..LastHour /\ checked \in -1..LastHour
      /\ standing \in [Ahead -> {"pending", "skipped", "gone"}]
      /\ check.found \subseteq W!Faults
      /\ onAir \subseteq W!Runs /\ warned \subseteq W!Runs /\ samples \subseteq W!Runs
      /\ cache \in Percents \cup {0} /\ threshold \in Percents
      /\ streaming \in BOOLEAN /\ upsets \in 0..MaxUpsets
  BY DEF WatchRest, W!Faults, W!Runs
<1>3. \A o \in Ahead : spoken[o] \subseteq (SUBSET W!Faults) \ {{}}
  BY DEF WatchRest, W!Faults
<1>4. /\ check.pc \in {"idle", "next", "device", "account", "sample"} /\ check.left \subseteq Ahead
      /\ alarms \in [W!Runs -> Nat]
  BY DEF WatchInv
<1> QED  BY <1>1, <1>2, <1>3, <1>4 DEF W!WatchTypeOK

LEMMA WatchRestHolds == W!WatchInit => WatchRest
<1> SUFFICES ASSUME W!WatchInit PROVE WatchRest
  OBVIOUS
<1>1. Percents \in SUBSET Nat /\ Percents # {} /\ LastHour \in Nat /\ MaxUpsets \in Nat
  BY RecordsAssumption DEF W!WatchAssumption
<1>2. threshold \in Percents
  <2>1. \E p \in Percents : \A q \in Percents : p <= q
    BY <1>1, LeastOf
  <2> QED  BY <2>1 DEF W!WatchInit
<1>3. hour \in 0..LastHour /\ checked \in -1..LastHour /\ upsets \in 0..MaxUpsets
  BY <1>1 DEF W!WatchInit
<1> QED  BY <1>2, <1>3 DEF W!WatchInit, WatchRest, W!Resting

LEMMA WatchRestStep ==
  ASSUME WatchInv, WatchRest, [W!WatchNext]_watchVars PROVE WatchRest'
<1> DEFINE Found == check'.found \subseteq {"event", "device", "account"}
           Said == \A o \in Ahead : spoken'[o] \subseteq (SUBSET {"event", "device", "account"}) \ {{}}
           Times == hour' \in 0..LastHour /\ checked' \in -1..LastHour
           Standing == standing' \in [Ahead -> {"pending", "skipped", "gone"}]
           Air == /\ onAir' \subseteq 1..2 /\ warned' \subseteq 1..2 /\ samples' \subseteq 1..2
                  /\ streaming' \in BOOLEAN
           Full == cache' \in Percents \cup {0} /\ threshold' \in Percents
           Upsets == upsets' \in 0..MaxUpsets
<1>1. Found /\ Said /\ Times /\ Standing /\ Air /\ Full /\ Upsets => WatchRest'
  BY DEF WatchRest
<1>2. /\ UNCHANGED check => Found
      /\ UNCHANGED spoken => Said
      /\ UNCHANGED <<hour, checked>> => Times
      /\ UNCHANGED standing => Standing
      /\ UNCHANGED <<onAir, warned, samples, streaming>> => Air
      /\ UNCHANGED <<cache, threshold>> => Full
      /\ UNCHANGED upsets => Upsets
  BY DEF WatchRest
<1>3. W!Upset => Upsets
  BY RecordsAssumption DEF W!Upset, WatchRest, W!WatchAssumption
<1>4. ASSUME NEW o \in Ahead, NEW f \in W!Faults, W!Fault(o, f) \/ W!Repair(o, f)
      PROVE  WatchRest'
  <2> HIDE DEF Found, Said, Times, Standing, Air, Full, Upsets
  <2> QED  BY <1>1, <1>2, <1>3, <1>4 DEF W!Fault, W!Repair
<1>5. ASSUME NEW o \in Ahead, NEW how \in {"skipped", "gone"}, W!SkipOrDelete(o, how)
      PROVE  WatchRest'
  <2>1. Standing
    BY <1>5 DEF W!SkipOrDelete, WatchRest
  <2> HIDE DEF Found, Said, Times, Standing, Air, Full, Upsets
  <2> QED  BY <1>1, <1>2, <1>3, <1>5, <2>1 DEF W!SkipOrDelete
<1>6. ASSUME NEW r \in W!Runs, NEW active \in BOOLEAN, W!Service(r, active) PROVE WatchRest'
  <2>1. Air
    BY <1>6 DEF W!Service, WatchRest, W!Runs
  <2> HIDE DEF Found, Said, Times, Standing, Air, Full, Upsets
  <2> QED  BY <1>1, <1>2, <1>3, <1>6, <2>1 DEF W!Service
<1>7. ASSUME NEW p \in Percents \cup {0}, W!CacheMoves(p) \/ W!SetThreshold(p)
      PROVE  WatchRest'
  <2>1. Full
    BY <1>7 DEF W!CacheMoves, W!SetThreshold, WatchRest
  <2> HIDE DEF Found, Said, Times, Standing, Air, Full, Upsets
  <2> QED  BY <1>1, <1>2, <1>3, <1>7, <2>1 DEF W!CacheMoves, W!SetThreshold
<1>8. ASSUME W!Restart PROVE WatchRest'
  <2>1. Found /\ Air
    BY <1>8 DEF W!Restart, WatchRest, W!Resting
  <2>2. Times
    BY <1>8, RecordsAssumption DEF W!Restart, WatchRest, W!WatchAssumption
  <2> HIDE DEF Found, Said, Times, Standing, Air, Full, Upsets
  <2> QED  BY <1>1, <1>2, <1>3, <1>8, <2>1, <2>2 DEF W!Restart
<1>9. ASSUME W!NextHour PROVE WatchRest'
  <2>1. Times
    BY <1>9, RecordsAssumption DEF W!NextHour, WatchRest, W!WatchAssumption
  <2>2. Air
    BY <1>9 DEF W!NextHour, WatchRest
  <2> HIDE DEF Found, Said, Times, Standing, Air, Full, Upsets
  <2> QED  BY <1>1, <1>2, <1>9, <2>1, <2>2 DEF W!NextHour
<1>10. ASSUME W!Tick PROVE WatchRest'
  <2>1. Found
    BY <1>10 DEF W!Tick, W!Resting
  <2>2. Times
    BY <1>10, RecordsAssumption DEF W!Tick, WatchRest, W!WatchAssumption
  <2> HIDE DEF Found, Said, Times, Standing, Air, Full, Upsets
  <2> QED  BY <1>1, <1>2, <1>10, <2>1, <2>2 DEF W!Tick
<1>11. ASSUME W!Look PROVE WatchRest'
  <2>1. Found
    BY <1>11 DEF W!Look, W!Resting
  <2> HIDE DEF Found, Said, Times, Standing, Air, Full, Upsets
  <2> QED  BY <1>1, <1>2, <1>11, <2>1 DEF W!Look
<1>12. ASSUME W!DeviceAnswers PROVE WatchRest'
  <2>1. PICK l, a, f : check = [pc |-> "device", left |-> l, at |-> a, found |-> f]
    BY <1>12 DEF W!DeviceAnswers, WatchInv
  <2>2. check' = [pc |-> "account", left |-> l, at |-> a,
                  found |-> f \cup (faults[a] \cap {"device"})]
    BY <1>12, <2>1 DEF W!DeviceAnswers
  <2>3. Found
    BY <2>1, <2>2 DEF WatchRest
  <2> HIDE DEF Found, Said, Times, Standing, Air, Full, Upsets
  <2> QED  BY <1>1, <1>2, <1>12, <2>3 DEF W!DeviceAnswers
<1>13. ASSUME W!AccountAnswers PROVE WatchRest'
  <2>1. PICK o : o = check.at
    OBVIOUS
  <2>2. o \in Ahead /\ DOMAIN spoken = Ahead
    BY <1>13, <2>1 DEF W!AccountAnswers, WatchInv
  <2>3. PICK broken \in BOOLEAN :
          broken <=> ("event" \in faults[o] \/ standing[o] = "gone")
    OBVIOUS
  <2>4. PICK found : found = check.found \cup (faults[o] \cap {"account"})
                               \cup (IF broken THEN {"event"} ELSE {})
    OBVIOUS
  <2>5. found \subseteq {"event", "device", "account"}
    BY <2>4 DEF WatchRest
  <2>6. spoken' = IF found = {} THEN spoken ELSE [spoken EXCEPT ![o] = W!Queued(o, found)]
    BY <1>13, <2>1, <2>3, <2>4 DEF W!AccountAnswers
  <2>7. Said
    <3>1. CASE found = {}
      BY <2>6, <3>1 DEF WatchRest
    <3>2. CASE found # {}
      <4>1. \A p \in Ahead : spoken'[p] = IF p = o THEN spoken[o] \cup {found} ELSE spoken[p]
        BY <2>2, <2>6, <3>2 DEF W!Queued
      <4>2. {found} \subseteq (SUBSET {"event", "device", "account"}) \ {{}}
        BY <2>5, <3>2
      <4>3. \A p \in Ahead : spoken[p] \subseteq (SUBSET {"event", "device", "account"}) \ {{}}
        BY DEF WatchRest
      <4>4. SUFFICES ASSUME NEW p \in Ahead
                     PROVE  spoken'[p] \subseteq (SUBSET {"event", "device", "account"}) \ {{}}
        BY DEF Said
      <4>5. CASE p = o
        BY <2>2, <4>1, <4>2, <4>3, <4>5
      <4>6. CASE p # o
        BY <4>1, <4>3, <4>6
      <4> QED  BY <4>5, <4>6
    <3> QED  BY <3>1, <3>2
  <2>8. Found
    BY <1>13 DEF W!AccountAnswers, W!Resting
  <2> HIDE DEF Found, Said, Times, Standing, Air, Full, Upsets
  <2> QED  BY <1>1, <1>2, <1>13, <2>7, <2>8 DEF W!AccountAnswers
<1>14. ASSUME W!Sample PROVE WatchRest'
  <2>1. Found
    BY <1>14 DEF W!Sample, W!Resting
  <2>2. Air
    BY <1>14 DEF W!Sample, WatchRest
  <2> HIDE DEF Found, Said, Times, Standing, Air, Full, Upsets
  <2> QED  BY <1>1, <1>2, <1>14, <2>1, <2>2 DEF W!Sample
<1>15. ASSUME UNCHANGED watchVars PROVE WatchRest'
  BY <1>15 DEF watchVars, WatchRest
<1> QED
  BY <1>4, <1>5, <1>6, <1>7, <1>8, <1>9, <1>10, <1>11, <1>12, <1>13, <1>14, <1>15 DEF W!WatchNext

\* What UpgradeInv does not say of the types, and what there is to read.
UpgradeRest ==
  /\ graph \in Graphs /\ source \in Devices \cup {U!None} /\ outputs \subseteq U!Output
  /\ oldRun \in {"none", "live", "over"} /\ planned \in U!Versions \cup {0}
  /\ edited \in 0..MaxEdits

LEMMA ConversionTyped ==
  ASSUME NEW g \in Graphs, U!UpgradeAssumption
  PROVE  U!SourceOf(g) \in Devices \cup {U!None} /\ U!Converted(g) \subseteq U!Output
<1>1. g.nodes \in Seq(U!Node) /\ g.destinations \subseteq Destinations
  BY DEF U!UpgradeAssumption
<1>2. DOMAIN g.nodes \in SUBSET Nat /\ \A i \in DOMAIN g.nodes : g.nodes[i] \in U!Node
  BY <1>1
<1>3. U!Streaming(g) \subseteq U!Nodes(g) /\ U!RecordingOf(g) \subseteq U!Nodes(g)
      /\ U!Nodes(g) \subseteq DOMAIN g.nodes
  BY DEF U!Streaming, U!RecordingOf, U!Nodes
<1>4. \A i \in U!Nodes(g) : /\ g.nodes[i].device \in Devices \cup {U!None}
                            /\ g.nodes[i].ingest \in Destinations \cup Keys \cup {U!None}
  BY <1>2, <1>3 DEF U!Node
<1>5. U!SourceOf(g) \in Devices \cup {U!None}
  <2>1. PICK s : s = IF U!Streaming(g) # {} THEN U!Streaming(g) ELSE U!Nodes(g)
    OBVIOUS
  <2>2. s \subseteq U!Nodes(g) /\ s \in SUBSET Nat
    BY <1>2, <1>3, <2>1
  <2>3. U!SourceOf(g) = IF s = {} THEN U!None
                        ELSE g.nodes[CHOOSE i \in s : \A j \in s : i <= j].device
    BY <2>1 DEF U!SourceOf
  <2>4. CASE s = {}
    BY <2>3, <2>4
  <2>5. CASE s # {}
    <3>1. \E i \in s : \A j \in s : i <= j
      BY <2>2, <2>5, LeastOf
    <3>2. PICK i \in s : i = CHOOSE k \in s : \A j \in s : k <= j
      BY <3>1
    <3> QED  BY <1>4, <2>2, <2>3, <2>5, <3>2
  <2> QED  BY <2>4, <2>5
<1>6. \A i \in U!Nodes(g) : U!DeviceColumn(g, g.nodes[i]) \in Devices \cup {U!None}
  BY <1>4 DEF U!DeviceColumn
<1>7. U!Unclaimed(g) \subseteq Destinations
  BY <1>1 DEF U!Unclaimed
<1>8. U!None = "none"
  BY DEF U!None
<1>9. ASSUME NEW o \in U!Converted(g) PROVE o \in U!Output
  <2>1. CASE \E i \in U!Streaming(g) :
               o = [kind |-> "stream", device |-> U!DeviceColumn(g, g.nodes[i]),
                    to |-> g.nodes[i].ingest]
    BY <1>3, <1>4, <1>6, <2>1 DEF U!Output
  <2>2. CASE \E d \in U!Unclaimed(g) : o = [kind |-> "stream", device |-> U!None, to |-> d]
    BY <1>7, <2>2 DEF U!Output
  <2>3. CASE \E i \in U!RecordingOf(g) :
               o = [kind |-> "recording", device |-> U!DeviceColumn(g, g.nodes[i]), to |-> U!None]
    BY <1>3, <1>6, <2>3 DEF U!Output
  <2> QED  BY <1>9, <2>1, <2>2, <2>3 DEF U!Converted
<1> QED  BY <1>5, <1>9

LEMMA UpgradeRestHolds == ASSUME U!UpgradeAssumption PROVE U!UpgradeInit => UpgradeRest
BY DEF U!UpgradeInit, U!UpgradeAssumption, UpgradeRest, U!Versions

LEMMA UpgradeRestStep ==
  ASSUME U!UpgradeAssumption, UpgradeInv, UpgradeRest, [U!UpgradeNext]_upgradeVars
  PROVE  UpgradeRest'
<1>1. ASSUME U!Stop \/ (\E b \in U!Versions : U!Start(b)) PROVE UpgradeRest'
  BY <1>1 DEF U!Stop, U!Start, UpgradeRest
<1>2. ASSUME U!RunBegins \/ U!RunEnds PROVE UpgradeRest'
  BY <1>2 DEF U!RunBegins, U!RunEnds, UpgradeRest, UpgradeInv, U!Versions
<1>3. ASSUME U!Edit PROVE UpgradeRest'
  <2>1. edited' \in 0..MaxEdits
    BY <1>3 DEF U!Edit, UpgradeRest, U!UpgradeAssumption
  <2>2. graph' \in Graphs /\ source' \in Devices \cup {U!None}
    BY <1>3 DEF U!Edit, UpgradeRest
  <2>3. ASSUME NEW d \in Devices, NEW s \in Destinations
        PROVE  [kind |-> "stream", device |-> IF version = 7 THEN d ELSE U!None, to |-> s]
                 \in U!Output
    BY DEF U!Output
  <2>4. outputs' \subseteq U!Output
    BY <1>3, <2>3 DEF U!Edit, UpgradeRest
  <2> QED  BY <1>3, <2>1, <2>2, <2>4 DEF U!Edit, UpgradeRest
<1>4. ASSUME U!Migrate PROVE UpgradeRest'
  <2>1. oldRun' \in {"none", "live", "over"} /\ planned' \in U!Versions \cup {0}
        /\ graph' \in Graphs /\ edited' \in 0..MaxEdits
    BY <1>4 DEF U!Migrate, UpgradeRest
  <2>2. source' \in Devices \cup {U!None} /\ outputs' \subseteq U!Output
    <3>1. CASE version' = 5
      BY <1>4, <3>1, ConversionTyped DEF U!Migrate, UpgradeRest
    <3>2. CASE version' = 7
      <4>1. ASSUME NEW o \in outputs PROVE U!Backfilled(o) \in U!Output
        <5>1. PICK k \in {"stream", "recording"}, d \in Devices \cup {U!None},
                   t \in Destinations \cup Keys \cup {U!None} :
                o = [kind |-> k, device |-> d, to |-> t]
          BY DEF UpgradeRest, U!Output
        <5>2. [o EXCEPT !.device = source] = [kind |-> k, device |-> source, to |-> t]
          BY <5>1
        <5> QED  BY <5>1, <5>2 DEF U!Backfilled, UpgradeRest, U!Output
      <4> QED  BY <1>4, <3>2, <4>1 DEF U!Migrate
    <3>3. CASE version' \notin {5, 7}
      BY <1>4, <3>3 DEF U!Migrate, UpgradeRest
    <3> QED  BY <3>1, <3>2, <3>3
  <2> QED  BY <2>1, <2>2 DEF UpgradeRest
<1>5. CASE UNCHANGED upgradeVars
  BY <1>5 DEF upgradeVars, UpgradeRest
<1> QED  BY <1>1, <1>2, <1>3, <1>4, <1>5 DEF U!UpgradeNext

LEMMA UpgradeTyped == UpgradeInv /\ UpgradeRest => U!UpgradeTypeOK
BY DEF UpgradeInv, UpgradeRest, U!UpgradeTypeOK, U!Versions

LEMMA LibraryTyped == LibTypes => L!LibTypeOK
<1> SUFFICES ASSUME LibTypes PROVE L!LibTypeOK
  OBVIOUS
<1>1. \A s \in Sweeps : /\ sweep[s].is \in {"none", "listing", "prepared", "removing", "asked"}
                        /\ sweep[s].at \in 0..MaxTime /\ sweep[s].files \subseteq L!Planned
  BY DEF LibTypes, Sweep
<1>2. picked.is \in {"none", "described", "removing"}
  BY DEF LibTypes, Card
<1> QED  BY <1>1, <1>2 DEF LibTypes, LibRow, L!LibTypeOK

LEMMA BackupTyped == BackupTypes => B!BackupTypeOK
<1> SUFFICES ASSUME BackupTypes PROVE B!BackupTypeOK
  OBVIOUS
<1>1. B!NoTable = -1 /\ B!Junk.salt = -1 /\ B!Ours = 1 /\ B!Theirs = 2
  BY DEF B!NoTable, B!Junk, B!Ours, B!Theirs
<1>2. B!Junk # B!None /\ B!Junk \notin B!Database
  <2>1. B!None.salt = -2
    BY DEF B!None
  <2>2. \A d \in B!Database : d.salt \in {0, 1, 2}
    BY <1>1 DEF B!Database
  <2> QED  BY <1>1, <2>1, <2>2
<1>3. marker # B!Junk /\ {pending, marker} \subseteq B!Database \cup {B!None, B!Junk}
  BY <1>2 DEF BackupTypes
<1>4. ASSUME NEW c \in B!Range(shelf) \cup {kept}
      PROVE  c.copy \in B!Database \cup {B!None} /\ c.whole \in BOOLEAN
  <2>1. CASE c = kept
    BY <2>1 DEF BackupTypes
  <2>2. CASE c \in B!Range(shelf)
    <3>1. c \in Copies
      BY <2>2 DEF BackupTypes, B!Range
    <3> QED  BY <3>1 DEF Copies
  <2> QED  BY <1>4, <2>1, <2>2
<1>5. {saltFile, key} \subseteq {0, B!Ours, B!Theirs}
  BY DEF BackupTypes
<1> QED  BY <1>3, <1>4, <1>5 DEF BackupTypes, B!BackupTypeOK

LEMMA ReckoningTyped ==
  ASSUME ReckonInv, part = "reckoning" PROVE R!ReckonTypeOK
<1>1. question \in R!Questions /\ (answer = <<>> \/ answer = <<Answer(question)>>)
  BY DEF ReckonInv
<1>2. question.ask \in {"clash", "dates", "zone", "name"}
  BY <1>1, KindsOfQuestion
<1>3. Len(answer) \in 0..1
  <2>1. PICK a : answer = <<>> \/ answer = <<a>>
    BY <1>1
  <2> QED  BY <2>1
<1> QED  BY <1>2, <1>3 DEF R!ReckonTypeOK
-----------------------------------------------------------------------------
(* All of them together *)

LEMMA DeskAlways == RecordsSpec => []DeskInv
<1>1. RecordsInit => DeskInv
  BY RecordsAssumption, DeskHolds DEF RecordsInit
<1>2. DeskInv /\ [RecordsNext]_recordsVars => DeskInv'
  BY RecordsAssumption, StepOfDesk, DeskTypes, DeskRows, DeskTags DEF DeskInv
<1> QED  BY <1>1, <1>2, PTL DEF RecordsSpec

LEMMA DoorAlways == RecordsSpec => []DoorInv
<1>1. RecordsInit => DoorInv
  BY RecordsAssumption, DoorHolds DEF RecordsInit
<1>2. DoorInv /\ [RecordsNext]_recordsVars => DoorInv'
  BY RecordsAssumption, StepOfDoor, DoorStep
<1> QED  BY <1>1, <1>2, PTL DEF RecordsSpec

LEMMA TokensAlways == RecordsSpec => []TokenInv
<1>1. RecordsInit => TokenInv
  BY RecordsAssumption, TokensHold DEF RecordsInit
<1>2. TokenInv /\ [RecordsNext]_recordsVars => TokenInv'
  BY RecordsAssumption, StepOfAccounts, TokenStep
<1> QED  BY <1>1, <1>2, PTL DEF RecordsSpec

\* However many operators add outputs and remove devices, keys, services and events at once, an
\* output has all the rows that it refers to, and no tag is left on what is gone: also when a
\* device goes only after its connection was closed, which others do not wait for.
THEOREM NothingIsLeftDangling == RecordsSpec => []NothingDangles
<1>1. DeskInv => NothingDangles
  BY DEF DeskInv, NothingDangles
<1> QED  BY <1>1, DeskAlways, PTL

\* With one OAuth client, however many destinations share an account and refresh it by turns,
\* its token is one the service takes, or the one that is waits to be written down, except
\* where an answer was lost; the vault keeps a token for the accounts that are connected and no
\* other. Whatever was changed and by how many at once, whoever is signed in has signed in with
\* the password of now, unless the program stopped between writing it and revoking; that of the
\* environment is copied once at most; and who guesses gets no more attempts than the delays
\* allow, however they are timed.
THEOREM AccessIsKept == ASSUME OneClient PROVE RecordsSpec => []AccessHolds
<1>1. DoorInv /\ TokenInv => AccessHolds
  <2> SUFFICES ASSUME DoorInv, TokenInv PROVE AccessHolds
    OBVIOUS
  <2>1. S!SignedOut /\ S!SeededOnce /\ S!GuessesBounded
    BY RecordsAssumption, DoorShut
  <2>2. A!NoStrayToken
    BY DEF TokenInv, VaultInv
  <2>3. A!NobodyLockedOut
    BY DEF TokenInv, Reachable, A!NobodyLockedOut, Waiting
  <2> QED  BY <2>1, <2>2, <2>3 DEF AccessHolds
<1> QED  BY <1>1, DoorAlways, TokensAlways, PTL

\* The same without the first part, for any number of OAuth clients: connecting a channel again
\* with another client while its token is being refreshed may leave the vault with a token of
\* the wrong client, but with no token of an account that is gone, and the door is not affected.
THEOREM AccessIsKeptByAnyClients ==
  RecordsSpec => [](/\ A!NoStrayToken
                    /\ S!SignedOut /\ S!SeededOnce /\ S!GuessesBounded)
<1>1. DoorInv /\ TokenInv => /\ A!NoStrayToken
                             /\ S!SignedOut /\ S!SeededOnce /\ S!GuessesBounded
  BY RecordsAssumption, DoorShut DEF TokenInv, VaultInv
<1> QED  BY <1>1, DoorAlways, TokensAlways, PTL

LEMMA LibraryAlways == RecordsSpec => []LibInv
<1>1. RecordsInit => LibInv
  BY RecordsAssumption, LibHolds DEF RecordsInit
<1>2. LibInv /\ [RecordsNext]_recordsVars => LibInv'
  BY RecordsAssumption, StepOfLibrary, LibStep
<1> QED  BY <1>1, <1>2, PTL DEF RecordsSpec

\* However many sweeps are under way, on lists of different ages, and whatever is recorded,
\* moved and removed meanwhile by hand or through the screen of the card, footage whose row says
\* deleted is off the card (of a recorder that tells the names it chose), and a sweep that marks
\* a row leaves the newest rows behind it.
THEOREM SweepsDoNoHarm == ASSUME Told PROVE RecordsSpec => SweepsAreSafe
<1>1. LibInv => L!DeletedIsGone
  BY DEF LibInv
<1>2. LibInv /\ [RecordsNext]_recordsVars =>
        [\A r \in Footage :
           ledger[r].is # "deleted" /\ ledger'[r].is = "deleted" =>
             L!Cardinality({q \in Footage : q > r /\ ledger[q].is \in {"open", "closed"}})
               >= KeepLast]_L!libVars
  BY RecordsAssumption, StepOfLibrary, MarkedRowHasEnough
<1> QED  BY <1>1, <1>2, LibraryAlways, PTL DEF RecordsSpec, SweepsAreSafe, L!NewestRowsStay

LEMMA UpgradeAlways == RecordsSpec => []UpgradeInv
<1>1. RecordsInit => UpgradeInv
  BY UpgradeHolds DEF RecordsInit
<1>2. UpgradeInv /\ [RecordsNext]_recordsVars => UpgradeInv'
  BY StepOfUpgrade, UpgradeStep
<1> QED  BY <1>1, <1>2, PTL DEF RecordsSpec

LEMMA BackupAlways == RecordsSpec => []BackupInv
<1>1. RecordsInit => BackupInv
  BY RecordsAssumption, BackupHolds DEF RecordsInit
<1>2. BackupInv /\ [RecordsNext]_recordsVars => BackupInv'
  BY RecordsAssumption, StepOfBackup, BackupStep
<1> QED  BY <1>1, <1>2, PTL DEF RecordsSpec

\* Of any pipeline, whatever was edited between the builds and wherever an upgrade was cut
\* short, no migration changes what an event drives, and no run that was planned against a
\* pipeline is driven against outputs. However often copies are made, fail, are staged and put
\* back, nothing that was in the database file is lost, its secrets can be read, and the last
\* copy that succeeded stays: if the program is not killed between two files that have to agree.
THEOREM DatabasesSurvive == ASSUME Careful PROVE RecordsSpec => DatabaseSurvives
<1>1. UpgradeInv => U!OldPlansEnd
  BY DEF UpgradeInv
<1>2. UpgradeInv /\ [RecordsNext]_recordsVars => [U!Migrate => U!Drives' = U!Drives]_U!upgradeVars
  BY StepOfUpgrade, MigrationsKeep DEF upgradeVars, U!upgradeVars
<1>3. BackupInv => B!NothingLost /\ B!SecretsReadable /\ B!LatestCopyStays
  BY BackupShows
<1> QED
  BY <1>1, <1>2, <1>3, UpgradeAlways, BackupAlways, PTL
  DEF RecordsSpec, DatabaseSurvives, U!UpgradeKeeps

\* The same but for the secrets, wherever the program is killed.
THEOREM RestoresLoseNothing ==
  RecordsSpec => U!UpgradeKeeps /\ [](U!OldPlansEnd /\ B!NothingLost /\ B!LatestCopyStays)
<1>1. UpgradeInv => U!OldPlansEnd
  BY DEF UpgradeInv
<1>2. UpgradeInv /\ [RecordsNext]_recordsVars => [U!Migrate => U!Drives' = U!Drives]_U!upgradeVars
  BY StepOfUpgrade, MigrationsKeep DEF upgradeVars, U!upgradeVars
<1>3. BackupInv => B!NothingLost /\ B!LatestCopyStays
  BY BackupShows
<1> QED
  BY <1>1, <1>2, <1>3, UpgradeAlways, BackupAlways, PTL DEF RecordsSpec, U!UpgradeKeeps

LEMMA WatchAlways == RecordsSpec => []WatchInv
<1>1. RecordsInit => WatchInv
  BY RecordsAssumption, WatchHolds DEF RecordsInit
<1>2. WatchInv /\ [RecordsNext]_recordsVars => WatchInv'
  BY RecordsAssumption, StepOfWatch, WatchStep
<1> QED  BY <1>1, <1>2, PTL DEF RecordsSpec

LEMMA ReckonAlways == RecordsSpec => []ReckonInv
<1>1. RecordsInit => ReckonInv
  BY ReckonHolds
<1>2. ReckonInv /\ [RecordsNext]_recordsVars => ReckonInv'
  BY ReckonStep
<1> QED  BY <1>1, <1>2, PTL DEF RecordsSpec

\* However faults come and go while a check looks at one device after the other, what was wrong
\* all the while has been said when the check is over, and nobody is told of a cache while the
\* encoder is off the air. Of any two outputs, a clash is found where there is one, of its kind,
\* and nowhere else; and no name reaches a service with a token that was not filled in.
THEOREM FaultsDoGetTold == RecordsSpec => FaultsAreTold
<1>1. WatchInv /\ [RecordsNext]_recordsVars =>
        /\ [check.pc = "next" /\ check'.pc = "sample" =>
              \A o \in W!Upcoming : lasting[o] \subseteq UNION spoken[o]]_W!watchVars
        /\ [\A r \in W!Runs : alarms'[r] > alarms[r] => streaming /\ r \in onAir]_W!watchVars
  BY StepOfWatch, WatchTells DEF watchVars, W!watchVars
<1>2. ReckonInv => R!ClashesAreTold /\ R!NamesAreFilledIn
  BY ClashesTold, NamesFilledIn
<1> QED
  BY <1>1, <1>2, WatchAlways, ReckonAlways, PTL
  DEF RecordsSpec, FaultsAreTold, W!StandingFaultsAreTold, W!AlarmedOnAir

\* In any zone whose offset is less than the day by which it is probed, wherever its clocks
\* change, a time on the wall becomes the first instant at which the clocks show it, and is
\* called ambiguous exactly when there is another; where they never show it, it is later by the
\* part of an hour that they leave out.
THEOREM ClocksOnTheWallAreKept == RecordsSpec => []R!WallTimeIsKept
<1>1. ReckonInv => R!WallTimeIsKept
  BY RecordsAssumption, WallTimeKept
<1> QED  BY <1>1, ReckonAlways, PTL

LEMMA CalendarAlways == RecordsSpec => []CalendarInv
<1>1. RecordsInit => CalendarInv
  BY CalendarHolds DEF RecordsInit
<1>2. CalendarInv /\ [RecordsNext]_recordsVars => CalendarInv'
  BY StepOfCalendar, CalendarStep
<1> QED  BY <1>1, <1>2, PTL DEF RecordsSpec

\* For any rules, plans, services and lead, and however many requests read the plan at once and
\* act on what they read later: what an operator decided about an occurrence outlives every
\* change of the rule, of the plan and of the pairing; and what begins within the lead is
\* neither moved nor withdrawn by a reading, however old that is.
THEOREM OperatorsHaveTheLastWord == RecordsSpec => OperatorsWordStands
<1>1. CalendarInv /\ [RecordsNext]_recordsVars =>
        /\ [\A t \in C!Days : slot[t].edited /\ slot'[t] # slot[t] => ~C!Automatic]_C!calVars
        /\ [\A t \in C!Days : C!Taken(slot, t) /\ C!Frozen(t) /\ slot'[t] # slot[t] =>
              ~\E r \in C!Readers : C!Reconcile(r)]_C!calVars
  <2> SUFFICES ASSUME CalendarInv
               PROVE  /\ \A t \in C!Days : slot[t].edited /\ slot'[t] # slot[t] => ~C!Automatic
                      /\ \A t \in C!Days : C!Taken(slot, t) /\ C!Frozen(t) /\ slot'[t] # slot[t] =>
                           ~\E r \in C!Readers : C!Reconcile(r)
    OBVIOUS
  <2> QED  BY AutomaticSpares, ReconcileSpares DEF Spares, FrozenStays
<1> QED
  BY <1>1, CalendarAlways, PTL DEF RecordsSpec, OperatorsWordStands, C!EditKept, C!FrozenKept

\* Whatever requests and late readings have left on it, the hourly pass leaves no occurrence to
\* come on the calendar that neither the rule nor the plan asks for, and no start without one.
THEOREM TheHourlyPassAgrees == RecordsSpec => C!CalendarAgrees
<1>1. CalendarInv /\ [RecordsNext]_recordsVars =>
        [C!Hourly =>
           /\ \A t \in C!Days : t >= day /\ C!Regular(slot', t) =>
                IF series.paired THEN slot'[t].ref # "none" ELSE t \in C!Wanted(series)
           /\ ~series.paired => \A t \in C!Wanted(series) : C!Taken(slot', t)]_C!calVars
  BY HourlyAgrees
<1> QED  BY <1>1, CalendarAlways, PTL DEF RecordsSpec, C!CalendarAgrees

LEMMA PublishedAlways == RecordsSpec => []PublishedInv
<1>1. RecordsInit => PublishedInv
  BY PublishedHolds DEF RecordsInit
<1>2. PublishedInv /\ [RecordsNext]_recordsVars => PublishedInv'
  BY StepOfPublished, PublishedStep
<1> QED  BY <1>1, <1>2, PTL DEF RecordsSpec

\* Of a source whose every answer is a list, with as many plans and times as there are, on pages
\* of any length, and whatever is changed on it between two pages: a time that stood all the
\* while, unless it is a rehearsal, is announced at its start, and what is announced was there
\* with that start, and no rehearsal, at some moment since the reading began.
THEOREM ReadingsAreTheShelf == ASSUME ~Odd PROVE RecordsSpec => []P!ReadingIsTheShelf
<1>1. PublishedInv => P!ReadingIsTheShelf
  BY ReadingShows
<1> QED  BY <1>1, PublishedAlways, PTL

\* However the two halves of a token are saved and cleared while a reading or a check goes on,
\* neither is made with one half alone.
THEOREM HalfATokenIsNone == RecordsSpec => []P!HalfIsNone
<1>1. PublishedInv => P!HalfIsNone
  BY DEF PublishedInv
<1> QED  BY <1>1, PublishedAlways, PTL

\* Every part of the records has the types that it is written with, whatever the sizes are.
THEOREM RecordsTypeCorrect == RecordsSpec => []RecordsTypeOK
<1> DEFINE Rest == part \in Parts /\ UpgradeRest /\ WatchRest
<1>1. RecordsInit => Rest
  BY RecordsAssumption, UpgradeRestHolds, WatchRestHolds DEF RecordsInit
<1>2. UpgradeInv /\ WatchInv /\ Rest /\ [RecordsNext]_recordsVars => Rest'
  <2> SUFFICES ASSUME UpgradeInv, WatchInv, Rest, [RecordsNext]_recordsVars PROVE Rest'
    OBVIOUS
  <2>1. part' = part
    BY StepOfReckoning
  <2> QED  BY <2>1, RecordsAssumption, StepOfUpgrade, StepOfWatch, UpgradeRestStep, WatchRestStep
<1>3. DeskInv /\ DoorInv /\ TokenInv /\ LibInv /\ UpgradeInv /\ BackupInv /\ WatchInv /\ ReckonInv
        /\ CalendarInv /\ PublishedInv /\ Rest => RecordsTypeOK
  <2> SUFFICES ASSUME DeskInv, DoorInv, TokenInv, LibInv, UpgradeInv, BackupInv, WatchInv,
                      ReckonInv, CalendarInv, PublishedInv, Rest
               PROVE  RecordsTypeOK
    OBVIOUS
  <2>1. /\ D!DeskTypeOK /\ S!SessionsTypeOK /\ A!AccTypeOK /\ C!CalTypeOK /\ P!PublishedTypeOK
        /\ LibTypes /\ BackupTypes
    BY DEF DeskInv, DoorInv, TokenInv, VaultInv, CalendarInv, PublishedInv, LibInv, BackupInv
  <2>2. L!LibTypeOK /\ B!BackupTypeOK /\ U!UpgradeTypeOK /\ W!WatchTypeOK
    BY <2>1, LibraryTyped, BackupTyped, UpgradeTyped, WatchTyped
  <2>3. part = "reckoning" => R!ReckonTypeOK
    BY ReckoningTyped
  <2>4. part \in Parts
    OBVIOUS
  <2> QED  BY Zenon, <2>1, <2>2, <2>3, <2>4 DEF RecordsTypeOK, Parts
<1> HIDE DEF Rest
<1> QED
  BY <1>1, <1>2, <1>3, DeskAlways, DoorAlways, TokensAlways, LibraryAlways, UpgradeAlways,
     BackupAlways, WatchAlways, ReckonAlways, CalendarAlways, PublishedAlways, PTL
  DEF RecordsSpec
=============================================================================
