------------------------------- MODULE Backup -------------------------------
(***************************************************************************)
(* Taking a copy of the database and putting one back (backup/): copies on *)
(* a schedule, a restore that is looked at, staged and swapped in by the   *)
(* next start, and the salt that the key of its secrets is derived with.   *)
(* The process may be killed between any two changes to the disk.          *)
(***************************************************************************)
EXTENDS Integers, Sequences, FiniteSets, SequencesExt

CONSTANTS
  MaxWork,      \* bound: changes committed to the database
  Keep,         \* how many scheduled copies are kept
  MaxCopies,    \* bound: scheduled copies taken, and downloads
  DiskFills,    \* whether the disk of the copies may be full
  MaxKills,     \* bound: how often the process is killed
  KillPoints    \* where in its work it may be killed

BackupAssumption ==
  /\ {MaxWork, MaxCopies, MaxKills} \subseteq Nat /\ Keep \in Nat \ {0}

\* A database: the changes it has, the salt under which its secrets were written (0: it has
\* none), and the salt in its table of the manifest (0: none was there; NoTable in a database
\* that is no backup). One of another install, and a file that is no database at all.
Work == 1..MaxWork
Ours == 1
Theirs == 2
NoTable == -1
Foreign == [has |-> {}, salt |-> Theirs, manifest |-> Theirs]
Junk == [has |-> {}, salt |-> -1, manifest |-> NoTable]
None == [has |-> {}, salt |-> -2, manifest |-> NoTable]
Database == [has : SUBSET Work, salt : {0, Ours, Theirs}, manifest : {NoTable, 0, Ours, Theirs}]

VARIABLES
  main,      \* scheduler.db
  log,       \* its write-ahead log: changes that are not in the file yet
  aside,     \* databases that a restore has replaced
  pending,   \* restore/pending.db
  marker,    \* restore/pending.json: the manifest of a staged restore
  saltFile,  \* master.salt, 0 when there is none
  key,       \* the salt that the running process derived its key with
  at,        \* where the process is
  agreed,    \* a confirmation that was given out: none, fresh, or too old
  shelf,     \* the scheduled copies, oldest first
  good,      \* the last scheduled copy that succeeded
  downloads, \* copies in the hands of operators
  safe,      \* changes that were in the database file at some time
  copies, kills

backupVars ==
  <<main, log, aside, pending, marker, saltFile, key, at, agreed, shelf, good, downloads, safe,
    copies, kills>>

Places == {"down", "up", "manifest", "staging", "aside", "drop", "swap", "salt", "clear", "key"}

BackupTypeOK ==
  /\ main \in Database \cup {None, Junk} /\ log \subseteq Work /\ aside \subseteq Database \cup {Junk}
  /\ {pending, marker} \subseteq Database \cup {None, Junk} /\ marker # Junk
  /\ {saltFile, key} \subseteq {0, Ours, Theirs}
  /\ at \in Places /\ agreed \in {"none", "fresh", "old"}
  /\ \A c \in Range(shelf) \cup {good} : c.copy \in Database \cup {None} /\ c.whole \in BOOLEAN
  /\ downloads \subseteq Database /\ safe \subseteq Work
  /\ copies \in 0..MaxCopies /\ kills \in 0..MaxKills

BackupInit ==
  /\ main = [has |-> {}, salt |-> 0, manifest |-> NoTable] /\ log = {} /\ aside = {}
  /\ pending = None /\ marker = None
  /\ saltFile = Ours /\ key = Ours /\ at = "up"
  /\ agreed = "none" /\ shelf = <<>> /\ good = [copy |-> None, whole |-> TRUE]
  /\ downloads = {} /\ safe = {} /\ copies = 0 /\ kills = 0

-----------------------------------------------------------------------------
\* A change is committed to the log; one that stores a secret is written under today's key.
Committed == safe \cup log \cup UNION {d.has : d \in aside \cup downloads} \cup main.has

Change ==
  /\ at = "up"
  /\ \E w \in Work \ Committed : 1..(w - 1) \subseteq Committed /\
       /\ log' = log \cup {w}
       /\ main' = [main EXCEPT !.salt = IF @ = 0 THEN key ELSE @]
  /\ UNCHANGED <<aside, pending, marker, saltFile, key, at, agreed, shelf, good, downloads,
                 safe, copies, kills>>

\* SQLite folds its log into the file when it pleases, and when the database is closed.
Folded ==
  /\ main' = [main EXCEPT !.has = @ \cup log]
  /\ safe' = safe \cup log /\ log' = {}

Checkpoint ==
  /\ at = "up" /\ log # {} /\ Folded
  /\ UNCHANGED <<aside, pending, marker, saltFile, key, at, agreed, shelf, good, downloads,
                 copies, kills>>

\* VACUUM INTO: the whole database, its log included. The table of the manifest is created in
\* the copy, which a database that was restored from a backup already brings along.
Copy == [main EXCEPT !.has = @ \cup log]
Described(c) == [c EXCEPT !.manifest = saltFile]
Describable == main.manifest = NoTable

\* A copy that is due is written under a name of its own; the manifest is put in afterwards.
CopyOut ==
  /\ at = "up" /\ copies < MaxCopies
  /\ shelf' = Append(shelf, [copy |-> Copy, whole |-> FALSE])
  /\ copies' = copies + 1 /\ at' = "manifest"
  /\ UNCHANGED <<main, log, aside, pending, marker, saltFile, key, agreed, good, downloads,
                 safe, kills>>

\* Removes the oldest until Keep remain, whatever is in them.
PrunedNewest(s) == IF Len(s) <= Keep THEN s ELSE SubSeq(s, 1, Keep)
Pruned(s) == IF Len(s) <= Keep THEN s ELSE SubSeq(s, Len(s) - Keep + 1, Len(s))

CopyDone ==
  /\ at = "manifest" /\ Describable /\ at' = "up"
  /\ LET whole == [copy |-> Described(Last(shelf).copy), whole |-> TRUE]
     IN  shelf' = Pruned(Append(Front(shelf), whole)) /\ good' = whole
  /\ UNCHANGED <<main, log, aside, pending, marker, saltFile, key, agreed, downloads, safe,
                 copies, kills>>

\* The disk is full, or the table is there already: nothing is pruned, the copy stays as it
\* is, and the next one waits its turn.
CopyFails ==
  /\ at = "manifest" /\ at' = "up" /\ (DiskFills \/ ~Describable)
  /\ UNCHANGED <<main, log, aside, pending, marker, saltFile, key, agreed, shelf, good,
                 downloads, safe, copies, kills>>

\* An operator downloads a copy.
Download ==
  /\ at = "up" /\ copies < MaxCopies /\ Describable
  /\ downloads' = downloads \cup {Described(Copy)} /\ copies' = copies + 1
  /\ UNCHANGED <<main, log, aside, pending, marker, saltFile, key, at, agreed, shelf, good,
                 safe, kills>>

-----------------------------------------------------------------------------
Uploads == downloads \cup {Foreign, Junk}

\* A backup that was looked at may be restored within ten minutes; which one is not remembered.
Inspect(f) ==
  /\ at = "up" /\ f # Junk /\ agreed # "fresh" /\ agreed' = "fresh"
  /\ UNCHANGED <<main, log, aside, pending, marker, saltFile, key, at, shelf, good, downloads,
                 safe, copies, kills>>

Expire ==
  /\ agreed = "fresh" /\ agreed' = "old"
  /\ UNCHANGED <<main, log, aside, pending, marker, saltFile, key, at, shelf, good, downloads,
                 safe, copies, kills>>

\* An old confirmation is used up and refused; a fresh one stages the file that came with it,
\* over one that was staged before.
Stage(f) ==
  /\ at = "up" /\ agreed # "none" /\ agreed' = "none"
  /\ IF agreed = "fresh" THEN pending' = f /\ at' = "staging" ELSE UNCHANGED <<pending, at>>
  /\ UNCHANGED <<main, log, aside, marker, saltFile, key, shelf, good, downloads, safe, copies,
                 kills>>

\* The staged file is read: what is no backup is removed, and the marker describes any other.
Staged ==
  /\ at = "staging" /\ at' = "up"
  /\ IF pending = Junk THEN pending' = None /\ UNCHANGED marker
                       ELSE marker' = pending /\ UNCHANGED pending
  /\ UNCHANGED <<main, log, aside, saltFile, key, agreed, shelf, good, downloads, safe, copies,
                 kills>>

CancelRestore ==
  /\ at = "up" /\ (pending # None \/ marker # None)
  /\ pending' = None /\ marker' = None
  /\ UNCHANGED <<main, log, aside, saltFile, key, at, agreed, shelf, good, downloads, safe,
                 copies, kills>>

-----------------------------------------------------------------------------
\* The process closes its database and stops, or is killed wherever it is.
Stop ==
  /\ at = "up" /\ at' = "down" /\ agreed' = "none" /\ key' = 0 /\ Folded
  /\ UNCHANGED <<aside, pending, marker, saltFile, shelf, good, downloads, copies, kills>>

Kill ==
  /\ at \in KillPoints /\ kills < MaxKills /\ kills' = kills + 1
  /\ at' = "down" /\ agreed' = "none" /\ key' = 0
  /\ UNCHANGED <<main, log, aside, pending, marker, saltFile, shelf, good, downloads, safe,
                 copies>>

\* The next start applies what is staged, and clears what is only half staged.
Start ==
  /\ at = "down"
  /\ IF pending # None /\ marker # None
       THEN at' = "aside" /\ UNCHANGED <<pending, marker>>
       ELSE at' = "key" /\ pending' = None /\ marker' = None
  /\ UNCHANGED <<main, log, aside, saltFile, key, agreed, shelf, good, downloads, safe, copies,
                 kills>>

\* The name of what is moved aside has the time in it.
KeptLast(d) == {d}
Kept(d) == aside \cup {d}

MoveAside ==
  /\ at = "aside" /\ at' = "drop"
  /\ main' = None /\ aside' = IF main = None THEN aside ELSE Kept(main)
  /\ UNCHANGED <<log, pending, marker, saltFile, key, agreed, shelf, good, downloads, safe,
                 copies, kills>>

DropLog ==
  /\ at = "drop" /\ at' = "swap" /\ log' = {}
  /\ UNCHANGED <<main, aside, pending, marker, saltFile, key, agreed, shelf, good, downloads,
                 safe, copies, kills>>

SwapIn ==
  /\ at = "swap" /\ at' = "salt" /\ main' = pending /\ pending' = None
  /\ UNCHANGED <<log, aside, marker, saltFile, key, agreed, shelf, good, downloads, safe,
                 copies, kills>>

\* The salt of the manifest is put in place; one without leaves what is there.
SaltKept(m) == IF saltFile = 0 THEN m.manifest ELSE saltFile
SaltOf(m) == IF m.manifest = 0 THEN saltFile ELSE m.manifest

WriteSalt ==
  /\ at = "salt" /\ at' = "clear" /\ saltFile' = SaltOf(marker)
  /\ UNCHANGED <<main, log, aside, pending, marker, key, agreed, shelf, good, downloads, safe,
                 copies, kills>>

ClearMarker ==
  /\ at = "clear" /\ at' = "key" /\ marker' = None
  /\ UNCHANGED <<main, log, aside, pending, saltFile, key, agreed, shelf, good, downloads,
                 safe, copies, kills>>

\* The key is derived and the database opened; a file that is none is refused, every time.
OpenUp ==
  /\ at = "key" /\ main # Junk
  /\ at' = "up" /\ key' = saltFile
  /\ UNCHANGED <<main, log, aside, pending, marker, saltFile, agreed, shelf, good, downloads,
                 safe, copies, kills>>

BackupNext ==
  \/ Change \/ Checkpoint \/ CopyOut \/ CopyDone \/ CopyFails \/ Download
  \/ \E f \in Uploads : Inspect(f) \/ Stage(f)
  \/ Expire \/ Staged \/ CancelRestore \/ Stop \/ Kill
  \/ Start \/ MoveAside \/ DropLog \/ SwapIn \/ WriteSalt \/ ClearMarker \/ OpenUp

BackupSpec == BackupInit /\ [][BackupNext]_backupVars

-----------------------------------------------------------------------------
\* What was in the database file once is still on the machine, in the database or in one that
\* a restore moved aside, however often restores were staged, applied and cut short.
NothingLost ==
  safe \subseteq main.has \cup UNION {d.has : d \in aside}

\* Whatever was restored, the running process derives the key that the secrets of its
\* database were written under, and a database is there when it starts.
SecretsReadable == at = "up" => main # Junk /\ main # None /\ main.salt \in {0, key}

\* The last copy that succeeded is on the shelf, whole, whatever failed after it.
LatestCopyStays == good.copy # None => good \in Range(shelf)

\* What backup-routes.ts says of a copy, and a database that was restored refutes
\* (claim_backup): it is consistent and taken while the app keeps running.
CopyCanBeTaken == at = "manifest" => Describable
=============================================================================
