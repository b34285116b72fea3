------------------------------- MODULE Backup -------------------------------
(***************************************************************************)
(* Backups (internal/backup/backup.go) of the data directory, on top of    *)
(* Startup.  A backup walks the directory and copies one file after the    *)
(* other into an archive, while deployments write logs and key files and   *)
(* SQLite writes the database: a commit goes to the write-ahead log, a     *)
(* checkpoint carries it over into the database file, and the commit after *)
(* that begins the log anew.                                               *)
(***************************************************************************)
EXTENDS Startup, Sequences

CONSTANTS
  Order,        \* the files, in the order of the walk
  Gone,         \* the size of a file that is not there
  MaxSize,      \* bound: size of a log
  MaxChanges    \* bound: changes of logs and key files, and checkpoints

Files == {"log", "db", "wal", "key"}

ASSUME BackupAssumption ==
  /\ Order \in Seq(Files)
  /\ Gone \notin Nat
  /\ MaxSize \in Nat /\ MaxChanges \in Nat

VARIABLES
  size,       \* of a log, the database, its write-ahead log, a key file
  main,       \* the rows in the database file
  wal,        \* the items whose row is in the write-ahead log
  spent,      \* a checkpoint has carried all of that log over
  changes,
  bstep, pos, \* where the backup is
  promised,   \* the size in the header of the file it copies
  entries,    \* files in the archive
  cut,        \* those of them that are shorter than their header says
  mainCopy, walCopy,
  there,      \* files that were there when it began and ever since
  steady      \* rows that were there when it began and have not changed since

dbVars == <<main, wal, spent>>
copyVars == <<promised, entries, cut, mainCopy, walCopy>>
backupVars == <<bstep, pos, copyVars, there, steady>>
allVars == <<vars, size, dbVars, changes, backupVars>>

Walking == {"list", "stat", "copy", "close"}

Sizes == Nat \cup {Gone}

BackupTypeOK ==
  /\ size \in [Files -> Sizes]
  /\ main \in [Items -> Row \cup {NoRow}]
  /\ wal \subseteq Items
  /\ spent \in BOOLEAN
  /\ changes \in 0..MaxChanges
  /\ bstep \in Walking \cup {"idle"}
  /\ bstep \in {"list", "stat", "copy"} => pos \in 1..Len(Order)
  /\ promised \in Sizes
  /\ cut \subseteq entries /\ entries \subseteq Files /\ there \subseteq Files
  /\ DOMAIN walCopy \subseteq Items /\ DOMAIN steady \subseteq Items

\* The database has just been made.
BackupInit ==
  /\ Init
  /\ size = [f \in Files |-> IF f \in {"db", "wal"} THEN 0 ELSE Gone]
  /\ main = rows
  /\ wal = {} /\ spent = FALSE
  /\ changes = 0
  /\ bstep = "idle" /\ pos = 1
  /\ promised = Gone
  /\ entries = {} /\ cut = {}
  /\ mainCopy = <<>> /\ walCopy = <<>>
  /\ there = {} /\ steady = <<>>

-----------------------------------------------------------------------------
(* The database file and the write-ahead log, outside the program.         *)

Limit(f, S) == [i \in S |-> f[i]]

\* What a step of Startup does to the files: a commit appends its rows, or begins
\* the log anew, over the frames that were in it.
Changed == {i \in Items : rows'[i] # rows[i]}

Logged ==
  IF Changed = {}
  THEN UNCHANGED <<size, dbVars>>
  ELSE /\ wal' = Changed \cup (IF spent THEN {} ELSE wal)
       /\ spent' = FALSE
       /\ size' = IF spent THEN size ELSE [size EXCEPT !["wal"] = @ + 1]
       /\ UNCHANGED main

\* What the backup may still be expected to hold after such a step.
Lasting == IF Changed # {} /\ spent THEN <<>>
           ELSE Limit(steady, DOMAIN steady \ Changed)

Change ==
  /\ step = "serving"
  /\ changes < MaxChanges
  /\ changes' = changes + 1
  /\ UNCHANGED <<vars, bstep, pos, copyVars, steady>>

Checkpoint ==
  /\ wal # {} /\ ~spent
  /\ main' = rows
  /\ spent' = TRUE
  /\ UNCHANGED <<wal, size, there>>
  /\ Change

-----------------------------------------------------------------------------
(* Deployments: os.WriteFile truncates a log or a key file and then writes *)
(* it; a key file is removed at the end.                                   *)

Truncate(f) ==
  /\ size' = [size EXCEPT ![f] = 0]
  /\ UNCHANGED <<dbVars, there>>
  /\ Change

\* Nobody need look at a new file between the two.
Write(f, n) ==
  /\ size[f] \in {0, Gone}
  /\ size' = [size EXCEPT ![f] = n]
  /\ UNCHANGED <<dbVars, there>>
  /\ Change

RemoveKey ==
  /\ size["key"] # Gone
  /\ size' = [size EXCEPT !["key"] = Gone]
  /\ there' = there \ {"key"}
  /\ UNCHANGED dbVars
  /\ Change

-----------------------------------------------------------------------------
(* CreateBackup.                                                           *)

To(at) == bstep' = at
KeepsData == UNCHANGED <<vars, size, dbVars, changes>>

Begin ==
  /\ bstep = "idle"
  /\ step = "serving"
  /\ To("list")
  /\ there' = {f \in Files : size[f] # Gone}
  /\ steady' = rows
  /\ UNCHANGED <<vars, size, dbVars, changes, pos, copyVars>>

\* After a file comes the next one, or the deferred Close calls.
\* With a bug: the walk does not end.
AdvanceOn == To("list") /\ pos' = pos + 1
Advance ==
  /\ To(IF pos = Len(Order) THEN "close" ELSE "list")
  /\ pos' = pos + 1

\* The directory is read: a file that is not there is not visited.
\* With a bug: the write-ahead log is taken for a temporary file.
ListSkipsLog ==
  /\ bstep = "list"
  /\ IF size[Order[pos]] = Gone \/ Order[pos] = "wal" THEN Advance
     ELSE To("stat") /\ UNCHANGED pos
  /\ UNCHANGED <<copyVars, there, steady>>
  /\ KeepsData
List ==
  /\ bstep = "list"
  /\ IF size[Order[pos]] = Gone THEN Advance ELSE To("stat") /\ UNCHANGED pos
  /\ UNCHANGED <<copyVars, there, steady>>
  /\ KeepsData

\* The handler answers, and leaves what it has written.
Leave ==
  /\ To("idle")
  /\ pos' = 1 /\ promised' = Gone /\ entries' = {} /\ cut' = {}
  /\ mainCopy' = <<>> /\ walCopy' = <<>> /\ there' = {} /\ steady' = <<>>

\* Lstat and the header of the entry.  A file that is gone by now and an entry
\* before that is shorter than its header end the walk.
\* With a bug: an entry that is too short is not noticed.
StatUnchecked ==
  /\ bstep = "stat"
  /\ size[Order[pos]] # Gone
  /\ To("copy")
  /\ promised' = size[Order[pos]]
  /\ UNCHANGED <<pos, entries, cut, mainCopy, walCopy, there, steady>>
  /\ KeepsData
Stat ==
  /\ bstep = "stat"
  /\ IF size[Order[pos]] = Gone \/ cut # {} THEN Leave
     ELSE /\ To("copy")
          /\ promised' = size[Order[pos]]
          /\ UNCHANGED <<pos, entries, cut, mainCopy, walCopy, there, steady>>
  /\ KeepsData

\* Open and io.Copy.  A file that is gone and one that has grown end the walk; one
\* that has shrunk leaves its entry short.
Copy ==
  LET f == Order[pos]
      n == size[f] IN
  /\ bstep = "copy"
  /\ IF n = Gone \/ n > promised THEN Leave
     ELSE /\ Advance
          /\ promised' = Gone
          /\ entries' = entries \cup {f}
          /\ cut' = IF n < promised THEN cut \cup {f} ELSE cut
          /\ mainCopy' = IF f = "db" THEN main ELSE mainCopy
          /\ walCopy' = IF f = "wal" THEN Limit(rows, wal) ELSE walCopy
          /\ UNCHANGED <<there, steady>>
  /\ KeepsData

\* The walk is over; the deferred Close calls write what is still buffered, and
\* their errors are not looked at.
Close ==
  /\ bstep = "close"
  /\ Leave
  /\ KeepsData

\* The disk is full, or a file cannot be read.
Fails ==
  /\ bstep \in {"list", "stat", "copy"}
  /\ Leave
  /\ KeepsData

\* A step of Startup.  A backup dies with the server.
Data ==
  /\ Next
  /\ Logged
  /\ IF step' = "down" THEN Leave
     ELSE UNCHANGED <<bstep, pos, copyVars, there>> /\ steady' = Lasting
  /\ UNCHANGED changes

CreateBackup == Begin \/ List \/ Stat \/ Copy \/ Close \/ Fails

BackupNext ==
  \/ Data \/ Checkpoint \/ RemoveKey \/ CreateBackup
  \/ \E f \in {"log", "key"} : Truncate(f) \/ \E n \in 1..MaxSize : Write(f, n)

BackupSpec == BackupInit /\ [][BackupNext]_allVars

-----------------------------------------------------------------------------

\* A walk that comes to its end, which is what is answered with success, has put
\* every file that was there all the while into the archive, in its full length,
\* whatever deployments wrote and removed meanwhile; only the last entry may have
\* been cut short, since nothing follows it.
SuccessIsWhole ==
  bstep = "close" =>
    \A f \in there : f \in entries /\ (f \in cut => f = Order[Len(Order)])

\* The rows that a server started from the archive would find.
Restored ==
  [i \in Items |-> IF i \in DOMAIN walCopy THEN walCopy[i] ELSE mainCopy[i]]

\* Database and write-ahead log are copied at different times, and yet the archive
\* has every row that was committed before the backup began and has not changed
\* since: unless the write-ahead log was begun anew during the walk.
BackupHasRows ==
  bstep = "close" => \A i \in DOMAIN steady : Restored[i] = steady[i]
=============================================================================
