---------------------------- MODULE BackupProofs ----------------------------
(***************************************************************************)
(* What an archive of Backup holds, for any number of rows, sizes and      *)
(* changes, and any interleaving of the walk with deployments, commits,    *)
(* checkpoints, failures and deaths of the server.                         *)
(***************************************************************************)
EXTENDS StartupProofs

\* filepath.Walk visits deployments/, itrigger.db, itrigger.db-wal and keys/.
WalksLexically == Order = <<"log", "db", "wal", "key">>

LEMMA OrderIs ==
  ASSUME WalksLexically
  PROVE  /\ Len(Order) = 4
         /\ Order[1] = "log" /\ Order[2] = "db" /\ Order[3] = "wal" /\ Order[4] = "key"
BY DEF WalksLexically

LEMMA FileNames == Files = {"log", "db", "wal", "key"} /\ Gone \notin Nat
BY BackupAssumption DEF Files

-----------------------------------------------------------------------------
(* The files.                                                              *)

\* The database and its write-ahead log are always there.
FilesInv ==
  /\ size \in [Files -> Sizes]
  /\ size["db"] \in Nat /\ size["wal"] \in Nat

\* What a commit, a checkpoint and a deployment do to the files.
LEMMA FilesKept ==
  ASSUME FilesInv,
         \/ Logged \/ Checkpoint \/ RemoveKey
         \/ \E f \in {"log", "key"} : Truncate(f) \/ \E n \in 1..MaxSize : Write(f, n)
  PROVE  /\ FilesInv'
         /\ size'["db"] = size["db"] /\ size'["wal"] >= size["wal"]
<1> USE FileNames DEF FilesInv, Sizes
<1>1. CASE Logged
  BY <1>1 DEF Logged, dbVars
<1>2. CASE Checkpoint
  BY <1>2 DEF Checkpoint
<1>3. CASE RemoveKey
  BY <1>3 DEF RemoveKey
<1>4. ASSUME NEW f \in {"log", "key"}, Truncate(f)
      PROVE  /\ FilesInv'
             /\ size'["db"] = size["db"] /\ size'["wal"] >= size["wal"]
  BY <1>4 DEF Truncate
<1>5. ASSUME NEW f \in {"log", "key"}, NEW n \in 1..MaxSize, Write(f, n)
      PROVE  /\ FilesInv'
             /\ size'["db"] = size["db"] /\ size'["wal"] >= size["wal"]
  BY <1>5, BackupAssumption DEF Write
<1> QED
  BY <1>1, <1>2, <1>3, <1>4, <1>5

-----------------------------------------------------------------------------
(* The walk.                                                               *)

\* What the walk has passed and is still there is in the archive.  An entry that
\* was cut short is the one before the walk's position, since what follows the log
\* is never gone and would end the walk.
WalkInv ==
  /\ bstep \in Walking \cup {"idle"}
  /\ bstep = "idle" => pos = 1 /\ cut = {}
  /\ bstep \in {"list", "stat", "copy"} => pos \in 1..4
  /\ bstep = "close" => pos = 5
  /\ bstep # "idle" => there \subseteq {f \in Files : size[f] # Gone}
  /\ bstep # "idle" =>
       \A k \in 1..4 : k < pos /\ Order[k] \in there => Order[k] \in entries
  /\ bstep = "copy" => promised \in Nat
  /\ bstep = "copy" /\ pos = 2 => promised <= size["db"]
  /\ bstep = "copy" /\ pos = 3 => promised <= size["wal"]
  /\ cut \subseteq {"log", "key"}
  /\ "log" \in cut => bstep \in {"list", "stat"} /\ pos = 2
  /\ "key" \in cut => bstep = "close"

\* A row that is not in the write-ahead log is in the database file; so is every
\* row once a checkpoint has been made.
MainInv == \A i \in Items : i \notin wal \/ spent => main[i] = rows[i]

\* Between the two copies a steady row that the database file's copy lacks is in
\* the write-ahead log.
RowsInv ==
  bstep # "idle" =>
    /\ DOMAIN steady \subseteq Items
    /\ \A i \in DOMAIN steady :
         /\ rows[i] = steady[i]
         /\ pos = 3 => i \in wal \/ mainCopy[i] = steady[i]
         /\ pos > 3 => Restored[i] = steady[i]

ArchiveInv == FilesInv /\ WalkInv /\ MainInv /\ RowsInv

LEMMA ArchiveInitial == BackupInit => ArchiveInv
BY DEF BackupInit, ArchiveInv, FilesInv, WalkInv, MainInv, RowsInv, Files, Sizes, Walking

\* A walk that is left has nothing to promise.
LEMMA Left ==
  ASSUME Leave
  PROVE  WalkInv' /\ RowsInv'
BY DEF Leave, To, WalkInv, RowsInv, Walking

\* A step of the files that takes away none that the walk still counts on.
LEMMA WalkKept ==
  ASSUME ArchiveInv, FilesInv',
         UNCHANGED <<bstep, pos, copyVars>>,
         size'["db"] = size["db"], size'["wal"] >= size["wal"],
         there' \subseteq there,
         \A f \in there' : size[f] # Gone => size'[f] # Gone
  PROVE  WalkInv'
<1>1. /\ size["db"] \in Nat /\ size["wal"] \in Nat
      /\ size'["db"] \in Nat /\ size'["wal"] \in Nat
  BY DEF ArchiveInv, FilesInv
<1>2. bstep = "copy" => promised \in Nat
  BY DEF ArchiveInv, WalkInv
<1>3. /\ bstep = "copy" /\ pos = 2 => promised <= size'["db"]
      /\ bstep = "copy" /\ pos = 3 => promised <= size'["wal"]
  BY <1>1, <1>2 DEF ArchiveInv, WalkInv
<1>4. bstep # "idle" => there' \subseteq {f \in Files : size'[f] # Gone}
  BY DEF ArchiveInv, WalkInv
<1> QED
  BY <1>3, <1>4 DEF ArchiveInv, WalkInv, copyVars

-----------------------------------------------------------------------------
(* Steps of the data.                                                      *)

LEMMA DataKeeps ==
  ASSUME ArchiveInv, Data
  PROVE  ArchiveInv'
<1>1. Logged
  BY DEF Data
<1>2. /\ FilesInv'
      /\ size'["db"] = size["db"] /\ size'["wal"] >= size["wal"]
  BY <1>1, FilesKept DEF ArchiveInv
<1>3. /\ \A i \in Items \ Changed : rows'[i] = rows[i]
      /\ Changed \subseteq Items
  BY DEF Changed
<1>4. MainInv'
  <2>1. CASE Changed = {}
    BY <1>1, <1>3, <2>1 DEF Logged, dbVars, ArchiveInv, MainInv
  <2>2. CASE Changed # {}
    <3>1. /\ wal' = Changed \cup (IF spent THEN {} ELSE wal)
          /\ spent' = FALSE /\ main' = main
      BY <1>1, <2>2 DEF Logged
    <3> QED
      BY <3>1, <1>3 DEF ArchiveInv, MainInv
  <2> QED
    BY <2>1, <2>2
<1>5. WalkInv' /\ RowsInv'
  <2>1. CASE step' = "down"
    BY <2>1, Left DEF Data
  <2>2. CASE step' # "down"
    <3>1. UNCHANGED <<bstep, pos, copyVars, there>> /\ steady' = Lasting
      BY <2>2 DEF Data
    <3>2. \A f \in there : size[f] # Gone => size'[f] # Gone
      <4>1. CASE Changed = {}
        BY <1>1, <4>1 DEF Logged
      <4>2. CASE Changed # {}
        <5>1. size' = IF spent THEN size ELSE [size EXCEPT !["wal"] = @ + 1]
          BY <1>1, <4>2 DEF Logged
        <5>2. \A f \in Files \ {"wal"} : size'[f] = size[f]
          BY <5>1 DEF ArchiveInv, FilesInv
        <5>3. size'["wal"] # Gone
          BY <1>2, FileNames DEF FilesInv
        <5> QED
          BY <5>1, <5>2, <5>3 DEF ArchiveInv, FilesInv
      <4> QED
        BY <4>1, <4>2
    <3>3. WalkInv'
      BY <1>2, <3>1, <3>2, WalkKept DEF copyVars
    <3>4. RowsInv'
      <4> SUFFICES ASSUME bstep # "idle" PROVE RowsInv'
        BY <3>1 DEF RowsInv
      <4>1. CASE Changed # {} /\ spent
        <5>1. steady' = <<>>
          BY <3>1, <4>1 DEF Lasting
        <5>2. DOMAIN steady' = {}
          BY <5>1
        <5> QED
          BY <5>2 DEF RowsInv
      <4>2. CASE ~(Changed # {} /\ spent)
        <5>1. steady' = [i \in DOMAIN steady \ Changed |-> steady[i]]
          BY <3>1, <4>2 DEF Lasting, Limit
        <5>2. /\ DOMAIN steady' = DOMAIN steady \ Changed
              /\ \A i \in DOMAIN steady' : steady'[i] = steady[i]
          BY <5>1
        <5>3. wal \subseteq wal'
          <6>1. CASE Changed = {}
            BY <1>1, <6>1 DEF Logged, dbVars
          <6>2. CASE Changed # {}
            BY <1>1, <4>2, <6>2 DEF Logged
          <6> QED
            BY <6>1, <6>2
        <5>4. \A i \in DOMAIN steady : i \in Items /\ Restored'[i] = Restored[i]
          BY <3>1 DEF ArchiveInv, RowsInv, Restored, copyVars
        <5> QED
          BY <1>3, <3>1, <5>2, <5>3, <5>4 DEF ArchiveInv, RowsInv, copyVars
      <4> QED
        BY <4>1, <4>2
    <3> QED
      BY <3>3, <3>4
  <2> QED
    BY <2>1, <2>2
<1> QED
  BY <1>2, <1>4, <1>5 DEF ArchiveInv

\* Checkpoints and deployments.
LEMMA ChangeKeeps ==
  ASSUME ArchiveInv,
         \/ Checkpoint \/ RemoveKey
         \/ \E f \in {"log", "key"} : Truncate(f) \/ \E n \in 1..MaxSize : Write(f, n)
  PROVE  ArchiveInv'
<1>1. /\ FilesInv'
      /\ size'["db"] = size["db"] /\ size'["wal"] >= size["wal"]
  BY FilesKept DEF ArchiveInv
<1>2. /\ UNCHANGED <<rows, bstep, pos, copyVars, steady, wal>>
      /\ (main' = main /\ spent' = spent) \/ main' = rows
      /\ there' \subseteq there
  BY DEF Checkpoint, RemoveKey, Truncate, Write, Change, vars, dbVars
<1>3. \A f \in there' : size[f] # Gone => size'[f] # Gone
  <2> USE FileNames DEF ArchiveInv, FilesInv, Sizes
  <2>1. CASE Checkpoint
    BY <2>1 DEF Checkpoint
  <2>2. CASE RemoveKey
    BY <2>2 DEF RemoveKey
  <2>3. ASSUME NEW f \in {"log", "key"}, Truncate(f)
        PROVE  \A g \in there' : size[g] # Gone => size'[g] # Gone
    BY <2>3 DEF Truncate
  <2>4. ASSUME NEW f \in {"log", "key"}, NEW n \in 1..MaxSize, Write(f, n)
        PROVE  \A g \in there' : size[g] # Gone => size'[g] # Gone
    BY <2>4, BackupAssumption DEF Write
  <2> QED
    BY <2>1, <2>2, <2>3, <2>4
<1>4. WalkInv'
  BY <1>1, <1>2, <1>3, WalkKept
<1>5. MainInv'
  BY <1>2 DEF ArchiveInv, MainInv
<1>6. RowsInv'
  BY <1>2 DEF ArchiveInv, RowsInv, Restored, copyVars
<1> QED
  BY <1>1, <1>4, <1>5, <1>6 DEF ArchiveInv

-----------------------------------------------------------------------------
(* Steps of the walk.                                                      *)

\* A backup only reads.
LEMMA OnlyReads ==
  ASSUME ArchiveInv, CreateBackup
  PROVE  /\ FilesInv' /\ MainInv'
         /\ UNCHANGED <<rows, size, main, wal>>
BY DEF CreateBackup, Begin, List, Stat, Copy, Close, Fails, KeepsData, vars, dbVars,
       ArchiveInv, FilesInv, MainInv

LEMMA BeginKeeps ==
  ASSUME TypeOK, ArchiveInv, Begin
  PROVE  WalkInv' /\ RowsInv'
<1>1. /\ bstep' = "list" /\ pos' = 1 /\ cut' = {}
      /\ there' = {f \in Files : size[f] # Gone}
      /\ steady' = rows
      /\ UNCHANGED <<rows, size>>
  BY DEF Begin, To, ArchiveInv, WalkInv, copyVars, vars
<1>2. DOMAIN rows = Items
  BY DEF TypeOK
<1> QED
  BY <1>1, <1>2 DEF WalkInv, RowsInv, Walking

\* The walk goes past a file that was not there; the database and its log are.
LEMMA ListKeeps ==
  ASSUME WalksLexically, ArchiveInv, List
  PROVE  WalkInv' /\ RowsInv'
<1>1. /\ bstep = "list" /\ pos \in 1..4
      /\ UNCHANGED <<rows, size, main, wal, copyVars, there, steady>>
  BY DEF List, KeepsData, vars, dbVars, ArchiveInv, WalkInv
<1>2. CASE size[Order[pos]] = Gone
  <2>1. /\ bstep' = IF pos = 4 THEN "close" ELSE "list"
        /\ pos' = pos + 1
    BY <1>2, OrderIs DEF List, Advance, To
  <2>2. pos \in {1, 4}
    BY <1>1, <1>2, OrderIs, FileNames DEF ArchiveInv, FilesInv
  <2>3. Order[pos] \notin there
    BY <1>1, <1>2 DEF ArchiveInv, WalkInv
  <2>4. \A k \in 1..4 : k < pos' => k < pos \/ k = pos
    BY <1>1, <2>1
  <2>5. "log" \notin cut
    BY <1>1, <2>2 DEF ArchiveInv, WalkInv
  <2>6. WalkInv'
    BY <1>1, <2>1, <2>2, <2>3, <2>4, <2>5 DEF ArchiveInv, WalkInv, Walking, copyVars
  <2>7. RowsInv'
    BY <1>1, <2>1, <2>2 DEF ArchiveInv, RowsInv, Restored, copyVars
  <2> QED
    BY <2>6, <2>7
<1>3. CASE size[Order[pos]] # Gone
  <2>1. bstep' = "stat" /\ pos' = pos
    BY <1>3 DEF List, To
  <2>2. WalkInv'
    BY <1>1, <2>1 DEF ArchiveInv, WalkInv, Walking, copyVars
  <2>3. RowsInv'
    BY <1>1, <2>1 DEF ArchiveInv, RowsInv, Restored, copyVars
  <2> QED
    BY <2>2, <2>3
<1> QED
  BY <1>2, <1>3

LEMMA StatKeeps ==
  ASSUME WalksLexically, ArchiveInv, Stat
  PROVE  WalkInv' /\ RowsInv'
<1>1. CASE size[Order[pos]] = Gone \/ cut # {}
  BY <1>1, Left DEF Stat
<1>2. CASE ~(size[Order[pos]] = Gone \/ cut # {})
  <2>1. /\ bstep = "stat" /\ bstep' = "copy" /\ cut = {}
        /\ promised' = size[Order[pos]]
        /\ UNCHANGED <<rows, size, main, wal, pos, entries, cut, mainCopy, walCopy,
                       there, steady>>
    BY <1>2 DEF Stat, To, KeepsData, vars, dbVars
  <2>2. pos \in 1..4 /\ Order[pos] \in Files
    BY <2>1, OrderIs, FileNames DEF ArchiveInv, WalkInv
  <2>3. promised' \in Nat
    BY <1>2, <2>1, <2>2 DEF ArchiveInv, FilesInv, Sizes
  <2>4. /\ pos = 2 => promised' <= size["db"]
        /\ pos = 3 => promised' <= size["wal"]
    BY <2>1, OrderIs DEF ArchiveInv, FilesInv
  <2>5. WalkInv'
    BY <2>1, <2>2, <2>3, <2>4 DEF ArchiveInv, WalkInv, Walking
  <2>6. RowsInv'
    BY <2>1 DEF ArchiveInv, RowsInv, Restored
  <2> QED
    BY <2>5, <2>6
<1> QED
  BY <1>1, <1>2

LEMMA CopyKeeps ==
  ASSUME WalksLexically, ArchiveInv, Copy
  PROVE  WalkInv' /\ RowsInv'
<1> DEFINE f == Order[pos]
<1>1. CASE size[f] = Gone \/ size[f] > promised
  BY <1>1, Left DEF Copy
<1>2. CASE ~(size[f] = Gone \/ size[f] > promised)
  <2>1. /\ bstep = "copy" /\ pos \in 1..4
        /\ bstep' = IF pos = 4 THEN "close" ELSE "list"
        /\ pos' = pos + 1
        /\ entries' = entries \cup {f}
        /\ cut' = IF size[f] < promised THEN cut \cup {f} ELSE cut
        /\ mainCopy' = IF f = "db" THEN main ELSE mainCopy
        /\ walCopy' = IF f = "wal" THEN [i \in wal |-> rows[i]] ELSE walCopy
        /\ UNCHANGED <<rows, size, main, wal, there, steady>>
    BY <1>2, OrderIs DEF Copy, Advance, To, Limit, KeepsData, vars, dbVars, ArchiveInv, WalkInv
  <2>2. /\ cut = {}
        /\ pos \in {2, 3} => ~(size[f] < promised)
    BY <2>1, OrderIs DEF ArchiveInv, FilesInv, WalkInv
  <2>3. \A k \in 1..4 : k < pos' => k < pos \/ k = pos
    BY <2>1
  <2>4. WalkInv'
    <3>1. /\ cut' \subseteq {"log", "key"}
          /\ "log" \in cut' => pos' = 2 /\ bstep' = "list"
          /\ "key" \in cut' => bstep' = "close"
      BY <2>1, <2>2, OrderIs
    <3>2. \A k \in 1..4 : k < pos' /\ Order[k] \in there => Order[k] \in entries'
      BY <2>1, <2>3 DEF ArchiveInv, WalkInv
    <3> QED
      BY <2>1, <3>1, <3>2 DEF ArchiveInv, WalkInv, Walking
  <2>5. RowsInv'
    <3>1. /\ DOMAIN steady \subseteq Items
          /\ \A i \in DOMAIN steady : rows[i] = steady[i]
      BY <2>1 DEF ArchiveInv, RowsInv
    <3>2. CASE pos = 1
      BY <2>1, <3>1, <3>2 DEF RowsInv
    <3>3. CASE pos = 2
      <4>1. mainCopy' = main
        BY <2>1, <3>3, OrderIs
      <4> QED
        BY <2>1, <3>1, <3>3, <4>1 DEF ArchiveInv, MainInv, RowsInv
    <3>4. CASE pos = 3
      <4>1. walCopy' = [i \in wal |-> rows[i]] /\ mainCopy' = mainCopy
        BY <2>1, <3>4, OrderIs
      <4>2. \A i \in DOMAIN steady : i \in wal \/ mainCopy[i] = steady[i]
        BY <2>1, <3>4 DEF ArchiveInv, RowsInv
      <4>3. \A i \in DOMAIN steady : Restored'[i] = steady[i]
        BY <3>1, <4>1, <4>2 DEF Restored
      <4> QED
        BY <2>1, <3>1, <3>4, <4>3 DEF RowsInv
    <3>5. CASE pos = 4
      <4>1. walCopy' = walCopy /\ mainCopy' = mainCopy
        BY <2>1, <3>5, OrderIs
      <4>2. \A i \in DOMAIN steady : Restored[i] = steady[i]
        BY <2>1, <3>5 DEF ArchiveInv, RowsInv
      <4> QED
        BY <2>1, <3>1, <3>5, <4>1, <4>2 DEF RowsInv, Restored
    <3> QED
      BY <2>1, <3>2, <3>3, <3>4, <3>5
  <2> QED
    BY <2>4, <2>5
<1> QED
  BY <1>1, <1>2

LEMMA ArchiveStep ==
  ASSUME WalksLexically
  PROVE  TypeOK /\ ArchiveInv /\ [BackupNext]_allVars => ArchiveInv'
<1> SUFFICES ASSUME TypeOK, ArchiveInv, [BackupNext]_allVars
             PROVE  ArchiveInv'
  OBVIOUS
<1>1. CASE Data
  BY <1>1, DataKeeps
<1>2. CASE CreateBackup
  <2>1. WalkInv' /\ RowsInv'
    <3>1. CASE Close \/ Fails
      BY <3>1, Left DEF Close, Fails
    <3> QED
      BY <1>2, <3>1, BeginKeeps, ListKeeps, StatKeeps, CopyKeeps DEF CreateBackup
  <2> QED
    BY <1>2, <2>1, OnlyReads DEF ArchiveInv
<1>3. CASE UNCHANGED allVars
  BY <1>3 DEF allVars, vars, backupVars, copyVars, dbVars, ArchiveInv, FilesInv, WalkInv,
              MainInv, RowsInv, Restored
<1> QED
  BY <1>1, <1>2, <1>3, ChangeKeeps DEF BackupNext

LEMMA ArchiveAlways ==
  ASSUME WalksLexically
  PROVE  BackupSpec => []ArchiveInv
<1>1. BackupSpec => []TypeOK
  BY BackupOnlyReads, TypeCorrect, PTL
<1>2. TypeOK /\ ArchiveInv /\ [BackupNext]_allVars => ArchiveInv'
  BY ArchiveStep
<1> QED
  BY <1>1, <1>2, ArchiveInitial, PTL DEF BackupSpec

-----------------------------------------------------------------------------

\* In the order in which filepath.Walk visits the files: a backup that is answered
\* with success has every file that was there all the while, in its full length but
\* for the last one.
THEOREM ArchiveIsWhole ==
  ASSUME WalksLexically
  PROVE  BackupSpec => []SuccessIsWhole
<1>1. ArchiveInv => SuccessIsWhole
  <2> SUFFICES ASSUME ArchiveInv, bstep = "close", NEW f \in there
               PROVE  f \in entries /\ (f \in cut => f = Order[Len(Order)])
    BY DEF SuccessIsWhole
  <2>1. f \in Files
    BY DEF ArchiveInv, WalkInv
  <2>2. PICK k \in 1..4 : f = Order[k]
    BY <2>1, FileNames, OrderIs
  <2>3. f \in entries
    BY <2>2 DEF ArchiveInv, WalkInv
  <2>4. f \in cut => f = "key"
    BY DEF ArchiveInv, WalkInv
  <2> QED
    BY <2>3, <2>4, OrderIs
<1> QED
  BY ArchiveAlways, <1>1, PTL

\* In that order, and however commits and checkpoints fall between the copies: an
\* archive whose walk came to its end has every row that was committed before the
\* backup began and has not changed since, as long as the log was not begun anew.
THEOREM ArchiveHasRows ==
  ASSUME WalksLexically
  PROVE  BackupSpec => []BackupHasRows
<1>1. ArchiveInv => BackupHasRows
  BY DEF ArchiveInv, WalkInv, RowsInv, BackupHasRows
<1> QED
  BY ArchiveAlways, <1>1, PTL

-----------------------------------------------------------------------------
(* Typing.                                                                 *)

LEMMA BackupTypeInitial == BackupInit => BackupTypeOK
<1> SUFFICES ASSUME BackupInit PROVE BackupTypeOK
  OBVIOUS
<1>1. rows \in [Items -> Row \cup {NoRow}]
  BY TypeInitial DEF BackupInit, TypeOK
<1>2. size \in [Files -> Sizes]
  BY DEF BackupInit, Sizes
<1>3. changes \in 0..MaxChanges
  BY BackupAssumption DEF BackupInit
<1>4. DOMAIN <<>> = {}
  OBVIOUS
<1>5. main \in [Items -> Row \cup {NoRow}]
  BY <1>1 DEF BackupInit
<1>6. DOMAIN walCopy \subseteq Items /\ DOMAIN steady \subseteq Items
  BY <1>4 DEF BackupInit
<1> QED
  BY <1>2, <1>3, <1>5, <1>6 DEF BackupInit, BackupTypeOK, Sizes

\* A walk that is left keeps nothing.
LEMMA LeftType ==
  ASSUME Leave
  PROVE  /\ bstep' = "idle" /\ promised' \in Sizes
         /\ cut' \subseteq entries' /\ entries' \subseteq Files /\ there' \subseteq Files
         /\ DOMAIN walCopy' \subseteq Items /\ DOMAIN steady' \subseteq Items
<1>1. DOMAIN <<>> = {}
  OBVIOUS
<1> QED
  BY <1>1 DEF Leave, To, Sizes

LEMMA BackupTypeStep ==
  ASSUME WalksLexically
  PROVE  TypeOK /\ ArchiveInv /\ BackupTypeOK /\ [BackupNext]_allVars => BackupTypeOK'
<1> SUFFICES ASSUME TypeOK, ArchiveInv, FilesInv, BackupTypeOK, [BackupNext]_allVars
             PROVE  BackupTypeOK'
  BY DEF ArchiveInv
<1>0. rows \in [Items -> Row \cup {NoRow}] /\ DOMAIN rows = Items
  BY DEF TypeOK
<1>1. CASE Data
  <2>1. Logged /\ changes' = changes
    BY <1>1 DEF Data
  <2>2. /\ FilesInv' /\ size' \in [Files -> Sizes]
        /\ main' = main /\ wal' \subseteq Items /\ spent' \in BOOLEAN
    <3>0. FilesInv' /\ size' \in [Files -> Sizes]
      BY <2>1, FilesKept DEF FilesInv
    <3>1. CASE Changed = {}
      BY <2>1, <3>0, <3>1 DEF Logged, dbVars, BackupTypeOK
    <3>2. CASE Changed # {}
      <4>1. /\ wal' = Changed \cup (IF spent THEN {} ELSE wal)
            /\ spent' = FALSE /\ main' = main
        BY <2>1, <3>2 DEF Logged
      <4> QED
        BY <3>0, <4>1 DEF Changed, BackupTypeOK
    <3> QED
      BY <3>1, <3>2
  <2>3. CASE step' = "down"
    BY <1>1, <2>1, <2>2, <2>3, LeftType DEF Data, BackupTypeOK
  <2>4. CASE step' # "down"
    <3>1. UNCHANGED <<bstep, pos, copyVars, there>> /\ steady' = Lasting
      BY <1>1, <2>4 DEF Data
    <3>2. DOMAIN <<>> = {}
      OBVIOUS
    <3>3. DOMAIN steady' \subseteq Items
      BY <3>1, <3>2 DEF Lasting, Limit, BackupTypeOK
    <3> QED
      BY <2>1, <2>2, <3>1, <3>3 DEF copyVars, BackupTypeOK
  <2> QED
    BY <2>3, <2>4
\* Checkpoints and deployments.
<1>2. ASSUME Change, FilesInv', main' \in {main, rows}, wal' = wal, spent' \in BOOLEAN,
             there' \subseteq there
      PROVE  BackupTypeOK'
  <2>1. changes' \in 0..MaxChanges
    BY <1>2, BackupAssumption DEF Change, BackupTypeOK
  <2>2. main' \in [Items -> Row \cup {NoRow}]
    BY <1>0, <1>2 DEF BackupTypeOK
  <2> QED
    BY <1>2, <2>1, <2>2 DEF Change, copyVars, BackupTypeOK, FilesInv
<1>3. CASE Checkpoint
  BY <1>2, <1>3, FilesKept DEF Checkpoint
<1>4. CASE RemoveKey
  BY <1>2, <1>4, FilesKept DEF RemoveKey, dbVars, BackupTypeOK
<1>5. CASE \E f \in {"log", "key"} : Truncate(f) \/ \E n \in 1..MaxSize : Write(f, n)
  BY <1>2, <1>5, FilesKept DEF Truncate, Write, dbVars, BackupTypeOK
<1>6. CASE CreateBackup
  <2>1. UNCHANGED <<size, main, wal, spent, changes>>
    BY <1>6 DEF CreateBackup, Begin, List, Stat, Copy, Close, Fails, KeepsData, dbVars
  <2>2. Len(Order) \in Nat /\ \A k \in 1..Len(Order) : Order[k] \in Files
    BY BackupAssumption
  <2>3. ASSUME Leave
        PROVE  BackupTypeOK'
    BY <2>1, <2>3, LeftType DEF BackupTypeOK
  <2>4. CASE Begin
    <3>1. /\ bstep' = "list" /\ there' \subseteq Files /\ steady' = rows
          /\ UNCHANGED <<pos, copyVars>>
      BY <2>4 DEF Begin, To
    <3>2. pos' \in 1..Len(Order)
      BY <2>4, <3>1, OrderIs DEF Begin, copyVars, ArchiveInv, WalkInv
    <3> QED
      BY <1>0, <2>1, <2>2, <2>4, <3>1, <3>2 DEF copyVars, BackupTypeOK, Walking
  <2>5. CASE List
    BY <2>1, <2>2, <2>5 DEF List, Advance, To, copyVars, BackupTypeOK, Walking
  <2>6. CASE Stat
    BY <2>1, <2>2, <2>3, <2>6 DEF Stat, To, BackupTypeOK, Walking
  <2>7. CASE Copy
    BY <2>1, <2>2, <2>3, <2>7 DEF Copy, Advance, To, Limit, BackupTypeOK, Walking, Sizes
  <2> QED
    BY <1>6, <2>3, <2>4, <2>5, <2>6, <2>7 DEF CreateBackup, Close, Fails
<1>7. CASE UNCHANGED allVars
  BY <1>7 DEF allVars, backupVars, copyVars, dbVars, BackupTypeOK
<1> QED
  BY <1>1, <1>2, <1>3, <1>4, <1>5, <1>6, <1>7 DEF BackupNext

\* For files walked in that order, and any sizes and numbers of changes: every
\* reachable state of a backup is well typed.
THEOREM BackupTypeCorrect ==
  ASSUME WalksLexically
  PROVE  BackupSpec => []BackupTypeOK
<1>1. BackupSpec => []TypeOK
  BY BackupOnlyReads, TypeCorrect, PTL
<1>2. TypeOK /\ ArchiveInv /\ BackupTypeOK /\ [BackupNext]_allVars => BackupTypeOK'
  BY BackupTypeStep
<1> QED
  BY <1>1, <1>2, ArchiveAlways, BackupTypeInitial, PTL DEF BackupSpec
=============================================================================
