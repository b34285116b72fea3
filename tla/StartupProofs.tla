--------------------------- MODULE StartupProofs ---------------------------
(***************************************************************************)
(* What holds of Startup for any number of projects, deployments, faults,  *)
(* crashes and edits, and, since a backup only reads, of Backup as well.   *)
(***************************************************************************)
EXTENDS Backup, TLAPS

USE StartupAssumption

LEMMA RowTypes ==
  /\ LegacyRow \in Row
  /\ Form \subseteq Row
  /\ NoRow \notin Row
  /\ \A r \in Row : r.credential \in Credentials \cup {Blank}
BY DEF LegacyRow, Form, Row

LEMMA LegacyItems ==
  \A f \in Parts : Legacy[f] \subseteq Items
BY DEF Parts, Items

-----------------------------------------------------------------------------
(* Typing.                                                                 *)

\* What the form and the row make of each other is a row.
LEMMA MergedIsRow ==
  ASSUME TypeOK, NEW p \in Projects, NEW form \in Form, rows[p] # NoRow
  PROVE  /\ Merged(rows[p], form) \in Row
         /\ [form EXCEPT !.credential = IF @ = Blank THEN Typed(p) ELSE @] \in Row
<1>1. rows[p] \in Row
  BY DEF TypeOK, Items
<1>2. Typed(p) \in Credentials \cup {Blank}
  BY RowTypes DEF TypeOK, Typed
<1>3. rows[p].credential \in Credentials \cup {Blank}
  BY <1>1, RowTypes
<1> QED
  BY <1>2, <1>3 DEF Merged, Form, Row

LEMMA TypeInitial == Init => TypeOK
<1> SUFFICES ASSUME Init PROVE TypeOK
  OBVIOUS
<1>1. files \in [Parts -> {"absent", "json", "damaged", "migrated", "aside"}]
  <2>1. files \in [Parts -> {"absent", "json", "damaged"}]
    BY DEF Init
  <2> QED
    BY <2>1
<1>2. /\ rows \in [Items -> Row \cup {NoRow}]
      /\ wanted \in [Projects -> Row \cup {NoRow, Untouched}]
  BY DEF Init
<1>3. faults \in 0..MaxFaults /\ crashes \in 0..MaxCrashes /\ edits \in 0..MaxEdits
  BY DEF Init
<1>5. left \in BOOLEAN
  BY DEF Init
<1>4. /\ logs \subseteq Deployments /\ step \in Step /\ part \in Parts /\ todo \subseteq Legacy[part]
      /\ step # "rows" /\ tx = NoTx
  BY DEF Init, Step, Parts
<1> QED
  BY <1>1, <1>2, <1>3, <1>4, <1>5 DEF TypeOK

LEMMA TypeStep == TypeOK /\ [Next]_vars => TypeOK'
<1> SUFFICES ASSUME TypeOK, [Next]_vars PROVE TypeOK'
  OBVIOUS
<1>1. CASE Start
  BY <1>1 DEF TypeOK, Start, Step, Parts
<1>2. CASE ReadFile
  <2>1. /\ UNCHANGED <<rows, logs, files, wanted, crashes, edits>> /\ step = "read"
        /\ faults' \in 0..MaxFaults
    BY <1>2 DEF TypeOK, ReadFile, Fault
  <2>5. left' \in BOOLEAN
    BY <1>2 DEF TypeOK, ReadFile
  <2>2. CASE BeginTx(Legacy[part])
    BY <2>1, <2>5, <2>2 DEF TypeOK, BeginTx, Step
  <2>3. CASE ToRename
    BY <2>1, <2>5, <2>3 DEF TypeOK, ToRename, Step
  <2>4. CASE NextPart
    BY <2>1, <2>5, <2>4 DEF TypeOK, NextPart, Step, Parts
  <2> QED
    BY <1>2, <2>2, <2>3, <2>4 DEF ReadFile
<1>3. CASE NoTransaction
  BY <1>3 DEF TypeOK, NoTransaction, BeginTx, ToRename, Fault, Step, Parts
<1>4. ASSUME NEW i \in todo, MigrateRow(i) PROVE TypeOK'
  <2>1. i \in Items /\ LegacyRow \in Row
    BY LegacyItems, RowTypes DEF TypeOK
  <2> QED
    BY <1>4, <2>1 DEF TypeOK, MigrateRow, Fault, Step
<1>5. CASE Commit
  BY <1>5 DEF TypeOK, Commit, Fault, Step
<1>6. CASE Rename
  <2>1. /\ UNCHANGED <<rows, logs, wanted, crashes, edits>> /\ step = "rename"
        /\ faults' \in 0..MaxFaults
    BY <1>6 DEF TypeOK, Rename, Fault
  <2>4. left' \in BOOLEAN
    BY <1>6 DEF TypeOK, Rename
  <2>2. files' \in [Parts -> {"absent", "json", "damaged", "migrated", "aside"}]
    BY <1>6 DEF TypeOK, Rename
  <2>3. NextPart
    BY <1>6 DEF Rename
  <2> QED
    BY <2>1, <2>2, <2>3, <2>4 DEF TypeOK, NextPart, Step, Parts
<1>7. ASSUME NEW p \in Projects, NEW form \in Form, SaveProject(p, form) PROVE TypeOK'
  BY <1>7, MergedIsRow DEF TypeOK, SaveProject, Edit, loopVars, Items, Step
<1>8. ASSUME NEW p \in Projects, NEW form \in Form, CreateProject(p, form) PROVE TypeOK'
  BY <1>8, RowTypes DEF TypeOK, CreateProject, Edit, loopVars, Items, Step
<1>9. ASSUME NEW p \in Projects, DeleteProject(p) PROVE TypeOK'
  BY <1>9 DEF TypeOK, DeleteProject, Edit, loopVars, Items, Step
<1>10. CASE Crash
  BY <1>10 DEF TypeOK, Crash, Step
<1>11. CASE UNCHANGED vars
  BY <1>11 DEF TypeOK, vars, loopVars
<1> QED
  BY <1>1, <1>2, <1>3, <1>4, <1>5, <1>6, <1>7, <1>8, <1>9, <1>10, <1>11
  DEF Next, InitDB, Dashboard

\* Every state of the start-up and of the tables is well typed.
THEOREM TypeCorrect == Spec => []TypeOK
BY TypeInitial, TypeStep, PTL DEF Spec

-----------------------------------------------------------------------------
(* Nothing is lost.                                                        *)

InTables(i) ==
  /\ rows[i] # NoRow \/ (i \in Projects /\ wanted[i] = NoRow)
  /\ i \in Deployments => i \in logs

\* The open transaction holds what the loop has passed, over what is committed.
TxHolds ==
  step = "rows" =>
    /\ files[part] = "json"
    /\ \A i \in Legacy[part] \ todo : tx[i] # NoRow /\ (i \in Deployments => i \in logs)
    /\ \A i \in Items : rows[i] # NoRow => tx[i] # NoRow

Committed ==
  step = "rename" /\ files[part] = "json" => \A i \in Legacy[part] : InTables(i)

Migrated ==
  \A f \in Parts : \A i \in Legacy[f] : files[f] = "migrated" => InTables(i)

NInv == TypeOK /\ (faults = 0 => TxHolds /\ Committed /\ Migrated)

LEMMA NInitial == Init => NInv
<1> SUFFICES ASSUME Init PROVE NInv
  OBVIOUS
<1>1. TxHolds /\ Committed
  BY DEF Init, TxHolds, Committed
<1>2. Migrated
  BY DEF Init, Migrated
<1> QED
  BY TypeInitial, <1>1, <1>2 DEF NInv

\* A step that touches neither tables nor logs.
LEMMA SameTables ==
  ASSUME UNCHANGED <<rows, logs, wanted>>, NEW i PROVE InTables(i)' <=> InTables(i)
BY DEF InTables

LEMMA NStep == NInv /\ [Next]_vars => NInv'
<1> SUFFICES ASSUME NInv, [Next]_vars PROVE NInv'
  OBVIOUS
<1>0. TypeOK /\ TypeOK'
  BY TypeStep DEF NInv
<1> SUFFICES ASSUME faults' = 0 PROVE TxHolds' /\ Committed' /\ Migrated'
  BY <1>0 DEF NInv
<1> USE <1>0
<1>a. Fault => FALSE
  BY DEF Fault, TypeOK
<1>1. CASE Start
  <2>1. TxHolds /\ Committed /\ Migrated /\ UNCHANGED <<rows, logs, wanted, files>> /\ step' = "read"
    BY <1>1 DEF Start, NInv
  <2> QED
    BY <2>1, SameTables DEF TxHolds, Committed, Migrated
<1>2. CASE ReadFile
  <2>1. /\ TxHolds /\ Committed /\ Migrated /\ UNCHANGED <<rows, logs, wanted, files>>
    BY <1>2, <1>a DEF ReadFile, NInv
  <2>2. Migrated'
    BY <2>1, SameTables DEF Migrated
  <2>3. CASE files[part] = "json" /\ BeginTx(Legacy[part])
    <3>1. step' = "rows" /\ part' = part /\ todo' = Legacy[part] /\ tx' = rows
      BY <2>3 DEF BeginTx
    <3> QED
      BY <2>1, <2>2, <2>3, <3>1 DEF TxHolds, Committed
  <2>4. CASE files[part] = "damaged" /\ ToRename
    BY <2>1, <2>2, <2>4 DEF TxHolds, Committed, ToRename
  <2>5. CASE files[part] \in {"absent", "migrated", "aside"} /\ NextPart
    BY <2>1, <2>2, <2>5 DEF TxHolds, Committed, NextPart
  <2> QED
    BY <1>2, <1>a, <2>3, <2>4, <2>5 DEF ReadFile
<1>3. CASE NoTransaction
  BY <1>3, <1>a DEF NoTransaction
<1>4. ASSUME NEW i \in todo, MigrateRow(i) PROVE TxHolds' /\ Committed' /\ Migrated'
  <2>1. /\ TxHolds /\ Migrated /\ step = "rows" /\ step' = step /\ UNCHANGED <<rows, wanted, files, part>>
        /\ todo' = todo \ {i} /\ tx' = [tx EXCEPT ![i] = LegacyRow]
        /\ logs' = logs \cup ({i} \cap Deployments)
    BY <1>4, <1>a DEF MigrateRow, NInv
  <2>2. tx \in [Items -> Row \cup {NoRow}] /\ i \in Items /\ LegacyRow # NoRow
    BY <2>1, LegacyItems, RowTypes DEF TypeOK
  <2>3. Migrated'
    BY <2>1 DEF Migrated, InTables
  <2>4. ASSUME NEW k \in Legacy[part] \ todo'
        PROVE  tx'[k] # NoRow /\ (k \in Deployments => k \in logs')
    <3>1. k \in Items
      BY LegacyItems DEF TypeOK
    <3> QED
      BY <2>1, <2>2, <2>4, <3>1 DEF TxHolds
  <2>5. \A k \in Items : rows[k] # NoRow => tx'[k] # NoRow
    BY <2>1, <2>2 DEF TxHolds
  <2>6. TxHolds'
    BY <2>1, <2>4, <2>5 DEF TxHolds
  <2> QED
    BY <2>1, <2>3, <2>6 DEF Committed
<1>5. CASE Commit
  <2>1. /\ TxHolds /\ Migrated /\ step = "rows" /\ step' = "rename" /\ todo = {}
        /\ rows' = tx /\ UNCHANGED <<logs, wanted, files, part>>
    BY <1>5, <1>a DEF Commit, NInv
  <2>2. \A i \in Items : rows[i] # NoRow => rows'[i] # NoRow
    BY <2>1 DEF TxHolds
  <2>3. Migrated'
    BY <2>1, <2>2, LegacyItems DEF Migrated, InTables
  <2>4. Committed'
    BY <2>1 DEF TxHolds, Committed, InTables
  <2> QED
    BY <2>1, <2>3, <2>4 DEF TxHolds
<1>6. CASE Rename
  <2>1. /\ Committed /\ Migrated /\ step = "rename" /\ NextPart /\ UNCHANGED <<rows, logs, wanted>>
        /\ files' = [files EXCEPT ![part] = IF @ = "json" THEN "migrated" ELSE "aside"]
    BY <1>6, <1>a DEF Rename, NInv
  <2>2. ASSUME NEW f \in Parts, NEW i \in Legacy[f], files'[f] = "migrated" PROVE InTables(i)'
    <3>1. CASE f = part /\ files[part] = "json"
      BY <2>1, <2>2, <3>1, SameTables DEF Committed
    <3>2. CASE f # part \/ files[part] # "json"
      <4>1. files[f] = "migrated"
        BY <2>1, <2>2, <3>2 DEF TypeOK
      <4> QED
        BY <2>1, <4>1, SameTables DEF Migrated
    <3> QED
      BY <3>1, <3>2
  <2>3. Migrated'
    BY <2>2 DEF Migrated
  <2> QED
    BY <2>1, <2>3 DEF NextPart, TxHolds, Committed
<1>7. CASE Dashboard
  <2>1. PICK p \in Projects :
          DeleteProject(p) \/ \E form \in Form : SaveProject(p, form) \/ CreateProject(p, form)
    BY <1>7 DEF Dashboard
  <2>2. /\ Migrated /\ step' = "serving" /\ UNCHANGED <<logs, files>>
    BY <2>1 DEF DeleteProject, SaveProject, CreateProject, Edit, loopVars, NInv
  <2>3. \A i \in Items : i # p => rows'[i] = rows[i] /\ (i \in Projects => wanted'[i] = wanted[i])
    BY <2>1 DEF DeleteProject, SaveProject, CreateProject, TypeOK, Items
  <2>4. rows'[p] # NoRow \/ wanted'[p] = NoRow
    <3>1. CASE DeleteProject(p)
      BY <3>1 DEF DeleteProject, TypeOK
    <3>2. ASSUME NEW form \in Form, SaveProject(p, form) PROVE rows'[p] # NoRow
      <4>1. Merged(rows[p], form) # NoRow
        BY <3>2, MergedIsRow, RowTypes DEF SaveProject
      <4> QED
        BY <3>2, <4>1 DEF SaveProject, TypeOK, Items
    <3>3. ASSUME NEW form \in Form, CreateProject(p, form) PROVE rows'[p] # NoRow
      BY <3>3, RowTypes DEF CreateProject, TypeOK, Items
    <3> QED
      BY <2>1, <3>1, <3>2, <3>3
  <2>5. \A i \in Items : InTables(i) => InTables(i)'
    BY <2>2, <2>3, <2>4 DEF InTables
  <2>6. Migrated'
    BY <2>2, <2>5, LegacyItems DEF Migrated
  <2> QED
    BY <2>2, <2>6 DEF TxHolds, Committed
<1>8. CASE Crash
  <2>1. Migrated /\ step' = "down" /\ UNCHANGED <<rows, logs, wanted, files>>
    BY <1>8 DEF Crash, NInv
  <2> QED
    BY <2>1, SameTables DEF TxHolds, Committed, Migrated
<1>9. CASE UNCHANGED vars
  <2>1. TxHolds /\ Committed /\ Migrated /\ UNCHANGED <<rows, logs, files, step, part, tx, todo, wanted>>
    BY <1>9 DEF vars, loopVars, NInv
  <2> QED
    BY <2>1 DEF TxHolds, Committed, Migrated, InTables
<1> QED
  BY <1>1, <1>2, <1>3, <1>4, <1>5, <1>6, <1>7, <1>8, <1>9 DEF Next, InitDB

LEMMA NImplies == NInv => NothingLost
BY DEF NInv, Migrated, InTables, NothingLost

\* When no statement and no file operation fails, a file is put aside only when
\* everything it listed is in the tables or was deleted since.
THEOREM MigrationIsComplete == Spec => []NothingLost
BY NInitial, NStep, NImplies, PTL DEF Spec

-----------------------------------------------------------------------------
(* Edits survive.                                                          *)

\* Once a project was edited its file is out of the way, unless it was left.
FileIsAway ==
  ~left =>
    /\ \A p \in Projects : wanted[p] # Untouched => files["projects"] # "json"
    /\ part = "deployments" /\ step # "down" => files["projects"] # "json"

\* The transaction differs from what is committed by items of its file.
TxAdds ==
  step = "rows" =>
    /\ files[part] = "json"
    /\ \A i \in Items : tx[i] = rows[i] \/ (tx[i] = LegacyRow /\ i \in Legacy[part])

\* A row the dashboard has not written was migrated or is not there.
UntouchedRows ==
  \A p \in Projects : wanted[p] = Untouched => rows[p] \in {NoRow, LegacyRow}

ServingIsLast == step = "serving" => part = "deployments"

EInv == TypeOK /\ FileIsAway /\ TxAdds /\ UntouchedRows /\ ServingIsLast /\ EditsSurvive

LEMMA EInitial == Init => EInv
<1> SUFFICES ASSUME Init PROVE EInv
  OBVIOUS
<1>1. FileIsAway /\ EditsSurvive
  BY DEF Init, FileIsAway, EditsSurvive
<1>2. TxAdds /\ UntouchedRows /\ ServingIsLast
  BY DEF Init, TxAdds, UntouchedRows, ServingIsLast, Items
<1> QED
  BY TypeInitial, <1>1, <1>2 DEF EInv

\* A step of the start-up that commits nothing.
LEMMA SameRows ==
  ASSUME EInv, UNCHANGED <<rows, wanted>>, left => left'
  PROVE  UntouchedRows' /\ EditsSurvive'
BY DEF EInv, UntouchedRows, EditsSurvive

LEMMA EStep == EInv /\ [Next]_vars => EInv'
<1> SUFFICES ASSUME EInv, [Next]_vars PROVE EInv'
  OBVIOUS
<1>0. TypeOK /\ TypeOK'
  BY TypeStep DEF EInv
<1> USE <1>0
<1>1. CASE Start
  <2>1. /\ step' = "read" /\ part' = "projects" /\ UNCHANGED <<rows, wanted, files, left>>
    BY <1>1 DEF Start
  <2> QED
    BY <2>1, SameRows DEF EInv, FileIsAway, TxAdds, ServingIsLast
<1>2. CASE ReadFile \/ NoTransaction
  <2>1. /\ UNCHANGED <<rows, wanted, files>> /\ (left => left') /\ step = "read"
    BY <1>2 DEF ReadFile, NoTransaction
  <2>2. CASE \E items \in SUBSET Legacy[part] : BeginTx(items) /\ files[part] = "json"
    <3>1. step' = "rows" /\ part' = part /\ tx' = rows
      BY <2>2 DEF BeginTx
    <3>2. TxAdds' /\ ServingIsLast'
      BY <2>1, <2>2, <3>1 DEF TxAdds, ServingIsLast
    <3>3. FileIsAway'
      BY <2>1, <3>1 DEF EInv, FileIsAway
    <3> QED
      BY <2>1, <3>2, <3>3, SameRows DEF EInv
  <2>3. CASE ToRename
    <3>1. step' = "rename" /\ part' = part
      BY <2>3 DEF ToRename
    <3>2. TxAdds' /\ ServingIsLast'
      BY <3>1 DEF TxAdds, ServingIsLast
    <3>3. FileIsAway'
      BY <2>1, <3>1 DEF EInv, FileIsAway
    <3> QED
      BY <2>1, <3>2, <3>3, SameRows DEF EInv
  <2>4. CASE NextPart /\ (left' \/ files[part] # "json")
    <3>1. step' \in {"read", "serving"} /\ part' = "deployments"
      BY <2>4 DEF NextPart
    <3>2. TxAdds' /\ ServingIsLast'
      BY <3>1 DEF TxAdds, ServingIsLast
    <3>3. part \in {"projects", "deployments"} /\ step # "down"
      BY <2>1 DEF TypeOK, Parts
    <3>4. FileIsAway'
      BY <2>1, <2>4, <3>3 DEF EInv, FileIsAway
    <3> QED
      BY <2>1, <3>2, <3>4, SameRows DEF EInv
  <2> QED
    BY <1>2, <2>2, <2>3, <2>4 DEF ReadFile, NoTransaction
<1>3. ASSUME NEW i \in todo, MigrateRow(i) PROVE EInv'
  <2>1. /\ UNCHANGED <<rows, wanted, files, step, part, left>> /\ step = "rows"
        /\ tx' = tx \/ tx' = [tx EXCEPT ![i] = LegacyRow]
    BY <1>3 DEF MigrateRow
  <2>2. i \in Legacy[part] /\ tx \in [Items -> Row \cup {NoRow}]
    BY <2>1 DEF TypeOK
  <2>3. TxAdds'
    BY <2>1, <2>2 DEF EInv, TxAdds
  <2> QED
    BY <2>1, <2>3, SameRows DEF EInv, FileIsAway, ServingIsLast
<1>4. CASE Commit
  <2>1. /\ UNCHANGED <<wanted, files, part, left>> /\ step = "rows" /\ step' = "rename"
        /\ rows' = tx \/ rows' = rows
    BY <1>4 DEF Commit
  <2>2. \A p \in Projects : rows'[p] = rows[p] \/ (rows'[p] = LegacyRow /\ p \in Legacy[part])
    BY <2>1 DEF EInv, TxAdds, Items
  <2>3. UntouchedRows'
    BY <2>1, <2>2 DEF EInv, UntouchedRows
  <2>4. ASSUME ~left, NEW p \in Projects, wanted[p] # Untouched PROVE rows'[p] = rows[p]
    <3>1. part = "deployments"
      BY <2>1, <2>4 DEF EInv, FileIsAway, TxAdds, TypeOK, Parts
    <3> QED
      BY <2>2, <3>1
  <2>5. EditsSurvive'
    BY <2>1, <2>4 DEF EInv, EditsSurvive
  <2> QED
    BY <2>1, <2>3, <2>5 DEF EInv, FileIsAway, TxAdds, ServingIsLast
<1>5. CASE Rename
  <2>1. /\ UNCHANGED <<rows, wanted>> /\ (left => left') /\ step = "rename" /\ NextPart
        /\ \/ files' = [files EXCEPT ![part] = IF @ = "json" THEN "migrated" ELSE "aside"] /\ left' = left
           \/ files' = files /\ left'
    BY <1>5 DEF Rename
  <2>2. left' \/ (files'[part] # "json" /\ (files["projects"] # "json" => files'["projects"] # "json"))
    BY <2>1 DEF TypeOK, Parts
  <2>3. step' \in {"read", "serving"} /\ part' = "deployments"
    BY <2>1 DEF NextPart
  <2>4. TxAdds' /\ ServingIsLast'
    BY <2>3 DEF TxAdds, ServingIsLast
  <2>5. part \in {"projects", "deployments"} /\ step # "down"
    BY <2>1 DEF TypeOK, Parts
  <2>6. FileIsAway'
    BY <2>1, <2>2, <2>5 DEF EInv, FileIsAway
  <2> QED
    BY <2>1, <2>4, <2>6, SameRows DEF EInv
<1>6. CASE Dashboard
  <2>1. PICK p \in Projects :
          DeleteProject(p) \/ \E form \in Form : SaveProject(p, form) \/ CreateProject(p, form)
    BY <1>6 DEF Dashboard
  <2>2. step = "serving" /\ UNCHANGED <<files, step, part, left>>
    BY <2>1 DEF DeleteProject, SaveProject, CreateProject, Edit, loopVars
  <2>3. \A q \in Projects : q # p => rows'[q] = rows[q] /\ wanted'[q] = wanted[q]
    BY <2>1 DEF DeleteProject, SaveProject, CreateProject, TypeOK, Items
  <2>4. wanted'[p] # Untouched /\ (~left => rows'[p] = wanted'[p])
    <3>1. CASE DeleteProject(p)
      BY <3>1 DEF DeleteProject, TypeOK, Items
    <3>2. ASSUME NEW form \in Form, CreateProject(p, form)
          PROVE  wanted'[p] # Untouched /\ (~left => rows'[p] = wanted'[p])
      BY <3>2, RowTypes DEF CreateProject, TypeOK, Items
    <3>3. ASSUME NEW form \in Form, SaveProject(p, form)
          PROVE  wanted'[p] # Untouched /\ (~left => rows'[p] = wanted'[p])
      <4>1. rows[p] # NoRow
        BY <3>3 DEF SaveProject
      <4>2. wanted'[p] = [form EXCEPT !.credential = IF @ = Blank THEN Typed(p) ELSE @]
        BY <3>3 DEF SaveProject, TypeOK
      <4>3. rows'[p] = Merged(rows[p], form)
        BY <3>3 DEF SaveProject, TypeOK, Items
      <4>4. ~left => rows[p].credential = Typed(p)
        BY <4>1 DEF EInv, EditsSurvive, UntouchedRows, Typed, LegacyRow
      <4> QED
        BY <4>1, <4>2, <4>3, <4>4, MergedIsRow DEF Merged
    <3> QED
      BY <2>1, <3>1, <3>2, <3>3
  <2>5. UntouchedRows' /\ EditsSurvive'
    BY <2>2, <2>3, <2>4 DEF EInv, UntouchedRows, EditsSurvive
  <2>6. FileIsAway' /\ TxAdds' /\ ServingIsLast'
    BY <2>2 DEF EInv, FileIsAway, TxAdds, ServingIsLast
  <2> QED
    BY <2>5, <2>6 DEF EInv
<1>7. CASE Crash
  <2>1. step' = "down" /\ UNCHANGED <<rows, wanted, files, left>>
    BY <1>7 DEF Crash
  <2> QED
    BY <2>1, SameRows DEF EInv, FileIsAway, TxAdds, ServingIsLast
<1>8. CASE UNCHANGED vars
  BY <1>8 DEF vars, loopVars, EInv, FileIsAway, TxAdds, UntouchedRows, ServingIsLast, EditsSurvive
<1> QED
  BY <1>1, <1>2, <1>3, <1>4, <1>5, <1>6, <1>7, <1>8 DEF Next, InitDB

\* No start undoes an edit or a deletion, whenever the server dies, as long as the
\* JSON files can be read and renamed.
THEOREM EditsArePermanent == Spec => []EditsSurvive
<1>1. EInv => EditsSurvive
  BY DEF EInv
<1> QED
  BY EInitial, EStep, <1>1, PTL DEF Spec

-----------------------------------------------------------------------------
(* The start implements Migration.                                         *)

\* The tables with the items put in that the loop has passed.
TxIs ==
  step = "rows" =>
    /\ files[part] = "json"
    /\ tx = [i \in Items |-> IF i \in Legacy[part] \ todo THEN LegacyRow ELSE rows[i]]
    /\ (Legacy[part] \ todo) \cap Deployments \subseteq logs

Installed ==
  step = "rename" /\ files[part] = "json" =>
    /\ \A i \in Legacy[part] : rows[i] = LegacyRow
    /\ Legacy[part] \cap Deployments \subseteq logs

\* The files are put aside in their order, and both before the server serves.
InOrder ==
  /\ part = "deployments" /\ step # "down" => files["projects"] # "json"
  /\ step = "serving" => part = "deployments" /\ files["deployments"] # "json"

AtomicInv == TypeOK /\ (faults = 0 => TxIs /\ Installed /\ InOrder)

LEMMA AtomicInitial == Init => AtomicInv
<1> SUFFICES ASSUME Init PROVE AtomicInv
  OBVIOUS
<1>1. TxIs /\ Installed /\ InOrder
  BY DEF Init, TxIs, Installed, InOrder
<1> QED
  BY TypeInitial, <1>1 DEF AtomicInv

\* No step undoes a fault, and without one none is taken.
LEMMA NoFaultYet ==
  ASSUME TypeOK, [Next]_vars, faults' = 0
  PROVE  faults = 0 /\ ~Fault
<1>1. ~Fault
  BY DEF TypeOK, Fault
<1>2. faults' = faults
  BY <1>1 DEF Next, InitDB, Dashboard, Start, ReadFile, NoTransaction, Commit, Rename, MigrateRow,
    DeleteProject, SaveProject, CreateProject, Edit, Crash, vars
<1> QED
  BY <1>1, <1>2

LEMMA AtomicStep == AtomicInv /\ [Next]_vars => AtomicInv'
<1> SUFFICES ASSUME AtomicInv, [Next]_vars PROVE AtomicInv'
  OBVIOUS
<1>0. TypeOK /\ TypeOK'
  BY TypeStep DEF AtomicInv
<1> SUFFICES ASSUME faults' = 0 PROVE TxIs' /\ Installed' /\ InOrder'
  BY <1>0 DEF AtomicInv
<1>a. TxIs /\ Installed /\ InOrder /\ ~Fault
  BY <1>0, NoFaultYet DEF AtomicInv
<1> USE <1>0
<1>1. CASE Start
  BY <1>1, <1>a DEF Start, TxIs, Installed, InOrder
<1>2. CASE ReadFile
  <2>1. step = "read" /\ UNCHANGED <<rows, logs, files>>
    BY <1>2 DEF ReadFile
  <2>2. CASE files[part] = "json" /\ BeginTx(Legacy[part])
    <3>1. step' = "rows" /\ part' = part /\ tx' = rows /\ todo' = Legacy[part]
      BY <2>2 DEF BeginTx
    <3>2. rows = [i \in Items |-> rows[i]]
      BY DEF TypeOK
    <3>3. TxIs'
      BY <2>1, <2>2, <3>1, <3>2 DEF TxIs
    <3> QED
      BY <1>a, <2>1, <3>1, <3>3 DEF Installed, InOrder
  <2>3. CASE files[part] = "damaged" /\ ToRename
    BY <1>a, <2>1, <2>3 DEF ToRename, TxIs, Installed, InOrder
  <2>4. CASE files[part] \in {"absent", "migrated", "aside"} /\ NextPart
    <3>1. part \in {"projects", "deployments"}
      BY DEF TypeOK, Parts
    <3> QED
      BY <1>a, <2>1, <2>4, <3>1 DEF NextPart, TxIs, Installed, InOrder
  <2> QED
    BY <1>2, <1>a, <2>2, <2>3, <2>4 DEF ReadFile
<1>3. CASE NoTransaction
  BY <1>3, <1>a DEF NoTransaction
<1>4. ASSUME NEW i \in todo, MigrateRow(i) PROVE TxIs' /\ Installed' /\ InOrder'
  <2>1. /\ step = "rows" /\ step' = step /\ UNCHANGED <<rows, files, part>>
        /\ todo' = todo \ {i} /\ tx' = [tx EXCEPT ![i] = LegacyRow]
        /\ logs' = logs \cup ({i} \cap Deployments)
    BY <1>4, <1>a DEF MigrateRow
  <2>2. i \in Items /\ i \in Legacy[part] /\ tx \in [Items -> Row \cup {NoRow}]
    BY <2>1, LegacyItems DEF TypeOK
  <2>3. TxIs'
    BY <1>a, <2>1, <2>2 DEF TxIs
  <2> QED
    BY <1>a, <2>1, <2>3 DEF Installed, InOrder
<1>5. CASE Commit
  <2>1. /\ step = "rows" /\ step' = "rename" /\ todo = {} /\ rows' = tx
        /\ UNCHANGED <<logs, files, part>>
    BY <1>5, <1>a DEF Commit
  <2>2. Installed'
    BY <1>a, <2>1, LegacyItems DEF TxIs, Installed, TypeOK
  <2> QED
    BY <1>a, <2>1, <2>2 DEF TxIs, InOrder
<1>6. CASE Rename
  <2>1. /\ step = "rename" /\ NextPart
        /\ files' = [files EXCEPT ![part] = IF @ = "json" THEN "migrated" ELSE "aside"]
    BY <1>6, <1>a DEF Rename
  <2>2. /\ files'[part] # "json"
        /\ files["projects"] # "json" => files'["projects"] # "json"
    BY <2>1 DEF TypeOK, Parts
  <2>3. part \in {"projects", "deployments"}
    BY DEF TypeOK, Parts
  <2> QED
    BY <1>a, <2>1, <2>2, <2>3 DEF NextPart, TxIs, Installed, InOrder
<1>7. CASE Dashboard
  <2>1. step = "serving" /\ UNCHANGED <<files, step, part>>
    BY <1>7 DEF Dashboard, DeleteProject, SaveProject, CreateProject, Edit, loopVars
  <2> QED
    BY <1>a, <2>1 DEF TxIs, Installed, InOrder
<1>8. CASE Crash
  BY <1>8 DEF Crash, TxIs, Installed, InOrder
<1>9. CASE UNCHANGED vars
  BY <1>9, <1>a DEF vars, loopVars, TxIs, Installed, InOrder
<1> QED
  BY <1>1, <1>2, <1>3, <1>4, <1>5, <1>6, <1>7, <1>8, <1>9 DEF Next, InitDB

\* The files that are still to be migrated.
Waiting == {f \in Parts : files[f] = "json"}

LEMMA AtomicFirst == Init => Migrating!Init
BY DEF Init, Migrating!Init, Items

LEMMA AtomicNext ==
  ASSUME AtomicInv, [Next]_vars, faults' = 0
  PROVE  [Migrating!Next]_(Migrating!migrationVars)
<1>0. TypeOK /\ TxIs /\ Installed /\ InOrder /\ ~Fault
  BY NoFaultYet DEF AtomicInv
<1> SUFFICES Migrating!Next \/ (rows' = rows /\ logs' = logs /\ Waiting' = Waiting)
  BY DEF Migrating!migrationVars, Waiting
<1>1. CASE Start \/ ReadFile \/ Crash \/ UNCHANGED vars
  BY <1>1 DEF Start, ReadFile, Crash, vars, Waiting
<1>2. CASE NoTransaction
  BY <1>2, <1>0 DEF NoTransaction
<1>3. ASSUME NEW i \in todo, MigrateRow(i)
      PROVE  Migrating!Next \/ (rows' = rows /\ logs' = logs /\ Waiting' = Waiting)
  <2>1. /\ UNCHANGED <<rows, files>> /\ step = "rows" /\ logs' = logs \cup ({i} \cap Deployments)
    BY <1>3, <1>0 DEF MigrateRow
  <2>2. part \in Waiting /\ i \in Legacy[part]
    BY <1>0, <2>1 DEF TypeOK, TxIs, Waiting
  <2>3. Waiting' = Waiting
    BY <2>1 DEF Waiting
  <2>4. CASE i \in Deployments
    <3>1. Migrating!WriteLog(part, i)
      BY <2>1, <2>2, <2>3, <2>4 DEF Migrating!WriteLog, Waiting
    <3> QED
      BY <2>2, <2>4, <3>1 DEF Migrating!Next, Waiting
  <2>5. CASE i \notin Deployments
    BY <2>1, <2>3, <2>5
  <2> QED
    BY <2>4, <2>5
<1>4. CASE Commit
  <2>1. /\ step = "rows" /\ todo = {} /\ rows' = tx /\ UNCHANGED <<logs, files>>
    BY <1>4, <1>0 DEF Commit
  <2>2. part \in Waiting /\ Waiting' = Waiting
    BY <1>0, <2>1 DEF TypeOK, TxIs, Waiting
  <2>3. Migrating!Install(part)
    BY <1>0, <2>1, <2>2 DEF TxIs, Migrating!Install, Migrating!With, Waiting, Items
  <2> QED
    BY <2>2, <2>3 DEF Migrating!Next, Waiting
<1>5. CASE Rename
  <2>1. /\ step = "rename" /\ UNCHANGED <<rows, logs>>
        /\ files' = [files EXCEPT ![part] = IF @ = "json" THEN "migrated" ELSE "aside"]
    BY <1>5, <1>0 DEF Rename
  <2>2. Waiting' = Waiting \ {part}
    BY <1>0, <2>1 DEF TypeOK, Waiting
  <2>3. CASE part \in Waiting
    <3>1. files[part] = "json"
      BY <2>3 DEF Waiting
    <3>2. rows = [i \in Items |-> IF i \in Legacy[part] THEN LegacyRow ELSE rows[i]]
      BY <1>0, <2>1, <3>1 DEF Installed, TypeOK
    <3>3. Migrating!PutAside(part)
      BY <1>0, <2>1, <2>2, <3>1, <3>2
      DEF Installed, Migrating!PutAside, Migrating!With, Waiting, Items
    <3>4. part \in {f \in Parts : files[f] = "json"}
      BY <2>3 DEF Waiting
    <3> QED
      BY <3>3, <3>4 DEF Migrating!Next, Migrating!PutAside, Migrating!Install
  <2>4. CASE part \notin Waiting
    BY <2>1, <2>2, <2>4
  <2> QED
    BY <2>3, <2>4
<1>6. CASE Dashboard
  <2>1. PICK p \in Projects :
          DeleteProject(p) \/ \E form \in Form : SaveProject(p, form) \/ CreateProject(p, form)
    BY <1>6 DEF Dashboard
  <2>2. step = "serving" /\ UNCHANGED <<logs, files>>
    BY <2>1 DEF DeleteProject, SaveProject, CreateProject, Edit
  <2>3. Waiting = {} /\ Waiting' = {}
    BY <1>0, <2>2 DEF InOrder, Waiting, Parts
  <2>4. \E row \in Row \cup {NoRow} : rows' = [rows EXCEPT ![p] = row]
    BY <1>0, <2>1, MergedIsRow, RowTypes DEF DeleteProject, SaveProject, CreateProject
  <2>5. Migrating!Edit(p)
    BY <2>2, <2>3, <2>4 DEF Migrating!Edit, Waiting
  <2> QED
    BY <2>5 DEF Migrating!Next
<1> QED
  BY <1>1, <1>2, <1>3, <1>4, <1>5, <1>6 DEF Next, InitDB

\* While nothing fails the start keeps the promise of Migration: a file is
\* installed in one step, put aside after that, and nobody edits the tables before
\* the last one is away, however often the server dies in between.
THEOREM MigrationIsAtomic == Spec => MigrationSpec
<1>1. AtomicInv /\ [Next]_vars => [faults' = 0 => Migrating!Next]_(Migrating!migrationVars)
  BY AtomicNext DEF Migrating!migrationVars
<1> QED
  BY AtomicInitial, AtomicStep, AtomicFirst, <1>1, PTL DEF Spec, MigrationSpec

-----------------------------------------------------------------------------
(* Backups.                                                                *)

\* A backup, a checkpoint and a deployment leave the start-up and its tables alone.
LEMMA BackupStep == [BackupNext]_allVars => [Next]_vars
<1> SUFFICES ASSUME BackupNext \/ UNCHANGED allVars PROVE Next \/ UNCHANGED vars
  BY DEF allVars
<1>1. CASE Data
  BY <1>1 DEF Data
<1>2. CASE Checkpoint \/ RemoveKey
  BY <1>2 DEF Checkpoint, RemoveKey, Change
<1>3. CASE CreateBackup
  BY <1>3 DEF CreateBackup, Begin, List, Stat, Copy, Close, Fails, KeepsData
<1>4. ASSUME NEW f \in {"log", "key"}, Truncate(f) \/ \E n \in 1..MaxSize : Write(f, n)
      PROVE  UNCHANGED vars
  BY <1>4 DEF Truncate, Write, Change
<1>5. CASE UNCHANGED allVars
  BY <1>5 DEF allVars
<1> QED
  BY <1>1, <1>2, <1>3, <1>4, <1>5 DEF BackupNext

\* What Startup promises holds while backups are made.
THEOREM BackupOnlyReads == BackupSpec => Spec
<1>1. BackupInit => Init
  BY DEF BackupInit
<1> QED
  BY <1>1, BackupStep, PTL DEF BackupSpec, Spec

\* Nor does a backup break the promise of Migration.
THEOREM BackupKeepsMigration == BackupSpec => MigrationSpec
BY BackupOnlyReads, MigrationIsAtomic
=============================================================================
