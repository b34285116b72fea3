------------------------------ MODULE Startup ------------------------------
(***************************************************************************)
(* The start of the server (InitDB in internal/db/db.go), which moves the  *)
(* projects and deployments of an older version from two JSON files into   *)
(* the database, and the edits of projects (internal/store) while it       *)
(* serves.  The server may die between any two steps and be started again; *)
(* it serves nobody before InitDB returns.                                 *)
(***************************************************************************)
EXTENDS Naturals, FiniteSets

CONSTANTS
  Projects,     \* project ids
  Deployments,  \* ids of legacy deployments
  Legacy,       \* the ids in each JSON file
  FirstFiles,   \* what the JSON files may be before the first start
  LegacyText,   \* what a legacy project says
  Texts,        \* what a form may say: name, repository, script, ...
  Credentials,  \* access tokens and private keys
  Blank,        \* no credential; in a form also the mask the page shows for one
  NoRow,
  Untouched,    \* the dashboard has not written the row
  MaxFaults,    \* bound: statements and file operations that fail
  MaxCrashes,   \* bound: deaths of the server
  MaxEdits      \* bound: edits of projects

Parts == {"projects", "deployments"}
Items == Projects \cup Deployments
Form  == [text: Texts, credential: Credentials \cup {Blank}]
Row   == [text: Texts \cup {LegacyText}, credential: Credentials \cup {Blank}]

\* The INSERT of the migration names no credential: the column's default.
LegacyRow == [text |-> LegacyText, credential |-> Blank]

ASSUME StartupAssumption ==
  /\ Projects \cap Deployments = {}
  /\ DOMAIN Legacy = Parts
  /\ Legacy["projects"] \subseteq Projects
  /\ Legacy["deployments"] \subseteq Deployments
  /\ FirstFiles \subseteq [Parts -> {"absent", "json", "damaged"}]
  /\ Blank \notin Credentials
  /\ NoRow \notin Row /\ Untouched \notin Row /\ Untouched # NoRow
  /\ MaxFaults \in Nat /\ MaxCrashes \in Nat /\ MaxEdits \in Nat

\* Between two transactions.
NoTx == <<>>

VARIABLES
  rows,     \* tables projects and deployments, as committed
  logs,     \* deployments whose console.log is on disk
  files,    \* projects.json and deployments.json, or what they were renamed from
  step,     \* what InitDB is about to do
  part,     \* the file it is at
  tx,       \* the tables as the open transaction sees them
  todo,     \* the items its loop has not reached
  wanted,   \* what the dashboard last made of a project
  left,     \* a JSON file could not be read or renamed, and stays
  faults, crashes, edits

loopVars == <<step, part, tx, todo>>
vars == <<rows, logs, files, loopVars, wanted, left, faults, crashes, edits>>

Step == {"down", "read", "rows", "rename", "serving"}

TypeOK ==
  /\ rows \in [Items -> Row \cup {NoRow}]
  /\ logs \subseteq Deployments
  /\ files \in [Parts -> {"absent", "json", "damaged", "migrated", "aside"}]
  /\ step \in Step
  /\ part \in Parts
  /\ IF step = "rows" THEN tx \in [Items -> Row \cup {NoRow}] ELSE tx = NoTx
  /\ todo \subseteq Legacy[part]
  /\ wanted \in [Projects -> Row \cup {NoRow, Untouched}]
  /\ left \in BOOLEAN
  /\ faults \in 0..MaxFaults /\ crashes \in 0..MaxCrashes /\ edits \in 0..MaxEdits

Init ==
  /\ rows = [i \in Items |-> NoRow]
  /\ logs = {}
  /\ files \in FirstFiles
  /\ step = "down"
  /\ part = "projects"
  /\ tx = NoTx
  /\ todo = {}
  /\ wanted = [p \in Projects |-> Untouched]
  /\ left = FALSE
  /\ faults = 0 /\ crashes = 0 /\ edits = 0

Fault == faults < MaxFaults /\ faults' = faults + 1

-----------------------------------------------------------------------------
(* InitDB.                                                                 *)

\* The directory, the tables and the default user are there (again).
Start ==
  /\ step = "down"
  /\ step' = "read" /\ part' = "projects" /\ todo' = {}
  /\ UNCHANGED <<rows, logs, files, tx, wanted, left, faults, crashes, edits>>

\* After a file comes the other one, then InitDB returns.
NextPart ==
  /\ step' = IF part = "projects" THEN "read" ELSE "serving"
  /\ part' = "deployments"
  /\ UNCHANGED tx
  /\ todo' = {}

\* With a bug: the loop runs over the items of both files.
BeginTxOfAll(items) ==
  /\ step' = "rows"
  /\ todo' = Items
  /\ tx' = rows
  /\ UNCHANGED part
BeginTx(items) ==
  /\ step' = "rows"
  /\ todo' = items
  /\ tx' = rows
  /\ UNCHANGED part

ToRename == step' = "rename" /\ todo' = {} /\ UNCHANGED <<part, tx>>

\* A file that is not there or is empty is passed over, as is one that cannot be
\* read; one that is no JSON or lists nothing is renamed at once.
ReadFile ==
  /\ step = "read"
  /\ \/ files[part] = "json" /\ BeginTx(Legacy[part]) /\ UNCHANGED <<left, faults>>
     \/ files[part] = "damaged" /\ ToRename /\ UNCHANGED <<left, faults>>
     \/ files[part] \in {"absent", "migrated", "aside"} /\ NextPart /\ UNCHANGED <<left, faults>>
     \/ files[part] \in {"json", "damaged"} /\ Fault /\ NextPart /\ left' = TRUE
  /\ UNCHANGED <<rows, logs, files, wanted, crashes, edits>>

\* Begin fails, or the statement cannot be prepared: the file is renamed all the
\* same.
NoTransaction ==
  /\ step = "read"
  /\ files[part] = "json"
  /\ Fault
  /\ \/ ToRename
     \/ BeginTx({})
  /\ UNCHANGED <<rows, logs, files, wanted, left, crashes, edits>>

\* INSERT OR REPLACE, for a deployment after its log file; errors are ignored.
\* With a bug: the statement is not one of the transaction.
MigrateRowAtOnce(i) ==
  /\ step = "rows"
  /\ i \in todo
  /\ todo' = todo \ {i}
  /\ rows' = [rows EXCEPT ![i] = LegacyRow]
  /\ tx' = [tx EXCEPT ![i] = LegacyRow]
  /\ logs' = logs \cup ({i} \cap Deployments)
  /\ UNCHANGED <<files, step, part, wanted, left, faults, crashes, edits>>
MigrateRow(i) ==
  /\ step = "rows"
  /\ i \in todo
  /\ todo' = todo \ {i}
  /\ \/ /\ tx' = [tx EXCEPT ![i] = LegacyRow]
        /\ logs' = logs \cup ({i} \cap Deployments)
        /\ UNCHANGED faults
     \/ /\ Fault
        /\ \/ UNCHANGED tx /\ logs' = logs \cup ({i} \cap Deployments)
           \/ tx' = [tx EXCEPT ![i] = LegacyRow] /\ UNCHANGED logs
  /\ UNCHANGED <<rows, files, step, part, wanted, left, crashes, edits>>

\* With a bug: the file is renamed before the commit.
CommitLast ==
  /\ step = "rows"
  /\ todo = {}
  /\ IF files[part] = "json"
     THEN files' = [files EXCEPT ![part] = "migrated"] /\ UNCHANGED <<rows, step, tx>>
     ELSE rows' = tx /\ step' = "rename" /\ tx' = NoTx /\ UNCHANGED files
  /\ UNCHANGED <<logs, part, todo, wanted, left, faults, crashes, edits>>
Commit ==
  /\ step = "rows"
  /\ todo = {}
  /\ \/ rows' = tx /\ UNCHANGED faults
     \/ Fault /\ UNCHANGED rows
  /\ step' = "rename" /\ tx' = NoTx
  /\ UNCHANGED <<logs, files, part, todo, wanted, left, crashes, edits>>

\* With a bug: the migrated file is forgotten.
RenameForgotten ==
  /\ step = "rename"
  /\ NextPart
  /\ UNCHANGED <<rows, logs, files, wanted, left, faults, crashes, edits>>
Rename ==
  /\ step = "rename"
  /\ NextPart
  /\ \/ /\ files' = [files EXCEPT ![part] = IF @ = "json" THEN "migrated" ELSE "aside"]
        /\ UNCHANGED <<left, faults>>
     \/ Fault /\ UNCHANGED files /\ left' = TRUE
  /\ UNCHANGED <<rows, logs, wanted, crashes, edits>>

-----------------------------------------------------------------------------
(* The dashboard edits projects; each call is atomic under the mutex of    *)
(* the store.                                                              *)

Edit ==
  /\ step = "serving"
  /\ edits < MaxEdits
  /\ edits' = edits + 1
  /\ UNCHANGED <<logs, files, loopVars, left, faults, crashes>>

\* An empty or masked credential keeps the one that is there.
\* With a bug: the form is taken as it is.
MergedAsSent(old, form) == form
Merged(old, form) ==
  [form EXCEPT !.credential = IF @ = Blank THEN old.credential ELSE @]

\* The credential that was last typed in; a legacy project has none.
Typed(p) == IF wanted[p] \in {NoRow, Untouched} THEN Blank ELSE wanted[p].credential

SaveProject(p, form) ==
  /\ rows[p] # NoRow
  /\ rows' = [rows EXCEPT ![p] = Merged(rows[p], form)]
  /\ wanted' = [wanted EXCEPT ![p] =
       [form EXCEPT !.credential = IF @ = Blank THEN Typed(p) ELSE @]]
  /\ Edit

CreateProject(p, form) ==
  /\ p \notin Legacy["projects"]
  /\ wanted[p] = Untouched
  /\ rows' = [rows EXCEPT ![p] = form]
  /\ wanted' = [wanted EXCEPT ![p] = form]
  /\ Edit

DeleteProject(p) ==
  /\ rows[p] # NoRow
  /\ rows' = [rows EXCEPT ![p] = NoRow]
  /\ wanted' = [wanted EXCEPT ![p] = NoRow]
  /\ Edit

-----------------------------------------------------------------------------

\* The open transaction is never committed.
Crash ==
  /\ step # "down"
  /\ crashes < MaxCrashes
  /\ crashes' = crashes + 1
  /\ step' = "down"
  /\ tx' = NoTx /\ todo' = {}
  /\ UNCHANGED <<rows, logs, files, part, wanted, left, faults, edits>>

InitDB ==
  \/ Start \/ ReadFile \/ NoTransaction \/ Commit \/ Rename
  \/ \E i \in todo : MigrateRow(i)

Dashboard ==
  \E p \in Projects :
    \/ DeleteProject(p)
    \/ \E form \in Form : SaveProject(p, form) \/ CreateProject(p, form)

Next == InitDB \/ Dashboard \/ Crash

Spec == Init /\ [][Next]_vars

-----------------------------------------------------------------------------

\* A file is put aside only when what it listed is in the database, whenever the
\* server dies: each project unless it was deleted since, each deployment with
\* its log.
NothingLost ==
  faults = 0 => \A f \in Parts : \A i \in Legacy[f] :
    files[f] = "migrated" =>
      /\ rows[i] # NoRow \/ (i \in Projects /\ wanted[i] = NoRow)
      /\ i \in Deployments => i \in logs

\* A start never undoes what the dashboard did: an edited project stays as it was
\* edited, with the credential that was last typed in, and a deleted one stays
\* deleted, although a start that follows a crash migrates again over the rows
\* of the first one.
EditsSurvive ==
  ~left => \A p \in Projects : wanted[p] # Untouched => rows[p] = wanted[p]

-----------------------------------------------------------------------------
(* The loop, the transaction, the renaming and the restarts, as one step   *)
(* per file.                                                               *)

Migrating == INSTANCE Migration WITH
  table   <- rows,
  saved   <- logs,
  waiting <- {f \in Parts : files[f] = "json"}

\* As long as nothing has failed the start keeps the promise of Migration,
\* however often the server dies in it.
MigrationSpec ==
  Migrating!Init /\ [][faults' = 0 => Migrating!Next]_(Migrating!migrationVars)
=============================================================================
