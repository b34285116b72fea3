# A verification development of iTrigger

iTrigger is a Go server that receives GitHub webhooks, runs deployment scripts
for the projects they concern, and serves a dashboard. This directory holds TLA+
models of it, configurations that model-check them with TLC, and theorems that
the TLA+ proof system checks. `PROJECT.json` says for every definition which
lines of the source it models; line numbers below refer to `src/`.

## The system

| part | state it keeps | operations | interacts with |
|---|---|---|---|
| deployment runner `deployer/runner.go` | `activeCmds` (id -> command), one goroutine per deployment, key files under `data/keys` | `TriggerDeployment`, `execute`, `StopDeployment` | deployment store, `os/exec`, git |
| deployment store `store/deployment_store.go` | table `deployments`, `data/deployments/<id>/console.log` | `Add`, `Update`, `Get`, `GetAll`, log reader | SQLite, files |
| webhook handler `webhook/handler.go` | none of its own: a request's local variables | `ServeHTTP`, list, clear | project store, runner, event store |
| webhook event store `webhook/store.go` | table `webhooks`, at most 100 rows | `Add`, `GetAll`, `Clear` | SQLite |
| project store `store/project_store.go` | table `projects` | `Save`, `Delete`, `Get`, `GetAll`, `FindByRepoAndBranch` | SQLite |
| users and permissions `auth/users.go` | tables `users`, `user_project_permissions` | list, create, update, delete | SQLite, sessions |
| sessions `auth/session.go`, `auth/handlers.go` | map token -> user name | login, logout, status, settings | users |
| routes `routes/routes.go` | none | authorisation and dispatch | all of the above |
| start-up `db/db.go` | schema, legacy `projects.json` and `deployments.json` | `InitDB`, `migrateLegacyJSON` | files, SQLite |
| backup `backup/backup.go` | an archive under `data/backups` | `CreateBackup` | the data directory |
| key generation `crypto/ssh.go` | none | `GenerateSSHKeyPair` | |
| dashboard `server/web/app.js` | lists, open terminal, open dialogs, two timers | polls, deploys, stops, edits | the HTTP interface |
| bootstrap `cmd/server`, `server/` | none | starts `http.Server` | routes |

What is hard in this code, part by part, and what makes each part correct:

* **Runner.** Every deployment is a goroutine; stop requests are other
  goroutines; the mutexes protect single map accesses and single store calls, so
  check-then-act sequences interleave. The process may die at any point and
  nothing looks at what it left behind. Two deployments of one commit on one day
  have the same identifier. Correct means: a stop that was answered with success
  holds; a status is never invented; what is registered or written to disk for a
  deployment is undone on every path that the program looks at; every deployment whose
  processes end settles.
* **Webhook pipeline.** A request works from a snapshot of the projects while they
  are edited, verifies a signature with several possible secrets, and writes the
  event last. GitHub delivers again. Correct means: exactly the projects that
  match and whose secret signs the body are deployed, a disabled project stays
  quiet, and the event table accounts for what was served within its bound.
* **Users, permissions, sessions.** Handlers read the session, then the user, then
  act in a transaction; foreign keys hold for some connections only. Correct
  means: nobody acts, sees or changes a permission without having held the right while
  the request was served, and an edit changes what it was asked to change.
* **Start-up.** The migration may be repeated after a crash. Correct means: nothing
  is lost and nothing that was edited since is overwritten.
* **Backup.** The directory is copied file by file while it is written. Correct means:
  what is answered with success has every file in its full length, and database and
  write-ahead log, copied one after the other, make up the rows that were there.
* **Dashboard.** Polls overlap and answers arrive out of order. Correct means: what
  is shown catches up with the server, the browser keeps no token that was ended, and
  the list of a page without a session is no longer asked for.

`PROJECT.json` lists the single hazards at their lines, with the properties that
would catch them, or the reason why none does.

## Modules

| module | what it is |
|---|---|
| `DeploymentRecord` | the promise of the runner about one history: a record is opened once and gets one result at most, and none only if it says STOPPED or the server dies; it may be marked STOPPED; an acknowledged one never changes again |
| `Deployer` | the runner on top of the deployment store, and its properties |
| `MCDeployer` | values for TLC, four configurations of constants by name |
| `DeployerProofs` | typing, the stop properties and the refinement, proved |
| `DeployerResources` | clean-up, registry and RUNNING rows, proved |
| `DeployerHistory` | statuses, logs and key files, proved |
| `ProjectStore`, `EventStore` | the two tables of the webhook pipeline, one operator per store call |
| `Delivery` | the promise of the webhook endpoint about its requests: what one is let in for is settled at that moment, each deployment of it is started once, and it is answered when all are |
| `WebhookHandler` | extends the two tables: requests, edits, crashes, and the properties |
| `MCWebhook` | values for TLC |
| `WebhookProofs` | typing, what is deployed, the table of events, and the refinement of `Delivery`, proved |
| `AccessControl` | users, permissions and sessions, and the requests that ask for them; the foreign keys between the tables |
| `MCAccess` | values for TLC |
| `AccessProofs` | typing and the three properties about rights, proved |
| `Migration` | the promise of a start about the files of the older version: one step for what a file lists, then the file is put aside, and no edit before the last one is |
| `Startup` | `InitDB` with the migration of the older version's files, crashes between its steps, and the edits of projects between two starts |
| `Backup` | extends it: commits and checkpoints of SQLite, the logs and key files of deployments, and a backup that copies all this |
| `MCBackup` | values for TLC, for both |
| `StartupProofs` | typing, nothing is lost, no edit is undone, the refinement of `Migration`, and a backup only reads, proved |
| `BackupProofs` | what an archive holds, proved |
| `Dashboard` | one page of the dashboard with the requests it has under way, in front of a history that moves |
| `MCDashboard` | values for TLC |
| `DashboardProofs` | typing and the browser's token, proved |

Definitions whose comment begins "With a bug" are mutations used to see that
the properties can fail; no specification uses them.

### Deployer and the code

A *job* is one call of `TriggerDeployment` and the goroutine it starts. `pc[j]`
is the control point of `execute`; one action is one stretch between two points at
which another goroutine can see a difference:

| action | code |
|---|---|
| `TriggerDeployment` | 53-77, row RUNNING with its header, then `go execute` |
| `PathReady`, `PathFails` | 87-139 |
| `WriteKey` | 141-158; `os.WriteFile` truncates or creates the file first, so that a failed write leaves the old file (it could not be opened), a part of the key (`Partial`) or all of it, and no removal is deferred |
| `ScriptFound`, `ScriptMissing` | 160-220; the clone's result is only logged |
| `Register` | 239-244 |
| `Fork`, `StartFails`, `PublishProcess`, `Reap`, `RunReturns` | the inside of `cmd.Run` at 252, as `os/exec` orders it: the process exists, `cmd.Process` is assigned, `Wait` reaps the process, then waits for the output pipe |
| `CheckStopped`, `CheckOther` | the look at the row, 263-266 |
| `Complete` | the last `Update`, 268-283 |
| `Unregister`, `RemoveKey` | the deferred functions, last in first out; the error of `os.Remove` is not looked at, so that the file may stay |
| `StopLookup` ... `StopKills` | 286-312, one action per store call, map access or system call |
| `ScriptExits`, `ScriptForks`, `ChildExits` | the script, outside the program |
| `Crash` | process death and restart: `NewRunner` makes an empty map |

Abstractions. A log is the set of the parts it contains. The times, the
environment, the redaction of secrets and `metadata.json` (written, never read)
are left out. All jobs run on one day, so an identifier is the commit prefix, or
the job itself when random bytes were used; random bytes are taken not to
repeat. A row that is inserted again under a shared identifier keeps the columns
of the first project; only its status is modelled. `cmd.Process` is read without
synchronisation at line 295: the read sees it or does not, which the order of
`PublishProcess` and `StopReadsProcess` gives. A failing statement is realistic:
no busy timeout is set for SQLite, every error is ignored, and a failed write of
the log leaves the old file or a truncated one. A crash between the writes of
one `Update` is such a partial write followed by `Crash`. The late stop of a
deployment that has just finished may mark its row STOPPED and answers "already
finished"; the model keeps that and the properties allow it. A stop that has read the
row before the output was saved writes the older log back, so that the output is lost.

`keyed` are the jobs that deferred a removal. `stray` is history: the jobs for which writing or
removing the key file failed. What such a failure leaves stays in the key directory:
`KeyFileDiscipline` and `QuiescentIsClean` except the identifiers it happened to
(`StrayIds`) and no others, and `deployer_shared`, where one fault is possible, reaches
all of these outcomes, among them the part of a key that replaces the whole key of the
other job.

### WebhookHandler and the code

| action | code (`webhook/handler.go`) |
|---|---|
| `Malformed` | 51-70 |
| `Receive` | 72-123: the projects are read once, the signature is checked |
| `DeployOne`, `LoopEnds` | 143-155, one turn of the loop each |
| `Record` | 174-178: `Store.Add`, both statements under the store's mutex |
| `SaveProject`, `DeleteProject`, `ClearEvents` | the handlers of the dashboard, concurrent with the requests |
| `Crash` | requests in flight get no answer, the tables survive |

A repository name is the sequence of its segments, so that "`repo` matches
`owner/repo`" is a suffix. A key stands for the secret that signs a body. The
matching projects are a set: the order (`created_at`) changes only the order of
the deployments. A request keeps what it found, so a project in `deployed` is
the row as the request read it. `off` (since when a project is disabled or
deleted) and `at` (when a request was received) are readings of one logical
clock that ticks at every reception and every edit; `at` is also the time the
summary carries.

`TriggerDeployment` is one step here. A delivery that is served twice, and two
projects of one repository and branch, give two jobs of one commit: the instance
with a shared identifier in Deployer.

### AccessControl and the code

A *request* of the dashboard reads the name in its session, then the user's row,
then the permission, and acts in a last step; requests interleave between these.

| action | code |
|---|---|
| `Arrive` | `RequireAuth`, `getUsername`, the first half of `RequireAdmin` (`routes.go` 654-689) |
| `ReadFlag`, `ReadRight`, `Refuse` | the queries and checks before each handler (`routes.go` 264-266, 319-324, 359-361, 385-392, 436-443, 469-476, 549-571, 690-695) |
| `CreateProject`, `GrantCreator` | `routes.go` 318-340: two statements, the second one's error is ignored |
| `EditProject`, `DeleteProject` | `ProjectStore.Save` with an id, `Delete` |
| `Deploy` | the start and the stop of a deployment and the answers about one project, deployment or log, which change nothing here |
| `ReadRows`, `List` | the two halves of a list, of projects (`routes.go` 264-317) or deployments (490-535): the rows, then the permissions that filter them |
| `CreateUser`, `UpdateUser`, `UpdateUsername`, `DeleteUser` | `auth/users.go` 83-357; a transaction is one step, the sessions follow the commit |
| `UpdateSettings`, `NewSession` | `auth/handlers.go` 140-227 |
| `Login`, `NewSession`, `Logout` | `auth/handlers.go` 25-101 |
| `GrowPool` | `database/sql` opens a second connection |
| `Boot` | death, and `InitDB` 53-79 |

Abstractions. A statement or transaction runs on a connection that enforces the
foreign keys or, once the pool has grown, on one that does not (`Enforced`): the
PRAGMA of `db.go:35` reached the first connection only, and the PRAGMAs inside
the transaction of `Update` have no effect there. Each statement may fail, so
`Refuse` is always possible. The two reads of the session by `RequireAuth` and
`getUsername` are one, and so are the deletion and the creation of a token after
a change of the settings. Passwords are left out: a login or a change of
settings has the right one or is refused. Project ids and tokens do not repeat.
`held` and `seen` are history: the requests whose caller has held the right since they
arrived, and for a list the projects its caller had a right for at some moment while it was served.

`RightsChangeByRight` says of every change of a permission that the last step of a request made
it which names that user and project, to the level it asks for, and whose caller held the right;
it holds on either kind of connection. It does not say that permissions go with what they refer
to. On a connection without keys, which is any but the first of the pool, a deleted project leaves its
permissions behind, and a rename in the settings leaves them to whoever takes the old name next.
And the creator's permission is given to the name the request has read (`GrantCreator`): if the
account was renamed or deleted in between and another one has the name by then, that one has
the right. The model has these behaviours, and no property forbids them.

What the checks before a handler can promise is `ActsByRight`: flag and permission are
read at different moments and used later, so a right that is taken away in
between still serves this one request, and no later one. `ListsByRight` is the same for lists,
where three reads make one answer: an administrator who loses that right meanwhile is
still shown everything, and nobody is shown a project that at no moment was visible to him.

### Startup, Backup and the code

| action | code (`db/db.go`) |
|---|---|
| `Start` | 19-80: directory, tables, default account |
| `ReadFile`, `NoTransaction`, `MigrateRow`, `Commit`, `Rename` | one file of `migrateLegacyJSON`, 168-200 and 203-245: first the projects, then the deployments |
| `SaveProject`, `CreateProject`, `DeleteProject` | `ProjectStore.Save` and `Delete`, when the server serves |
| `Crash` | death at any point; the open transaction is gone |

An item stands for a row. The migration writes a deployment's log before its row
and looks at no error, so that each statement may fail and the file is renamed all
the same; a file may be unreadable, or refuse to be renamed, and is then
there at the next start (`left`). A file that is no JSON or lists nothing is renamed, too (`damaged`,
`aside`). `wanted` is history: what the dashboard last made of a project, with the
credential that was last typed in. A form sends an empty or masked field for a
credential the user did not touch, and `Merged` keeps the one in the row.

| action | code (`backup/backup.go`) |
|---|---|
| `Begin`, `List`, `Stat`, `Copy`, `Close`, `Fails` | 15-85: the walk, per file the listing, the header and the copy, and the deferred `Close` calls |
| `Data` | a step of `Startup` and what it does to the files of SQLite; a backup dies with the server |
| `Checkpoint` | SQLite, outside the program: the log is carried over, and the next commit begins it anew |
| `Truncate`, `Write`, `RemoveKey` | `os.WriteFile` of logs and keys, and the removal of a key |

`Order` is the lexical order of the walk: `deployments/`, `itrigger.db`,
`itrigger.db-wal`, `keys/`, one file each. A copy of the log or the database is one step,
and so is a checkpoint: what a reader sees in the middle of a write of SQLite is
below the model. The database file keeps its size. `steady` are the rows a backup may be
expected to have: committed before it began, unchanged since, and not caught in a
write-ahead log that was begun anew during the walk. That last exception is real: the
database is copied, a checkpoint carries the log over into it, a commit overwrites the
log, and the archive has the rows neither in the one nor in the other.
`SuccessIsWhole` speaks of the moment the walk has come to its end, which is what the
handler reports; the errors of the deferred `Close` calls are not looked at, so that a
disk that fills up at the very end is not noticed by the code. Only the last entry may
be short without anyone noticing: `archive/tar` complains at the next header.

### Dashboard and the code

The page runs one task at a time; an action is what it runs without a pause.

| action | code (`server/web/app.js`) |
|---|---|
| `CheckAuth` | `checkAuth` after its answer, and what awaits it in `init` and `handleLogin` |
| `FetchDeployments` | `fetchDeployments` after its answer; a 401 sends a check of the session |
| `FetchAndStreamTerminal`, `FailureAnswered` | the rest of `fetchAndStreamTerminal` and `openFailureModal` |
| `SignAnswered`, `ActAnswered` | the rest of login, logout, settings; of deploy and stop |
| `Poll`, `Tick`, `OpenSoon` | the two intervals and the `setTimeout` of `triggerDeploy` |
| `Click...`, `CloseTerminal`, `CloseFailure` | the listeners |
| `ServerReads`, `ServerSigns`, `ServerActs` | the handlers a request ends in |
| `HistoryMoves`, `Restart`, `Lose` | the history by itself, a restart, a fetch that fails |

Abstractions. The page tells RUNNING and FAILED apart from the rest (`Status`), and the
log of a deployment changes with its status, as `Deployer` shows, so what a
terminal shows is a deployment and the status it was seen with. A request keeps
the cookie it was sent with; two requests are under way at most (`Slots`).
Permissions are left out: a request with a valid session is served or refused.

One more behaviour of the model is worth knowing. While a change of the settings is
under way the server has already deleted the old token; a poll that arrives then
gets a 401, the check that follows fails, hides the page and stops the timer
(`app.js:199-201`); the answer to the settings shows the page again (293) and starts
no timer, so that the page says "Auto-refresh On" and refreshes nothing. The properties of
the timers therefore ask for the timer to be on. The token itself is in order: `CookieIsGood` says
that the browser is not left with one the server has ended, however such requests overlap, unless
an answer was lost or the server restarted.

A page whose session is gone stops polling the list (`PollingEnds`). It does not stop asking
altogether: `stopAutoRefresh` (770-775) leaves the live ticker running, and a 401 only changes the text
of the terminal (1398-1407), so with a terminal open and a list that says RUNNING the page asks every
second for ever (777-790). The model has this (`Tick` needs no session), and no property denies it.

The dialog about a failure may hold the project of an earlier one. A late answer for a dialog that was
closed sets `currentFailedProjectId` and the text (1430); opening another dialog resets the text
and not the project (1416-1422), and an answer that fails leaves the project as it was, so that
Retry (593-600) deploys the earlier project while the dialog says that it is loading or could not load. The
model has these behaviours too (`current`), and no property denies them.

## Runs

| run | shows | instance |
|---|---|---|
| `deployer` | the stop properties, the log, the registry, and `Deployer` implements `DeploymentRecord` | two jobs with identifiers of their own, one over SSH, two stops, one crash |
| `deployer_shared` | truthful statuses, backed RUNNING rows, key files and clean-up for shared identifiers | two jobs of one commit, both over SSH, one stop, one fault (a statement, a file write or a removal), one crash |
| `deployer_live` | every deployment settles unless its script runs, or a process holds its output, for ever; a stop ends a script, and a deployment whose output nothing holds | fair goroutines, processes without fairness, no faults, no crash |
| `webhook` | what is deployed and what is recorded, and `WebhookHandler` implements `Delivery` | two projects (own secret; system's secret and no branch), a push sent twice, an event of another kind, a body that is no JSON, one edit, one fault, one crash, two rows of events |
| `access` | who acts has held the right, and a list shows nothing beyond it; permissions change only by a request that was entitled to change them | an administrator and a developer with a project each can reach, a name that is free, three requests out of fifteen calls, one restart |
| `backup` | a migration loses nothing, undoes no edit and, until a statement fails, implements `Migration`; a backup that succeeds has every file, and the rows | one project and one deployment of the older version, one new project, one failing statement, two crashes, two edits, two changes of logs or checkpoints |
| `dashboard` | the browser keeps no token that was ended | two deployments of two projects, one that has failed, one to come; any three clicks, three tokens, one failure |
| `dashboard_live` | the list catches up, the terminal follows its deployment, the timer of the list ends with the session | three clicks on terminals or to sign out, one failure or restart, fair timers |
| `stopped_overwritten` | finding: a STOPPED row is overwritten | violation |
| `shared_key` | finding: the key of a running script is removed | violation |
| `access_edit` | finding: an edit takes the permissions for the project away | violation |
| `terminal_end` | finding: the terminal misses the end of its deployment | violation |

Bounds. Two jobs are enough for two goroutines to meet in one row, one registry
entry and one key file; two stops are enough for one to undo what another has
read; with one crash every control point is a point of death. A third job adds
no kind of interaction: jobs meet through the state of one identifier only. What is
claimed of a deployment that is alone with its identifier (`Alone`), and of the
identifiers no two jobs share (`OwnIds`), is proved whatever the others do.
For the webhook table, two rows for three deliveries make the clean-up delete,
and the push that is sent twice fills it from either side; its two requests are
interchangeable, and TLC uses that (`webhook` has no liveness property). `MaxFaults`,
`MaxCrashes` and `MaxEdits` are bounds on otherwise unbounded environments.
The safety properties named below are proved without these bounds. For the permissions,
three requests let one action fall between the two halves of a second one while a
third has prepared the state for both; the requests are interchangeable, so TLC
uses their symmetry (`access` has no liveness property). The calls are chosen so that
each handler meets an occupied name, a free name, a project that exists and one
that is made during the run; the three forms give a right, take it away, and
make an administrator. For the start-up, two crashes
are one in the first start and one in the next, which migrates over rows that were
edited in between; one failing statement is enough to leave a file behind. On the page, two requests under way are one that is old and one
that is new; three clicks open a dialog, close it and open another one, or change the settings,
sign out and sign in again, with a token for each.

Deadlock checking is off: a server whose deployments and requests are all served
is idle, and a finite instance has no more of them.

Fairness (`FairSpec`): the Go scheduler runs every goroutine that can move, and
`net/http` serves each stop request in one, so each has weak fairness. `git
clone` is taken to return (`ScriptFound` or `ScriptMissing` is always possible).
There is no fairness for a process: a script may run for ever, and so may one that
holds its output pipe, which `cmd.Run` waits for without a timeout or a `WaitDelay`. A stop
kills `sh` alone (305): the command `sh` was waiting for goes on and keeps the pipe, and
then the goroutine and its registry entry stay for ever although the row says STOPPED.
`EventuallySettled` and `StopEnds` except exactly this (`child`), and a user of this code
should know it.

On the page the fairness is that of the browser and the network: the server answers,
answers arrive, intervals fire. An interval never waits for a slot, which is a bound of the
model, so `Poll`, `Tick` and `OpenSoon` have strong fairness. Nothing is assumed of the user.

`OldestOut` is stated for runs in which no statement has failed: after a failed
clean-up the next one deletes two rows, and a redelivery that keeps its old place
may be one of them.

## Findings

1. `StoppedIsNotOverwritten`. The comment at `runner.go:263` promises not to
   overwrite STOPPED; a stop between the check (264) and the `Update` (282) is
   overwritten. The stop request then answers an error, so `AckedStopSticks`
   still holds.
2. `KeyWhileScriptRuns`. Two SSH deployments with one identifier share the key file;
   the first to end removes it (`runner.go:148-152`), against `README.md:131`: TLC shows a
   script without its key after the other deployment was skipped.
3. `EditKeepsPermissions`. `README.md:88` says that a user with the level Write / Trigger "can
   edit the project configuration and click **Deploy Now**". The edit is an INSERT OR
   REPLACE (`project_store.go:126`), which deletes the row first, and the deletion cascades into
   `user_project_permissions` (`db.go:151`): after one edit nobody but an administrator has any right
   for the project, the user who edited it included.
4. `TerminalCatchesUp`. `README.md:162` promises a real-time viewer with the output. The output is
   written when the script has ended; the viewer is refreshed every second, but only while the list,
   which is refreshed every 2.5 seconds, says RUNNING (`app.js:786`). If the list is refreshed first,
   the viewer keeps the header.

Two more differences need no run to be seen. `README.md:169` promises the complete output of
any deployment entry; the output of a stopped one is dropped, since the goroutine returns at
`runner.go:265` before it saves. And the comment at `webhook/store.go:80` says that the events are
listed newest first, while a redelivery keeps its first place (`EventStore`).

## Proofs

Assumptions are the named ASSUMEs on the constants (`ConstantsAssumption`,
`ProjectAssumption`, `EventAssumption`, `HandlerAssumption`, `AccessAssumption`,
`StartupAssumption`, `BackupAssumption`, `DashboardAssumption`), which TLC evaluates
in the runs. They say which sets the constants are in, that markers such as "no row" are
none of the values they mark, and that the tables a system starts with refer to rows they
contain.

*Typing* (`TypeCorrect` in each development) is inductive as stated. For the requests of
`AccessControl` and `Dashboard` that takes more than sets of values: a request that is served has a
name and a call of the kind its control point is for (`RequestsOK`), and an answer fits the kind of
its request (`Legal`).

*Stops* (`StopSticks`, `KillIsReported`, until a statement fails, for a deployment whose identifier
no other one has been triggered with so far, `Alone`). The properties speak of
the row at the moment a stop is answered or a script was killed; what makes them
true is the order of steps: the row is STOPPED from the stop's update on, for as
long as the goroutine has not passed its check, and a goroutine cannot pass the
check before its process is reaped, while a kill that succeeds comes before that.
The inductive invariant says this for each control point of the stop and of the
goroutine together. Jobs that share identifiers may run beside it: every action
touches the state of one identifier, which is what keeps a deployment that is
alone undisturbed.

*Refinement* (`Refinement`: `Spec => RecordSpec`). The history of the identifiers that no
two jobs share (`OwnIds`) is a `DeploymentRecord`, whose `open` are the deployments with a
goroutine that has not settled what it will write (`Undecided`). With the same
invariant, every step before the first failing statement opens, resolves, forgoes, marks or
acknowledges one record, or is the death of the server, or changes nothing of the history. That a
result comes once follows from `open`, which only the first `Update` with a result leaves.

*Resources* (`CleanWhenQuiescent`, `RegistryIsExact`, `RunningHasGoroutine`). For shared
identifiers the invariant counts owners: an entry or a key file has some live
job of that identifier that will remove it, unless writing or removing that file has failed.

*History and files* (`StatusIsTruthful`, `KeyIsKept`, `LogsFitResults`). What a script has come to
once it has ended never changes, and a goroutine judges only what it has seen (`Ended`), so
whatever a row says was deserved by some job of its identifier, and stays so (`Deserved`);
that takes no assumption about identifiers, faults or crashes. The other two are for a deployment that
is alone with its identifier: a key file is written before the clone and removed by the deferred call only
(`DeferredLate`, `Kept`), and every call that saves a row saves the log with it, of which both
arrive when nothing fails (`AllLogged`).

*Webhook* (`DeploysOwn`, `DeploysAll`, `StaysQuiet`). The invariant relates each request
to what it read: what it found matched when it was received and was enabled then
(`Fresh`, `FoundRight`), the loop's rest and what it has started make up what it
found (`LoopRight`), and a time at which a project went quiet is later than the
arrival of every request that found it (`TimesRight`).

*Delivery* (`KeepsPromise`: `Spec => DeliverySpec`). What a request is to start (`Due`) is a
function of what it read, so no later edit reaches it; the loop's rest and what was started make it up
(`LoopRight`), hence nothing is started twice and the loop ends when all of it was. No failure, edit or
crash is excepted.

*Events* (`EventsKept`, `OldestMakesRoom`). The first is inductive, from what the two
statements do to a table (`UpsertKeeps`, `PruneKeeps`): one more row at most, none of them twice, and
only rows at the old end go. Its bound says that without a fault there is one row too many at
most when the clean-up runs, so that the first row is the only one that can go.

*Rights* (`OnlyByRight`, `ListsOnlyByRight`, `RightsChangeOnlyByRight`). A request that has passed its checks, or holds a flag that
says administrator, was overseen holding the right (`Entitled`); what a list has read is
covered by what its caller was seen to hold, which for an administrator is everything
(`Overseen`). That permissions change by right only follows from the first of these, since each
action that changes them is the last step of a request that has passed its checks.

*Start-up* (`MigrationIsComplete`, `EditsArePermanent`). For the first, when nothing fails: what the loop has
passed is in the transaction (`TxHolds`), what was committed is in the tables until the dashboard
deletes it (`Committed`, `Migrated`). For the second the argument is about order: once a
project was edited the server has served, so every file that could be renamed is away
(`FileIsAway`), and while a file is still there no row but the migration's is in
the tables (`TxAdds`, `UntouchedRows`). `MigrationIsAtomic` is the refinement of `Migration`, for the steps
before the first failing statement: the transaction is the tables with what the loop has passed
(`TxIs`), a file whose loop is over is installed with its logs (`Installed`), and the server serves only
when no file is left (`InOrder`). A death throws the transaction away and keeps the logs, so that a
start that repeats the loop takes no step of `Migration` but that of a log until it commits.
`BackupOnlyReads` shows that every behaviour of
`Backup` is one of `Startup`, so all three hold there as well (`BackupKeepsMigration`).

*Backup* (`ArchiveIsWhole`, `ArchiveHasRows`, `BackupTypeCorrect`), for files that are walked in
their lexical order (`WalksLexically`), which is what `filepath.Walk` does and what they need: the database
is copied before its write-ahead log, and neither is ever gone or shrinks, so an entry that was cut short
is found by the next file unless it is the last. `WalkInv` follows the walk; `MainInv` and `RowsInv` say
that a row which has not changed is in the database's copy or still in the log when that is copied.

*Page* (`CookieStaysGood`). `CookieIsGood` alone is not inductive: what keeps it is what the answers
under way say (`TokenInv`). A token that was ended and is still in the browser belongs to a request whose
answer, not delivered yet, will replace or drop it (`CookieLives`); and a token an answer brings is known to the
server, is in no other answer, and was sent with no request, so that none can have ended it
(`NewTokenIsNew`). Most steps bring or deliver no such answer (`Untold`) and keep both.

Only model-checked is liveness (`EventuallySettled`, `StopEnds`, `ListCatchesUp`, `TerminalFollows`,
`PollingEnds`), which is beyond the prover, as is ENABLED.

## Not modelled

* The content of a project's directory. Two deployments of one project may clone into it
  at the same time, and a crash in the middle of a clone leaves a directory that is not empty, so that
  nobody clones again. What becomes of the files is decided by git and the scripts; the
  program keeps no state about them.
* Byte streams: a log that is read while it is written, the archive of two backups of one
  second, a file of SQLite in the middle of a write.
* Columns that an older schema lacks (`db.go` 45-51): the tables of the model have them all.
* Key generation (`crypto/ssh.go`, cryptography), the bootstrap, the directory browser, the
  health check and the developer's script `scratch/check_db.go` (no state), markup and style sheets.
* On the page, the forms for projects and users and the lists of projects, users and
  webhooks, which are fetched as the list of deployments is. The form for a project sends
  every field as it was loaded, so the last of two edits wins; the server's half is
  `SaveProject`.
