------------------------------ MODULE Deployer ------------------------------
(***************************************************************************)
(* The deployment runner (internal/deployer/runner.go) on top of the       *)
(* deployment store (internal/store/deployment_store.go).                  *)
(*                                                                         *)
(* A job is one call of TriggerDeployment and the goroutine it starts.     *)
(* Each job moves through the control points of `execute`; a stop request  *)
(* moves through the control points of StopDeployment.  The mutexes of the *)
(* runner and of the store make each map access and each store call        *)
(* atomic, and nothing else is: every other pair of statements of two      *)
(* goroutines may interleave.  The server process may die and be started   *)
(* again at any point.                                                     *)
(***************************************************************************)
EXTENDS Naturals, FiniteSets

CONSTANTS
  Jobs,        \* calls of TriggerDeployment
  Commits,     \* six-character prefixes of commit hashes, on one day
  CommitOf,    \* the prefix a job deploys, or the job itself for "HEAD"
  SshJobs,     \* jobs whose project has auth type ssh_key and a private key
  Stoppers,    \* calls of StopDeployment
  MaxFaults,   \* bound: statements and file writes that may fail
  MaxCrashes,  \* bound: deaths of the server process
  NoJob,       \* no entry, no file
  Partial      \* a key file that is empty or cut short

ASSUME ConstantsAssumption ==
  /\ Jobs \cap Commits = {}
  /\ CommitOf \in [Jobs -> Commits \cup Jobs]
  /\ \A j \in Jobs : CommitOf[j] \in Jobs => CommitOf[j] = j
  /\ SshJobs \subseteq Jobs
  /\ MaxFaults \in Nat
  /\ MaxCrashes \in Nat
  /\ NoJob \notin Jobs
  /\ Partial \notin Jobs \cup {NoJob}

(***************************************************************************)
(* An identifier is the date and either the commit prefix or three random  *)
(* bytes (a manual deployment passes "HEAD").  All jobs run on one day and *)
(* random bytes do not repeat, so the identifier is the prefix or the job. *)
(***************************************************************************)
Ids == Commits \cup Jobs
generateDeploymentID(j) == CommitOf[j]

VARIABLES
  rows,        \* table deployments: the status of a row, or "none"
  logs,        \* data/deployments/<id>/console.log, as a set of facts
  keyFiles,    \* data/keys/id_<id>.key: the job whose key it holds
  activeCmds,  \* the registry: the job whose cmd is stored under an id
  pc,          \* control point of a job's goroutine
  keyed,       \* jobs that deferred the removal of their key file
  stray,       \* jobs whose key file could not be written or not be removed
  script,      \* the `sh` process of a job
  child,       \* does a process started by the script hold its output pipe?
  stopPc,      \* control point of a stop request
  stopId,      \* the deployment it names
  stopCmd,     \* the cmd it found in the registry
  stopLog,     \* the log it read before it updates the row
  faults, crashes

storeVars == <<rows, logs>>
jobVars   == <<pc, keyed, keyFiles, stray, activeCmds>>
procVars  == <<script, child>>
stopVars  == <<stopPc, stopId, stopCmd, stopLog>>
vars == <<storeVars, jobVars, procVars, stopVars, faults, crashes>>

Final  == {"SUCCESS", "FAILED", "SKIPPED"}
Status == {"none", "RUNNING", "STOPPED"} \cup Final

\* What a console log may contain: parts written by a job, notes by a stop.
Fact == ((Jobs \cup Stoppers) \X {"header", "output", "verdict", "stopped"})

NotStarted == {"prepare", "key", "clone", "register"}
Waiting    == {"forked", "running"}      \* inside cmd.Run, process not reaped
Registered == {"start", "forked", "running", "draining",
               "check", "save", "unregister"}
Deferred   == {"unregister", "rmkey"}
Live       == NotStarted \cup Registered \cup Deferred
PC         == Live \cup {"idle", "done", "lost"}

Exited  == {"zero", "nonzero", "killed"}
Scripts == Exited \cup {"none", "alive", "failed"}
StopPC  == {"idle", "process", "get", "update", "kill", "ok", "error", "lost"}

TypeOK ==
  /\ rows \in [Ids -> Status]
  /\ logs \in [Ids -> SUBSET Fact]
  /\ keyFiles \in [Ids -> Jobs \cup {NoJob, Partial}]
  /\ activeCmds \in [Ids -> Jobs \cup {NoJob}]
  /\ pc \in [Jobs -> PC]
  /\ keyed \in SUBSET Jobs
  /\ stray \in SUBSET Jobs
  /\ script \in [Jobs -> Scripts]
  /\ child \in [Jobs -> BOOLEAN]
  /\ stopPc \in [Stoppers -> StopPC]
  /\ stopId \in [Stoppers -> Ids \cup {NoJob}]
  /\ stopCmd \in [Stoppers -> Jobs \cup {NoJob}]
  /\ stopLog \in [Stoppers -> SUBSET Fact]
  /\ \A s \in Stoppers : stopPc[s] \in {"process", "get", "update", "kill", "ok"} =>
       stopId[s] \in Ids /\ stopCmd[s] \in Jobs
  /\ faults \in 0..MaxFaults
  /\ crashes \in 0..MaxCrashes

Init ==
  /\ rows = [i \in Ids |-> "none"]
  /\ logs = [i \in Ids |-> {}]
  /\ keyFiles = [i \in Ids |-> NoJob]
  /\ activeCmds = [i \in Ids |-> NoJob]
  /\ pc = [j \in Jobs |-> "idle"]
  /\ keyed = {}
  /\ stray = {}
  /\ script = [j \in Jobs |-> "none"]
  /\ child = [j \in Jobs |-> FALSE]
  /\ stopPc = [s \in Stoppers |-> "idle"]
  /\ stopId = [s \in Stoppers |-> NoJob]
  /\ stopCmd = [s \in Stoppers |-> NoJob]
  /\ stopLog = [s \in Stoppers |-> {}]
  /\ faults = 0
  /\ crashes = 0

-----------------------------------------------------------------------------
(* The deployment store: one call is one critical section of its mutex.    *)

Fault == faults < MaxFaults /\ faults' = faults + 1

\* INSERT ... ON CONFLICT(id) DO UPDATE: of a row that is there only the status
\* and the times change (it keeps the project of the job that inserted it).
Upsert(id, status) == rows' = [rows EXCEPT ![id] = status]

\* Add and Update: the log file first, then the row, every error ignored.
\* A failing file write leaves the old file or the truncated one.  A failing
\* statement also stands for a server that dies between the two.
saveToDBAndDisk(id, status, text) ==
  \/ /\ logs' = [logs EXCEPT ![id] = text]
     /\ Upsert(id, status)
     /\ UNCHANGED faults
  \/ /\ Fault
     /\ logs' = [logs EXCEPT ![id] = text]
     /\ UNCHANGED rows
  \/ /\ Fault
     /\ \E kept \in {{}, logs[id]} : logs' = [logs EXCEPT ![id] = kept]
     /\ Upsert(id, status)

\* Get finds the row; it also answers "not found" when the query fails.
GetFound(id) == rows[id] # "none" /\ UNCHANGED faults
GetFails(id) == \/ rows[id] = "none" /\ UNCHANGED faults
                \/ Fault

-----------------------------------------------------------------------------
(* TriggerDeployment and execute.                                          *)

GoTo(j, at) == pc' = [pc EXCEPT ![j] = at]
Part(j, what) == {<<j, w>> : w \in what}

\* A step of a goroutine that changes nothing else, and one that makes a store
\* call with its own copy of the deployment.
Moves(j, from, to) ==
  /\ pc[j] = from
  /\ GoTo(j, to)
  /\ UNCHANGED <<storeVars, keyed, keyFiles, stray, activeCmds, procVars, stopVars,
                 faults, crashes>>
Saves(j, from, to, status, parts) ==
  /\ pc[j] = from
  /\ GoTo(j, to)
  /\ saveToDBAndDisk(generateDeploymentID(j), status, Part(j, parts))
  /\ UNCHANGED <<keyed, keyFiles, stray, activeCmds, procVars, stopVars, crashes>>

TriggerDeployment(j) == Saves(j, "idle", "prepare", "RUNNING", {"header"})

PathReady(j) == Moves(j, "prepare", "key")

\* MkdirAll fails: the row becomes FAILED and nothing has been deferred yet.
\* With a bug: the error is logged and the row forgotten.
PathFailsSilently(j) == Moves(j, "prepare", "done")
PathFails(j) == Saves(j, "prepare", "done", "FAILED", {"header", "verdict"})

\* The private key is written to a file named by the deployment's id, for an
\* SSH project.  os.WriteFile creates or truncates the file first: a write that
\* fails may leave what was there, a part of the key or all of it; then no
\* removal is deferred and execute goes on.
WriteKey(j) ==
  /\ pc[j] = "key"
  /\ GoTo(j, "clone")
  /\ \/ /\ j \in SshJobs
        /\ keyFiles' = [keyFiles EXCEPT ![generateDeploymentID(j)] = j]
        /\ keyed' = keyed \cup {j}
        /\ UNCHANGED <<stray, faults>>
     \/ /\ j \notin SshJobs
        /\ UNCHANGED <<keyFiles, keyed, stray, faults>>
     \/ /\ j \in SshJobs
        /\ Fault
        /\ \E left \in {keyFiles[generateDeploymentID(j)], Partial, j} :
             keyFiles' = [keyFiles EXCEPT ![generateDeploymentID(j)] = left]
        /\ stray' = stray \cup {j}
        /\ UNCHANGED keyed
  /\ UNCHANGED <<storeVars, activeCmds, procVars, stopVars, crashes>>

\* The clone of an empty directory is over, whatever its outcome (it is only
\* logged), and a repository file or the project's script was found, or none.
\* With bugs: the key file goes right after the clone; the early return
\* forgets the row; it forgets the key file.
ScriptFoundRemovesKey(j) ==
  /\ pc[j] = "clone"
  /\ GoTo(j, "register")
  /\ keyFiles' = [keyFiles EXCEPT ![generateDeploymentID(j)] = NoJob]
  /\ UNCHANGED <<storeVars, keyed, stray, activeCmds, procVars, stopVars, faults,
                 crashes>>
ScriptMissingSilently(j) == Moves(j, "clone", "rmkey")
ScriptMissingKeepsKey(j) == Saves(j, "clone", "done", "SKIPPED", {"header", "verdict"})

ScriptFound(j)   == Moves(j, "clone", "register")
ScriptMissing(j) == Saves(j, "clone", "rmkey", "SKIPPED", {"header", "verdict"})

Register(j) ==
  /\ pc[j] = "register"
  /\ GoTo(j, "start")
  /\ activeCmds' = [activeCmds EXCEPT ![generateDeploymentID(j)] = j]
  /\ UNCHANGED <<storeVars, keyed, keyFiles, stray, procVars, stopVars, faults,
                 crashes>>

\* cmd.Start: the process runs before the goroutine assigns cmd.Process.
Starts(j, to, outcome) ==
  /\ pc[j] = "start"
  /\ GoTo(j, to)
  /\ script' = [script EXCEPT ![j] = outcome]
  /\ UNCHANGED <<storeVars, keyed, keyFiles, stray, activeCmds, child, stopVars,
                 faults, crashes>>
Fork(j)       == Starts(j, "forked", "alive")
StartFails(j) == Starts(j, "check", "failed")

\* cmd.Process is assigned; StopDeployment reads it without the mutex.
PublishProcess(j) == Moves(j, "forked", "running")

\* cmd.Wait reaps the process, and then waits for the output pipe to close.
Reap(j)       == script[j] \in Exited /\ Moves(j, "running", "draining")
RunReturns(j) == ~child[j] /\ Moves(j, "draining", "check")

\* "If manual stop set it to STOPPED, do not overwrite it here."  A Get that
\* finds nothing counts as not stopped.  With a bug: the row is not looked at.
CheckStopped(j) ==
  /\ rows[generateDeploymentID(j)] = "STOPPED"
  /\ Moves(j, "check", "unregister")

CheckOtherBlind(j) == Moves(j, "check", "save")
CheckOther(j) ==
  /\ pc[j] = "check"
  /\ \/ /\ rows[generateDeploymentID(j)] # "STOPPED"
        /\ GetFound(generateDeploymentID(j))
     \/ GetFails(generateDeploymentID(j))
  /\ GoTo(j, "save")
  /\ UNCHANGED <<storeVars, keyed, keyFiles, stray, activeCmds, procVars, stopVars,
                 crashes>>

\* With bugs: the raw outcome as a status; a Start error that is shadowed.
VerdictByOutcome(j) == IF script[j] = "zero" THEN "SUCCESS" ELSE script[j]
VerdictIgnoresStart(j) ==
  IF script[j] \in {"zero", "failed"} THEN "SUCCESS" ELSE "FAILED"
Verdict(j) == IF script[j] = "zero" THEN "SUCCESS" ELSE "FAILED"

\* The final Update, from what the goroutine knows: it does not look at the
\* row again.  With a bug: the log is taken before the output is appended.
CompleteWithoutOutput(j) ==
  Saves(j, "save", "unregister", Verdict(j), {"header", "verdict"})
Complete(j) ==
  Saves(j, "save", "unregister", Verdict(j), {"header", "output", "verdict"})

\* Deferred, last in first out: the registry entry, then the key file.
\* With a bug: the deferred delete is missing.
UnregisterForgotten(j) == Moves(j, "unregister", "rmkey")
Unregister(j) ==
  /\ pc[j] = "unregister"
  /\ GoTo(j, "rmkey")
  /\ activeCmds' = [activeCmds EXCEPT ![generateDeploymentID(j)] = NoJob]
  /\ UNCHANGED <<storeVars, keyed, keyFiles, stray, procVars, stopVars, faults,
                 crashes>>

\* The error of os.Remove is ignored.
RemoveKey(j) ==
  /\ pc[j] = "rmkey"
  /\ GoTo(j, "done")
  /\ \/ /\ j \in keyed
        /\ keyFiles' = [keyFiles EXCEPT ![generateDeploymentID(j)] = NoJob]
        /\ UNCHANGED <<stray, faults>>
     \/ /\ j \in keyed
        /\ Fault
        /\ stray' = stray \cup {j}
        /\ UNCHANGED keyFiles
     \/ /\ j \notin keyed
        /\ UNCHANGED <<keyFiles, stray, faults>>
  /\ UNCHANGED <<storeVars, keyed, activeCmds, procVars, stopVars, crashes>>

-----------------------------------------------------------------------------
(* The script: outside the program, as os/exec sees it.                    *)

ScriptExits(j, code) ==
  /\ script[j] = "alive"
  /\ script' = [script EXCEPT ![j] = code]
  /\ UNCHANGED <<storeVars, jobVars, child, stopVars, faults, crashes>>

ScriptForks(j) ==
  /\ script[j] = "alive"
  /\ ~child[j]
  /\ child' = [child EXCEPT ![j] = TRUE]
  /\ UNCHANGED <<storeVars, jobVars, script, stopVars, faults, crashes>>

ChildExits(j) ==
  /\ child[j]
  /\ child' = [child EXCEPT ![j] = FALSE]
  /\ UNCHANGED <<storeVars, jobVars, script, stopVars, faults, crashes>>

-----------------------------------------------------------------------------
(* StopDeployment.  The handler has seen the row before it calls it.       *)

StopTo(s, at) == stopPc' = [stopPc EXCEPT ![s] = at]

StopLookup(s, id) ==
  /\ stopPc[s] = "idle"
  /\ rows[id] # "none"
  /\ stopId' = [stopId EXCEPT ![s] = id]
  /\ stopCmd' = [stopCmd EXCEPT ![s] = activeCmds[id]]
  /\ StopTo(s, IF activeCmds[id] = NoJob THEN "error" ELSE "process")
  /\ UNCHANGED <<storeVars, jobVars, procVars, stopLog, faults, crashes>>

\* cmd.Process is nil until PublishProcess, and for ever if Start failed.
HasProcess(j) == pc[j] \notin {"start", "forked"} /\ script[j] # "failed"

\* With a bug: the process is killed before the row is updated.
StopSkipsUpdate(s) ==
  /\ stopPc[s] = "process"
  /\ StopTo(s, IF HasProcess(stopCmd[s]) THEN "kill" ELSE "error")
  /\ UNCHANGED <<storeVars, jobVars, procVars, stopId, stopCmd, stopLog,
                 faults, crashes>>

StopReadsProcess(s) ==
  /\ stopPc[s] = "process"
  /\ StopTo(s, IF HasProcess(stopCmd[s]) THEN "get" ELSE "error")
  /\ UNCHANGED <<storeVars, jobVars, procVars, stopId, stopCmd, stopLog,
                 faults, crashes>>

StopGets(s) ==
  /\ stopPc[s] = "get"
  /\ \/ /\ GetFound(stopId[s])
        /\ stopLog' = [stopLog EXCEPT ![s] = logs[stopId[s]]]
        /\ StopTo(s, "update")
     \/ /\ GetFails(stopId[s])
        /\ StopTo(s, "kill")
        /\ UNCHANGED stopLog
  /\ UNCHANGED <<storeVars, jobVars, procVars, stopId, stopCmd, crashes>>

StopUpdates(s) ==
  /\ stopPc[s] = "update"
  /\ StopTo(s, "kill")
  /\ saveToDBAndDisk(stopId[s], "STOPPED",
                     stopLog[s] \cup {<<s, "stopped">>})
  /\ UNCHANGED <<jobVars, procVars, stopId, stopCmd, stopLog, crashes>>

\* With bugs: the error of Kill is ignored; the process is not killed.
StopKillsUnchecked(s) ==
  /\ stopPc[s] = "kill"
  /\ LET j == stopCmd[s] IN
     script' = IF pc[j] \in Waiting /\ script[j] = "alive"
               THEN [script EXCEPT ![j] = "killed"] ELSE script
  /\ StopTo(s, "ok")
  /\ UNCHANGED <<storeVars, jobVars, child, stopId, stopCmd, stopLog,
                 faults, crashes>>
StopKillsNothing(s) ==
  /\ stopPc[s] = "kill"
  /\ StopTo(s, "ok")
  /\ UNCHANGED <<storeVars, jobVars, procVars, stopId, stopCmd, stopLog,
                 faults, crashes>>

\* Kill answers "process already finished" once Wait has reaped the process.
StopKills(s) ==
  /\ stopPc[s] = "kill"
  /\ LET j == stopCmd[s] IN
     \/ /\ pc[j] \in Waiting
        /\ script' = IF script[j] = "alive"
                     THEN [script EXCEPT ![j] = "killed"] ELSE script
        /\ StopTo(s, "ok")
     \/ /\ pc[j] \notin Waiting
        /\ StopTo(s, "error")
        /\ UNCHANGED script
  /\ UNCHANGED <<storeVars, jobVars, child, stopId, stopCmd, stopLog,
                 faults, crashes>>

-----------------------------------------------------------------------------
(* The server process dies and starts again: NewRunner makes an empty map, *)
(* nothing looks at the rows or the files the dead process left behind.    *)

Crash ==
  /\ crashes < MaxCrashes
  /\ crashes' = crashes + 1
  /\ pc' = [j \in Jobs |-> IF pc[j] \in Live THEN "lost" ELSE pc[j]]
  /\ activeCmds' = [i \in Ids |-> NoJob]
  /\ stopPc' = [s \in Stoppers |->
                  IF stopPc[s] \in {"process", "get", "update", "kill"}
                  THEN "lost" ELSE stopPc[s]]
  /\ UNCHANGED <<storeVars, keyed, keyFiles, stray, procVars, stopId, stopCmd,
                 stopLog, faults>>

-----------------------------------------------------------------------------
Goroutine(j) ==
  \/ PathReady(j) \/ PathFails(j) \/ WriteKey(j)
  \/ ScriptFound(j) \/ ScriptMissing(j) \/ Register(j)
  \/ Fork(j) \/ StartFails(j) \/ PublishProcess(j) \/ Reap(j) \/ RunReturns(j)
  \/ CheckStopped(j) \/ CheckOther(j) \/ Complete(j)
  \/ Unregister(j) \/ RemoveKey(j)

Process(j) ==
  \/ \E code \in {"zero", "nonzero"} : ScriptExits(j, code)
  \/ ScriptForks(j)
  \/ ChildExits(j)

StopDeployment(s) ==
  \/ \E id \in Ids : StopLookup(s, id)
  \/ StopReadsProcess(s) \/ StopGets(s) \/ StopUpdates(s) \/ StopKills(s)

Next ==
  \/ \E j \in Jobs : TriggerDeployment(j) \/ Goroutine(j) \/ Process(j)
  \/ \E s \in Stoppers : StopDeployment(s)
  \/ Crash

Spec == Init /\ [][Next]_vars

-----------------------------------------------------------------------------
(* Safety.  Where a property needs it, it says that the deployment is      *)
(* alone with its identifier; what it says then does not depend on what    *)
(* the other deployments do, whether or not they share identifiers.        *)

Row(j) == rows[generateDeploymentID(j)]

\* The identifiers under which a key file could not be written or removed.
StrayIds == {generateDeploymentID(j) : j \in stray}

\* No other deployment with the identifier has been triggered so far.
Alone(j) ==
  \A k \in Jobs \ {j} :
    generateDeploymentID(k) = generateDeploymentID(j) => pc[k] = "idle"

\* A stop answered with success has stopped the deployment for good: its row
\* says STOPPED, whatever its goroutine had read before, and its script is no
\* longer alive (StopDeployment and the check before the last Update).
AckedStopSticks ==
  faults = 0 => \A s \in Stoppers : stopPc[s] = "ok" /\ Alone(stopCmd[s]) =>
    /\ rows[stopId[s]] = "STOPPED"
    /\ script[stopCmd[s]] # "alive"

\* A script killed by a stop is never reported as FAILED or SUCCESS, nor left
\* RUNNING: the row was updated before the process was killed.
KilledIsStopped ==
  faults = 0 => \A j \in Jobs :
    script[j] = "killed" /\ Alone(j) => Row(j) = "STOPPED"

\* The history never invents a result, even when statements fail, the server
\* dies or jobs share an identifier: SUCCESS only after exit code 0 of a script
\* of that deployment, FAILED only after a failure, SKIPPED when none ran.
TruthfulStatus ==
  \A i \in Ids : rows[i] \in Final =>
    \E j \in Jobs :
      /\ generateDeploymentID(j) = i
      /\ CASE rows[i] = "SUCCESS" -> script[j] = "zero"
           [] rows[i] = "SKIPPED" -> script[j] = "none" /\ pc[j] \notin NotStarted
           [] rows[i] = "FAILED"  ->
                \/ script[j] \in {"nonzero", "killed", "failed"}
                \/ script[j] = "none" /\ pc[j] = "done"

\* Row and console log, written by two goroutines from their own copies, tell
\* the same story: a result comes with the output it judges, STOPPED with the
\* note of the stop.
ResultHasItsLog ==
  faults = 0 => \A j \in Jobs : Alone(j) =>
    LET log == logs[generateDeploymentID(j)] IN
    /\ Row(j) \in {"SUCCESS", "FAILED"} =>
         <<j, "verdict">> \in log /\ (script[j] \in Exited => <<j, "output">> \in log)
    /\ Row(j) = "STOPPED" => \E s \in Stoppers : <<s, "stopped">> \in log

\* A deployment can be stopped while its script runs, and the registry keeps
\* nothing of a deployment that is over or of a server that died.
RegistryExact ==
  /\ \A j \in Jobs : pc[j] \in Registered /\ Alone(j) =>
       activeCmds[generateDeploymentID(j)] = j
  /\ \A i \in Ids : activeCmds[i] # NoJob => pc[activeCmds[i]] \in Registered

\* The key file of an SSH deployment holds its own key from the clone to the
\* end of the script.  A key outlives the deployment that wrote it, and a file
\* holds less than a key, only where the server died, or where os.WriteFile or
\* os.Remove failed for a deployment of that identifier.
KeyFileDiscipline ==
  /\ \A j \in keyed :
       pc[j] \in {"clone"} \cup Registered \cup {"register", "rmkey"} /\ Alone(j) =>
         keyFiles[generateDeploymentID(j)] = j
  /\ \A i \in Ids : keyFiles[i] \in Jobs \ stray =>
       pc[keyFiles[i]] \in Live \cup {"lost"}
  /\ \A i \in Ids : keyFiles[i] = Partial => i \in StrayIds

\* For shared identifiers too: a row that says RUNNING has a goroutine that
\* will still judge it, or had one when the server died.
RunningIsBacked ==
  faults = 0 => \A i \in Ids : rows[i] = "RUNNING" =>
    \E j \in Jobs : /\ generateDeploymentID(j) = i
                     /\ pc[j] \in (Live \ Deferred) \cup {"lost"}

\* For shared identifiers too: when every job has ended in a server that did
\* not die, the registry is empty, and the key directory holds nothing but what
\* a failing os.WriteFile or os.Remove has left there.
QuiescentIsClean ==
  (\A j \in Jobs : pc[j] \in {"idle", "done"}) =>
    \A i \in Ids : activeCmds[i] = NoJob /\ (keyFiles[i] # NoJob => i \in StrayIds)

-----------------------------------------------------------------------------
(* The deployment history as the rows show it, until a statement fails.    *)

\* The identifiers that no two jobs share, and those with a stop acknowledged.
OwnIds ==
  {i \in Ids : \A j, k \in Jobs :
     generateDeploymentID(j) = i /\ generateDeploymentID(k) = i => j = k}
Acked == {i \in OwnIds : \E s \in Stoppers : stopPc[s] = "ok" /\ stopId[s] = i}

\* Those with a goroutine that has not come to its result.
Undecided == {i \in OwnIds :
  \E j \in Jobs : generateDeploymentID(j) = i /\ pc[j] \in Live \ Deferred}

Record == INSTANCE DeploymentRecord WITH
  Ids    <- OwnIds,
  status <- [i \in OwnIds |-> rows[i]],
  open   <- Undecided,
  acked  <- Acked

\* Until a statement fails the runner keeps the promise of DeploymentRecord for
\* every identifier of a single job, whatever becomes of those that are shared.
RecordSpec == Record!Init /\ [][faults' = 0 => Record!Next]_(Record!recordVars)

-----------------------------------------------------------------------------
(* Liveness.  The Go scheduler runs every goroutine and every request that *)
(* can move; it gives no promise about the processes they wait for.        *)

ServerFairness ==
  /\ \A j \in Jobs : WF_vars(Goroutine(j))
  /\ \A s \in Stoppers :
       WF_vars(StopReadsProcess(s) \/ StopGets(s) \/ StopUpdates(s) \/ StopKills(s))

\* Scripts, and the processes that hold their output, may run for ever.
FairSpec == Spec /\ ServerFairness

\* Every deployment ends with a status that stays, unless its script runs for
\* ever or a process holds its output for ever (cmd.Run has neither a timeout
\* nor a WaitDelay): no goroutine waits for anything else.
EventuallySettled ==
  \A j \in Jobs : pc[j] # "idle" ~>
    \/ [](pc[j] = "done" /\ Row(j) \in Final \cup {"STOPPED"})
    \/ [](script[j] = "alive")
    \/ [](child[j])

\* A stop answered with success ends the deployment, its goroutine and its
\* registry entry, unless a process that the kill of `sh` did not reach (its
\* foreground command, a daemon) holds the output for ever.
StopEnds ==
  \A s \in Stoppers, j \in Jobs : stopPc[s] = "ok" /\ stopCmd[s] = j ~>
    \/ pc[j] = "done" /\ activeCmds[generateDeploymentID(j)] # j
    \/ [](child[j])

-----------------------------------------------------------------------------
(* What the documentation and the comments say and the code does not do.   *)

\* runner.go:263 "If manual stop set it to STOPPED, do not overwrite it here".
StoppedIsNotOverwritten ==
  [][\A i \in Ids : rows[i] = "STOPPED" => rows'[i] = "STOPPED"]_vars

\* README.md:131 the key is there for "all Git clone and pull operations".
KeyWhileScriptRuns ==
  \A j \in keyed : pc[j] \in Waiting /\ script[j] = "alive" =>
    keyFiles[generateDeploymentID(j)] # NoJob
=============================================================================
