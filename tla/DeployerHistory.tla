--------------------------- MODULE DeployerHistory ---------------------------
(* Theorems about what the history and the files of a deployment say: no   *)
(* result is invented, a result comes with its log, and a key file is      *)
(* there as long as it is needed.                                          *)
EXTENDS DeployerResources

-----------------------------------------------------------------------------
(* Results.  They hold for shared identifiers, failing statements and      *)
(* crashes: a goroutine judges only what it has seen itself.               *)

\* The outcome of a script is known when Run has returned.
Ended ==
  \A j \in Jobs :
    /\ pc[j] = "draining" => script[j] \in Exited
    /\ pc[j] \in {"check", "save"} => script[j] \in Exited \cup {"failed"}

\* What a deployment that deserves a status has come to; it stays so.
Deserves(j, status) ==
  \/ status = "SUCCESS" /\ script[j] = "zero"
  \/ status = "SKIPPED" /\ script[j] = "none" /\ pc[j] \in {"rmkey", "done", "lost"}
  \/ status = "FAILED"  /\ \/ script[j] \in {"nonzero", "killed", "failed"}
                           \/ script[j] = "none" /\ pc[j] = "done"

Deserved ==
  \A i \in Ids : rows[i] \in Final =>
    \E j \in Jobs : generateDeploymentID(j) = i /\ Deserves(j, rows[i])

HistoryInv == Ended /\ Deserved

\* A script that has ended, or never was started, stays so; what a row says is
\* what it said, or what this call writes.
LEMMA ScriptStays ==
  ASSUME Inv, [Next]_vars, NEW j \in Jobs
  PROVE  /\ script[j] \in Exited \cup {"failed"} => script'[j] = script[j]
         /\ script[j] = "none" /\ pc[j] \in {"rmkey", "done", "lost"} =>
              script'[j] = "none" /\ pc'[j] \in {"rmkey", "done", "lost"}
         /\ pc[j] = "done" => pc'[j] = "done"
<1> USE DEF Inv
<1>1. ASSUME NEW k \in Jobs, TriggerDeployment(k) PROVE pc[k] = "idle" /\ pc' = [pc EXCEPT ![k] = "prepare"] /\ script' = script
  BY <1>1 DEF TriggerDeployment, Saves, GoTo, procVars
<1>2. ASSUME NEW k \in Jobs, Goroutine(k)
      PROVE  /\ pc[k] = "start" \/ script' = script
             /\ \E c : script' = [script EXCEPT ![k] = c] \/ script' = script
             /\ \E b : Flow(pc[k], b) /\ pc' = [pc EXCEPT ![k] = b]
  BY <1>2, GoroutineStep
<1>3. ASSUME NEW k \in Jobs, Process(k)
      PROVE  /\ pc' = pc
             /\ script' = script \/ (script[k] = "alive" /\ \E c : script' = [script EXCEPT ![k] = c])
  BY <1>3 DEF Process, ScriptExits, ScriptForks, ChildExits, jobVars
<1>4. ASSUME NEW s \in Stoppers, StopDeployment(s)
      PROVE  /\ pc' = pc
             /\ \/ script' = script
                \/ \E k : script[k] = "alive" /\ script' = [script EXCEPT ![k] = "killed"]
  BY <1>4 DEF StopDeployment, StopLookup, StopReadsProcess, StopGets, StopUpdates, StopKills,
              jobVars, procVars
<1>5. CASE \E k \in Jobs : TriggerDeployment(k)
  BY <1>1, <1>5 DEF TypeOK, Exited
<1>6. CASE \E k \in Jobs : Goroutine(k)
  <2>1. PICK k \in Jobs : Goroutine(k)
    BY <1>6
  <2>2. CASE k = j
    BY <1>2, <2>1, <2>2 DEF TypeOK, Flow, ScriptInv, Exited
  <2>3. CASE k # j
    BY <1>2, <2>1, <2>3 DEF TypeOK
  <2> QED
    BY <2>2, <2>3
<1>7. CASE \E k \in Jobs : Process(k)
  BY <1>3, <1>7 DEF TypeOK, Exited
<1>8. CASE \E s \in Stoppers : StopDeployment(s)
  BY <1>4, <1>8 DEF TypeOK, Exited
<1>9. CASE Crash
  BY <1>9 DEF Crash, procVars, Live, NotStarted, Registered, Deferred, TypeOK
<1>10. CASE UNCHANGED vars
  BY <1>10 DEF vars, jobVars, procVars
<1> QED
  BY <1>5, <1>6, <1>7, <1>8, <1>9, <1>10 DEF Next

LEMMA DeservesStays ==
  ASSUME Inv, [Next]_vars, NEW j \in Jobs, NEW status, Deserves(j, status)
  PROVE  Deserves(j, status)'
BY ScriptStays DEF Deserves, Exited

LEMMA EndedNext == Inv /\ Ended /\ [Next]_vars => Ended'
<1> SUFFICES ASSUME Inv, Ended, [Next]_vars, NEW j \in Jobs
             PROVE  /\ pc'[j] = "draining" => script'[j] \in Exited
                    /\ pc'[j] \in {"check", "save"} => script'[j] \in Exited \cup {"failed"}
  BY DEF Ended
<1>1. ASSUME pc'[j] = pc[j]
      PROVE  /\ pc'[j] = "draining" => script'[j] \in Exited
             /\ pc'[j] \in {"check", "save"} => script'[j] \in Exited \cup {"failed"}
  BY <1>1, ScriptStays DEF Ended
<1>2. CASE \E k \in Jobs : TriggerDeployment(k)
  BY <1>1, <1>2 DEF TriggerDeployment, Saves, GoTo, Inv, TypeOK
<1>3. CASE \E k \in Jobs : Goroutine(k)
  <2>1. PICK k \in Jobs : Goroutine(k)
    BY <1>3
  <2>2. PICK b \in PC : Flow(pc[k], b) /\ pc' = [pc EXCEPT ![k] = b]
    BY <2>1, GoroutineStep DEF Inv
  <2>3. CASE k # j
    BY <1>1, <2>2, <2>3 DEF Inv, TypeOK
  <2>4. CASE k = j
    <3>1. pc'[j] = b
      BY <2>2, <2>4 DEF Inv, TypeOK
    <3>2. CASE b = "draining"
      <4>1. pc[j] = "running"
        BY <2>2, <2>4, <3>2 DEF Flow
      <4>2. Reap(j)
        BY <2>1, <2>4, <3>1, <3>2, <4>1
        DEF Goroutine, PathReady, PathFails, WriteKey, ScriptFound, ScriptMissing, Register,
            Fork, StartFails, PublishProcess, RunReturns, CheckStopped, CheckOther, Complete,
            Unregister, RemoveKey, Moves, Saves, Starts
      <4> QED
        BY <3>1, <3>2, <4>2 DEF Reap, Moves, procVars
    <3>3. CASE b = "check"
      <4>1. pc[j] \in {"draining", "start"}
        BY <2>2, <2>4, <3>3 DEF Flow
      <4>2. CASE pc[j] = "draining"
        BY <4>2, <3>1, <3>3, ScriptStays DEF Ended
      <4>3. CASE pc[j] = "start"
        <5>1. StartFails(j)
          BY <2>1, <2>4, <3>1, <3>3, <4>3
          DEF Goroutine, PathReady, PathFails, WriteKey, ScriptFound, ScriptMissing, Register,
              Fork, PublishProcess, Reap, RunReturns, CheckStopped, CheckOther, Complete,
              Unregister, RemoveKey, Moves, Saves, Starts, GoTo, Inv, TypeOK
        <5> QED
          BY <5>1, <3>1, <3>3 DEF StartFails, Starts, Inv, TypeOK
      <4> QED
        BY <4>1, <4>2, <4>3
    <3>4. CASE b = "save"
      BY <2>2, <2>4, <3>1, <3>4, ScriptStays DEF Flow, Ended
    <3> QED
      BY <3>1, <3>2, <3>3, <3>4
  <2> QED
    BY <2>3, <2>4
<1>4. CASE \E k \in Jobs : Process(k)
  BY <1>1, <1>4 DEF Process, ScriptExits, ScriptForks, ChildExits, jobVars
<1>5. CASE \E s \in Stoppers : StopDeployment(s)
  BY <1>1, <1>5 DEF StopDeployment, StopLookup, StopReadsProcess, StopGets, StopUpdates,
                    StopKills, jobVars
<1>6. CASE Crash
  BY <1>1, <1>6 DEF Crash, Inv, TypeOK
<1>7. CASE UNCHANGED vars
  BY <1>1, <1>7 DEF vars, jobVars
<1> QED
  BY <1>2, <1>3, <1>4, <1>5, <1>6, <1>7 DEF Next

LEMMA DeservedNext == Inv /\ HistoryInv /\ [Next]_vars => Deserved'
<1> SUFFICES ASSUME Inv, HistoryInv, [Next]_vars, NEW i \in Ids, rows'[i] \in Final
             PROVE  \E j \in Jobs : generateDeploymentID(j) = i /\ Deserves(j, rows[i])'
  BY DEF Deserved
<1> USE IdType DEF Inv
<1>1. ASSUME rows'[i] = rows[i]
      PROVE  \E j \in Jobs : generateDeploymentID(j) = i /\ Deserves(j, rows[i])'
  <2>1. PICK j \in Jobs : generateDeploymentID(j) = i /\ Deserves(j, rows[i])
    BY <1>1 DEF HistoryInv, Deserved
  <2>2. Deserves(j, rows[i])'
    BY <2>1, <1>1, DeservesStays DEF Deserves
  <2> QED
    BY <2>1, <2>2
\* The row is the one this store call writes.
<1>2. ASSUME NEW id \in Ids, NEW status, NEW text, saveToDBAndDisk(id, status, text)
      PROVE  rows'[i] = rows[i] \/ (i = id /\ rows'[i] = status)
  BY <1>2 DEF saveToDBAndDisk, Upsert, TypeOK
<1>3. CASE \E j \in Jobs : TriggerDeployment(j)
  BY <1>1, <1>2, <1>3 DEF TriggerDeployment, Saves, Final
<1>4. ASSUME NEW j \in Jobs, Goroutine(j)
      PROVE  \E k \in Jobs : generateDeploymentID(k) = i /\ Deserves(k, rows[i])'
  <2>1. CASE PathFails(j)
    <3>1. pc[j] = "prepare" /\ pc'[j] = "done" /\ script' = script
      BY <2>1 DEF PathFails, Saves, GoTo, TypeOK, procVars
    <3>2. script[j] = "none"
      BY <3>1 DEF ScriptInv, NotStarted
    <3>3. rows'[i] = "FAILED" => Deserves(j, rows[i])'
      BY <3>1, <3>2 DEF Deserves
    <3>4. rows'[i] = rows[i] \/ (i = generateDeploymentID(j) /\ rows'[i] = "FAILED")
      BY <2>1, <1>2 DEF PathFails, Saves
    <3> QED
      BY <3>3, <3>4, <1>1
  <2>2. CASE ScriptMissing(j)
    <3>1. pc[j] = "clone" /\ pc'[j] = "rmkey" /\ script' = script
      BY <2>2 DEF ScriptMissing, Saves, GoTo, TypeOK, procVars
    <3>2. script[j] = "none"
      BY <3>1 DEF ScriptInv, NotStarted
    <3>3. rows'[i] = "SKIPPED" => Deserves(j, rows[i])'
      BY <3>1, <3>2 DEF Deserves
    <3>4. rows'[i] = rows[i] \/ (i = generateDeploymentID(j) /\ rows'[i] = "SKIPPED")
      BY <2>2, <1>2 DEF ScriptMissing, Saves
    <3> QED
      BY <3>3, <3>4, <1>1
  <2>3. CASE Complete(j)
    <3>1. pc[j] = "save" /\ script' = script
      BY <2>3 DEF Complete, Saves, procVars
    <3>2. script[j] \in Exited \cup {"failed"}
      BY <3>1 DEF HistoryInv, Ended
    <3>3. rows'[i] = Verdict(j) => Deserves(j, rows[i])'
      BY <3>1, <3>2 DEF Deserves, Verdict, Exited
    <3>4. rows'[i] = rows[i] \/ (i = generateDeploymentID(j) /\ rows'[i] = Verdict(j))
      BY <2>3, <1>2 DEF Complete, Saves
    <3> QED
      BY <3>3, <3>4, <1>1
  <2>4. CASE ~PathFails(j) /\ ~ScriptMissing(j) /\ ~Complete(j)
    <3>1. rows' = rows
      BY <1>4, <2>4 DEF Goroutine, PathReady, WriteKey, ScriptFound, Register, Fork, StartFails,
         PublishProcess, Reap, RunReturns, CheckStopped, CheckOther, Unregister, RemoveKey,
         Moves, Starts, storeVars
    <3> QED
      BY <3>1, <1>1
  <2> QED
    BY <2>1, <2>2, <2>3, <2>4
<1>5. CASE \E j \in Jobs : Process(j)
  BY <1>1, <1>5 DEF Process, ScriptExits, ScriptForks, ChildExits, storeVars
<1>6. CASE \E s \in Stoppers : StopDeployment(s)
  <2>1. PICK s \in Stoppers : StopDeployment(s)
    BY <1>6
  <2>2. CASE StopUpdates(s)
    <3>1. stopId[s] \in Ids
      BY <2>2 DEF StopUpdates, TypeOK
    <3> QED
      BY <1>1, <1>2, <2>2, <3>1 DEF StopUpdates, Final
  <2>3. CASE ~StopUpdates(s)
    BY <1>1, <2>1, <2>3 DEF StopDeployment, StopLookup, StopReadsProcess, StopGets, StopKills,
       storeVars
  <2> QED
    BY <2>2, <2>3
<1>7. CASE Crash
  BY <1>1, <1>7 DEF Crash, storeVars
<1>8. CASE UNCHANGED vars
  BY <1>1, <1>8 DEF vars, storeVars
<1> QED
  BY <1>3, <1>4, <1>5, <1>6, <1>7, <1>8 DEF Next

\* Whatever identifiers are shared, whatever statements fail and whenever the
\* server dies: no status is invented.
THEOREM StatusIsTruthful == Spec => []TruthfulStatus
<1>1. Init => HistoryInv
  BY DEF Init, HistoryInv, Ended, Deserved, Final
<1>2. Inv /\ HistoryInv /\ [Next]_vars => HistoryInv'
  BY EndedNext, DeservedNext DEF HistoryInv
<1>3. Inv /\ HistoryInv => TruthfulStatus
  BY DEF HistoryInv, Deserved, Deserves, TruthfulStatus, Final, NotStarted
<1> QED
  BY <1>1, <1>2, <1>3, InvAlways, PTL DEF Spec

-----------------------------------------------------------------------------
(* Key files.                                                              *)

\* The removal is deferred once the file was written, which is after "key".
DeferredLate == \A j \in keyed : pc[j] \notin {"idle", "prepare", "key"}

\* The file is there from the clone to the end, as long as no deployment of
\* the same identifier comes between.
Kept ==
  \A j \in keyed :
    pc[j] \in {"clone"} \cup Registered \cup {"register", "rmkey"} /\ Alone(j) =>
      keyFiles[generateDeploymentID(j)] = j

LEMMA KeptNext ==
  Inv /\ DeferredLate /\ Kept /\ [Next]_vars => DeferredLate' /\ Kept'
<1> SUFFICES ASSUME Inv, DeferredLate, Kept, [Next]_vars
             PROVE  DeferredLate' /\ Kept'
  OBVIOUS
<1> USE IdType DEF Inv
<1>0. \A k \in Jobs : Alone(k)' => Alone(k)
  BY AloneBefore
<1>1. ASSUME NEW j \in Jobs, TriggerDeployment(j) PROVE DeferredLate' /\ Kept'
  BY <1>0, <1>1 DEF TriggerDeployment, Saves, GoTo, DeferredLate, Kept, TypeOK, Registered
<1>2. ASSUME NEW j \in Jobs, Goroutine(j) PROVE DeferredLate' /\ Kept'
  <2>1. PICK b \in PC : Flow(pc[j], b) /\ pc' = [pc EXCEPT ![j] = b]
    BY <1>2, GoroutineStep
  \* A deployment that is alone has another identifier than the one that moves.
  <2>0. \A k \in Jobs \ {j} : Alone(k)' => generateDeploymentID(k) # generateDeploymentID(j)
    BY <2>1 DEF Alone, Flow, TypeOK
  <2>2. CASE WriteKey(j)
    <3>1. pc[j] = "key" /\ pc' = [pc EXCEPT ![j] = "clone"]
      BY <2>2 DEF WriteKey, GoTo
    <3>2. /\ \A i \in Ids \ {generateDeploymentID(j)} : keyFiles'[i] = keyFiles[i]
          /\ \/ keyed' = keyed \cup {j} /\ keyFiles'[generateDeploymentID(j)] = j
             \/ keyed' = keyed
      BY <2>2 DEF WriteKey, TypeOK
    <3>3. j \notin keyed
      BY <3>1 DEF DeferredLate
    <3> QED
      BY <1>0, <2>0, <3>1, <3>2, <3>3 DEF DeferredLate, Kept, TypeOK, Registered
  <2>3. CASE RemoveKey(j)
    <3>1. pc[j] = "rmkey" /\ pc' = [pc EXCEPT ![j] = "done"] /\ keyed' = keyed
      BY <2>3 DEF RemoveKey, GoTo
    <3>2. \A k \in Jobs \ {j} : Alone(k)' =>
            keyFiles'[generateDeploymentID(k)] = keyFiles[generateDeploymentID(k)]
      BY <2>0, <2>3 DEF RemoveKey, TypeOK
    <3> QED
      BY <1>0, <3>1, <3>2 DEF DeferredLate, Kept, TypeOK, Registered
  <2>4. CASE ~WriteKey(j) /\ ~RemoveKey(j)
    <3>1. UNCHANGED <<keyFiles, keyed>> /\ pc[j] \notin {"key", "rmkey"}
      BY <1>2, <2>4 DEF Moves, Saves, Starts, Goroutine, PathReady, PathFails, ScriptFound,
         ScriptMissing, Register, Fork, StartFails, PublishProcess, Reap, RunReturns,
         CheckStopped, CheckOther, Complete, Unregister
    <3> QED
      BY <1>0, <2>1, <3>1 DEF DeferredLate, Kept, Flow, TypeOK, Registered
  <2> QED
    BY <2>2, <2>3, <2>4
<1>3. ASSUME NEW j \in Jobs, Process(j) PROVE DeferredLate' /\ Kept'
  BY <1>3 DEF Process, ScriptExits, ScriptForks, ChildExits, jobVars, DeferredLate, Kept, Alone
<1>4. ASSUME NEW s \in Stoppers, StopDeployment(s) PROVE DeferredLate' /\ Kept'
  BY <1>4 DEF StopDeployment, StopLookup, StopReadsProcess, StopGets, StopUpdates,
     StopKills, jobVars, DeferredLate, Kept, Alone
<1>5. CASE Crash
  BY <1>0, <1>5 DEF Crash, DeferredLate, Kept, TypeOK, Live, NotStarted, Registered, Deferred
<1>6. CASE UNCHANGED vars
  BY <1>6 DEF vars, jobVars, DeferredLate, Kept, Alone
<1> QED
  BY <1>1, <1>2, <1>3, <1>4, <1>5, <1>6 DEF Next

\* While it is alone with its identifier, a deployment over SSH that has written
\* its key has it on disk from the clone to the end of its script; and a key
\* stays after the end of the deployment that wrote it only where the server
\* died or where that deployment could not write or not remove its file.
THEOREM KeyIsKept == Spec => []KeyFileDiscipline
<1>1. Init => DeferredLate /\ Kept
  BY DEF Init, DeferredLate, Kept
<1>2. Inv /\ KeyInv /\ Kept => KeyFileDiscipline
  BY DEF KeyInv, Kept, KeyFileDiscipline, StrayIds, Live, NotStarted, Registered, Deferred
<1> QED
  BY <1>1, <1>2, KeptNext, KeyInit, KeyNext, InvAlways, PTL DEF Spec

-----------------------------------------------------------------------------
(* Logs.                                                                   *)

LogOf(j) == logs[generateDeploymentID(j)]

\* A result has its output in the log, or there never was a script.
Logged(j) ==
  /\ Row(j) \in {"SUCCESS", "FAILED"} =>
       /\ <<j, "verdict">> \in LogOf(j)
       /\ <<j, "output">> \in LogOf(j) \/ (script[j] = "none" /\ pc[j] = "done")
  /\ Row(j) = "STOPPED" => \E s \in Stoppers : <<s, "stopped">> \in LogOf(j)

AllLogged == faults = 0 => \A j \in Jobs : Alone(j) => Logged(j)

\* A store call when no statement fails: both the row and the log.
LEMMA SaveBoth ==
  ASSUME TypeOK, NEW id \in Ids, NEW st, NEW text, saveToDBAndDisk(id, st, text), faults' = 0
  PROVE  /\ faults = 0
         /\ \A i \in Ids : /\ rows'[i] = IF i = id THEN st ELSE rows[i]
                           /\ logs'[i] = IF i = id THEN text ELSE logs[i]
BY DEF saveToDBAndDisk, Fault, Upsert, TypeOK

LEMMA LoggedNext == Inv /\ AllLogged /\ [Next]_vars => AllLogged'
<1> SUFFICES ASSUME Inv, AllLogged, [Next]_vars, faults' = 0, NEW j \in Jobs, Alone(j)'
             PROVE  Logged(j)'
  BY DEF AllLogged
<1> USE IdType DEF Inv
<1>1. ASSUME faults = 0, Row(j)' = Row(j), LogOf(j)' = LogOf(j) PROVE Logged(j)'
  <2>1. Logged(j)
    BY <1>1, AloneBefore DEF AllLogged
  <2>2. script[j] = "none" /\ pc[j] = "done" => script'[j] = "none" /\ pc'[j] = "done"
    BY ScriptStays
  <2> QED
    BY <1>1, <2>1, <2>2 DEF Logged
<1>2. ASSUME UNCHANGED storeVars, faults = 0 PROVE Logged(j)'
  BY <1>1, <1>2 DEF storeVars, Row, LogOf
\* A store call of a job.
<1>3. ASSUME NEW k \in Jobs, NEW st, NEW text, pc'[k] # "idle",
             saveToDBAndDisk(generateDeploymentID(k), st, text)
      PROVE  IF k = j THEN Row(j)' = st /\ LogOf(j)' = text ELSE Logged(j)'
  <2>1. CASE k = j
    BY <1>3, <2>1, SaveBoth DEF Row, LogOf
  <2>2. CASE k # j
    <3>1. generateDeploymentID(k) # generateDeploymentID(j)
      BY <1>3, <2>2 DEF Alone
    <3> QED
      BY <1>1, <1>3, <2>2, <3>1, SaveBoth DEF Row, LogOf
  <2> QED
    BY <2>1, <2>2
<1>4. ASSUME NEW k \in Jobs, TriggerDeployment(k) PROVE Logged(j)'
  <2>1. pc'[k] # "idle"
    BY <1>4 DEF TriggerDeployment, Saves, GoTo, TypeOK
  <2> QED
    BY <1>3, <1>4, <2>1 DEF TriggerDeployment, Saves, Logged
<1>5. ASSUME NEW k \in Jobs, Goroutine(k) PROVE Logged(j)'
  <2>1. CASE PathFails(k)
    <3>1. pc[k] = "prepare" /\ pc'[k] = "done" /\ script' = script
      BY <2>1 DEF PathFails, Saves, GoTo, TypeOK, procVars
    <3>2. script[k] = "none"
      BY <3>1 DEF ScriptInv, NotStarted
    <3> QED
      BY <1>3, <2>1, <3>1, <3>2 DEF PathFails, Saves, Logged, Part
  <2>2. CASE ScriptMissing(k)
    <3>1. pc'[k] # "idle"
      BY <2>2 DEF ScriptMissing, Saves, GoTo, TypeOK
    <3> QED
      BY <1>3, <2>2, <3>1 DEF ScriptMissing, Saves, Logged
  <2>3. CASE Complete(k)
    <3>1. Verdict(k) # "STOPPED"
      BY DEF Verdict
    <3>2. <<k, "verdict">> \in Part(k, {"header", "output", "verdict"})
          /\ <<k, "output">> \in Part(k, {"header", "output", "verdict"})
      BY DEF Part
    <3> QED
      BY <1>3, <2>3, <3>1, <3>2 DEF Complete, Saves, Logged, GoTo, TypeOK
  <2>4. CASE ~PathFails(k) /\ ~ScriptMissing(k) /\ ~Complete(k)
    <3>1. UNCHANGED storeVars
      BY <1>5, <2>4 DEF Goroutine, PathReady, WriteKey, ScriptFound, Register, Fork, StartFails,
         PublishProcess, Reap, RunReturns, CheckStopped, CheckOther, Unregister, RemoveKey,
         Moves, Starts, storeVars
    <3>2. faults = 0
      BY <1>5, GoroutineStep
    <3> QED
      BY <1>2, <3>1, <3>2
  <2> QED
    BY <2>1, <2>2, <2>3, <2>4
<1>6. ASSUME NEW k \in Jobs, Process(k) PROVE Logged(j)'
  BY <1>2, <1>6 DEF Process, ScriptExits, ScriptForks, ChildExits
<1>7. ASSUME NEW s \in Stoppers, StopDeployment(s) PROVE Logged(j)'
  <2>1. CASE StopUpdates(s)
    <3>1. /\ stopCmd[s] \in Jobs /\ stopId[s] = generateDeploymentID(stopCmd[s])
          /\ pc'[stopCmd[s]] # "idle"
      BY <2>1 DEF StopUpdates, TypeOK, RequestInv, jobVars
    <3>2. saveToDBAndDisk(generateDeploymentID(stopCmd[s]), "STOPPED",
                          stopLog[s] \cup {<<s, "stopped">>})
      BY <2>1, <3>1 DEF StopUpdates
    <3>3. CASE stopCmd[s] = j
      <4>1. Row(j)' = "STOPPED" /\ LogOf(j)' = stopLog[s] \cup {<<s, "stopped">>}
        BY <1>3, <3>1, <3>2, <3>3
      <4> QED
        BY <4>1 DEF Logged
    <3>4. CASE stopCmd[s] # j
      BY <1>3, <3>1, <3>2, <3>4
    <3> QED
      BY <3>3, <3>4
  <2>2. CASE ~StopUpdates(s)
    <3>1. UNCHANGED storeVars /\ faults = 0
      BY <1>7, <2>2 DEF StopDeployment, StopLookup, StopReadsProcess, StopGets, StopKills,
         GetFound, GetFails, Fault, TypeOK
    <3> QED
      BY <1>2, <3>1
  <2> QED
    BY <2>1, <2>2
<1>8. CASE Crash
  BY <1>2, <1>8 DEF Crash
<1>9. CASE UNCHANGED vars
  BY <1>2, <1>9 DEF vars
<1> QED
  BY <1>4, <1>5, <1>6, <1>7, <1>8, <1>9 DEF Next

\* While a deployment is alone with its identifier and no statement fails, row
\* and log agree, whoever of goroutine and stop wrote last.
THEOREM LogsFitResults == Spec => []ResultHasItsLog
<1>1. Init => AllLogged
  BY IdType DEF Init, AllLogged, Logged, Row
<1>2. Inv /\ AllLogged => ResultHasItsLog
  BY DEF AllLogged, Logged, LogOf, ResultHasItsLog, Exited
<1> QED
  BY <1>1, <1>2, LoggedNext, InvAlways, PTL DEF Spec
=============================================================================
