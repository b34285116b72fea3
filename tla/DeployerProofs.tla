--------------------------- MODULE DeployerProofs ---------------------------
(* Theorems about Deployer, for every set of jobs, commits and requests.   *)
EXTENDS Deployer, TLAPS

-----------------------------------------------------------------------------
(* Types.                                                                  *)

LEMMA IdType == \A j \in Jobs : generateDeploymentID(j) \in Ids
  BY ConstantsAssumption DEF Ids, generateDeploymentID

\* One store call keeps the types of what it writes, for a status and a text
\* of the right type.
LEMMA SaveType ==
  ASSUME TypeOK, NEW id \in Ids, NEW st \in Status,
         NEW text \in SUBSET Fact, saveToDBAndDisk(id, st, text)
  PROVE  /\ rows' \in [Ids -> Status]
         /\ logs' \in [Ids -> SUBSET Fact]
         /\ faults' \in 0..MaxFaults
<1>1. rows' = rows \/ Upsert(id, st)
  BY DEF saveToDBAndDisk
<1>2. rows' \in [Ids -> Status]
  BY <1>1 DEF TypeOK, Upsert
<1>3. logs' \in [Ids -> SUBSET Fact]
  <2>1. PICK t \in SUBSET Fact : logs' = [logs EXCEPT ![id] = t]
    BY DEF saveToDBAndDisk, TypeOK
  <2> QED BY <2>1 DEF TypeOK
<1>4. faults' \in 0..MaxFaults
  BY ConstantsAssumption DEF saveToDBAndDisk, Fault, TypeOK
<1> QED BY <1>2, <1>3, <1>4

LEMMA PartType ==
  ASSUME NEW j \in Jobs
  PROVE  /\ Part(j, {"header"}) \in SUBSET Fact
         /\ Part(j, {"header", "verdict"}) \in SUBSET Fact
         /\ Part(j, {"header", "output", "verdict"}) \in SUBSET Fact
  BY DEF Part, Fact

LEMMA TypeInit == Init => TypeOK
  BY ConstantsAssumption DEF Init, TypeOK, Status, PC, Scripts, StopPC

LEMMA TypeNext == TypeOK /\ [Next]_vars => TypeOK'
<1> SUFFICES ASSUME TypeOK, [Next]_vars PROVE TypeOK'
  OBVIOUS
<1> USE IdType, ConstantsAssumption
<1>1. ASSUME NEW j \in Jobs, TriggerDeployment(j) PROVE TypeOK'
  <2>1. "RUNNING" \in Status BY DEF Status
  <2> QED BY <1>1, <2>1, SaveType, PartType
       DEF Saves, TriggerDeployment, TypeOK, GoTo, PC, Live, NotStarted, procVars, stopVars
<1>2. ASSUME NEW j \in Jobs, Goroutine(j) PROVE TypeOK'
  <2>1. Verdict(j) \in Status /\ {"FAILED", "SKIPPED"} \subseteq Status
    BY DEF Verdict, Status, Final
  <2>2. CASE PathReady(j) \/ ScriptFound(j) \/ PublishProcess(j) \/ Reap(j) \/ RunReturns(j)
    BY <2>2 DEF Moves, PathReady, ScriptFound, PublishProcess, Reap, RunReturns, TypeOK, GoTo,
                PC, Live, NotStarted, Registered, Deferred, storeVars, procVars, stopVars
  <2>3. CASE PathFails(j) \/ ScriptMissing(j) \/ Complete(j)
    <3>1. CASE PathFails(j)
      BY <3>1, <2>1, SaveType, PartType
      DEF Saves, PathFails, TypeOK, GoTo, PC, procVars, stopVars
    <3>2. CASE ScriptMissing(j)
      BY <3>2, <2>1, SaveType, PartType
      DEF Saves, ScriptMissing, TypeOK, GoTo, PC, Live, Deferred, procVars, stopVars
    <3>3. CASE Complete(j)
      BY <3>3, <2>1, SaveType, PartType
      DEF Saves, Complete, TypeOK, GoTo, PC, Live, Deferred, procVars, stopVars
    <3> QED BY <2>3, <3>1, <3>2, <3>3
  <2>4. CASE WriteKey(j)
    <3>1. keyFiles' \in [Ids -> Jobs \cup {NoJob, Partial}]
      BY <2>4 DEF WriteKey, TypeOK
    <3>2. pc' \in [Jobs -> PC] /\ keyed' \in SUBSET Jobs /\ stray' \in SUBSET Jobs
      BY <2>4 DEF WriteKey, TypeOK, GoTo, PC, Live, NotStarted
    <3>3. faults' \in 0..MaxFaults
      BY <2>4 DEF WriteKey, Fault, TypeOK
    <3> QED BY <2>4, <3>1, <3>2, <3>3 DEF WriteKey, TypeOK, storeVars, procVars, stopVars
  <2>5. CASE Register(j) \/ Unregister(j)
    <3>1. activeCmds' \in [Ids -> Jobs \cup {NoJob}]
      BY <2>5 DEF Register, Unregister, TypeOK
    <3>2. pc' \in [Jobs -> PC]
      BY <2>5 DEF Register, Unregister, TypeOK, GoTo, PC, Live, Registered, Deferred
    <3> QED BY <2>5, <3>1, <3>2
         DEF Register, Unregister, TypeOK, storeVars, procVars, stopVars
  <2>6. CASE RemoveKey(j)
    <3>1. keyFiles' \in [Ids -> Jobs \cup {NoJob, Partial}] /\ stray' \in SUBSET Jobs
      BY <2>6 DEF RemoveKey, TypeOK
    <3>2. pc' \in [Jobs -> PC] /\ faults' \in 0..MaxFaults
      BY <2>6 DEF RemoveKey, Fault, TypeOK, GoTo, PC
    <3> QED BY <2>6, <3>1, <3>2 DEF RemoveKey, TypeOK, storeVars, procVars, stopVars
  <2>7. CASE Fork(j) \/ StartFails(j)
    <3>1. script' \in [Jobs -> Scripts]
      BY <2>7 DEF Starts, Fork, StartFails, TypeOK, Scripts
    <3>2. pc' \in [Jobs -> PC]
      BY <2>7 DEF Starts, Fork, StartFails, TypeOK, GoTo, PC, Live, Registered
    <3> QED BY <2>7, <3>1, <3>2 DEF Starts, Fork, StartFails, TypeOK, storeVars, stopVars
  <2>8. CASE CheckStopped(j) \/ CheckOther(j)
    <3>1. faults' \in 0..MaxFaults
      BY <2>8 DEF Moves, CheckStopped, CheckOther, GetFound, GetFails, Fault, TypeOK
    <3>2. pc' \in [Jobs -> PC]
      BY <2>8 DEF Moves, CheckStopped, CheckOther, TypeOK, GoTo, PC, Live, Registered, Deferred
    <3> QED BY <2>8, <3>1, <3>2
         DEF Moves, CheckStopped, CheckOther, TypeOK, storeVars, procVars, stopVars
  <2> QED BY <1>2, <2>2, <2>3, <2>4, <2>5, <2>6, <2>7, <2>8 DEF Goroutine
<1>3. ASSUME NEW j \in Jobs, Process(j) PROVE TypeOK'
  <2>1. script' \in [Jobs -> Scripts] /\ child' \in [Jobs -> BOOLEAN]
    <3>1. CASE \E code \in {"zero", "nonzero"} : ScriptExits(j, code)
      BY <3>1 DEF ScriptExits, TypeOK, Scripts, Exited
    <3>2. CASE ScriptForks(j) \/ ChildExits(j)
      BY <3>2 DEF ScriptForks, ChildExits, TypeOK
    <3> QED BY <1>3, <3>1, <3>2 DEF Process
  <2>2. UNCHANGED <<storeVars, jobVars, stopVars, faults, crashes>>
    BY <1>3 DEF Process, ScriptExits, ScriptForks, ChildExits
  <2> QED BY <2>1, <2>2 DEF TypeOK, storeVars, jobVars, stopVars
<1>4. ASSUME NEW s \in Stoppers, StopDeployment(s) PROVE TypeOK'
  <2>1. ASSUME NEW id \in Ids, StopLookup(s, id) PROVE TypeOK'
    BY <2>1 DEF StopLookup, StopTo, TypeOK, StopPC, storeVars, jobVars, procVars
  <2>2. CASE StopReadsProcess(s)
    BY <2>2 DEF StopReadsProcess, StopTo, TypeOK, StopPC, storeVars, jobVars, procVars
  <2>3. CASE StopGets(s)
    <3>1. stopId[s] \in Ids /\ stopPc[s] = "get"
      BY <2>3 DEF StopGets, TypeOK
    <3>2. /\ faults' \in 0..MaxFaults
          /\ stopLog' \in [Stoppers -> SUBSET Fact]
      BY <2>3, <3>1 DEF StopGets, GetFound, GetFails, Fault, TypeOK
    <3>3. \/ stopPc' = [stopPc EXCEPT ![s] = "update"]
          \/ stopPc' = [stopPc EXCEPT ![s] = "kill"]
      BY <2>3 DEF StopGets, StopTo
    <3> QED BY <2>3, <3>1, <3>2, <3>3
         DEF StopGets, TypeOK, StopPC, storeVars, jobVars, procVars
  <2>4. CASE StopUpdates(s)
    <3>1. /\ stopId[s] \in Ids /\ stopCmd[s] \in Jobs /\ stopPc[s] = "update"
          /\ stopPc' = [stopPc EXCEPT ![s] = "kill"]
      BY <2>4 DEF StopUpdates, StopTo, TypeOK
    <3>2. stopLog[s] \cup {<<s, "stopped">>} \in SUBSET Fact
      BY DEF TypeOK, Fact
    <3>3. /\ rows' \in [Ids -> Status]
          /\ logs' \in [Ids -> SUBSET Fact]
          /\ faults' \in 0..MaxFaults
      <4>1. "STOPPED" \in Status
        BY DEF Status
      <4> QED BY <2>4, <3>1, <3>2, <4>1, SaveType DEF StopUpdates
    <3> QED BY <2>4, <3>1, <3>3 DEF StopUpdates, TypeOK, StopPC, jobVars, procVars
  <2>5. CASE StopKills(s)
    BY <2>5 DEF StopKills, StopTo, TypeOK, StopPC, Scripts, Exited, storeVars, jobVars
  <2> QED BY <1>4, <2>1, <2>2, <2>3, <2>4, <2>5 DEF StopDeployment
<1>5. CASE Crash
  BY <1>5 DEF Crash, TypeOK, PC, Live, NotStarted, Registered, Deferred, StopPC,
              storeVars, procVars
<1>6. CASE UNCHANGED vars
  BY <1>6 DEF vars, storeVars, jobVars, procVars, stopVars, TypeOK
<1> QED BY <1>1, <1>2, <1>3, <1>4, <1>5, <1>6 DEF Next

\* The variables keep their types in every run of the runner.
THEOREM TypeCorrect == Spec => []TypeOK
<1> QED BY TypeInit, TypeNext, PTL DEF Spec

-----------------------------------------------------------------------------
(* Stops.  The invariant says, for a deployment that is alone with its     *)
(* identifier, what the row may say at each control point of its           *)
(* goroutine, and what a stop request knows at each of its own.            *)

\* The registry names, under an id, a deployment of that id inside Run.
RegInv ==
  \A i \in Ids : activeCmds[i] # NoJob =>
    generateDeploymentID(activeCmds[i]) = i /\ pc[activeCmds[i]] \in Registered

\* A script exists only after cmd.Start.
ScriptInv ==
  \A j \in Jobs : pc[j] \in NotStarted \cup {"idle", "start"} => script[j] = "none"

\* Until its goroutine has written a result, the row is RUNNING, and nobody
\* can mark it STOPPED before cmd.Process is set.
RowInv ==
  \A j \in Jobs :
    /\ pc[j] # "idle" => Row(j) # "none"
    /\ Alone(j) =>
         /\ pc[j] = "idle" => Row(j) = "none"
         /\ pc[j] \in NotStarted \cup {"start", "forked"} => Row(j) = "RUNNING"
         /\ pc[j] \in {"running", "draining", "check", "save"} =>
              Row(j) \in {"RUNNING", "STOPPED"}

\* A request holds a cmd of the deployment it names, started since it looked.
RequestInv ==
  \A s \in Stoppers :
    /\ stopPc[s] \in {"process", "get", "update", "kill", "ok"} =>
         /\ generateDeploymentID(stopCmd[s]) = stopId[s]
         /\ pc[stopCmd[s]] \notin NotStarted \cup {"idle"}
    /\ stopPc[s] \in {"get", "update", "kill", "ok"} =>
         pc[stopCmd[s]] \notin {"start", "forked"}

\* Between its Update and the end of the goroutine's check, a request can rely
\* on STOPPED; once Kill has succeeded the check was still to come.
StopInv ==
  \A s \in Stoppers : Alone(stopCmd[s]) =>
    /\ stopPc[s] = "kill" /\ pc[stopCmd[s]] \in {"running", "draining", "check"} =>
         Row(stopCmd[s]) = "STOPPED"
    /\ stopPc[s] = "ok" =>
         /\ Row(stopCmd[s]) = "STOPPED"
         /\ pc[stopCmd[s]] # "save"
         /\ script[stopCmd[s]] # "alive"

KillInv ==
  \A j \in Jobs :
    script[j] = "killed" /\ Alone(j) => Row(j) = "STOPPED" /\ pc[j] # "save"

Inv == TypeOK /\ RegInv /\ ScriptInv /\ RequestInv
StatusInv == faults = 0 => RowInv /\ StopInv /\ KillInv

LEMMA InvInit == Init => Inv
<1> SUFFICES ASSUME Init PROVE Inv
  OBVIOUS
<1>1. TypeOK BY TypeInit
<1>2. RegInv /\ ScriptInv /\ RequestInv
  BY DEF Init, RegInv, ScriptInv, RequestInv
<1> QED BY <1>1, <1>2 DEF Inv

\* The control flow of execute.
Flow(a, b) ==
  \/ a = "prepare"    /\ b \in {"key", "done"}
  \/ a = "key"        /\ b = "clone"
  \/ a = "clone"      /\ b \in {"register", "rmkey"}
  \/ a = "register"   /\ b = "start"
  \/ a = "start"      /\ b \in {"forked", "check"}
  \/ a = "forked"     /\ b = "running"
  \/ a = "running"    /\ b = "draining"
  \/ a = "draining"   /\ b = "check"
  \/ a = "check"      /\ b \in {"save", "unregister"}
  \/ a = "save"       /\ b = "unregister"
  \/ a = "unregister" /\ b = "rmkey"
  \/ a = "rmkey"      /\ b = "done"

\* What a step of a goroutine may do to the state the stop requests look at.
LEMMA GoroutineStep ==
  ASSUME TypeOK, NEW j \in Jobs, Goroutine(j)
  PROVE  /\ \E b \in PC : Flow(pc[j], b) /\ pc' = [pc EXCEPT ![j] = b]
         /\ UNCHANGED stopVars
         /\ IF pc[j] = "register"
              THEN activeCmds' = [activeCmds EXCEPT ![generateDeploymentID(j)] = j]
              ELSE IF pc[j] = "unregister"
              THEN activeCmds' = [activeCmds EXCEPT ![generateDeploymentID(j)] = NoJob]
              ELSE activeCmds' = activeCmds
         /\ IF pc[j] = "start"
              THEN \E c \in {"alive", "failed"} : script' = [script EXCEPT ![j] = c]
              ELSE script' = script
         /\ faults' = 0 => faults = 0
<1> USE DEF GoTo, Flow, PC, Live, NotStarted, Registered, Deferred,
        stopVars, procVars, storeVars
<1>1. CASE PathReady(j) \/ ScriptFound(j)
  BY <1>1 DEF Moves, PathReady, ScriptFound
<1>2. CASE PathFails(j) \/ ScriptMissing(j) \/ Complete(j)
  <2>1. faults' = 0 => faults = 0
    BY <1>2 DEF Saves, PathFails, ScriptMissing, Complete, saveToDBAndDisk, Fault, TypeOK
  <2> QED BY <1>2, <2>1 DEF Saves, PathFails, ScriptMissing, Complete
<1>3. CASE WriteKey(j)
  BY <1>3 DEF WriteKey, Fault, TypeOK
<1>4. CASE Register(j)
  BY <1>4 DEF Register
<1>5. CASE Fork(j) \/ StartFails(j)
  BY <1>5 DEF Starts, Fork, StartFails
<1>6. CASE PublishProcess(j) \/ Reap(j) \/ RunReturns(j)
  BY <1>6 DEF Moves, PublishProcess, Reap, RunReturns
<1>7. CASE CheckStopped(j) \/ CheckOther(j)
  <2>1. faults' = 0 => faults = 0
    BY <1>7 DEF Moves, CheckStopped, CheckOther, GetFound, GetFails, Fault, TypeOK
  <2> QED BY <1>7, <2>1 DEF Moves, CheckStopped, CheckOther
<1>8. CASE Unregister(j)
  BY <1>8 DEF Unregister
<1>9. CASE RemoveKey(j)
  BY <1>9 DEF RemoveKey, Fault, TypeOK
<1> QED BY <1>1, <1>2, <1>3, <1>4, <1>5, <1>6, <1>7, <1>8, <1>9 DEF Goroutine

LEMMA InvNext == Inv /\ [Next]_vars => Inv'
<1> SUFFICES ASSUME Inv, [Next]_vars PROVE RegInv' /\ ScriptInv' /\ RequestInv'
  BY TypeNext DEF Inv
<1> USE IdType, ConstantsAssumption DEF Inv
<1>1. ASSUME NEW j \in Jobs, TriggerDeployment(j)
      PROVE  RegInv' /\ ScriptInv' /\ RequestInv'
  <2>1. /\ pc[j] = "idle" /\ pc' = [pc EXCEPT ![j] = "prepare"]
        /\ UNCHANGED <<activeCmds, script, stopVars>>
    BY <1>1 DEF Saves, TriggerDeployment, GoTo, procVars
  <2> QED BY <2>1 DEF TypeOK, RegInv, ScriptInv, RequestInv, Registered, NotStarted, stopVars
<1>2. ASSUME NEW j \in Jobs, Goroutine(j)
      PROVE  RegInv' /\ ScriptInv' /\ RequestInv'
  <2>1. PICK b \in PC : Flow(pc[j], b) /\ pc' = [pc EXCEPT ![j] = b]
    BY <1>2, GoroutineStep
  <2>2. RegInv'
    BY <1>2, <2>1, GoroutineStep DEF RegInv, Flow, Registered, TypeOK
  <2>3. ScriptInv'
    BY <1>2, <2>1, GoroutineStep DEF ScriptInv, Flow, NotStarted, TypeOK
  <2>4. RequestInv'
    BY <1>2, <2>1, GoroutineStep DEF RequestInv, Flow, NotStarted, TypeOK, stopVars
  <2> QED BY <2>2, <2>3, <2>4
<1>3. ASSUME NEW j \in Jobs, Process(j)
      PROVE  RegInv' /\ ScriptInv' /\ RequestInv'
  BY <1>3 DEF Process, ScriptExits, ScriptForks, ChildExits, jobVars, stopVars,
     RegInv, ScriptInv, RequestInv, TypeOK
<1>4. ASSUME NEW s \in Stoppers, StopDeployment(s)
      PROVE  RegInv' /\ ScriptInv' /\ RequestInv'
  <2>1. UNCHANGED <<pc, activeCmds>>
    BY <1>4 DEF StopDeployment, StopLookup, StopReadsProcess, StopGets, StopUpdates,
       StopKills, jobVars
  <2>2. RegInv'
    BY <2>1 DEF RegInv
  <2>3. ScriptInv'
    <3>1. script' = script \/ StopKills(s)
      BY <1>4 DEF StopDeployment, StopLookup, StopReadsProcess, StopGets, StopUpdates,
         procVars
    <3>2. CASE StopKills(s)
      BY <2>1, <3>2 DEF StopKills, ScriptInv, TypeOK, NotStarted, Waiting
    <3> QED BY <2>1, <3>1, <3>2 DEF ScriptInv
  <2>4. RequestInv'
    <3>1. ASSUME NEW id \in Ids, StopLookup(s, id) PROVE RequestInv'
      BY <2>1, <3>1 DEF StopLookup, StopTo, RequestInv, RegInv, TypeOK, Registered, NotStarted
    <3>2. CASE StopReadsProcess(s)
      BY <2>1, <3>2 DEF StopReadsProcess, StopTo, HasProcess, RequestInv, TypeOK
    <3>3. CASE StopGets(s) \/ StopUpdates(s) \/ StopKills(s)
      BY <2>1, <3>3 DEF StopGets, StopUpdates, StopKills, StopTo, RequestInv, TypeOK
    <3> QED BY <1>4, <3>1, <3>2, <3>3 DEF StopDeployment
  <2> QED BY <2>2, <2>3, <2>4
<1>5. CASE Crash
  BY <1>5 DEF Crash, RegInv, ScriptInv, RequestInv, TypeOK, Live, NotStarted, Registered,
     procVars
<1>6. CASE UNCHANGED vars
  BY <1>6 DEF vars, jobVars, procVars, stopVars, RegInv, ScriptInv, RequestInv
<1> QED BY <1>1, <1>2, <1>3, <1>4, <1>5, <1>6 DEF Next

LEMMA InvAlways == Spec => []Inv
<1> QED BY InvInit, InvNext, PTL DEF Spec

\* No goroutine returns to the state before its call: a deployment that is
\* alone with its identifier was alone before.
LEMMA IdleBefore ==
  ASSUME TypeOK, [Next]_vars
  PROVE  \A k \in Jobs : pc'[k] = "idle" => pc[k] = "idle"
<1>1. CASE \E j \in Jobs : TriggerDeployment(j)
  BY <1>1 DEF TriggerDeployment, Saves, GoTo, TypeOK
<1>2. ASSUME NEW j \in Jobs, Goroutine(j)
      PROVE  \A k \in Jobs : pc'[k] = "idle" => pc[k] = "idle"
  <2>1. PICK b \in PC : Flow(pc[j], b) /\ pc' = [pc EXCEPT ![j] = b]
    BY <1>2, GoroutineStep
  <2> QED BY <2>1 DEF Flow, TypeOK
<1>3. CASE \E j \in Jobs : Process(j)
  BY <1>3 DEF Process, ScriptExits, ScriptForks, ChildExits, jobVars
<1>4. CASE \E s \in Stoppers : StopDeployment(s)
  BY <1>4 DEF StopDeployment, StopLookup, StopReadsProcess, StopGets, StopUpdates,
     StopKills, jobVars
<1>5. CASE Crash
  BY <1>5 DEF Crash, TypeOK
<1>6. CASE UNCHANGED vars
  BY <1>6 DEF vars, jobVars
<1> QED BY <1>1, <1>2, <1>3, <1>4, <1>5, <1>6 DEF Next

LEMMA AloneBefore ==
  ASSUME TypeOK, [Next]_vars, NEW k \in Jobs
  PROVE  Alone(k)' => Alone(k)
BY IdleBefore DEF Alone

\* A store call for a job that has been triggered, when no statement fails:
\* this row, and none of a job that is alone with its identifier.
LEMMA SaveRow ==
  ASSUME TypeOK, NEW j \in Jobs, NEW st, NEW text, pc'[j] # "idle",
         saveToDBAndDisk(generateDeploymentID(j), st, text), faults' = 0
  PROVE  /\ Row(j)' = st
         /\ \A k \in Jobs : Row(k)' \in {st, Row(k)}
         /\ \A k \in Jobs \ {j} : Alone(k)' => Row(k)' = Row(k)
<1>1. Upsert(generateDeploymentID(j), st)
  BY DEF saveToDBAndDisk, Fault, TypeOK
<1>2. ASSUME NEW k \in Jobs \ {j}, Alone(k)'
      PROVE  generateDeploymentID(k) # generateDeploymentID(j)
  BY <1>2 DEF Alone
<1> QED BY <1>1, <1>2, IdType DEF Upsert, Row, TypeOK

LEMMA StatusInit == Init => StatusInv
  BY IdType DEF Init, StatusInv, Alone, RowInv, StopInv, KillInv, Row, NotStarted

LEMMA StatusNext == Inv /\ StatusInv /\ [Next]_vars => StatusInv'
<1> SUFFICES ASSUME Inv, StatusInv, [Next]_vars, faults' = 0
             PROVE  RowInv' /\ StopInv' /\ KillInv'
  BY DEF StatusInv
<1> USE IdType, ConstantsAssumption DEF Inv
<1>0. \A k \in Jobs : Alone(k)' => Alone(k)
  BY AloneBefore
<1>1. ASSUME NEW j \in Jobs, TriggerDeployment(j)
      PROVE  RowInv' /\ StopInv' /\ KillInv'
  <2>1. /\ pc[j] = "idle" /\ pc' = [pc EXCEPT ![j] = "prepare"]
        /\ UNCHANGED <<script, stopVars>>
        /\ Row(j)' = "RUNNING"
        /\ \A k \in Jobs : Row(k)' \in {"RUNNING", Row(k)}
        /\ \A k \in Jobs \ {j} : Alone(k)' => Row(k)' = Row(k)
    BY <1>1, SaveRow DEF Saves, TriggerDeployment, GoTo, procVars, TypeOK
  <2>2. RowInv /\ StopInv /\ KillInv
    BY <1>1 DEF Saves, StatusInv, TriggerDeployment, saveToDBAndDisk, Fault, TypeOK
  <2>3. RowInv'
    BY <1>0, <2>1, <2>2 DEF RowInv, NotStarted, TypeOK
  <2>4. StopInv'
    BY <1>0, <2>1, <2>2 DEF StopInv, RequestInv, TypeOK, stopVars
  <2>5. KillInv'
    BY <1>0, <2>1, <2>2 DEF KillInv, ScriptInv, TypeOK
  <2> QED BY <2>3, <2>4, <2>5
<1>2. ASSUME NEW j \in Jobs, Goroutine(j)
      PROVE  RowInv' /\ StopInv' /\ KillInv'
  <2>1. PICK b \in PC : Flow(pc[j], b) /\ pc' = [pc EXCEPT ![j] = b]
    BY <1>2, GoroutineStep
  <2>2. RowInv /\ StopInv /\ KillInv
    BY <1>2, GoroutineStep DEF StatusInv
  \* The row changes on three edges; after the check it was not STOPPED.
  <2>3. /\ \A k \in Jobs \ {j} : Alone(k)' => Row(k)' = Row(k)
        /\ \A k \in Jobs : Row(k) # "none" => Row(k)' # "none"
        /\ \/ Row(j)' = Row(j)
           \/ /\ b \in {"done", "rmkey", "unregister"}
              /\ pc[j] \in {"prepare", "clone", "save"}
        /\ b = "save" => Row(j) # "STOPPED"
    <3>1. CASE PathFails(j)
      BY <2>1, <3>1, SaveRow DEF Saves, PathFails, GoTo, TypeOK
    <3>2. CASE ScriptMissing(j)
      BY <2>1, <3>2, SaveRow DEF Saves, ScriptMissing, GoTo, TypeOK
    <3>3. CASE Complete(j)
      BY <2>1, <3>3, SaveRow DEF Saves, Complete, GoTo, TypeOK, Verdict
    <3>4. CASE CheckOther(j)
      BY <2>1, <2>2, <3>4
      DEF CheckOther, GetFails, Fault, GoTo, TypeOK, storeVars, Row, RowInv
    <3>5. CASE PathReady(j) \/ WriteKey(j) \/ ScriptFound(j) \/ Register(j)
               \/ Fork(j) \/ StartFails(j) \/ PublishProcess(j)
      BY <2>1, <3>5 DEF Moves, Starts, PathReady, WriteKey, ScriptFound, Register, Fork, StartFails,
         PublishProcess, GoTo, TypeOK, storeVars, Row
    <3>6. CASE Reap(j) \/ RunReturns(j) \/ CheckStopped(j) \/ Unregister(j) \/ RemoveKey(j)
      BY <2>1, <3>6 DEF Moves, Reap, RunReturns, CheckStopped, Unregister, RemoveKey,
         GoTo, TypeOK, storeVars, Row
    <3> QED BY <1>2, <3>1, <3>2, <3>3, <3>4, <3>5, <3>6 DEF Goroutine
  <2>4. RowInv'
    BY <1>0, <2>1, <2>2, <2>3 DEF RowInv, Flow, NotStarted, TypeOK
  <2>5. StopInv'
    <3>1. /\ UNCHANGED stopVars
          /\ \A k \in Jobs : script'[k] = script[k] \/ (k = j /\ pc[j] = "start")
      BY <1>2, GoroutineStep DEF TypeOK
    <3> QED BY <1>0, <2>1, <2>2, <2>3, <3>1
         DEF StopInv, RequestInv, Flow, NotStarted, TypeOK, stopVars
  <2>6. KillInv'
    BY <1>0, <1>2, <2>1, <2>2, <2>3, GoroutineStep DEF KillInv, ScriptInv, Flow, NotStarted, TypeOK
  <2> QED BY <2>4, <2>5, <2>6
<1>3. ASSUME NEW j \in Jobs, Process(j)
      PROVE  RowInv' /\ StopInv' /\ KillInv'
  <2>1. /\ UNCHANGED <<storeVars, jobVars, stopVars, faults>>
        /\ \A k \in Jobs : script'[k] = script[k] \/ script'[k] \in {"zero", "nonzero"}
    BY <1>3 DEF Process, ScriptExits, ScriptForks, ChildExits, TypeOK
  <2>2. RowInv /\ StopInv /\ KillInv
    BY <2>1 DEF StatusInv
  <2>3. \A k \in Jobs : Row(k)' = Row(k)
    BY <2>1 DEF storeVars, Row
  <2>4. RowInv'
    BY <1>0, <2>1, <2>2, <2>3 DEF RowInv, jobVars
  <2>5. StopInv'
    BY <1>0, <2>1, <2>2, <2>3 DEF StopInv, jobVars, stopVars, TypeOK
  <2>6. KillInv'
    BY <1>0, <2>1, <2>2, <2>3 DEF KillInv, jobVars
  <2> QED BY <2>4, <2>5, <2>6
<1>4. ASSUME NEW s \in Stoppers, StopDeployment(s)
      PROVE  RowInv' /\ StopInv' /\ KillInv'
  <2>1. UNCHANGED pc
    BY <1>4 DEF StopDeployment, StopLookup, StopReadsProcess, StopGets, StopUpdates,
       StopKills, jobVars
  <2>2. RowInv /\ StopInv /\ KillInv
    BY <1>4 DEF StatusInv, StopDeployment, StopLookup, StopReadsProcess, StopGets,
       StopUpdates, StopKills, saveToDBAndDisk, GetFound, GetFails, Fault, TypeOK
  <2>3. CASE stopPc[s] \in {"idle", "process", "get"}
    <3> DEFINE Looks ==
          /\ UNCHANGED <<rows, script>>
          /\ \E at \in {"process", "get", "update", "error"} :
               stopPc' = [stopPc EXCEPT ![s] = at]
          /\ \A t \in Stoppers \ {s} : stopCmd'[t] = stopCmd[t]
    <3>1. Looks
      <4>1. ASSUME NEW id \in Ids, StopLookup(s, id) PROVE Looks
        BY <4>1 DEF StopLookup, StopTo, storeVars, procVars, TypeOK
      <4>2. CASE StopReadsProcess(s)
        BY <4>2 DEF StopReadsProcess, StopTo, storeVars, procVars
      <4>3. CASE StopGets(s)
        <5>1. GetFound(stopId[s])
          BY <4>3, <2>2 DEF StopGets, GetFound, GetFails, Fault, RowInv, RequestInv, Row, TypeOK
        <5> QED BY <4>3, <5>1 DEF StopGets, GetFound, GetFails, Fault, StopTo, storeVars, procVars, TypeOK
      <4> QED BY <1>4, <2>3, <4>1, <4>2, <4>3 DEF StopDeployment, StopUpdates, StopKills
    <3> QED BY <1>0, <2>1, <2>2, <3>1 DEF RowInv, StopInv, KillInv, Row, TypeOK
  <2>4. CASE stopPc[s] = "update"
    <3>0. PICK j \in Jobs : j = stopCmd[s]
      BY <2>4 DEF TypeOK
    <3>1. /\ stopId[s] = generateDeploymentID(j)
          /\ pc[j] \notin NotStarted \cup {"idle", "start", "forked"}
      BY <2>4, <3>0 DEF RequestInv, TypeOK
    <3>2. StopUpdates(s)
      BY <1>4, <2>4 DEF StopDeployment, StopLookup, StopReadsProcess, StopGets, StopKills
    <3>3. /\ Row(j)' = "STOPPED"
          /\ \A k \in Jobs : Row(k)' \in {"STOPPED", Row(k)}
          /\ \A k \in Jobs \ {j} : Alone(k)' => Row(k)' = Row(k)
      BY <2>1, <3>0, <3>1, <3>2, SaveRow DEF StopUpdates
    <3>4. /\ stopPc' = [stopPc EXCEPT ![s] = "kill"]
          /\ UNCHANGED <<stopCmd, script>>
      BY <3>2 DEF StopUpdates, StopTo, procVars
    <3>5. RowInv'
      BY <1>0, <2>1, <2>2, <3>1, <3>3 DEF RowInv, NotStarted
    <3>6. StopInv'
      BY <1>0, <2>1, <2>2, <3>0, <3>1, <3>3, <3>4 DEF StopInv, TypeOK
    <3>7. KillInv'
      BY <1>0, <2>1, <2>2, <3>1, <3>3, <3>4 DEF KillInv
    <3> QED BY <3>5, <3>6, <3>7
  <2>5. CASE stopPc[s] = "kill"
    <3>0. PICK j \in Jobs : j = stopCmd[s]
      BY <2>5 DEF TypeOK
    <3>1. /\ pc[j] \notin NotStarted \cup {"idle", "start", "forked"}
          /\ pc[j] = "running" /\ Alone(j) => Row(j) = "STOPPED"
      BY <2>2, <2>5, <3>0 DEF RequestInv, StopInv, TypeOK
    <3>2. StopKills(s)
      BY <1>4, <2>5 DEF StopDeployment, StopLookup, StopReadsProcess, StopGets, StopUpdates
    <3>3. /\ UNCHANGED <<rows, stopCmd>>
          /\ \/ /\ pc[j] = "running"
                /\ stopPc' = [stopPc EXCEPT ![s] = "ok"]
                /\ script' = IF script[j] = "alive"
                             THEN [script EXCEPT ![j] = "killed"] ELSE script
             \/ /\ stopPc' = [stopPc EXCEPT ![s] = "error"]
                /\ UNCHANGED script
      BY <3>0, <3>1, <3>2 DEF StopKills, StopTo, Waiting, storeVars
    <3>4. \A k \in Jobs : Row(k)' = Row(k)
      BY <3>3 DEF Row
    <3>5. RowInv'
      BY <1>0, <2>1, <2>2, <3>4 DEF RowInv
    <3>6. StopInv'
      BY <1>0, <2>1, <2>2, <3>0, <3>1, <3>3, <3>4 DEF StopInv, TypeOK
    <3>7. KillInv'
      BY <1>0, <2>1, <2>2, <3>1, <3>3, <3>4 DEF KillInv, TypeOK
    <3> QED BY <3>5, <3>6, <3>7
  <2> QED BY <1>4, <2>3, <2>4, <2>5
       DEF StopDeployment, StopLookup, StopReadsProcess, StopGets, StopUpdates, StopKills
<1>5. CASE Crash
  <2>1. RowInv /\ StopInv /\ KillInv
    BY <1>5 DEF Crash, StatusInv
  <2>2. \A k \in Jobs : Row(k)' = Row(k)
    BY <1>5 DEF Crash, storeVars, Row
  <2>3. \A k \in Jobs : pc'[k] = pc[k] \/ (pc'[k] = "lost" /\ pc[k] # "idle")
    <3>1. "idle" \notin Live
      BY DEF Live, NotStarted, Registered, Deferred
    <3>2. pc' = [k \in Jobs |-> IF pc[k] \in Live THEN "lost" ELSE pc[k]]
      BY <1>5 DEF Crash
    <3> QED BY <3>1, <3>2
  <2>4. RowInv'
    BY <1>0, <2>1, <2>2, <2>3 DEF RowInv, NotStarted
  <2>5. KillInv'
    BY <1>0, <1>5, <2>1, <2>2, <2>3 DEF KillInv, Crash, procVars
  <2>6. StopInv'
    BY <1>0, <1>5, <2>1, <2>2, <2>3 DEF StopInv, Crash, procVars, TypeOK
  <2> QED BY <2>4, <2>5, <2>6
<1>6. CASE UNCHANGED vars
  BY <1>6 DEF vars, storeVars, jobVars, procVars, stopVars, StatusInv, RowInv, StopInv,
     KillInv, Row, Alone
<1> QED BY <1>1, <1>2, <1>3, <1>4, <1>5, <1>6 DEF Next

LEMMA StatusAlways == Spec => []StatusInv
<1> QED BY StatusInit, StatusNext, InvAlways, PTL DEF Spec

\* For a deployment that is alone with its identifier, whatever the others
\* do: a stop that was answered with success has stopped it for good.
THEOREM StopSticks == Spec => []AckedStopSticks
<1>1. Inv /\ StatusInv => AckedStopSticks
  BY DEF Inv, StatusInv, StopInv, RequestInv, AckedStopSticks, Row
<1> QED BY <1>1, InvAlways, StatusAlways, PTL

\* For a deployment that is alone with its identifier, whatever the others
\* do: a script killed by a stop is reported as STOPPED and nothing else.
THEOREM KillIsReported == Spec => []KilledIsStopped
<1>1. StatusInv => KilledIsStopped
  BY DEF StatusInv, KillInv, KilledIsStopped
<1> QED BY <1>1, StatusAlways, PTL

-----------------------------------------------------------------------------
(* The runner implements the deployment history, when no statement fails:  *)
(* each step of Deployer is a step of DeploymentRecord or changes nothing  *)
(* there.  Identifiers that are shared stay outside the mapping, and what  *)
(* happens to them is a step that changes nothing.                         *)

\* The rows the history shows.
Shown == [i \in OwnIds |-> rows[i]]

\* A job with an identifier of its own is alone with it, in every state.
LEMMA OwnIsAlone ==
  ASSUME NEW j \in Jobs, generateDeploymentID(j) \in OwnIds
  PROVE  /\ Alone(j)
         /\ \A k \in Jobs : generateDeploymentID(k) = generateDeploymentID(j) => k = j
BY DEF OwnIds, Alone

\* No step takes a fault back.
LEMMA NoFaultYet ==
  ASSUME TypeOK, [Next]_vars, faults' = 0
  PROVE  faults = 0
<1>1. ASSUME NEW j \in Jobs, TriggerDeployment(j) PROVE faults = 0
  BY <1>1 DEF Saves, TriggerDeployment, saveToDBAndDisk, Fault, TypeOK
<1>2. ASSUME NEW j \in Jobs, Goroutine(j) PROVE faults = 0
  BY <1>2, GoroutineStep
<1>3. ASSUME NEW j \in Jobs, Process(j) PROVE faults = 0
  BY <1>3 DEF Process, ScriptExits, ScriptForks, ChildExits
<1>4. ASSUME NEW s \in Stoppers, StopDeployment(s) PROVE faults = 0
  BY <1>4 DEF StopDeployment, StopLookup, StopReadsProcess, StopGets, StopUpdates, StopKills,
     GetFound, GetFails, saveToDBAndDisk, Fault, TypeOK
<1>5. CASE Crash \/ UNCHANGED vars
  BY <1>5 DEF Crash, vars
<1> QED BY <1>1, <1>2, <1>3, <1>4, <1>5 DEF Next

\* A store call of one job, seen from the history.
LEMMA SaveStatus ==
  ASSUME TypeOK, faults' = 0, NEW j \in Jobs, NEW st, NEW text,
         saveToDBAndDisk(generateDeploymentID(j), st, text)
  PROVE  rows' = [rows EXCEPT ![generateDeploymentID(j)] = st]
<1>1. Upsert(generateDeploymentID(j), st)
  BY DEF saveToDBAndDisk, Fault, TypeOK
<1> QED BY <1>1, IdType DEF Upsert, TypeOK

\* A goroutine moves: its deployment is undecided until its result.
LEMMA UndecidedMoves ==
  ASSUME TypeOK, NEW j \in Jobs, NEW b \in PC, pc' = [pc EXCEPT ![j] = b]
  PROVE  LET i == generateDeploymentID(j) IN
         IF i \in OwnIds
         THEN /\ i \in Undecided <=> pc[j] \in Live \ Deferred
              /\ Undecided' = IF b \in Live \ Deferred THEN Undecided \cup {i} ELSE Undecided \ {i}
         ELSE Undecided' = Undecided
<1> DEFINE i == generateDeploymentID(j)
<1>1. \A k \in Jobs \ {j} : pc'[k] = pc[k]
  BY DEF TypeOK
<1>2. pc'[j] = b
  BY DEF TypeOK
<1>3. Undecided' = {h \in OwnIds : \E k \in Jobs : generateDeploymentID(k) = h /\ pc'[k] \in Live \ Deferred}
  BY DEF Undecided
<1>4. CASE i \in OwnIds
  <2>1. i \in Undecided <=> pc[j] \in Live \ Deferred
    BY <1>4, OwnIsAlone DEF Undecided
  <2>2. i \in Undecided' <=> b \in Live \ Deferred
    BY <1>2, <1>3, <1>4, OwnIsAlone
  <2>3. \A h \in OwnIds \ {i} : h \in Undecided' <=> h \in Undecided
    BY <1>1, <1>3 DEF Undecided
  <2>4. Undecided \subseteq OwnIds /\ Undecided' \subseteq OwnIds
    BY <1>3 DEF Undecided
  <2> QED BY <1>4, <2>1, <2>2, <2>3, <2>4
<1>5. CASE i \notin OwnIds
  BY <1>1, <1>3, <1>5 DEF Undecided
<1> QED BY <1>4, <1>5

LEMMA RecordInit == Init => Record!Init
  BY DEF Init, Record!Init, OwnIds, Undecided, Acked, Live, NotStarted, Registered, Deferred

LEMMA RecordStep ==
  ASSUME Inv, Inv', StatusInv, [Next]_vars, faults' = 0
  PROVE  [Record!Next]_(Record!recordVars)
<1>1. faults = 0
  BY NoFaultYet DEF Inv
<1>2. RowInv /\ StopInv
  BY <1>1 DEF StatusInv
<1> SUFFICES (\/ Shown' = Shown /\ Undecided' = Undecided /\ Acked' = Acked
              \/ \E i \in OwnIds : \/ Record!Open(i) \/ Record!Resolve(i) \/ Record!Forgo(i)
                                  \/ Record!MarkStopped(i) \/ Record!Acknowledge(i)
              \/ Record!Die)
  BY DEF Record!Next, Record!recordVars, Shown
<1> USE IdType, ConstantsAssumption DEF Inv
\* One row is written: the history sees it if the identifier is nobody else's.
<1>3. ASSUME NEW i \in Ids, NEW st, rows' = [rows EXCEPT ![i] = st]
      PROVE  IF i \in OwnIds THEN Shown' = [Shown EXCEPT ![i] = st] ELSE Shown' = Shown
  <2>1. OwnIds \subseteq Ids
    BY DEF OwnIds
  <2>2. Shown' = [k \in OwnIds |-> rows'[k]]
    BY DEF Shown
  <2>3. \A k \in OwnIds : rows'[k] = IF k = i THEN st ELSE rows[k]
    BY <1>3, <2>1 DEF TypeOK
  <2>4. CASE i \in OwnIds
    BY <2>2, <2>3, <2>4 DEF Shown
  <2>5. CASE i \notin OwnIds
    <3>1. \A k \in OwnIds : rows'[k] = rows[k]
      BY <2>3, <2>5
    <3> QED BY <2>2, <2>5, <3>1 DEF Shown
  <2> QED BY <2>4, <2>5
<1>4. ASSUME NEW j \in Jobs, TriggerDeployment(j)
      PROVE  \/ Shown' = Shown /\ Undecided' = Undecided /\ Acked' = Acked
             \/ \E i \in OwnIds : Record!Open(i)
  <2> DEFINE i == generateDeploymentID(j)
  <2>0. pc' = [pc EXCEPT ![j] = "prepare"] /\ "prepare" \in PC /\ "prepare" \in Live \ Deferred
    BY <1>4 DEF Saves, TriggerDeployment, GoTo, PC, Live, NotStarted, Deferred
  <2>1. rows' = [rows EXCEPT ![i] = "RUNNING"]
    BY <1>4, SaveStatus DEF Saves, TriggerDeployment
  <2>2. Acked' = Acked
    BY <1>4 DEF Saves, TriggerDeployment, stopVars, Acked
  <2>3. CASE i \in OwnIds
    <3>1. Shown[i] = "none"
      BY <1>2, <1>4, <2>3, OwnIsAlone DEF Saves, TriggerDeployment, RowInv, Row, Shown
    <3>2. Undecided' = Undecided \cup {i}
      BY <2>0, <2>3, UndecidedMoves
    <3> QED BY <1>3, <2>1, <2>2, <2>3, <3>1, <3>2 DEF Record!Open, Shown
  <2>4. CASE i \notin OwnIds
    <3>1. Undecided' = Undecided
      BY <2>0, <2>4, UndecidedMoves
    <3> QED BY <1>3, <2>1, <2>2, <2>4, <3>1
  <2> QED BY <2>3, <2>4
<1>5. ASSUME NEW j \in Jobs, Goroutine(j)
      PROVE  \/ Shown' = Shown /\ Undecided' = Undecided /\ Acked' = Acked
             \/ \E i \in OwnIds : Record!Resolve(i) \/ Record!Forgo(i)
  <2> DEFINE i == generateDeploymentID(j)
  <2>1. Acked' = Acked
    BY <1>5, GoroutineStep DEF stopVars, Acked
  <2>2. PICK b \in PC : Flow(pc[j], b) /\ pc' = [pc EXCEPT ![j] = b]
    BY <1>5, GoroutineStep
  <2>3. CASE PathFails(j) \/ ScriptMissing(j) \/ Complete(j)
    <3>1. PICK r \in {"SUCCESS", "FAILED", "SKIPPED"} : rows' = [rows EXCEPT ![i] = r]
      BY <2>3, SaveStatus DEF Saves, PathFails, ScriptMissing, Complete, Verdict
    <3>2. /\ pc[j] \in {"prepare", "clone", "save"}
          /\ b \in {"done", "rmkey", "unregister"}
      BY <2>2, <2>3 DEF Saves, PathFails, ScriptMissing, Complete, GoTo, TypeOK
    <3>3. CASE i \in OwnIds
      <4>1. i \notin Acked
        <5>1. \A s \in Stoppers : stopPc[s] = "ok" /\ stopId[s] = i => stopCmd[s] = j
          BY <3>3, OwnIsAlone DEF RequestInv, TypeOK
        <5> QED BY <1>2, <3>2, <3>3, <5>1, OwnIsAlone DEF StopInv, RequestInv, NotStarted, Acked
      <4>2. i \in Undecided /\ Undecided' = Undecided \ {i}
        BY <2>2, <3>2, <3>3, UndecidedMoves DEF Live, NotStarted, Registered, Deferred
      <4>3. Shown' = [Shown EXCEPT ![i] = r]
        BY <1>3, <3>1, <3>3
      <4> QED BY <2>1, <3>3, <4>1, <4>2, <4>3 DEF Record!Resolve, Record!Results, Shown
    <3>4. CASE i \notin OwnIds
      <4>1. Undecided' = Undecided
        BY <2>2, <3>4, UndecidedMoves
      <4> QED BY <1>3, <2>1, <3>1, <3>4, <4>1
    <3> QED BY <3>3, <3>4
  <2>4. CASE CheckStopped(j)
    <3>1. pc[j] = "check" /\ b = "unregister" /\ Shown' = Shown
      BY <2>2, <2>4 DEF CheckStopped, Moves, GoTo, storeVars, Shown, TypeOK
    <3>2. CASE i \in OwnIds
      <4>1. i \in Undecided /\ Undecided' = Undecided \ {i}
        BY <2>2, <3>1, <3>2, UndecidedMoves DEF Live, NotStarted, Registered, Deferred
      <4>2. Shown[i] = "STOPPED"
        BY <2>4, <3>2 DEF CheckStopped, Shown
      <4> QED BY <2>1, <3>1, <3>2, <4>1, <4>2 DEF Record!Forgo, Shown
    <3>3. CASE i \notin OwnIds
      BY <2>1, <2>2, <3>1, <3>3, UndecidedMoves
    <3> QED BY <3>2, <3>3
  <2>5. CASE ~(PathFails(j) \/ ScriptMissing(j) \/ Complete(j) \/ CheckStopped(j))
    <3>1. rows' = rows /\ ~(pc[j] = "save")
      BY <1>5, <2>5 DEF Moves, Starts, Goroutine, PathReady, WriteKey, ScriptFound, Register, Fork,
         StartFails, PublishProcess, Reap, RunReturns, CheckOther,
         Unregister, RemoveKey, storeVars
    <3>2. b \in Live \ Deferred <=> pc[j] \in Live \ Deferred
      <4>1. CASE PathReady(j) \/ ScriptFound(j) \/ CheckOther(j)
        BY <2>2, <4>1 DEF Moves, PathReady, ScriptFound, CheckOther, GoTo, TypeOK,
           Live, NotStarted, Registered, Deferred
      <4>2. CASE ~(PathReady(j) \/ ScriptFound(j) \/ CheckOther(j))
        <5>1. pc[j] \notin {"prepare", "clone", "check", "save"}
          BY <1>5, <2>5, <4>2 DEF Moves, Starts, Goroutine, WriteKey, Register, Fork, StartFails,
             PublishProcess, Reap, RunReturns, Unregister, RemoveKey
        <5> QED BY <2>2, <5>1 DEF Flow, Live, NotStarted, Registered, Deferred
      <4> QED BY <4>1, <4>2
    <3>3. Undecided' = Undecided
      <4>1. CASE i \in OwnIds
        <5>1. /\ i \in Undecided <=> pc[j] \in Live \ Deferred
              /\ Undecided' = IF b \in Live \ Deferred
                              THEN Undecided \cup {i} ELSE Undecided \ {i}
          BY <2>2, <4>1, UndecidedMoves
        <5>2. CASE i \in Undecided
          BY <3>2, <5>1, <5>2
        <5>3. CASE i \notin Undecided
          BY <3>2, <5>1, <5>3
        <5> QED BY <5>2, <5>3
      <4>2. CASE i \notin OwnIds
        BY <2>2, <4>2, UndecidedMoves
      <4> QED BY <4>1, <4>2
    <3> QED BY <2>1, <3>1, <3>3 DEF Shown
  <2> QED BY <2>3, <2>4, <2>5
<1>6. ASSUME NEW j \in Jobs, Process(j)
      PROVE  Shown' = Shown /\ Undecided' = Undecided /\ Acked' = Acked
  BY <1>6 DEF Process, ScriptExits, ScriptForks, ChildExits, storeVars, jobVars, stopVars,
     Acked, Undecided, Shown
<1>7. ASSUME NEW s \in Stoppers, StopDeployment(s)
      PROVE  \/ Shown' = Shown /\ Undecided' = Undecided /\ Acked' = Acked
             \/ \E i \in OwnIds : Record!MarkStopped(i) \/ Record!Acknowledge(i)
  <2>0. Undecided' = Undecided
    BY <1>7 DEF StopDeployment, StopLookup, StopReadsProcess, StopGets, StopUpdates, StopKills,
       jobVars, Undecided
  <2>1. CASE (\E id \in Ids : StopLookup(s, id)) \/ StopReadsProcess(s) \/ StopGets(s)
    <3>1. /\ rows' = rows /\ stopPc[s] # "ok" /\ stopPc'[s] # "ok"
          /\ \A t \in Stoppers \ {s} : stopPc'[t] = stopPc[t] /\ stopId'[t] = stopId[t]
      <4>1. ASSUME NEW id \in Ids, StopLookup(s, id) PROVE <3>1
        BY <4>1 DEF StopLookup, StopTo, storeVars, TypeOK
      <4>2. CASE StopReadsProcess(s) \/ StopGets(s)
        BY <4>2 DEF StopReadsProcess, StopGets, StopTo, storeVars, TypeOK
      <4> QED BY <2>1, <4>1, <4>2
    <3> QED BY <2>0, <3>1 DEF Acked, Shown
  <2>2. CASE StopUpdates(s)
    <3>1. PICK j \in Jobs : j = stopCmd[s] /\ stopId[s] = generateDeploymentID(j)
      BY <2>2 DEF StopUpdates, TypeOK, RequestInv
    <3> DEFINE i == generateDeploymentID(j)
    <3>2. rows' = [rows EXCEPT ![i] = "STOPPED"]
      BY <2>2, <3>1, SaveStatus DEF StopUpdates
    <3>3. rows[i] # "none"
      BY <1>2, <2>2, <3>1 DEF StopUpdates, RowInv, RequestInv, Row
    <3>4. Acked' = Acked
      BY <2>2 DEF StopUpdates, StopTo, TypeOK, Acked
    <3>5. CASE i \in OwnIds
      BY <1>3, <2>0, <3>2, <3>3, <3>4, <3>5 DEF Record!MarkStopped, Shown
    <3> QED BY <1>3, <2>0, <3>2, <3>4, <3>5
  <2>3. CASE StopKills(s)
    <3>1. Shown' = Shown /\ stopId' = stopId
      BY <2>3 DEF StopKills, storeVars, Shown
    <3>2. CASE stopPc' = [stopPc EXCEPT ![s] = "error"]
      BY <2>0, <2>3, <3>1, <3>2 DEF StopKills, Acked, TypeOK
    <3>3. CASE stopPc' = [stopPc EXCEPT ![s] = "ok"]
      <4>1. PICK i \in Ids : i = stopId[s]
        BY <2>3 DEF StopKills, TypeOK
      <4>2. CASE i \in OwnIds
        <5>1. PICK j \in Jobs : j = stopCmd[s] /\ i = generateDeploymentID(j)
          BY <2>3, <4>1 DEF StopKills, TypeOK, RequestInv
        <5>2. pc[j] \in Waiting
          BY <2>3, <3>3, <5>1 DEF StopKills, StopTo, TypeOK
        <5>3. rows[i] = "STOPPED"
          BY <1>2, <2>3, <4>1, <4>2, <5>1, <5>2, OwnIsAlone
          DEF StopKills, StopInv, RequestInv, Waiting, TypeOK, Row
        <5>4. Acked' = Acked \cup {i}
          BY <3>1, <3>3, <4>1, <4>2 DEF Acked, TypeOK
        <5> QED BY <2>0, <3>1, <4>2, <5>3, <5>4 DEF Record!Acknowledge, Shown
      <4>3. CASE i \notin OwnIds
        BY <2>0, <2>3, <3>1, <3>3, <4>1, <4>3 DEF StopKills, Acked, TypeOK
      <4> QED BY <4>2, <4>3
    <3> QED BY <2>3, <3>2, <3>3 DEF StopKills, StopTo
  <2> QED BY <1>7, <2>1, <2>2, <2>3 DEF StopDeployment
<1>8. CASE Crash
  <2>1. Shown' = Shown /\ Acked' = Acked
    BY <1>8 DEF Crash, storeVars, Acked, Shown, TypeOK
  <2>2. \A j \in Jobs : pc'[j] \notin Live
    BY <1>8 DEF Crash, Live, NotStarted, Registered, Deferred
  <2>3. Undecided' = {}
    BY <2>2 DEF Undecided
  <2> QED BY <2>1, <2>3 DEF Record!Die, Shown
<1>9. CASE UNCHANGED vars
  BY <1>9 DEF vars, storeVars, jobVars, stopVars, Acked, Undecided, Shown
<1> QED BY <1>4, <1>5, <1>6, <1>7, <1>8, <1>9 DEF Next

\* Until a statement fails, the deployments a user sees behave as
\* DeploymentRecord promises: those with an identifier of their own, whatever
\* other deployments share theirs.
THEOREM Refinement == Spec => RecordSpec
<1>1. Inv /\ Inv' /\ StatusInv /\ [Next]_vars =>
        [faults' = 0 => Record!Next]_(Record!recordVars)
  BY RecordStep DEF Record!recordVars
<1> QED BY <1>1, RecordInit, InvAlways, StatusAlways, PTL DEF Spec, RecordSpec
=============================================================================
