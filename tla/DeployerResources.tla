------------------------- MODULE DeployerResources -------------------------
(* Theorems about what a deployment holds while it runs and gives back     *)
(* when it ends: its registry entry, its key file, its claim on a row that *)
(* says RUNNING.  Two of them hold for shared identifiers too.             *)
EXTENDS DeployerProofs

\* A key is there because of a deployment of that id that has deferred its
\* removal and not come to it, or died before, or has failed to write or to
\* remove the file; a part of a key, because some deployment of the id has.
KeyInv ==
  \A i \in Ids :
    /\ keyFiles[i] \in Jobs =>
         /\ generateDeploymentID(keyFiles[i]) = i
         /\ \/ keyFiles[i] \in stray
            \/ /\ keyFiles[i] \in keyed
               /\ pc[keyFiles[i]] \in {"clone", "register", "rmkey", "lost"} \cup Registered
    /\ keyFiles[i] = Partial => \E k \in stray : generateDeploymentID(k) = i

LEMMA KeyInit == Init => KeyInv
  BY ConstantsAssumption DEF Init, KeyInv

LEMMA KeyNext == Inv /\ KeyInv /\ [Next]_vars => KeyInv'
<1> SUFFICES ASSUME Inv, KeyInv, [Next]_vars PROVE KeyInv'
  OBVIOUS
<1> USE IdType, ConstantsAssumption DEF Inv
<1>1. ASSUME NEW j \in Jobs, TriggerDeployment(j) PROVE KeyInv'
  BY <1>1 DEF Saves, TriggerDeployment, GoTo, KeyInv, TypeOK, Registered
<1>2. ASSUME NEW j \in Jobs, Goroutine(j) PROVE KeyInv'
  <2>1. PICK b \in PC : Flow(pc[j], b) /\ pc' = [pc EXCEPT ![j] = b]
    BY <1>2, GoroutineStep
  <2>2. CASE WriteKey(j)
    <3> DEFINE id == generateDeploymentID(j)
    <3>1. pc[j] = "key" /\ pc' = [pc EXCEPT ![j] = "clone"]
      BY <2>2 DEF WriteKey, GoTo
    <3>2. CASE keyFiles' = [keyFiles EXCEPT ![id] = j] /\ keyed' = keyed \cup {j} /\ stray' = stray
      BY <3>1, <3>2 DEF KeyInv, TypeOK, Registered
    <3>3. CASE UNCHANGED <<keyFiles, keyed, stray>>
      BY <3>1, <3>3 DEF KeyInv, TypeOK, Registered
    <3>4. ASSUME NEW left \in {keyFiles[id], Partial, j},
                 keyFiles' = [keyFiles EXCEPT ![id] = left],
                 stray' = stray \cup {j}, keyed' = keyed
          PROVE  KeyInv'
      BY <3>1, <3>4 DEF KeyInv, TypeOK, Registered
    <3> QED BY <2>2, <3>2, <3>3, <3>4 DEF WriteKey
  <2>3. CASE RemoveKey(j)
    <3>1. pc' = [pc EXCEPT ![j] = "done"] /\ keyed' = keyed
      BY <2>3 DEF RemoveKey, GoTo
    <3>2. CASE /\ keyFiles' = [keyFiles EXCEPT ![generateDeploymentID(j)] = NoJob]
               /\ stray' = stray
      BY <3>1, <3>2 DEF KeyInv, TypeOK, Registered
    <3>3. CASE keyFiles' = keyFiles /\ stray' = stray \cup {j}
      BY <3>1, <3>3 DEF KeyInv, TypeOK, Registered
    <3>4. CASE j \notin keyed /\ UNCHANGED <<keyFiles, stray>>
      BY <3>1, <3>4 DEF KeyInv, TypeOK, Registered
    <3> QED BY <2>3, <3>2, <3>3, <3>4 DEF RemoveKey
  <2>4. CASE ~WriteKey(j) /\ ~RemoveKey(j)
    <3>1. UNCHANGED <<keyFiles, keyed, stray>> /\ pc[j] \notin {"key", "rmkey"}
      BY <1>2, <2>4 DEF Moves, Saves, Starts, Goroutine, PathReady, PathFails, ScriptFound, ScriptMissing,
         Register, Fork, StartFails, PublishProcess, Reap, RunReturns, CheckStopped,
         CheckOther, Complete, Unregister
    <3> QED BY <2>1, <3>1 DEF KeyInv, Flow, TypeOK, Registered
  <2> QED BY <2>2, <2>3, <2>4
<1>3. ASSUME NEW j \in Jobs, Process(j) PROVE KeyInv'
  BY <1>3 DEF Process, ScriptExits, ScriptForks, ChildExits, jobVars, KeyInv
<1>4. ASSUME NEW s \in Stoppers, StopDeployment(s) PROVE KeyInv'
  BY <1>4 DEF StopDeployment, StopLookup, StopReadsProcess, StopGets, StopUpdates,
     StopKills, jobVars, KeyInv
<1>5. CASE Crash
  BY <1>5 DEF Crash, KeyInv, TypeOK
<1>6. CASE UNCHANGED vars
  BY <1>6 DEF vars, jobVars, KeyInv
<1> QED BY <1>1, <1>2, <1>3, <1>4, <1>5, <1>6 DEF Next

\* Whatever identifiers are shared and whatever fails: once every deployment
\* has ended in a server that did not die, the registry is empty, and a file
\* under data/keys is left only for an identifier whose key file could not be
\* written or not be removed.
THEOREM CleanWhenQuiescent == Spec => []QuiescentIsClean
<1>1. Inv /\ KeyInv => QuiescentIsClean
  BY DEF Inv, RegInv, KeyInv, QuiescentIsClean, StrayIds, TypeOK, Registered
<1> QED BY <1>1, KeyInit, KeyNext, InvAlways, PTL DEF Spec

-----------------------------------------------------------------------------
\* The registry names the deployment from Register to Unregister, unless a
\* deployment of the same identifier comes between.
Held ==
  \A j \in Jobs : pc[j] \in Registered /\ Alone(j) => activeCmds[generateDeploymentID(j)] = j

LEMMA HeldNext == Inv /\ Held /\ [Next]_vars => Held'
<1> SUFFICES ASSUME Inv, Held, [Next]_vars PROVE Held'
  OBVIOUS
<1> USE IdType, ConstantsAssumption DEF Inv
<1>0. \A k \in Jobs : Alone(k)' => Alone(k)
  BY AloneBefore
<1>1. ASSUME NEW j \in Jobs, TriggerDeployment(j) PROVE Held'
  BY <1>0, <1>1 DEF Saves, TriggerDeployment, GoTo, Held, TypeOK, Registered
<1>2. ASSUME NEW j \in Jobs, Goroutine(j) PROVE Held'
  <2>1. PICK b \in PC : Flow(pc[j], b) /\ pc' = [pc EXCEPT ![j] = b]
    BY <1>2, GoroutineStep
  <2>2. ASSUME NEW k \in Jobs \ {j}, Alone(k)'
        PROVE  activeCmds'[generateDeploymentID(k)] = activeCmds[generateDeploymentID(k)]
    <3>1. generateDeploymentID(k) # generateDeploymentID(j)
      BY <2>1, <2>2 DEF Alone, Flow, TypeOK
    <3> QED BY <1>2, <3>1, GoroutineStep DEF TypeOK
  <2> QED BY <1>0, <1>2, <2>1, <2>2, GoroutineStep DEF Held, Flow, TypeOK, Registered
<1>3. ASSUME NEW j \in Jobs, Process(j) PROVE Held'
  BY <1>3 DEF Process, ScriptExits, ScriptForks, ChildExits, jobVars, Held, Alone
<1>4. ASSUME NEW s \in Stoppers, StopDeployment(s) PROVE Held'
  BY <1>4 DEF StopDeployment, StopLookup, StopReadsProcess, StopGets, StopUpdates,
     StopKills, jobVars, Held, Alone
<1>5. CASE Crash
  BY <1>5 DEF Crash, Held, TypeOK, Registered, Live
<1>6. CASE UNCHANGED vars
  BY <1>6 DEF vars, jobVars, Held, Alone
<1> QED BY <1>1, <1>2, <1>3, <1>4, <1>5, <1>6 DEF Next

\* While it is alone with its identifier, a deployment is in the registry
\* exactly while it can be stopped; whatever is in the registry can be stopped.
THEOREM RegistryIsExact == Spec => []RegistryExact
<1>1. Init => Held
  BY DEF Init, Held, Registered
<1>2. Inv /\ Held => RegistryExact
  BY DEF Inv, RegInv, Held, RegistryExact
<1> QED BY <1>1, <1>2, HeldNext, InvAlways, PTL DEF Spec

-----------------------------------------------------------------------------
\* A store call of any job, when no statement fails.
LEMMA SaveAnyRow ==
  ASSUME TypeOK, NEW j \in Jobs, NEW st, NEW text,
         saveToDBAndDisk(generateDeploymentID(j), st, text), faults' = 0
  PROVE  \A i \in Ids : rows'[i] =
           IF i = generateDeploymentID(j) THEN st ELSE rows[i]
<1>1. Upsert(generateDeploymentID(j), st)
  BY DEF saveToDBAndDisk, Fault, TypeOK
<1> QED BY <1>1, IdType DEF Upsert, TypeOK

LEMMA BackedNext == Inv /\ RunningIsBacked /\ [Next]_vars => RunningIsBacked'
<1> DEFINE Unjudged == (Live \ Deferred) \cup {"lost"}
           Backed(i) == \E j \in Jobs : generateDeploymentID(j) = i /\ pc[j] \in Unjudged
<1> SUFFICES ASSUME Inv, RunningIsBacked, [Next]_vars, faults' = 0,
                    NEW i \in Ids, rows'[i] = "RUNNING"
             PROVE  Backed(i)'
  BY DEF RunningIsBacked
<1> USE IdType, ConstantsAssumption DEF Inv
<1>1. ASSUME NEW j \in Jobs, TriggerDeployment(j) PROVE Backed(i)'
  <2>1. pc[j] = "idle" /\ pc' = [pc EXCEPT ![j] = "prepare"] /\ "idle" \notin Unjudged
    BY <1>1 DEF Saves, TriggerDeployment, GoTo, Live, NotStarted, Registered, Deferred
  <2>2. CASE i = generateDeploymentID(j)
    BY <2>1, <2>2 DEF Live, NotStarted, Deferred, TypeOK
  <2>3. CASE i # generateDeploymentID(j)
    <3>1. faults = 0
      BY <1>1 DEF Saves, TriggerDeployment, saveToDBAndDisk, Fault, TypeOK
    <3>2. rows[i] = "RUNNING"
      BY <1>1, <2>3, SaveAnyRow DEF Saves, TriggerDeployment
    <3> QED BY <2>1, <3>1, <3>2 DEF RunningIsBacked, TypeOK
  <2> QED BY <2>2, <2>3
<1>2. ASSUME NEW j \in Jobs, Goroutine(j) PROVE Backed(i)'
  <2>1. PICK b \in PC : Flow(pc[j], b) /\ pc' = [pc EXCEPT ![j] = b]
    BY <1>2, GoroutineStep
  <2>2. /\ rows[i] = "RUNNING" /\ faults = 0
        /\ i = generateDeploymentID(j) => b \in Unjudged \/ pc[j] \in Deferred
    <3>1. faults = 0
      BY <1>2, GoroutineStep
    <3>2. CASE PathFails(j) \/ ScriptMissing(j) \/ Complete(j)
      <4>1. rows[i] = "RUNNING" /\ i # generateDeploymentID(j)
        BY <3>2, SaveAnyRow DEF Saves, PathFails, ScriptMissing, Complete, Verdict
      <4> QED BY <3>1, <4>1
    <3>3. CASE CheckStopped(j)
      BY <3>1, <3>3 DEF Moves, CheckStopped, storeVars
    <3>4. CASE Unregister(j) \/ RemoveKey(j)
      BY <3>1, <3>4 DEF Unregister, RemoveKey, Deferred, storeVars
    <3>5. CASE PathReady(j) \/ WriteKey(j) \/ ScriptFound(j) \/ Register(j) \/ Fork(j)
               \/ StartFails(j) \/ PublishProcess(j) \/ Reap(j) \/ RunReturns(j)
               \/ CheckOther(j)
      <4>1. /\ UNCHANGED rows
            /\ pc[j] \notin {"prepare", "clone", "check"} \/ b \in {"key", "register", "save"}
            /\ pc[j] \notin {"save", "unregister", "rmkey"}
        BY <2>1, <3>5 DEF Moves, Starts, PathReady, WriteKey, ScriptFound, Register, Fork, StartFails,
           PublishProcess, Reap, RunReturns, CheckOther, storeVars, GoTo, TypeOK
      <4>2. b \in Unjudged
        BY <2>1, <4>1 DEF Flow, Live, NotStarted, Registered, Deferred
      <4> QED BY <3>1, <4>1, <4>2
    <3> QED BY <1>2, <3>2, <3>3, <3>4, <3>5 DEF Goroutine
  <2>3. PICK k \in Jobs : generateDeploymentID(k) = i /\ pc[k] \in Unjudged
    BY <2>2 DEF RunningIsBacked
  <2>4. CASE k = j
    BY <2>1, <2>2, <2>3, <2>4 DEF TypeOK, Deferred, Live
  <2>5. CASE k # j
    BY <2>1, <2>3, <2>5 DEF TypeOK
  <2> QED BY <2>4, <2>5
<1>3. ASSUME NEW j \in Jobs, Process(j) PROVE Backed(i)'
  BY <1>3 DEF Process, ScriptExits, ScriptForks, ChildExits, storeVars, jobVars,
     RunningIsBacked
<1>4. ASSUME NEW s \in Stoppers, StopDeployment(s) PROVE Backed(i)'
  <2>1. UNCHANGED pc /\ faults = 0
    BY <1>4 DEF StopDeployment, StopLookup, StopReadsProcess, StopGets, StopUpdates,
       StopKills, jobVars, saveToDBAndDisk, GetFound, GetFails, Fault, TypeOK
  <2>2. rows[i] = "RUNNING"
    <3>1. CASE StopUpdates(s)
      <4>1. PICK j \in Jobs : j = stopCmd[s] /\ stopId[s] = generateDeploymentID(j)
        BY <3>1 DEF StopUpdates, TypeOK, RequestInv
      <4> QED BY <3>1, <4>1, SaveAnyRow DEF StopUpdates
    <3>2. CASE ~StopUpdates(s)
      BY <1>4, <3>2 DEF StopDeployment, StopLookup, StopReadsProcess, StopGets,
         StopKills, storeVars
    <3> QED BY <3>1, <3>2
  <2> QED BY <2>1, <2>2 DEF RunningIsBacked
<1>5. CASE Crash
  <2>1. rows[i] = "RUNNING" /\ faults = 0
    BY <1>5 DEF Crash, storeVars
  <2>2. PICK k \in Jobs : generateDeploymentID(k) = i /\ pc[k] \in Unjudged
    BY <2>1 DEF RunningIsBacked
  <2>3. pc'[k] = "lost"
    BY <1>5, <2>2 DEF Crash
  <2> QED BY <2>2, <2>3
<1>6. CASE UNCHANGED vars
  BY <1>6 DEF vars, storeVars, jobVars, RunningIsBacked
<1> QED BY <1>1, <1>2, <1>3, <1>4, <1>5, <1>6 DEF Next

\* For shared identifiers too: no row says RUNNING without a goroutine that is
\* still to judge the deployment, unless the server died under it.
THEOREM RunningHasGoroutine == Spec => []RunningIsBacked
<1>1. Init => RunningIsBacked
  BY DEF Init, RunningIsBacked
<1> QED BY <1>1, BackedNext, InvAlways, PTL DEF Spec
=============================================================================
