--------------------------- MODULE WebhookProofs ----------------------------
(***************************************************************************)
(* Theorems about WebhookHandler, for any number of requests, projects and *)
(* secrets, and any payloads.                                              *)
(***************************************************************************)
EXTENDS WebhookHandler, TLAPS

-----------------------------------------------------------------------------
(* The event store.                                                        *)

LEMMA PruneType ==
  ASSUME NEW s \in Seq(Event)
  PROVE  Prune(s) \in Seq(Event)
<1>1. CASE Len(s) <= MaxStoredEvents
  BY <1>1 DEF Prune
<1>2. CASE ~(Len(s) <= MaxStoredEvents)
  <2>1. /\ Len(s) \in Nat
        /\ MaxStoredEvents \in Nat \ {0}
    BY EventAssumption
  <2>2. \A i \in (Len(s) - MaxStoredEvents + 1) .. Len(s) : s[i] \in Event
    BY <2>1, <1>2
  <2> QED
    BY <1>2, <2>1, <2>2 DEF Prune
<1> QED
  BY <1>1, <1>2

LEMMA UpsertType ==
  ASSUME NEW s \in Seq(Event), NEW e \in Event
  PROVE  Upsert(s, e) \in Seq(Event)
<1>1. CASE e.delivery \in Recorded(s)
  <2>1. Len(s) \in Nat /\ \A i \in 1..Len(s) : s[i] \in Event
    OBVIOUS
  <2>2. [i \in 1..Len(s) |-> IF s[i].delivery = e.delivery THEN e ELSE s[i]]
          \in [1..Len(s) -> Event]
    BY <2>1
  <2> QED
    BY <1>1, <2>1, <2>2 DEF Upsert
<1>2. CASE e.delivery \notin Recorded(s)
  BY <1>2 DEF Upsert
<1> QED
  BY <1>1, <1>2

LEMMA AddedType ==
  ASSUME NEW e \in Event, EventsTypeOK
  PROVE  /\ Added(e) \in Seq(Event)
         /\ AddedInPart(e) \subseteq Seq(Event)
  BY PruneType, UpsertType DEF Added, AddedInPart, EventsTypeOK

-----------------------------------------------------------------------------
(* Type correctness.                                                       *)

LEMMA ProjectType ==
  ASSUME NEW req \in Config
  PROVE  Normalised(req) \in Config
<1>1. MainBranch \in Branches
  BY ProjectAssumption
<1> QED
  BY <1>1 DEF Normalised, Config

LEMMA MatchingRows ==
  ASSUME NEW r \in Requests
  PROVE  MatchingIds(r) \subseteq Rows
<1>1. PayloadOf(r) \in Push \cup Other \cup Garbled
  BY HandlerAssumption DEF PayloadOf
<1> QED
  BY <1>1 DEF MatchingIds, FindByRepoAndBranch, FindByRepo, Push, Other, Garbled

LEMMA SnapshotType ==
  ASSUME ProjectsTypeOK, NEW ids \in SUBSET Rows
  PROVE  Snapshot(ids) \subseteq Found
  BY DEF ProjectsTypeOK, Rows, Snapshot, Found

LEMMA TypeInit == Init => TypeOK
<1> SUFFICES ASSUME Init PROVE TypeOK
  OBVIOUS
<1>1. ProjectsTypeOK /\ EventsTypeOK
  BY HandlerAssumption DEF Init, ProjectsTypeOK, EventsTypeOK
<1> QED
  BY <1>1, HandlerAssumption DEF Init, TypeOK, PC

LEMMA TypeNext == TypeOK /\ [Next]_vars => TypeOK'
<1> SUFFICES ASSUME TypeOK, [Next]_vars
             PROVE  TypeOK'
  OBVIOUS
<1> USE HandlerAssumption
<1>1. ASSUME NEW r \in Requests, Malformed(r)
      PROVE  TypeOK'
  BY <1>1 DEF Malformed, TypeOK, ProjectsTypeOK, EventsTypeOK, GoTo, PC, Found
<1>2. ASSUME NEW r \in Requests, Receive(r)
      PROVE  TypeOK'
  <2> PICK ids \in {MatchingIds(r), {}} :
        LET found == Snapshot(ids) IN
        /\ IF ids = MatchingIds(r) THEN UNCHANGED faults ELSE Fault
        /\ matched' = [matched EXCEPT ![r] = found]
        /\ pending' = [pending EXCEPT ![r] = LoopOver(r, found)]
        /\ GoTo(r, IF ~Accepted(r, found) THEN "rejected"
                   ELSE IF PayloadOf(r).kind = "push" THEN "deploy" ELSE "record")
    BY <1>2 DEF Receive
  <2>1. Snapshot(ids) \subseteq Found
    BY MatchingRows, SnapshotType DEF TypeOK
  <2>2. matched' \in [Requests -> SUBSET Found]
    BY <2>1 DEF TypeOK
  <2>3. \A q \in Requests : /\ pending'[q] \subseteq matched'[q]
                            /\ pending'[q] # {} => PayloadOf(q).kind = "push"
    BY DEF TypeOK, LoopOver
  <2>4. pc' \in [Requests -> PC]
    BY DEF TypeOK, GoTo, PC
  <2>5. /\ at' \in [Requests -> Nat]
        /\ clock' \in Nat
        /\ faults' \in 0..MaxFaults
    BY <1>2 DEF Receive, Tick, Fault, TypeOK
  <2>6. UNCHANGED <<projects, events, deployed, off, edits, crashes>>
    BY <1>2 DEF Receive
  <2> QED
    BY <2>2, <2>3, <2>4, <2>5, <2>6
    DEF TypeOK, ProjectsTypeOK, EventsTypeOK, PayloadOf
<1>3. ASSUME NEW r \in Requests, LoopEnds(r)
      PROVE  TypeOK'
  BY <1>3 DEF LoopEnds, TypeOK, ProjectsTypeOK, EventsTypeOK, GoTo, PC
<1>4. ASSUME NEW r \in Requests, Record(r)
      PROVE  TypeOK'
  <2> DEFINE e == [delivery |-> DeliveryOf[r], at |-> at[r]]
  <2>1. e \in Event
    BY DEF Event, TypeOK
  <2>2. events' \in Seq(Event)
    BY <1>4, <2>1, AddedType DEF Record, TypeOK
  <2>3. faults' \in 0..MaxFaults
    BY <1>4 DEF Record, TypeOK, Fault
  <2> QED
    BY <1>4, <2>2, <2>3 DEF Record, TypeOK, ProjectsTypeOK, EventsTypeOK, GoTo, PC
<1>5. ASSUME NEW r \in Requests, NEW f \in pending[r], DeployOne(r, f)
      PROVE  TypeOK'
  <2>1. f \in Found
    BY DEF TypeOK
  <2>2. deployed' \in SUBSET [request: Requests, project: Found]
    BY <1>5, <2>1 DEF DeployOne, TypeOK
  <2> QED
    BY <1>5, <2>2 DEF DeployOne, TypeOK, ProjectsTypeOK, EventsTypeOK
<1>6. ASSUME NEW id \in ProjectIds, DeleteProject(id)
      PROVE  TypeOK'
  BY <1>6 DEF DeleteProject, Delete, SinceNow, Edit, Tick, handlerVars, TypeOK,
              ProjectsTypeOK, EventsTypeOK
<1>7. ASSUME NEW id \in ProjectIds, NEW req \in SaveRequests, SaveProject(id, req)
      PROVE  TypeOK'
  <2>1. Normalised(req) \in Config
    BY ProjectType
  <2>2. projects' \in [ProjectIds -> Config \cup {NoProject}]
    BY <1>7, <2>1 DEF SaveProject, Save, TypeOK, ProjectsTypeOK
  <2>3. off' \in [ProjectIds -> Nat]
    BY <1>7 DEF SaveProject, SinceNow, TypeOK
  <2> QED
    BY <1>7, <2>2, <2>3 DEF SaveProject, Edit, Tick, handlerVars, TypeOK,
                            ProjectsTypeOK, EventsTypeOK
<1>8. CASE ClearEvents
  BY <1>8 DEF ClearEvents, Clear, Edit, Tick, handlerVars, TypeOK,
              ProjectsTypeOK, EventsTypeOK
<1>9. CASE Crash
  BY <1>9 DEF Crash, TypeOK, ProjectsTypeOK, EventsTypeOK, PC
<1>10. CASE UNCHANGED vars
  BY <1>10 DEF vars, handlerVars, TypeOK, ProjectsTypeOK, EventsTypeOK
<1> QED
  BY <1>1, <1>2, <1>3, <1>4, <1>5, <1>6, <1>7, <1>8, <1>9, <1>10
  DEF Next, Serve, Dashboard

\* Every reachable state is well typed; a request that is not a push never has
\* anything left to deploy.
THEOREM TypeCorrect == Spec => []TypeOK
<1>1. TypeOK /\ [Next]_vars => TypeOK'
  BY TypeNext
<1> QED
  BY TypeInit, <1>1, PTL DEF Spec

-----------------------------------------------------------------------------
(* What a request knows, and what it has done with it.                     *)

\* Nothing happens before a request is received.
Fresh ==
  \A r \in Requests : pc[r] = "idle" => matched[r] = {} /\ DeployedBy(r) = {}

\* What was found is right for the payload, and stays so: it is a copy.
FoundRight ==
  \A r \in Requests : \A f \in matched[r] :
    /\ f.config.enabled
    /\ RepoMatch(f.config.repo, PayloadOf(r).repo)
    /\ PayloadOf(r).kind = "push" => f.config.branch \in {NoBranch, PayloadOf(r).branch}

\* The loop has dealt with exactly what is no longer pending.
LoopRight ==
  \A r \in Requests :
    /\ pc[r] = "deploy" => PayloadOf(r).kind = "push"
    /\ pc[r] \in {"record", "ok"} => pending[r] = {}
    /\ pc[r] \in {"deploy", "record", "ok"} /\ PayloadOf(r).kind = "push" =>
         DeployedBy(r) = {f \in matched[r] \ pending[r] : Verifies(r, f)}

\* Whatever was deployed had been found, and verified.
DeployedRight ==
  \A d \in deployed : /\ PayloadOf(d.request).kind = "push"
                      /\ d.project \in matched[d.request]
                      /\ Verifies(d.request, d.project)

\* Times: an enabled row is not off; what a request found was not off when it
\* was received.
TimesRight ==
  /\ \A id \in Rows : projects[id].enabled => off[id] = 0
  /\ \A r \in Requests : at[r] < clock
  /\ \A r \in Requests : \A f \in matched[r] : off[f.id] # 0 => at[r] < off[f.id]

HandlerInv == TypeOK /\ Fresh /\ FoundRight /\ LoopRight /\ DeployedRight /\ TimesRight

LEMMA HandlerInit == Init => HandlerInv
<1> SUFFICES ASSUME Init PROVE HandlerInv
  OBVIOUS
<1>1. TypeOK
  BY TypeInit
<1> QED
  BY <1>1 DEF Init, HandlerInv, Fresh, FoundRight, LoopRight, DeployedRight,
              TimesRight, DeployedBy, Rows

\* A snapshot shows enabled rows of the payload's repository and branch.
LEMMA SnapshotRight ==
  ASSUME NEW r \in Requests, NEW ids \in {MatchingIds(r), {}}, NEW f \in Snapshot(ids)
  PROVE  /\ f.id \in Rows
         /\ f.config = projects[f.id]
         /\ f.config.enabled
         /\ RepoMatch(f.config.repo, PayloadOf(r).repo)
         /\ PayloadOf(r).kind = "push" => f.config.branch \in {NoBranch, PayloadOf(r).branch}
<1>1. PICK id \in MatchingIds(r) : f = [id |-> id, config |-> projects[id]]
  BY DEF Snapshot
<1>2. f.id = id /\ f.config = projects[id]
  BY <1>1
<1>3. PayloadOf(r) \in Push \cup Other \cup Garbled
  BY HandlerAssumption DEF PayloadOf
<1>4. /\ id \in FindByRepo(PayloadOf(r).repo)
      /\ PayloadOf(r).kind = "push" => projects[id].branch \in {NoBranch, PayloadOf(r).branch}
  BY <1>3, <1>1 DEF MatchingIds, FindByRepoAndBranch, Push, Other, Garbled
<1>5. id \in Rows /\ projects[id].enabled /\ RepoMatch(projects[id].repo, PayloadOf(r).repo)
  BY <1>4 DEF FindByRepo
<1> QED
  BY <1>2, <1>4, <1>5

LEMMA HandlerNext == HandlerInv /\ [Next]_vars => HandlerInv'
<1> SUFFICES ASSUME HandlerInv, [Next]_vars
             PROVE  HandlerInv'
  OBVIOUS
<1>0. TypeOK /\ TypeOK'
  BY TypeNext DEF HandlerInv
<1> USE <1>0
\* Steps that change neither what requests know nor the projects.
<1>1. ASSUME UNCHANGED <<matched, pending, deployed, at, projects, off, clock>>,
             NEW r \in Requests, NEW to \in {"rejected", "record", "ok"}, GoTo(r, to),
             \/ pc[r] = "idle" /\ to = "rejected"
             \/ pc[r] = "deploy" /\ to = "record" /\ pending[r] = {}
             \/ pc[r] = "record" /\ to = "ok"
      PROVE  (Fresh /\ FoundRight /\ LoopRight /\ DeployedRight /\ TimesRight)'
  <2>1. /\ pc'[r] = to
        /\ \A q \in Requests \ {r} : pc'[q] = pc[q]
    BY <1>1 DEF TypeOK, GoTo
  <2>2. \A q \in Requests : DeployedBy(q)' = DeployedBy(q)
    BY <1>1 DEF DeployedBy
  <2>3. Fresh'
    BY <1>1, <2>1, <2>2 DEF HandlerInv, Fresh
  <2>4. FoundRight' /\ DeployedRight'
    BY <1>1 DEF HandlerInv, FoundRight, DeployedRight, PayloadOf, Verifies
  <2>5. LoopRight'
    BY <1>1, <2>1, <2>2 DEF HandlerInv, LoopRight, PayloadOf, Verifies
  <2>6. TimesRight'
    BY <1>1, <2>1 DEF HandlerInv, TimesRight, Rows, Fresh
  <2> QED
    BY <2>3, <2>4, <2>5, <2>6
<1>2. ASSUME NEW r \in Requests, Malformed(r)
      PROVE  HandlerInv'
  BY <1>1, <1>2 DEF Malformed, HandlerInv
<1>3. ASSUME NEW r \in Requests, LoopEnds(r)
      PROVE  HandlerInv'
  BY <1>1, <1>3 DEF LoopEnds, HandlerInv
<1>4. ASSUME NEW r \in Requests, Record(r)
      PROVE  HandlerInv'
  BY <1>1, <1>4 DEF Record, HandlerInv
<1>5. ASSUME NEW r \in Requests, Receive(r)
      PROVE  HandlerInv'
  <2> PICK ids \in {MatchingIds(r), {}} :
        LET found == Snapshot(ids) IN
        /\ IF ids = MatchingIds(r) THEN UNCHANGED faults ELSE Fault
        /\ matched' = [matched EXCEPT ![r] = found]
        /\ pending' = [pending EXCEPT ![r] = LoopOver(r, found)]
        /\ GoTo(r, IF ~Accepted(r, found) THEN "rejected"
                   ELSE IF PayloadOf(r).kind = "push" THEN "deploy" ELSE "record")
    BY <1>5 DEF Receive
  <2>1. /\ pc[r] = "idle"
        /\ matched'[r] = Snapshot(ids)
        /\ pending'[r] = LoopOver(r, Snapshot(ids))
        /\ pc'[r] \in {"rejected", "deploy", "record"}
        /\ pc'[r] = "deploy" => PayloadOf(r).kind = "push"
        /\ pc'[r] = "record" => PayloadOf(r).kind # "push"
        /\ at'[r] = clock
        /\ clock' = clock + 1
    BY <1>5 DEF Receive, TypeOK, GoTo, Tick
  <2>2. \A q \in Requests \ {r} : /\ matched'[q] = matched[q]
                                  /\ pending'[q] = pending[q]
                                  /\ pc'[q] = pc[q]
                                  /\ at'[q] = at[q]
    BY <1>5 DEF Receive, TypeOK, GoTo
  <2>3. UNCHANGED <<projects, deployed, off>>
    BY <1>5 DEF Receive
  <2>4. \A q \in Requests : DeployedBy(q)' = DeployedBy(q)
    BY <2>3 DEF DeployedBy
  <2>5. Fresh'
    BY <2>1, <2>2, <2>4 DEF HandlerInv, Fresh
  <2>6. FoundRight'
    <3> SUFFICES ASSUME NEW q \in Requests, NEW f \in matched'[q]
                 PROVE  /\ f.config.enabled
                        /\ RepoMatch(f.config.repo, PayloadOf(q).repo)
                        /\ PayloadOf(q).kind = "push" =>
                             f.config.branch \in {NoBranch, PayloadOf(q).branch}
      BY DEF FoundRight, PayloadOf
    <3>1. CASE q = r
      BY <3>1, <2>1, SnapshotRight
    <3>2. CASE q # r
      BY <3>2, <2>2 DEF HandlerInv, FoundRight
    <3> QED
      BY <3>1, <3>2
  <2>7. LoopRight'
    <3>1. DeployedBy(r) = {}
      BY <2>1 DEF HandlerInv, Fresh
    <3>2. PayloadOf(r).kind = "push" => pending'[r] = matched'[r]
      BY <2>1 DEF LoopOver
    <3>3. PayloadOf(r).kind # "push" => pending'[r] = {}
      BY <2>1 DEF LoopOver
    <3> QED
      BY <2>1, <2>2, <2>4, <3>1, <3>2, <3>3
      DEF HandlerInv, LoopRight, PayloadOf, Verifies
  <2>8. DeployedRight'
    <3>1. \A d \in deployed : d.request \in Requests /\ d.request # r
      <4>1. \A d \in deployed : d.request \in Requests /\ matched[d.request] # {}
        BY DEF HandlerInv, DeployedRight, TypeOK
      <4> QED
        BY <4>1, <2>1 DEF HandlerInv, Fresh
    <3> QED
      BY <3>1, <2>2, <2>3 DEF HandlerInv, DeployedRight, PayloadOf, Verifies
  <2>9. TimesRight'
    <3>1. \A f \in Snapshot(ids) : off[f.id] = 0
      BY SnapshotRight DEF HandlerInv, TimesRight
    <3> QED
      BY <3>1, <2>1, <2>2, <2>3 DEF HandlerInv, TimesRight, TypeOK, Rows
  <2> QED
    BY <2>5, <2>6, <2>7, <2>8, <2>9 DEF HandlerInv
<1>6. ASSUME NEW r \in Requests, NEW f \in pending[r], DeployOne(r, f)
      PROVE  HandlerInv'
  <2>1. /\ pc[r] = "deploy"
        /\ pending'[r] = pending[r] \ {f}
        /\ \A q \in Requests \ {r} : pending'[q] = pending[q]
        /\ UNCHANGED <<projects, pc, at, matched, off, clock>>
    BY <1>6 DEF DeployOne, TypeOK
  <2>2. f \in matched[r] /\ PayloadOf(r).kind = "push"
    BY DEF TypeOK
  <2>3. \A q \in Requests \ {r} : DeployedBy(q)' = DeployedBy(q)
    BY <1>6 DEF DeployOne, DeployedBy
  <2>4. DeployedBy(r)' = IF Verifies(r, f) THEN DeployedBy(r) \cup {f} ELSE DeployedBy(r)
    <3> DEFINE d == [request |-> r, project |-> f]
    <3>1. d.request = r /\ d.project = f
      OBVIOUS
    <3>2. CASE Verifies(r, f)
      <4>1. deployed' = deployed \cup {d}
        BY <1>6, <3>2 DEF DeployOne
      <4> HIDE DEF d
      <4>2. {g \in deployed' : g.request = r} = {g \in deployed : g.request = r} \cup {d}
        BY <4>1, <3>1
      <4> QED
        BY <3>2, <4>2, <3>1 DEF DeployedBy
    <3>3. CASE ~Verifies(r, f)
      BY <1>6, <3>3 DEF DeployOne, DeployedBy
    <3> QED
      BY <3>2, <3>3
  <2>5. LoopRight'
    <3>1. DeployedBy(r) = {g \in matched[r] \ pending[r] : Verifies(r, g)}
      BY <2>1, <2>2 DEF HandlerInv, LoopRight
    <3>2. DeployedBy(r)' = {g \in matched[r] \ pending'[r] : Verifies(r, g)}
      BY <3>1, <2>1, <2>2, <2>4
    <3> QED
      BY <3>2, <2>1, <2>2, <2>3 DEF HandlerInv, LoopRight, PayloadOf, Verifies
  <2>6. DeployedRight'
    BY <1>6, <2>1, <2>2 DEF DeployOne, HandlerInv, DeployedRight, PayloadOf, Verifies
  <2>7. Fresh' /\ FoundRight' /\ TimesRight'
    BY <2>1, <2>3 DEF HandlerInv, Fresh, FoundRight, TimesRight, PayloadOf, Rows
  <2> QED
    BY <2>5, <2>6, <2>7 DEF HandlerInv
\* Steps of the dashboard: the requests keep their copies.
<1>7. ASSUME UNCHANGED handlerVars
      PROVE  (Fresh /\ FoundRight /\ LoopRight /\ DeployedRight)'
  BY <1>7 DEF handlerVars, HandlerInv, Fresh, FoundRight, LoopRight, DeployedRight,
              DeployedBy, PayloadOf, Verifies
<1>8. ASSUME NEW id \in ProjectIds, DeleteProject(id)
      PROVE  HandlerInv'
  <2>1. TimesRight'
    BY <1>8 DEF DeleteProject, Delete, SinceNow, Edit, Tick, handlerVars, HandlerInv,
                TimesRight, TypeOK, ProjectsTypeOK, Rows, Found
  <2> QED
    BY <1>7, <1>8, <2>1 DEF DeleteProject, Edit, HandlerInv
<1>9. ASSUME NEW id \in ProjectIds, NEW req \in SaveRequests, SaveProject(id, req)
      PROVE  HandlerInv'
  <2>1. /\ projects' = [projects EXCEPT ![id] = Normalised(req)]
        /\ off' = IF req.enabled THEN [off EXCEPT ![id] = 0] ELSE SinceNow(id)
        /\ clock' = clock + 1
        /\ UNCHANGED <<at, matched, pc>>
    BY <1>9 DEF SaveProject, Save, Edit, Tick, handlerVars
  <2>2. Normalised(req).enabled = req.enabled
    BY HandlerAssumption DEF Normalised, Config
  <2>3. \A i \in Rows' : projects'[i].enabled => off'[i] = 0
    BY <2>1, <2>2 DEF SinceNow, HandlerInv, TimesRight, TypeOK, ProjectsTypeOK, Rows
  <2>4. \A r \in Requests : at'[r] < clock'
    BY <2>1 DEF HandlerInv, TimesRight, TypeOK
  <2>5. \A r \in Requests : \A f \in matched'[r] : off'[f.id] # 0 => at'[r] < off'[f.id]
    BY <2>1 DEF SinceNow, HandlerInv, TimesRight, TypeOK, Found
  <2>6. TimesRight'
    BY <2>3, <2>4, <2>5 DEF TimesRight
  <2> QED
    BY <1>7, <1>9, <2>6 DEF SaveProject, Edit, HandlerInv
<1>10. CASE ClearEvents
  <2>1. TimesRight'
    BY <1>10 DEF ClearEvents, Edit, Tick, handlerVars, HandlerInv, TimesRight, TypeOK, Rows
  <2> QED
    BY <1>7, <1>10, <2>1 DEF ClearEvents, Edit, HandlerInv
<1>11. CASE Crash
  <2>1. /\ UNCHANGED <<projects, at, matched, pending, deployed, off, clock>>
        /\ \A r \in Requests : pc'[r] = IF pc[r] \in {"deploy", "record"}
                                      THEN "lost" ELSE pc[r]
    BY <1>11 DEF Crash
  <2>2. \A r \in Requests : DeployedBy(r)' = DeployedBy(r)
    BY <2>1 DEF DeployedBy
  <2> QED
    BY <2>1, <2>2 DEF HandlerInv, Fresh, FoundRight, LoopRight, DeployedRight,
                      TimesRight, PayloadOf, Verifies, Rows
<1>12. CASE UNCHANGED vars
  <2>1. TimesRight'
    BY <1>12 DEF vars, handlerVars, HandlerInv, TimesRight, Rows
  <2> QED
    BY <1>7, <1>12, <2>1 DEF vars, HandlerInv
<1> QED
  BY <1>2, <1>3, <1>4, <1>5, <1>6, <1>8, <1>9, <1>10, <1>11, <1>12
  DEF Next, Serve, Dashboard

LEMMA HandlerAlways == Spec => []HandlerInv
<1>1. HandlerInv /\ [Next]_vars => HandlerInv'
  BY HandlerNext
<1> QED
  BY HandlerInit, <1>1, PTL DEF Spec

\* For any secrets: whatever is deployed was pushed to its own repository and
\* branch and signed with its own secret, read when the request was received.
THEOREM DeploysOwn == Spec => []OwnSecretOnly
<1>1. HandlerInv => OwnSecretOnly
  BY DEF HandlerInv, FoundRight, DeployedRight, OwnSecretOnly, Verifies, verifySignature,
         secretToUse, TypeOK
<1> QED
  BY HandlerAlways, <1>1, PTL

\* For any number of matching projects and of failing statements: the loop of a
\* push that was answered has left no project out and added none.
THEOREM DeploysAll == Spec => []AnsweredIsDeployed
<1>1. HandlerInv => AnsweredIsDeployed
  BY DEF HandlerInv, LoopRight, AnsweredIsDeployed
<1> QED
  BY HandlerAlways, <1>1, PTL

\* For any interleaving of edits and deliveries: a project that is disabled or
\* deleted is deployed only by requests that were received before.
THEOREM StaysQuiet == Spec => []DisabledStaysQuiet
<1>1. HandlerInv => DisabledStaysQuiet
  BY DEF HandlerInv, DeployedRight, TimesRight, DisabledStaysQuiet, TypeOK
<1> QED
  BY HandlerAlways, <1>1, PTL

-----------------------------------------------------------------------------
(* The table of events.                                                    *)

Distinct(s) == \A i, k \in 1..Len(s) : s[i].delivery = s[k].delivery => i = k
Within(t, s) == \A i \in 1..Len(t) : \E k \in 1..Len(s) : t[i] = s[k]

\* The clean-up drops rows from the old end, and changes none.
LEMMA PruneKeeps ==
  ASSUME NEW s \in Seq(Event), Distinct(s)
  PROVE  /\ Len(Prune(s)) <= MaxStoredEvents
         /\ Len(Prune(s)) <= Len(s)
         /\ Distinct(Prune(s))
         /\ Within(Prune(s), s)
<1>1. /\ Len(s) \in Nat
      /\ MaxStoredEvents \in Nat \ {0}
  BY EventAssumption
<1>2. CASE Len(s) <= MaxStoredEvents
  BY <1>1, <1>2 DEF Prune, Within
<1>3. CASE ~(Len(s) <= MaxStoredEvents)
  <2> DEFINE n == Len(s) - MaxStoredEvents
             t == SubSeq(s, n + 1, Len(s))
  <2>1. n \in Nat /\ n + MaxStoredEvents = Len(s)
    BY <1>1, <1>3
  <2>2. Prune(s) = t
    BY <1>3 DEF Prune
  <2>3. /\ Len(t) = MaxStoredEvents
        /\ \A i \in 1..MaxStoredEvents : t[i] = s[n + i]
    BY <1>1, <2>1
  <2> HIDE DEF n, t
  <2>4. \A i \in 1..MaxStoredEvents : n + i \in 1..Len(s)
    BY <1>1, <2>1
  <2>5. Within(t, s)
    BY <2>3, <2>4 DEF Within
  <2>6. Distinct(t)
    <3> SUFFICES ASSUME NEW i \in 1..MaxStoredEvents, NEW k \in 1..MaxStoredEvents,
                        t[i].delivery = t[k].delivery
                 PROVE  i = k
      BY <2>3 DEF Distinct
    <3>1. n + i = n + k
      BY <2>3, <2>4 DEF Distinct
    <3> QED
      BY <3>1, <2>1
  <2> QED
    BY <1>1, <1>3, <2>2, <2>3, <2>5, <2>6
<1> QED
  BY <1>2, <1>3

\* The insertion adds one row at most, and no second one for a delivery.
LEMMA UpsertKeeps ==
  ASSUME NEW s \in Seq(Event), NEW e \in Event, Distinct(s)
  PROVE  /\ Len(Upsert(s, e)) <= Len(s) + 1
         /\ Distinct(Upsert(s, e))
         /\ \A i \in 1..Len(Upsert(s, e)) :
              \/ Upsert(s, e)[i] = e
              \/ \E k \in 1..Len(s) : Upsert(s, e)[i] = s[k]
<1>1. Len(s) \in Nat
  OBVIOUS
<1>2. CASE e.delivery \in Recorded(s)
  <2> DEFINE t == [i \in 1..Len(s) |-> IF s[i].delivery = e.delivery THEN e ELSE s[i]]
  <2>1. Upsert(s, e) = t
    BY <1>2 DEF Upsert
  <2>2. t \in Seq(Event)
    BY <2>1, UpsertType
  <2>3. Len(t) = Len(s)
    BY <1>1, <2>2
  <2>4. \A i \in 1..Len(s) : t[i] = IF s[i].delivery = e.delivery THEN e ELSE s[i]
    OBVIOUS
  <2> HIDE DEF t
  <2>5. \A i \in 1..Len(s) : t[i].delivery = s[i].delivery
    BY <2>4
  <2> QED
    BY <1>1, <2>1, <2>3, <2>4, <2>5 DEF Distinct
<1>3. CASE e.delivery \notin Recorded(s)
  <2> DEFINE t == Append(s, e)
  <2>1. Upsert(s, e) = t
    BY <1>3 DEF Upsert
  <2>2. /\ Len(t) = Len(s) + 1
        /\ \A i \in 1..Len(s) : t[i] = s[i]
        /\ t[Len(s) + 1] = e
    BY <1>1
  <2> HIDE DEF t
  <2>3. \A i \in 1..Len(t) : i \in 1..Len(s) \/ i = Len(s) + 1
    BY <1>1, <2>2
  <2>4. \A i \in 1..Len(s) : s[i].delivery # e.delivery
    BY <1>3 DEF Recorded
  <2>5. Distinct(t)
    BY <2>2, <2>3, <2>4 DEF Distinct
  <2>6. \A i \in 1..Len(t) : t[i] = e \/ \E k \in 1..Len(s) : t[i] = s[k]
    BY <2>2, <2>3
  <2>7. Len(t) <= Len(s) + 1
    BY <1>1, <2>2
  <2> QED
    BY <2>1, <2>5, <2>6, <2>7
<1> QED
  BY <1>2, <1>3

\* What the requests that were served to their end have recorded.
Served ==
  {[delivery |-> DeliveryOf[r], at |-> at[r]] : r \in {q \in Requests : pc[q] = "ok"}}

LEMMA EventsNext == TypeOK /\ EventsAccountable /\ [Next]_vars => EventsAccountable'
<1> SUFFICES ASSUME TypeOK, EventsAccountable, [Next]_vars
             PROVE  EventsAccountable'
  OBVIOUS
<1>0. /\ events \in Seq(Event) /\ Len(events) \in Nat
      /\ faults \in Nat /\ MaxStoredEvents \in Nat \ {0}
      /\ Distinct(events)
      /\ \A i \in 1..Len(events) : events[i] \in Served
  <2>1. events \in Seq(Event)
    BY DEF TypeOK, EventsTypeOK
  <2>2. Len(events) \in Nat
    BY <2>1
  <2>3. faults \in Nat /\ MaxStoredEvents \in Nat \ {0}
    BY EventAssumption, HandlerAssumption DEF TypeOK
  <2>4. Distinct(events) /\ \A i \in 1..Len(events) : events[i] \in Served
    BY DEF EventsAccountable, Distinct, Served
  <2> QED
    BY <2>1, <2>2, <2>3, <2>4
\* Steps that leave the rows and their requests alone.
<1>1. ASSUME events' = events, faults' \in {faults, faults + 1},
             \A r \in Requests : pc[r] = "ok" => pc'[r] = "ok" /\ at'[r] = at[r]
      PROVE  EventsAccountable'
  <2>1. \A i \in 1..Len(events) : events[i] \in Served'
    BY <1>0, <1>1 DEF Served
  <2>2. Len(events) <= MaxStoredEvents + faults'
    BY <1>0, <1>1 DEF EventsAccountable
  <2> QED
    BY <1>0, <1>1, <2>1, <2>2 DEF EventsAccountable, Distinct, Served
<1>2. ASSUME NEW r \in Requests, Malformed(r)
      PROVE  EventsAccountable'
  BY <1>1, <1>2 DEF Malformed, GoTo, TypeOK
<1>3. ASSUME NEW r \in Requests, Receive(r)
      PROVE  EventsAccountable'
  <2>1. events' = events /\ pc[r] = "idle"
    BY <1>3 DEF Receive
  <2>2. faults' \in {faults, faults + 1}
    BY <1>3 DEF Receive, Fault
  <2>3. \A q \in Requests \ {r} : pc'[q] = pc[q] /\ at'[q] = at[q]
    BY <1>3 DEF Receive, GoTo, TypeOK
  <2> QED
    BY <1>1, <2>1, <2>2, <2>3
<1>4. ASSUME NEW r \in Requests, LoopEnds(r)
      PROVE  EventsAccountable'
  BY <1>1, <1>4 DEF LoopEnds, GoTo, TypeOK
<1>5. ASSUME NEW r \in Requests, NEW f \in pending[r], DeployOne(r, f)
      PROVE  EventsAccountable'
  BY <1>1, <1>5 DEF DeployOne
<1>6. ASSUME NEW r \in Requests, Record(r)
      PROVE  EventsAccountable'
  <2> DEFINE e == [delivery |-> DeliveryOf[r], at |-> at[r]]
  <2>1. e \in Event
    BY HandlerAssumption DEF Event, TypeOK
  <2>2. /\ pc'[r] = "ok"
        /\ \A q \in Requests \ {r} : pc'[q] = pc[q]
        /\ at' = at
    BY <1>6 DEF Record, GoTo, TypeOK
  <2>3. e \in Served'
    BY <2>2 DEF Served
  <2>4. \A i \in 1..Len(events) : events[i] \in Served'
    BY <1>0, <2>2 DEF Served
  <2>5. \/ events' = Added(e) /\ faults' = faults
        \/ events' \in AddedInPart(e) /\ faults' = faults + 1
    BY <1>6 DEF Record, Fault
  <2> HIDE DEF e
  <2>6. /\ Upsert(events, e) \in Seq(Event)
        /\ Len(Upsert(events, e)) <= Len(events) + 1
        /\ Distinct(Upsert(events, e))
        /\ \A i \in 1..Len(Upsert(events, e)) : Upsert(events, e)[i] \in Served'
    BY <1>0, <2>1, <2>3, <2>4, UpsertType, UpsertKeeps
  <2>7. CASE events' = Added(e) /\ faults' = faults
    <3>1. /\ Len(events') <= MaxStoredEvents
          /\ Distinct(events')
          /\ Within(events', Upsert(events, e))
      BY <2>6, <2>7, PruneKeeps DEF Added
    <3>2. \A i \in 1..Len(events') : events'[i] \in Served'
      BY <2>6, <3>1 DEF Within
    <3>3. Len(events') \in Nat
      BY <2>6, <2>7, PruneType DEF Added
    <3>4. Len(events') <= MaxStoredEvents + faults'
      BY <1>0, <2>7, <3>1, <3>3
    <3> QED
      BY <3>1, <3>2, <3>4 DEF EventsAccountable, Distinct, Served
  <2>8. CASE events' = Prune(events) /\ faults' = faults + 1
    <3>1. /\ Len(events') <= MaxStoredEvents
          /\ Distinct(events')
          /\ Within(events', events)
      BY <1>0, <2>8, PruneKeeps
    <3>2. \A i \in 1..Len(events') : events'[i] \in Served'
      BY <2>4, <3>1 DEF Within
    <3>3. Len(events') \in Nat
      BY <1>0, <2>8, PruneType
    <3>4. Len(events') <= MaxStoredEvents + faults'
      BY <1>0, <2>8, <3>1, <3>3
    <3> QED
      BY <3>1, <3>2, <3>4 DEF EventsAccountable, Distinct, Served
  <2>9. CASE events' = Upsert(events, e) /\ faults' = faults + 1
    <3>1. Len(events') \in Nat
      BY <2>6, <2>9
    <3>2. Len(events') <= MaxStoredEvents + faults'
      BY <1>0, <2>6, <2>9, <3>1 DEF EventsAccountable
    <3> QED
      BY <2>6, <2>9, <3>2 DEF EventsAccountable, Distinct, Served
  <2> QED
    BY <2>5, <2>7, <2>8, <2>9 DEF AddedInPart
<1>7. ASSUME NEW id \in ProjectIds, DeleteProject(id)
      PROVE  EventsAccountable'
  BY <1>1, <1>7 DEF DeleteProject, Edit, handlerVars
<1>8. ASSUME NEW id \in ProjectIds, NEW req \in SaveRequests, SaveProject(id, req)
      PROVE  EventsAccountable'
  BY <1>1, <1>8 DEF SaveProject, Edit, handlerVars
<1>9. CASE ClearEvents
  <2>1. events' = <<>> /\ faults' = faults
    BY <1>9 DEF ClearEvents, Clear, Edit
  <2>2. Len(events') = 0
    BY <2>1
  <2> QED
    BY <1>0, <2>1, <2>2 DEF EventsAccountable
<1>10. CASE Crash
  BY <1>1, <1>10 DEF Crash, TypeOK
<1>11. CASE UNCHANGED vars
  BY <1>1, <1>11 DEF vars, handlerVars
<1> QED
  BY <1>2, <1>3, <1>4, <1>5, <1>6, <1>7, <1>8, <1>9, <1>10, <1>11
  DEF Next, Serve, Dashboard

\* For any capacity and any interleaving of redeliveries, clearings, failing
\* statements and deaths of the server: the table is bounded, holds one row per
\* delivery, and every row is of a request that was served to its end.
THEOREM EventsKept == Spec => []EventsAccountable
<1>1. Init => EventsAccountable
  <2> SUFFICES ASSUME Init PROVE EventsAccountable
    OBVIOUS
  <2>1. Len(events) = 0 /\ faults = 0
    BY DEF Init
  <2> QED
    BY <2>1, EventAssumption DEF EventsAccountable
<1>2. TypeOK /\ EventsAccountable /\ [Next]_vars => EventsAccountable'
  BY EventsNext
<1> QED
  BY TypeCorrect, <1>1, <1>2, PTL DEF Spec

\* In a table within its bound, an addition to which nothing fails has the new
\* delivery, and drops at most the first row.
LEMMA AddedKeeps ==
  ASSUME NEW e \in Event, events \in Seq(Event), Len(events) <= MaxStoredEvents
  PROVE  /\ e.delivery \in Recorded(Added(e))
         /\ \A k \in 1..Len(events) : k > 1 => events[k].delivery \in Recorded(Added(e))
<1>1. /\ Len(events) \in Nat
      /\ MaxStoredEvents \in Nat \ {0}
  BY EventAssumption
<1>2. CASE e.delivery \in Recorded(events)
  <2> DEFINE t == [i \in 1..Len(events) |->
                     IF events[i].delivery = e.delivery THEN e ELSE events[i]]
  <2>1. Upsert(events, e) = t
    BY <1>2 DEF Upsert
  <2>2. Len(t) = Len(events)
    BY <1>1, <2>1, UpsertType
  <2>3. Added(e) = t
    BY <2>1, <2>2 DEF Added, Prune
  <2>4. \A i \in 1..Len(events) : t[i].delivery = events[i].delivery
    OBVIOUS
  <2> HIDE DEF t
  <2> QED
    BY <1>2, <2>2, <2>3, <2>4 DEF Recorded
<1>3. CASE e.delivery \notin Recorded(events)
  <2> DEFINE n == Len(events)
             t == Append(events, e)
  <2>1. Upsert(events, e) = t
    BY <1>3 DEF Upsert
  <2>2. /\ t \in Seq(Event) /\ Len(t) = n + 1
        /\ \A i \in 1..n : t[i] = events[i]
        /\ t[n + 1] = e
    BY <1>1
  <2>3. CASE n + 1 <= MaxStoredEvents
    <3>1. Added(e) = t
      BY <2>1, <2>2, <2>3 DEF Added, Prune
    <3> HIDE DEF t
    <3> QED
      BY <1>1, <2>2, <3>1 DEF Recorded
  <2>4. CASE ~(n + 1 <= MaxStoredEvents)
    <3>1. n = MaxStoredEvents
      BY <1>1, <2>4
    <3>2. Added(e) = SubSeq(t, 2, n + 1)
      <4> HIDE DEF t
      <4>1. Len(t) - MaxStoredEvents + 1 = 2
        BY <1>1, <2>2, <3>1
      <4> QED
        BY <2>1, <2>2, <2>4, <4>1 DEF Added, Prune
    <3> HIDE DEF t
    <3>3. /\ Len(Added(e)) = n
          /\ \A i \in 1..n : Added(e)[i] = t[i + 1]
      BY <1>1, <2>2, <3>2
    <3>4. \A k \in 1..(n + 1) : k > 1 => t[k].delivery \in Recorded(Added(e))
      <4> SUFFICES ASSUME NEW k \in 1..(n + 1), k > 1
                   PROVE  t[k].delivery \in Recorded(Added(e))
        OBVIOUS
      <4>1. k - 1 \in 1..n /\ Added(e)[k - 1] = t[k]
        BY <1>1, <3>3
      <4> QED
        BY <3>3, <4>1 DEF Recorded
    <3>5. n + 1 > 1
      BY <1>1, <3>1
    <3> QED
      BY <1>1, <2>2, <3>4, <3>5
  <2> QED
    BY <2>3, <2>4
<1> QED
  BY <1>2, <1>3

\* For any capacity: as long as no statement has failed, a delivery that was
\* answered is on record, and only the oldest rows have made room for it.
THEOREM OldestMakesRoom == Spec => OldestOut
<1> DEFINE Kept(r) ==
      pc[r] = "record" /\ pc'[r] = "ok" /\ faults' = 0 =>
        /\ DeliveryOf[r] \in Recorded(events')
        /\ \A i, k \in 1..Len(events) :
             i < k /\ events[i].delivery \in Recorded(events') =>
               events[k].delivery \in Recorded(events')
<1>1. ASSUME TypeOK, EventsAccountable, [Next]_vars, NEW r \in Requests
      PROVE  Kept(r)
  <2> SUFFICES ASSUME pc[r] = "record", pc'[r] = "ok", faults' = 0
               PROVE  Kept(r)
    OBVIOUS
  <2>1. Record(r)
    <3>1. /\ \A q \in Requests : Malformed(q) \/ Receive(q) \/ LoopEnds(q) => pc'[r] # "ok"
          /\ \A q \in Requests : Record(q) => q = r
      BY <1>1 DEF Malformed, Receive, LoopEnds, Record, GoTo, TypeOK
    <3>2. \A q \in Requests : \A f \in pending[q] : DeployOne(q, f) => pc' = pc
      BY DEF DeployOne
    <3>3. Dashboard => pc' = pc
      BY DEF Dashboard, DeleteProject, SaveProject, ClearEvents, Edit, handlerVars
    <3>4. Crash => pc'[r] # "ok"
      BY DEF Crash
    <3>5. UNCHANGED vars => pc' = pc
      BY DEF vars, handlerVars
    <3> QED
      BY <1>1, <3>1, <3>2, <3>3, <3>4, <3>5 DEF Next, Serve
  <2> DEFINE e == [delivery |-> DeliveryOf[r], at |-> at[r]]
  <2>2. e \in Event /\ e.delivery = DeliveryOf[r]
    BY <1>1, HandlerAssumption DEF Event, TypeOK
  <2>3. faults = 0 /\ events' = Added(e)
    BY <1>1, <2>1, HandlerAssumption DEF Record, Fault, TypeOK
  <2>4. events \in Seq(Event) /\ Len(events) <= MaxStoredEvents
    <3>1. events \in Seq(Event) /\ Len(events) <= MaxStoredEvents + 0
      BY <1>1, <2>3 DEF TypeOK, EventsTypeOK, EventsAccountable
    <3>2. Len(events) \in Nat /\ MaxStoredEvents \in Nat
      BY <3>1, EventAssumption
    <3> QED
      BY <3>1, <3>2
  <2>5. \A i, k \in 1..Len(events) : i < k => k > 1
    BY <2>4
  <2> HIDE DEF e
  <2> QED
    BY <2>2, <2>3, <2>4, <2>5, AddedKeeps
<1>2. TypeOK /\ EventsAccountable /\ [Next]_vars =>
        [\A r \in Requests : Kept(r)]_vars
  BY <1>1
<1> QED
  BY TypeCorrect, EventsKept, <1>2, PTL DEF Spec, OldestOut
-----------------------------------------------------------------------------
(* The handler implements Delivery.                                        *)

\* What Delivery sees of a request.
States == [r \in Requests |-> StateOf(r)]
Dues == [r \in Requests |-> Due(r)]

\* A step that moves one request, and finds nothing new.
LEMMA OneMoves ==
  ASSUME TypeOK, TypeOK', NEW r \in Requests, NEW to \in PC, GoTo(r, to)
  PROVE  States' = [States EXCEPT ![r] = StateOf(r)']
<1>1. \A q \in Requests \ {r} : pc'[q] = pc[q]
  BY DEF TypeOK, GoTo
<1>2. \A q \in Requests \ {r} : StateOf(q)' = StateOf(q)
  BY <1>1 DEF StateOf
<1> QED
  BY <1>2 DEF States

\* What is due is what was found; it stays while that does.
LEMMA DueStays ==
  ASSUME NEW r \in Requests, matched'[r] = matched[r]
  PROVE  Due(r)' = Due(r)
BY DEF Due, LoopOver, Verifies, PayloadOf

LEMMA DuesStay ==
  ASSUME matched' = matched
  PROVE  Dues' = Dues
BY DueStays DEF Dues

\* A call of TriggerDeployment is known by its request and its project.
LEMMA StartedFor ==
  ASSUME TypeOK, NEW r \in Requests, NEW f \in Found
  PROVE  Promise!Deployment(r, f) \in deployed <=> f \in DeployedBy(r)
<1>1. ASSUME NEW d \in deployed, d.request = r, d.project = f
      PROVE  d = Promise!Deployment(r, f)
  BY <1>1 DEF TypeOK, Promise!Deployment
<1>2. /\ Promise!Deployment(r, f).request = r
      /\ Promise!Deployment(r, f).project = f
  BY DEF Promise!Deployment
<1> QED
  BY <1>1, <1>2 DEF DeployedBy

LEMMA PromiseFirst == Init => Promise!Init
<1> SUFFICES ASSUME Init PROVE Promise!Init
  OBVIOUS
<1>1. \A r \in Requests : StateOf(r) = "new" /\ Due(r) = {}
  BY DEF Init, StateOf, Due, LoopOver
<1> QED
  BY <1>1 DEF Init, Promise!Init

LEMMA PromiseNext == HandlerInv /\ [Next]_vars => [Promise!Next]_(Promise!deliveryVars)
<1> SUFFICES ASSUME HandlerInv, [Next]_vars
             PROVE  Promise!Next \/ (States' = States /\ Dues' = Dues /\ deployed' = deployed)
  BY DEF Promise!deliveryVars, States, Dues
<1>0. TypeOK /\ TypeOK'
  BY TypeNext DEF HandlerInv
<1> USE <1>0
<1> DEFINE Goal == Promise!Next \/ (States' = States /\ Dues' = Dues /\ deployed' = deployed)
<1>1. ASSUME NEW r \in Requests, Malformed(r)
      PROVE  Goal
  <2>1. /\ pc[r] = "idle" /\ pc'[r] = "rejected" /\ GoTo(r, "rejected")
        /\ UNCHANGED <<matched, deployed>>
    BY <1>1 DEF Malformed, GoTo, TypeOK
  <2>2. StateOf(r) = "new" /\ StateOf(r)' = "refused"
    BY <2>1 DEF StateOf
  <2>3. Promise!Refuse(r)
    BY <2>1, <2>2, OneMoves, DuesStay DEF Promise!Refuse, States, Dues, PC
  <2> QED
    BY <2>3 DEF Promise!Next
<1>2. ASSUME NEW r \in Requests, Receive(r)
      PROVE  Goal
  <2> PICK ids \in {MatchingIds(r), {}} :
        LET found == Snapshot(ids) IN
        /\ IF ids = MatchingIds(r) THEN UNCHANGED faults ELSE Fault
        /\ matched' = [matched EXCEPT ![r] = found]
        /\ pending' = [pending EXCEPT ![r] = LoopOver(r, found)]
        /\ GoTo(r, IF ~Accepted(r, found) THEN "rejected"
                   ELSE IF PayloadOf(r).kind = "push" THEN "deploy" ELSE "record")
    BY <1>2 DEF Receive
  <2> DEFINE found == Snapshot(ids)
             to == IF ~Accepted(r, found) THEN "rejected"
                   ELSE IF PayloadOf(r).kind = "push" THEN "deploy" ELSE "record"
  <2>1. /\ pc[r] = "idle" /\ pc'[r] = to /\ GoTo(r, to) /\ to \in PC
        /\ matched'[r] = found
        /\ \A q \in Requests \ {r} : matched'[q] = matched[q]
        /\ deployed' = deployed
    BY <1>2 DEF Receive, GoTo, TypeOK, PC
  <2>2. StateOf(r) = "new" /\ matched[r] = {}
    BY <2>1 DEF StateOf, HandlerInv, Fresh
  <2>3. \A q \in Requests \ {r} : Due(q)' = Due(q)
    BY <2>1, DueStays
  <2>4. Due(r)' = {f \in LoopOver(r, found) : Verifies(r, f)}
    BY <2>1 DEF Due, LoopOver, Verifies, PayloadOf
  <2>5. CASE ~Accepted(r, found)
    <3>1. Due(r)' = {} /\ Due(r) = {}
      BY <2>2, <2>4, <2>5 DEF Accepted, LoopOver, Due
    <3>2. Dues' = Dues
      BY <2>3, <3>1 DEF Dues
    <3>3. StateOf(r)' = "refused"
      BY <2>1, <2>5 DEF StateOf
    <3>4. Promise!Refuse(r)
      BY <2>1, <2>2, <3>2, <3>3, OneMoves DEF Promise!Refuse, States, Dues
    <3> QED
      BY <3>4 DEF Promise!Next
  <2>6. CASE Accepted(r, found)
    <3>1. StateOf(r)' = "open"
      BY <2>1, <2>6 DEF StateOf
    <3>2. \A q \in Requests : Due(q)' \subseteq Found
      BY DEF Due, LoopOver, TypeOK
    <3>3. Dues' \in [Requests -> SUBSET Found]
      BY <3>2 DEF Dues
    <3>4. \A q \in Requests \ {r} : Dues'[q] = Dues[q]
      BY <2>3 DEF Dues
    <3>5. Promise!Admit(r)
      BY <2>1, <2>2, <3>1, <3>3, <3>4, OneMoves DEF Promise!Admit, States, Dues
    <3> QED
      BY <3>5 DEF Promise!Next
  <2> QED
    BY <2>5, <2>6
<1>3. ASSUME NEW r \in Requests, LoopEnds(r)
      PROVE  Goal
  <2>1. /\ pc[r] = "deploy" /\ pc'[r] = "record" /\ GoTo(r, "record")
        /\ UNCHANGED <<matched, deployed>>
    BY <1>3 DEF LoopEnds, GoTo, TypeOK
  <2>2. StateOf(r)' = StateOf(r)
    BY <2>1 DEF StateOf
  <2>3. States' = States
    BY <2>1, <2>2, OneMoves DEF States, PC
  <2> QED
    BY <2>1, <2>3, DuesStay
<1>4. ASSUME NEW r \in Requests, Record(r)
      PROVE  Goal
  <2>1. /\ pc[r] = "record" /\ pc'[r] = "ok" /\ GoTo(r, "ok")
        /\ UNCHANGED <<matched, deployed>>
    BY <1>4 DEF Record, GoTo, TypeOK
  <2>2. StateOf(r) = "open" /\ StateOf(r)' = "answered"
    BY <2>1 DEF StateOf
  <2>3. ASSUME NEW f \in Due(r)
        PROVE  Promise!Deployment(r, f) \in deployed
    <3>1. PayloadOf(r).kind = "push" /\ f \in matched[r] /\ Verifies(r, f) /\ pending[r] = {}
      BY <2>1, <2>3 DEF Due, LoopOver, HandlerInv, LoopRight
    <3>2. f \in DeployedBy(r)
      BY <2>1, <3>1 DEF HandlerInv, LoopRight
    <3>3. f \in Found
      BY <3>1 DEF TypeOK
    <3> QED
      BY <3>2, <3>3, StartedFor
  <2>4. Promise!Answer(r)
    BY <2>1, <2>2, <2>3, OneMoves, DuesStay DEF Promise!Answer, States, Dues, PC
  <2> QED
    BY <2>4 DEF Promise!Next
<1>5. ASSUME NEW r \in Requests, NEW f \in pending[r], DeployOne(r, f)
      PROVE  Goal
  <2>1. pc[r] = "deploy" /\ UNCHANGED <<pc, matched>>
    BY <1>5 DEF DeployOne
  <2>2. States' = States /\ Dues' = Dues
    BY <2>1, DuesStay DEF States, StateOf
  <2>3. f \in matched[r] /\ f \in Found /\ PayloadOf(r).kind = "push"
    BY DEF TypeOK
  <2>4. CASE Verifies(r, f)
    <3>1. deployed' = deployed \cup {Promise!Deployment(r, f)}
      BY <1>5, <2>4 DEF DeployOne, Promise!Deployment
    <3>2. f \notin DeployedBy(r)
      BY <2>1, <2>3 DEF HandlerInv, LoopRight
    <3>3. Promise!Deployment(r, f) \notin deployed
      BY <2>3, <3>2, StartedFor
    <3>4. StateOf(r) = "open"
      BY <2>1 DEF StateOf
    <3>5. Promise!Start(r, f)
      BY <2>2, <3>1, <3>3, <3>4 DEF Promise!Start, States, Dues
    <3>6. f \in Due(r)
      BY <2>3, <2>4 DEF Due, LoopOver
    <3> QED
      BY <3>5, <3>6 DEF Promise!Next
  <2>5. CASE ~Verifies(r, f)
    BY <1>5, <2>2, <2>5 DEF DeployOne
  <2> QED
    BY <2>4, <2>5
<1>6. CASE Dashboard \/ UNCHANGED vars
  <2>1. UNCHANGED <<pc, matched, deployed>>
    BY <1>6 DEF Dashboard, DeleteProject, SaveProject, ClearEvents, Edit, handlerVars, vars
  <2>2. States' = States
    BY <2>1 DEF States, StateOf
  <2> QED
    BY <2>1, <2>2, DuesStay
<1>7. CASE Crash
  <2>1. /\ UNCHANGED <<matched, deployed>>
        /\ \A r \in Requests :
             pc'[r] = IF pc[r] \in {"deploy", "record"} THEN "lost" ELSE pc[r]
    BY <1>7 DEF Crash
  <2>2. \A r \in Requests :
          StateOf(r)' = IF StateOf(r) = "open" THEN "abandoned" ELSE StateOf(r)
    <3> TAKE r \in Requests
    <3>1. CASE pc[r] \in {"deploy", "record"}
      BY <2>1, <3>1 DEF StateOf
    <3>2. CASE pc[r] \in {"idle", "ok", "rejected", "lost"}
      BY <2>1, <3>2 DEF StateOf
    <3> QED
      BY <3>1, <3>2 DEF TypeOK, PC
  <2>3. Promise!Abandon
    BY <2>1, <2>2, DuesStay DEF Promise!Abandon, States, Dues
  <2> QED
    BY <2>3 DEF Promise!Next
<1> QED
  BY <1>1, <1>2, <1>3, <1>4, <1>5, <1>6, <1>7 DEF Next, Serve

\* For any requests, edits, failures and deaths of the server: what a request is
\* to start is settled when it is let in, each of it is started once, an answer
\* comes after all of it, and an abandoned request starts nothing more.
THEOREM KeepsPromise == Spec => DeliverySpec
BY HandlerAlways, PromiseFirst, PromiseNext, PTL DEF Spec, DeliverySpec, Promise!Spec
=============================================================================
