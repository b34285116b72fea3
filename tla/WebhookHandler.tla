--------------------------- MODULE WebhookHandler ---------------------------
(***************************************************************************)
(* The webhook endpoint (internal/webhook/handler.go) on top of the        *)
(* project store, the event store and the runner.                          *)
(*                                                                         *)
(* A request carries one delivery; GitHub may send a delivery again, and   *)
(* requests are served concurrently with each other and with the edits of  *)
(* the dashboard.  A request reads the projects once, checks the           *)
(* signature, starts one deployment after the other from what it read, and *)
(* records the delivery at the end.                                        *)
(***************************************************************************)
EXTENDS ProjectStore, EventStore

CONSTANTS
  Requests,
  DeliveryOf,    \* the delivery a request carries
  Payload,       \* what a delivery says
  SystemSecret,  \* GITHUB_WEBHOOK_SECRET, or NoSecret when it is not set
  Migrated,      \* the projects in the table at the start
  SaveRequests,  \* contents of the forms that are saved
  MaxEdits,      \* bound: edits of the projects and clearings of the events
  MaxFaults,     \* bound: statements that fail
  MaxCrashes     \* bound: deaths of the server

Push == [repo: Repositories, branch: Branches, key: Secrets, kind: {"push"}]
\* Other events name no branch; a body that is no JSON names nothing at all.
Other == [repo: Repositories, key: Secrets, kind: {"other"}]
Garbled == [repo: {<<>>}, key: Secrets, kind: {"garbled"}]

ASSUME HandlerAssumption ==
  /\ DeliveryOf \in [Requests -> Deliveries]
  /\ Payload \in [Deliveries -> Push \cup Other \cup Garbled]
  /\ SystemSecret \in Secrets \cup {NoSecret}
  /\ Migrated \in [ProjectIds -> Config \cup {NoProject}]
  /\ SaveRequests \subseteq Config
  /\ MaxEdits \in Nat
  /\ MaxFaults \in Nat
  /\ MaxCrashes \in Nat

VARIABLES
  pc,        \* control point of a request
  at,        \* when it was received
  matched,   \* the projects it found, as they were then
  pending,   \* those of them the loop has not reached
  deployed,  \* calls of TriggerDeployment
  off,       \* since when a project is disabled or deleted, or 0
  clock, edits, faults, crashes

handlerVars == <<pc, at, matched, pending, deployed>>
vars == <<projects, events, handlerVars, off, clock, edits, faults, crashes>>

PayloadOf(r) == Payload[DeliveryOf[r]]

Found == [id: ProjectIds, config: Config]
PC == {"idle", "deploy", "record", "ok", "rejected", "lost"}

TypeOK ==
  /\ ProjectsTypeOK
  /\ EventsTypeOK
  /\ pc \in [Requests -> PC]
  /\ at \in [Requests -> Nat]
  /\ matched \in [Requests -> SUBSET Found]
  /\ pending \in [Requests -> SUBSET Found]
  /\ \A r \in Requests : pending[r] \subseteq matched[r]
  /\ \A r \in Requests : pending[r] # {} => PayloadOf(r).kind = "push"
  /\ deployed \in SUBSET [request: Requests, project: Found]
  /\ off \in [ProjectIds -> Nat]
  /\ clock \in Nat
  /\ edits \in 0..MaxEdits
  /\ faults \in 0..MaxFaults
  /\ crashes \in 0..MaxCrashes

Init ==
  /\ projects = Migrated
  /\ events = <<>>
  /\ pc = [r \in Requests |-> "idle"]
  /\ at = [r \in Requests |-> 0]
  /\ matched = [r \in Requests |-> {}]
  /\ pending = [r \in Requests |-> {}]
  /\ deployed = {}
  /\ off = [id \in ProjectIds |-> 0]
  /\ clock = 1
  /\ edits = 0
  /\ faults = 0
  /\ crashes = 0

Tick == clock' = clock + 1
Fault == faults < MaxFaults /\ faults' = faults + 1
GoTo(r, to) == pc' = [pc EXCEPT ![r] = to]

-----------------------------------------------------------------------------
(* One request.                                                            *)

secretToUse(config) ==
  IF config.secret # NoSecret THEN config.secret ELSE SystemSecret
verifySignature(secret, key) == secret # NoSecret /\ secret = key

Verifies(r, f) == verifySignature(secretToUse(f.config), PayloadOf(r).key)

\* A push must name the branch; any other event concerns every project of the
\* repository; a push whose body cannot be parsed concerns none.
MatchingIds(r) ==
  LET m == PayloadOf(r) IN
  CASE m.kind = "push"    -> FindByRepoAndBranch(m.repo, m.branch)
    [] m.kind = "other"   -> FindByRepo(m.repo)
    [] m.kind = "garbled" -> {}

Snapshot(ids) == {[id |-> id, config |-> projects[id]] : id \in ids}

\* The key of one matching project is enough to be let in; when none matches
\* it must be the system's.
Accepted(r, found) ==
  IF found # {}
  THEN \E f \in found : Verifies(r, f)
  ELSE verifySignature(SystemSecret, PayloadOf(r).key)

\* Only a push starts deployments.  With a bug: every event does.
LoopOverAlways(r, found) == found
LoopOver(r, found) == IF PayloadOf(r).kind = "push" THEN found ELSE {}

\* No header, no body, no POST.
Malformed(r) ==
  /\ pc[r] = "idle"
  /\ GoTo(r, "rejected")
  /\ UNCHANGED <<projects, events, at, matched, pending, deployed, off, clock,
                 edits, faults, crashes>>

\* The projects are read once; when that fails there are none.
Receive(r) ==
  /\ pc[r] = "idle"
  /\ at' = [at EXCEPT ![r] = clock]
  /\ Tick
  /\ \E ids \in {MatchingIds(r), {}} :
       LET found == Snapshot(ids) IN
       /\ IF ids = MatchingIds(r) THEN UNCHANGED faults ELSE Fault
       /\ matched' = [matched EXCEPT ![r] = found]
       /\ pending' = [pending EXCEPT ![r] = LoopOver(r, found)]
       /\ GoTo(r, IF ~Accepted(r, found) THEN "rejected"
                  ELSE IF PayloadOf(r).kind = "push" THEN "deploy" ELSE "record")
  /\ UNCHANGED <<projects, events, deployed, off, edits, crashes>>

\* One turn of the loop: a project the key is not for is passed over.
\* With bugs: it is deployed as well; it ends the loop.
DeployOneAnyKey(r, f) ==
  /\ pc[r] = "deploy"
  /\ pending' = [pending EXCEPT ![r] = @ \ {f}]
  /\ deployed' = deployed \cup {[request |-> r, project |-> f]}
  /\ UNCHANGED <<projects, events, pc, at, matched, off, clock, edits, faults,
                 crashes>>
DeployOneOrBreak(r, f) ==
  /\ pc[r] = "deploy"
  /\ pending' = [pending EXCEPT ![r] = IF Verifies(r, f) THEN @ \ {f} ELSE {}]
  /\ deployed' = IF Verifies(r, f)
                 THEN deployed \cup {[request |-> r, project |-> f]} ELSE deployed
  /\ UNCHANGED <<projects, events, pc, at, matched, off, clock, edits, faults,
                 crashes>>
DeployOne(r, f) ==
  /\ pc[r] = "deploy"
  /\ pending' = [pending EXCEPT ![r] = @ \ {f}]
  /\ deployed' = IF Verifies(r, f)
                 THEN deployed \cup {[request |-> r, project |-> f]} ELSE deployed
  /\ UNCHANGED <<projects, events, pc, at, matched, off, clock, edits, faults,
                 crashes>>

\* With a bug: the answer does not wait for the loop.
LoopEndsEarly(r) ==
  /\ pc[r] = "deploy"
  /\ GoTo(r, "record")
  /\ UNCHANGED <<projects, events, at, matched, pending, deployed, off, clock,
                 edits, faults, crashes>>
LoopEnds(r) ==
  /\ pc[r] = "deploy"
  /\ pending[r] = {}
  /\ GoTo(r, "record")
  /\ UNCHANGED <<projects, events, at, matched, pending, deployed, off, clock,
                 edits, faults, crashes>>

\* The summary carries the time of the request's arrival.
Record(r) ==
  LET e == [delivery |-> DeliveryOf[r], at |-> at[r]] IN
  /\ pc[r] = "record"
  /\ GoTo(r, "ok")
  /\ \/ events' = Added(e) /\ UNCHANGED faults
     \/ Fault /\ events' \in AddedInPart(e)
  /\ UNCHANGED <<projects, at, matched, pending, deployed, off, clock, edits,
                 crashes>>

-----------------------------------------------------------------------------
(* Edits from the dashboard, and the death of the server.                  *)

Edit ==
  /\ edits < MaxEdits
  /\ edits' = edits + 1
  /\ Tick
  /\ UNCHANGED <<handlerVars, faults, crashes>>

SinceNow(id) == [off EXCEPT ![id] = IF @ = 0 THEN clock ELSE @]

SaveProject(id, req) ==
  /\ id \in Rows \/ off[id] = 0
  /\ Save(id, req)
  /\ off' = IF req.enabled THEN [off EXCEPT ![id] = 0] ELSE SinceNow(id)
  /\ UNCHANGED events
  /\ Edit

DeleteProject(id) ==
  /\ id \in Rows
  /\ Delete(id)
  /\ off' = SinceNow(id)
  /\ UNCHANGED events
  /\ Edit

ClearEvents ==
  /\ events # <<>>
  /\ Clear
  /\ UNCHANGED <<projects, off>>
  /\ Edit

\* Requests in flight get no answer; the tables survive.
Crash ==
  /\ crashes < MaxCrashes
  /\ crashes' = crashes + 1
  /\ pc' = [r \in Requests |->
              IF pc[r] \in {"deploy", "record"} THEN "lost" ELSE pc[r]]
  /\ UNCHANGED <<projects, events, at, matched, pending, deployed, off, clock,
                 edits, faults>>

Serve(r) ==
  \/ Malformed(r) \/ Receive(r) \/ LoopEnds(r) \/ Record(r)
  \/ \E f \in pending[r] : DeployOne(r, f)

Dashboard ==
  \/ \E id \in ProjectIds : DeleteProject(id) \/ \E req \in SaveRequests : SaveProject(id, req)
  \/ ClearEvents

Next == (\E r \in Requests : Serve(r)) \/ Dashboard \/ Crash

Spec == Init /\ [][Next]_vars

-----------------------------------------------------------------------------

DeployedBy(r) == {d.project : d \in {d \in deployed : d.request = r}}

\* A delivery deploys a project only for a push to its repository and branch
\* that is signed with the project's own secret (the system's, if it has none):
\* the key of another matching project lets the request in, and no more.
OwnSecretOnly ==
  \A d \in deployed :
    LET m == PayloadOf(d.request)
        c == d.project.config IN
    /\ m.kind = "push"
    /\ c.enabled
    /\ RepoMatch(c.repo, m.repo) /\ c.branch \in {NoBranch, m.branch}
    /\ m.key = (IF c.secret = NoSecret THEN SystemSecret ELSE c.secret)

\* A push that was answered has started exactly one deployment for each project
\* it found and its key is for, whatever became of the projects meanwhile.
AnsweredIsDeployed ==
  \A r \in Requests : pc[r] \in {"record", "ok"} /\ PayloadOf(r).kind = "push" =>
    DeployedBy(r) = {f \in matched[r] : Verifies(r, f)}

\* Disabling or deleting a project holds for every delivery that arrives later,
\* though a request that is already being served may still deploy it.
DisabledStaysQuiet ==
  \A d \in deployed : off[d.project.id] # 0 => at[d.request] < off[d.project.id]

\* The table keeps its bound through redeliveries and failing clean-ups (each
\* leaves one row too many), with one row per delivery, and every row belongs
\* to a request that was served to its end.
EventsAccountable ==
  /\ Len(events) <= MaxStoredEvents + faults
  /\ \A i, k \in 1..Len(events) :
       events[i].delivery = events[k].delivery => i = k
  /\ \A i \in 1..Len(events) : \E r \in Requests :
       /\ pc[r] = "ok"
       /\ events[i] = [delivery |-> DeliveryOf[r], at |-> at[r]]

\* An answered delivery is on record, and the record makes room for it only at
\* its old end.  (After a failed clean-up a redelivery may itself be at that
\* end, and go.)
OldestOut ==
  [][\A r \in Requests : pc[r] = "record" /\ pc'[r] = "ok" /\ faults' = 0 =>
       /\ DeliveryOf[r] \in Recorded(events')
       /\ \A i, k \in 1..Len(events) :
            i < k /\ events[i].delivery \in Recorded(events') =>
              events[k].delivery \in Recorded(events')]_vars

-----------------------------------------------------------------------------
(* The requests, without the projects they read and the events they leave. *)

StateOf(r) ==
  CASE pc[r] = "idle"                -> "new"
    [] pc[r] \in {"deploy", "record"} -> "open"
    [] pc[r] = "rejected"            -> "refused"
    [] pc[r] = "ok"                  -> "answered"
    [] pc[r] = "lost"                -> "abandoned"

\* What a request is to start: settled when it has read the projects.
Due(r) == {f \in LoopOver(r, matched[r]) : Verifies(r, f)}

Promise == INSTANCE Delivery WITH
  Targets <- Found,
  state   <- [r \in Requests |-> StateOf(r)],
  due     <- [r \in Requests |-> Due(r)],
  started <- deployed

\* The handler keeps the promise of Delivery, whatever fails, whoever edits the
\* projects meanwhile and whenever the server dies.
DeliverySpec == Promise!Spec
=============================================================================
