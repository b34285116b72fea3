------------------------------ MODULE Delivery -------------------------------
(***************************************************************************)
(* What the webhook endpoint promises about its requests, without          *)
(* signatures, loops or tables: a request is refused, or it is let in with *)
(* a set of deployments that is settled at that moment; each of them is    *)
(* started once, in any order; and the request is answered when all of     *)
(* them are.  A request that the server died under is abandoned: nothing   *)
(* is started for it any more, and it is never answered.                   *)
(***************************************************************************)
CONSTANTS
  Requests,
  Targets     \* what may be deployed

VARIABLES
  state,      \* of each request
  due,        \* the targets it was let in for
  started     \* the deployments

deliveryVars == <<state, due, started>>

Init ==
  /\ state = [r \in Requests |-> "new"]
  /\ due = [r \in Requests |-> {}]
  /\ started = {}

Refuse(r) ==
  /\ state[r] = "new"
  /\ state' = [state EXCEPT ![r] = "refused"]
  /\ UNCHANGED <<due, started>>

\* Any set of targets.
Admit(r) ==
  /\ state[r] = "new"
  /\ state' = [state EXCEPT ![r] = "open"]
  /\ due' \in [Requests -> SUBSET Targets]
  /\ \A q \in Requests \ {r} : due'[q] = due[q]
  /\ UNCHANGED started

Deployment(r, f) == [request |-> r, project |-> f]

Start(r, f) ==
  /\ state[r] = "open"
  /\ Deployment(r, f) \notin started
  /\ started' = started \cup {Deployment(r, f)}
  /\ UNCHANGED <<state, due>>

Answer(r) ==
  /\ state[r] = "open"
  /\ \A f \in due[r] : Deployment(r, f) \in started
  /\ state' = [state EXCEPT ![r] = "answered"]
  /\ UNCHANGED <<due, started>>

Abandon ==
  /\ state' = [r \in Requests |-> IF state[r] = "open" THEN "abandoned" ELSE state[r]]
  /\ UNCHANGED <<due, started>>

Next ==
  \/ \E r \in Requests :
       \/ Refuse(r) \/ Admit(r) \/ Answer(r)
       \/ \E f \in due[r] : Start(r, f)
  \/ Abandon

Spec == Init /\ [][Next]_deliveryVars
=============================================================================
