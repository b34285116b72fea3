-------------------------- MODULE DeploymentRecord --------------------------
(***************************************************************************)
(* What the deployment history promises about one identifier, without      *)
(* goroutines, registry or processes: a record is opened as RUNNING once,  *)
(* gets one result at most, and goes without one only if it says STOPPED   *)
(* or the server dies; it may be marked STOPPED at any time after it was   *)
(* opened, and once a stop has been acknowledged it stays STOPPED.         *)
(*                                                                         *)
(* The promise is deliberately as weak as the code: a stop may still mark  *)
(* a record that has its result, a result may still replace a STOPPED that *)
(* nobody has acknowledged, and what was open when the server died stays   *)
(* as it is (see the README).                                              *)
(***************************************************************************)
CONSTANTS Ids

VARIABLES
  status,    \* status of the record of each deployment
  open,      \* deployments whose result is still to come
  acked      \* deployments of which a stop was acknowledged

recordVars == <<status, open, acked>>

Results == {"SUCCESS", "FAILED", "SKIPPED"}

Init ==
  /\ status = [i \in Ids |-> "none"]
  /\ open = {}
  /\ acked = {}

Open(i) ==
  /\ status[i] = "none"
  /\ status' = [status EXCEPT ![i] = "RUNNING"]
  /\ open' = open \cup {i}
  /\ UNCHANGED acked

Resolve(i) ==
  /\ i \in open \ acked
  /\ open' = open \ {i}
  /\ \E r \in Results : status' = [status EXCEPT ![i] = r]
  /\ UNCHANGED acked

\* The deployment was stopped, and its result is not wanted any more.
Forgo(i) ==
  /\ i \in open
  /\ status[i] = "STOPPED"
  /\ open' = open \ {i}
  /\ UNCHANGED <<status, acked>>

MarkStopped(i) ==
  /\ status[i] # "none"
  /\ status' = [status EXCEPT ![i] = "STOPPED"]
  /\ UNCHANGED <<open, acked>>

Acknowledge(i) ==
  /\ status[i] = "STOPPED"
  /\ acked' = acked \cup {i}
  /\ UNCHANGED <<status, open>>

\* No result will come of what was open.
Die ==
  /\ open' = {}
  /\ UNCHANGED <<status, acked>>

Next ==
  \/ \E i \in Ids : Open(i) \/ Resolve(i) \/ Forgo(i) \/ MarkStopped(i) \/ Acknowledge(i)
  \/ Die

Spec == Init /\ [][Next]_recordVars
=============================================================================
