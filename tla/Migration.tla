------------------------------ MODULE Migration ------------------------------
(***************************************************************************)
(* What the start of the server promises about the files of an older       *)
(* version, without transactions, loops or crashes: what a file lists is   *)
(* installed as one step, with the logs of its deployments written before; *)
(* the file is put aside after that; and nobody edits the tables before    *)
(* the last file is away.                                                  *)
(*                                                                         *)
(* The promise is as weak as the code: until a file is put aside it may be *)
(* installed again, over what it has installed before.                     *)
(***************************************************************************)
CONSTANTS
  Projects, Deployments, \* ids of the rows of two tables
  Parts,                 \* the files
  Legacy,                \* the ids each file lists
  Row, NoRow,            \* what a table may say of an id
  LegacyRow              \* what it says of an id that was installed

VARIABLES
  table,      \* the tables
  saved,      \* the deployments with their log on disk
  waiting     \* the files that are still to be migrated

migrationVars == <<table, saved, waiting>>

\* The tables with the rows of a file put in.
With(f) ==
  [i \in Projects \cup Deployments |-> IF i \in Legacy[f] THEN LegacyRow ELSE table[i]]

Init ==
  /\ table = [i \in Projects \cup Deployments |-> NoRow]
  /\ saved = {}
  /\ waiting \in SUBSET Parts

WriteLog(f, d) ==
  /\ d \in Legacy[f] \cap Deployments
  /\ saved' = saved \cup {d}
  /\ UNCHANGED <<table, waiting>>

Install(f) ==
  /\ Legacy[f] \cap Deployments \subseteq saved
  /\ table' = With(f)
  /\ UNCHANGED <<saved, waiting>>

PutAside(f) ==
  /\ Legacy[f] \cap Deployments \subseteq saved
  /\ table = With(f)
  /\ waiting' = waiting \ {f}
  /\ UNCHANGED <<table, saved>>

Edit(p) ==
  /\ waiting = {}
  /\ \E row \in Row \cup {NoRow} : table' = [table EXCEPT ![p] = row]
  /\ UNCHANGED <<saved, waiting>>

Next ==
  \/ \E f \in waiting : Install(f) \/ PutAside(f) \/ \E d \in Deployments : WriteLog(f, d)
  \/ \E p \in Projects : Edit(p)

Spec == Init /\ [][Next]_migrationVars
=============================================================================
