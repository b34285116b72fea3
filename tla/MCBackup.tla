------------------------------ MODULE MCBackup ------------------------------
(* An instance of Backup, and with it of Startup, for TLC.                 *)
EXTENDS Backup, TLC

CONSTANTS p1, p2, d1

\* One project and one deployment of the older version; another project is made
\* while the server runs.
SomeLegacy == [projects |-> {p1}, deployments |-> {d1}]

\* Both files list something, or one cannot be parsed and the other never was.
SomeFiles == {[projects |-> "json", deployments |-> "json"],
              [projects |-> "damaged", deployments |-> "absent"]}

\* The lexical order of deployments/, itrigger.db, itrigger.db-wal and keys/.
Lexical == <<"log", "db", "wal", "key">>
=============================================================================
