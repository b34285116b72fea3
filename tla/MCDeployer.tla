----------------------------- MODULE MCDeployer -----------------------------
(* Instances of Deployer for TLC.                                          *)
EXTENDS Deployer, TLC

CONSTANTS j1, j2, c1, s1, s2

\* Two deployments of different commits, or of one commit and of "HEAD".
DistinctCommits == (j1 :> c1) @@ (j2 :> j2)

\* A redelivered push, or two projects of one repository and branch: both
\* deployments carry the same commit and get the same identifier.
SameCommit == (j1 :> c1) @@ (j2 :> c1)
=============================================================================
