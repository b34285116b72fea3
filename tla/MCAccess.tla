------------------------------ MODULE MCAccess ------------------------------
(* An instance of AccessControl for TLC.                                   *)
EXTENDS AccessControl, TLC

CONSTANTS itrigger, dev, ann, p1, p2, t1, t2, t3

OnP1(level) == (p1 :> level) @@ (p2 :> "none")

\* The default administrator and a developer with one project are logged in.
SomeUsers ==
  (itrigger :> [admin |-> TRUE, create |-> TRUE])
  @@ (dev :> [admin |-> FALSE, create |-> TRUE]) @@ (ann :> NoUser)
SomeRights == (itrigger :> NoRights) @@ (dev :> OnP1("write")) @@ (ann :> NoRights)
SomeSessions == (t1 :> itrigger) @@ (t2 :> dev) @@ (t3 :> NoName)

\* A form that takes the permission away, one that gives it to an account that
\* creates nothing, and one that makes an administrator.
Bare   == [account |-> [admin |-> FALSE, create |-> TRUE], grants |-> NoRights]
Reader == [account |-> [admin |-> FALSE, create |-> FALSE], grants |-> OnP1("read")]
Chief  == [account |-> [admin |-> TRUE, create |-> TRUE], grants |-> OnP1("write")]

SomeCalls ==
  {[kind |-> "login", name |-> ann], [kind |-> "logout"], [kind |-> "create"],
   [kind |-> "edit", project |-> p1], [kind |-> "remove", project |-> p1],
   [kind |-> "remove", project |-> p2], [kind |-> "deploy", project |-> p1],
   [kind |-> "read", project |-> p1], [kind |-> "list"],
   [kind |-> "adduser", name |-> ann, form |-> Reader],
   [kind |-> "update", name |-> dev, to |-> dev, form |-> Bare],
   [kind |-> "update", name |-> dev, to |-> ann, form |-> Reader],
   [kind |-> "update", name |-> dev, to |-> dev, form |-> Chief],
   [kind |-> "deluser", name |-> dev], [kind |-> "settings", to |-> ann]}

Interchangeable == Permutations(Requests)
=============================================================================
