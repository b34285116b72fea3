----------------------------- MODULE MCWebhook ------------------------------
(* An instance of WebhookHandler for TLC.                                  *)
EXTENDS WebhookHandler, TLC

CONSTANTS p1, p2, own, repo, main, dev, k1, k2, d1, d2, d3, r1, r2, r3, r4

OwnRepo == <<own, repo>>

\* Two projects of one repository: the first has its own secret, the second
\* falls back to the system's and, being migrated, has no branch.
TwoProjects ==
  (p1 :> [repo |-> OwnRepo, branch |-> main, secret |-> k1, enabled |-> TRUE]) @@
  (p2 :> [repo |-> <<repo>>, branch |-> NoBranch, secret |-> NoSecret, enabled |-> TRUE])

\* A form that disables a project and leaves the branch out, and one that leaves
\* the owner out and names another branch.
Forms ==
  {[repo |-> OwnRepo, branch |-> NoBranch, secret |-> k2, enabled |-> FALSE],
   [repo |-> <<repo>>, branch |-> dev, secret |-> k2, enabled |-> TRUE]}

\* A push sent twice, an event of another kind, and a push that is no JSON.
Redelivered == (r1 :> d1) @@ (r2 :> d1) @@ (r3 :> d2) @@ (r4 :> d3)

\* The two requests with the same delivery are interchangeable.
Redeliveries == Permutations({r1, r2})

SomePayloads ==
  (d1 :> [kind |-> "push", repo |-> OwnRepo, branch |-> main, key |-> k2]) @@
  (d2 :> [kind |-> "other", repo |-> OwnRepo, key |-> k1]) @@
  (d3 :> [kind |-> "garbled", repo |-> <<>>, key |-> k2])
=============================================================================
