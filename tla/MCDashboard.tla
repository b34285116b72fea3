----------------------------- MODULE MCDashboard -----------------------------
(* An instance of Dashboard for TLC.                                       *)
EXTENDS Dashboard, TLC

CONSTANTS d1, d2, p1, p2

OneEach == (d1 :> p1) @@ (d2 :> p2)

\* A deployment that has failed when the page is loaded, and one that is to come.
FailedAndNone == (d1 :> "FAILED") @@ (d2 :> "none")

\* The same with one that has ended for good, which takes fewer moves.
OverAndNone == (d1 :> "over") @@ (d2 :> "none")

Interchangeable == Permutations(Slots)
=============================================================================
