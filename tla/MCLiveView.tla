----------------------------- MODULE MCLiveView -----------------------------
(***************************************************************************)
(* Instances of LiveView for TLC.                                          *)
(***************************************************************************)
EXTENDS LiveView, TLC

CONSTANTS p1, p2, w1, api, e1

OneApp == p1 :> api
SameApp == p1 :> api @@ p2 :> api   \* two entries of "applications" with one name
OneWorker == w1 :> api
NothingForeign == <<>>
Order == <<api>>
SameSeverity == [line \in Lines |-> "HIGH"]
PollerSymmetry == Permutations(Pollers)
=============================================================================
