----------------------------- MODULE MCSentinel -----------------------------
(***************************************************************************)
(* Instances of Sentinel for TLC.                                          *)
(***************************************************************************)
EXTENDS Sentinel, TLC

CONSTANTS p1, p2, w1, w2, api, web, e1, e2

(* Two entries of "applications" with the same name.                       *)
SameApp == p1 :> api @@ p2 :> api
OneApp == p1 :> api

(* Two goroutines of one worker; a worker for each application.            *)
SameWorker == w1 :> api @@ w2 :> api
OneWorker == w1 :> api
TwoWorkers == w1 :> api @@ w2 :> web

NothingForeign == <<>>
Foreign(app, body) == [tid |-> 0, app |-> app, body |-> body,
                       state |-> "visible", holder |-> NoWorker]
OnlyMalformed == <<Foreign(api, "malformed")>>

GoroutineSymmetry == Permutations(Pollers) \cup Permutations(Workers)
=============================================================================
