--------------------------- MODULE MCWorkerClock ---------------------------
(***************************************************************************)
(* Instances of WorkerClock for TLC.  One unit is 10 s, rounded up.        *)
(***************************************************************************)
EXTENDS WorkerClock, TLC

CONSTANTS g1, g2, m1

(* The webhook without a timeout and the agent of README.md.               *)
Readme == <<[kind |-> "webhook", timeout |-> 0], [kind |-> "cli_agent", timeout |-> 12]>>
ReadmeLongest == 0 :> 18 @@ 1 :> 12 @@ 2 :> 0

(* Two agents of three minutes each.                                       *)
Slow == <<[kind |-> "cli_agent", timeout |-> 18], [kind |-> "cli_agent", timeout |-> 18]>>
SlowLongest == 0 :> 36 @@ 1 :> 18 @@ 2 :> 0

Symmetry == Permutations(Goroutines)
=============================================================================
