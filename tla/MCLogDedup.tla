----------------------------- MODULE MCLogDedup -----------------------------
(***************************************************************************)
(* Instances of LogDedup for TLC.                                          *)
(***************************************************************************)
EXTENDS LogDedup

CONSTANTS app, e1, e2

(* The fingerprints the clock of the run can bring about.                  *)
Fingerprints == [error: Errors, ts: -1..MaxClock]
LastDay == MaxClock \div DayLength
=============================================================================
