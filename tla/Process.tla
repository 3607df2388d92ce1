------------------------------ MODULE Process ------------------------------
(***************************************************************************)
(* The running sentinel process (cmd/sentinel/main.go): the context that   *)
(* every goroutine checks, the two pause flags the TUI toggles, and the    *)
(* kinds of failure that the calls leaving the process may suffer.         *)
(***************************************************************************)
EXTENDS Naturals

CONSTANTS
    Faults,       \* the kinds of failure the environment may produce
    Controls,     \* the pause flags the user may toggle
    MaxRestarts   \* bound: how often the process is stopped and started again

FaultKinds == {"db",        \* a status write to SQLite returns an error
               "publish",   \* SendMessage fails and the queue has no message
               "accepted",  \* the queue has the message, Publish returns an error
               "action",    \* a webhook or cli_agent action returns an error
               "api",       \* DeleteMessage or ChangeMessageVisibility fails
               "overrun"}   \* the visibility timeout ends while a worker is at work

PauseFlags == {"pollers", "workers"}

ASSUME ProcessAssumption ==
    /\ Faults \subseteq FaultKinds
    /\ Controls \subseteq PauseFlags
    /\ MaxRestarts \in Nat

VARIABLES
    ctxDone,   \* the context of signal.NotifyContext is cancelled
    paused,    \* the flags of PauseFlags that are set
    restarts   \* how often the process was started again

processVars == <<ctxDone, paused, restarts>>

ProcessTypeOK ==
    /\ ctxDone \in BOOLEAN
    /\ paused \subseteq PauseFlags
    /\ restarts \in 0..MaxRestarts

ProcessInit ==
    /\ ctxDone = FALSE
    /\ paused = {}
    /\ restarts = 0

(***************************************************************************)
(* A call may fail in one of the ways the environment allows and, whatever *)
(* the environment, once its context is cancelled.  A call that is started *)
(* with a cancelled context has no effect.                                 *)
(***************************************************************************)
MayFail(kind) == kind \in Faults \/ ctxDone
CallEnds(kind, ok) == IF ok THEN ~ctxDone ELSE MayFail(kind)

(* Keys p and w of the TUI flip a flag; what is running does not notice.   *)
TogglePause(flag) ==
    /\ flag \in Controls
    /\ paused' = IF flag \in paused THEN paused \ {flag} ELSE paused \cup {flag}
    /\ UNCHANGED <<ctxDone, restarts>>

(***************************************************************************)
(* q, ctrl+c or SIGTERM.  main returns without waiting for the goroutines, *)
(* which may or may not see the cancelled context before the process ends. *)
(* Bound: the process is only stopped when it may be started again.        *)
(***************************************************************************)
CancelContext ==
    /\ ~ctxDone
    /\ restarts < MaxRestarts
    /\ ctxDone' = TRUE
    /\ UNCHANGED <<paused, restarts>>

(* The process ends, by main returning or by a crash, and starts again.    *)
RestartProcess ==
    /\ restarts < MaxRestarts
    /\ restarts' = restarts + 1
    /\ ctxDone' = FALSE
    /\ paused' = {}
=============================================================================
