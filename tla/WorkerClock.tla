---------------------------- MODULE WorkerClock ----------------------------
(***************************************************************************)
(* The goroutines of one application's worker (internal/worker/worker.go)  *)
(* and its actions (internal/worker/action.go) in time: the long poll, the *)
(* visibility timeout, the timeouts of the actions, the child processes    *)
(* they start and what is left of those when the program stops.  Module    *)
(* Worker has the same goroutines without a clock, with the rows and with  *)
(* messages that are malformed or another worker's, all of which are left  *)
(* out here.                                                               *)
(*                                                                         *)
(* Time is counted down: each wait holds the time it may still take, and   *)
(* Tick, the passing of one unit, must wait for what is due.               *)
(***************************************************************************)
EXTENDS Naturals, Sequences

CONSTANTS
    Goroutines,    \* the goroutines of Worker.Run
    Messages,      \* the messages about tickets of the application
    NoMessage,     \* what a goroutine has between two messages
    Actions,       \* the actions of the worker: their kinds and timeouts
    Longest,       \* the longest that the actions after the k-th may take
    DefaultTimeout, LongPoll, Visibility, RetryDelay, ErrorPause, Nap,
    CallTime,      \* the longest a call of the queue or the store takes
    MaxStops       \* bound: how often the process is stopped

NActions == Len(Actions)

(* BuildAction: no timeout stands for 60 s.                                *)
Timeout(k) == IF Actions[k].timeout = 0 THEN DefaultTimeout ELSE Actions[k].timeout

ASSUME ClockAssumption ==
    /\ NoMessage \notin Messages
    /\ Actions \in Seq([kind: {"webhook", "cli_agent"}, timeout: Nat])
    /\ {DefaultTimeout, LongPoll, Visibility, RetryDelay, ErrorPause, Nap} \subseteq Nat \ {0}
    /\ RetryDelay <= Visibility
    /\ CallTime \in Nat
    /\ MaxStops \in Nat
    /\ Longest \in [0..NActions -> Nat]
    /\ Longest[NActions] = 0
    /\ \A k \in 1..NActions : Longest[k - 1] = Timeout(k) + Longest[k]

VARIABLES
    worker,     \* where each goroutine is, its message, action and time left
    hidden,     \* the rest of the visibility timeout of each message
    deleted,
    paused,
    pausedFor,  \* history: the time since the pause, up to LongPoll + 1
    orphans,    \* external: processes of actions whose worker was stopped
    overlong,   \* history: messages a process of which outlived its timeout
    rested,     \* history: the time since the last receipt, up to RetryDelay
    stops

vars == <<worker, hidden, deleted, paused, pausedFor, orphans, overlong, rested, stops>>
queueVars == <<hidden, deleted>>
userVars == <<paused, pausedFor>>
otherVars == <<orphans, overlong, stops>>

Steps == {"head", "napping", "polling", "sleeping", "received", "acting", "running",
          "leftOK", "leftFailed", "failing", "acking", "down"}

At(g, step) == worker[g].at = step
Busy(g) == worker[g].at \in {"received", "acting", "running", "leftOK", "leftFailed",
                             "failing", "acking"}
Msg(g) == worker[g].msg
Lingers(g) == worker[g].at \in {"leftOK", "leftFailed"}

Alone(step, time) == [at |-> step, msg |-> NoMessage, k |-> 0, left |-> time]
Process == [msg: Messages, left: Nat]

ClockTypeOK ==
    /\ worker \in [Goroutines -> [at: Steps, msg: Messages \cup {NoMessage}, k: 0..NActions, left: Nat]]
    /\ hidden \in [Messages -> 0..Visibility]
    /\ deleted \subseteq Messages
    /\ paused \in BOOLEAN /\ pausedFor \in 0..(LongPoll + 1)
    /\ orphans \subseteq Process
    /\ overlong \subseteq Messages
    /\ rested \in [Messages -> 0..RetryDelay]
    /\ stops \in 0..MaxStops

Init ==
    /\ worker = [g \in Goroutines |-> Alone("head", 0)]
    /\ hidden = [m \in Messages |-> 0]
    /\ deleted = {}
    /\ paused = FALSE /\ pausedFor = 0
    /\ orphans = {} /\ overlong = {}
    /\ rested = [m \in Messages |-> RetryDelay]
    /\ stops = 0

Wait(g, step, time) == worker' = [worker EXCEPT ![g] = Alone(step, time)]
Go(g, step, time) == worker' = [worker EXCEPT ![g] = [@ EXCEPT !.at = step, !.left = time]]

-----------------------------------------------------------------------------
(* The head of loop.                                                       *)
BeginReceive(g) ==
    /\ At(g, "head")
    /\ ~paused
    /\ Wait(g, "polling", LongPoll)
    /\ UNCHANGED <<queueVars, userVars, otherVars, rested>>

NapWhilePaused(g) ==
    /\ At(g, "head")
    /\ paused
    /\ Wait(g, "napping", Nap)
    /\ UNCHANGED <<queueVars, userVars, otherVars, rested>>

(* Mutant: after the pause of an error the worker polls at once.           *)
WakeToPoll(g) ==
    /\ At(g, "napping") \/ At(g, "sleeping")
    /\ worker[g].left = 0
    /\ IF At(g, "sleeping") THEN Wait(g, "polling", LongPoll) ELSE Wait(g, "head", 0)
    /\ UNCHANGED <<queueVars, userVars, otherVars, rested>>

Wake(g) ==
    /\ At(g, "napping") \/ At(g, "sleeping")
    /\ worker[g].left = 0
    /\ Wait(g, "head", 0)
    /\ UNCHANGED <<queueVars, userVars, otherVars, rested>>

Visible(m) == hidden[m] = 0 /\ m \notin deleted
Hide(m) ==
    /\ hidden' = [hidden EXCEPT ![m] = Visibility]
    /\ rested' = [rested EXCEPT ![m] = 0]
    /\ UNCHANGED deleted

(* The queue hides the message when it answers; the answer, and the status *)
(* write after it, take up to CallTime each.                               *)
Receive(g, m) ==
    /\ At(g, "polling")
    /\ Visible(m)
    /\ Hide(m)
    /\ worker' = [worker EXCEPT ![g] = [at |-> "received", msg |-> m, k |-> 0, left |-> 2 * CallTime]]
    /\ UNCHANGED <<userVars, otherVars>>

ReceiveNothing(g) ==
    /\ At(g, "polling")
    /\ worker[g].left = 0
    /\ Wait(g, "head", 0)
    /\ UNCHANGED <<queueVars, userVars, otherVars, rested>>

(* An error, with or without a message that the queue now hides.           *)
ReceiveFails(g) ==
    /\ At(g, "polling")
    /\ Wait(g, "sleeping", ErrorPause)
    /\ \/ UNCHANGED <<queueVars, rested>>
       \/ \E m \in Messages : Visible(m) /\ Hide(m)
    /\ UNCHANGED <<userVars, otherVars>>

-----------------------------------------------------------------------------
(* process and the two Run methods.                                        *)
BeginWork(g) ==
    /\ At(g, "received")
    /\ Go(g, "acting", 0)
    /\ UNCHANGED <<queueVars, userVars, otherVars, rested>>

(* Mutant: the context has no deadline of its own but the message's.       *)
StartActionUnlimited(g) ==
    /\ At(g, "acting")
    /\ worker[g].k < NActions
    /\ worker' = [worker EXCEPT ![g] = [@ EXCEPT !.at = "running", !.k = @ + 1, !.left = Visibility]]
    /\ UNCHANGED <<queueVars, userVars, otherVars, rested>>

StartAction(g) ==
    /\ At(g, "acting")
    /\ worker[g].k < NActions
    /\ LET k == worker[g].k + 1
       IN  worker' = [worker EXCEPT ![g] = [@ EXCEPT !.at = "running", !.k = k, !.left = Timeout(k)]]
    /\ UNCHANGED <<queueVars, userVars, otherVars, rested>>

IsAgent(g) == Actions[worker[g].k].kind = "cli_agent"

(* The answer of the webhook is 2xx, or the agent exits with 0.            *)
ActionSucceeds(g) ==
    /\ At(g, "running")
    /\ Go(g, "acting", 0)
    /\ UNCHANGED <<queueVars, userVars, otherVars, rested>>

(* Any other answer, an error, or the deadline: the agent is killed.  What *)
(* is left is the status write and the change of the visibility.           *)
ActionFails(g) ==
    /\ At(g, "running")
    /\ Go(g, "failing", 2 * CallTime)
    /\ UNCHANGED <<queueVars, userVars, otherVars, rested>>

(* The agent exits or is killed while a process it started holds its       *)
(* output: cmd.Run waits for that process, whatever the deadline.          *)
AgentLeavesProcess(g) ==
    /\ At(g, "running")
    /\ IsAgent(g)
    /\ \E outcome \in {"leftOK", "leftFailed"} : Go(g, outcome, worker[g].left)
    /\ UNCHANGED <<queueVars, userVars, otherVars, rested>>

LeftProcessExits(g) ==
    /\ Lingers(g)
    /\ IF At(g, "leftOK") THEN Go(g, "acting", 0) ELSE Go(g, "failing", 2 * CallTime)
    /\ UNCHANGED <<queueVars, userVars, otherVars, rested>>

(* Mutant: the delay is given in another unit.                             *)
BackOffInMilliseconds(g) ==
    /\ At(g, "failing")
    /\ hidden' = [hidden EXCEPT ![Msg(g)] = 1000 * RetryDelay]
    /\ Wait(g, "head", 0)
    /\ UNCHANGED <<deleted, userVars, otherVars, rested>>

(* Mutant: the message is given back at once.                              *)
BackOffNot(g) ==
    /\ At(g, "failing")
    /\ hidden' = [hidden EXCEPT ![Msg(g)] = 0]
    /\ Wait(g, "head", 0)
    /\ UNCHANGED <<deleted, userVars, otherVars, rested>>

(* changeVisibility(30).  It has no effect if the call fails, which is     *)
(* logged, if the message is visible again, or with an old receipt handle. *)
BackOff(g) ==
    /\ At(g, "failing")
    /\ \/ UNCHANGED hidden
       \/ hidden[Msg(g)] > 0 /\ hidden' = [hidden EXCEPT ![Msg(g)] = RetryDelay]
    /\ Wait(g, "head", 0)
    /\ UNCHANGED <<deleted, userVars, otherVars, rested>>

(* The status write and the deletion; that may have no effect either.      *)
MarkDone(g) ==
    /\ At(g, "acting")
    /\ worker[g].k = NActions
    /\ Go(g, "acking", 2 * CallTime)
    /\ UNCHANGED <<queueVars, userVars, otherVars, rested>>

Ack(g) ==
    /\ At(g, "acking")
    /\ deleted' \in {deleted, deleted \cup {Msg(g)}}
    /\ Wait(g, "head", 0)
    /\ UNCHANGED <<hidden, userVars, otherVars, rested>>

GoroutineStep(g) ==
    \/ BeginReceive(g) \/ NapWhilePaused(g) \/ Wake(g)
    \/ \E m \in Messages : Receive(g, m)
    \/ ReceiveNothing(g) \/ ReceiveFails(g)
    \/ BeginWork(g) \/ StartAction(g) \/ ActionSucceeds(g) \/ ActionFails(g)
    \/ AgentLeavesProcess(g) \/ LeftProcessExits(g)
    \/ BackOff(g) \/ MarkDone(g) \/ Ack(g)

-----------------------------------------------------------------------------
(* Key w.                                                                  *)
PressPause ==
    /\ \E g \in Goroutines : ~At(g, "down")
    /\ paused' = ~paused
    /\ pausedFor' = 0
    /\ UNCHANGED <<worker, queueVars, otherVars, rested>>

(* The program ends, by q or by a crash.  An agent that runs may be killed *)
(* or go on without a parent, and a process that an agent left goes on.    *)
ChildOf(g) == [msg |-> Msg(g), left |-> worker[g].left]
Stop ==
    /\ stops < MaxStops
    /\ stops' = stops + 1
    /\ worker' = [g \in Goroutines |-> Alone("down", 0)]
    /\ \E killed \in SUBSET {g \in Goroutines : At(g, "running") /\ IsAgent(g)} :
        orphans' = orphans \cup
            {ChildOf(g) : g \in {h \in Goroutines : Lingers(h) \/ (At(h, "running") /\ IsAgent(h))} \ killed}
    /\ paused' = FALSE /\ pausedFor' = 0
    /\ UNCHANGED <<queueVars, overlong, rested>>

Start ==
    /\ \A g \in Goroutines : At(g, "down")
    /\ worker' = [g \in Goroutines |-> Alone("head", 0)]
    /\ UNCHANGED <<queueVars, userVars, otherVars, rested>>

OrphanExits ==
    /\ \E o \in orphans : orphans' = orphans \ {o}
    /\ UNCHANGED <<worker, queueVars, userVars, overlong, rested, stops>>

Less(t) == IF t = 0 THEN 0 ELSE t - 1
More(t, bound) == IF t = bound THEN t ELSE t + 1

(* No one keeps a goroutine from its next step but a process left by an    *)
(* agent, and nobody limits what a process left or orphaned takes.         *)
Due(g) == worker[g].left = 0 /\ ~Lingers(g) /\ ~At(g, "down")
Tick ==
    /\ \A g \in Goroutines : ~Due(g)
    /\ worker' = [g \in Goroutines |-> [worker[g] EXCEPT !.left = Less(@)]]
    /\ hidden' = [m \in Messages |-> Less(hidden[m])]
    /\ rested' = [m \in Messages |-> More(rested[m], RetryDelay)]
    /\ pausedFor' = IF paused THEN More(pausedFor, LongPoll + 1) ELSE 0
    /\ orphans' = {[o EXCEPT !.left = Less(@)] : o \in orphans}
    /\ overlong' = overlong
        \cup {Msg(g) : g \in {h \in Goroutines : Lingers(h) /\ worker[h].left = 0}}
        \cup {o.msg : o \in {p \in orphans : p.left = 0}}
    /\ UNCHANGED <<deleted, paused, stops>>

Next ==
    \/ \E g \in Goroutines : GoroutineStep(g)
    \/ PressPause
    \/ Stop \/ Start \/ OrphanExits
    \/ Tick

Spec == Init /\ [][Next]_vars

-----------------------------------------------------------------------------
(* The longest a message is worked on, if no process is left by an agent:  *)
(* two calls before the actions and two after.                             *)
WithinVisibility == 4 * CallTime + Longest[0] < Visibility

(***************************************************************************)
(* README.md: workers "run actions sequentially per ticket".  The timeout  *)
(* of 300 s is set once, at the receipt: if the timeouts of the actions    *)
(* and the calls around them stay below it in sum, no two goroutines are   *)
(* busy with one message, and none is while a process of a stopped program *)
(* still works on it, unless a process outlived the timeout of its action. *)
(***************************************************************************)
WorksOn(m) == {g \in Goroutines : Busy(g) /\ Msg(g) = m}
OrphansOf(m) == {o \in orphans : o.msg = m}
OneAtATime ==
    WithinVisibility => \A m \in Messages \ overlong :
        /\ \A g, h \in WorksOn(m) : g = h
        /\ \A o, p \in OrphansOf(m) : o = p
        /\ WorksOn(m) = {} \/ OrphansOf(m) = {}

(***************************************************************************)
(* README.md: a failed message is redelivered "with a 30-second backoff".  *)
(* Two receipts of a message, by whatever goroutine, are 30 seconds apart  *)
(* at least: also if the change of the visibility fails, a late worker     *)
(* changes it with an old handle, or the program is started again.         *)
(***************************************************************************)
AttemptsApart == \A m \in Messages : hidden[m] = 0 => rested[m] = RetryDelay

(***************************************************************************)
(* README.md: key w pauses the workers.  The flag is read before the long  *)
(* poll: a message may still be taken, but not later than one long poll    *)
(* after the key was pressed.                                              *)
(***************************************************************************)
PauseTakesEffect ==
    pausedFor > LongPoll => \A g \in Goroutines : ~At(g, "polling")

(***************************************************************************)
(* README.md: workers "run actions sequentially per ticket": no two        *)
(* goroutines run an action of the same ticket.                            *)
(***************************************************************************)
RunsSequentially ==
    \A g, h \in Goroutines :
        At(g, "running") /\ At(h, "running") /\ Msg(g) = Msg(h) => g = h
=============================================================================
