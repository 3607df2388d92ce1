------------------------------- MODULE Worker -------------------------------
(***************************************************************************)
(* The worker goroutines (internal/worker/worker.go): each receives one    *)
(* message at a time from the queue that all applications share, runs the  *)
(* actions of its application in order, writes the ticket's status around  *)
(* them and acknowledges by deleting the message.                          *)
(***************************************************************************)
EXTENDS Process, TicketStore, TicketQueue

CONSTANTS
    WorkerApp,   \* the application of the worker each goroutine belongs to
    NActions     \* the number of actions a worker runs for a ticket

ASSUME WorkerAssumption ==
    /\ WorkerApp \in [Workers -> Apps]
    /\ NActions \in Nat

VARIABLES
    worker,   \* where each goroutine is, its message and the actions it completed
    ran       \* history: <<m, k>> when action k completed for message m

workerVars == <<worker, ran>>

WorkerSteps == {"idle", "polling", "received", "acting", "running", "failing",
                "backoff", "acking"}

Idle == [at |-> "idle", msg |-> 0, done |-> 0]

WorkerTypeOK ==
    /\ worker \in [Workers -> [at: WorkerSteps, msg: Nat, done: 0..NActions]]
    /\ ran \subseteq Nat \X (1..NActions)

WorkerInit ==
    /\ worker = [w \in Workers |-> Idle]
    /\ ran = {}

Busy(w) == worker[w].at \notin {"idle", "polling"}
Msg(w) == messages[worker[w].msg]
Tid(w) == Msg(w).tid

Step(w, step) == worker' = [worker EXCEPT ![w].at = step]
Finish(w) == worker' = [worker EXCEPT ![w] = Idle]

(* The head of loop: the context and the pause flag are read here, and the *)
(* long poll of 20 s that follows looks at neither.                        *)
BeginReceive(w) ==
    /\ worker[w].at = "idle"
    /\ ~ctxDone
    /\ "workers" \notin paused
    /\ Step(w, "polling")
    /\ UNCHANGED <<ran, processVars, storeVars, messages>>

Receive(w, m) ==
    /\ worker[w].at = "polling"
    /\ ReceiveMessage(w, m)
    /\ worker' = [worker EXCEPT ![w] = [at |-> "received", msg |-> m, done |-> 0]]
    /\ UNCHANGED <<ran, processVars, storeVars>>

(* The poll ends with no message or with an error.                         *)
ReceiveNothing(w) ==
    /\ worker[w].at = "polling"
    /\ Finish(w)
    /\ UNCHANGED <<ran, processVars, storeVars, messages>>

(* The queue hid a message and its answer was lost.                        *)
ReceiveLost(w, m) ==
    /\ worker[w].at = "polling"
    /\ MayFail("api")
    /\ ReceiveMessage(w, m)
    /\ Finish(w)
    /\ UNCHANGED <<ran, processVars, storeVars>>

Malformed(w) == Msg(w).body = "malformed"
(* Mutant: the AppName attribute is not looked at.                         *)
NeverMisrouted(w) == FALSE

Misrouted(w) == Msg(w).app \notin {NoApp, WorkerApp[w]}

(* Mutant: a message that cannot be parsed is left in the queue.           *)
DiscardKeeps(w) ==
    /\ worker[w].at = "received"
    /\ Malformed(w)
    /\ Finish(w)
    /\ UNCHANGED <<ran, processVars, storeVars, messages>>

(* ParseTicket failed: the message is discarded.                           *)
Discard(w) ==
    /\ worker[w].at = "received"
    /\ Malformed(w)
    /\ \E ok \in BOOLEAN :
        /\ CallEnds("api", ok)
        /\ IF ok THEN DeleteMessage(w, worker[w].msg) ELSE UNCHANGED messages
    /\ Finish(w)
    /\ UNCHANGED <<ran, processVars, storeVars>>

(* Mutant: another application's message is acknowledged.                  *)
GiveBackDeletes(w) ==
    /\ worker[w].at = "received"
    /\ ~Malformed(w)
    /\ Misrouted(w)
    /\ \E ok \in BOOLEAN :
        /\ CallEnds("api", ok)
        /\ IF ok THEN DeleteMessage(w, worker[w].msg) ELSE UNCHANGED messages
    /\ Finish(w)
    /\ UNCHANGED <<ran, processVars, storeVars>>

(* Another application's message is given back at once.                    *)
GiveBack(w) ==
    /\ worker[w].at = "received"
    /\ ~Malformed(w)
    /\ Misrouted(w)
    /\ \E ok \in BOOLEAN :
        /\ CallEnds("api", ok)
        /\ IF ok THEN MakeVisible(w, worker[w].msg) ELSE UNCHANGED messages
    /\ Finish(w)
    /\ UNCHANGED <<ran, processVars, storeVars>>

(* A status write; its error is only logged.  A message of another program *)
(* has ticket id 0, which names no row.                                    *)
WriteStatus(w, status, ok) ==
    /\ CallEnds("db", ok)
    /\ IF ok THEN UpdateStatus(Tid(w), status) ELSE UNCHANGED tickets

MarkInProgress(w) ==
    /\ worker[w].at = "received"
    /\ ~Malformed(w)
    /\ ~Misrouted(w)
    /\ \E ok \in BOOLEAN : WriteStatus(w, "in_progress", ok)
    /\ Step(w, "acting")
    /\ UNCHANGED <<ran, today, stranded, processVars, messages>>

(* The loops over messages and actions check the context: the message      *)
(* stays in flight and the row as it is.                                   *)
Abandon(w) ==
    /\ ctxDone
    /\ \/ worker[w].at = "received"
       \/ worker[w].at = "acting" /\ worker[w].done < NActions
    /\ Finish(w)
    /\ UNCHANGED <<ran, processVars, storeVars, messages>>

StartAction(w) ==
    /\ worker[w].at = "acting"
    /\ worker[w].done < NActions
    /\ ~ctxDone
    /\ Step(w, "running")
    /\ UNCHANGED <<ran, processVars, storeVars, messages>>

ActionOK(w) ==
    /\ worker[w].at = "running"
    /\ worker' = [worker EXCEPT ![w] = [at |-> "acting", msg |-> @.msg, done |-> @.done + 1]]
    /\ ran' = ran \cup {<<worker[w].msg, worker[w].done + 1>>}
    /\ UNCHANGED <<processVars, storeVars, messages>>

(* Mutant: the loop goes on to the next action after an error.             *)
ActionErrorIgnored(w) ==
    /\ worker[w].at = "running"
    /\ MayFail("action")
    /\ worker' = [worker EXCEPT ![w] = [at |-> "acting", msg |-> @.msg, done |-> @.done + 1]]
    /\ UNCHANGED <<ran, processVars, storeVars, messages>>

ActionFails(w) ==
    /\ worker[w].at = "running"
    /\ MayFail("action")
    /\ Step(w, "failing")
    /\ UNCHANGED <<ran, processVars, storeVars, messages>>

(* Mutant: a failed ticket is acknowledged.                                *)
MarkFailedAcks(w) ==
    /\ worker[w].at = "failing"
    /\ \E ok \in BOOLEAN : WriteStatus(w, "failed", ok)
    /\ Step(w, "acking")
    /\ UNCHANGED <<ran, today, stranded, processVars, messages>>

MarkFailed(w) ==
    /\ worker[w].at = "failing"
    /\ \E ok \in BOOLEAN : WriteStatus(w, "failed", ok)
    /\ Step(w, "backoff")
    /\ UNCHANGED <<ran, today, stranded, processVars, messages>>

(* changeVisibility(30): the message stays hidden for a while.             *)
BackOff(w) ==
    /\ worker[w].at = "backoff"
    /\ Finish(w)
    /\ UNCHANGED <<ran, processVars, storeVars, messages>>

(* Mutant: the worker returns without the acknowledgement.                 *)
MarkDoneUnacked(w) ==
    /\ worker[w].at = "acting"
    /\ worker[w].done = NActions
    /\ \E ok \in BOOLEAN : WriteStatus(w, "done", ok)
    /\ Finish(w)
    /\ UNCHANGED <<ran, today, stranded, processVars, messages>>

MarkDone(w) ==
    /\ worker[w].at = "acting"
    /\ worker[w].done = NActions
    /\ \E ok \in BOOLEAN :
        /\ WriteStatus(w, "done", ok)
        /\ stranded' = IF ok THEN stranded ELSE stranded \cup {Tid(w)}
    /\ Step(w, "acking")
    /\ UNCHANGED <<ran, today, processVars, messages>>

Ack(w) ==
    /\ worker[w].at = "acking"
    /\ \E ok \in BOOLEAN :
        /\ CallEnds("api", ok)
        /\ IF ok THEN DeleteMessage(w, worker[w].msg) ELSE UNCHANGED messages
    /\ Finish(w)
    /\ UNCHANGED <<ran, processVars, storeVars>>

WorkerStep(w) ==
    \/ BeginReceive(w)
    \/ \E m \in MessageIds : Receive(w, m) \/ ReceiveLost(w, m)
    \/ ReceiveNothing(w) \/ Discard(w) \/ GiveBack(w) \/ Abandon(w)
    \/ MarkInProgress(w) \/ StartAction(w) \/ ActionOK(w) \/ ActionFails(w)
    \/ MarkFailed(w) \/ BackOff(w) \/ MarkDone(w) \/ Ack(w)

(* The goroutines die with the process.                                    *)
StopWorkers ==
    /\ worker' = [w \in Workers |-> Idle]
    /\ UNCHANGED ran
=============================================================================
