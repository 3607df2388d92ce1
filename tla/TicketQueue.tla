---------------------------- MODULE TicketQueue ----------------------------
(***************************************************************************)
(* The SQS standard queue between pollers and workers: an external         *)
(* service, modelled from the calls internal/queue/sqs.go and              *)
(* internal/worker/worker.go make.  A message is never removed from the    *)
(* sequence, only marked deleted, so that a position identifies it.        *)
(***************************************************************************)
EXTENDS Naturals, Sequences

CONSTANTS
    Workers,         \* the worker goroutines that receive
    NoWorker,        \* the holder of a message nobody received yet
    NoApp,           \* a message without the AppName attribute
    ForeignMessages  \* messages in the queue that no poller of this run sent

VARIABLE messages

MessageStates == {"visible", "inflight", "deleted"}

(* holder is the goroutine with the latest receipt handle.                 *)
Message(AppNames) ==
    [tid: Nat, app: AppNames, body: {"ticket", "malformed"},
     state: MessageStates, holder: Workers \cup {NoWorker}]

QueueInit == messages = ForeignMessages

MessageIds == DOMAIN messages

(* SendMessage: body and AppName attribute both carry the ticket's app.    *)
SendMessage(tid, app) ==
    messages' = Append(messages, [tid |-> tid, app |-> app, body |-> "ticket",
                                  state |-> "visible", holder |-> NoWorker])

(* Mutant: the message is handed out without a visibility timeout.         *)
ReceiveVisible(w, m) ==
    /\ m \in MessageIds
    /\ messages[m].state = "visible"
    /\ messages' = [messages EXCEPT ![m].holder = w]

(* ReceiveMessage hands out one visible message and hides it (300 s).      *)
ReceiveMessage(w, m) ==
    /\ m \in MessageIds
    /\ messages[m].state = "visible"
    /\ messages' = [messages EXCEPT ![m] = [@ EXCEPT !.state = "inflight", !.holder = w]]

(* A call with the latest receipt handle takes effect; with an older one   *)
(* it may or may not.                                                      *)
HandleHonoured(w, m, honoured) == messages[m].holder = w => honoured

DeleteMessage(w, m) ==
    \E honoured \in BOOLEAN :
        /\ HandleHonoured(w, m, honoured)
        /\ messages' = IF honoured
                       THEN [messages EXCEPT ![m].state = "deleted"]
                       ELSE messages

(* ChangeMessageVisibility with 0 seconds: visible again at once.  With 30 *)
(* seconds the message stays hidden, and time is not measured here.        *)
MakeVisible(w, m) ==
    \E honoured \in BOOLEAN :
        /\ HandleHonoured(w, m, honoured)
        /\ messages' = IF honoured /\ messages[m].state = "inflight"
                       THEN [messages EXCEPT ![m].state = "visible"]
                       ELSE messages

(* The visibility timeout of a message ends.                               *)
ExpireVisibility(m) ==
    /\ messages[m].state = "inflight"
    /\ messages' = [messages EXCEPT ![m].state = "visible"]
=============================================================================
