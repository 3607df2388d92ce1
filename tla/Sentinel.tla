------------------------------ MODULE Sentinel ------------------------------
(***************************************************************************)
(* The whole pipeline: pollers, the tickets table, the queue and workers   *)
(* in one process that is stopped, crashes and is started again.           *)
(***************************************************************************)
EXTENDS Poller, Worker, FiniteSets

ASSUME ForeignAssumption ==
    /\ NoApp \notin Apps
    /\ NoWorker \notin Workers
    /\ ForeignMessages \in Seq(Message(Apps \cup {NoApp}))
    /\ \A m \in DOMAIN ForeignMessages :
        ForeignMessages[m].tid = 0 /\ ForeignMessages[m].state = "visible"

MaxMessages == MaxEntries + Len(ForeignMessages)

vars == <<processVars, storeVars, messages, pollerVars, workerVars>>

TypeOK ==
    /\ ProcessTypeOK
    /\ StoreTypeOK
    /\ messages \in Seq(Message(Apps \cup {NoApp}))
    /\ PollerTypeOK
    /\ WorkerTypeOK

Init == ProcessInit /\ StoreInit /\ QueueInit /\ PollerInit /\ WorkerInit

Working(w, m) == Busy(w) /\ worker[w].msg = m

(* 300 s, more than a ticket takes unless the actions overrun it.          *)
Expire(m) ==
    /\ "overrun" \in Faults \/ \A w \in Workers : ~Working(w, m)
    /\ ExpireVisibility(m)
    /\ UNCHANGED <<processVars, storeVars, pollerVars, workerVars>>

Pause(flag) ==
    /\ TogglePause(flag)
    /\ UNCHANGED <<storeVars, messages, pollerVars, workerVars>>

Cancel ==
    /\ CancelContext
    /\ UNCHANGED <<storeVars, messages, pollerVars, workerVars>>

Restart ==
    /\ RestartProcess
    /\ StopPollers
    /\ StopWorkers
    /\ UNCHANGED <<tickets, today, messages>>

DayPasses ==
    /\ Midnight
    /\ UNCHANGED <<processVars, messages, pollerVars, workerVars>>

Next ==
    \/ \E p \in Pollers : PollerStep(p) /\ UNCHANGED workerVars
    \/ \E w \in Workers : WorkerStep(w) /\ UNCHANGED pollerVars
    \/ \E m \in MessageIds : Expire(m)
    \/ \E flag \in PauseFlags : Pause(flag)
    \/ Cancel
    \/ Restart
    \/ DayPasses

Spec == Init /\ [][Next]_vars

-----------------------------------------------------------------------------
IsTicketMessage(m) == messages[m].tid # 0
HasMessage(id) == \E m \in MessageIds : messages[m].tid = id
Worked(m) == \A k \in 1..NActions : <<m, k>> \in ran

(***************************************************************************)
(* An error of an application is given to the queue at most once a day:    *)
(* two messages about rows with the same unique key are the same message,  *)
(* however many pollers saw the error and however publishing went.         *)
(***************************************************************************)
OneMessagePerError ==
    \A m, n \in MessageIds :
        /\ IsTicketMessage(m) /\ IsTicketMessage(n)
        /\ Key(messages[m].tid) = Key(messages[n].tid)
        => m = n

(***************************************************************************)
(* A row that says done is about a ticket all whose actions completed, in  *)
(* spite of lost status writes, redelivery, restarts and rows written by   *)
(* pollers and workers without a condition on the status they replace.     *)
(***************************************************************************)
DoneMeansWorked ==
    \A id \in TicketIds : tickets[id].status = "done" =>
        \E m \in MessageIds : messages[m].tid = id /\ Worked(m)

(***************************************************************************)
(* A well-formed message leaves the queue only after every action of its   *)
(* application completed: a worker that fails, is stopped or is the wrong  *)
(* one never acknowledges.                                                 *)
(***************************************************************************)
DeletedOnlyAfterWork ==
    \A m \in MessageIds :
        messages[m].state = "deleted" /\ messages[m].body = "ticket" => Worked(m)

(***************************************************************************)
(* A goroutine between in_progress and done or failed works on a row of    *)
(* its own application: the AppName attribute agrees with the row that     *)
(* the body names.                                                         *)
(***************************************************************************)
RightWorkerActs ==
    \A w \in Workers :
        worker[w].at \in {"acting", "running", "failing", "acking"}
        /\ Tid(w) # 0 => tickets[Tid(w)].app = WorkerApp[w]

(***************************************************************************)
(* A row that records a message id is about a ticket the queue was given.  *)
(***************************************************************************)
RecordedIdHasMessage ==
    \A id \in TicketIds : tickets[id].hasMessageId => HasMessage(id)

(***************************************************************************)
(* README.md: the "Queue publishes new tickets to AWS SQS".  An error that *)
(* a poller counts as known is one whose ticket the queue was given, or    *)
(* which another poller is about to give it.  The code does not keep to    *)
(* it: a ticket whose poller was stopped, or whose SendMessage failed, has *)
(* no message, and every later occurrence of its error is only counted.    *)
(***************************************************************************)
KnownErrorsWerePublished ==
    \A p \in Pollers :
        LET t == poller[p].ticket IN
        At(p, "notify") /\ ~t.isNew => HasMessage(t.id) \/ t.id \in UnsettledIds

(***************************************************************************)
(* Every row that claims work is to come (open, in_progress, or failed and *)
(* to be redelivered) is backed by a message still in the queue or by a    *)
(* poller about to publish it; the exceptions are the rows whose last      *)
(* write was lost or whose poller was stopped before it published.         *)
(***************************************************************************)
OpenTicketsAreQueued ==
    \A id \in TicketIds :
        \/ tickets[id].status \in {"done", "pending"}
        \/ \E m \in MessageIds : messages[m].tid = id /\ messages[m].state # "deleted"
        \/ id \in UnsettledIds
        \/ id \in stranded

(***************************************************************************)
(* README.md: workers "run actions sequentially per ticket".  No two       *)
(* goroutines work on messages of the same ticket.                         *)
(***************************************************************************)
SequentialPerTicket ==
    \A v, w \in Workers :
        /\ worker[v].at = "running" /\ worker[w].at = "running"
        /\ Tid(v) = Tid(w) /\ Tid(v) # 0
        => v = w

(***************************************************************************)
(* UpdateStatus replaces any status.  Once the message of a row is         *)
(* deleted, the row keeps the status it has, so that Upsert goes on to     *)
(* skip a done one; but for the late "pending" of a poller whose           *)
(* SendMessage failed although the queue took the message.                 *)
(***************************************************************************)
Acknowledged(id) ==
    \E m \in MessageIds : messages[m].tid = id /\ messages[m].state = "deleted"
LatePending(id) == \E p \in Pollers : At(p, "markPending") /\ poller[p].ticket.id = id
AcknowledgedIsFinal ==
    [][\A id \in TicketIds :
        Acknowledged(id) /\ ~LatePending(id) => tickets'[id].status = tickets[id].status]_vars

-----------------------------------------------------------------------------
(***************************************************************************)
(* The inductive invariant behind the safety properties.                   *)
(***************************************************************************)
RowsHaveUniqueKeys ==
    \A i, j \in TicketIds : Key(i) = Key(j) => i = j

MessagesNameRows ==
    \A m \in MessageIds : IsTicketMessage(m) => messages[m].tid \in TicketIds

OneMessagePerRow ==
    \A m, n \in MessageIds :
        IsTicketMessage(m) /\ messages[m].tid = messages[n].tid => m = n

(* What a poller assumes of the row it inserted between two calls.         *)
PollersKnowRows ==
    /\ \A p \in Pollers :
        /\ poller[p].at \notin {"waiting", "entries"} => poller[p].ticket.id \in TicketIds
        /\ At(p, "publish") => ~HasMessage(poller[p].ticket.id)
        /\ At(p, "recordId") => HasMessage(poller[p].ticket.id)
    /\ \A p, q \in Pollers :
        At(p, "publish") /\ At(q, "publish") /\ poller[p].ticket.id = poller[q].ticket.id
        => p = q

(* What a goroutine assumes of its message and of its own progress.        *)
WorkersKnowMessages ==
    \A w \in Workers : Busy(w) =>
        /\ worker[w].msg \in MessageIds
        /\ worker[w].at # "received" => ~Malformed(w)
        /\ worker[w].at = "running" => worker[w].done < NActions
        /\ worker[w].at = "acking" => worker[w].done = NActions
        /\ \A k \in 1..worker[w].done : <<worker[w].msg, k>> \in ran

(* Unless the visibility timeout ends before the work, the message of a    *)
(* goroutine is hidden and no other goroutine has a receipt handle of it.  *)
WorkersHoldMessages ==
    \A w \in Workers : Busy(w) => Msg(w).state = "inflight" /\ Msg(w).holder = w

(***************************************************************************)
(* The conjunction of what the pollers, the workers, the table and the     *)
(* queue assume of each other between two steps of any of them.            *)
(***************************************************************************)
Consistent ==
    /\ TypeOK
    /\ RowsHaveUniqueKeys
    /\ MessagesNameRows
    /\ OneMessagePerRow
    /\ PollersKnowRows
    /\ WorkersKnowMessages
    /\ RecordedIdHasMessage
    /\ DoneMeansWorked
    /\ DeletedOnlyAfterWork

-----------------------------------------------------------------------------
(***************************************************************************)
(* The pipeline implements TicketDelivery, for workers with an action: the *)
(* error of a message is the key of the row its body names.                *)
(***************************************************************************)
MessagesAbout(e) == {m \in MessageIds : IsTicketMessage(m) /\ Key(messages[m].tid) = e}
AllErrors == Apps \X Lines \X (0..MaxDay)

Delivery == INSTANCE TicketDelivery WITH
    Errors <- AllErrors,
    raised <- {Key(id) : id \in TicketIds},
    sent <- [e \in AllErrors |-> Cardinality(MessagesAbout(e))],
    worked <- {e \in AllErrors : \E m \in MessagesAbout(e) : Worked(m)},
    closed <- {Key(id) : id \in {i \in TicketIds : tickets[i].status = "done"}},
    gone <- {e \in AllErrors : \E m \in MessagesAbout(e) : messages[m].state = "deleted"}

ImplementsDelivery == Delivery!Spec

-----------------------------------------------------------------------------
(***************************************************************************)
(* Fairness.  A goroutine that is not waiting takes its next step; the     *)
(* queue makes a hidden message visible in the end, and hands a visible    *)
(* one to a goroutine that keeps asking; nothing makes a goroutine ask     *)
(* only while others hold the message; an action, and the deletion after   *)
(* it, that are tried again and again succeed at some time.                *)
(***************************************************************************)
PollerProceeds(p) == poller[p].at \notin {"waiting", "entries"} /\ PollerStep(p)
WorkerProceeds(w) == (Busy(w) /\ WorkerStep(w)) \/ BeginReceive(w)
Asks(w, m) == BeginReceive(w) /\ m \in MessageIds /\ messages[m].state = "visible"
Deletes(w) == (Ack(w) \/ Discard(w)) /\ messages'[worker[w].msg].state = "deleted"

Fairness ==
    /\ \A p \in Pollers : WF_vars(PollerProceeds(p) /\ UNCHANGED workerVars)
    /\ \A w \in Workers :
        /\ WF_vars(WorkerProceeds(w) /\ UNCHANGED pollerVars)
        /\ SF_vars(ActionOK(w) /\ UNCHANGED pollerVars)
        /\ SF_vars(Deletes(w) /\ UNCHANGED pollerVars)
        /\ \A m \in 1..MaxMessages :
            /\ SF_vars(Receive(w, m) /\ UNCHANGED pollerVars)
            /\ SF_vars(Asks(w, m) /\ UNCHANGED pollerVars)
    /\ \A m \in 1..MaxMessages : WF_vars(m \in MessageIds /\ Expire(m))

FairSpec == Spec /\ Fairness

(***************************************************************************)
(* README.md: the "Queue publishes new tickets to AWS SQS" and a message   *)
(* whose action fails is left for redelivery.  Every ticket is done in the *)
(* end and its message out of the queue, whatever failed on the way and    *)
(* however often the workers of other applications gave it back; but a     *)
(* ticket whose SendMessage failed is pending for good.  A message that    *)
(* cannot be parsed leaves the queue.                                      *)
(***************************************************************************)
Settled(id) ==
    /\ id \in TicketIds
    /\ tickets[id].status = "pending" \/ (tickets[id].status = "done" /\ Acknowledged(id))
EveryTicketIsSettled ==
    /\ \A id \in 1..MaxEntries : (id \in TicketIds) ~> Settled(id)
    /\ \A m \in DOMAIN ForeignMessages : <>(messages[m].state = "deleted")
=============================================================================
