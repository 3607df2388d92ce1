--------------------------- MODULE PipelineProofs ---------------------------
(***************************************************************************)
(* More proofs about Sentinel: the right worker acts, every row that       *)
(* claims work is backed by a message, and the pipeline implements         *)
(* TicketDelivery.                                                         *)
(***************************************************************************)
EXTENDS SentinelProofs, FiniteSetTheorems

USE DEF MessageIds, TicketIds

(***************************************************************************)
(* The applications agree: the row a poller is busy with is of its own     *)
(* application, the attribute of a message is the application of the row   *)
(* that its body names, and a goroutine that has looked at the attribute   *)
(* goes on only with a message for its own application.                    *)
(***************************************************************************)
PollersKnowApps ==
    \A p \in Pollers : poller[p].at \notin {"waiting", "entries"} =>
        tickets[poller[p].ticket.id].app = PollerApp[p]
MessagesMatchRows ==
    \A m \in MessageIds : IsTicketMessage(m) =>
        /\ messages[m].body = "ticket"
        /\ messages[m].app = tickets[messages[m].tid].app
WorkersKnowApps ==
    \A w \in Workers :
        worker[w].at \in {"acting", "running", "failing", "acking"} => ~Misrouted(w)
AppsAgree == PollersKnowApps /\ MessagesMatchRows /\ WorkersKnowApps

(* Until the acknowledgement, the row keeps what MarkDone wrote, unless    *)
(* the poller writes its late "pending" or the write was lost.             *)
AckedRowsAreDone ==
    \A w \in Workers : worker[w].at = "acking" /\ Tid(w) # 0 =>
        tickets[Tid(w)].status \in {"done", "pending"} \/ Tid(w) \in stranded

(* Every row is about an error of TicketDelivery, and no action completed  *)
(* for a message that is still to be sent.                                 *)
KeysAreErrors == \A id \in TicketIds : Key(id) \in AllErrors
RanHasMessages == \A x \in ran : x[1] \in MessageIds
Grounded == KeysAreErrors /\ RanHasMessages

-----------------------------------------------------------------------------
(* What a step does to the rows and to the messages.                       *)

Writes(id) ==
    \/ \E p \in Pollers :
        MarkPending(p) /\ poller[p].ticket.id = id /\ tickets'[id].status = "pending"
    \/ \E w \in Workers :
        /\ Tid(w) = id
        /\ \/ MarkInProgress(w) /\ tickets'[id].status = "in_progress"
           \/ MarkFailed(w) /\ tickets'[id].status = "failed"
           \/ MarkDone(w) /\ tickets'[id].status = "done"

RowsWritten ==
    /\ SameRows
    /\ \A id \in TicketIds :
        /\ tickets'[id].app = tickets[id].app
        /\ tickets'[id].status = tickets[id].status \/ Writes(id)

Removes(m) == \E w \in Workers : (Discard(w) \/ Ack(w)) /\ worker[w].msg = m

MessagesMoved ==
    /\ SameMessages
    /\ \A m \in MessageIds :
        /\ messages[m].state = "deleted" => messages'[m].state = "deleted"
        /\ messages'[m].state = "deleted" => messages[m].state = "deleted" \/ Removes(m)

LEMMA PollerWrites ==
    ASSUME Consistent, NEW p \in Pollers, PollerStep(p)
    PROVE  (\E line \in Lines : UpsertNew(p, line)) \/ RowsWritten
<1>1. tickets \in Seq(Row)
    BY DEF Consistent, TypeOK, StoreTypeOK
<1>2. CASE UNCHANGED tickets
    BY <1>2, Unchanged DEF RowsWritten
<1>3. CASE \E line \in Lines : UpsertCounted(p, line)
    BY <1>1, <1>3, OccurrenceCounted DEF UpsertCounted, RowsWritten, SameRows
<1>4. CASE RecordMessageId(p)
    BY <1>1, <1>2, <1>4, IdRecorded DEF RecordMessageId, RowsWritten, SameRows
<1>5. CASE MarkPending(p)
    <2>1. CASE UpdateStatus(poller[p].ticket.id, "pending")
        BY <1>1, <1>5, <2>1, StatusWritten DEF Statuses, RowsWritten, SameRows, Writes
    <2> QED
        BY <1>2, <1>5, <2>1 DEF MarkPending
<1> QED
    BY <1>2, <1>3, <1>4, <1>5
    DEF PollerStep, StartPoll, EndPoll, DropEntry, UpsertEntry, UpsertSkipped, SkipTicket,
        PublishOK, PublishFails, Notify, storeVars

LEMMA WorkerWrites ==
    ASSUME Consistent, NEW w \in Workers, WorkerStep(w)
    PROVE  RowsWritten
<1>1. tickets \in Seq(Row)
    BY DEF Consistent, TypeOK, StoreTypeOK
<1>2. CASE UNCHANGED tickets
    BY <1>2, Unchanged DEF RowsWritten
<1>3. CASE MarkInProgress(w)
    <2>1. CASE UpdateStatus(Tid(w), "in_progress")
        BY <1>1, <1>3, <2>1, StatusWritten DEF Statuses, RowsWritten, SameRows, Writes
    <2> QED
        BY <1>2, <1>3, <2>1 DEF MarkInProgress, WriteStatus
<1>4. CASE MarkFailed(w)
    <2>1. CASE UpdateStatus(Tid(w), "failed")
        BY <1>1, <1>4, <2>1, StatusWritten DEF Statuses, RowsWritten, SameRows, Writes
    <2> QED
        BY <1>2, <1>4, <2>1 DEF MarkFailed, WriteStatus
<1>5. CASE MarkDone(w)
    <2>1. CASE UpdateStatus(Tid(w), "done")
        BY <1>1, <1>5, <2>1, StatusWritten DEF Statuses, RowsWritten, SameRows, Writes
    <2> QED
        BY <1>2, <1>5, <2>1 DEF MarkDone, WriteStatus
<1> QED
    BY <1>2, <1>3, <1>4, <1>5
    DEF WorkerStep, BeginReceive, Receive, ReceiveLost, ReceiveNothing, Discard, GiveBack,
        Abandon, StartAction, ActionOK, ActionFails, BackOff, Ack, storeVars

LEMMA RowsStep ==
    ASSUME Consistent, [Next]_vars
    PROVE  (\E p \in Pollers, line \in Lines : UpsertNew(p, line)) \/ RowsWritten
<1>1. CASE UNCHANGED tickets
    BY <1>1, Unchanged DEF RowsWritten
<1> QED
    BY <1>1, PollerWrites, WorkerWrites
    DEF Next, vars, storeVars, Expire, Pause, Cancel, Restart, DayPasses, Midnight

LEMMA MessageReceived ==
    ASSUME Consistent, NEW w \in Workers, NEW m, ReceiveMessage(w, m)
    PROVE  /\ m \in MessageIds
           /\ SameMessages
           /\ \A n \in MessageIds :
                messages'[n].state = "deleted" <=> messages[n].state = "deleted"
<1>1. m \in MessageIds /\ messages[m].state = "visible"
    BY DEF ReceiveMessage
<1>2. messages[m] \in Message(Apps \cup {NoApp})
    BY <1>1, ElementOfSeq, LenProperties DEF Consistent, TypeOK
<1> QED
    BY <1>1, <1>2 DEF ReceiveMessage, Message, SameMessages, Kept

LEMMA WorkerMovesMessages ==
    ASSUME Consistent, NEW w \in Workers, WorkerStep(w)
    PROVE  MessagesMoved
<1>1. messages \in Messages
    BY DEF Consistent, TypeOK, Messages
<1>2. CASE UNCHANGED messages
    BY <1>2, Unchanged DEF MessagesMoved
<1>3. CASE \E m : ReceiveMessage(w, m)
    BY <1>3, MessageReceived DEF MessagesMoved
<1>4. CASE Discard(w) \/ GiveBack(w) \/ Ack(w)
    <2>1. Busy(w) /\ worker[w].msg \in MessageIds
        BY <1>4 DEF Discard, GiveBack, Ack, Busy, Consistent, WorkersKnowMessages
    <2>2. messages[worker[w].msg] \in Message(Apps \cup {NoApp})
        BY <1>1, <2>1, ElementOfSeq, LenProperties DEF Messages
    <2> QED
        BY <1>4, <2>1, <2>2
        DEF Discard, GiveBack, Ack, DeleteMessage, MakeVisible, Message, MessagesMoved,
            SameMessages, Kept, Removes
<1> QED
    BY <1>2, <1>3, <1>4
    DEF WorkerStep, BeginReceive, Receive, ReceiveLost, ReceiveNothing,
        Abandon, MarkInProgress, StartAction, ActionOK, ActionFails, MarkFailed, BackOff,
        MarkDone

(* A poller gives the row it inserted to the queue.                        *)
Sends(p) ==
    /\ At(p, "publish")
    /\ PublishOK(p) \/ PublishFails(p)
    /\ SendMessage(poller[p].ticket.id, PollerApp[p])

LEMMA PollerMovesMessages ==
    ASSUME Consistent, NEW p \in Pollers, PollerStep(p)
    PROVE  Sends(p) \/ UNCHANGED messages
BY DEF PollerStep, StartPoll, EndPoll, DropEntry, UpsertEntry, UpsertNew, UpsertSkipped,
       UpsertCounted, PublishOK, PublishFails, RecordMessageId, MarkPending, Notify, Sends

LEMMA MessagesStep ==
    ASSUME Consistent, [Next]_vars
    PROVE  (\E p \in Pollers : Sends(p)) \/ MessagesMoved
<1>1. CASE UNCHANGED messages
    BY <1>1, Unchanged DEF MessagesMoved
<1>2. CASE \E m \in MessageIds : Expire(m)
    <2>1. PICK m \in MessageIds : Expire(m)
        BY <1>2
    <2>2. messages[m] \in Message(Apps \cup {NoApp})
        BY ElementOfSeq, LenProperties DEF Consistent, TypeOK
    <2> QED
        BY <2>1, <2>2
        DEF Expire, ExpireVisibility, Message, MessagesMoved, SameMessages, Kept
<1> QED
    BY <1>1, <1>2, PollerMovesMessages, WorkerMovesMessages
    DEF Next, vars, Pause, Cancel, Restart, DayPasses

LEMMA Sending ==
    ASSUME Consistent, NEW p \in Pollers, Sends(p)
    PROVE  \E m :
            /\ MessageIds' = MessageIds \cup {m} /\ m \notin MessageIds
            /\ \A n \in MessageIds : messages'[n] = messages[n]
            /\ messages'[m].tid = poller[p].ticket.id
            /\ messages'[m].app = PollerApp[p]
            /\ messages'[m].body = "ticket"
            /\ messages'[m].state = "visible"
            /\ poller[p].ticket.id \in TicketIds /\ poller[p].ticket.id # 0
            /\ ~HasMessage(poller[p].ticket.id)
            /\ UNCHANGED <<tickets, today, stranded>>
<1>1. /\ poller[p].ticket.id \in TicketIds /\ poller[p].ticket.id \in Nat
      /\ ~HasMessage(poller[p].ticket.id)
    BY DEF Sends, At, Consistent, TypeOK, PollerTypeOK, LocalTicket, PollersKnowRows
<1>2. poller[p].ticket.id # 0
    BY <1>1, LenProperties DEF Consistent, TypeOK, StoreTypeOK
<1>3. UNCHANGED <<tickets, today, stranded>>
    BY DEF Sends, PublishOK, PublishFails, storeVars
<1> QED
    BY <1>1, <1>2, <1>3, MessageSent, PollerAssumption DEF Sends, Consistent, TypeOK, Messages

LEMMA Inserting ==
    ASSUME Consistent, NEW p \in Pollers, NEW line \in Lines, UpsertNew(p, line)
    PROVE  \E id \in Nat :
            /\ id \notin TicketIds /\ id # 0
            /\ TicketIds' = TicketIds \cup {id}
            /\ \A i \in TicketIds : tickets'[i] = tickets[i]
            /\ tickets'[id].app = PollerApp[p]
            /\ tickets'[id].status = "open"
            /\ Key(id)' \in AllErrors
            /\ \A i \in TicketIds : Key(i) # Key(id)'
            /\ poller' = [poller EXCEPT ![p] =
                    [at |-> "publish", ticket |-> [id |-> id, status |-> "open", isNew |-> TRUE]]]
            /\ UNCHANGED <<messages, today, stranded>>
<1>1. tickets \in Seq(Row) /\ today \in Nat /\ today \in 0..MaxDay /\ PollerApp[p] \in Apps
    BY PollerAssumption, StoreAssumption DEF Consistent, TypeOK, StoreTypeOK
<1>2. PICK new \in Nat :
        /\ new = Len(tickets')
        /\ new \notin TicketIds /\ new # 0
        /\ TicketIds' = TicketIds \cup {new}
        /\ \A i \in TicketIds : tickets'[i] = tickets[i]
        /\ tickets'[new].app = PollerApp[p]
        /\ tickets'[new].status = "open"
        /\ Key(new)' = <<PollerApp[p], line, today>>
        /\ \A i \in TicketIds : Key(i) # Key(new)'
    BY <1>1, TicketInserted DEF UpsertNew
<1>3. /\ poller' = [poller EXCEPT ![p] =
            [at |-> "publish", ticket |-> [id |-> new, status |-> "open", isNew |-> TRUE]]]
      /\ UNCHANGED <<messages, today, stranded>>
    BY <1>2 DEF UpsertNew, GotoWith
<1>4. Key(new)' \in AllErrors
    BY <1>1, <1>2 DEF AllErrors
<1> QED
    BY <1>2, <1>3, <1>4

-----------------------------------------------------------------------------
(* The right worker acts.                                                  *)

LEMMA PollersGoOnKnowing ==
    ASSUME Consistent, PollersKnowApps, RowsWritten, [Next]_vars
    PROVE  PollersKnowApps'
<1>1. \A id \in TicketIds : tickets'[id].app = tickets[id].app
    BY DEF RowsWritten
<1>2. ASSUME NEW p \in Pollers
      PROVE  \/ poller'[p].at \in {"waiting", "entries"}
             \/ /\ poller'[p].ticket.id = poller[p].ticket.id
                /\ poller[p].at \notin {"waiting", "entries"}
             \/ /\ tickets[poller'[p].ticket.id].app = PollerApp[p]
                /\ poller'[p].ticket.id \in TicketIds
    <2>1. CASE UNCHANGED poller
        BY <2>1
    <2>2. CASE Restart
        BY <2>2 DEF Restart, StopPollers
    <2>3. CASE PollerStep(p)
        <3>1. CASE \E line \in Lines : UpsertNew(p, line)
            BY <3>1, Inserting DEF RowsWritten, SameRows
        <3>2. CASE \E line \in Lines : UpsertCounted(p, line)
            BY <3>2
            DEF UpsertCounted, CountTicket, Existing, Key, GotoWith, Consistent, TypeOK,
                PollerTypeOK
        <3> QED
            BY <2>3, <3>1, <3>2
            DEF PollerStep, StartPoll, EndPoll, DropEntry, UpsertEntry, UpsertSkipped, PublishOK,
                PublishFails, RecordMessageId, MarkPending, Notify, Goto, GotoWith, At,
                Consistent, TypeOK, PollerTypeOK, LocalTicket
    <2>4. CASE \E q \in Pollers : q # p /\ PollerStep(q)
        BY <2>4
        DEF PollerStep, StartPoll, EndPoll, DropEntry, UpsertEntry, UpsertNew, UpsertSkipped,
            UpsertCounted, PublishOK, PublishFails, RecordMessageId, MarkPending, Notify, Goto,
            GotoWith, Consistent, TypeOK, PollerTypeOK
    <2> QED
        BY <2>1, <2>2, <2>3, <2>4
        DEF Next, vars, pollerVars, Expire, Pause, Cancel, DayPasses
<1>3. ASSUME NEW p \in Pollers, poller[p].at \notin {"waiting", "entries"}
      PROVE  poller[p].ticket.id \in TicketIds /\ tickets[poller[p].ticket.id].app = PollerApp[p]
    BY <1>3 DEF PollersKnowApps, Consistent, PollersKnowRows
<1> QED
    BY <1>1, <1>2, <1>3 DEF PollersKnowApps

LEMMA WorkersGoOnKnowing ==
    ASSUME Consistent, WorkersKnowApps, \A m \in MessageIds : Kept(m), [Next]_vars
    PROVE  WorkersKnowApps'
<1> DEFINE Committed(at) == at \in {"acting", "running", "failing", "acking"}
<1>1. ASSUME NEW w \in Workers, Committed(worker'[w].at)
      PROVE  worker'[w].msg = worker[w].msg /\ Busy(w) /\ ~Misrouted(w)
    <2>1. CASE UNCHANGED worker
        BY <1>1, <2>1 DEF WorkersKnowApps, Busy
    <2>2. CASE Restart
        BY <1>1, <2>2 DEF Restart, StopWorkers, Idle
    <2>3. CASE WorkerStep(w)
        BY <1>1, <2>3
        DEF WorkerStep, BeginReceive, Receive, ReceiveLost, ReceiveNothing, Discard, GiveBack,
            Abandon, MarkInProgress, StartAction, ActionOK, ActionFails, MarkFailed, BackOff,
            MarkDone, Ack, Step, Finish, Idle, Busy, WorkersKnowApps, Consistent, TypeOK,
            WorkerTypeOK
    <2>4. CASE \E v \in Workers : v # w /\ WorkerStep(v)
        <3>1. worker'[w] = worker[w]
            BY <2>4
            DEF WorkerStep, BeginReceive, Receive, ReceiveLost, ReceiveNothing, Discard, GiveBack,
                Abandon, MarkInProgress, StartAction, ActionOK, ActionFails, MarkFailed, BackOff,
                MarkDone, Ack, Step, Finish, Consistent, TypeOK, WorkerTypeOK
        <3> QED
            BY <1>1, <3>1 DEF WorkersKnowApps, Busy
    <2> QED
        BY <2>1, <2>2, <2>3, <2>4
        DEF Next, vars, workerVars, Expire, Pause, Cancel, DayPasses
<1>2. ASSUME NEW w \in Workers, Busy(w)
      PROVE  worker[w].msg \in MessageIds
    BY <1>2 DEF Consistent, WorkersKnowMessages
<1> QED
    BY <1>1, <1>2 DEF WorkersKnowApps, Misrouted, Msg, Kept

LEMMA AppsGoOnAgreeing ==
    ASSUME Consistent, AppsAgree, [Next]_vars
    PROVE  AppsAgree'
<1>1. CASE RowsWritten /\ MessagesMoved
    <2>1. MessagesMatchRows'
        BY <1>1
        DEF AppsAgree, MessagesMatchRows, RowsWritten, MessagesMoved, SameMessages, Kept,
            SameRows, IsTicketMessage, Consistent, MessagesNameRows
    <2> QED
        BY <1>1, <2>1, PollersGoOnKnowing, WorkersGoOnKnowing
        DEF AppsAgree, MessagesMoved, SameMessages
<1>2. CASE \E p \in Pollers, line \in Lines : UpsertNew(p, line)
    <2>1. PICK p \in Pollers, line \in Lines : UpsertNew(p, line)
        BY <1>2
    <2>2. PICK id \in Nat :
            /\ \A i \in TicketIds : tickets'[i] = tickets[i]
            /\ tickets'[id].app = PollerApp[p]
            /\ poller' = [poller EXCEPT ![p] =
                    [at |-> "publish", ticket |-> [id |-> id, status |-> "open", isNew |-> TRUE]]]
            /\ UNCHANGED <<messages, today, stranded>>
        BY <2>1, Inserting
    <2>3. PollersKnowApps'
        BY <2>2
        DEF AppsAgree, PollersKnowApps, Consistent, TypeOK, PollerTypeOK, PollersKnowRows
    <2>4. MessagesMatchRows'
        BY <2>2
        DEF AppsAgree, MessagesMatchRows, IsTicketMessage, Consistent, MessagesNameRows
    <2> QED
        BY <2>2, <2>3, <2>4, WorkersGoOnKnowing DEF AppsAgree, Kept
<1>3. CASE \E p \in Pollers : Sends(p)
    <2>1. PICK p \in Pollers : Sends(p)
        BY <1>3
    <2>2. PICK m :
            /\ MessageIds' = MessageIds \cup {m}
            /\ \A n \in MessageIds : messages'[n] = messages[n]
            /\ messages'[m].tid = poller[p].ticket.id
            /\ messages'[m].app = PollerApp[p]
            /\ messages'[m].body = "ticket"
            /\ UNCHANGED tickets
        BY <2>1, Sending
    <2>3. RowsWritten
        BY <2>2, Unchanged DEF RowsWritten
    <2>4. tickets[poller[p].ticket.id].app = PollerApp[p]
        BY <2>1 DEF Sends, At, AppsAgree, PollersKnowApps
    <2>5. MessagesMatchRows'
        BY <2>2, <2>4 DEF AppsAgree, MessagesMatchRows, IsTicketMessage
    <2> QED
        BY <2>2, <2>3, <2>5, PollersGoOnKnowing, WorkersGoOnKnowing DEF AppsAgree, Kept
<1> QED
    BY <1>1, <1>2, <1>3, RowsStep, MessagesStep

LEMMA AppsAlwaysAgree == Spec => []AppsAgree
<1>1. Init => AppsAgree
    <2> SUFFICES ASSUME Init PROVE AppsAgree
        OBVIOUS
    <2>1. \A m \in MessageIds : ~IsTicketMessage(m)
        BY ForeignAssumption DEF Init, QueueInit, IsTicketMessage
    <2> QED
        BY <2>1, IdleIsARecord
        DEF Init, PollerInit, WorkerInit, AppsAgree, PollersKnowApps, MessagesMatchRows,
            WorkersKnowApps
<1>2. Consistent /\ AppsAgree /\ [Next]_vars => AppsAgree'
    BY AppsGoOnAgreeing
<1> QED
    BY <1>1, <1>2, AlwaysConsistent, PTL DEF Spec

(***************************************************************************)
(* A goroutine between in_progress and done or failed works on a row of    *)
(* its own application, however many applications share the queue, also    *)
(* after redelivery, restarts and overruns.                                *)
(***************************************************************************)
THEOREM WorkedOnByItsOwn == Spec => []RightWorkerActs
<1>1. ASSUME Consistent, AppsAgree PROVE RightWorkerActs
    <2> SUFFICES ASSUME NEW w \in Workers, Tid(w) # 0,
                        worker[w].at \in {"acting", "running", "failing", "acking"}
                 PROVE  tickets[Tid(w)].app = WorkerApp[w]
        BY DEF RightWorkerActs
    <2>1. worker[w].msg \in MessageIds /\ Tid(w) \in TicketIds
        BY <1>1
        DEF Consistent, WorkersKnowMessages, Busy, MessagesNameRows, IsTicketMessage, Tid, Msg
    <2>2. tickets[Tid(w)].app = Msg(w).app /\ Msg(w).app \in {NoApp, WorkerApp[w]}
        BY <1>1, <2>1
        DEF AppsAgree, MessagesMatchRows, WorkersKnowApps, Misrouted, IsTicketMessage, Tid, Msg
    <2>3. tickets[Tid(w)].app \in Apps
        <3>1. tickets \in Seq(Row)
            BY <1>1 DEF Consistent, TypeOK, StoreTypeOK
        <3>2. tickets[Tid(w)] \in Row
            BY <2>1, <3>1, ElementOfSeq, LenProperties
        <3> QED
            BY <3>2 DEF Row
    <2> QED
        BY <2>2, <2>3, ForeignAssumption
<1> QED
    BY <1>1, AlwaysConsistent, AppsAlwaysAgree, PTL

-----------------------------------------------------------------------------
(* Without an overrun of the visibility timeout: rows that claim work.     *)

LEMMA RowOfAWorker ==
    ASSUME Consistent, WorkersHoldMessages, NEW w \in Workers, Busy(w), Tid(w) # 0
    PROVE  /\ worker[w].msg \in MessageIds /\ messages[worker[w].msg].tid = Tid(w)
           /\ messages[worker[w].msg].state = "inflight"
           /\ Tid(w) \in TicketIds
           /\ ~Acknowledged(Tid(w))
           /\ \A v \in Workers : Busy(v) /\ Tid(v) = Tid(w) => v = w
BY DEF Consistent, WorkersKnowMessages, WorkersHoldMessages, MessagesNameRows, OneMessagePerRow,
       IsTicketMessage, Acknowledged, Tid, Msg

LEMMA StrandedStays ==
    ASSUME [Next]_vars
    PROVE  stranded \subseteq stranded'
BY DEF Next, vars, storeVars, PollerStep, StartPoll, EndPoll, DropEntry, UpsertEntry, UpsertNew,
       UpsertSkipped, UpsertCounted, PublishOK, PublishFails, RecordMessageId, MarkPending,
       Notify, WorkerStep, BeginReceive, Receive, ReceiveLost, ReceiveNothing, Discard, GiveBack,
       Abandon, MarkInProgress, StartAction, ActionOK, ActionFails, MarkFailed, BackOff, MarkDone,
       Ack, Expire, Pause, Cancel, Restart, StopPollers, DayPasses, Midnight

(* The message of a row is in the queue.                                   *)
Queued(id) == \E m \in MessageIds : messages[m].tid = id /\ messages[m].state # "deleted"
Backed(id) ==
    \/ tickets[id].status \in {"done", "pending"}
    \/ Queued(id)
    \/ id \in UnsettledIds
    \/ id \in stranded

LEMMA WrittenIsBacked ==
    ASSUME Consistent, WorkersHoldMessages, NEW id \in TicketIds, Writes(id)
    PROVE  Backed(id)'
<1>1. id # 0
    BY LenProperties DEF Consistent, TypeOK, StoreTypeOK
<1>2. CASE \E p \in Pollers : MarkPending(p) /\ tickets'[id].status = "pending"
    BY <1>2 DEF Backed
<1>3. CASE \E w \in Workers :
            Tid(w) = id /\ (MarkInProgress(w) \/ MarkFailed(w) \/ MarkDone(w))
    BY <1>1, <1>3, RowOfAWorker
    DEF MarkInProgress, MarkFailed, MarkDone, Busy, Backed, Queued
<1> QED
    BY <1>2, <1>3 DEF Writes

LEMMA QueuedIsBacked ==
    ASSUME Consistent, AppsAgree, AckedRowsAreDone, [Next]_vars, NEW id \in TicketIds, Queued(id)
    PROVE  Backed(id)'
<1>1. id # 0
    BY LenProperties DEF Consistent, TypeOK, StoreTypeOK
<1>2. PICK m \in MessageIds : messages[m].tid = id /\ messages[m].state # "deleted"
    BY DEF Queued
<1>3. CASE MessagesMoved /\ ~Removes(m)
    <2>1. m \in MessageIds' /\ messages'[m].tid = id /\ messages'[m].state # "deleted"
        BY <1>2, <1>3 DEF MessagesMoved, SameMessages, Kept
    <2>2. Queued(id)'
        BY <2>1 DEF Queued
    <2> QED
        BY <2>2 DEF Backed
<1>4. CASE \E p \in Pollers : Sends(p)
    <2>1. m \in MessageIds' /\ messages'[m] = messages[m]
        BY <1>4, Sending
    <2>2. Queued(id)'
        BY <1>2, <2>1 DEF Queued
    <2> QED
        BY <2>2 DEF Backed
<1>5. CASE Removes(m)
    <2>1. PICK w \in Workers : (Discard(w) \/ Ack(w)) /\ worker[w].msg = m
        BY <1>5 DEF Removes
    <2>2. ~Discard(w)
        BY <1>1, <1>2, <2>1
        DEF Discard, Malformed, Msg, AppsAgree, MessagesMatchRows, IsTicketMessage
    <2>3. tickets[id].status \in {"done", "pending"} \/ id \in stranded
        BY <1>1, <1>2, <2>1, <2>2 DEF Ack, AckedRowsAreDone, Tid, Msg
    <2> QED
        BY <2>1, <2>2, <2>3 DEF Ack, storeVars, Backed
<1> QED
    BY <1>3, <1>4, <1>5, MessagesStep

LEMMA UnsettledIsBacked ==
    ASSUME Consistent, [Next]_vars, NEW id \in UnsettledIds
    PROVE  Backed(id)'
<1>1. PICK p \in Pollers : Unsettled(p) /\ poller[p].ticket.id = id
    BY DEF UnsettledIds
<1>2. id \in TicketIds
    BY <1>1 DEF Unsettled, Consistent, PollersKnowRows
<1>3. CASE poller'[p] = poller[p]
    BY <1>1, <1>3 DEF Backed, UnsettledIds, Unsettled
<1>4. CASE Restart
    BY <1>4 DEF Restart, StopPollers, Backed
<1>5. CASE PollerStep(p)
    <2>1. CASE Sends(p)
        BY <1>1, <2>1, Sending DEF Backed, Queued
    <2>2. CASE PublishFails(p)
        BY <1>1, <2>2
        DEF PublishFails, Goto, Backed, UnsettledIds, Unsettled, Consistent, TypeOK, PollerTypeOK
    <2>3. CASE MarkPending(p)
        <3>1. CASE UpdateStatus(id, "pending")
            BY <1>2, <3>1, StatusWritten DEF Statuses, Consistent, TypeOK, StoreTypeOK, Backed
        <3> QED
            BY <1>1, <2>3, <3>1 DEF MarkPending, Backed
    <2> QED
        BY <1>1, <1>5, <2>1, <2>2, <2>3
        DEF Unsettled, PollerStep, StartPoll, EndPoll, DropEntry, UpsertEntry, UpsertNew,
            UpsertSkipped, UpsertCounted, TakeEntry, PublishOK, RecordMessageId, Notify, At, Sends
<1>6. CASE \E q \in Pollers : q # p /\ PollerStep(q)
    <2>1. poller'[p] = poller[p]
        BY <1>6
        DEF PollerStep, StartPoll, EndPoll, DropEntry, UpsertEntry, UpsertNew, UpsertSkipped,
            UpsertCounted, PublishOK, PublishFails, RecordMessageId, MarkPending, Notify, Goto,
            GotoWith, Consistent, TypeOK, PollerTypeOK
    <2> QED
        BY <1>3, <2>1
<1> QED
    BY <1>3, <1>4, <1>5, <1>6 DEF Next, vars, pollerVars, Expire, Pause, Cancel, DayPasses

LEMMA RowsStayBacked ==
    ASSUME Consistent, WorkersHoldMessages, AppsAgree, AckedRowsAreDone, OpenTicketsAreQueued,
           [Next]_vars
    PROVE  OpenTicketsAreQueued'
<1>1. ASSUME NEW id \in TicketIds, tickets'[id].status = tickets[id].status \/ Writes(id)
      PROVE  Backed(id)'
    <2>1. CASE Writes(id)
        BY <2>1, WrittenIsBacked
    <2>2. CASE tickets'[id].status = tickets[id].status
        <3>1. Backed(id)
            BY DEF OpenTicketsAreQueued, Backed, Queued
        <3>2. CASE tickets[id].status \in {"done", "pending"} \/ id \in stranded
            BY <2>2, <3>2, StrandedStays DEF Backed
        <3> QED
            BY <3>1, <3>2, QueuedIsBacked, UnsettledIsBacked DEF Backed
    <2> QED
        BY <1>1, <2>1, <2>2
<1>2. ASSUME NEW id \in TicketIds' PROVE Backed(id)'
    <2>1. CASE RowsWritten
        BY <1>1, <2>1 DEF RowsWritten, SameRows
    <2>2. CASE \E p \in Pollers, line \in Lines : UpsertNew(p, line)
        <3>1. PICK p \in Pollers, line \in Lines : UpsertNew(p, line)
            BY <2>2
        <3>2. PICK new \in Nat :
                /\ TicketIds' = TicketIds \cup {new}
                /\ \A i \in TicketIds : tickets'[i] = tickets[i]
                /\ poller' = [poller EXCEPT ![p] =
                        [at |-> "publish",
                         ticket |-> [id |-> new, status |-> "open", isNew |-> TRUE]]]
            BY <3>1, Inserting
        <3>3. new \in UnsettledIds'
            BY <3>2 DEF UnsettledIds, Unsettled, Consistent, TypeOK, PollerTypeOK
        <3> QED
            BY <1>1, <3>2, <3>3 DEF Backed
    <2> QED
        BY <2>1, <2>2, RowsStep
<1> QED
    BY <1>2 DEF OpenTicketsAreQueued, Backed, Queued

LEMMA AckedRowsStayDone ==
    ASSUME Consistent, WorkersHoldMessages, AckedRowsAreDone, [Next]_vars
    PROVE  AckedRowsAreDone'
<1> SUFFICES ASSUME NEW w \in Workers, worker'[w].at = "acking", Tid(w)' # 0
             PROVE  tickets'[Tid(w)'].status \in {"done", "pending"} \/ Tid(w)' \in stranded'
    BY DEF AckedRowsAreDone
<1>1. MarkDone(w) \/ worker'[w] = worker[w]
    BY DEF Next, vars, workerVars, Expire, Pause, Cancel, Restart, StopWorkers, DayPasses,
           WorkerStep, BeginReceive, Receive, ReceiveLost, ReceiveNothing, Discard, GiveBack,
           Abandon, MarkInProgress, StartAction, ActionOK, ActionFails, MarkFailed, BackOff, Ack,
           Step, Finish, Idle, MarkDone, Consistent, TypeOK, WorkerTypeOK
<1>2. Busy(w) /\ worker'[w].msg = worker[w].msg /\ worker[w].msg \in MessageIds
    BY <1>1
    DEF MarkDone, Step, Busy, Consistent, TypeOK, WorkerTypeOK, WorkersKnowMessages
<1>3. Tid(w)' = Tid(w)
    BY <1>2, MessagesStep, Sending DEF MessagesMoved, SameMessages, Kept, Tid, Msg
<1>4. /\ Tid(w) \in TicketIds
      /\ \A v \in Workers : Busy(v) /\ Tid(v) = Tid(w) => v = w
    BY <1>2, <1>3, RowOfAWorker
<1>5. CASE MarkDone(w)
    <2>1. CASE UpdateStatus(Tid(w), "done")
        BY <1>3, <1>4, <2>1, StatusWritten DEF Statuses, Consistent, TypeOK, StoreTypeOK
    <2> QED
        BY <1>3, <1>5, <2>1 DEF MarkDone, WriteStatus
<1>6. CASE worker'[w] = worker[w]
    <2>1. tickets[Tid(w)].status \in {"done", "pending"} \/ Tid(w) \in stranded
        BY <1>3, <1>6 DEF AckedRowsAreDone
    <2>2. Writes(Tid(w)) => tickets'[Tid(w)].status = "pending"
        BY <1>4, <1>6 DEF Writes, MarkInProgress, MarkFailed, MarkDone, Busy
    <2>3. tickets'[Tid(w)].status \in {tickets[Tid(w)].status, "pending"}
        BY <1>4, <2>2, RowsStep, Inserting DEF RowsWritten
    <2> QED
        BY <1>3, <2>1, <2>3, StrandedStays
<1> QED
    BY <1>1, <1>5, <1>6

(***************************************************************************)
(* No row waits in vain: one that says open, in_progress or failed has a   *)
(* message still in the queue or a poller about to publish it, but for     *)
(* those a lost write or a restart has stranded.  Without an overrun: a    *)
(* goroutine that has lost its message would write to a row whose message  *)
(* is deleted.                                                             *)
(***************************************************************************)
THEOREM NoRowWaitsInVain ==
    ASSUME "overrun" \notin Faults
    PROVE  Spec => []OpenTicketsAreQueued
<1> DEFINE Inv == AckedRowsAreDone /\ OpenTicketsAreQueued
<1>1. Init => Inv
    BY IdleIsARecord, EmptySeq
    DEF Init, StoreInit, WorkerInit, AckedRowsAreDone, OpenTicketsAreQueued
<1>2. Consistent /\ WorkersHoldMessages /\ AppsAgree /\ Inv /\ [Next]_vars => Inv'
    BY RowsStayBacked, AckedRowsStayDone
<1> QED
    BY <1>1, <1>2, AlwaysConsistent, MessagesAlwaysHeld, AppsAlwaysAgree, PTL DEF Spec

(***************************************************************************)
(* A row whose message is deleted keeps its status for good, so that       *)
(* Upsert goes on to skip the error of that day: only the late "pending"   *)
(* of a poller that took an accepted message for a failed one gets in.     *)
(***************************************************************************)
THEOREM DoneForGood ==
    ASSUME "overrun" \notin Faults
    PROVE  Spec => AcknowledgedIsFinal
<1> DEFINE StaysFinal ==
        \A id \in TicketIds :
            Acknowledged(id) /\ ~LatePending(id) => tickets'[id].status = tickets[id].status
<1>1. ASSUME Consistent, WorkersHoldMessages, [Next]_vars PROVE StaysFinal
    <2> SUFFICES ASSUME NEW id \in TicketIds, Acknowledged(id), ~LatePending(id)
                 PROVE  tickets'[id].status = tickets[id].status
        OBVIOUS
    <2>1. id # 0
        BY <1>1, LenProperties DEF Consistent, TypeOK, StoreTypeOK
    <2>2. ~Writes(id)
        <3>1. \A p \in Pollers : ~(MarkPending(p) /\ poller[p].ticket.id = id)
            BY DEF LatePending, MarkPending
        <3>2. \A w \in Workers : Busy(w) => Tid(w) # id
            BY <1>1, <2>1, RowOfAWorker
        <3> QED
            BY <3>1, <3>2 DEF Writes, MarkInProgress, MarkFailed, MarkDone, Busy
    <2>3. CASE RowsWritten
        BY <2>2, <2>3 DEF RowsWritten
    <2>4. CASE \E p \in Pollers, line \in Lines : UpsertNew(p, line)
        BY <1>1, <2>4, Inserting
    <2> QED
        BY <1>1, <2>3, <2>4, RowsStep
<1> QED
    BY <1>1, AlwaysConsistent, MessagesAlwaysHeld, PTL DEF Spec, AcknowledgedIsFinal

-----------------------------------------------------------------------------
(* The refinement: what the pipeline does is a step of TicketDelivery, or  *)
(* nothing.                                                                *)

DeliveryStep == [Delivery!Next]_Delivery!vars

LEMMA MessageOfAnError ==
    ASSUME Consistent, NEW m \in MessageIds, IsTicketMessage(m)
    PROVE  /\ messages[m].tid \in TicketIds
           /\ MessagesAbout(Key(messages[m].tid)) = {m}
           /\ Cardinality(MessagesAbout(Key(messages[m].tid))) = 1
<1>1. messages[m].tid \in TicketIds
    BY DEF Consistent, MessagesNameRows
<1>2. MessagesAbout(Key(messages[m].tid)) = {m}
    BY <1>1 DEF MessagesAbout, Consistent, MessagesNameRows, OneMessagePerRow,
                RowsHaveUniqueKeys, IsTicketMessage
<1> QED
    BY <1>1, <1>2, FS_Singleton

LEMMA SameMessagesAbout ==
    ASSUME Consistent, \A id \in TicketIds : Key(id)' = Key(id), SameMessages
    PROVE  \A e : MessagesAbout(e)' = MessagesAbout(e)
BY DEF MessagesAbout, Consistent, MessagesNameRows, IsTicketMessage, SameMessages, Kept

LEMMA RaiseRefines ==
    ASSUME Consistent, NEW p \in Pollers, NEW line \in Lines, UpsertNew(p, line),
           UNCHANGED workerVars
    PROVE  DeliveryStep
<1>1. PICK id \in Nat :
        /\ id \notin TicketIds
        /\ TicketIds' = TicketIds \cup {id}
        /\ \A i \in TicketIds : tickets'[i] = tickets[i]
        /\ tickets'[id].status = "open"
        /\ Key(id)' \in AllErrors
        /\ \A i \in TicketIds : Key(i) # Key(id)'
        /\ UNCHANGED messages
    BY Inserting
<1>2. \A i \in TicketIds : Key(i)' = Key(i)
    BY <1>1 DEF Key
<1>3. \A e : MessagesAbout(e)' = MessagesAbout(e)
    BY <1>1, <1>2, Unchanged, SameMessagesAbout
<1>4. UNCHANGED ran
    BY DEF workerVars
<1> DEFINE e == Key(id)'
<1>5. Delivery!Raise(e)
    <2>1. e \notin {Key(i) : i \in TicketIds}
        BY <1>1
    <2>2. {Key(i) : i \in TicketIds}' = {Key(i) : i \in TicketIds} \cup {e}
        BY <1>1, <1>2
    <2>3. {Key(i) : i \in {j \in TicketIds : tickets[j].status = "done"}}'
            = {Key(i) : i \in {j \in TicketIds : tickets[j].status = "done"}}
        BY <1>1, <1>2
    <2>4. \A m : Worked(m)' = Worked(m)
        BY <1>4 DEF Worked
    <2> QED
        BY <1>1, <1>3, <2>1, <2>2, <2>3, <2>4 DEF Delivery!Raise
<1> QED
    BY <1>1, <1>5 DEF DeliveryStep, Delivery!Next

LEMMA SendRefines ==
    ASSUME Consistent, Grounded, NActions # 0, NEW p \in Pollers, Sends(p), UNCHANGED workerVars
    PROVE  DeliveryStep
<1>0. PICK id, e : id = poller[p].ticket.id /\ e = Key(id)
    OBVIOUS
<1>1. PICK m :
        /\ MessageIds' = MessageIds \cup {m} /\ m \notin MessageIds
        /\ \A n \in MessageIds : messages'[n] = messages[n]
        /\ messages'[m].tid = id /\ messages'[m].state = "visible"
        /\ id \in TicketIds /\ id # 0 /\ ~HasMessage(id)
        /\ UNCHANGED tickets
    BY <1>0, Sending
<1>2. e \in AllErrors
    BY <1>0, <1>1 DEF Grounded, KeysAreErrors
<1>3. UNCHANGED ran
    BY DEF workerVars
<1>4. MessagesAbout(e) = {} /\ MessagesAbout(e)' = {m}
    BY <1>0, <1>1
    DEF MessagesAbout, Consistent, MessagesNameRows, RowsHaveUniqueKeys, IsTicketMessage,
        HasMessage, Key
<1>5. \A f : f # e => MessagesAbout(f)' = MessagesAbout(f)
    BY <1>0, <1>1 DEF MessagesAbout, IsTicketMessage, Key, Consistent, MessagesNameRows
<1>6. Cardinality(MessagesAbout(e)) = 0 /\ Cardinality(MessagesAbout(e))' = 1
    BY <1>4, FS_EmptySet, FS_Singleton
<1>7. ~Worked(m) /\ \A n : Worked(n)' = Worked(n)
    <2>1. <<m, 1>> \notin ran
        BY <1>1 DEF Grounded, RanHasMessages
    <2> QED
        BY <1>3, <2>1, WorkerAssumption DEF Worked
<1>8. Delivery!Send(e)
    <2>1. [f \in AllErrors |-> Cardinality(MessagesAbout(f))]'
            = [[f \in AllErrors |-> Cardinality(MessagesAbout(f))] EXCEPT ![e] = 1]
        BY <1>2, <1>5, <1>6
    <2>2. e \in {Key(i) : i \in TicketIds}
        BY <1>0, <1>1
    <2>3. /\ {Key(i) : i \in TicketIds}' = {Key(i) : i \in TicketIds}
          /\ {Key(i) : i \in {j \in TicketIds : tickets[j].status = "done"}}'
                = {Key(i) : i \in {j \in TicketIds : tickets[j].status = "done"}}
        BY <1>1 DEF Key
    <2>4. {f \in AllErrors : \E n \in MessagesAbout(f) : Worked(n)}'
            = {f \in AllErrors : \E n \in MessagesAbout(f) : Worked(n)}
        BY <1>4, <1>5, <1>7
    <2>5. {f \in AllErrors : \E n \in MessagesAbout(f) : messages[n].state = "deleted"}'
            = {f \in AllErrors : \E n \in MessagesAbout(f) : messages[n].state = "deleted"}
        <3>1. \A f, n : n \in MessagesAbout(f) => messages'[n] = messages[n]
            BY <1>1 DEF MessagesAbout
        <3> QED
            BY <1>1, <1>4, <1>5, <3>1
    <2> QED
        BY <1>2, <1>6, <2>1, <2>2, <2>3, <2>4, <2>5 DEF Delivery!Send
<1> QED
    BY <1>2, <1>8 DEF DeliveryStep, Delivery!Next

LEMMA WorkRefines ==
    ASSUME Consistent, Grounded, NEW w \in Workers, ActionOK(w)
    PROVE  DeliveryStep
<1>0. PICK m, e : m = worker[w].msg /\ e = Key(messages[m].tid)
    OBVIOUS
<1> DEFINE done == {f \in AllErrors : \E n \in MessagesAbout(f) : Worked(n)}
<1>1. UNCHANGED <<tickets, messages>> /\ ran' = ran \cup {<<m, worker[w].done + 1>>}
    BY <1>0 DEF ActionOK, storeVars
<1>2. m \in MessageIds
    BY <1>0 DEF ActionOK, Busy, Consistent, WorkersKnowMessages
<1>3. \A f : MessagesAbout(f)' = MessagesAbout(f)
    BY <1>1 DEF MessagesAbout, IsTicketMessage, Key
<1>4. \A n : /\ Worked(n) => Worked(n)'
             /\ n # m => Worked(n)' = Worked(n)
    BY <1>1 DEF Worked
<1>5. UNCHANGED <<{Key(i) : i \in TicketIds},
                  [f \in AllErrors |-> Cardinality(MessagesAbout(f))],
                  {Key(i) : i \in {j \in TicketIds : tickets[j].status = "done"}},
                  {f \in AllErrors :
                        \E n \in MessagesAbout(f) : messages[n].state = "deleted"}>>
    BY <1>1, <1>3 DEF Key
<1>6. CASE done' = done
    BY <1>5, <1>6 DEF DeliveryStep, Delivery!vars
<1>7. CASE IsTicketMessage(m) /\ Worked(m)'
    <2>1. /\ messages[m].tid \in TicketIds
          /\ MessagesAbout(e) = {m} /\ Cardinality(MessagesAbout(e)) = 1
        BY <1>0, <1>2, <1>7, MessageOfAnError
    <2>2. e \in AllErrors
        BY <1>0, <2>1 DEF Grounded, KeysAreErrors
    <2>3. done' = done \cup {e}
        <3>1. \A f : f # e => m \notin MessagesAbout(f)
            BY <1>0 DEF MessagesAbout
        <3> QED
            BY <1>3, <1>4, <1>7, <2>1, <2>2, <3>1
    <2>4. Delivery!Work(e)
        BY <1>5, <2>1, <2>2, <2>3 DEF Delivery!Work
    <2> QED
        BY <2>2, <2>4 DEF DeliveryStep, Delivery!Next
<1>8. CASE ~IsTicketMessage(m) \/ ~Worked(m)'
    <2>1. \A f, n : n \in MessagesAbout(f) => (Worked(n)' <=> Worked(n))
        BY <1>4, <1>8 DEF MessagesAbout
    <2>2. done' = done
        BY <1>3, <2>1
    <2> QED
        BY <1>6, <2>2
<1> QED
    BY <1>7, <1>8

LEMMA NothingRefines ==
    ASSUME Consistent, UNCHANGED <<messages, ran>>, SameRows,
           \A id \in TicketIds : tickets'[id].status = tickets[id].status
    PROVE  DeliveryStep
<1>1. \A e : MessagesAbout(e)' = MessagesAbout(e)
    BY Unchanged, SameMessagesAbout DEF SameRows
<1> QED
    BY <1>1 DEF SameRows, DeliveryStep, Delivery!vars, Worked

(* Each write of a status closes an error, opens it again or does nothing. *)
LEMMA StatusRefines ==
    ASSUME Consistent, Grounded, NEW id, NEW status \in Statuses, UpdateStatus(id, status),
           UNCHANGED <<messages, ran>>,
           status = "done" => \E m \in MessageIds : messages[m].tid = id /\ Worked(m)
    PROVE  DeliveryStep
<1>0. PICK e : e = Key(id)
    OBVIOUS
<1> DEFINE closed == {Key(i) : i \in {j \in TicketIds : tickets[j].status = "done"}}
<1>1. /\ TicketIds' = TicketIds
      /\ \A i \in TicketIds :
            /\ Key(i)' = Key(i)
            /\ tickets'[i].status = IF i = id THEN status ELSE tickets[i].status
    BY StatusWritten DEF Consistent, TypeOK, StoreTypeOK
<1>2. \A f : MessagesAbout(f)' = MessagesAbout(f)
    BY <1>1, Unchanged, SameMessagesAbout
<1>3. UNCHANGED <<{Key(i) : i \in TicketIds},
                  [f \in AllErrors |-> Cardinality(MessagesAbout(f))],
                  {f \in AllErrors : \E n \in MessagesAbout(f) : Worked(n)},
                  {f \in AllErrors :
                        \E n \in MessagesAbout(f) : messages[n].state = "deleted"}>>
    BY <1>1, <1>2 DEF Worked
<1>4. CASE id \notin TicketIds
    <2>1. closed' = closed
        BY <1>1, <1>4
    <2> QED
        BY <1>3, <2>1 DEF DeliveryStep, Delivery!vars
<1>5. CASE id \in TicketIds /\ status = "done"
    <2>1. closed' = closed \cup {e}
        BY <1>0, <1>1, <1>5
    <2>2. PICK m \in MessageIds : messages[m].tid = id /\ Worked(m)
        BY <1>5
    <2>3. e \in AllErrors /\ m \in MessagesAbout(e)
        <3>1. id # 0
            BY <1>5, LenProperties DEF Consistent, TypeOK, StoreTypeOK
        <3> QED
            BY <1>0, <1>5, <2>2, <3>1 DEF Grounded, KeysAreErrors, MessagesAbout, IsTicketMessage
    <2>4. Delivery!Close(e)
        BY <1>3, <2>1, <2>2, <2>3 DEF Delivery!Close
    <2> QED
        BY <2>3, <2>4 DEF DeliveryStep, Delivery!Next
<1>6. CASE id \in TicketIds /\ status # "done"
    <2>1. closed' = closed \ {e}
        BY <1>0, <1>1, <1>6 DEF Consistent, RowsHaveUniqueKeys
    <2>2. e \in AllErrors /\ Delivery!Reopen(e)
        BY <1>0, <1>3, <1>6, <2>1 DEF Grounded, KeysAreErrors, Delivery!Reopen
    <2> QED
        BY <2>2 DEF DeliveryStep, Delivery!Next
<1> QED
    BY <1>4, <1>5, <1>6

LEMMA WriteRefines ==
    ASSUME Consistent, Grounded, NEW w \in Workers, UNCHANGED pollerVars,
           MarkInProgress(w) \/ MarkFailed(w) \/ MarkDone(w)
    PROVE  DeliveryStep
<1>1. UNCHANGED <<messages, ran>>
    BY DEF MarkInProgress, MarkFailed, MarkDone
<1>2. CASE UNCHANGED tickets
    BY <1>1, <1>2, NothingRefines, Unchanged
<1>3. CASE MarkInProgress(w) /\ UpdateStatus(Tid(w), "in_progress")
    BY <1>1, <1>3, StatusRefines DEF Statuses
<1>4. CASE MarkFailed(w) /\ UpdateStatus(Tid(w), "failed")
    BY <1>1, <1>4, StatusRefines DEF Statuses
<1>5. CASE MarkDone(w) /\ UpdateStatus(Tid(w), "done")
    <2>1. /\ worker[w].msg \in MessageIds /\ messages[worker[w].msg].tid = Tid(w)
          /\ Worked(worker[w].msg)
        BY <1>5 DEF MarkDone, Busy, Consistent, WorkersKnowMessages, Worked, Tid, Msg
    <2> QED
        BY <1>1, <1>5, <2>1, StatusRefines DEF Statuses
<1> QED
    BY <1>2, <1>3, <1>4, <1>5 DEF MarkInProgress, MarkFailed, MarkDone, WriteStatus

LEMMA MessagesMovedRefines ==
    ASSUME Consistent, Grounded, NEW m \in MessageIds, SameMessages,
           UNCHANGED <<tickets, ran>>,
           \A n \in MessageIds : messages[n].state = "deleted" => messages'[n].state = "deleted",
           \A n \in MessageIds :
                messages'[n].state = "deleted" => messages[n].state = "deleted" \/ n = m,
           IsTicketMessage(m) /\ messages'[m].state = "deleted" => Worked(m)
    PROVE  DeliveryStep
<1>0. PICK e : e = Key(messages[m].tid)
    OBVIOUS
<1> DEFINE gone ==
        {f \in AllErrors : \E n \in MessagesAbout(f) : messages[n].state = "deleted"}
<1>1. \A i \in TicketIds : Key(i)' = Key(i)
    BY DEF Key
<1>2. \A f : MessagesAbout(f)' = MessagesAbout(f)
    BY <1>1, SameMessagesAbout
<1>3. UNCHANGED <<{Key(i) : i \in TicketIds},
                  [f \in AllErrors |-> Cardinality(MessagesAbout(f))],
                  {f \in AllErrors : \E n \in MessagesAbout(f) : Worked(n)},
                  {Key(i) : i \in {j \in TicketIds : tickets[j].status = "done"}}>>
    BY <1>1, <1>2 DEF Worked
<1>4. \A f : MessagesAbout(f) \subseteq MessageIds
    BY DEF MessagesAbout
<1>5. CASE IsTicketMessage(m) /\ messages'[m].state = "deleted"
    <2>1. /\ messages[m].tid \in TicketIds
          /\ MessagesAbout(e) = {m}
          /\ \A f : f # e => m \notin MessagesAbout(f)
        BY <1>0, <1>5, MessageOfAnError DEF MessagesAbout
    <2>2. e \in AllErrors
        BY <1>0, <2>1 DEF Grounded, KeysAreErrors
    <2>3. gone' = gone \cup {e}
        BY <1>2, <1>4, <1>5, <2>1, <2>2
    <2>4. Delivery!Remove(e)
        BY <1>3, <1>5, <2>1, <2>2, <2>3 DEF Delivery!Remove
    <2> QED
        BY <2>2, <2>4 DEF DeliveryStep, Delivery!Next
<1>6. CASE ~IsTicketMessage(m) \/ messages'[m].state # "deleted"
    <2>1. \A f, n : n \in MessagesAbout(f) =>
            (messages'[n].state = "deleted" <=> messages[n].state = "deleted")
        BY <1>4, <1>6 DEF MessagesAbout
    <2>2. gone' = gone
        BY <1>2, <2>1
    <2> QED
        BY <1>3, <2>2 DEF DeliveryStep, Delivery!vars
<1> QED
    BY <1>5, <1>6

LEMMA PollerRefines ==
    ASSUME Consistent, Grounded, NActions # 0, NEW p \in Pollers, PollerStep(p),
           UNCHANGED workerVars
    PROVE  DeliveryStep
<1>1. tickets \in Seq(Row) /\ UNCHANGED ran
    BY DEF Consistent, TypeOK, StoreTypeOK, workerVars
<1>2. CASE UNCHANGED <<tickets, messages>>
    BY <1>1, <1>2, NothingRefines, Unchanged
<1>3. CASE \E line \in Lines : UpsertCounted(p, line)
    BY <1>1, <1>3, OccurrenceCounted, NothingRefines DEF UpsertCounted, SameRows
<1>4. CASE RecordMessageId(p)
    <2>1. UNCHANGED messages
        BY <1>4 DEF RecordMessageId
    <2> QED
        BY <1>1, <1>2, <1>4, <2>1, IdRecorded, NothingRefines DEF RecordMessageId, SameRows
<1>5. CASE MarkPending(p)
    <2>1. UNCHANGED messages
        BY <1>5 DEF MarkPending
    <2> QED
        BY <1>1, <1>2, <1>5, <2>1, StatusRefines DEF MarkPending, Statuses
<1>6. CASE Sends(p)
    BY <1>6, SendRefines
<1>7. CASE \E line \in Lines : UpsertNew(p, line)
    BY <1>7, RaiseRefines
<1> QED
    BY <1>2, <1>3, <1>4, <1>5, <1>6, <1>7, PollerMovesMessages
    DEF PollerStep, StartPoll, EndPoll, DropEntry, UpsertEntry, UpsertSkipped, SkipTicket,
        PublishOK, PublishFails, Notify, storeVars

LEMMA WorkerRefines ==
    ASSUME Consistent, Grounded, AppsAgree, NEW w \in Workers, WorkerStep(w),
           UNCHANGED pollerVars
    PROVE  DeliveryStep
<1>1. CASE UNCHANGED <<tickets, messages, ran>>
    BY <1>1, NothingRefines, Unchanged
<1>2. CASE ActionOK(w)
    BY <1>2, WorkRefines
<1>3. CASE MarkInProgress(w) \/ MarkFailed(w) \/ MarkDone(w)
    BY <1>3, WriteRefines
<1>4. CASE \E m : Receive(w, m) \/ ReceiveLost(w, m)
    <2>1. PICK m : ReceiveMessage(w, m) /\ UNCHANGED <<tickets, ran>>
        BY <1>4 DEF Receive, ReceiveLost, storeVars
    <2> QED
        BY <2>1, MessageReceived, MessagesMovedRefines
        DEF Consistent, DeletedOnlyAfterWork, AppsAgree, MessagesMatchRows
<1>5. CASE Discard(w) \/ GiveBack(w) \/ Ack(w)
    <2>1. Busy(w) /\ worker[w].msg \in MessageIds /\ UNCHANGED <<tickets, ran>>
        BY <1>5 DEF Discard, GiveBack, Ack, Busy, storeVars, Consistent, WorkersKnowMessages
    <2>2. /\ SameMessages
          /\ \A n \in MessageIds : messages'[n].state = "deleted" =>
                messages[n].state = "deleted" \/ n = worker[w].msg
          /\ GiveBack(w) => \A n \in MessageIds :
                messages'[n].state = "deleted" => messages[n].state = "deleted"
        BY <1>5, <2>1, QueueWritten DEF Discard, GiveBack, Ack
    <2>3. \A n \in MessageIds : messages[n].state = "deleted" => messages'[n].state = "deleted"
        BY WorkerMovesMessages DEF MessagesMoved
    <2>4. Discard(w) => ~IsTicketMessage(worker[w].msg)
        BY <2>1 DEF Discard, Malformed, Msg, AppsAgree, MessagesMatchRows
    <2>5. Ack(w) => Worked(worker[w].msg)
        BY <2>1 DEF Ack, Worked, Consistent, WorkersKnowMessages
    <2>6. IsTicketMessage(worker[w].msg) /\ messages[worker[w].msg].state = "deleted"
            => Worked(worker[w].msg)
        BY <2>1 DEF Consistent, DeletedOnlyAfterWork, AppsAgree, MessagesMatchRows
    <2> QED
        BY <1>5, <2>1, <2>2, <2>3, <2>4, <2>5, <2>6, MessagesMovedRefines
<1> QED
    BY <1>1, <1>2, <1>3, <1>4, <1>5
    DEF WorkerStep, BeginReceive, ReceiveNothing, Abandon, StartAction, ActionFails, BackOff,
        storeVars

LEMMA NextRefines ==
    ASSUME Consistent, Grounded, AppsAgree, NActions # 0, [Next]_vars
    PROVE  DeliveryStep
<1>1. CASE UNCHANGED <<tickets, messages, ran>>
    BY <1>1, NothingRefines, Unchanged
<1>2. CASE \E m \in MessageIds : Expire(m)
    <2>1. PICK m \in MessageIds : Expire(m)
        BY <1>2
    <2>2. messages[m] \in Message(Apps \cup {NoApp})
        BY ElementOfSeq, LenProperties DEF Consistent, TypeOK
    <2>3. /\ SameMessages
          /\ \A n \in MessageIds :
                messages'[n].state = "deleted" <=> messages[n].state = "deleted"
        BY <2>1, <2>2 DEF Expire, ExpireVisibility, Message, SameMessages, Kept
    <2>4. UNCHANGED <<tickets, ran>> /\ messages[m].state # "deleted"
        BY <2>1 DEF Expire, ExpireVisibility, storeVars, workerVars
    <2> QED
        BY <2>3, <2>4, MessagesMovedRefines
<1> QED
    BY <1>1, <1>2, PollerRefines, WorkerRefines
    DEF Next, vars, storeVars, workerVars, Pause, Cancel, Restart, StopWorkers, DayPasses,
        Midnight

LEMMA StaysGrounded ==
    ASSUME Consistent, Grounded, [Next]_vars
    PROVE  Grounded'
<1>1. KeysAreErrors'
    <2>1. CASE RowsWritten
        BY <2>1 DEF Grounded, KeysAreErrors, RowsWritten, SameRows
    <2>2. CASE \E p \in Pollers, line \in Lines : UpsertNew(p, line)
        <3>1. PICK new \in Nat :
                /\ TicketIds' = TicketIds \cup {new}
                /\ \A i \in TicketIds : tickets'[i] = tickets[i]
                /\ Key(new)' \in AllErrors
            BY <2>2, Inserting
        <3>2. \A i \in TicketIds : Key(i)' = Key(i)
            BY <3>1 DEF Key
        <3> QED
            BY <3>1, <3>2 DEF Grounded, KeysAreErrors
    <2> QED
        BY <2>1, <2>2, RowsStep
<1>2. MessageIds \subseteq MessageIds'
    BY MessagesStep, Sending DEF MessagesMoved, SameMessages
<1>3. ran' = ran \/ \E w \in Workers : ActionOK(w)
    BY DEF Next, vars, workerVars, WorkerStep, BeginReceive, Receive, ReceiveLost,
           ReceiveNothing, Discard, GiveBack, Abandon, MarkInProgress, StartAction, ActionFails,
           MarkFailed, BackOff, MarkDone, Ack, Expire, Pause, Cancel, Restart, StopWorkers,
           DayPasses
<1>4. ASSUME NEW w \in Workers, ActionOK(w)
      PROVE  worker[w].msg \in MessageIds /\ ran' = ran \cup {<<worker[w].msg, worker[w].done + 1>>}
    BY <1>4 DEF ActionOK, Busy, Consistent, WorkersKnowMessages
<1>5. RanHasMessages'
    BY <1>2, <1>3, <1>4 DEF Grounded, RanHasMessages
<1> QED
    BY <1>1, <1>5 DEF Grounded

(***************************************************************************)
(* The pipeline implements TicketDelivery: whatever the goroutines, the    *)
(* failures and the restarts, each error is raised once, given to the      *)
(* queue at most once, and closed or taken from the queue only after its   *)
(* actions.  Without an action a message would be worked on as it is sent. *)
(***************************************************************************)
THEOREM DeliveryImplemented ==
    ASSUME NActions # 0
    PROVE  Spec => ImplementsDelivery
<1>1. Init => Grounded /\ Delivery!Init
    <2> SUFFICES ASSUME Init PROVE Grounded /\ Delivery!Init
        OBVIOUS
    <2>1. TicketIds = {} /\ ran = {}
        BY EmptySeq DEF Init, StoreInit, WorkerInit
    <2>2. \A e : MessagesAbout(e) = {}
        BY ForeignAssumption DEF Init, QueueInit, MessagesAbout, IsTicketMessage
    <2>3. \A e : Cardinality(MessagesAbout(e)) = 0
        BY <2>2, FS_EmptySet
    <2> QED
        BY <2>1, <2>2, <2>3 DEF Grounded, KeysAreErrors, RanHasMessages, Delivery!Init
<1>2. Consistent /\ Grounded /\ [Next]_vars => Grounded'
    BY StaysGrounded
<1>3. Consistent /\ Grounded /\ AppsAgree /\ [Next]_vars => [Delivery!Next]_Delivery!vars
    BY NextRefines DEF DeliveryStep
<1> QED
    BY <1>1, <1>2, <1>3, AlwaysConsistent, AppsAlwaysAgree, PTL
    DEF Spec, ImplementsDelivery, Delivery!Spec
=============================================================================
