--------------------------- MODULE SentinelProofs ---------------------------
(***************************************************************************)
(* Proofs about Sentinel, for every value of its constants.                *)
(***************************************************************************)
EXTENDS Sentinel, SequenceTheorems, TLAPS

USE DEF MessageIds, TicketIds

-----------------------------------------------------------------------------
(* What each write to the table does to the rows.                          *)

LEMMA StatusWritten ==
    ASSUME tickets \in Seq(Row), NEW id, NEW status \in Statuses,
           UpdateStatus(id, status)
    PROVE  /\ tickets' \in Seq(Row)
           /\ TicketIds' = TicketIds
           /\ \A i \in TicketIds :
                /\ Key(i)' = Key(i)
                /\ tickets'[i].app = tickets[i].app
                /\ tickets'[i].hasMessageId = tickets[i].hasMessageId
                /\ tickets'[i].status = IF i = id THEN status ELSE tickets[i].status
<1>1. CASE id \notin TicketIds
    BY <1>1 DEF UpdateStatus, Key
<1>2. CASE id \in TicketIds
    <2>1. tickets[id] \in Row /\ id \in 1..Len(tickets)
        BY <1>2, ElementOfSeq, LenProperties
    <2>2. [tickets[id] EXCEPT !.status = status] \in Row
        BY <2>1 DEF Row
    <2>3. tickets' = [tickets EXCEPT ![id] = [tickets[id] EXCEPT !.status = status]]
        BY <1>2 DEF UpdateStatus
    <2>4. tickets' \in Seq(Row)
        BY <2>1, <2>2, <2>3, ExceptSeq
    <2>5. DOMAIN tickets' = DOMAIN tickets
        BY <2>3
    <2>6. ASSUME NEW i \in TicketIds
          PROVE  /\ Key(i)' = Key(i)
                 /\ tickets'[i].app = tickets[i].app
                 /\ tickets'[i].hasMessageId = tickets[i].hasMessageId
                 /\ tickets'[i].status = IF i = id THEN status ELSE tickets[i].status
        BY <2>1, <2>3 DEF Key, Row
    <2> QED
        BY <2>4, <2>5, <2>6
<1> QED
    BY <1>1, <1>2

LEMMA IdRecorded ==
    ASSUME tickets \in Seq(Row), NEW id, UpdateSQSMessageID(id)
    PROVE  /\ tickets' \in Seq(Row)
           /\ TicketIds' = TicketIds
           /\ \A i \in TicketIds :
                /\ Key(i)' = Key(i)
                /\ tickets'[i].app = tickets[i].app
                /\ tickets'[i].status = tickets[i].status
                /\ i # id => tickets'[i].hasMessageId = tickets[i].hasMessageId
<1>1. CASE id \notin TicketIds
    BY <1>1 DEF UpdateSQSMessageID, Key
<1>2. CASE id \in TicketIds
    <2>1. tickets[id] \in Row /\ id \in 1..Len(tickets)
        BY <1>2, ElementOfSeq, LenProperties
    <2>2. [tickets[id] EXCEPT !.hasMessageId = TRUE] \in Row
        BY <2>1 DEF Row
    <2>3. tickets' = [tickets EXCEPT ![id] = [tickets[id] EXCEPT !.hasMessageId = TRUE]]
        BY <1>2 DEF UpdateSQSMessageID
    <2>4. tickets' \in Seq(Row)
        BY <2>1, <2>2, <2>3, ExceptSeq
    <2>5. DOMAIN tickets' = DOMAIN tickets
        BY <2>3
    <2>6. ASSUME NEW i \in TicketIds
          PROVE  /\ Key(i)' = Key(i)
                 /\ tickets'[i].app = tickets[i].app
                 /\ tickets'[i].status = tickets[i].status
                 /\ i # id => tickets'[i].hasMessageId = tickets[i].hasMessageId
        BY <2>1, <2>3 DEF Key, Row
    <2> QED
        BY <2>4, <2>5, <2>6
<1> QED
    BY <1>1, <1>2

LEMMA OccurrenceCounted ==
    ASSUME tickets \in Seq(Row), NEW app, NEW line, NEW id, CountTicket(app, line, id)
    PROVE  /\ id \in TicketIds
           /\ tickets' \in Seq(Row)
           /\ TicketIds' = TicketIds
           /\ \A i \in TicketIds :
                /\ Key(i)' = Key(i)
                /\ tickets'[i].app = tickets[i].app
                /\ tickets'[i].status = tickets[i].status
                /\ tickets'[i].hasMessageId = tickets[i].hasMessageId
<1>1. id \in TicketIds
    BY DEF CountTicket, Existing
<1>2. tickets[id] \in Row /\ id \in 1..Len(tickets)
    BY <1>1, ElementOfSeq, LenProperties
<1>3. [tickets[id] EXCEPT !.count = tickets[id].count + 1] \in Row
    <2>1. tickets[id].count + 1 \in Nat
        BY <1>2 DEF Row
    <2> QED
        BY <1>2, <2>1, SMTT(60) DEF Row
<1>4. tickets' = [tickets EXCEPT ![id] = [tickets[id] EXCEPT !.count = tickets[id].count + 1]]
    BY <1>1 DEF CountTicket
<1>5. tickets' \in Seq(Row)
    BY <1>2, <1>3, <1>4, ExceptSeq
<1>6. DOMAIN tickets' = DOMAIN tickets
    BY <1>4
<1>7. ASSUME NEW i \in TicketIds
      PROVE  /\ Key(i)' = Key(i)
             /\ tickets'[i].app = tickets[i].app
             /\ tickets'[i].status = tickets[i].status
             /\ tickets'[i].hasMessageId = tickets[i].hasMessageId
    BY <1>2, <1>4 DEF Key, Row
<1> QED
    BY <1>1, <1>5, <1>6, <1>7

LEMMA TicketInserted ==
    ASSUME tickets \in Seq(Row), today \in Nat, NEW app \in Apps, NEW line \in Lines,
           InsertTicket(app, line)
    PROVE  /\ tickets' \in Seq(Row)
           /\ \E new \in Nat :
                /\ new = Len(tickets')
                /\ new \notin TicketIds /\ new # 0
                /\ TicketIds' = TicketIds \cup {new}
                /\ \A i \in TicketIds : tickets'[i] = tickets[i]
                /\ tickets'[new].app = app
                /\ tickets'[new].status = "open"
                /\ ~tickets'[new].hasMessageId
                /\ Key(new)' = <<app, line, today>>
                /\ \A i \in TicketIds : Key(i) # Key(new)'
<1> DEFINE row == [app |-> app, hash |-> line, date |-> today, status |-> "open",
                   count |-> 1, hasMessageId |-> FALSE]
<1>1. row \in Row
    BY DEF Row, Statuses
<1>2. tickets' = Append(tickets, row)
    BY DEF InsertTicket
<1>3. PICK new \in Nat : new = Len(tickets) + 1
    OBVIOUS
<1>4. /\ tickets' \in Seq(Row)
      /\ Len(tickets') = new
      /\ \A i \in 1..Len(tickets) : tickets'[i] = tickets[i]
      /\ tickets'[new] = row
    BY <1>1, <1>2, <1>3, AppendProperties
<1>5. /\ new \notin TicketIds /\ new # 0
      /\ TicketIds = 1..Len(tickets) /\ TicketIds' = TicketIds \cup {new}
    <2>1. Len(tickets) \in Nat /\ TicketIds = 1..Len(tickets) /\ TicketIds' = 1..new
        BY <1>4, LenProperties
    <2> QED
        BY <1>3, <2>1
<1>6. /\ tickets'[new].app = app
      /\ tickets'[new].status = "open"
      /\ ~tickets'[new].hasMessageId
      /\ Key(new)' = <<app, line, today>>
    BY <1>4 DEF Key
<1>7. \A i \in TicketIds : Key(i) # Key(new)'
    BY <1>6 DEF InsertTicket, Existing
<1> QED
    BY <1>3, <1>4, <1>5, <1>6, <1>7

-----------------------------------------------------------------------------
(* What each call does to the messages.                                    *)

Messages == Seq(Message(Apps \cup {NoApp}))

(* The message that position m had keeps its body, its attribute and its   *)
(* ticket.                                                                 *)
Kept(m) ==
    /\ messages'[m].tid = messages[m].tid
    /\ messages'[m].app = messages[m].app
    /\ messages'[m].body = messages[m].body

LEMMA MessageSent ==
    ASSUME messages \in Messages, NEW tid \in Nat, NEW app \in Apps, SendMessage(tid, app)
    PROVE  /\ messages' \in Messages
           /\ MessageIds' = MessageIds \cup {Len(messages) + 1}
           /\ Len(messages) + 1 \notin MessageIds
           /\ \A m \in MessageIds : messages'[m] = messages[m]
           /\ messages'[Len(messages) + 1].tid = tid
           /\ messages'[Len(messages) + 1].app = app
           /\ messages'[Len(messages) + 1].body = "ticket"
           /\ messages'[Len(messages) + 1].state = "visible"
<1> DEFINE message == [tid |-> tid, app |-> app, body |-> "ticket",
                       state |-> "visible", holder |-> NoWorker]
<1>1. message \in Message(Apps \cup {NoApp})
    BY DEF Message, MessageStates
<1>2. messages' = Append(messages, message)
    BY DEF SendMessage
<1>3. /\ messages' \in Messages
      /\ Len(messages') = Len(messages) + 1
      /\ \A i \in 1..Len(messages) : messages'[i] = messages[i]
      /\ messages'[Len(messages) + 1] = message
    BY <1>1, <1>2, AppendProperties DEF Messages
<1>4. /\ Len(messages) \in Nat
      /\ MessageIds = 1..Len(messages)
      /\ MessageIds' = 1..(Len(messages) + 1)
    BY <1>3, LenProperties DEF Messages
<1> QED
    BY <1>3, <1>4

LEMMA MessageReplaced ==
    ASSUME messages \in Messages, NEW m \in MessageIds,
           NEW message \in Message(Apps \cup {NoApp}),
           message.tid = messages[m].tid,
           message.app = messages[m].app,
           message.body = messages[m].body,
           messages' = [messages EXCEPT ![m] = message]
    PROVE  /\ messages' \in Messages
           /\ MessageIds' = MessageIds
           /\ \A n \in MessageIds : Kept(n) /\ (n # m => messages'[n] = messages[n])
           /\ messages'[m] = message
<1>1. m \in 1..Len(messages)
    BY LenProperties DEF Messages
<1>2. messages' \in Messages
    BY <1>1, ExceptSeq DEF Messages
<1> QED
    BY <1>2 DEF Kept

-----------------------------------------------------------------------------
(* What is kept while the rows keep their keys and the messages their      *)
(* bodies, whatever happens to statuses and visibility.                    *)

SameRows ==
    /\ TicketIds' = TicketIds
    /\ \A i \in TicketIds : Key(i)' = Key(i)

SameMessages ==
    /\ MessageIds' = MessageIds
    /\ \A m \in MessageIds : Kept(m)

Facts == Consistent /\ SameRows /\ SameMessages

LEMMA SameHasMessage ==
    ASSUME SameMessages
    PROVE  \A id : HasMessage(id)' = HasMessage(id)
BY DEF SameMessages, HasMessage, Kept

LEMMA Unchanged ==
    /\ UNCHANGED tickets => SameRows
    /\ UNCHANGED messages => SameMessages
BY DEF SameRows, SameMessages, Kept, Key

LEMMA RowsAndMessagesKept ==
    ASSUME Facts
    PROVE  RowsHaveUniqueKeys' /\ MessagesNameRows' /\ OneMessagePerRow'
<1>1. RowsHaveUniqueKeys'
    BY DEF Facts, Consistent, SameRows, RowsHaveUniqueKeys
<1>2. MessagesNameRows' /\ OneMessagePerRow'
    BY DEF Facts, Consistent, SameRows, SameMessages, Kept, MessagesNameRows,
           OneMessagePerRow, IsTicketMessage
<1> QED
    BY <1>1, <1>2

LEMMA PollersKept ==
    ASSUME Facts, UNCHANGED poller
    PROVE  PollersKnowRows'
BY SameHasMessage DEF Facts, Consistent, SameRows, PollersKnowRows, At

LEMMA WorkersKept ==
    ASSUME Facts, UNCHANGED worker, ran \subseteq ran'
    PROVE  WorkersKnowMessages'
BY DEF Facts, Consistent, SameMessages, Kept, WorkersKnowMessages, Busy, Malformed, Msg

LEMMA RecordedKept ==
    ASSUME Facts,
           \A id \in TicketIds : tickets'[id].hasMessageId => tickets[id].hasMessageId
    PROVE  RecordedIdHasMessage'
BY SameHasMessage DEF Facts, Consistent, SameRows, RecordedIdHasMessage

LEMMA DoneKept ==
    ASSUME Facts, ran \subseteq ran',
           \A id \in TicketIds : tickets'[id].status = "done" => tickets[id].status = "done"
    PROVE  DoneMeansWorked'
BY DEF Facts, Consistent, SameRows, SameMessages, Kept, DoneMeansWorked, Worked

LEMMA DeletedKept ==
    ASSUME Facts, ran \subseteq ran',
           \A m \in MessageIds : messages'[m].state = "deleted" => messages[m].state = "deleted"
    PROVE  DeletedOnlyAfterWork'
BY DEF Facts, Consistent, SameMessages, Kept, DeletedOnlyAfterWork, Worked

-----------------------------------------------------------------------------
(* The steps of a poller.                                                  *)

LEMMA PollerGoesOn ==
    ASSUME Consistent, NEW p \in Pollers, UNCHANGED workerVars,
           StartPoll(p) \/ EndPoll(p) \/ DropEntry(p) \/ Notify(p)
           \/ \E line \in Lines : UpsertSkipped(p, line)
    PROVE  Consistent'
<1>1. UNCHANGED <<tickets, messages, ran, worker, storeVars, processVars>>
    BY DEF StartPoll, EndPoll, DropEntry, Notify, UpsertSkipped, SkipTicket,
           workerVars, storeVars
<1>2. Facts
    BY <1>1, Unchanged DEF Facts
<1>3. \/ poller' = poller
      \/ \E ticket \in LocalTicket, step \in {"waiting", "entries"} :
            poller' = [poller EXCEPT ![p] = [at |-> step, ticket |-> ticket]]
    <2>1. poller[p].ticket \in LocalTicket /\ NoTicket \in LocalTicket
        BY DEF Consistent, TypeOK, PollerTypeOK, NoTicket, LocalTicket, Statuses
    <2>2. poller[p] = [at |-> poller[p].at, ticket |-> poller[p].ticket]
        BY DEF Consistent, TypeOK, PollerTypeOK
    <2>3. \A step : Goto(p, step) =>
            poller' = [poller EXCEPT ![p] = [at |-> step, ticket |-> poller[p].ticket]]
        BY <2>2 DEF Goto, Consistent, TypeOK, PollerTypeOK
    <2> QED
        BY <2>1, <2>3 DEF StartPoll, EndPoll, DropEntry, Notify, UpsertSkipped, GotoWith
<1>4. TypeOK'
    <2>1. poller' \in [Pollers -> [at: PollerSteps, ticket: LocalTicket]]
        BY <1>3 DEF Consistent, TypeOK, PollerTypeOK, PollerSteps
    <2>2. entriesSeen' \in 0..MaxEntries
        BY PollerAssumption DEF Consistent, TypeOK, PollerTypeOK, TakeEntry, StartPoll,
           EndPoll, DropEntry, Notify, UpsertSkipped
    <2> QED
        BY <1>1, <2>1, <2>2 DEF Consistent, TypeOK, ProcessTypeOK, processVars, StoreTypeOK,
           storeVars, PollerTypeOK, WorkerTypeOK, workerVars
<1>5. PollersKnowRows'
    BY <1>1, <1>2, <1>3, SameHasMessage
    DEF Facts, Consistent, TypeOK, PollerTypeOK, PollersKnowRows, SameRows, At
<1> QED
    BY <1>1, <1>2, <1>4, <1>5, RowsAndMessagesKept, WorkersKept, RecordedKept, DoneKept,
       DeletedKept DEF Consistent

LEMMA UpsertNewKeeps ==
    ASSUME Consistent, NEW p \in Pollers, NEW line \in Lines, UNCHANGED workerVars,
           UpsertNew(p, line)
    PROVE  Consistent'
<1>1. /\ UNCHANGED <<messages, ran, worker, today, stranded, processVars>>
      /\ InsertTicket(PollerApp[p], line)
      /\ PollerApp[p] \in Apps
      /\ tickets \in Seq(Row) /\ today \in Nat
    BY PollerAssumption, StoreAssumption
    DEF UpsertNew, workerVars, Consistent, TypeOK, StoreTypeOK
<1>2. PICK new \in Nat :
        /\ new = Len(tickets')
        /\ new \notin TicketIds /\ new # 0
        /\ TicketIds' = TicketIds \cup {new}
        /\ \A i \in TicketIds : tickets'[i] = tickets[i]
        /\ tickets'[new].app = PollerApp[p]
        /\ tickets'[new].status = "open"
        /\ ~tickets'[new].hasMessageId
        /\ \A i \in TicketIds : Key(i) # Key(new)'
    BY <1>1, TicketInserted
<1>3. poller' = [poller EXCEPT ![p] =
                    [at |-> "publish", ticket |-> [id |-> new, status |-> "open", isNew |-> TRUE]]]
    BY <1>2 DEF UpsertNew, GotoWith
<1>4. TypeOK'
    <2>1. tickets' \in Seq(Row)
        BY <1>1, TicketInserted
    <2>2. [id |-> new, status |-> "open", isNew |-> TRUE] \in LocalTicket
        BY DEF LocalTicket, Statuses
    <2>3. poller' \in [Pollers -> [at: PollerSteps, ticket: LocalTicket]]
        BY <1>3, <2>2 DEF Consistent, TypeOK, PollerTypeOK, PollerSteps
    <2>4. entriesSeen' \in 0..MaxEntries
        BY PollerAssumption DEF Consistent, TypeOK, PollerTypeOK, UpsertNew, TakeEntry
    <2> QED
        BY <1>1, <2>1, <2>3, <2>4 DEF Consistent, TypeOK, ProcessTypeOK, processVars,
           StoreTypeOK, PollerTypeOK, WorkerTypeOK
<1>5. \A i \in TicketIds : Key(i)' = Key(i)
    BY <1>2 DEF Key
<1>6. RowsHaveUniqueKeys'
    BY <1>2, <1>5 DEF Consistent, RowsHaveUniqueKeys
<1>7. MessagesNameRows' /\ OneMessagePerRow'
    BY <1>1, <1>2 DEF Consistent, MessagesNameRows, OneMessagePerRow, IsTicketMessage
<1>8. \A id : HasMessage(id)' = HasMessage(id)
    BY <1>1 DEF HasMessage
<1>9. ~HasMessage(new)
    BY <1>2 DEF Consistent, MessagesNameRows, IsTicketMessage, HasMessage
<1>10. PollersKnowRows'
    BY <1>2, <1>3, <1>8, <1>9 DEF Consistent, TypeOK, PollerTypeOK, PollersKnowRows, At
<1>11. WorkersKnowMessages'
    BY <1>1 DEF Consistent, WorkersKnowMessages, Busy, Malformed, Msg
<1>12. RecordedIdHasMessage'
    BY <1>2, <1>8 DEF Consistent, RecordedIdHasMessage
<1>13. DoneMeansWorked'
    BY <1>1, <1>2 DEF Consistent, DoneMeansWorked, Worked
<1>14. DeletedOnlyAfterWork'
    BY <1>1 DEF Consistent, DeletedOnlyAfterWork, Worked
<1> QED
    BY <1>4, <1>6, <1>7, <1>10, <1>11, <1>12, <1>13, <1>14 DEF Consistent

LEMMA UpsertCountedKeeps ==
    ASSUME Consistent, NEW p \in Pollers, NEW line \in Lines, UNCHANGED workerVars,
           UpsertCounted(p, line)
    PROVE  Consistent'
<1>1. UNCHANGED <<messages, ran, worker, today, stranded, processVars>>
    BY DEF UpsertCounted, workerVars
<1>2. PICK id \in TicketIds :
        /\ CountTicket(PollerApp[p], line, id)
        /\ GotoWith(p, "notify", [id |-> id, status |-> tickets[id].status, isNew |-> FALSE])
    BY DEF UpsertCounted
<1>3. /\ tickets' \in Seq(Row)
      /\ TicketIds' = TicketIds
      /\ \A i \in TicketIds :
            /\ Key(i)' = Key(i)
            /\ tickets'[i].app = tickets[i].app
            /\ tickets'[i].status = tickets[i].status
            /\ tickets'[i].hasMessageId = tickets[i].hasMessageId
    BY <1>2, OccurrenceCounted DEF Consistent, TypeOK, StoreTypeOK
<1>4. Facts
    BY <1>1, <1>3, Unchanged DEF Facts, SameRows
<1>5. TypeOK'
    <2>1. tickets[id] \in Row /\ id \in Nat
        BY ElementOfSeq, LenProperties DEF Consistent, TypeOK, StoreTypeOK
    <2>2. [id |-> id, status |-> tickets[id].status, isNew |-> FALSE] \in LocalTicket
        BY <2>1 DEF LocalTicket, Row
    <2>3. poller' \in [Pollers -> [at: PollerSteps, ticket: LocalTicket]]
        BY <1>2, <2>2 DEF GotoWith, Consistent, TypeOK, PollerTypeOK, PollerSteps
    <2>4. entriesSeen' \in 0..MaxEntries
        BY PollerAssumption DEF Consistent, TypeOK, PollerTypeOK, UpsertCounted, TakeEntry
    <2> QED
        BY <1>1, <1>3, <2>3, <2>4 DEF Consistent, TypeOK, ProcessTypeOK, processVars,
           StoreTypeOK, PollerTypeOK, WorkerTypeOK
<1>6. PollersKnowRows'
    BY <1>2, <1>3, <1>4, SameHasMessage
    DEF Facts, GotoWith, Consistent, TypeOK, PollerTypeOK, PollersKnowRows, At
<1> QED
    BY <1>1, <1>3, <1>4, <1>5, <1>6, RowsAndMessagesKept, WorkersKept, RecordedKept,
       DoneKept, DeletedKept DEF Consistent

LEMMA SendKeeps ==
    ASSUME Consistent, NEW p \in Pollers, UNCHANGED workerVars,
           At(p, "publish"), SendMessage(poller[p].ticket.id, PollerApp[p]),
           Goto(p, "recordId") \/ Goto(p, "markPending"),
           UNCHANGED <<entriesSeen, processVars, storeVars>>
    PROVE  Consistent'
<1> DEFINE id == poller[p].ticket.id
           m == Len(messages) + 1
<1>1. UNCHANGED <<tickets, ran, worker, storeVars, processVars>>
    BY DEF storeVars, workerVars
<1>2. id \in TicketIds /\ id \in Nat /\ ~HasMessage(id)
    BY DEF Consistent, TypeOK, PollerTypeOK, LocalTicket, PollersKnowRows, At
<1>3. /\ messages' \in Messages
      /\ MessageIds' = MessageIds \cup {m} /\ m \notin MessageIds
      /\ \A n \in MessageIds : messages'[n] = messages[n]
      /\ messages'[m].tid = id /\ messages'[m].state = "visible"
    BY <1>2, MessageSent, PollerAssumption DEF Consistent, TypeOK, Messages
<1> HIDE DEF m
<1>4. TypeOK'
    <2>1. poller' \in [Pollers -> [at: PollerSteps, ticket: LocalTicket]]
        BY DEF Goto, Consistent, TypeOK, PollerTypeOK, PollerSteps
    <2> QED
        BY <1>1, <1>3, <2>1 DEF Consistent, TypeOK, ProcessTypeOK, processVars, StoreTypeOK,
           storeVars, Messages, PollerTypeOK, WorkerTypeOK
<1>5. RowsHaveUniqueKeys'
    BY <1>1 DEF Consistent, RowsHaveUniqueKeys, Key
<1>6. MessagesNameRows'
    BY <1>1, <1>2, <1>3 DEF Consistent, MessagesNameRows, IsTicketMessage
<1>7. OneMessagePerRow'
    BY <1>2, <1>3 DEF Consistent, OneMessagePerRow, IsTicketMessage, HasMessage
<1>8. \A i : HasMessage(i)' <=> HasMessage(i) \/ i = id
    BY <1>3 DEF HasMessage
<1>9. PollersKnowRows'
    BY <1>1, <1>8 DEF Goto, Consistent, TypeOK, PollerTypeOK, PollersKnowRows, At
<1>10. WorkersKnowMessages'
    BY <1>1, <1>3 DEF Consistent, WorkersKnowMessages, Busy, Malformed, Msg
<1>11. RecordedIdHasMessage'
    BY <1>1, <1>8 DEF Consistent, RecordedIdHasMessage
<1>12. DoneMeansWorked'
    BY <1>1, <1>3 DEF Consistent, DoneMeansWorked, Worked
<1>13. DeletedOnlyAfterWork'
    BY <1>1, <1>3 DEF Consistent, DeletedOnlyAfterWork, Worked
<1> QED
    BY <1>4, <1>5, <1>6, <1>7, <1>9, <1>10, <1>11, <1>12, <1>13 DEF Consistent

LEMMA NothingSentKeeps ==
    ASSUME Consistent, NEW p \in Pollers, UNCHANGED workerVars,
           At(p, "publish"), UNCHANGED messages, Goto(p, "markPending"),
           UNCHANGED <<entriesSeen, processVars, storeVars>>
    PROVE  Consistent'
<1>1. UNCHANGED <<tickets, messages, ran, worker, storeVars, processVars>>
    BY DEF storeVars, workerVars
<1>2. Facts
    BY <1>1, Unchanged DEF Facts
<1>3. TypeOK'
    <2>1. poller' \in [Pollers -> [at: PollerSteps, ticket: LocalTicket]]
        BY DEF Goto, Consistent, TypeOK, PollerTypeOK, PollerSteps
    <2> QED
        BY <1>1, <2>1 DEF Consistent, TypeOK, ProcessTypeOK, processVars, StoreTypeOK,
           storeVars, PollerTypeOK, WorkerTypeOK
<1>4. PollersKnowRows'
    BY <1>2, SameHasMessage
    DEF Facts, Goto, Consistent, TypeOK, PollerTypeOK, PollersKnowRows, SameRows, At
<1> QED
    BY <1>1, <1>2, <1>3, <1>4, RowsAndMessagesKept, WorkersKept, RecordedKept, DoneKept,
       DeletedKept DEF Consistent

LEMMA RecordMessageIdKeeps ==
    ASSUME Consistent, NEW p \in Pollers, UNCHANGED workerVars, RecordMessageId(p)
    PROVE  Consistent'
<1> DEFINE id == poller[p].ticket.id
<1>1. UNCHANGED <<messages, ran, worker, entriesSeen, today, stranded, processVars>>
    BY DEF RecordMessageId, workerVars
<1>2. id \in TicketIds /\ HasMessage(id)
    BY DEF RecordMessageId, Consistent, PollersKnowRows, At
<1>3. UpdateSQSMessageID(id) \/ UNCHANGED tickets
    BY DEF RecordMessageId
<1>4. /\ tickets' \in Seq(Row)
      /\ TicketIds' = TicketIds
      /\ \A i \in TicketIds :
            /\ Key(i)' = Key(i)
            /\ tickets'[i].status = tickets[i].status
            /\ i # id => tickets'[i].hasMessageId = tickets[i].hasMessageId
    <2>1. CASE UpdateSQSMessageID(id)
        BY <2>1, IdRecorded DEF Consistent, TypeOK, StoreTypeOK
    <2>2. CASE UNCHANGED tickets
        BY <2>2 DEF Consistent, TypeOK, StoreTypeOK, Key
    <2> QED
        BY <1>3, <2>1, <2>2
<1>5. Facts
    BY <1>1, <1>4, Unchanged DEF Facts, SameRows
<1>6. TypeOK'
    <2>1. poller' \in [Pollers -> [at: PollerSteps, ticket: LocalTicket]]
        BY DEF RecordMessageId, Goto, Consistent, TypeOK, PollerTypeOK, PollerSteps
    <2> QED
        BY <1>1, <1>4, <2>1 DEF Consistent, TypeOK, ProcessTypeOK, processVars, StoreTypeOK,
           PollerTypeOK, WorkerTypeOK
<1>7. PollersKnowRows'
    BY <1>5, SameHasMessage
    DEF RecordMessageId, Facts, Goto, Consistent, TypeOK, PollerTypeOK, PollersKnowRows,
        SameRows, At
<1>8. RecordedIdHasMessage'
    BY <1>2, <1>4, <1>5, SameHasMessage DEF Facts, Consistent, RecordedIdHasMessage
<1> QED
    BY <1>1, <1>4, <1>5, <1>6, <1>7, <1>8, RowsAndMessagesKept, WorkersKept, DoneKept,
       DeletedKept DEF Consistent

LEMMA MarkPendingKeeps ==
    ASSUME Consistent, NEW p \in Pollers, UNCHANGED workerVars, MarkPending(p)
    PROVE  Consistent'
<1> DEFINE id == poller[p].ticket.id
<1>1. UNCHANGED <<messages, ran, worker, entriesSeen, today, processVars>>
    BY DEF MarkPending, workerVars
<1>2. id \in TicketIds /\ id \in Nat
    BY DEF MarkPending, Consistent, TypeOK, PollerTypeOK, LocalTicket, PollersKnowRows, At
<1>3. UpdateStatus(id, "pending") \/ UNCHANGED tickets
    BY DEF MarkPending
<1>4. /\ tickets' \in Seq(Row)
      /\ TicketIds' = TicketIds
      /\ \A i \in TicketIds :
            /\ Key(i)' = Key(i)
            /\ tickets'[i].hasMessageId = tickets[i].hasMessageId
            /\ tickets'[i].status = "done" => tickets[i].status = "done"
    <2>1. CASE UpdateStatus(id, "pending")
        BY <2>1, StatusWritten DEF Statuses, Consistent, TypeOK, StoreTypeOK
    <2>2. CASE UNCHANGED tickets
        BY <2>2 DEF Consistent, TypeOK, StoreTypeOK, Key
    <2> QED
        BY <1>3, <2>1, <2>2
<1>5. Facts
    BY <1>1, <1>4, Unchanged DEF Facts, SameRows
<1>6. TypeOK'
    <2>0. [poller[p].ticket EXCEPT !.status = "pending"] \in LocalTicket
        BY DEF Consistent, TypeOK, PollerTypeOK, LocalTicket, Statuses
    <2>1. poller' \in [Pollers -> [at: PollerSteps, ticket: LocalTicket]]
        BY <2>0 DEF MarkPending, GotoWith, Consistent, TypeOK, PollerTypeOK, PollerSteps
    <2>2. stranded' \subseteq Nat
        BY <1>2 DEF MarkPending, Consistent, TypeOK, StoreTypeOK
    <2> QED
        BY <1>1, <1>4, <2>1, <2>2 DEF Consistent, TypeOK, ProcessTypeOK, processVars,
           StoreTypeOK, PollerTypeOK, WorkerTypeOK
<1>7. PollersKnowRows'
    BY <1>5, SameHasMessage
    DEF MarkPending, GotoWith, Facts, Consistent, TypeOK, PollerTypeOK, PollersKnowRows, SameRows, At,
        LocalTicket
<1> QED
    BY <1>1, <1>4, <1>5, <1>6, <1>7, RowsAndMessagesKept, WorkersKept, RecordedKept, DoneKept,
       DeletedKept DEF Consistent

LEMMA PollerKeeps ==
    ASSUME Consistent, NEW p \in Pollers, PollerStep(p), UNCHANGED workerVars
    PROVE  Consistent'
<1>1. CASE PublishOK(p)
    BY <1>1, SendKeeps DEF PublishOK
<1>2. CASE PublishFails(p)
    BY <1>2, SendKeeps, NothingSentKeeps DEF PublishFails
<1> QED
    BY <1>1, <1>2, PollerGoesOn, UpsertNewKeeps, UpsertCountedKeeps, RecordMessageIdKeeps,
       MarkPendingKeeps DEF PollerStep, UpsertEntry

-----------------------------------------------------------------------------
(* The steps of a worker goroutine.                                        *)

WorkerRecord == [at: WorkerSteps, msg: Nat, done: 0..NActions]

LEMMA WorkerTypeKept ==
    ASSUME Consistent, NEW w \in Workers, NEW r \in WorkerRecord,
           worker' = [worker EXCEPT ![w] = r],
           UNCHANGED <<pollerVars, processVars>>,
           tickets' \in Seq(Row), today' = today, stranded' \subseteq Nat,
           messages' \in Messages,
           ran' \subseteq Nat \X (1..NActions)
    PROVE  TypeOK'
BY DEF WorkerRecord, Consistent, TypeOK, ProcessTypeOK, processVars, StoreTypeOK, Messages,
       PollerTypeOK, pollerVars, WorkerTypeOK

LEMMA WorkerMoved ==
    ASSUME Consistent, NEW w \in Workers, NEW step \in WorkerSteps, Step(w, step)
    PROVE  /\ [at |-> step, msg |-> worker[w].msg, done |-> worker[w].done] \in WorkerRecord
           /\ worker' = [worker EXCEPT ![w] =
                            [at |-> step, msg |-> worker[w].msg, done |-> worker[w].done]]
<1>1. worker[w] \in WorkerRecord
    BY DEF WorkerRecord, Consistent, TypeOK, WorkerTypeOK
<1>2. [worker[w] EXCEPT !.at = step]
        = [at |-> step, msg |-> worker[w].msg, done |-> worker[w].done]
    BY <1>1 DEF WorkerRecord
<1>3. worker' = [worker EXCEPT ![w] = [worker[w] EXCEPT !.at = step]]
    BY DEF Step
<1> QED
    BY <1>1, <1>2, <1>3 DEF WorkerRecord

LEMMA IdleIsARecord == Idle \in WorkerRecord /\ Idle.at = "idle"
BY WorkerAssumption DEF Idle, WorkerRecord, WorkerSteps

LEMMA WorkerGoesOn ==
    ASSUME Consistent, NEW w \in Workers, UNCHANGED pollerVars,
           BeginReceive(w) \/ ReceiveNothing(w) \/ Abandon(w) \/ StartAction(w)
           \/ ActionFails(w) \/ BackOff(w)
    PROVE  Consistent'
<1>1. UNCHANGED <<tickets, messages, ran, poller, storeVars, processVars>>
    BY DEF BeginReceive, ReceiveNothing, Abandon, StartAction, ActionFails, BackOff, storeVars,
           pollerVars
<1>2. Facts
    BY <1>1, Unchanged DEF Facts
<1>3. PICK r \in WorkerRecord :
        /\ worker' = [worker EXCEPT ![w] = r]
        /\ \/ r.at \in {"idle", "polling"}
           \/ /\ r.at \in {"running", "failing"}
              /\ r.msg = worker[w].msg /\ r.done = worker[w].done
              /\ Busy(w) /\ worker[w].at # "received" /\ worker[w].done < NActions
    <2>1. CASE BeginReceive(w)
        BY <2>1, WorkerMoved DEF BeginReceive, WorkerSteps
    <2>2. CASE ReceiveNothing(w) \/ Abandon(w) \/ BackOff(w)
        BY <2>2, IdleIsARecord DEF ReceiveNothing, Abandon, BackOff, Finish
    <2>3. CASE StartAction(w)
        BY <2>3, WorkerMoved DEF StartAction, WorkerSteps, Busy
    <2>4. CASE ActionFails(w)
        BY <2>4, WorkerMoved DEF ActionFails, WorkerSteps, Busy, Consistent, WorkersKnowMessages
    <2> QED
        BY <2>1, <2>2, <2>3, <2>4
<1>4. TypeOK'
    BY <1>1, <1>3, WorkerTypeKept
    DEF Consistent, TypeOK, StoreTypeOK, storeVars, WorkerTypeOK, Messages
<1>5. WorkersKnowMessages'
    BY <1>1, <1>3 DEF Consistent, TypeOK, WorkerTypeOK, WorkersKnowMessages, Busy, Malformed,
                      Msg
<1> QED
    BY <1>1, <1>2, <1>4, <1>5, RowsAndMessagesKept, PollersKept, RecordedKept, DoneKept,
       DeletedKept DEF Consistent

LEMMA ReceiveKeeps ==
    ASSUME Consistent, NEW w \in Workers, NEW m, UNCHANGED pollerVars,
           Receive(w, m) \/ ReceiveLost(w, m)
    PROVE  Consistent'
<1>1. UNCHANGED <<tickets, ran, poller, storeVars, processVars>>
    BY DEF Receive, ReceiveLost, storeVars, pollerVars
<1>2. m \in MessageIds /\ m \in Nat /\ messages \in Messages /\ ReceiveMessage(w, m)
    BY LenProperties DEF Receive, ReceiveLost, ReceiveMessage, Consistent, TypeOK, Messages
<1> DEFINE message == [messages[m] EXCEPT !.state = "inflight", !.holder = w]
<1>3. /\ message \in Message(Apps \cup {NoApp})
      /\ message.tid = messages[m].tid
      /\ message.app = messages[m].app
      /\ message.body = messages[m].body
      /\ message.state = "inflight"
    <2>1. messages[m] \in Message(Apps \cup {NoApp})
        BY <1>2, ElementOfSeq, LenProperties DEF Messages
    <2> QED
        BY <2>1 DEF Message, MessageStates
<1>4. messages' = [messages EXCEPT ![m] = message]
    BY <1>2 DEF ReceiveMessage
<1> HIDE DEF message
<1>5. /\ messages' \in Messages
      /\ MessageIds' = MessageIds
      /\ \A n \in MessageIds : Kept(n) /\ (n # m => messages'[n] = messages[n])
      /\ messages'[m] = message
    BY <1>2, <1>3, <1>4, MessageReplaced
<1>6. Facts
    BY <1>1, <1>5, Unchanged DEF Facts, SameMessages
<1>7. PICK r \in WorkerRecord :
        /\ worker' = [worker EXCEPT ![w] = r]
        /\ r.at = "idle" \/ r = [at |-> "received", msg |-> m, done |-> 0]
    BY <1>2, IdleIsARecord, WorkerAssumption
    DEF Receive, ReceiveLost, Finish, WorkerRecord, WorkerSteps
<1>8. TypeOK'
    BY <1>1, <1>5, <1>7, WorkerTypeKept
    DEF Consistent, TypeOK, StoreTypeOK, storeVars, WorkerTypeOK
<1>9. WorkersKnowMessages'
    <2> SUFFICES ASSUME NEW v \in Workers, Busy(v)'
                 PROVE  /\ worker'[v].msg \in MessageIds'
                        /\ worker'[v].at # "received" => ~Malformed(v)'
                        /\ worker'[v].at = "running" => worker'[v].done < NActions
                        /\ worker'[v].at = "acking" => worker'[v].done = NActions
                        /\ \A k \in 1..worker'[v].done : <<worker'[v].msg, k>> \in ran'
        BY DEF WorkersKnowMessages
    <2>1. CASE v = w
        <3>1. worker'[v] = r
            BY <1>7, <2>1 DEF Consistent, TypeOK, WorkerTypeOK
        <3>2. r.at = "received" /\ r.msg = m /\ r.done = 0
            BY <1>7, <3>1 DEF Busy
        <3> QED
            BY <1>2, <1>5, <3>1, <3>2
    <2>2. CASE v # w
        <3>1. worker'[v] = worker[v]
            BY <1>7, <2>2 DEF Consistent, TypeOK, WorkerTypeOK
        <3> QED
            BY <1>1, <1>5, <3>1
            DEF Consistent, WorkersKnowMessages, Busy, Malformed, Msg, Kept
    <2> QED
        BY <2>1, <2>2
<1>10. DeletedOnlyAfterWork'
    BY <1>1, <1>3, <1>5, <1>6, DeletedKept
<1> QED
    BY <1>1, <1>6, <1>8, <1>9, <1>10, RowsAndMessagesKept, PollersKept, RecordedKept, DoneKept
    DEF Consistent

LEMMA QueueWritten ==
    ASSUME Consistent, NEW w \in Workers, Busy(w),
           \/ DeleteMessage(w, worker[w].msg)
           \/ MakeVisible(w, worker[w].msg)
           \/ UNCHANGED messages
    PROVE  /\ messages' \in Messages
           /\ SameMessages
           /\ \A n \in MessageIds : messages'[n].state = "deleted" =>
                messages[n].state = "deleted" \/ n = worker[w].msg
           /\ MakeVisible(w, worker[w].msg) =>
                \A n \in MessageIds : messages'[n].state = "deleted" => messages[n].state = "deleted"
<1> DEFINE m == worker[w].msg
<1>1. m \in MessageIds /\ messages \in Messages
    BY DEF Consistent, TypeOK, WorkersKnowMessages, Messages
<1>2. messages[m] \in Message(Apps \cup {NoApp})
    BY <1>1, ElementOfSeq, LenProperties DEF Messages
<1>3. ASSUME NEW state \in MessageStates, messages' = [messages EXCEPT ![m].state = state]
      PROVE  /\ messages' \in Messages
             /\ SameMessages
             /\ \A n \in MessageIds : n # m => messages'[n] = messages[n]
             /\ messages'[m].state = state
    <2> DEFINE message == [messages[m] EXCEPT !.state = state]
    <2>1. /\ message \in Message(Apps \cup {NoApp})
          /\ message.tid = messages[m].tid
          /\ message.app = messages[m].app
          /\ message.body = messages[m].body
          /\ message.state = state
        BY <1>2 DEF Message
    <2>2. messages' = [messages EXCEPT ![m] = message]
        BY <1>3
    <2> HIDE DEF message
    <2> QED
        BY <1>1, <2>1, <2>2, MessageReplaced DEF SameMessages
<1>4. CASE UNCHANGED messages
    BY <1>1, <1>4, Unchanged
<1>5. CASE messages' = [messages EXCEPT ![m].state = "deleted"]
    <2>1. ~MakeVisible(w, m) \/ UNCHANGED messages
        BY <1>1, <1>3, <1>5 DEF MakeVisible, MessageStates
    <2> QED
        BY <1>3, <1>4, <1>5, <2>1 DEF MessageStates
<1>6. CASE messages' = [messages EXCEPT ![m].state = "visible"]
    BY <1>3, <1>6 DEF MessageStates
<1> QED
    BY <1>4, <1>5, <1>6 DEF DeleteMessage, MakeVisible

LEMMA DiscardGiveBackAckKeep ==
    ASSUME Consistent, NEW w \in Workers, UNCHANGED pollerVars,
           Discard(w) \/ GiveBack(w) \/ Ack(w)
    PROVE  Consistent'
<1> DEFINE m == worker[w].msg
<1>1. UNCHANGED <<tickets, ran, poller, storeVars, processVars>> /\ Finish(w)
    BY DEF Discard, GiveBack, Ack, storeVars, pollerVars
<1>2. Busy(w) /\ m \in MessageIds
    BY DEF Discard, GiveBack, Ack, Busy, Consistent, WorkersKnowMessages
<1>3. /\ messages' \in Messages
      /\ SameMessages
      /\ \A n \in MessageIds : messages'[n].state = "deleted" =>
            messages[n].state = "deleted" \/ n = m
      /\ MakeVisible(w, m) =>
            \A n \in MessageIds : messages'[n].state = "deleted" => messages[n].state = "deleted"
    BY <1>2, QueueWritten DEF Discard, GiveBack, Ack
<1>4. Facts
    BY <1>1, <1>3, Unchanged DEF Facts
<1>5. TypeOK'
    BY <1>1, <1>3, IdleIsARecord, WorkerTypeKept
    DEF Finish, Consistent, TypeOK, StoreTypeOK, storeVars, WorkerTypeOK
<1>6. WorkersKnowMessages'
    BY <1>1, <1>3, IdleIsARecord DEF Finish, Consistent, TypeOK, WorkerTypeOK,
       WorkersKnowMessages, Busy, Malformed, Msg, SameMessages, Kept
<1>7. DeletedOnlyAfterWork'
    <2>1. CASE Discard(w)
        BY <1>1, <1>2, <1>3, <2>1
        DEF Discard, Malformed, Msg, Consistent, DeletedOnlyAfterWork, Worked, SameMessages, Kept
    <2>2. CASE GiveBack(w)
        BY <1>1, <1>3, <1>4, <2>2, DeletedKept DEF GiveBack
    <2>3. CASE Ack(w)
        <3>1. Worked(m)
            BY <1>2, <2>3 DEF Ack, Worked, Consistent, WorkersKnowMessages
        <3> QED
            BY <1>1, <1>2, <1>3, <3>1
            DEF Consistent, DeletedOnlyAfterWork, Worked, SameMessages, Kept
    <2> QED
        BY <2>1, <2>2, <2>3
<1> QED
    BY <1>1, <1>4, <1>5, <1>6, <1>7, RowsAndMessagesKept, PollersKept, RecordedKept, DoneKept
    DEF Consistent

LEMMA StatusWriteKeeps ==
    ASSUME Consistent, NEW w \in Workers, UNCHANGED pollerVars,
           MarkInProgress(w) \/ MarkFailed(w) \/ MarkDone(w)
    PROVE  Consistent'
<1> DEFINE m == worker[w].msg
           id == Tid(w)
<1>1. UNCHANGED <<messages, ran, poller, today, processVars>>
    BY DEF MarkInProgress, MarkFailed, MarkDone, pollerVars
<1>2. Busy(w) /\ m \in MessageIds
    BY DEF MarkInProgress, MarkFailed, MarkDone, Busy, Consistent, WorkersKnowMessages
<1>3. id \in Nat
    <2>1. messages[m] \in Message(Apps \cup {NoApp})
        BY <1>2, ElementOfSeq, LenProperties DEF Consistent, TypeOK
    <2> QED
        BY <2>1 DEF Message, Tid, Msg
<1>4. \/ UpdateStatus(id, "in_progress") \/ UpdateStatus(id, "failed") \/ UNCHANGED tickets
      \/ UpdateStatus(id, "done") /\ MarkDone(w)
    BY DEF MarkInProgress, MarkFailed, MarkDone, WriteStatus
<1>5. /\ tickets' \in Seq(Row)
      /\ TicketIds' = TicketIds
      /\ \A i \in TicketIds :
            /\ Key(i)' = Key(i)
            /\ tickets'[i].hasMessageId = tickets[i].hasMessageId
            /\ tickets'[i].status = "done" =>
                    tickets[i].status = "done" \/ (i = id /\ MarkDone(w))
    <2>1. CASE UpdateStatus(id, "in_progress")
        BY <2>1, StatusWritten DEF Statuses, Consistent, TypeOK, StoreTypeOK
    <2>2. CASE UpdateStatus(id, "failed")
        BY <2>2, StatusWritten DEF Statuses, Consistent, TypeOK, StoreTypeOK
    <2>3. CASE UpdateStatus(id, "done") /\ MarkDone(w)
        BY <2>3, StatusWritten DEF Statuses, Consistent, TypeOK, StoreTypeOK
    <2>4. CASE UNCHANGED tickets
        BY <2>4 DEF Consistent, TypeOK, StoreTypeOK, Key
    <2> QED
        BY <1>4, <2>1, <2>2, <2>3, <2>4
<1>6. Facts
    BY <1>1, <1>5, Unchanged DEF Facts, SameRows
<1>7. PICK step \in {"acting", "backoff", "acking"} :
        /\ Step(w, step)
        /\ ~Malformed(w)
        /\ step = "acking" => worker[w].done = NActions
    BY DEF MarkInProgress, MarkFailed, MarkDone, Consistent, WorkersKnowMessages, Busy
<1> DEFINE r == [at |-> step, msg |-> worker[w].msg, done |-> worker[w].done]
<1>8. r \in WorkerRecord /\ worker' = [worker EXCEPT ![w] = r]
    <2>1. step \in WorkerSteps
        BY <1>7 DEF WorkerSteps
    <2> QED
        BY <1>7, <2>1, WorkerMoved
<1>9. TypeOK'
    <2>1. stranded' \subseteq Nat
        BY <1>3 DEF MarkInProgress, MarkFailed, MarkDone, Consistent, TypeOK, StoreTypeOK
    <2>2. UNCHANGED <<pollerVars, processVars>> /\ messages' \in Messages
        BY <1>1 DEF Consistent, TypeOK, Messages
    <2> QED
        BY <1>1, <1>5, <1>8, <2>1, <2>2, WorkerTypeKept DEF Consistent, TypeOK, WorkerTypeOK
<1>10. WorkersKnowMessages'
    BY <1>1, <1>2, <1>7, <1>8
    DEF Consistent, TypeOK, WorkerTypeOK, WorkersKnowMessages, Busy, Malformed, Msg
<1>11. DoneMeansWorked'
    <2>1. ASSUME MarkDone(w) PROVE Worked(m) /\ messages[m].tid = id
        BY <1>2, <2>1 DEF MarkDone, Worked, Consistent, WorkersKnowMessages, Tid, Msg
    <2> SUFFICES ASSUME NEW i \in TicketIds', tickets'[i].status = "done"
                 PROVE  \E n \in MessageIds : messages[n].tid = i /\ Worked(n)
        BY <1>1 DEF DoneMeansWorked, Worked
    <2>2. CASE tickets[i].status = "done"
        BY <1>5, <2>2 DEF Consistent, DoneMeansWorked
    <2>3. CASE i = id /\ MarkDone(w)
        BY <1>2, <2>1, <2>3
    <2> QED
        BY <1>5, <2>2, <2>3
<1> QED
    BY <1>1, <1>5, <1>6, <1>9, <1>10, <1>11, RowsAndMessagesKept, PollersKept, RecordedKept,
       DeletedKept DEF Consistent

LEMMA ActionOKKeeps ==
    ASSUME Consistent, NEW w \in Workers, UNCHANGED pollerVars, ActionOK(w)
    PROVE  Consistent'
<1> DEFINE m == worker[w].msg
           k == worker[w].done + 1
           r == [at |-> "acting", msg |-> m, done |-> k]
<1>1. UNCHANGED <<tickets, messages, poller, storeVars, processVars>>
      /\ ran' = ran \cup {<<m, k>>}
    BY DEF ActionOK, storeVars, pollerVars
<1>2. Facts
    BY <1>1, Unchanged DEF Facts
<1>3. /\ Busy(w) /\ m \in MessageIds /\ ~Malformed(w)
      /\ m \in Nat /\ worker[w].done \in 0..NActions /\ worker[w].done < NActions
    BY DEF ActionOK, Busy, Consistent, TypeOK, WorkerTypeOK, WorkersKnowMessages
<1>4. worker' = [worker EXCEPT ![w] = r]
    BY DEF ActionOK
<1>5. r \in WorkerRecord /\ k \in 1..NActions
    BY <1>3, WorkerAssumption DEF WorkerRecord, WorkerSteps
<1>6. TypeOK'
    <2>1. ran' \subseteq Nat \X (1..NActions)
        BY <1>1, <1>3, <1>5 DEF Consistent, TypeOK, WorkerTypeOK
    <2>2. tickets' \in Seq(Row) /\ today' = today /\ stranded' \subseteq Nat
          /\ messages' \in Messages /\ UNCHANGED <<pollerVars, processVars>>
        BY <1>1 DEF Consistent, TypeOK, StoreTypeOK, storeVars, Messages
    <2> HIDE DEF r
    <2> QED
        BY <1>4, <1>5, <2>1, <2>2, WorkerTypeKept
<1>7. WorkersKnowMessages'
    <2> SUFFICES ASSUME NEW v \in Workers, Busy(v)'
                 PROVE  /\ worker'[v].msg \in MessageIds'
                        /\ worker'[v].at # "received" => ~Malformed(v)'
                        /\ worker'[v].at = "running" => worker'[v].done < NActions
                        /\ worker'[v].at = "acking" => worker'[v].done = NActions
                        /\ \A j \in 1..worker'[v].done : <<worker'[v].msg, j>> \in ran'
        BY DEF WorkersKnowMessages
    <2>1. CASE v = w
        <3>1. worker'[v] = r
            BY <1>4, <2>1 DEF Consistent, TypeOK, WorkerTypeOK
        <3>2. \A j \in 1..k : <<m, j>> \in ran'
            BY <1>1, <1>3 DEF Consistent, WorkersKnowMessages
        <3> QED
            BY <1>1, <1>3, <2>1, <3>1, <3>2 DEF Malformed, Msg
    <2>2. CASE v # w
        <3>1. worker'[v] = worker[v]
            BY <1>4, <2>2 DEF Consistent, TypeOK, WorkerTypeOK
        <3> QED
            BY <1>1, <3>1 DEF Consistent, WorkersKnowMessages, Busy, Malformed, Msg
    <2> QED
        BY <2>1, <2>2
<1> QED
    BY <1>1, <1>2, <1>6, <1>7, RowsAndMessagesKept, PollersKept, RecordedKept, DoneKept,
       DeletedKept DEF Consistent

LEMMA WorkerKeeps ==
    ASSUME Consistent, NEW w \in Workers, WorkerStep(w), UNCHANGED pollerVars
    PROVE  Consistent'
BY WorkerGoesOn, ReceiveKeeps, DiscardGiveBackAckKeep, StatusWriteKeeps, ActionOKKeeps
DEF WorkerStep

-----------------------------------------------------------------------------
(* The steps of the queue, the user, the clock and the process.            *)

LEMMA ExpireKeeps ==
    ASSUME Consistent, NEW m \in MessageIds, Expire(m)
    PROVE  Consistent'
<1>1. UNCHANGED <<processVars, storeVars, tickets, poller, pollerVars, worker, ran, workerVars>>
    BY DEF Expire, storeVars, pollerVars, workerVars
<1>2. messages \in Messages /\ messages[m] \in Message(Apps \cup {NoApp})
    BY ElementOfSeq, LenProperties DEF Consistent, TypeOK, Messages
<1> DEFINE message == [messages[m] EXCEPT !.state = "visible"]
<1>3. /\ message \in Message(Apps \cup {NoApp})
      /\ message.tid = messages[m].tid
      /\ message.app = messages[m].app
      /\ message.body = messages[m].body
      /\ message.state = "visible"
    BY <1>2 DEF Message, MessageStates
<1>4. messages' = [messages EXCEPT ![m] = message]
    BY DEF Expire, ExpireVisibility
<1> HIDE DEF message
<1>5. /\ messages' \in Messages
      /\ SameMessages
      /\ \A n \in MessageIds : messages'[n].state = "deleted" => messages[n].state = "deleted"
    <2>1. /\ messages' \in Messages
          /\ MessageIds' = MessageIds
          /\ \A n \in MessageIds : Kept(n) /\ (n # m => messages'[n] = messages[n])
          /\ messages'[m] = message
        BY <1>2, <1>3, <1>4, MessageReplaced
    <2> QED
        BY <1>3, <2>1 DEF SameMessages
<1>6. Facts
    BY <1>1, <1>5, Unchanged DEF Facts
<1>7. TypeOK'
    BY <1>1, <1>5 DEF Consistent, TypeOK, ProcessTypeOK, processVars, StoreTypeOK, storeVars,
       Messages, PollerTypeOK, pollerVars, WorkerTypeOK, workerVars
<1> QED
    BY <1>1, <1>5, <1>6, <1>7, RowsAndMessagesKept, PollersKept, WorkersKept, RecordedKept,
       DoneKept, DeletedKept DEF Consistent

LEMMA UserAndClockKeep ==
    ASSUME Consistent, (\E flag \in PauseFlags : Pause(flag)) \/ Cancel \/ DayPasses
    PROVE  Consistent'
<1>1. UNCHANGED <<tickets, stranded, messages, poller, pollerVars, worker, ran, workerVars>>
    BY DEF Pause, Cancel, DayPasses, Midnight, storeVars, pollerVars, workerVars
<1>2. Facts
    BY <1>1, Unchanged DEF Facts
<1>3. ProcessTypeOK' /\ today' \in 0..MaxDay
    <2>1. CASE \E flag \in PauseFlags : Pause(flag)
        BY <2>1 DEF Pause, TogglePause, storeVars, Consistent, TypeOK, ProcessTypeOK, StoreTypeOK
    <2>2. CASE Cancel
        BY <2>2 DEF Cancel, CancelContext, storeVars, Consistent, TypeOK, ProcessTypeOK,
           StoreTypeOK
    <2>3. CASE DayPasses
        BY <2>3, StoreAssumption DEF DayPasses, Midnight, processVars, Consistent, TypeOK,
           ProcessTypeOK, StoreTypeOK
    <2> QED
        BY <2>1, <2>2, <2>3
<1>4. TypeOK'
    BY <1>1, <1>3 DEF Consistent, TypeOK, StoreTypeOK, PollerTypeOK, pollerVars, WorkerTypeOK,
       workerVars
<1> QED
    BY <1>1, <1>2, <1>4, RowsAndMessagesKept, PollersKept, WorkersKept, RecordedKept, DoneKept,
       DeletedKept DEF Consistent

LEMMA RestartKeeps ==
    ASSUME Consistent, Restart
    PROVE  Consistent'
<1>1. UNCHANGED <<tickets, today, messages, entriesSeen, ran>>
      /\ poller' = [p \in Pollers |-> [at |-> "waiting", ticket |-> NoTicket]]
      /\ worker' = [w \in Workers |-> Idle]
      /\ stranded' = stranded \cup UnsettledIds
    BY DEF Restart, StopPollers, StopWorkers
<1>2. Facts
    BY <1>1, Unchanged DEF Facts
<1>3. TypeOK'
    <2>1. ProcessTypeOK'
        <3>1. ctxDone' = FALSE /\ paused' = {}
            BY DEF Restart, RestartProcess
        <3>2. restarts' \in 0..MaxRestarts
            BY ProcessAssumption
            DEF Restart, RestartProcess, Consistent, TypeOK, ProcessTypeOK
        <3> QED
            BY <3>1, <3>2, Zenon DEF ProcessTypeOK
    <2>2. stranded' \subseteq Nat
        BY <1>1 DEF UnsettledIds, Consistent, TypeOK, StoreTypeOK, PollerTypeOK, LocalTicket
    <2>3. NoTicket \in LocalTicket
        BY DEF NoTicket, LocalTicket, Statuses
    <2>4. PollerTypeOK'
        BY <1>1, <2>3 DEF Consistent, TypeOK, PollerTypeOK, PollerSteps
    <2>5. WorkerTypeOK'
        BY <1>1, IdleIsARecord DEF WorkerRecord, Consistent, TypeOK, WorkerTypeOK
    <2> QED
        BY <1>1, <2>1, <2>2, <2>4, <2>5 DEF Consistent, TypeOK, StoreTypeOK
<1>4. PollersKnowRows'
    BY <1>1 DEF PollersKnowRows, At
<1>5. WorkersKnowMessages'
    BY <1>1, IdleIsARecord DEF WorkersKnowMessages, Busy
<1> QED
    BY <1>1, <1>2, <1>3, <1>4, <1>5, RowsAndMessagesKept, RecordedKept, DoneKept, DeletedKept
    DEF Consistent

-----------------------------------------------------------------------------
LEMMA InitConsistent == Init => Consistent
<1> SUFFICES ASSUME Init PROVE Consistent
    OBVIOUS
<1> USE DEF Init, ProcessInit, StoreInit, QueueInit, PollerInit, WorkerInit
<1>1. TypeOK
    <2>1. ProcessTypeOK
        <3>1. restarts \in 0..MaxRestarts
            BY ProcessAssumption
        <3> QED
            BY <3>1, Zenon DEF ProcessTypeOK
    <2>2. StoreTypeOK
        BY StoreAssumption, EmptySeq DEF StoreTypeOK
    <2>3. PollerTypeOK
        BY PollerAssumption DEF PollerTypeOK, PollerSteps, NoTicket, LocalTicket, Statuses
    <2>4. WorkerTypeOK
        BY IdleIsARecord DEF WorkerTypeOK, WorkerRecord
    <2> QED
        BY <2>1, <2>2, <2>3, <2>4, ForeignAssumption DEF TypeOK
<1>2. TicketIds = {}
    BY EmptySeq
<1>3. \A m \in MessageIds : messages[m].tid = 0 /\ messages[m].state = "visible"
    BY ForeignAssumption
<1>4. RowsHaveUniqueKeys /\ RecordedIdHasMessage /\ DoneMeansWorked
    BY <1>2 DEF RowsHaveUniqueKeys, RecordedIdHasMessage, DoneMeansWorked
<1>5. MessagesNameRows /\ OneMessagePerRow /\ DeletedOnlyAfterWork
    BY <1>3 DEF MessagesNameRows, OneMessagePerRow, DeletedOnlyAfterWork, IsTicketMessage
<1>6. PollersKnowRows
    BY DEF PollersKnowRows, At
<1>7. WorkersKnowMessages
    BY IdleIsARecord DEF WorkersKnowMessages, Busy
<1> QED
    BY <1>1, <1>4, <1>5, <1>6, <1>7 DEF Consistent

LEMMA StutterKeeps == Consistent /\ UNCHANGED vars => Consistent'
<1> SUFFICES ASSUME Consistent, UNCHANGED vars PROVE Consistent'
    OBVIOUS
<1>1. UNCHANGED <<processVars, ctxDone, paused, restarts, tickets, today, stranded, messages,
                  poller, entriesSeen, worker, ran>>
    BY DEF vars, processVars, storeVars, pollerVars, workerVars
<1>2. Facts
    BY <1>1, Unchanged DEF Facts
<1>3. TypeOK'
    BY <1>1 DEF Consistent, TypeOK, ProcessTypeOK, StoreTypeOK, PollerTypeOK, WorkerTypeOK
<1> QED
    BY <1>1, <1>2, <1>3, RowsAndMessagesKept, PollersKept, WorkersKept, RecordedKept, DoneKept,
       DeletedKept DEF Consistent

(***************************************************************************)
(* Whatever the applications, pollers, goroutines, lines, failures and     *)
(* restarts, the pollers, the workers, the table and the queue never       *)
(* contradict each other: types, unique keys, one message per row, what    *)
(* every goroutine assumes of its row and message, done and deleted only   *)
(* after the work.                                                         *)
(***************************************************************************)
THEOREM AlwaysConsistent == Spec => []Consistent
<1>1. ASSUME Consistent, [Next]_vars PROVE Consistent'
    BY <1>1, PollerKeeps, WorkerKeeps, ExpireKeeps, UserAndClockKeep, RestartKeeps,
       StutterKeeps DEF Next
<1> QED
    BY InitConsistent, <1>1, PTL DEF Spec

(***************************************************************************)
(* Every variable stays within its type.                                   *)
(***************************************************************************)
THEOREM TypeCorrect == Spec => []TypeOK
<1>1. Consistent => TypeOK
    BY DEF Consistent
<1> QED
    BY <1>1, AlwaysConsistent, PTL

(***************************************************************************)
(* An error of an application is given to the queue at most once a day:    *)
(* the unique index of the table, the publication of inserted rows only    *)
(* and the poller that settles a row before it goes on make up the proof.  *)
(***************************************************************************)
THEOREM AtMostOnceADay == Spec => []OneMessagePerError
<1>1. Consistent => OneMessagePerError
    BY DEF Consistent, OneMessagePerError, OneMessagePerRow, RowsHaveUniqueKeys,
       MessagesNameRows, IsTicketMessage
<1> QED
    BY <1>1, AlwaysConsistent, PTL

(***************************************************************************)
(* A row says done only if all actions completed for its message.          *)
(***************************************************************************)
THEOREM DoneAfterTheWork == Spec => []DoneMeansWorked
<1>1. Consistent => DoneMeansWorked
    BY DEF Consistent
<1> QED
    BY <1>1, AlwaysConsistent, PTL

(***************************************************************************)
(* A well-formed message is deleted only after all its actions completed.  *)
(***************************************************************************)
THEOREM DeletedAfterTheWork == Spec => []DeletedOnlyAfterWork
<1>1. Consistent => DeletedOnlyAfterWork
    BY DEF Consistent
<1> QED
    BY <1>1, AlwaysConsistent, PTL

(***************************************************************************)
(* A row that records a message id has a message.                          *)
(***************************************************************************)
THEOREM RecordedAfterSending == Spec => []RecordedIdHasMessage
<1>1. Consistent => RecordedIdHasMessage
    BY DEF Consistent
<1> QED
    BY <1>1, AlwaysConsistent, PTL

-----------------------------------------------------------------------------
(* Without an overrun of the visibility timeout.                           *)

LEMMA PollerLeavesMessages ==
    ASSUME Consistent, NEW p \in Pollers, PollerStep(p), NEW m \in MessageIds
    PROVE  messages'[m] = messages[m]
<1>1. CASE \E id : SendMessage(id, PollerApp[p]) /\ At(p, "publish") /\ id = poller[p].ticket.id
    <2>1. poller[p].ticket.id \in Nat /\ PollerApp[p] \in Apps
        BY PollerAssumption DEF Consistent, TypeOK, PollerTypeOK, LocalTicket
    <2> QED
        BY <1>1, <2>1, MessageSent DEF Consistent, TypeOK, Messages
<1>2. CASE UNCHANGED messages
    BY <1>2
<1> QED
    BY <1>1, <1>2
    DEF PollerStep, StartPoll, EndPoll, DropEntry, UpsertEntry, UpsertNew, UpsertSkipped,
        UpsertCounted, PublishOK, PublishFails, RecordMessageId, MarkPending, Notify

LEMMA ReceiveHolds ==
    ASSUME Consistent, WorkersHoldMessages, NEW w \in Workers, NEW m,
           Receive(w, m) \/ ReceiveLost(w, m)
    PROVE  WorkersHoldMessages'
<1>1. m \in MessageIds /\ m \in Nat /\ messages \in Messages /\ ReceiveMessage(w, m)
    BY LenProperties DEF Receive, ReceiveLost, ReceiveMessage, Consistent, TypeOK, Messages
<1>2. messages[m] \in Message(Apps \cup {NoApp})
    BY <1>1, ElementOfSeq, LenProperties DEF Messages
<1>3. /\ messages[m].state = "visible"
      /\ messages'[m].state = "inflight" /\ messages'[m].holder = w
      /\ \A n \in MessageIds : n # m => messages'[n] = messages[n]
    BY <1>1, <1>2 DEF ReceiveMessage, Message
<1>4. \A v \in Workers :
        IF v = w THEN worker'[v].at = "idle" \/ worker'[v].msg = m ELSE worker'[v] = worker[v]
    BY DEF Receive, ReceiveLost, Finish, Idle, Consistent, TypeOK, WorkerTypeOK
<1> QED
    BY <1>1, <1>3, <1>4
    DEF WorkersHoldMessages, Consistent, WorkersKnowMessages, Busy, Msg

LEMMA ReleaseHolds ==
    ASSUME Consistent, WorkersHoldMessages, NEW w \in Workers,
           Discard(w) \/ GiveBack(w) \/ Ack(w)
    PROVE  WorkersHoldMessages'
<1>1. Busy(w) /\ worker[w].msg \in MessageIds
    BY DEF Discard, GiveBack, Ack, Busy, Consistent, WorkersKnowMessages
<1>2. \A n \in MessageIds : n # worker[w].msg => messages'[n] = messages[n]
    BY <1>1 DEF Discard, GiveBack, Ack, DeleteMessage, MakeVisible
<1>3. \A v \in Workers : IF v = w THEN ~Busy(v)' ELSE worker'[v] = worker[v]
    BY DEF Discard, GiveBack, Ack, Finish, Idle, Busy, Consistent, TypeOK, WorkerTypeOK
<1>4. ASSUME NEW v \in Workers, v # w, Busy(v)
      PROVE  worker[v].msg # worker[w].msg /\ worker[v].msg \in MessageIds
    BY <1>1, <1>4 DEF WorkersHoldMessages, Msg, Consistent, WorkersKnowMessages
<1> QED
    BY <1>2, <1>3, <1>4 DEF WorkersHoldMessages, Busy, Msg

LEMMA WorkerHolds ==
    ASSUME Consistent, WorkersHoldMessages, NEW w \in Workers, WorkerStep(w)
    PROVE  WorkersHoldMessages'
<1>1. CASE \/ BeginReceive(w) \/ ReceiveNothing(w) \/ Abandon(w) \/ StartAction(w)
           \/ ActionOK(w) \/ ActionFails(w) \/ MarkInProgress(w) \/ MarkFailed(w)
           \/ BackOff(w) \/ MarkDone(w)
    <2>1. UNCHANGED messages
        BY <1>1 DEF BeginReceive, ReceiveNothing, Abandon, StartAction, ActionOK, ActionFails,
                    MarkInProgress, MarkFailed, BackOff, MarkDone
    <2>2. \A v \in Workers : Busy(v)' => Busy(v) /\ worker'[v].msg = worker[v].msg
        BY <1>1 DEF BeginReceive, ReceiveNothing, Abandon, StartAction, ActionOK, ActionFails,
                    MarkInProgress, MarkFailed, BackOff, MarkDone, Step, Finish, Idle, Busy,
                    Consistent, TypeOK, WorkerTypeOK
    <2> QED
        BY <2>1, <2>2 DEF WorkersHoldMessages, Msg
<1> QED
    BY <1>1, ReceiveHolds, ReleaseHolds DEF WorkerStep

LEMMA OthersHold ==
    ASSUME "overrun" \notin Faults, Consistent, WorkersHoldMessages,
           \/ \E m \in MessageIds : Expire(m)
           \/ \E flag \in PauseFlags : Pause(flag)
           \/ Cancel \/ Restart \/ DayPasses \/ UNCHANGED vars
    PROVE  WorkersHoldMessages'
<1>1. CASE \E m \in MessageIds : Expire(m)
    <2>1. PICK m \in MessageIds : Expire(m)
        BY <1>1
    <2>2. /\ UNCHANGED worker
          /\ \A n \in MessageIds : n # m => messages'[n] = messages[n]
          /\ \A w \in Workers : Busy(w) => worker[w].msg # m
        BY <2>1 DEF Expire, ExpireVisibility, Working, workerVars
    <2> QED
        BY <2>2 DEF WorkersHoldMessages, Consistent, WorkersKnowMessages, Busy, Msg
<1>2. CASE Restart
    BY <1>2, IdleIsARecord DEF Restart, StopWorkers, WorkersHoldMessages, Busy
<1>3. CASE (\E flag \in PauseFlags : Pause(flag)) \/ Cancel \/ DayPasses \/ UNCHANGED vars
    <2>1. UNCHANGED <<messages, worker>>
        BY <1>3 DEF Pause, Cancel, DayPasses, vars, workerVars
    <2> QED
        BY <2>1 DEF WorkersHoldMessages, Busy, Msg
<1> QED
    BY <1>1, <1>2, <1>3

(* Every goroutine at work has the latest receipt handle of its message.   *)
LEMMA MessagesAlwaysHeld ==
    ASSUME "overrun" \notin Faults
    PROVE  Spec => []WorkersHoldMessages
<1>1. Init => WorkersHoldMessages
    BY IdleIsARecord DEF Init, WorkerInit, WorkersHoldMessages, Busy
<1>2. ASSUME Consistent, WorkersHoldMessages, [Next]_vars PROVE WorkersHoldMessages'
    <2>1. CASE \E p \in Pollers : PollerStep(p) /\ UNCHANGED workerVars
        <3>1. UNCHANGED worker /\ \A m \in MessageIds : messages'[m] = messages[m]
            BY <1>2, <2>1, PollerLeavesMessages DEF workerVars
        <3> QED
            BY <1>2, <3>1 DEF WorkersHoldMessages, Consistent, WorkersKnowMessages, Busy, Msg
    <2> QED
        BY <1>2, <2>1, WorkerHolds, OthersHold DEF Next
<1> QED
    BY <1>1, <1>2, AlwaysConsistent, PTL DEF Spec

(***************************************************************************)
(* README.md: workers "run actions sequentially per ticket".  They do, for *)
(* any number of goroutines and whatever else fails, if no actions outlast *)
(* the visibility timeout: a row has one message, and the goroutine that   *)
(* works on it is the only one with its receipt handle.                    *)
(***************************************************************************)
THEOREM OneGoroutinePerTicket ==
    ASSUME "overrun" \notin Faults
    PROVE  Spec => []SequentialPerTicket
<1>1. ASSUME Consistent, WorkersHoldMessages PROVE SequentialPerTicket
    BY <1>1 DEF SequentialPerTicket, WorkersHoldMessages, Consistent, WorkersKnowMessages,
                OneMessagePerRow, IsTicketMessage, Busy, Tid, Msg
<1> QED
    BY <1>1, AlwaysConsistent, MessagesAlwaysHeld, PTL
=============================================================================
