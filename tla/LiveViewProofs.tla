--------------------------- MODULE LiveViewProofs ---------------------------
(***************************************************************************)
(* Proofs about LiveView, for every value of its constants: what has been  *)
(* proved of the pipeline holds behind the TUI, and what the Tickets tab   *)
(* shows of it.                                                            *)
(***************************************************************************)
EXTENDS LiveView, PipelineProofs, ListProofs

USE DEF MessageIds, TicketIds

-----------------------------------------------------------------------------
(* A step of the pipeline and its TUI is a step of the pipeline.           *)

LEMMA LiveStepIsStep == [LiveNext]_liveVars => [Next]_vars
<1> SUFFICES ASSUME [LiveNext]_liveVars PROVE [Next]_vars
    OBVIOUS
<1>1. ASSUME NEW p \in Pollers, SendTicket(p) \/ PollerMoves(p)
      PROVE  PollerStep(p) /\ UNCHANGED workerVars
    BY <1>1 DEF SendTicket, PollerMoves, PollerStep
<1>2. ASSUME NEW w \in Workers, SendProcessing(w) \/ SendDone(w) \/ SendFailed(w) \/ WorkerMoves(w)
      PROVE  WorkerStep(w) /\ UNCHANGED pollerVars
    BY <1>2 DEF SendProcessing, SendDone, SendFailed, SendEvent, WorkerMoves, WorkerStep
<1> QED
    BY <1>1, <1>2 DEF LiveNext, liveVars, Environment, ShowTicket, ShowEvent, KeyPress, StartOver,
                      Next

(***************************************************************************)
(* The channels, the TUI and its user change nothing that the pipeline     *)
(* does: the theorems about Spec hold of the program with its TUI.         *)
(***************************************************************************)
THEOREM TUIChangesNothing == LiveSpec => Spec
<1>1. LiveInit => Init
    BY DEF LiveInit
<1> QED
    BY <1>1, LiveStepIsStep, PTL DEF LiveSpec, Spec

-----------------------------------------------------------------------------
(* Sequences as channels and as the list of the Tickets tab.               *)

LEMMA Offered ==
    ASSUME NEW S, NEW ch \in Seq(S), NEW size \in Nat, NEW msg \in S, Len(ch) <= size
    PROVE  /\ Offer(ch, size, msg) \in Seq(S) /\ Len(Offer(ch, size, msg)) <= size
           /\ \A i \in DOMAIN Offer(ch, size, msg) :
                IF i \in DOMAIN ch THEN Offer(ch, size, msg)[i] = ch[i]
                ELSE i = Len(ch) + 1 /\ Offer(ch, size, msg)[i] = msg
<1>1. CASE Len(ch) < size
    BY <1>1 DEF Offer
<1>2. CASE ~(Len(ch) < size)
    BY <1>2 DEF Offer
<1> QED
    BY <1>1, <1>2

LEMMA Received ==
    ASSUME NEW S, NEW ch \in Seq(S), ch # <<>>
    PROVE  /\ 1 \in DOMAIN ch /\ Head(ch) = ch[1] /\ Head(ch) \in S
           /\ Tail(ch) \in Seq(S) /\ Len(Tail(ch)) <= Len(ch)
           /\ \A i \in DOMAIN Tail(ch) : i + 1 \in DOMAIN ch /\ Tail(ch)[i] = ch[i + 1]
    BY HeadTailProperties

(* A replaced or an absent element: the list keeps its length.             *)
LEMMA ListingReplaced ==
    ASSUME NEW S, NEW list \in Seq(S), NEW n, NEW e, n \in DOMAIN list => e \in S
    PROVE  /\ [list EXCEPT ![n] = e] \in Seq(S)
           /\ Len([list EXCEPT ![n] = e]) = Len(list)
           /\ DOMAIN [list EXCEPT ![n] = e] = DOMAIN list
           /\ \A i \in DOMAIN list : [list EXCEPT ![n] = e][i] = IF i = n THEN e ELSE list[i]
<1> DEFINE new == [list EXCEPT ![n] = e]
<1>1. Len(list) \in Nat /\ DOMAIN list = 1..Len(list)
    OBVIOUS
<1>2. new = [i \in 1..Len(list) |-> IF i = n THEN e ELSE list[i]]
    BY <1>1
<1>3. new \in [1..Len(list) -> S]
    <2>1. ASSUME NEW i \in 1..Len(list) PROVE (IF i = n THEN e ELSE list[i]) \in S
        BY <1>1
    <2> QED
        BY <1>2, <2>1
<1>4. new \in Seq(S) /\ Len(new) = Len(list)
    <2> HIDE DEF new
    <2>1. new \in Seq(S)
        BY <1>1, <1>3, SeqDef
    <2> QED
        BY <1>1, <1>2, <2>1
<1> QED
    BY <1>1, <1>2, <1>4

(* updateTicket with a ticket that is put in front: n listings are kept.   *)
LEMMA PutInFrontAndKept ==
    ASSUME board \in Seq(Listing), Len(board) <= BoardSize, NEW t \in Listing, NEW ids,
           Keep(<<t>> \o board, ids)
    PROVE  \E n \in 1..BoardSize :
            /\ n <= Len(board) + 1
            /\ board' \in Seq(Listing) /\ Len(board') = n
            /\ board'[1] = t /\ \A i \in 2..n : board'[i] = board[i - 1]
            /\ indexed' = ids \ {board[i].id : i \in n..Len(board)}
<1> DEFINE list == <<t>> \o board
<1>1. /\ list \in Seq(Listing) /\ Len(list) = Len(board) + 1 /\ list[1] = t
      /\ \A i \in 2..(Len(board) + 1) : list[i] = board[i - 1]
      /\ Len(board) \in Nat /\ BoardSize \in Nat /\ 1 <= BoardSize
    BY PutFirst, BoardAssumption
<1> HIDE DEF list
<1>2. CASE Len(list) <= BoardSize
    <2>1. board' = list /\ indexed' = ids
        BY <1>2 DEF Keep, list
    <2>2. (Len(board) + 1)..Len(board) = {}
        BY <1>1
    <2> QED
        BY <1>1, <1>2, <2>1, <2>2
<1>3. CASE ~(Len(list) <= BoardSize)
    <2>1. /\ board' = SubSeq(list, 1, BoardSize)
          /\ indexed' = ids \ {list[i].id : i \in (BoardSize + 1)..Len(list)}
        BY <1>3 DEF Keep, list
    <2>2. Len(board) = BoardSize /\ Len(list) = BoardSize + 1
        BY <1>1, <1>3
    <2>3. /\ board' \in Seq(Listing) /\ Len(board') = BoardSize
          /\ \A i \in 1..BoardSize : board'[i] = list[i]
        BY <1>1, <2>1, <2>2, SubSeqProperties
    <2>4. {list[i].id : i \in (BoardSize + 1)..Len(list)} = {board[i].id : i \in BoardSize..Len(board)}
        BY <1>1, <2>2
    <2> QED
        BY <1>1, <2>1, <2>2, <2>3, <2>4
<1> QED
    BY <1>2, <1>3

-----------------------------------------------------------------------------
(* The types of what the TUI and its channels hold.                        *)

TicketMsg == [ticket: Listing, isNew: BOOLEAN]
EventMsg == [id: Nat, status: DOMAIN ShownAs]

ChannelsTyped ==
    /\ ticketCh \in Seq(TicketMsg) /\ Len(ticketCh) <= TicketChSize
    /\ eventCh \in Seq(EventMsg) /\ Len(eventCh) <= EventChSize
    /\ overtaken \subseteq Nat

(* What LiveTypeOK says of the TUI, and that the filters are numbers.      *)
ScreenTyped == BoardTypeOK /\ filter \in [FilterKinds -> Nat] /\ ChannelsTyped

LEMMA StatusesAreShown ==
    \A status \in DOMAIN ShownAs :
        ShownAs[status] \in Statuses /\ (ShownAs[status] = "done" <=> status = "done")
BY DEF ShownAs, Statuses

LEMMA SeveritiesAreListed ==
    ASSUME NEW word
    PROVE  Normalized(word) \in {Severities[i] : i \in DOMAIN Severities}
<1>1. /\ 1 \in DOMAIN Severities /\ Severities[1] = "critical"
      /\ 2 \in DOMAIN Severities /\ Severities[2] = "high"
      /\ 3 \in DOMAIN Severities /\ Severities[3] = "medium"
      /\ 4 \in DOMAIN Severities /\ Severities[4] = "low"
    BY DEF Severities
<1> QED
    BY <1>1 DEF Normalized

LEMMA FilteredTyped ==
    ASSUME board \in Seq(Listing)
    PROVE  Filtered \in Seq(Listing) /\ Len(Filtered) \in Nat
BY PassingTyped DEF Filtered

(* Each filter has at least one option, so that the next one exists.       *)
LEMMA NextOption ==
    ASSUME NEW kind \in FilterKinds, NEW n \in Nat
    PROVE  /\ (n + 1) % Len(Options[kind]) \in Nat
           /\ ((n + 1) % Len(Options[kind])) + 1 \in DOMAIN Options[kind]
           /\ 0 + 1 \in DOMAIN Options[kind]
<1>1. CASE kind = "status"
    <2>1. Options[kind] = <<All>> \o <<"open", "in_progress", "done", "failed">>
        BY <1>1 DEF Options
    <2>2. <<"open", "in_progress", "done", "failed">> \in
                Seq({All, "open", "in_progress", "done", "failed"})
        OBVIOUS
    <2> QED
        BY <2>1, <2>2, NextInTurn
<1>2. CASE kind = "app"
    <2>1. Options[kind] = <<All>> \o AppOrder
        BY <1>2 DEF Options
    <2>2. AppOrder \in Seq({All} \cup Apps)
        BY BoardAssumption, SeqMonotonic
    <2> QED
        BY <2>1, <2>2, NextInTurn
<1>3. CASE kind = "severity"
    <2>1. Options[kind] = <<All>> \o Severities
        BY <1>3 DEF Options
    <2>2. Severities \in Seq({All, "critical", "high", "medium", "low"})
        BY DEF Severities
    <2> QED
        BY <2>1, <2>2, NextInTurn
<1> QED
    BY <1>1, <1>2, <1>3 DEF FilterKinds

LEMMA TicketSent ==
    ASSUME Consistent, ChannelsTyped, NEW p \in Pollers, SendTicket(p)
    PROVE  \E msg \in TicketMsg :
            /\ At(p, "notify")
            /\ msg.ticket.id = poller[p].ticket.id
            /\ msg.ticket.status = poller[p].ticket.status
            /\ msg.isNew = poller[p].ticket.isNew
            /\ ticketCh' = Offer(ticketCh, TicketChSize, msg)
            /\ overtaken \subseteq overtaken'
            /\ Overtakes(p) /\ ticketCh' # ticketCh => poller[p].ticket.id \in overtaken'
            /\ ChannelsTyped'
            /\ UNCHANGED eventCh
<1> DEFINE t == poller[p].ticket
           listing == [id |-> t.id, app |-> PollerApp[p], status |-> t.status,
                       severity |-> Normalized(Severity[tickets[t.id].hash])]
           msg == [ticket |-> listing, isNew |-> t.isNew]
           more == {id \in {t.id} : Overtakes(p) /\ ticketCh' # ticketCh}
<1>1. t \in LocalTicket /\ PollerApp[p] \in Apps
    BY PollerAssumption DEF Consistent, TypeOK, PollerTypeOK
<1>2. listing \in Listing
    BY <1>1, SeveritiesAreListed DEF Listing, LocalTicket
<1>3. msg \in TicketMsg
    BY <1>1, <1>2 DEF TicketMsg, LocalTicket
<1>4. ticketCh' = Offer(ticketCh, TicketChSize, msg) /\ UNCHANGED eventCh /\ At(p, "notify")
    BY DEF SendTicket, TicketMsgOf, Notify
<1>5. overtaken' = overtaken \cup more
    BY DEF SendTicket
<1>6. more \subseteq Nat /\ (Overtakes(p) /\ ticketCh' # ticketCh => t.id \in more)
    BY <1>1 DEF LocalTicket
<1>7. ChannelsTyped'
    <2> HIDE DEF msg, more
    <2> QED
        BY <1>3, <1>4, <1>5, <1>6, Offered, LiveAssumption DEF ChannelsTyped
<1> HIDE DEF more
<1> QED
    BY <1>3, <1>4, <1>5, <1>6, <1>7

LEMMA EventSent ==
    ASSUME Consistent, ChannelsTyped, NEW w \in Workers, NEW status \in DOMAIN ShownAs,
           Busy(w), SendEvent(w, status)
    PROVE  \E msg \in EventMsg :
            /\ msg.id = Tid(w) /\ msg.status = status
            /\ eventCh' = Offer(eventCh, EventChSize, msg)
            /\ ChannelsTyped'
            /\ UNCHANGED ticketCh
<1> DEFINE msg == [id |-> Tid(w), status |-> status]
<1>1. Tid(w) \in Nat
    <2>1. messages \in Seq(Message(Apps \cup {NoApp})) /\ worker[w].msg \in DOMAIN messages
        BY DEF Consistent, TypeOK, WorkersKnowMessages
    <2>2. messages[worker[w].msg] \in Message(Apps \cup {NoApp})
        BY <2>1
    <2> QED
        BY <2>2 DEF Tid, Msg, Message
<1>2. msg \in EventMsg
    BY <1>1 DEF EventMsg
<1>3. eventCh' = Offer(eventCh, EventChSize, msg) /\ UNCHANGED ticketCh
    BY DEF SendEvent
<1>4. ChannelsTyped'
    <2> HIDE DEF msg
    <2> QED
        BY <1>2, <1>3, Offered, LiveAssumption DEF ChannelsTyped, SendEvent
<1> QED
    BY <1>2, <1>3, <1>4

LEMMA Thirds ==
    ASSUME NEW h \in Nat, ~(h < 10)
    PROVE  (h - 7) \div 3 \in Nat /\ (h - 7) \div 3 >= 1 /\ 3 * ((h - 7) \div 3) <= h - 7
    OBVIOUS

LEMMA RoomOnScreen ==
    ASSUME height \in Nat
    PROVE  /\ VisibleItems \in Nat /\ VisibleItems >= 1
           /\ height >= 10 => 3 * VisibleItems <= height - 7
           /\ height < 10 => VisibleItems = 1
BY Thirds DEF VisibleItems

(* Clamped keeps the cursor in the window that starts at the offset.       *)
LEMMA ClampedTyped ==
    ASSUME height \in Nat, NEW o \in Nat, NEW c \in Nat
    PROVE  /\ Clamped(o, c) \in Nat
           /\ Clamped(o, c) <= c /\ c < Clamped(o, c) + VisibleItems
<1>1. VisibleItems \in Nat /\ VisibleItems >= 1
    BY RoomOnScreen
<1> QED
    BY <1>1 DEF Clamped

LEMMA UserTyped ==
    ASSUME ScreenTyped, UNCHANGED <<boardVars, channels>>,
           \/ KeyUp \/ KeyDown \/ KeyEnter \/ KeyEsc \/ KeyTab
           \/ \E kind \in FilterKinds : KeyFilter(kind)
           \/ \E h \in Heights : Resize(h)
    PROVE  ScreenTyped'
<1> USE DEF ScreenTyped, BoardTypeOK, boardVars, channels
<1>1. ChannelsTyped'
    BY DEF ChannelsTyped
<1>2. board' = board /\ indexed' = indexed /\ height \in Nat
    BY BoardAssumption
<1>3. ASSUME NEW c \in Nat, MoveTo(c) PROVE ScreenTyped'
    <2>1. offset' \in Nat
        BY <1>2, <1>3, ClampedTyped DEF MoveTo
    <2> QED
        BY <1>1, <1>2, <1>3, <2>1 DEF MoveTo
<1>4. CASE KeyUp \/ KeyDown
    BY <1>3, <1>4 DEF KeyUp, KeyDown
<1>5. CASE KeyEnter
    <2>1. Filtered[cursor + 1].id \in Nat
        <3>1. Filtered \in Seq(Listing) /\ cursor < Len(Filtered)
            BY <1>5, FilteredTyped DEF KeyEnter, Selected
        <3>2. Filtered[cursor + 1] \in Listing
            BY <3>1
        <3> QED
            BY <3>2 DEF Listing
    <2> QED
        BY <1>1, <1>2, <1>5, <2>1 DEF KeyEnter
<1>6. CASE KeyEsc
    BY <1>1, <1>2, <1>6 DEF KeyEsc, Closed
<1>7. CASE KeyTab
    BY <1>1, <1>2, <1>7 DEF KeyTab
<1>8. ASSUME NEW kind \in FilterKinds, KeyFilter(kind) PROVE ScreenTyped'
    <2> DEFINE next == (filter[kind] + 1) % Len(Options[kind])
    <2>1. next \in Nat /\ next + 1 \in DOMAIN Options[kind]
        BY NextOption
    <2>2. filter' = [filter EXCEPT ![kind] = next]
        BY <1>8 DEF KeyFilter
    <2> HIDE DEF next
    <2>3. /\ filter' \in [FilterKinds -> Nat]
          /\ \A k \in FilterKinds : filter'[k] + 1 \in DOMAIN Options[k]
        BY <2>1, <2>2
    <2> QED
        BY <1>1, <1>2, <1>8, <2>3 DEF KeyFilter
<1>9. ASSUME NEW h \in Heights, Resize(h) PROVE ScreenTyped'
    BY <1>1, <1>2, <1>9 DEF Resize
<1> QED
    BY <1>4, <1>5, <1>6, <1>7, <1>8, <1>9

LEMMA TicketShownTyped ==
    ASSUME ScreenTyped, ShowTicket
    PROVE  ScreenTyped'
<1> DEFINE t == Head(ticketCh).ticket
<1>1. /\ Head(ticketCh) \in TicketMsg /\ t \in Listing
      /\ ticketCh' \in Seq(TicketMsg) /\ Len(ticketCh') <= TicketChSize
    <2>1. ticketCh \in Seq(TicketMsg) /\ ticketCh # <<>> /\ ticketCh' = Tail(ticketCh)
        BY DEF ShowTicket, ScreenTyped, ChannelsTyped
    <2>2. Head(ticketCh) \in TicketMsg /\ Tail(ticketCh) \in Seq(TicketMsg)
          /\ Len(Tail(ticketCh)) <= Len(ticketCh)
        BY <2>1, Received
    <2>3. Len(ticketCh) \in Nat /\ Len(Tail(ticketCh)) \in Nat /\ TicketChSize \in Nat
          /\ Len(ticketCh) <= TicketChSize
        BY <2>1, <2>2, LiveAssumption DEF ScreenTyped, ChannelsTyped
    <2> QED
        BY <2>1, <2>2, <2>3 DEF TicketMsg
<1>2. /\ UNCHANGED uiVars /\ UNCHANGED <<eventCh, overtaken>>
      /\ UpdateTicket(t, Head(ticketCh).isNew)
    BY DEF ShowTicket, UpdateTicket
<1>3. board' \in Seq(Listing) /\ Len(board') <= BoardSize /\ indexed' \subseteq Nat
    <2>1. board \in Seq(Listing) /\ Len(board) <= BoardSize /\ indexed \subseteq Nat
        BY DEF ScreenTyped, BoardTypeOK
    <2>2. CASE board' = [board EXCEPT ![First(t.id)] = t] /\ UNCHANGED indexed
        BY <1>1, <2>1, <2>2, ListingReplaced
    <2>3. CASE Keep(<<t>> \o board, indexed \cup {t.id})
        <3>1. t.id \in Nat
            BY <1>1 DEF Listing
        <3>2. PICK n \in 1..BoardSize :
                /\ board' \in Seq(Listing) /\ Len(board') = n
                /\ indexed' = (indexed \cup {t.id}) \ {board[i].id : i \in n..Len(board)}
            BY <1>1, <2>1, <2>3, PutInFrontAndKept
        <3>3. n <= BoardSize
            BY BoardAssumption
        <3>4. indexed' \subseteq indexed \cup {t.id}
            BY <3>2
        <3> QED
            BY <2>1, <3>1, <3>2, <3>3, <3>4
    <2> QED
        BY <1>2, <2>2, <2>3 DEF UpdateTicket
<1> QED
    BY <1>1, <1>2, <1>3 DEF ScreenTyped, BoardTypeOK, ChannelsTyped, uiVars

LEMMA EventShownTyped ==
    ASSUME ScreenTyped, ShowEvent
    PROVE  ScreenTyped'
<1> DEFINE e == Head(eventCh)
<1>1. /\ e \in EventMsg
      /\ eventCh' \in Seq(EventMsg) /\ Len(eventCh') <= EventChSize
    <2>1. eventCh \in Seq(EventMsg) /\ eventCh # <<>> /\ eventCh' = Tail(eventCh)
        BY DEF ShowEvent, ScreenTyped, ChannelsTyped
    <2>2. Head(eventCh) \in EventMsg /\ Tail(eventCh) \in Seq(EventMsg)
          /\ Len(Tail(eventCh)) <= Len(eventCh)
        BY <2>1, Received
    <2>3. Len(eventCh) \in Nat /\ Len(Tail(eventCh)) \in Nat /\ EventChSize \in Nat
          /\ Len(eventCh) <= EventChSize
        BY <2>1, <2>2, LiveAssumption DEF ScreenTyped, ChannelsTyped
    <2> QED
        BY <2>1, <2>2, <2>3
<1>2. ApplyEvent(e) /\ UNCHANGED <<ticketCh, overtaken>>
    BY DEF ShowEvent
<1> HIDE DEF e
<1>3. e.id \in Nat /\ e.status \in DOMAIN ShownAs
    BY <1>1 DEF EventMsg
<1>4. board' \in Seq(Listing) /\ Len(board') = Len(board)
    <2>1. board \in Seq(Listing)
        BY DEF ScreenTyped, BoardTypeOK
    <2> DEFINE n == First(e.id)
               listing == [board[n] EXCEPT !.status = ShownAs[e.status]]
    <2>2. n \in DOMAIN board => listing \in Listing
        <3>1. n \in DOMAIN board => board[n] \in Listing
            BY <2>1
        <3>2. ShownAs[e.status] \in Statuses
            BY <1>3, StatusesAreShown
        <3> HIDE DEF n
        <3> QED
            BY <3>1, <3>2 DEF Listing
    <2>3. CASE e.id \in indexed
        <3>1. board' = [board EXCEPT ![n] = listing]
            BY <1>2, <2>3 DEF ApplyEvent
        <3> HIDE DEF listing, n
        <3> QED
            BY <2>1, <2>2, <3>1, ListingReplaced
    <2>4. CASE e.id \notin indexed
        BY <1>2, <2>1, <2>4 DEF ApplyEvent
    <2> QED
        BY <2>3, <2>4
<1>5. detail' \in Nat
    BY <1>2, <1>3 DEF ApplyEvent, ScreenTyped, BoardTypeOK
<1> QED
    BY <1>1, <1>2, <1>4, <1>5 DEF ApplyEvent, ScreenTyped, BoardTypeOK, ChannelsTyped

LEMMA NewScreenTyped ==
    ASSUME board' = <<>>, indexed' = {}, cursor' = 0, offset' = 0, detail' = Closed,
           filter' = [kind \in FilterKinds |-> 0], tab' = FALSE, height' \in Heights,
           ticketCh' = <<>>, eventCh' = <<>>, overtaken' = {}
    PROVE  ScreenTyped'
<1>1. /\ board' \in Seq(Listing) /\ ticketCh' \in Seq(TicketMsg) /\ eventCh' \in Seq(EventMsg)
      /\ Len(board') = 0 /\ Len(ticketCh') = 0 /\ Len(eventCh') = 0
    OBVIOUS
<1>2. tab' \in BOOLEAN /\ detail' \in Nat /\ filter' \in [FilterKinds -> Nat]
    BY DEF Closed
<1>3. \A kind \in FilterKinds : filter'[kind] + 1 \in DOMAIN Options[kind]
    BY NextOption
<1> QED
    BY <1>1, <1>2, <1>3, BoardAssumption, LiveAssumption
    DEF ScreenTyped, BoardTypeOK, ChannelsTyped

LEMMA SameScreenTyped ==
    ASSUME ScreenTyped, UNCHANGED <<boardVars, uiVars>>, ChannelsTyped'
    PROVE  ScreenTyped'
BY DEF ScreenTyped, BoardTypeOK, boardVars, uiVars

LEMMA StaysTyped ==
    ASSUME Consistent, ScreenTyped, [LiveNext]_liveVars
    PROVE  ScreenTyped'
<1>0. ChannelsTyped
    BY DEF ScreenTyped
<1>1. ASSUME NEW p \in Pollers, SendTicket(p) PROVE ChannelsTyped'
    BY <1>0, <1>1, TicketSent
<1>2. ASSUME NEW w \in Workers, SendProcessing(w) \/ SendDone(w) \/ SendFailed(w)
      PROVE  ChannelsTyped'
    <2>1. {"processing", "done", "failed"} = DOMAIN ShownAs
        BY DEF ShownAs
    <2>2. Busy(w)
        BY <1>2 DEF SendProcessing, SendDone, SendFailed, StartAction, ActionOK, ActionFails, Busy
    <2> QED
        BY <1>0, <1>2, <2>1, <2>2, EventSent DEF SendProcessing, SendDone, SendFailed
<1>3. ASSUME UNCHANGED channels PROVE ChannelsTyped'
    BY <1>0, <1>3 DEF channels, ChannelsTyped
<1>4. ASSUME UNCHANGED <<boardVars, uiVars>>,
             \/ UNCHANGED channels
             \/ \E p \in Pollers : SendTicket(p)
             \/ \E w \in Workers : SendProcessing(w) \/ SendDone(w) \/ SendFailed(w)
      PROVE  ScreenTyped'
    <2>1. ChannelsTyped'
        BY <1>1, <1>2, <1>3, <1>4
    <2> QED
        BY <1>4, <2>1, SameScreenTyped
<1>5. CASE ShowTicket
    BY <1>5, TicketShownTyped
<1>6. CASE ShowEvent
    BY <1>6, EventShownTyped
<1>7. CASE KeyPress
    <2>1. UNCHANGED channels
        BY <1>7 DEF KeyPress
    <2>2. UNCHANGED boardVars
        BY <1>7 DEF KeyPress, KeyUp, KeyDown, MoveTo, KeyEnter, KeyEsc, KeyFilter, KeyTab, Resize
    <2> QED
        BY <1>7, <2>1, <2>2, UserTyped DEF KeyPress
<1>8. CASE StartOver
    BY <1>8, NewScreenTyped DEF StartOver
<1>9. CASE UNCHANGED liveVars
    BY <1>4, <1>9 DEF liveVars
<1> QED
    BY <1>4, <1>5, <1>6, <1>7, <1>8, <1>9 DEF LiveNext, PollerMoves, WorkerMoves, Environment

LEMMA AlwaysTyped == LiveSpec => []ScreenTyped
<1>1. LiveInit => ScreenTyped
    <2> SUFFICES ASSUME LiveInit PROVE ScreenTyped
        OBVIOUS
    <2>1. /\ board \in Seq(Listing) /\ ticketCh \in Seq(TicketMsg) /\ eventCh \in Seq(EventMsg)
          /\ Len(board) = 0 /\ Len(ticketCh) = 0 /\ Len(eventCh) = 0
        BY DEF LiveInit, BoardInit
    <2>2. tab \in BOOLEAN /\ detail \in Nat /\ filter \in [FilterKinds -> Nat]
        BY DEF LiveInit, BoardInit, Closed
    <2>3. \A kind \in FilterKinds : filter[kind] + 1 \in DOMAIN Options[kind]
        BY NextOption DEF LiveInit, BoardInit
    <2> QED
        BY <2>1, <2>2, <2>3, BoardAssumption, LiveAssumption
        DEF LiveInit, BoardInit, ScreenTyped, BoardTypeOK, ChannelsTyped
<1>2. Consistent /\ ScreenTyped /\ [LiveNext]_liveVars => ScreenTyped'
    BY StaysTyped
<1>3. LiveSpec => []Consistent
    BY TUIChangesNothing, AlwaysConsistent, PTL
<1> QED
    BY <1>1, <1>2, <1>3, PTL DEF LiveSpec

(***************************************************************************)
(* The board, the channels and the filters stay within their limits and    *)
(* the program of the pipeline within its types, for any number of         *)
(* pollers, workers and keys.                                              *)
(***************************************************************************)
THEOREM LiveTyped == LiveSpec => []LiveTypeOK
<1>1. Consistent /\ ScreenTyped => LiveTypeOK
    BY DEF Consistent, ScreenTyped, ChannelsTyped, TicketMsg, EventMsg, LiveTypeOK
<1>2. LiveSpec => []Consistent
    BY TUIChangesNothing, AlwaysConsistent, PTL
<1> QED
    BY <1>1, <1>2, AlwaysTyped, PTL

-----------------------------------------------------------------------------
(* The cursor stays where views.go draws.                                  *)

LEMMA CursorIsDrawn ==
    ASSUME height \in Nat, height >= 9, board \in Seq(Listing), Selected,
           cursor \in Nat, offset \in Nat, offset <= cursor, cursor < offset + VisibleItems
    PROVE  Drawn(cursor + 1)
<1>1. cursor + 1 \in DOMAIN Filtered
    <2>1. Filtered \in Seq(Listing) /\ cursor < Len(Filtered) /\ Len(Filtered) \in Nat
        BY FilteredTyped DEF Selected
    <2> QED
        BY <2>1
<1>2. /\ VisibleItems \in Nat /\ VisibleItems >= 1
      /\ height >= 10 => 3 * VisibleItems <= height - 7
      /\ height < 10 => VisibleItems = 1
    BY RoomOnScreen
<1>3. cursor + 1 \in Page
    BY <1>1, <1>2 DEF Page
<1>4. 1 + 3 * (cursor + 1 - offset - 1) + 2 <= PanelLines
    <2>1. CASE height < 10
        <3>1. cursor = offset /\ height = 9
            BY <1>2, <2>1
        <3> QED
            BY <3>1 DEF PanelLines
    <2>2. CASE height >= 10
        <3>1. cursor - offset + 1 <= VisibleItems
            BY <1>2
        <3>2. 3 * (cursor - offset + 1) <= height - 7
            BY <1>2, <2>2, <3>1
        <3> QED
            BY <3>2 DEF PanelLines
    <2> QED
        BY <2>1, <2>2
<1> QED
    BY <1>3, <1>4 DEF Drawn

LEMMA TopIsInWindow ==
    ASSUME NEW h \in Nat,
           NEW v, v = IF h < 10 THEN 1 ELSE (h - 7) \div 3
    PROVE  0 <= 0 /\ 0 < 0 + v
<1>1. CASE h < 10
    BY <1>1
<1>2. CASE h >= 10
    <2>1. v \in Nat /\ v >= 1
        BY <1>2, Thirds
    <2> QED
        BY <2>1
<1> QED
    BY <1>1, <1>2

(***************************************************************************)
(* model.go and views.go: a key that moves the cursor or changes a filter  *)
(* leaves the cursor on a listing that is drawn whole, for every height of *)
(* nine lines and more and however long the list is.                       *)
(***************************************************************************)
THEOREM CursorStaysOnScreen == LiveSpec => CursorOnScreen
<1> DEFINE inWindow == offset <= cursor /\ cursor < offset + VisibleItems
           seen == height >= 9 /\ Selected => Drawn(cursor + 1)
           moved == cursor' # cursor \/ filter' # filter
<1>1. ScreenTyped /\ inWindow => seen
    BY CursorIsDrawn, BoardAssumption DEF ScreenTyped, BoardTypeOK
<1>2. ASSUME ScreenTyped, ScreenTyped', [LiveNext]_liveVars
      PROVE  [moved => inWindow']_liveVars
    <2> SUFFICES ASSUME LiveNext, moved PROVE inWindow'
        BY <1>2
    <2>1. /\ height' \in Nat /\ cursor' \in Nat /\ offset' \in Nat
          /\ height \in Nat /\ cursor \in Nat /\ offset \in Nat
        BY <1>2, BoardAssumption DEF ScreenTyped, BoardTypeOK
    <2>2. ASSUME NEW c \in Nat, MoveTo(c) PROVE inWindow'
        BY <2>1, <2>2, ClampedTyped DEF MoveTo, VisibleItems
    <2>3. ASSUME cursor' = 0, offset' = 0 PROVE inWindow'
        BY <2>1, <2>3, TopIsInWindow DEF VisibleItems
    <2>4. KeyUp \/ KeyDown \/ (\E kind \in FilterKinds : KeyFilter(kind)) \/ StartOver
        BY DEF LiveNext, uiVars, ShowTicket, UpdateTicket, ShowEvent, ApplyEvent, KeyPress,
               KeyEnter, KeyEsc, KeyTab, Resize
    <2> QED
        BY <2>1, <2>2, <2>3, <2>4 DEF KeyUp, KeyDown, KeyFilter, StartOver
<1> HIDE DEF inWindow, seen
<1>3. LiveSpec => [][moved => seen']_liveVars
    BY <1>1, <1>2, AlwaysTyped, PTL DEF LiveSpec
<1> QED
    BY <1>3 DEF CursorOnScreen, seen

-----------------------------------------------------------------------------
(* The board is never ahead of the workers.                                *)

Shown(id) == \E i \in DOMAIN board : board[i].id = id
FirstDone(id) == \E m \in MessageIds : messages[m].tid = id /\ <<m, 1>> \in ran

(* What is on its way to the board is not ahead either, and the index      *)
(* leads to listings only.                                                 *)
PollersNotAhead == \A p \in Pollers : poller[p].ticket.status # "done"
TicketsNotAhead == \A i \in DOMAIN ticketCh : ticketCh[i].ticket.status # "done"
EventsNotAhead ==
    \A i \in DOMAIN eventCh : eventCh[i].status = "done" => FirstDone(eventCh[i].id)
IndexLeadsToBoard == \A id \in indexed : Shown(id)
NothingAhead ==
    PollersNotAhead /\ TicketsNotAhead /\ EventsNotAhead /\ BoardNotAhead /\ IndexLeadsToBoard

LEMMA FirstIsShown ==
    ASSUME board \in Seq(Listing), NEW id, Shown(id)
    PROVE  First(id) \in DOMAIN board /\ board[First(id)].id = id
<1>1. Listings(id) \subseteq Nat /\ Listings(id) # {}
    BY DEF Listings, Shown
<1> QED
    BY <1>1, LeastNumber DEF First, Listings

(* What the first message of the channel makes of the board.               *)
LEMMA TicketReachesBoard ==
    ASSUME ScreenTyped, IndexLeadsToBoard, ShowTicket,
           NEW msg, msg = ticketCh[1]
    PROVE  /\ 1 \in DOMAIN ticketCh /\ msg \in TicketMsg
           /\ \A i \in DOMAIN ticketCh' : i + 1 \in DOMAIN ticketCh /\ ticketCh'[i] = ticketCh[i + 1]
           /\ \/ /\ ~msg.isNew /\ msg.ticket.id \in indexed /\ UNCHANGED indexed
                 /\ DOMAIN board' = DOMAIN board
                 /\ \A i \in DOMAIN board :
                        \/ board'[i] = board[i]
                        \/ board'[i] = msg.ticket /\ board[i].id = msg.ticket.id
              \/ /\ msg.isNew \/ msg.ticket.id \notin indexed
                 /\ \E n \in 1..(Len(board) + 1) :
                        /\ DOMAIN board' = 1..n
                        /\ board'[1] = msg.ticket /\ \A i \in 2..n : board'[i] = board[i - 1]
                        /\ indexed' = (indexed \cup {msg.ticket.id})
                                        \ {board[i].id : i \in n..Len(board)}
<1>1. ticketCh \in Seq(TicketMsg) /\ ticketCh # <<>> /\ ticketCh' = Tail(ticketCh)
    BY DEF ShowTicket, ScreenTyped, ChannelsTyped
<1>2. 1 \in DOMAIN ticketCh /\ Head(ticketCh) = msg /\ msg \in TicketMsg
      /\ \A i \in DOMAIN ticketCh' : i + 1 \in DOMAIN ticketCh /\ ticketCh'[i] = ticketCh[i + 1]
    BY <1>1, Received
<1> DEFINE t == msg.ticket
<1>3. t \in Listing /\ UpdateTicket(t, msg.isNew)
    BY <1>2 DEF ShowTicket, TicketMsg
<1>4. board \in Seq(Listing) /\ Len(board) <= BoardSize
    BY DEF ScreenTyped, BoardTypeOK
<1> HIDE DEF t
<1>5. CASE ~msg.isNew /\ t.id \in indexed
    <2>1. First(t.id) \in DOMAIN board /\ board[First(t.id)].id = t.id
        BY <1>4, <1>5, FirstIsShown DEF IndexLeadsToBoard
    <2>2. board' = [board EXCEPT ![First(t.id)] = t] /\ UNCHANGED indexed
        BY <1>3, <1>5 DEF UpdateTicket
    <2> QED
        BY <1>2, <1>3, <1>4, <1>5, <2>1, <2>2, ListingReplaced DEF t
<1>6. CASE ~(~msg.isNew /\ t.id \in indexed)
    <2>1. Keep(<<t>> \o board, indexed \cup {t.id})
        BY <1>3, <1>6 DEF UpdateTicket
    <2>2. PICK n \in 1..BoardSize :
            /\ n <= Len(board) + 1
            /\ board' \in Seq(Listing) /\ Len(board') = n
            /\ board'[1] = t /\ \A i \in 2..n : board'[i] = board[i - 1]
            /\ indexed' = (indexed \cup {t.id}) \ {board[i].id : i \in n..Len(board)}
        BY <1>3, <1>4, <2>1, PutInFrontAndKept
    <2>3. n \in 1..(Len(board) + 1) /\ DOMAIN board' = 1..n
        BY <1>4, <2>2, BoardAssumption
    <2> QED
        BY <1>2, <1>6, <2>2, <2>3 DEF t
<1> QED
    BY <1>5, <1>6

(* What the first event of the channel makes of the board.                 *)
LEMMA EventReachesBoard ==
    ASSUME ScreenTyped, IndexLeadsToBoard, ShowEvent,
           NEW e, e = eventCh[1]
    PROVE  /\ 1 \in DOMAIN eventCh /\ e \in EventMsg
           /\ \A i \in DOMAIN eventCh' : i + 1 \in DOMAIN eventCh /\ eventCh'[i] = eventCh[i + 1]
           /\ UNCHANGED indexed
           /\ DOMAIN board' = DOMAIN board
           /\ \A i \in DOMAIN board :
                \/ board'[i] = board[i]
                \/ /\ board[i].id = e.id /\ board'[i].id = e.id
                   /\ board'[i].status = ShownAs[e.status]
<1>1. eventCh \in Seq(EventMsg) /\ eventCh # <<>> /\ eventCh' = Tail(eventCh)
    BY DEF ShowEvent, ScreenTyped, ChannelsTyped
<1>2. 1 \in DOMAIN eventCh /\ Head(eventCh) = e /\ e \in EventMsg
      /\ \A i \in DOMAIN eventCh' : i + 1 \in DOMAIN eventCh /\ eventCh'[i] = eventCh[i + 1]
    BY <1>1, Received
<1>3. ApplyEvent(e) /\ UNCHANGED indexed
    BY <1>2 DEF ShowEvent, ApplyEvent
<1>4. board \in Seq(Listing)
    BY DEF ScreenTyped, BoardTypeOK
<1>5. CASE e.id \in indexed
    <2> DEFINE n == First(e.id)
               listing == [board[n] EXCEPT !.status = ShownAs[e.status]]
    <2>1. n \in DOMAIN board /\ board[n].id = e.id
        BY <1>4, <1>5, FirstIsShown DEF IndexLeadsToBoard
    <2>2. board' = [board EXCEPT ![n] = listing]
        BY <1>3, <1>5 DEF ApplyEvent
    <2>3. board[n] \in Listing
        BY <1>4, <2>1
    <2>4. listing.id = e.id /\ listing.status = ShownAs[e.status]
        BY <2>1, <2>3 DEF Listing
    <2>5. ShownAs[e.status] \in Statuses
        BY <1>2, StatusesAreShown DEF EventMsg
    <2>6. listing \in Listing
        <3> HIDE DEF n
        <3> QED
            BY <2>3, <2>5 DEF Listing
    <2> HIDE DEF listing, n
    <2>7. /\ DOMAIN board' = DOMAIN board
          /\ \A i \in DOMAIN board : board'[i] = IF i = n THEN listing ELSE board[i]
        BY <1>4, <2>2, <2>6, ListingReplaced
    <2> QED
        BY <1>2, <1>3, <2>1, <2>4, <2>7
<1>6. CASE e.id \notin indexed
    BY <1>2, <1>3, <1>6 DEF ApplyEvent
<1> QED
    BY <1>5, <1>6

(* An action that completed has completed.                                 *)
LEMMA WorkStays ==
    ASSUME Consistent, [Next]_vars, NEW id, FirstDone(id)
    PROVE  FirstDone(id)'
<1>1. ran \subseteq ran'
    BY DEF Next, vars, workerVars, Expire, Pause, Cancel, Restart, StopWorkers, DayPasses,
           WorkerStep, BeginReceive, Receive, ReceiveLost, ReceiveNothing, Discard, GiveBack,
           Abandon, MarkInProgress, StartAction, ActionOK, ActionFails, MarkFailed, BackOff,
           MarkDone, Ack
<1>2. \A m \in MessageIds : m \in MessageIds' /\ messages'[m].tid = messages[m].tid
    BY MessagesStep, Sending DEF MessagesMoved, SameMessages, Kept
<1> QED
    BY <1>1, <1>2 DEF FirstDone

(* Upsert skips a closed row: no poller has a ticket that is done.         *)
LEMMA NoPollerHasDone ==
    ASSUME Consistent, PollersNotAhead, [Next]_vars
    PROVE  PollersNotAhead'
<1> USE DEF PollersNotAhead
<1> SUFFICES ASSUME NEW p \in Pollers PROVE poller'[p].ticket.status # "done"
    OBVIOUS
<1>1. CASE UNCHANGED poller
    BY <1>1
<1>2. CASE Restart
    BY <1>2 DEF Restart, StopPollers, NoTicket
<1>3. CASE PollerStep(p)
    <2>1. poller \in [Pollers -> [at: PollerSteps, ticket: LocalTicket]]
        BY DEF Consistent, TypeOK, PollerTypeOK
    <2>2. CASE \E line \in Lines : UpsertCounted(p, line)
        BY <2>1, <2>2 DEF UpsertCounted, CountTicket, ClosedStatuses, GotoWith
    <2> QED
        BY <1>3, <2>1, <2>2
        DEF PollerStep, StartPoll, EndPoll, DropEntry, UpsertEntry, UpsertNew, UpsertSkipped,
            PublishOK, PublishFails, RecordMessageId, MarkPending, Notify, Goto, GotoWith,
            NoTicket, LocalTicket
<1>4. CASE \E q \in Pollers : q # p /\ PollerStep(q)
    BY <1>4
    DEF PollerStep, StartPoll, EndPoll, DropEntry, UpsertEntry, UpsertNew, UpsertSkipped,
        UpsertCounted, PublishOK, PublishFails, RecordMessageId, MarkPending, Notify, Goto,
        GotoWith, Consistent, TypeOK, PollerTypeOK
<1> QED
    BY <1>1, <1>2, <1>3, <1>4
    DEF Next, vars, pollerVars, Expire, Pause, Cancel, DayPasses

LEMMA StaysBehind ==
    ASSUME Consistent, ScreenTyped, NothingAhead, [LiveNext]_liveVars
    PROVE  NothingAhead'
<1>1. PollersNotAhead'
    BY LiveStepIsStep, NoPollerHasDone DEF NothingAhead
<1>2. \A id : FirstDone(id) => FirstDone(id)'
    BY LiveStepIsStep, WorkStays
<1>3. UNCHANGED eventCh => EventsNotAhead'
    BY <1>2 DEF NothingAhead, EventsNotAhead
<1>4. UNCHANGED boardVars => BoardNotAhead' /\ IndexLeadsToBoard'
    BY <1>2 DEF NothingAhead, BoardNotAhead, FirstDone, IndexLeadsToBoard, Shown, boardVars
<1>5. UNCHANGED ticketCh => TicketsNotAhead'
    BY DEF NothingAhead, TicketsNotAhead
<1>6. ASSUME NEW p \in Pollers, SendTicket(p) PROVE TicketsNotAhead' /\ EventsNotAhead'
    <2>1. PICK msg \in TicketMsg :
            /\ msg.ticket.status = poller[p].ticket.status
            /\ ticketCh' = Offer(ticketCh, TicketChSize, msg)
            /\ UNCHANGED eventCh
        BY <1>6, TicketSent DEF ScreenTyped
    <2>2. \A i \in DOMAIN ticketCh' :
            \/ i \in DOMAIN ticketCh /\ ticketCh'[i] = ticketCh[i]
            \/ ticketCh'[i] = msg
        BY <2>1, Offered, LiveAssumption DEF ScreenTyped, ChannelsTyped
    <2> QED
        BY <1>3, <2>1, <2>2 DEF NothingAhead, PollersNotAhead, TicketsNotAhead
<1>7. ASSUME NEW w \in Workers, SendProcessing(w) \/ SendDone(w) \/ SendFailed(w)
      PROVE  TicketsNotAhead' /\ EventsNotAhead'
    <2>1. Busy(w)
        BY <1>7 DEF SendProcessing, SendDone, SendFailed, StartAction, ActionOK, ActionFails, Busy
    <2>2. PICK status \in DOMAIN ShownAs :
            /\ SendEvent(w, status)
            /\ status = "done" => ActionOK(w)
        <3>1. {"processing", "done", "failed"} = DOMAIN ShownAs
            BY DEF ShownAs
        <3> QED
            BY <1>7, <3>1 DEF SendProcessing, SendDone, SendFailed
    <2>3. PICK msg \in EventMsg :
            /\ msg.id = Tid(w) /\ msg.status = status
            /\ eventCh' = Offer(eventCh, EventChSize, msg)
            /\ UNCHANGED ticketCh
        BY <2>1, <2>2, EventSent DEF ScreenTyped
    <2>4. \A i \in DOMAIN eventCh' :
            \/ i \in DOMAIN eventCh /\ eventCh'[i] = eventCh[i]
            \/ eventCh'[i] = msg
        BY <2>3, Offered, LiveAssumption DEF ScreenTyped, ChannelsTyped
    <2>5. ASSUME msg.status = "done" PROVE FirstDone(msg.id)'
        <3>1. /\ worker[w].at = "running" /\ UNCHANGED messages
              /\ ran' = ran \cup {<<worker[w].msg, worker[w].done + 1>>}
            BY <2>2, <2>3, <2>5 DEF ActionOK
        <3>2. worker[w].done \in 0..NActions /\ worker[w].msg \in MessageIds
              /\ worker[w].done < NActions
            BY <2>1, <3>1 DEF Consistent, TypeOK, WorkerTypeOK, WorkersKnowMessages
        <3>3. <<worker[w].msg, 1>> \in ran'
            <4>1. CASE worker[w].done = 0
                BY <3>1, <4>1
            <4>2. CASE worker[w].done # 0
                <5>1. 1 \in 1..worker[w].done
                    BY <3>2, <4>2, WorkerAssumption
                <5>2. <<worker[w].msg, 1>> \in ran
                    BY <2>1, <5>1 DEF Consistent, WorkersKnowMessages
                <5> QED
                    BY <3>1, <5>2
            <4> QED
                BY <4>1, <4>2
        <3> QED
            BY <2>3, <3>1, <3>2, <3>3 DEF FirstDone, Tid, Msg
    <2>6. EventsNotAhead'
        BY <1>2, <2>4, <2>5 DEF NothingAhead, EventsNotAhead
    <2> QED
        BY <1>5, <2>3, <2>6
<1>8. ASSUME UNCHANGED <<boardVars, uiVars>>,
             \/ UNCHANGED channels
             \/ \E p \in Pollers : SendTicket(p)
             \/ \E w \in Workers : SendProcessing(w) \/ SendDone(w) \/ SendFailed(w)
      PROVE  NothingAhead'
    BY <1>1, <1>3, <1>4, <1>5, <1>6, <1>7, <1>8 DEF NothingAhead, channels
<1>9. CASE ShowTicket
    <2>1. PICK msg : msg = ticketCh[1]
        OBVIOUS
    <2>2. 1 \in DOMAIN ticketCh /\ msg.ticket.status # "done"
        BY <1>9, <2>1, TicketReachesBoard DEF NothingAhead, TicketsNotAhead
    <2>3. \A i \in DOMAIN ticketCh' : i + 1 \in DOMAIN ticketCh /\ ticketCh'[i] = ticketCh[i + 1]
        BY <1>9, <2>1, TicketReachesBoard DEF NothingAhead
    <2>4. TicketsNotAhead' /\ EventsNotAhead'
        BY <1>3, <1>9, <2>3 DEF ShowTicket, NothingAhead, TicketsNotAhead
    <2>5. CASE /\ UNCHANGED indexed
               /\ DOMAIN board' = DOMAIN board
               /\ \A i \in DOMAIN board :
                    \/ board'[i] = board[i]
                    \/ board'[i] = msg.ticket /\ board[i].id = msg.ticket.id
        <3>1. BoardNotAhead'
            BY <1>2, <2>2, <2>5 DEF NothingAhead, BoardNotAhead, FirstDone
        <3>2. IndexLeadsToBoard'
            BY <2>5 DEF NothingAhead, IndexLeadsToBoard, Shown
        <3> QED
            BY <1>1, <2>4, <3>1, <3>2 DEF NothingAhead
    <2>6. CASE \E n \in 1..(Len(board) + 1) :
                /\ DOMAIN board' = 1..n
                /\ board'[1] = msg.ticket /\ \A i \in 2..n : board'[i] = board[i - 1]
                /\ indexed' = (indexed \cup {msg.ticket.id})
                                \ {board[i].id : i \in n..Len(board)}
        <3>1. PICK n \in 1..(Len(board) + 1) :
                /\ DOMAIN board' = 1..n
                /\ board'[1] = msg.ticket /\ \A i \in 2..n : board'[i] = board[i - 1]
                /\ indexed' = (indexed \cup {msg.ticket.id})
                                \ {board[i].id : i \in n..Len(board)}
            BY <2>6
        <3>2. Len(board) \in Nat /\ DOMAIN board = 1..Len(board)
            BY DEF ScreenTyped, BoardTypeOK
        <3>3. \A i \in 2..n : i - 1 \in DOMAIN board
            BY <3>2
        <3>4. BoardNotAhead'
            <4>1. ASSUME NEW i \in 1..n, board'[i].status = "done", NEW id, id = board'[i].id
                  PROVE  FirstDone(id)'
                <5>1. i \in 2..n
                    BY <2>2, <3>1, <3>2, <4>1
                <5>2. i - 1 \in DOMAIN board /\ board[i - 1].status = "done" /\ board[i - 1].id = id
                    BY <3>1, <3>3, <4>1, <5>1
                <5> QED
                    BY <1>2, <5>2 DEF NothingAhead, BoardNotAhead, FirstDone
            <4> QED
                BY <3>1, <4>1 DEF BoardNotAhead, FirstDone
        <3>5. ASSUME NEW id \in indexed' PROVE Shown(id)'
            <4>1. CASE id = msg.ticket.id
                BY <3>1, <4>1 DEF Shown
            <4>2. CASE id # msg.ticket.id
                <5>1. PICK i \in DOMAIN board : board[i].id = id
                    BY <3>1, <3>5, <4>2 DEF NothingAhead, IndexLeadsToBoard, Shown
                <5>2. i + 1 \in 2..n
                    BY <3>1, <3>2, <3>5, <5>1
                <5>3. board'[i + 1] = board[i] /\ i + 1 \in DOMAIN board'
                    BY <3>1, <3>2, <5>2
                <5> QED
                    BY <5>1, <5>3 DEF Shown
            <4> QED
                BY <4>1, <4>2
        <3> QED
            BY <1>1, <2>4, <3>4, <3>5 DEF NothingAhead, IndexLeadsToBoard
    <2> QED
        BY <1>9, <2>1, <2>5, <2>6, TicketReachesBoard DEF NothingAhead
<1>10. CASE ShowEvent
    <2>1. PICK e : e = eventCh[1]
        OBVIOUS
    <2>2. /\ 1 \in DOMAIN eventCh /\ e \in EventMsg
          /\ \A i \in DOMAIN eventCh' : i + 1 \in DOMAIN eventCh /\ eventCh'[i] = eventCh[i + 1]
          /\ UNCHANGED indexed
          /\ DOMAIN board' = DOMAIN board
          /\ \A i \in DOMAIN board :
                \/ board'[i] = board[i]
                \/ /\ board[i].id = e.id /\ board'[i].id = e.id
                   /\ board'[i].status = ShownAs[e.status]
        BY <1>10, <2>1, EventReachesBoard DEF NothingAhead
    <2>3. EventsNotAhead'
        BY <1>2, <2>2 DEF NothingAhead, EventsNotAhead
    <2>4. TicketsNotAhead'
        BY <1>5, <1>10 DEF ShowEvent
    <2>5. e.status = "done" => FirstDone(e.id)
        BY <2>1, <2>2 DEF NothingAhead, EventsNotAhead
    <2>6. ShownAs[e.status] = "done" => e.status = "done"
        BY <2>2, StatusesAreShown DEF EventMsg
    <2>7. BoardNotAhead'
        <3>1. \A i \in DOMAIN board : board[i].status = "done" => FirstDone(board[i].id)
            BY DEF NothingAhead, BoardNotAhead, FirstDone
        <3>2. ASSUME NEW i \in DOMAIN board, board'[i].status = "done", NEW id, id = board'[i].id
              PROVE  FirstDone(id)'
            <4>1. FirstDone(id)
                BY <2>2, <2>5, <2>6, <3>1, <3>2
            <4> QED
                BY <1>2, <4>1
        <3> QED
            BY <2>2, <3>2 DEF BoardNotAhead, FirstDone
    <2>8. IndexLeadsToBoard'
        BY <2>2 DEF NothingAhead, IndexLeadsToBoard, Shown
    <2> QED
        BY <1>1, <2>3, <2>4, <2>7, <2>8 DEF NothingAhead
<1>11. CASE KeyPress
    <2>1. UNCHANGED channels /\ UNCHANGED boardVars
        BY <1>11
        DEF KeyPress, KeyUp, KeyDown, MoveTo, KeyEnter, KeyEsc, KeyFilter, KeyTab, Resize
    <2> QED
        BY <1>1, <1>3, <1>4, <1>5, <2>1 DEF NothingAhead, channels
<1>12. CASE StartOver
    <2>1. ticketCh' = <<>> /\ eventCh' = <<>> /\ board' = <<>> /\ indexed' = {}
        BY <1>12 DEF StartOver
    <2> QED
        BY <1>1, <2>1
        DEF NothingAhead, TicketsNotAhead, EventsNotAhead, BoardNotAhead, IndexLeadsToBoard
<1>13. CASE UNCHANGED liveVars
    BY <1>8, <1>13 DEF liveVars
<1> QED
    BY <1>8, <1>9, <1>10, <1>11, <1>12, <1>13 DEF LiveNext, PollerMoves, WorkerMoves, Environment

(***************************************************************************)
(* model.go: whatever messages and events were dropped, cut off or shown   *)
(* late, in any order between the two channels, a ticket that the board    *)
(* shows as done is one whose first action completed; for any number of    *)
(* pollers and workers, also of one application.                           *)
(***************************************************************************)
THEOREM BoardIsBehind == LiveSpec => []BoardNotAhead
<1>1. LiveInit => NothingAhead
    BY DEF LiveInit, Init, PollerInit, NoTicket, BoardInit, NothingAhead, PollersNotAhead,
           TicketsNotAhead, EventsNotAhead, BoardNotAhead, IndexLeadsToBoard
<1>2. Consistent /\ ScreenTyped /\ NothingAhead /\ [LiveNext]_liveVars => NothingAhead'
    BY StaysBehind
<1>3. NothingAhead => BoardNotAhead
    BY DEF NothingAhead
<1>4. LiveSpec => []Consistent
    BY TUIChangesNothing, AlwaysConsistent, PTL
<1> QED
    BY <1>1, <1>2, <1>3, <1>4, AlwaysTyped, PTL DEF LiveSpec

-----------------------------------------------------------------------------
(* The list and its index.                                                 *)

Sent(id) == \E i \in DOMAIN ticketCh : ticketCh[i].ticket.id = id
RowsAreKnown == \A id : Shown(id) \/ Sent(id) => id \in TicketIds

(* A ticket is new once and, unless a count of it overtook: what is about  *)
(* to be put in front of the list is neither in it nor on its way to it.   *)
NewOnce == \A p, q \in Pollers : \A x : HoldsNew(p, x) /\ HoldsNew(q, x) => p = q
HeldComesFirst ==
    \A p \in Pollers : \A x : HoldsNew(p, x) /\ x \notin overtaken => ~Shown(x) /\ ~Sent(x)
SentComesFirst ==
    \A i \in DOMAIN ticketCh : \A x :
        ticketCh[i].isNew /\ ticketCh[i].ticket.id = x /\ x \notin overtaken =>
            /\ ~Shown(x)
            /\ \A j \in DOMAIN ticketCh : ticketCh[j].ticket.id = x => i <= j

Listed ==
    /\ RowsAreKnown /\ NewOnce /\ HeldComesFirst /\ SentComesFirst
    /\ IndexMatchesBoard /\ ListedTwiceOnlyIfOvertaken

(* Where a poller that holds a new ticket, in the next state, has it from. *)
LEMMA PollersTicket ==
    ASSUME Consistent, [Next]_vars, NEW p \in Pollers, NEW x, HoldsNew(p, x)'
    PROVE  \/ HoldsNew(p, x)
           \/ /\ \E line \in Lines : UpsertNew(p, line)
              /\ x \notin TicketIds
              /\ \A q \in Pollers : q # p => poller'[q] = poller[q]
<1> USE DEF HoldsNew
<1>1. CASE UNCHANGED poller
    BY <1>1
<1>2. CASE Restart
    BY <1>2 DEF Restart, StopPollers
<1>3. CASE PollerStep(p)
    <2>1. poller \in [Pollers -> [at: PollerSteps, ticket: LocalTicket]]
        BY DEF Consistent, TypeOK, PollerTypeOK
    <2>2. CASE \E line \in Lines : UpsertNew(p, line)
        <3>1. PICK line \in Lines : UpsertNew(p, line)
            BY <2>2
        <3>2. PICK id \in Nat :
                /\ id \notin TicketIds
                /\ poller' = [poller EXCEPT ![p] =
                        [at |-> "publish", ticket |-> [id |-> id, status |-> "open", isNew |-> TRUE]]]
            BY <3>1, Inserting
        <3>3. poller'[p].ticket.id = id
            BY <2>1, <3>2
        <3> QED
            BY <2>1, <3>1, <3>2, <3>3
    <2> QED
        BY <1>3, <2>1, <2>2
        DEF PollerStep, StartPoll, EndPoll, DropEntry, UpsertEntry, UpsertSkipped, UpsertCounted,
            PublishOK, PublishFails, RecordMessageId, MarkPending, Notify, Goto, GotoWith, At,
            NoTicket, LocalTicket
<1>4. CASE \E q \in Pollers : q # p /\ PollerStep(q)
    BY <1>4
    DEF PollerStep, StartPoll, EndPoll, DropEntry, UpsertEntry, UpsertNew, UpsertSkipped,
        UpsertCounted, PublishOK, PublishFails, RecordMessageId, MarkPending, Notify, Goto,
        GotoWith, Consistent, TypeOK, PollerTypeOK
<1> QED
    BY <1>1, <1>2, <1>3, <1>4
    DEF Next, vars, pollerVars, Expire, Pause, Cancel, DayPasses

(* An id is fresh when it is inserted, and no two pollers insert it.       *)
LEMMA StaysNewOnce ==
    ASSUME Consistent, NewOnce, [Next]_vars
    PROVE  NewOnce'
<1> SUFFICES ASSUME NEW p \in Pollers, NEW q \in Pollers, NEW x,
                    HoldsNew(p, x)', HoldsNew(q, x)', p # q
             PROVE  FALSE
    BY DEF NewOnce
<1>1. \A r \in Pollers : HoldsNew(r, x) => x \in TicketIds
    BY DEF HoldsNew, Consistent, PollersKnowRows
<1>2. CASE HoldsNew(p, x) /\ HoldsNew(q, x)
    BY <1>2 DEF NewOnce
<1>3. CASE ~HoldsNew(p, x)
    <2>1. x \notin TicketIds /\ poller'[q] = poller[q]
        BY <1>3, PollersTicket
    <2> QED
        BY <1>1, <2>1 DEF HoldsNew
<1>4. CASE ~HoldsNew(q, x)
    <2>1. x \notin TicketIds /\ poller'[p] = poller[p]
        BY <1>4, PollersTicket
    <2> QED
        BY <1>1, <2>1 DEF HoldsNew
<1> QED
    BY <1>2, <1>3, <1>4

(* A step that sends nothing and shows nothing.                            *)
LEMMA ListedKept ==
    ASSUME Consistent, Listed, [Next]_vars, UNCHANGED <<board, indexed, ticketCh, overtaken>>
    PROVE  Listed'
<1>1. TicketIds \subseteq TicketIds'
    BY RowsStep, Inserting DEF RowsWritten, SameRows
<1>2. IndexMatchesBoard' /\ ListedTwiceOnlyIfOvertaken'
    BY DEF Listed, IndexMatchesBoard, ListedIds, ListedTwiceOnlyIfOvertaken
<1>3. \A x : (Shown(x)' <=> Shown(x)) /\ (Sent(x)' <=> Sent(x))
    BY DEF Shown, Sent
<1>4. RowsAreKnown'
    BY <1>1, <1>3 DEF Listed, RowsAreKnown
<1>5. HeldComesFirst'
    <2> SUFFICES ASSUME NEW p \in Pollers, NEW x, HoldsNew(p, x)', x \notin overtaken'
                 PROVE  ~Shown(x)' /\ ~Sent(x)'
        BY DEF HeldComesFirst
    <2>1. HoldsNew(p, x) \/ x \notin TicketIds
        BY PollersTicket
    <2> QED
        BY <1>3, <2>1 DEF Listed, HeldComesFirst, RowsAreKnown
<1>6. SentComesFirst'
    BY <1>3 DEF Listed, SentComesFirst
<1>7. NewOnce'
    BY StaysNewOnce DEF Listed
<1> QED
    BY <1>2, <1>4, <1>5, <1>6, <1>7 DEF Listed

LEMMA SendingListed ==
    ASSUME Consistent, ScreenTyped, Listed, [Next]_vars,
           UNCHANGED <<board, indexed>>, NEW p \in Pollers, SendTicket(p)
    PROVE  Listed'
<1> DEFINE id == poller[p].ticket.id
<1>1. PICK msg \in TicketMsg :
        /\ At(p, "notify")
        /\ msg.ticket.id = id
        /\ msg.isNew = poller[p].ticket.isNew
        /\ ticketCh' = Offer(ticketCh, TicketChSize, msg)
        /\ overtaken \subseteq overtaken'
        /\ Overtakes(p) /\ ticketCh' # ticketCh => id \in overtaken'
    BY TicketSent DEF ScreenTyped
<1>2. \A i \in DOMAIN ticketCh' :
        IF i \in DOMAIN ticketCh THEN ticketCh'[i] = ticketCh[i]
        ELSE i = Len(ticketCh) + 1 /\ ticketCh'[i] = msg
    BY <1>1, Offered, LiveAssumption DEF ScreenTyped, ChannelsTyped
<1>3. DOMAIN ticketCh = 1..Len(ticketCh) /\ Len(ticketCh) \in Nat
    BY DEF ScreenTyped, ChannelsTyped
<1>4. Notify(p) /\ UNCHANGED tickets
    BY DEF SendTicket, Notify, storeVars
<1>5. /\ poller'[p].at = "entries"
      /\ \A q \in Pollers : q # p => poller'[q] = poller[q]
    BY <1>4 DEF Notify, GotoWith, Consistent, TypeOK, PollerTypeOK
<1>6. id \in TicketIds
    BY <1>1 DEF At, Consistent, PollersKnowRows
<1>7. IndexMatchesBoard' /\ ListedTwiceOnlyIfOvertaken'
    BY <1>1 DEF Listed, IndexMatchesBoard, ListedIds, ListedTwiceOnlyIfOvertaken
<1>8. \A x : (Shown(x)' <=> Shown(x)) /\ (Sent(x)' => Sent(x) \/ (x = id /\ ticketCh' # ticketCh))
    BY <1>1, <1>2 DEF Shown, Sent
<1>9. RowsAreKnown'
    BY <1>4, <1>6, <1>8 DEF Listed, RowsAreKnown
<1>10. ASSUME NEW q \in Pollers, NEW x, HoldsNew(q, x)', x \notin overtaken'
       PROVE  ~Shown(x)' /\ ~Sent(x)'
    <2>1. q # p /\ HoldsNew(q, x)
        BY <1>5, <1>10 DEF HoldsNew
    <2>2. ~(x = id /\ ticketCh' # ticketCh)
        <3>1. CASE poller[p].ticket.isNew
            BY <1>1, <2>1, <3>1 DEF Listed, NewOnce, HoldsNew, At
        <3>2. CASE ~poller[p].ticket.isNew
            BY <1>1, <1>10, <2>1, <3>2 DEF Overtakes
        <3> QED
            BY <3>1, <3>2
    <2>3. ~Shown(x) /\ ~Sent(x)
        BY <1>1, <1>10, <2>1 DEF Listed, HeldComesFirst
    <2> QED
        BY <1>8, <2>2, <2>3
<1>11. ASSUME NEW i \in DOMAIN ticketCh', NEW x, ticketCh'[i].isNew,
              ticketCh'[i].ticket.id = x, x \notin overtaken'
       PROVE  /\ ~Shown(x)'
              /\ \A j \in DOMAIN ticketCh' : ticketCh'[j].ticket.id = x => i <= j
    <2>1. CASE i \in DOMAIN ticketCh
        <3>1. ~Shown(x) /\ \A j \in DOMAIN ticketCh : ticketCh[j].ticket.id = x => i <= j
            BY <1>1, <1>2, <1>11, <2>1 DEF Listed, SentComesFirst
        <3> QED
            BY <1>2, <1>3, <1>8, <2>1, <3>1
    <2>2. CASE i \notin DOMAIN ticketCh
        <3>1. i = Len(ticketCh) + 1 /\ x = id /\ poller[p].ticket.isNew
            BY <1>1, <1>2, <1>11, <2>2
        <3>2. ~Shown(x) /\ ~Sent(x)
            BY <1>1, <1>11, <3>1 DEF At, HoldsNew, Listed, HeldComesFirst
        <3> QED
            BY <1>2, <1>3, <1>8, <3>1, <3>2 DEF Sent
    <2> QED
        BY <2>1, <2>2
<1>12. HeldComesFirst' /\ SentComesFirst'
    BY <1>10, <1>11 DEF HeldComesFirst, SentComesFirst
<1>13. NewOnce'
    BY StaysNewOnce DEF Listed
<1> QED
    BY <1>7, <1>9, <1>12, <1>13 DEF Listed

(* The ids on the board and in its index, with a ticket put in front.      *)
LEMMA PutInFrontListed ==
    ASSUME board \in Seq(Listing), IndexMatchesBoard, ListedTwiceOnlyIfOvertaken,
           UNCHANGED overtaken,
           NEW t, t.id \notin overtaken => ~Shown(t.id), NEW n \in 1..(Len(board) + 1),
           DOMAIN board' = 1..n,
           board'[1] = t, \A i \in 2..n : board'[i] = board[i - 1],
           indexed' = (indexed \cup {t.id}) \ {board[i].id : i \in n..Len(board)}
    PROVE  /\ IndexMatchesBoard' /\ ListedTwiceOnlyIfOvertaken'
           /\ \A x : Shown(x)' => Shown(x) \/ x = t.id
<1>1. Len(board) \in Nat /\ DOMAIN board = 1..Len(board) /\ n \in Nat
    OBVIOUS
<1>2. \A i \in 2..n : i - 1 \in DOMAIN board
    BY <1>1
<1>3. ListedTwiceOnlyIfOvertaken'
    <2> SUFFICES ASSUME NEW i \in 1..n, NEW j \in 1..n, board'[i].id = board'[j].id,
                        board'[i].id \notin overtaken
                 PROVE  i = j
        BY DEF ListedTwiceOnlyIfOvertaken
    <2>1. CASE i = 1 /\ j # 1
        <3>1. j \in 2..n /\ board[j - 1].id = t.id
            BY <1>1, <2>1
        <3> QED
            BY <1>2, <2>1, <3>1 DEF Shown
    <2>2. CASE i # 1 /\ j = 1
        <3>1. i \in 2..n /\ board[i - 1].id = t.id
            BY <1>1, <2>2
        <3> QED
            BY <1>2, <2>2, <3>1 DEF Shown
    <2>3. CASE i # 1 /\ j # 1
        <3>1. i \in 2..n /\ j \in 2..n
            BY <1>1, <2>3
        <3>2. i - 1 = j - 1
            BY <1>2, <3>1 DEF ListedTwiceOnlyIfOvertaken
        <3> QED
            BY <1>1, <3>1, <3>2
    <2> QED
        BY <2>1, <2>2, <2>3
<1>4. \A x : Shown(x)' => Shown(x) \/ x = t.id
    <2> SUFFICES ASSUME NEW x, NEW i \in 1..n, board'[i].id = x PROVE Shown(x) \/ x = t.id
        BY DEF Shown
    <2>1. i = 1 \/ i \in 2..n
        BY <1>1
    <2> QED
        BY <1>2, <2>1 DEF Shown
<1>5. ASSUME NEW x \in indexed' PROVE \E i \in 1..n : board'[i].id = x
    <2>1. CASE x = t.id
        BY <1>1, <2>1
    <2>2. CASE x # t.id
        <3>1. PICK i \in DOMAIN board : board[i].id = x
            BY <1>5, <2>2 DEF IndexMatchesBoard, ListedIds
        <3>2. i + 1 \in 2..n
            BY <1>1, <1>5, <3>1
        <3>3. board'[i + 1] = board[i] /\ i + 1 \in 1..n
            BY <1>1, <3>1, <3>2
        <3> QED
            BY <3>1, <3>3
    <2> QED
        BY <2>1, <2>2
<1>6. ASSUME NEW i \in 1..n, board'[i].id \notin overtaken PROVE board'[i].id \in indexed'
    <2>1. CASE i = 1
        <3>1. \A j \in n..Len(board) : board[j].id # t.id
            BY <1>1, <1>6, <2>1 DEF Shown
        <3> QED
            BY <2>1, <3>1
    <2>2. CASE i # 1
        <3>1. i \in 2..n /\ i - 1 \in DOMAIN board /\ board'[i] = board[i - 1]
            BY <1>1, <1>2, <2>2
        <3>2. \A j \in n..Len(board) : j \in DOMAIN board /\ j # i - 1
            BY <1>1, <3>1
        <3>3. \A j \in n..Len(board) : board[j].id # board[i - 1].id
            BY <1>6, <3>1, <3>2 DEF ListedTwiceOnlyIfOvertaken
        <3>4. board[i - 1].id \in indexed
            BY <1>6, <3>1 DEF IndexMatchesBoard, ListedIds
        <3> QED
            BY <3>1, <3>3, <3>4
    <2> QED
        BY <2>1, <2>2
<1>7. IndexMatchesBoard'
    BY <1>5, <1>6 DEF IndexMatchesBoard, ListedIds
<1> QED
    BY <1>3, <1>4, <1>7

LEMMA ShownListed ==
    ASSUME ScreenTyped, Listed, UNCHANGED <<tickets, poller, overtaken>>, ShowTicket
    PROVE  Listed'
<1> PICK msg : msg = ticketCh[1]
    OBVIOUS
<1>1. IndexLeadsToBoard
    BY DEF Listed, IndexMatchesBoard, ListedIds, IndexLeadsToBoard, Shown
<1>2. /\ 1 \in DOMAIN ticketCh
      /\ \A i \in DOMAIN ticketCh' : i + 1 \in DOMAIN ticketCh /\ ticketCh'[i] = ticketCh[i + 1]
    BY <1>1, TicketReachesBoard
<1>3. board \in Seq(Listing) /\ DOMAIN ticketCh' \subseteq Nat \ {0}
    <2>1. ticketCh' = Tail(ticketCh) /\ ticketCh \in Seq(TicketMsg) /\ ticketCh # <<>>
        BY DEF ShowTicket, ScreenTyped, ChannelsTyped
    <2>2. ticketCh' \in Seq(TicketMsg)
        BY <2>1, Received
    <2>3. DOMAIN ticketCh' = 1..Len(ticketCh') /\ Len(ticketCh') \in Nat
        BY <2>2
    <2> QED
        BY <2>3 DEF ScreenTyped, BoardTypeOK
<1>4. /\ IndexMatchesBoard' /\ ListedTwiceOnlyIfOvertaken'
      /\ \A x : Shown(x)' => Shown(x) \/ x = msg.ticket.id
    <2>1. CASE /\ UNCHANGED indexed
               /\ DOMAIN board' = DOMAIN board
               /\ \A i \in DOMAIN board :
                    \/ board'[i] = board[i]
                    \/ board'[i] = msg.ticket /\ board[i].id = msg.ticket.id
        <3>1. \A i \in DOMAIN board : board'[i].id = board[i].id
            BY <2>1
        <3>2. {board'[i].id : i \in DOMAIN board'} = {board[i].id : i \in DOMAIN board}
            BY <2>1, <3>1
        <3> QED
            BY <2>1, <3>1, <3>2
            DEF Listed, IndexMatchesBoard, ListedIds, ListedTwiceOnlyIfOvertaken, Shown
    <2>2. CASE /\ msg.isNew \/ msg.ticket.id \notin indexed
               /\ \E n \in 1..(Len(board) + 1) :
                    /\ DOMAIN board' = 1..n
                    /\ board'[1] = msg.ticket /\ \A i \in 2..n : board'[i] = board[i - 1]
                    /\ indexed' = (indexed \cup {msg.ticket.id})
                                    \ {board[i].id : i \in n..Len(board)}
        <3>1. msg.ticket.id \notin overtaken => ~Shown(msg.ticket.id)
            BY <1>2, <2>2 DEF Listed, SentComesFirst, IndexMatchesBoard, ListedIds, Shown
        <3> QED
            BY <1>3, <2>2, <3>1, PutInFrontListed DEF Listed
    <2> QED
        BY <1>1, <2>1, <2>2, TicketReachesBoard
<1>5. Sent(msg.ticket.id) /\ \A x : Sent(x)' => Sent(x)
    BY <1>2 DEF Sent
<1>6. RowsAreKnown'
    BY <1>4, <1>5 DEF Listed, RowsAreKnown
<1>7. ASSUME NEW p \in Pollers, NEW x, HoldsNew(p, x)', x \notin overtaken'
      PROVE  ~Shown(x)' /\ ~Sent(x)'
    <2>1. ~Shown(x) /\ ~Sent(x)
        BY <1>7 DEF Listed, HeldComesFirst, HoldsNew
    <2> QED
        BY <1>4, <1>5, <2>1
<1>8. ASSUME NEW i \in DOMAIN ticketCh', NEW x, ticketCh'[i].isNew,
             ticketCh'[i].ticket.id = x, x \notin overtaken'
      PROVE  /\ ~Shown(x)'
             /\ \A j \in DOMAIN ticketCh' : ticketCh'[j].ticket.id = x => i <= j
    <2>1. i + 1 \in DOMAIN ticketCh /\ ticketCh[i + 1].isNew /\ ticketCh[i + 1].ticket.id = x
        BY <1>2, <1>8
    <2>2. ~Shown(x) /\ \A j \in DOMAIN ticketCh : ticketCh[j].ticket.id = x => i + 1 <= j
        BY <1>8, <2>1 DEF Listed, SentComesFirst
    <2>3. x # msg.ticket.id
        BY <1>2, <1>3, <2>2
    <2>4. ASSUME NEW j \in DOMAIN ticketCh', ticketCh'[j].ticket.id = x PROVE i <= j
        <3>1. i + 1 <= j + 1
            BY <1>2, <2>2, <2>4
        <3> QED
            BY <1>3, <3>1
    <2> QED
        BY <1>4, <2>2, <2>3, <2>4
<1>9. HeldComesFirst' /\ SentComesFirst'
    BY <1>7, <1>8 DEF HeldComesFirst, SentComesFirst
<1>10. NewOnce'
    BY DEF Listed, NewOnce, HoldsNew
<1> QED
    BY <1>4, <1>6, <1>9, <1>10 DEF Listed

LEMMA EventListed ==
    ASSUME ScreenTyped, Listed, UNCHANGED <<tickets, poller, ticketCh, overtaken>>, ShowEvent
    PROVE  Listed'
<1> PICK e : e = eventCh[1]
    OBVIOUS
<1>1. IndexLeadsToBoard
    BY DEF Listed, IndexMatchesBoard, ListedIds, IndexLeadsToBoard, Shown
<1>2. /\ UNCHANGED indexed
      /\ DOMAIN board' = DOMAIN board
      /\ \A i \in DOMAIN board : board'[i].id = board[i].id
    BY <1>1, EventReachesBoard
<1>3. {board'[i].id : i \in DOMAIN board'} = {board[i].id : i \in DOMAIN board}
    BY <1>2
<1>4. \A x : (Shown(x)' <=> Shown(x)) /\ (Sent(x)' <=> Sent(x))
    BY <1>2 DEF Shown, Sent
<1>5. RowsAreKnown'
    BY <1>4 DEF Listed, RowsAreKnown
<1>6. HeldComesFirst' /\ SentComesFirst' /\ NewOnce'
    BY <1>4 DEF Listed, HeldComesFirst, SentComesFirst, NewOnce, HoldsNew
<1> QED
    BY <1>2, <1>3, <1>5, <1>6 DEF Listed, IndexMatchesBoard, ListedIds, ListedTwiceOnlyIfOvertaken

LEMMA NothingListed ==
    ASSUME board' = <<>>, indexed' = {}, ticketCh' = <<>>,
           \A p \in Pollers : poller'[p].at = "waiting"
    PROVE  Listed'
BY DEF Listed, RowsAreKnown, NewOnce, HeldComesFirst, SentComesFirst, IndexMatchesBoard, ListedIds,
       ListedTwiceOnlyIfOvertaken, Shown, Sent, HoldsNew

LEMMA StaysListed ==
    ASSUME Consistent, ScreenTyped, Listed, [LiveNext]_liveVars
    PROVE  Listed'
<1>1. CASE UNCHANGED <<board, indexed, ticketCh, overtaken>>
    BY <1>1, LiveStepIsStep, ListedKept
<1>2. ASSUME NEW p \in Pollers, SendTicket(p), UNCHANGED boardVars PROVE Listed'
    BY <1>2, LiveStepIsStep, SendingListed DEF boardVars
<1>3. CASE ShowTicket
    BY <1>3, ShownListed DEF ShowTicket, vars, storeVars, pollerVars
<1>4. CASE ShowEvent
    BY <1>4, EventListed DEF ShowEvent, vars, storeVars, pollerVars
<1>5. CASE StartOver
    <2>1. \A p \in Pollers : poller'[p].at = "waiting"
        BY <1>5 DEF StartOver, Restart, StopPollers
    <2> QED
        BY <1>5, <2>1, NothingListed DEF StartOver
<1>6. CASE KeyPress
    BY <1>1, <1>6
    DEF KeyPress, KeyUp, KeyDown, MoveTo, KeyEnter, KeyEsc, KeyFilter, KeyTab, Resize, boardVars,
        channels
<1>7. ASSUME UNCHANGED boardVars,
             \/ \E p \in Pollers : PollerMoves(p)
             \/ \E w \in Workers : SendProcessing(w) \/ SendDone(w) \/ SendFailed(w) \/ WorkerMoves(w)
             \/ Environment
             \/ UNCHANGED channels
      PROVE  Listed'
    BY <1>1, <1>7
    DEF PollerMoves, SendProcessing, SendDone, SendFailed, SendEvent, WorkerMoves, Environment,
        boardVars, channels
<1> QED
    BY <1>2, <1>3, <1>4, <1>5, <1>6, <1>7 DEF LiveNext, liveVars

LEMMA AlwaysListed == LiveSpec => []Listed
<1>1. LiveInit => Listed
    BY DEF LiveInit, Init, PollerInit, BoardInit, Listed, RowsAreKnown, NewOnce, HeldComesFirst,
           SentComesFirst, IndexMatchesBoard, ListedIds, ListedTwiceOnlyIfOvertaken, Shown, Sent,
           HoldsNew
<1>2. Consistent /\ ScreenTyped /\ Listed /\ [LiveNext]_liveVars => Listed'
    BY StaysListed
<1>3. LiveSpec => []Consistent
    BY TUIChangesNothing, AlwaysConsistent, PTL
<1> QED
    BY <1>1, <1>2, <1>3, AlwaysTyped, PTL DEF LiveSpec

(***************************************************************************)
(* README.md: the Tickets tab shows "Deduplicated error tickets".  For any *)
(* number of pollers, also of one name, of errors and restarts, and any    *)
(* size of the list and of the channels, a ticket is listed once, unless a *)
(* count of it was sent before its insert.                                 *)
(***************************************************************************)
THEOREM ListedOnce == LiveSpec => []ListedTwiceOnlyIfOvertaken
<1>1. Listed => ListedTwiceOnlyIfOvertaken
    BY DEF Listed
<1> QED
    BY <1>1, AlwaysListed, PTL

(***************************************************************************)
(* model.go: whatever was cut off, the index knows listed tickets only,    *)
(* and each of them of which no count was sent before its insert.          *)
(***************************************************************************)
THEOREM IndexAgrees == LiveSpec => []IndexMatchesBoard
<1>1. Listed => IndexMatchesBoard
    BY DEF Listed
<1> QED
    BY <1>1, AlwaysListed, PTL
=============================================================================
