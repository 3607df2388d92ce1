------------------------------ MODULE LiveView ------------------------------
(***************************************************************************)
(* The pipeline and its TUI: pollers and workers send to buffered channels *)
(* and drop what does not fit; Update takes one message at a time from     *)
(* either channel, in any order between the two.                           *)
(***************************************************************************)
EXTENDS Sentinel, TicketBoard

CONSTANTS
    TicketChSize,   \* 500
    EventChSize,    \* 200
    Keys            \* the keys the user may press

KeyNames == {"move", "detail", "tab", "resize"} \cup FilterKinds

ASSUME LiveAssumption ==
    /\ {TicketChSize, EventChSize} \subseteq Nat
    /\ Keys \subseteq KeyNames

VARIABLES
    ticketCh,   \* TicketMsg's: the ticket as Upsert left it, and IsNew
    eventCh,    \* worker.Event's
    overtaken   \* history: the tickets a count of which was sent before the insert

channels == <<ticketCh, eventCh, overtaken>>
liveVars == <<vars, boardVars, uiVars, channels>>

LiveTypeOK ==
    /\ TypeOK
    /\ BoardTypeOK
    /\ ticketCh \in Seq([ticket: Listing, isNew: BOOLEAN]) /\ Len(ticketCh) <= TicketChSize
    /\ eventCh \in Seq([id: Nat, status: DOMAIN ShownAs]) /\ Len(eventCh) <= EventChSize
    /\ overtaken \subseteq Nat

LiveInit ==
    /\ Init
    /\ BoardInit
    /\ ticketCh = <<>>
    /\ eventCh = <<>>
    /\ overtaken = {}

(* Mutant: the channel has no limit.                                       *)
OfferAlways(ch, size, msg) == Append(ch, msg)

(* select with a default: a full channel drops the message.                *)
Offer(ch, size, msg) == IF Len(ch) < size THEN Append(ch, msg) ELSE ch

TicketMsgOf(p) ==
    LET t == poller[p].ticket IN
    [ticket |-> [id |-> t.id, app |-> PollerApp[p], status |-> t.status,
                 severity |-> Normalized(Severity[tickets[t.id].hash])],
     isNew |-> t.isNew]

(* The poller inserted the ticket and has yet to notify the TUI.           *)
HoldsNew(p, id) ==
    /\ poller[p].at \notin {"waiting", "entries"}
    /\ poller[p].ticket.isNew /\ poller[p].ticket.id = id
Overtakes(p) ==
    ~poller[p].ticket.isNew /\ \E q \in Pollers : HoldsNew(q, poller[p].ticket.id)

(* Mutant: the poller waits for room in the channel.                       *)
SendTicketWaits(p) ==
    /\ Notify(p) /\ UNCHANGED workerVars
    /\ Len(ticketCh) < TicketChSize
    /\ ticketCh' = Append(ticketCh, TicketMsgOf(p))
    /\ UNCHANGED <<eventCh, overtaken>>

SendTicket(p) ==
    /\ Notify(p) /\ UNCHANGED workerVars
    /\ ticketCh' = Offer(ticketCh, TicketChSize, TicketMsgOf(p))
    /\ overtaken' = overtaken \cup
          {id \in {poller[p].ticket.id} : Overtakes(p) /\ ticketCh' # ticketCh}
    /\ UNCHANGED eventCh

SendEvent(w, status) ==
    /\ eventCh' = Offer(eventCh, EventChSize, [id |-> Tid(w), status |-> status])
    /\ UNCHANGED <<pollerVars, ticketCh, overtaken>>

PollerMoves(p) == PollerStep(p) /\ ~At(p, "notify") /\ UNCHANGED <<workerVars, channels>>

(* "processing" before an action, "done" or "failed" after each.           *)
SendProcessing(w) == StartAction(w) /\ SendEvent(w, "processing")
SendDone(w) == ActionOK(w) /\ SendEvent(w, "done")
SendFailed(w) == ActionFails(w) /\ SendEvent(w, "failed")

Silent(w) ==
    \/ worker[w].at \notin {"acting", "running"}
    \/ worker[w].at = "acting" /\ (ctxDone \/ worker[w].done = NActions)
WorkerMoves(w) == Silent(w) /\ WorkerStep(w) /\ UNCHANGED <<pollerVars, channels>>

Environment ==
    /\ \/ \E m \in MessageIds : Expire(m)
       \/ \E flag \in PauseFlags : Pause(flag)
       \/ Cancel
       \/ DayPasses
    /\ UNCHANGED channels

ShowTicket ==
    /\ ticketCh # <<>>
    /\ UpdateTicket(Head(ticketCh).ticket, Head(ticketCh).isNew)
    /\ ticketCh' = Tail(ticketCh)
    /\ UNCHANGED <<vars, eventCh, overtaken>>

(* An event of a message without a ticket id is not about the board.       *)
ShowEvent ==
    /\ eventCh # <<>>
    /\ ApplyEvent(Head(eventCh))
    /\ eventCh' = Tail(eventCh)
    /\ UNCHANGED <<vars, ticketCh, overtaken>>

KeyPress ==
    /\ \/ "move" \in Keys /\ (KeyUp \/ KeyDown)
       \/ "detail" \in Keys /\ (KeyEnter \/ KeyEsc)
       \/ \E kind \in FilterKinds \cap Keys : KeyFilter(kind)
       \/ "tab" \in Keys /\ KeyTab
       \/ "resize" \in Keys /\ \E h \in Heights : Resize(h)
    /\ UNCHANGED <<vars, channels>>

(* A new process has a new TUI.                                            *)
StartOver ==
    /\ Restart
    /\ board' = <<>> /\ indexed' = {}
    /\ cursor' = 0 /\ offset' = 0 /\ detail' = Closed
    /\ filter' = [kind \in FilterKinds |-> 0]
    /\ tab' = FALSE /\ height' \in Heights
    /\ ticketCh' = <<>> /\ eventCh' = <<>> /\ overtaken' = {}

LiveNext ==
    \/ /\ \/ \E p \in Pollers : SendTicket(p) \/ PollerMoves(p)
          \/ \E w \in Workers : SendProcessing(w) \/ SendDone(w) \/ SendFailed(w) \/ WorkerMoves(w)
          \/ Environment
       /\ UNCHANGED <<boardVars, uiVars>>
    \/ ShowTicket
    \/ ShowEvent
    \/ KeyPress
    \/ StartOver

LiveSpec == LiveInit /\ [][LiveNext]_liveVars

-----------------------------------------------------------------------------
(***************************************************************************)
(* README.md: the Tickets tab shows "Deduplicated error tickets".          *)
(* Whatever was dropped, cut off or late, a ticket is listed once, unless  *)
(* two pollers of one name raced and the TUI was sent the count of one     *)
(* before the insert of the other, which updateTicket puts in front        *)
(* without a look at the index.                                            *)
(***************************************************************************)
ListedTwiceOnlyIfOvertaken ==
    \A i, j \in DOMAIN board :
        board[i].id = board[j].id => i = j \/ board[i].id \in overtaken

(***************************************************************************)
(* The index knows tickets of the board only, and each of them but those   *)
(* that may be listed twice, of which the cut takes one away: an update of *)
(* a ticket that was cut off is not lost in a listing nobody sees, and one *)
(* of a ticket on the board reaches it.                                    *)
(***************************************************************************)
ListedIds == {board[i].id : i \in DOMAIN board}
IndexMatchesBoard ==
    indexed \subseteq ListedIds /\ ListedIds \subseteq indexed \cup overtaken

(***************************************************************************)
(* model.go keeps the cursor in the part of the list that views.go draws:  *)
(* a key that moves the cursor, or puts it back by changing a filter, has  *)
(* both lines of its listing in the panel, whatever became of the list and *)
(* of the terminal since the last key, if that has nine lines and the list *)
(* has still a listing there.                                              *)
(***************************************************************************)
CursorOnScreen ==
    [][cursor' # cursor \/ filter' # filter
        => (height >= 9 /\ Selected => Drawn(cursor + 1))']_liveVars

(***************************************************************************)
(* The board shows a ticket as done only after its first action completed, *)
(* whatever tickets and events overtook each other.  Not after the last:   *)
(* each action sends a "done" of its own, between which the board shows    *)
(* done for a moment while the row says in_progress.                       *)
(***************************************************************************)
BoardNotAhead ==
    \A i \in DOMAIN board :
        board[i].status = "done" =>
            \E m \in MessageIds : messages[m].tid = board[i].id /\ <<m, 1>> \in ran

(***************************************************************************)
(* poll and sendEvent drop what does not fit into a channel: whatever the  *)
(* TUI leaves unread, a poller that has come to its notification, and a    *)
(* goroutine that has come to an action or to its end, can go on.          *)
(***************************************************************************)
NobodyWaitsForTUI ==
    /\ \A p \in Pollers : At(p, "notify") => ENABLED SendTicket(p)
    /\ \A w \in Workers :
        /\ worker[w].at = "running" => ENABLED SendDone(w)
        /\ worker[w].at = "acting" /\ ~Silent(w) => ENABLED SendProcessing(w)

=============================================================================
