---------------------------- MODULE TicketBoard ----------------------------
(***************************************************************************)
(* The Tickets tab of the TUI (internal/tui/model.go): the list of tickets *)
(* and its index by id, filters, cursor, scroll offset and detail view.    *)
(* Update is one goroutine, so each message and key is one step.  Of what  *)
(* internal/tui/views.go draws, the lines of the list that the panel has   *)
(* room for are here; what the viewport of the detail view shows is not.   *)
(***************************************************************************)
EXTENDS TicketStore, FiniteSets, Lists

CONSTANTS
    AppOrder,    \* the names of the configured applications, in their order
    BoardSize,   \* 200, the tickets the board keeps
    Severity,    \* the severity the classifier gives to each line
    Heights      \* the heights the terminal may have

ASSUME BoardAssumption ==
    /\ AppOrder \in Seq(Apps)
    /\ BoardSize \in Nat \ {0}
    /\ Severity \in [Lines -> STRING]
    /\ Heights \subseteq Nat /\ Heights # {}

VARIABLES
    board,     \* m.tickets, the newest first
    indexed,   \* the keys of m.ticketsById; each points to the first listing of the id
    cursor,    \* the index in the filtered list, from 0
    offset,    \* the index of the first listing on the screen, from 0
    detail,    \* the ticket the open detail view is about, or Closed
    filter,    \* the position of each filter in its options, from 0
    tab,       \* whether the Tickets tab is the active one
    height

boardVars == <<board, indexed>>
uiVars == <<cursor, offset, detail, filter, tab, height>>

Closed == 0
Severities == <<"critical", "high", "medium", "low">>
Listing == [id: Nat, app: Apps, status: Statuses,
            severity: {Severities[i] : i \in DOMAIN Severities}]
All == "all"
FilterKinds == {"status", "app", "severity"}
Options == [status   |-> <<All, "open", "in_progress", "done", "failed">>,
            app      |-> <<All>> \o AppOrder,
            severity |-> <<All>> \o Severities]

(* normalizeSeverity, of a word in capitals                                *)
Normalized(word) ==
    CASE word \in {"CRITICAL", "FATAL"}         -> "critical"
      [] word \in {"HIGH", "ERROR"}             -> "high"
      [] word \in {"MEDIUM", "WARNING", "WARN"} -> "medium"
      [] OTHER                                  -> "low"

BoardTypeOK ==
    /\ board \in Seq(Listing) /\ Len(board) <= BoardSize
    /\ indexed \subseteq Nat
    /\ cursor \in Nat /\ offset \in Nat
    /\ detail \in Nat
    /\ \A kind \in FilterKinds : filter[kind] + 1 \in DOMAIN Options[kind]
    /\ tab \in BOOLEAN
    /\ height \in Heights

BoardInit ==
    /\ board = <<>>
    /\ indexed = {}
    /\ cursor = 0 /\ offset = 0
    /\ detail = Closed
    /\ filter = [kind \in FilterKinds |-> 0]
    /\ tab = FALSE
    /\ height \in Heights   \* the first WindowSizeMsg

Listings(id) == {i \in DOMAIN board : board[i].id = id}
First(id) == CHOOSE i \in Listings(id) : \A j \in Listings(id) : i <= j

(* Mutant: the listings that are cut off stay in the index.                *)
KeepAndForgetNothing(list, ids) ==
    /\ board' = SubSeq(list, 1, IF Len(list) > BoardSize THEN BoardSize ELSE Len(list))
    /\ indexed' = ids

(* The list is cut off at BoardSize; the ids of the listings that go leave *)
(* the index.                                                              *)
Keep(list, ids) ==
    IF Len(list) <= BoardSize
    THEN board' = list /\ indexed' = ids
    ELSE /\ board' = SubSeq(list, 1, BoardSize)
         /\ indexed' = ids \ {list[i].id : i \in (BoardSize + 1)..Len(list)}

(* Mutant: every message puts its ticket in front.                         *)
PutInFront(t, isNew) ==
    /\ Keep(<<t>> \o board, indexed \cup {t.id})
    /\ UNCHANGED uiVars

(* updateTicket: a new ticket is put in front without a look at the index. *)
UpdateTicket(t, isNew) ==
    /\ IF ~isNew /\ t.id \in indexed
       THEN board' = [board EXCEPT ![First(t.id)] = t] /\ UNCHANGED indexed
       ELSE Keep(<<t>> \o board, indexed \cup {t.id})
    /\ UNCHANGED uiVars

(* Mutant: the first action's start shows the ticket as done.             *)
ShownTooSoon == [processing |-> "done", done |-> "done", failed |-> "failed"]

(* What a worker event makes of the status on the board.                   *)
ShownAs == [processing |-> "in_progress", done |-> "done", failed |-> "failed"]

Matches(t) ==
    \A kind \in FilterKinds : Options[kind][filter[kind] + 1] \in {All, t[kind]}
Filtered == Passing(board, {t \in Listing : Matches(t)})
Selected == cursor < Len(Filtered)

(* An event of a ticket the board does not know changes nothing.  The open *)
(* detail view is drawn again for the ticket under the cursor.             *)
ApplyEvent(e) ==
    /\ UNCHANGED <<indexed, cursor, offset, filter, tab, height>>
    /\ board' = IF e.id \in indexed
                THEN [board EXCEPT ![First(e.id)].status = ShownAs[e.status]]
                ELSE board
    /\ detail' = IF detail # Closed /\ tab /\ cursor < Len(Filtered')
                    /\ Filtered'[cursor + 1].id = e.id
                 THEN e.id ELSE detail

(* Mutant: the filter bar and the frame are not reckoned with.             *)
VisibleWithoutFrame == IF height < 10 THEN 1 ELSE height \div 3

(* Three lines to a ticket and seven for the rest of the screen.           *)
VisibleItems == IF height < 10 THEN 1 ELSE (height - 7) \div 3

(* What renderTicketList draws: of the listings from offset on, at most    *)
(* VisibleItems, each of two lines and a divider below the filter bar, and *)
(* of all lines those that padToHeight leaves in the panel.                *)
PanelLines == height - 6
Page == {i \in DOMAIN Filtered : offset < i /\ i <= offset + VisibleItems}
Drawn(i) == i \in Page /\ 1 + 3 * (i - offset - 1) + 2 <= PanelLines

Clamped(o, c) ==
    CASE c < o -> c
      [] c >= o + VisibleItems -> c - VisibleItems + 1
      [] OTHER -> o

MoveTo(c) ==
    /\ cursor' = c
    /\ offset' = Clamped(offset, c)
    /\ UNCHANGED <<boardVars, detail, filter, tab, height>>

ListKeys == tab /\ detail = Closed

KeyUp == ListKeys /\ cursor > 0 /\ MoveTo(cursor - 1)
KeyDown == ListKeys /\ cursor + 1 < Len(Filtered) /\ MoveTo(cursor + 1)

KeyEnter ==
    /\ ListKeys
    /\ Selected
    /\ detail' = Filtered[cursor + 1].id
    /\ UNCHANGED <<boardVars, cursor, offset, filter, tab, height>>

KeyEsc ==
    /\ tab /\ detail # Closed
    /\ detail' = Closed
    /\ UNCHANGED <<boardVars, cursor, offset, filter, tab, height>>

(* f, a and s                                                              *)
KeyFilter(kind) ==
    /\ ListKeys
    /\ filter' = [filter EXCEPT ![kind] = (@ + 1) % Len(Options[kind])]
    /\ cursor' = 0 /\ offset' = 0
    /\ UNCHANGED <<boardVars, detail, tab, height>>

KeyTab ==
    /\ tab' = ~tab
    /\ UNCHANGED <<boardVars, cursor, offset, detail, filter, height>>

(* recalcSizes gives the viewports their sizes and does not scroll.        *)
Resize(h) ==
    /\ height' = h
    /\ UNCHANGED <<boardVars, cursor, offset, detail, filter, tab>>
=============================================================================
