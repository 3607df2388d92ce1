------------------------------- MODULE Panels -------------------------------
(***************************************************************************)
(* What reaches the TUI and what its tabs make of it (internal/tui): five  *)
(* of the channels of main.go with their producers, the one command that   *)
(* waits on each, the bounded lists that Update keeps, and the Logs,       *)
(* Workers and Sentinel tabs with their filters and keys.  TicketBoard has *)
(* the Tickets tab; q, what a line looks like and scrolling are left out.  *)
(***************************************************************************)
EXTENDS Naturals, Sequences, Lists

CONSTANTS
    AppOrder,    \* the names of the configured applications, in their order
    Items,       \* for each feed, what may be sent: see Item
    ChSize,      \* for each feed, the size of its channel
    Keep,        \* for each list, how many items it keeps
    Chars,       \* the characters the user types
    MaxSent,     \* bound: how many items all channels accept
    MaxSearch    \* bound: the length of the search text

Feeds == {"log", "event", "sentinel", "status", "stats"}
Lists == {"log", "event", "sentinel"}
AppSet == {AppOrder[i] : i \in DOMAIN AppOrder}
AppStatuses == {"idle", "polling", "error"}
Levels == <<"DEBUG", "INFO", "WARN", "ERROR">>
LevelSet == {Levels[i] : i \in DOMAIN Levels}

(* The time stamp, the wording and what else no filter looks at are left   *)
(* out; text is the message and the attributes of a record, in lower case. *)
Item(feed) ==
    CASE feed = "log"      -> [app: AppSet]
      [] feed = "event"    -> [app: AppSet, ticket: Nat]
      [] feed = "sentinel" -> [level: LevelSet, text: Seq(STRING)]
      [] feed = "status"   -> [app: AppSet, status: AppStatuses]
      [] feed = "stats"    -> [inFlight: Nat]

ASSUME PanelAssumption ==
    /\ AppOrder \in Seq(STRING)
    /\ \A feed \in Feeds : Items[feed] \subseteq Item(feed) /\ ChSize[feed] \in Nat
    /\ \A list \in Lists \cup {"ticket"} : Keep[list] \in Nat \ {0}
    /\ {MaxSent, MaxSearch} \subseteq Nat

VARIABLES
    ch,         \* the channels
    waiting,    \* how many commands wait on each channel
    carried,    \* the items such commands have and Update has not
    sent,       \* history: what each channel accepted
    lists,      \* m.logLines, m.workerEvents, m.sentinelLines
    byTicket,   \* m.workerByTicket
    statuses,   \* m.appStatuses
    sqsStats,
    view,       \* the content of logVP, workerVP and sentinelVP
    filter,     \* the position of each list's filter in its options, from 0
    search,     \* m.sentinelSearch
    tab,
    paused

feedVars == <<ch, waiting, carried, sent>>
listVars == <<lists, byTicket, statuses, sqsStats>>
keyVars == <<filter, search, tab, paused>>
vars == <<feedVars, listVars, view, keyVars>>

All == "all"
Tabs == <<"overview", "log", "tickets", "event", "sentinel">>
Options(list) == <<All>> \o (IF list = "sentinel" THEN Levels ELSE AppOrder)
Chosen(list) == Options(list)[filter[list] + 1]
NoStats == [inFlight |-> 0]

PanelTypeOK ==
    /\ \A feed \in Feeds :
        /\ ch[feed] \in Seq(Item(feed)) /\ Len(ch[feed]) <= ChSize[feed]
        /\ carried[feed] \in Seq(Item(feed))
        /\ waiting[feed] + Len(carried[feed]) = 1
    /\ \A list \in Lists : lists[list] \in Seq(Item(list)) /\ Len(lists[list]) <= Keep[list]
    /\ statuses \in [AppSet -> AppStatuses]
    /\ \A list \in Lists : filter[list] + 1 \in DOMAIN Options(list)
    /\ search \in Seq(Chars) /\ Len(search) <= MaxSearch
    /\ tab + 1 \in DOMAIN Tabs
    /\ paused \subseteq {"pollers", "workers"}

Tickets == {item.ticket : item \in Items["event"]} \ {0}

Init ==
    /\ ch = [feed \in Feeds |-> <<>>]
    /\ waiting = [feed \in Feeds |-> 1]
    /\ carried = [feed \in Feeds |-> <<>>]
    /\ sent = [feed \in Feeds |-> <<>>]
    /\ lists = [list \in Lists |-> <<>>]
    /\ byTicket = [t \in Tickets |-> <<>>]
    /\ statuses = [a \in AppSet |-> "idle"]
    /\ sqsStats = NoStats
    /\ view = [list \in Lists |-> <<>>]
    /\ filter = [list \in Lists |-> 0]
    /\ search = <<>>
    /\ tab = 0
    /\ paused = {}

-----------------------------------------------------------------------------
(* Mutant: the channel has no limit.                                       *)
OfferAlways(feed, item) ==
    /\ ch' = [ch EXCEPT ![feed] = Append(@, item)]
    /\ sent' = [sent EXCEPT ![feed] = Append(@, item)]

(* A producer, whichever goroutine it is, never waits: a full channel      *)
(* drops the item.                                                         *)
Offer(feed, item) ==
    /\ Len(ch[feed]) < ChSize[feed]
    /\ ch' = [ch EXCEPT ![feed] = Append(@, item)]
    /\ sent' = [sent EXCEPT ![feed] = Append(@, item)]

Sent == Len(sent["log"]) + Len(sent["event"]) + Len(sent["sentinel"])
        + Len(sent["status"]) + Len(sent["stats"])

(* A poller, a worker or the handler of the records of slog.               *)
Produce(feed) ==
    /\ Sent < MaxSent
    /\ \E item \in Items[feed] : Offer(feed, item)
    /\ UNCHANGED <<waiting, carried, listVars, view, keyVars>>

(* StatsWatcher.poll, every 10 s; an error is logged.                      *)
PollStats ==
    /\ Sent < MaxSent
    /\ \E n \in Items["stats"] : Offer("stats", n)
    /\ UNCHANGED <<waiting, carried, listVars, view, keyVars>>

(* Mutant: the command goes on waiting after it has an item.               *)
TakeAndWaitOn(feed) ==
    /\ waiting[feed] > 0
    /\ ch[feed] # <<>>
    /\ carried' = [carried EXCEPT ![feed] = Append(@, Head(ch[feed]))]
    /\ ch' = [ch EXCEPT ![feed] = Tail(@)]
    /\ UNCHANGED <<waiting, sent, listVars, view, keyVars>>

(* waitForLog and the like: a command runs in a goroutine of its own.      *)
TakeItem(feed) ==
    /\ waiting[feed] > 0
    /\ ch[feed] # <<>>
    /\ carried' = [carried EXCEPT ![feed] = Append(@, Head(ch[feed]))]
    /\ ch' = [ch EXCEPT ![feed] = Tail(@)]
    /\ waiting' = [waiting EXCEPT ![feed] = @ - 1]
    /\ UNCHANGED <<sent, listVars, view, keyVars>>

-----------------------------------------------------------------------------
LastOf(s, n) == SubSeq(s, IF Len(s) > n THEN Len(s) - n + 1 ELSE 1, Len(s))

(* addLogEntry, addWorkerEvent, addSentinelLine                            *)
AddLine(list, item) == lists' = [lists EXCEPT ![list] = LastOf(Append(@, item), Keep[list])]

AddForTicket(item) ==
    byTicket' = IF item.ticket = 0 THEN byTicket
                ELSE [byTicket EXCEPT ![item.ticket] = LastOf(Append(@, item), Keep["ticket"])]

(* strings.Contains                                                        *)
Contains(text, part) ==
    \E i \in 0..(Len(text) - Len(part)) : SubSeq(text, i + 1, i + Len(part)) = part

Matches(list, item) ==
    IF list = "sentinel"
    THEN /\ Chosen(list) \in {All, item.level}
         /\ Len(search) <= Len(item.text) /\ Contains(item.text, search)
    ELSE Chosen(list) \in {All, item.app}

(* filteredLogs, filteredWorkerEvents, filteredSentinelLines               *)
Filtered(list) == Passing(lists[list], {item \in Item(list) : Matches(list, item)})

Refresh(list) == view' = [view EXCEPT ![list] = Filtered(list)']

(* The cases of Update about an item of each feed.                         *)
Show(feed, item) ==
    CASE feed = "status" ->
            /\ statuses' = [statuses EXCEPT ![item.app] = item.status]
            /\ UNCHANGED <<lists, byTicket, sqsStats, view>>
      [] feed = "stats" ->
            /\ sqsStats' = item
            /\ UNCHANGED <<lists, byTicket, statuses, view>>
      [] OTHER ->
            /\ AddLine(feed, item)
            /\ IF feed = "event" THEN AddForTicket(item) ELSE UNCHANGED byTicket
            /\ Refresh(feed)
            /\ UNCHANGED <<statuses, sqsStats>>

(* Update takes the item of any command that has one, and waits again.     *)
Update(feed) ==
    /\ UNCHANGED <<ch, sent, keyVars>>
    /\ \E i \in DOMAIN carried[feed] :
        /\ Show(feed, carried[feed][i])
        /\ carried' = [carried EXCEPT ![feed] = SubSeq(@, 1, i - 1) \o SubSeq(@, i + 1, Len(@))]
    /\ waiting' = [waiting EXCEPT ![feed] = @ + 1]

-----------------------------------------------------------------------------
OnTab(name) == Tabs[tab + 1] = name

GoTo(i) ==
    /\ tab' = i
    /\ UNCHANGED <<filter, search, paused, view>>

(* p and w do nothing on the Sentinel tab, where they are not typed either. *)
TogglePause(flag) ==
    /\ ~OnTab("sentinel")
    /\ paused' = IF flag \in paused THEN paused \ {flag} ELSE paused \cup {flag}
    /\ UNCHANGED <<filter, search, tab, view>>

(* Mutant: the filter changes and the view stays.                          *)
CycleOnly(list) ==
    /\ OnTab(list)
    /\ filter' = [filter EXCEPT ![list] = (@ + 1) % Len(Options(list))]
    /\ UNCHANGED <<search, tab, paused, view>>

(* a on the Logs and Workers tabs, l on the Sentinel tab                   *)
CycleFilter(list) ==
    /\ OnTab(list)
    /\ filter' = [filter EXCEPT ![list] = (@ + 1) % Len(Options(list))]
    /\ UNCHANGED <<search, tab, paused>>
    /\ Refresh(list)

Search(text) ==
    /\ OnTab("sentinel")
    /\ search' = text
    /\ UNCHANGED <<filter, tab, paused>>
    /\ Refresh("sentinel")

Digits == <<"1", "2", "3", "4", "5">>
Commands == {"p", "w", "k", "j", "g", "G", "l", "/"}
             \cup {Digits[i] : i \in DOMAIN Digits}

Press(key) ==
    \/ \E i \in DOMAIN Digits : key = Digits[i] /\ GoTo(i - 1)
    \/ key = "tab" /\ GoTo((tab + 1) % Len(Tabs))
    \/ key = "shift+tab" /\ GoTo((tab + 4) % Len(Tabs))
    \/ key = "p" /\ TogglePause("pollers")
    \/ key = "w" /\ TogglePause("workers")
    \/ key = "a" /\ \E list \in {"log", "event"} : CycleFilter(list)
    \/ key = "l" /\ CycleFilter("sentinel")
    \/ key = "/" /\ Search(<<>>)
    \/ key = "backspace" /\ search # <<>> /\ Search(SubSeq(search, 1, Len(search) - 1))
    \/ /\ key \in Chars \ Commands
       /\ Len(search) < MaxSearch
       /\ Search(Append(search, key))

Keys == Chars \cup Commands \cup {"tab", "shift+tab", "backspace", "a"}

KeyPress ==
    /\ UNCHANGED <<feedVars, listVars>>
    /\ \E key \in Keys : Press(key)

Next ==
    \/ \E feed \in Feeds \ {"stats"} : Produce(feed)
    \/ PollStats
    \/ \E feed \in Feeds : TakeItem(feed) \/ Update(feed)
    \/ KeyPress

Spec == Init /\ [][Next]_vars

-----------------------------------------------------------------------------
(***************************************************************************)
(* README.md: "TUI shows everything live".  Each channel has one reader,   *)
(* so that every list is the end of what its channel accepted, in that     *)
(* order and without a gap, up to what is still on the way; the events of  *)
(* a ticket, the status of an application and the counters of the queue    *)
(* are the latest ones.                                                    *)
(***************************************************************************)
Shown(feed) == SubSeq(sent[feed], 1, Len(sent[feed]) - Len(carried[feed]) - Len(ch[feed]))
OnTheWay(feed) == SubSeq(sent[feed], Len(Shown(feed)) + 1, Len(sent[feed]))
EventsOf(t) == Passing(Shown("event"), {item \in Item("event") : item.ticket = t})
StatusesOf(a) == Passing(Shown("status"), {item \in Item("status") : item.app = a})
Latest(s, default) == IF s = <<>> THEN default ELSE s[Len(s)]

PanelsShowHistory ==
    /\ \A feed \in Feeds : carried[feed] \o ch[feed] = OnTheWay(feed)
    /\ \A list \in Lists : lists[list] = LastOf(Shown(list), Keep[list])
    /\ \A t \in Tickets : byTicket[t] = LastOf(EventsOf(t), Keep["ticket"])
    /\ \A a \in AppSet :
        statuses[a] = Latest(StatusesOf(a), [app |-> a, status |-> "idle"]).status
    /\ sqsStats = Latest(Shown("stats"), NoStats)

(***************************************************************************)
(* README.md: Logs is a "Raw log stream, filterable by app", Sentinel has  *)
(* "level filter, and text search".  What a tab shows is what its list has *)
(* for the filter and the search text of now, whichever of the three       *)
(* changed last and whichever tab was in front.                            *)
(***************************************************************************)
ViewsAreFresh == \A list \in Lists : view[list] = Filtered(list)
=============================================================================
