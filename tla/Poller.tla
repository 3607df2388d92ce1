------------------------------- MODULE Poller -------------------------------
(***************************************************************************)
(* The poller goroutines (internal/poller/poller.go): each fetches the log *)
(* entries of its application and, entry by entry, classifies, upserts,    *)
(* publishes a new ticket, records the outcome in the row and notifies the *)
(* TUI.  Every call that leaves the goroutine is a step of its own, so     *)
(* that other goroutines, a cancelled context and a crash come in between. *)
(***************************************************************************)
EXTENDS Process, TicketStore, TicketQueue

CONSTANTS
    Pollers,     \* one goroutine for each entry of "applications"
    PollerApp,   \* the application name of each: names may be repeated
    MaxEntries   \* bound: the log entries fetched in a behaviour

ASSUME PollerAssumption ==
    /\ PollerApp \in [Pollers -> Apps]
    /\ MaxEntries \in Nat

VARIABLES
    poller,      \* where each poller is, and its local variable ticket
    entriesSeen

pollerVars == <<poller, entriesSeen>>

PollerSteps == {"waiting", "entries", "publish", "recordId", "markPending", "notify"}

(* ticket is what TicketCh will carry; id 0 stands for no ticket.          *)
LocalTicket == [id: Nat, status: Statuses, isNew: BOOLEAN]
NoTicket == [id |-> 0, status |-> "open", isNew |-> FALSE]

PollerTypeOK ==
    /\ poller \in [Pollers -> [at: PollerSteps, ticket: LocalTicket]]
    /\ entriesSeen \in 0..MaxEntries

PollerInit ==
    /\ poller = [p \in Pollers |-> [at |-> "waiting", ticket |-> NoTicket]]
    /\ entriesSeen = 0

At(p, step) == poller[p].at = step

Goto(p, step) == poller' = [poller EXCEPT ![p].at = step]
GotoWith(p, step, ticket) == poller' = [poller EXCEPT ![p] = [at |-> step, ticket |-> ticket]]

(* The ids whose row a poller inserted and did not yet settle: a crash     *)
(* here leaves an open row that nothing will publish.                      *)
Unsettled(p) == poller[p].at \in {"publish", "markPending"}
UnsettledIds == {poller[p].ticket.id : p \in {q \in Pollers : Unsettled(q)}}

(* The first poll or a tick, unless the pollers are paused.  A tick may    *)
(* still win the select when the context is cancelled.                     *)
StartPoll(p) ==
    /\ At(p, "waiting")
    /\ "pollers" \notin paused
    /\ Goto(p, "entries")
    /\ UNCHANGED <<entriesSeen, processVars, storeVars, messages>>

(* FetchSince failed, the entries are used up, or the context is cancelled. *)
EndPoll(p) ==
    /\ At(p, "entries")
    /\ Goto(p, "waiting")
    /\ UNCHANGED <<entriesSeen, processVars, storeVars, messages>>

(* The loop over entries checks the context before each one.               *)
TakeEntry(p) ==
    /\ At(p, "entries")
    /\ ~ctxDone
    /\ entriesSeen < MaxEntries
    /\ entriesSeen' = entriesSeen + 1

(* Classify or Upsert returned an error: the entry is given up.            *)
DropEntry(p) ==
    /\ TakeEntry(p)
    /\ UNCHANGED <<poller, processVars, storeVars, messages>>

UpsertNew(p, line) ==
    /\ TakeEntry(p)
    /\ InsertTicket(PollerApp[p], line)
    /\ GotoWith(p, "publish", [id |-> Len(tickets'), status |-> "open", isNew |-> TRUE])
    /\ UNCHANGED <<today, stranded, processVars, messages>>

UpsertSkipped(p, line) ==
    /\ TakeEntry(p)
    /\ \E id \in TicketIds : SkipTicket(PollerApp[p], line, id)
    /\ UNCHANGED <<poller, today, stranded, processVars, messages>>

(* Mutant: an occurrence of a known error is published as well.            *)
UpsertRepublished(p, line) ==
    /\ TakeEntry(p)
    /\ \E id \in TicketIds :
        /\ CountTicket(PollerApp[p], line, id)
        /\ GotoWith(p, "publish", [id |-> id, status |-> tickets[id].status, isNew |-> TRUE])
    /\ UNCHANGED <<today, stranded, processVars, messages>>

UpsertCounted(p, line) ==
    /\ TakeEntry(p)
    /\ \E id \in TicketIds :
        /\ CountTicket(PollerApp[p], line, id)
        /\ GotoWith(p, "notify", [id |-> id, status |-> tickets[id].status, isNew |-> FALSE])
    /\ UNCHANGED <<today, stranded, processVars, messages>>

UpsertEntry(p, line) == UpsertNew(p, line) \/ UpsertSkipped(p, line) \/ UpsertCounted(p, line)

(* The call was under way when the context was cancelled, if it was: it    *)
(* may still succeed.                                                      *)
PublishOK(p) ==
    /\ At(p, "publish")
    /\ SendMessage(poller[p].ticket.id, PollerApp[p])
    /\ Goto(p, "recordId")
    /\ UNCHANGED <<entriesSeen, processVars, storeVars>>

(* Mutant: the error of Publish is ignored.                                *)
PublishErrorIgnored(p) ==
    /\ At(p, "publish")
    /\ MayFail("publish")
    /\ Goto(p, "recordId")
    /\ UNCHANGED <<entriesSeen, processVars, storeVars, messages>>

(* Mutant: a failed SendMessage is repeated.                               *)
PublishRetries(p) ==
    /\ At(p, "publish")
    /\ \/ /\ MayFail("publish")
          /\ UNCHANGED messages
       \/ /\ MayFail("accepted")
          /\ SendMessage(poller[p].ticket.id, PollerApp[p])
    /\ UNCHANGED <<pollerVars, processVars, storeVars>>

(* An error of SendMessage, or a response without message id, does not     *)
(* tell whether the queue has the message.                                 *)
PublishFails(p) ==
    /\ At(p, "publish")
    /\ \/ /\ MayFail("publish")
          /\ UNCHANGED messages
       \/ /\ MayFail("accepted")
          /\ SendMessage(poller[p].ticket.id, PollerApp[p])
    /\ Goto(p, "markPending")
    /\ UNCHANGED <<entriesSeen, processVars, storeVars>>

RecordMessageId(p) ==
    /\ At(p, "recordId")
    /\ \E ok \in BOOLEAN :
        /\ CallEnds("db", ok)
        /\ IF ok THEN UpdateSQSMessageID(poller[p].ticket.id) ELSE UNCHANGED tickets
    /\ Goto(p, "notify")
    /\ UNCHANGED <<entriesSeen, today, stranded, processVars, messages>>

(* The local status is "pending" also when the write failed.               *)
MarkPending(p) ==
    LET id == poller[p].ticket.id IN
    /\ At(p, "markPending")
    /\ \E ok \in BOOLEAN :
        /\ CallEnds("db", ok)
        /\ IF ok THEN UpdateStatus(id, "pending") ELSE UNCHANGED tickets
        /\ stranded' = IF ok THEN stranded ELSE stranded \cup {id}
    /\ GotoWith(p, "notify", [poller[p].ticket EXCEPT !.status = "pending"])
    /\ UNCHANGED <<entriesSeen, today, processVars, messages>>

(* TicketMsg is sent to the TUI, or dropped when the channel is full.      *)
Notify(p) ==
    /\ At(p, "notify")
    /\ GotoWith(p, "entries", NoTicket)
    /\ UNCHANGED <<entriesSeen, processVars, storeVars, messages>>

PollerStep(p) ==
    \/ StartPoll(p) \/ EndPoll(p) \/ DropEntry(p)
    \/ \E line \in Lines : UpsertEntry(p, line)
    \/ PublishOK(p) \/ PublishFails(p)
    \/ RecordMessageId(p) \/ MarkPending(p) \/ Notify(p)

(* The goroutines die with the process.                                    *)
StopPollers ==
    /\ poller' = [p \in Pollers |-> [at |-> "waiting", ticket |-> NoTicket]]
    /\ stranded' = stranded \cup UnsettledIds
    /\ UNCHANGED entriesSeen
=============================================================================
