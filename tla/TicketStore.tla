---------------------------- MODULE TicketStore ----------------------------
(***************************************************************************)
(* The tickets table of internal/store/sqlite.go.  The ids are those of    *)
(* INTEGER PRIMARY KEY AUTOINCREMENT and no row is ever deleted, so the    *)
(* table is a sequence and an id a position in it.  The pool has a single  *)
(* connection (SetMaxOpenConns(1)) and Upsert runs in one immediate        *)
(* transaction, so each operation below is one step.                       *)
(***************************************************************************)
EXTENDS Naturals, Sequences

CONSTANTS
    Apps,     \* the names of the configured applications
    Lines,    \* the normalised log lines: what FingerprintHash tells apart
    MaxDay    \* bound: the last UTC day of a behaviour

ASSUME StoreAssumption == MaxDay \in Nat

VARIABLES
    tickets,   \* the rows, by id
    today,     \* the UTC date that Upsert reads from the clock
    stranded   \* history: the ids whose row may wait for a message that never comes

storeVars == <<tickets, today, stranded>>

Statuses == {"open", "in_progress", "done", "failed", "pending"}
ClosedStatuses == {"done", "failed"}

Row == [app: Apps, hash: Lines, date: Nat, status: Statuses,
        count: Nat, hasMessageId: BOOLEAN]

StoreTypeOK ==
    /\ tickets \in Seq(Row)
    /\ today \in 0..MaxDay
    /\ stranded \subseteq Nat

StoreInit ==
    /\ tickets = <<>>
    /\ today = 0
    /\ stranded = {}

TicketIds == DOMAIN tickets

(* The UNIQUE INDEX idx_tickets_fingerprint(app, fingerprint_hash,         *)
(* created_date).                                                          *)
Key(id) == <<tickets[id].app, tickets[id].hash, tickets[id].date>>

(* SELECT ... WHERE app = ? AND fingerprint_hash = ? AND created_date = ?  *)
Existing(app, hash) == {id \in TicketIds : Key(id) = <<app, hash, today>>}

(* The three ways Upsert commits: no row yet, a closed row, a live row.    *)
(* The unique index would refuse a second row of a key; it never does,     *)
(* since the lookup is in the same transaction.                            *)
InsertTicket(app, hash) ==
    /\ Existing(app, hash) = {}
    /\ tickets' = Append(tickets, [app |-> app, hash |-> hash, date |-> today,
                                   status |-> "open", count |-> 1,
                                   hasMessageId |-> FALSE])

SkipTicket(app, hash, id) ==
    /\ id \in Existing(app, hash)
    /\ tickets[id].status \in ClosedStatuses
    /\ UNCHANGED tickets

CountTicket(app, hash, id) ==
    /\ id \in Existing(app, hash)
    /\ tickets[id].status \notin ClosedStatuses
    /\ tickets' = [tickets EXCEPT ![id].count = @ + 1]

(* UPDATE tickets SET status = ? WHERE id = ?: an id that names no row     *)
(* changes nothing and is no error.                                        *)
UpdateStatus(id, status) ==
    IF id \in TicketIds
    THEN tickets' = [tickets EXCEPT ![id].status = status]
    ELSE UNCHANGED tickets

(* UPDATE tickets SET sqs_message_id = ? WHERE id = ?                      *)
UpdateSQSMessageID(id) ==
    IF id \in TicketIds
    THEN tickets' = [tickets EXCEPT ![id].hasMessageId = TRUE]
    ELSE UNCHANGED tickets

(* The UTC date changes; a key of yesterday no longer matches anything.    *)
Midnight ==
    /\ today < MaxDay
    /\ today' = today + 1
    /\ UNCHANGED <<tickets, stranded>>
=============================================================================
