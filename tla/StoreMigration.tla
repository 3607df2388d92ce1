--------------------------- MODULE StoreMigration ---------------------------
(***************************************************************************)
(* Open and migrate of internal/store/sqlite.go.  Every statement commits  *)
(* on its own, so a process that stops leaves the file as the statements   *)
(* before have made it.  A database of an older version has no column      *)
(* created_date and an index on (app, fingerprint_hash), which is what the *)
(* statements of migrate undo.  One application, which is left out.        *)
(***************************************************************************)
EXTENDS Naturals

CONSTANTS
    Lines,      \* the normalised log lines
    MaxDay,     \* bound: the last UTC day of a behaviour
    MaxStops    \* bound: how often the process stops while or after it opens the file

ASSUME MigrationAssumption == MaxDay \in Nat /\ MaxStops \in Nat

VARIABLES
    table,     \* the columns: "absent", "undated" or "dated"
    index,     \* what idx_tickets_fingerprint is on: "absent", "undated" or "dated"
    rows,
    today,
    step,      \* where Open is
    stops,
    torn       \* history: migrate stopped between its first and its third statement

migrationVars == <<table, index, rows, today, step, stops, torn>>
fileVars == <<table, index, rows>>

Forms == {"absent", "undated", "dated"}
Steps == {"closed", "table", "index", "inspect", "addColumn", "backfill",
          "dropIndex", "createIndex", "open"}

(* created is created_date; Undated stands for '' and for no such column.  *)
Undated == MaxDay + 1
MigratedRow == [hash: Lines, firstSeen: 0..MaxDay, created: 0..Undated]

MigrationTypeOK ==
    /\ table \in Forms /\ index \in Forms
    /\ rows \subseteq MigratedRow
    /\ today \in 0..MaxDay
    /\ step \in Steps
    /\ stops \in 0..MaxStops
    /\ torn \in BOOLEAN

(* No file, or one of the older version with a row for each of some lines. *)
MigrationInit ==
    /\ \/ table = "absent" /\ index = "absent" /\ rows = {}
       \/ /\ table = "undated" /\ index = "undated"
          /\ \E lines \in SUBSET Lines :
                rows = {[hash |-> line, firstSeen |-> 0, created |-> Undated] : line \in lines}
    /\ today = 0
    /\ step = "closed"
    /\ stops = 0
    /\ torn = FALSE

Unique(form, rs) ==
    \A r, s \in rs :
        r.hash = s.hash /\ (form = "dated" => r.created = s.created) => r = s

Goto(from, to) == step = from /\ step' = to /\ UNCHANGED <<today, stops, torn>>

OpenFile == Goto("closed", "table") /\ UNCHANGED fileVars

(* CREATE TABLE IF NOT EXISTS                                              *)
CreateTable ==
    /\ Goto("table", "index")
    /\ table' = IF table = "absent" THEN "dated" ELSE table
    /\ UNCHANGED <<index, rows>>

(* CREATE UNIQUE INDEX IF NOT EXISTS: the name is looked at, not the       *)
(* columns.                                                                *)
CreateIndex(from, to) ==
    /\ Goto(from, to)
    /\ \/ index # "absent" /\ UNCHANGED index
       \/ index = "absent" /\ table = "dated" /\ Unique("dated", rows) /\ index' = "dated"
    /\ UNCHANGED <<table, rows>>

(* PRAGMA table_info                                                       *)
Inspect ==
    /\ Goto("inspect", IF table = "dated" THEN "open" ELSE "addColumn")
    /\ UNCHANGED fileVars

AddColumn ==
    /\ Goto("addColumn", "backfill")
    /\ table' = "dated"
    /\ UNCHANGED <<index, rows>>

Backfill ==
    /\ Goto("backfill", "dropIndex")
    /\ rows' = {IF r.created = Undated THEN [r EXCEPT !.created = r.firstSeen] ELSE r : r \in rows}
    /\ UNCHANGED <<table, index>>

(* Mutant: the statement is forgotten.                                     *)
DropNothing == Goto("dropIndex", "createIndex") /\ UNCHANGED fileVars

DropIndex ==
    /\ Goto("dropIndex", "createIndex")
    /\ index' = "absent"
    /\ UNCHANGED <<table, rows>>

(* A statement fails and Open gives up, or the process ends.               *)
Stop ==
    /\ step # "closed"
    /\ stops < MaxStops
    /\ stops' = stops + 1
    /\ step' = "closed"
    /\ torn' = (torn \/ step \in {"backfill", "dropIndex"})
    /\ UNCHANGED <<fileVars, today>>

(* first_seen is the time of the entry; nothing reads it of a dated row.   *)
Recorded(line) == \E r \in rows : r.hash = line /\ r.created = today
NewRow(line) == [hash |-> line, firstSeen |-> today, created |-> today]
Accepted(line) == Recorded(line) \/ Unique(index, rows \cup {NewRow(line)})

(* The insert of Upsert; what it does to a row it finds changes no key.    *)
Insert(line) ==
    /\ step = "open"
    /\ ~Recorded(line)
    /\ Accepted(line)
    /\ rows' = rows \cup {NewRow(line)}
    /\ UNCHANGED <<table, index, today, step, stops, torn>>

NextDay ==
    /\ today < MaxDay
    /\ today' = today + 1
    /\ UNCHANGED <<fileVars, step, stops, torn>>

MigrationNext ==
    \/ OpenFile \/ CreateTable \/ CreateIndex("index", "inspect") \/ Inspect
    \/ AddColumn \/ Backfill \/ DropIndex \/ CreateIndex("createIndex", "open")
    \/ Stop
    \/ \E line \in Lines : Insert(line)
    \/ NextDay

MigrationSpec == MigrationInit /\ [][MigrationNext]_migrationVars

-----------------------------------------------------------------------------
(***************************************************************************)
(* README.md: tickets are "keyed on (app, normalized_raw_log, date)".  A   *)
(* file that is opened is fully migrated and takes every error, also one   *)
(* it has from another day, whatever step it was stopped at before.  Only  *)
(* if that was between the first and third statements of migrate, the next *)
(* start takes the file for migrated: it keeps the old index for good, and *)
(* with that refuses an error it has of another day, but no other error.   *)
(***************************************************************************)
OpenMeansMigrated ==
    step = "open" =>
        /\ ~torn => index = "dated" /\ \A r \in rows : r.created # Undated
        /\ \A line \in Lines :
            Accepted(line) \/ (torn /\ \E r \in rows : r.hash = line /\ r.created # today)

(***************************************************************************)
(* The inductive invariant: what each step of Open finds in the file.  A   *)
(* file that migrate was torn from keeps the old index for good.           *)
(***************************************************************************)
RowsAreDated == \A r \in rows : r.created # Undated
NoFile == table = "absent" /\ index = "absent" /\ rows = {}
OldFile == table = "undated" /\ index = "undated"
NewFile == table = "dated" /\ index \in {"absent", "dated"} /\ RowsAreDated

Found ==
    CASE step \in {"closed", "table"}   -> NoFile \/ OldFile \/ NewFile
      [] step = "index"                 -> OldFile \/ NewFile
      [] step = "inspect"               -> OldFile \/ (NewFile /\ index = "dated")
      [] step = "addColumn"             -> OldFile
      [] step = "backfill"              -> table = "dated" /\ index = "undated"
      [] step = "dropIndex"             -> table = "dated" /\ index = "undated" /\ RowsAreDated
      [] step = "createIndex"           -> NewFile
      [] step = "open"                  -> NewFile /\ index = "dated"

TornFile == table = "dated" /\ index = "undated"
            /\ step \in {"closed", "table", "index", "inspect", "open"}

MigrationSafe ==
    /\ MigrationTypeOK
    /\ index # "absent" => Unique(index, rows)
    /\ IF torn THEN TornFile ELSE Found
    /\ OpenMeansMigrated
=============================================================================
