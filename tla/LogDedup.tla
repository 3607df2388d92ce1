------------------------------ MODULE LogDedup ------------------------------
(***************************************************************************)
(* One poller in time: the ticker, the window of the log it fetches, the   *)
(* fingerprint of each entry and the row it lands in.  A unit of the clock *)
(* is a second, the resolution of the time stamp in a raw line.            *)
(***************************************************************************)
EXTENDS TicketStore, Integers, FiniteSets

CONSTANTS
    Sources,     \* the sources the poller may have
    App,         \* the application that is polled
    Errors,      \* the errors it logs: what is left of a line without its time
    Interval,    \* poll_interval
    DayLength,   \* seconds in a day
    MaxClock,    \* bound: the last second of a behaviour
    MaxSetbacks, \* bound: the calls that fail and the polls that are skipped
    MaxPollTime, \* bound: the seconds from the fetch of a poll to its end
    MaxEvents    \* bound: the entries that are logged

(* "aws" and "gcp" are log services, "file" and "mock" generate entries.   *)
ASSUME DedupAssumption ==
    /\ Sources \subseteq {"aws", "gcp", "file", "mock"}
    /\ App \in Apps
    /\ Interval \in Nat \ {0}
    /\ DayLength \in Nat \ {0}
    /\ {MaxClock, MaxSetbacks, MaxPollTime, MaxEvents} \subseteq Nat
    /\ [error: Errors, ts: -1..MaxClock] \subseteq Lines
    /\ MaxDay = MaxClock \div DayLength

VARIABLES
    source,    \* the source that is polled
    clock,     \* seconds since the poller started
    log,       \* the entries the log service holds
    due,       \* a poll is to start: a tick waits in the ticker's channel of one
    nextTick,  \* the second of the next tick; NotStarted until the first poll ends
    polledAt,  \* the second of the last poll, fetched or skipped
    paused,    \* the flag that key p toggles
    batch,     \* the entries fetched and not yet looked at
    setbacks,  \* history: the fetches, classifications and upserts that failed,
               \* and the polls that were skipped while paused
    slowest    \* history: the longest time from the fetch of a poll to its end

pollVars == <<due, nextTick, polledAt, batch, paused>>
troubleVars == <<setbacks, slowest>>
dedupVars == <<source, clock, log, troubleVars, pollVars, storeVars>>

Entry == [error: Errors, ts: Int]
Day(t) == t \div DayLength

(* What normalizedHash tells apart: lower case letters, digits and the     *)
(* spaces between them.  Digits stay, so the time stamp in the raw line of *)
(* the log services and of the mock source is part of it; the file source  *)
(* gives a dedupe key, the line without a time stamp.                      *)
NoTime == -1
NotStarted == -1
LogServices == {"aws", "gcp"}
WithTime(e) == [error |-> e.error, ts |-> e.ts]
WithoutTime(e) == [error |-> e.error, ts |-> NoTime]

Fingerprint(e) == IF source = "file" THEN WithoutTime(e) ELSE WithTime(e)

(* Mutants: the window is one interval, or three.                          *)
LookbackOnce == Interval
LookbackThrice == 3 * Interval

(* since := time.Now().Add(-2 * PollInterval)                              *)
Lookback == 2 * Interval
Since == clock - Lookback

(* CloudWatch returns the entries from StartTime on, every page of them.   *)
(* Polls start on the second, before what is logged within it.             *)
FetchAWS == {e \in log : e.ts >= Since}

(* timestamp > "since" with since cut to whole seconds, so that what was   *)
(* logged within that second is later than it.                             *)
FetchGCP == {e \in log : e.ts >= Since}

(* The generators ignore since and make up at most n entries with a time   *)
(* stamp of the last minute (bound: the last second).                      *)
Generated(n) == {es \in SUBSET [error: Errors, ts: {clock - 1, clock}] : Cardinality(es) \in 1..n}
FetchFile == Generated(2)
FetchMock == Generated(3)

Fetched ==
    CASE source = "aws"  -> {FetchAWS}
      [] source = "gcp"  -> {FetchGCP}
      [] source = "file" -> FetchFile
      [] source = "mock" -> FetchMock

DedupTypeOK ==
    /\ StoreTypeOK
    /\ clock \in 0..MaxClock
    /\ log \subseteq Entry
    /\ due \in BOOLEAN
    /\ nextTick \in (clock + 1)..(clock + Interval) \cup {NotStarted}
    /\ polledAt \in 0..clock
    /\ batch \subseteq Entry
    /\ paused \in BOOLEAN
    /\ setbacks \in 0..MaxSetbacks
    /\ slowest \in 0..MaxPollTime
    /\ source \in Sources

DedupInit ==
    /\ StoreInit
    /\ clock = 0
    /\ log = {}
    /\ due = TRUE
    /\ nextTick = NotStarted
    /\ polledAt = 0
    /\ batch = {}
    /\ paused = FALSE
    /\ setbacks = 0
    /\ slowest = 0
    /\ source \in Sources

(* The application logs an error now.                                      *)
LogError(error) ==
    /\ source \in LogServices
    /\ Cardinality(log) < MaxEvents
    /\ log' = log \cup {[error |-> error, ts |-> clock]}
    /\ UNCHANGED <<source, clock, troubleVars, pollVars, storeVars>>

(* Mutant: a timer in place of a ticker.                                   *)
TickOnce(t) == nextTick

TickAfter(t) == IF t = nextTick THEN nextTick + Interval ELSE nextTick

(* A second passes, and with it the UTC date may.  A tick that finds the   *)
(* channel full is dropped.  Bounds: a due poll starts at once, and a poll *)
(* takes no longer than MaxPollTime.                                       *)
Tick ==
    /\ clock < MaxClock
    /\ IF batch = {} THEN ~due ELSE clock < polledAt + MaxPollTime
    /\ clock' = clock + 1
    /\ due' = (due \/ clock' = nextTick)
    /\ nextTick' = TickAfter(clock')
    /\ today' = Day(clock')
    /\ slowest' = IF batch # {} /\ clock' - polledAt > slowest THEN clock' - polledAt ELSE slowest
    /\ UNCHANGED <<source, log, polledAt, batch, paused, setbacks, tickets, stranded>>

SetBack ==
    /\ setbacks < MaxSetbacks
    /\ setbacks' = setbacks + 1

(* The ticker is made when the first poll has ended.                       *)
PollEnds ==
    nextTick' = IF batch' = {} /\ nextTick = NotStarted THEN clock + Interval ELSE nextTick

(* The first poll or a tick.  While the pollers are paused it is skipped,  *)
(* which leaves all as a fetch that fails does.                            *)
Poll ==
    /\ due
    /\ batch = {}
    /\ due' = FALSE
    /\ polledAt' = clock
    /\ \/ ~paused /\ batch' \in Fetched /\ UNCHANGED setbacks
       \/ SetBack /\ UNCHANGED batch
    /\ PollEnds
    /\ UNCHANGED <<source, clock, log, paused, slowest, storeVars>>

(* Key p.  A poll that has begun goes on.                                  *)
PressPause ==
    /\ paused' = ~paused
    /\ UNCHANGED <<source, clock, log, due, nextTick, polledAt, batch, troubleVars, storeVars>>

(* A reply of the model without a JSON object, an empty one, or a call     *)
(* that fails: there is no classification and the entry is given up.  The  *)
(* rule-based classifier never fails.                                      *)
Replies == {"object", "prose", "empty", "error"}
Classified(reply) == reply = "object"

Upsert(e) ==
    \/ InsertTicket(App, Fingerprint(e))
    \/ \E id \in TicketIds :
        SkipTicket(App, Fingerprint(e), id) \/ CountTicket(App, Fingerprint(e), id)

HandleEntry(e) ==
    /\ e \in batch
    /\ batch' = batch \ {e}
    /\ \E reply \in Replies :
        \/ Classified(reply) /\ Upsert(e) /\ UNCHANGED setbacks
        \/ SetBack /\ UNCHANGED tickets
    /\ PollEnds
    /\ UNCHANGED <<source, clock, log, slowest, due, polledAt, paused, today, stranded>>

(* A worker is done with the ticket.                                       *)
CloseTicket(id) ==
    /\ UpdateStatus(id, "done")
    /\ UNCHANGED <<source, clock, log, troubleVars, pollVars, today, stranded>>

DedupNext ==
    \/ \E error \in Errors : LogError(error)
    \/ Tick
    \/ Poll
    \/ PressPause
    \/ \E e \in batch : HandleEntry(e)
    \/ \E id \in TicketIds : CloseTicket(id)

DedupSpec == DedupInit /\ [][DedupNext]_dedupVars

-----------------------------------------------------------------------------
(* No poll that is still to come can fetch the entry.                      *)
NextPoll ==
    CASE due -> clock
      [] ~due /\ nextTick = NotStarted -> clock + Interval
      [] OTHER -> nextTick
OutOfReach(e) == e \notin batch /\ e.ts < NextPoll - 2 * Interval
HasRow(e) == \E id \in TicketIds : tickets[id].hash = Fingerprint(e)

(***************************************************************************)
(* The window of two intervals makes two polls fetch an entry.  That makes *)
(* up for one failure of a fetch, a classification or an upsert, for one   *)
(* poll that is skipped in a pause, or for polls as long as an interval:   *)
(* each entry gets a row.  A longer pause loses what is logged in it.      *)
(***************************************************************************)
NothingIsMissed ==
    setbacks * Interval + slowest <= Interval =>
        \A e \in log : OutOfReach(e) => HasRow(e)

(***************************************************************************)
(* README.md: "same error same day increments the occurrence counter".  An *)
(* occurrence is counted by every poll whose window it is in: three at the *)
(* most, while no poll takes longer than an interval.                      *)
(***************************************************************************)
CountedAtMostThrice ==
    source \in LogServices /\ slowest <= Interval =>
        \A id \in TicketIds :
            tickets[id].count <= 3 * Cardinality({e \in log : Fingerprint(e) = tickets[id].hash})

(***************************************************************************)
(* README.md: "the same error always maps to the same ticket", of a day.   *)
(***************************************************************************)
SameErrorSameTicket ==
    \A i, j \in TicketIds :
        /\ tickets[i].hash.error = tickets[j].hash.error
        /\ tickets[i].date = tickets[j].date
        => i = j
=============================================================================
