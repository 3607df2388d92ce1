--------------------------- MODULE LogDedupProofs ---------------------------
(***************************************************************************)
(* Proofs about LogDedup, for any interval, day, number of errors, entries *)
(* and setbacks, any pauses, and any time a poll takes.                    *)
(***************************************************************************)
EXTENDS LogDedup, SequenceTheorems, FiniteSetTheorems, TLAPS

-----------------------------------------------------------------------------
(***************************************************************************)
(* The parts of the inductive invariant.  An entry has a time stamp of the *)
(* past, and only a log service keeps it.                                  *)
(***************************************************************************)
EntriesTyped ==
    /\ log \subseteq [error: Errors, ts: 0..clock]
    /\ batch \subseteq [error: Errors, ts: -1..polledAt]
    /\ source \in LogServices => batch \subseteq log
    /\ source \notin LogServices => log = {}

(* Until the first poll has ended there is no ticker.                      *)
FirstPoll ==
    nextTick = NotStarted =>
        /\ polledAt = 0
        /\ IF due THEN clock = 0 /\ batch = {} /\ tickets = <<>> ELSE batch # {}

(* While no poll takes longer than an interval, no tick is dropped: from   *)
(* one poll to the next it is an interval, after the first poll as much    *)
(* more as that took.                                                      *)
InTime ==
    /\ batch # {} => clock <= polledAt + slowest
    /\ slowest <= Interval /\ nextTick # NotStarted =>
        /\ due => nextTick = clock + Interval
        /\ polledAt + Interval <= NextPoll
        /\ NextPoll <= polledAt + Interval + slowest
        /\ batch # {} => NextPoll = polledAt + Interval

(* What the last poll left behind: nothing without a setback, what is not  *)
(* older than the poll before it with one.                                 *)
NothingLeft ==
    setbacks = 0 /\ slowest <= Interval =>
        \A e \in log : e.ts < polledAt => e \in batch \/ HasRow(e)
PastInRows ==
    setbacks = 0 /\ slowest = 0 =>
        \A e \in log : e.ts < polledAt - Interval => HasRow(e)
PastNotLeft ==
    setbacks <= 1 /\ slowest = 0 =>
        \A e \in log : e.ts < polledAt - Interval => e \in batch \/ HasRow(e)

(* A row is about an entry, and what it counted and is about to count are  *)
(* polls that began at least an interval apart.                            *)
InTurn(n, ts, last) ==
    /\ n <= 3
    /\ n >= 1 => ts <= last
    /\ n >= 2 => ts + Interval <= last
    /\ n >= 3 => ts + 2 * Interval <= last
Counts(id) == tickets[id].count + (IF tickets[id].hash \in batch THEN 1 ELSE 0)
CountedInTurn(id) ==
    /\ tickets[id].hash \in log
    /\ slowest <= Interval => InTurn(Counts(id), tickets[id].hash.ts, polledAt)
RowsCounted == source \in LogServices => \A id \in TicketIds : CountedInTurn(id)

Covered == NothingLeft /\ PastInRows /\ PastNotLeft
DedupInv ==
    /\ DedupTypeOK /\ EntriesTyped
    /\ FirstPoll /\ InTime
    /\ Covered
    /\ RowsCounted

-----------------------------------------------------------------------------
(* Arithmetic.                                                             *)

LEMMA DayOfLater ==
    ASSUME NEW a \in Nat, NEW b \in Nat, NEW d \in Nat \ {0}, a <= b
    PROVE  a \div d \in 0..(b \div d)
<1>1. PICK p \in Nat, q \in Nat : p = a \div d /\ q = b \div d
    OBVIOUS
<1>2. d * p <= a /\ b < d * (q + 1)
    BY <1>1
<1>3. ~(p >= q + 1)
    <2>1. ASSUME NEW k \in Nat, p = (q + 1) + k PROVE FALSE
        <3>1. d * p = d * (q + 1) + d * k /\ d * k \in Nat /\ d * (q + 1) \in Nat /\ d * p \in Nat
            BY <2>1
        <3> QED
            BY <1>2, <3>1
    <2>2. p >= q + 1 => \E k \in Nat : p = (q + 1) + k
        <3>1. p >= q + 1 => p - (q + 1) \in Nat /\ p = (q + 1) + (p - (q + 1))
            OBVIOUS
        <3> QED
            BY <3>1
    <2> QED
        BY <2>1, <2>2
<1> QED
    BY <1>1, <1>3

(* How many setbacks one interval of slack makes up for.                   *)
LEMMA OneSetback ==
    ASSUME NEW n \in Nat, NEW x \in Nat, NEW len \in Nat \ {0}, n * len + x <= len
    PROVE  (n = 0 /\ x <= len) \/ (n = 1 /\ x = 0)
<1>1. CASE n = 0
    BY <1>1
<1>2. CASE n = 1
    BY <1>2
<1>3. CASE n >= 2
    <2>1. PICK k \in Nat : n = k + 2
        <3>1. n - 2 \in Nat /\ n = (n - 2) + 2
            BY <1>3
        <3> QED
            BY <3>1
    <2>2. n * len = k * len + 2 * len /\ k * len \in Nat
        BY <2>1
    <2> QED
        BY <2>2
<1> QED
    BY <1>1, <1>2, <1>3

-----------------------------------------------------------------------------
(* What each write to the table does to the rows.                          *)

LEMMA RowWritten ==
    ASSUME tickets \in Seq(Row), NEW id \in TicketIds, NEW row \in Row,
           row.hash = tickets[id].hash, tickets' = [tickets EXCEPT ![id] = row]
    PROVE  /\ tickets' \in Seq(Row) /\ TicketIds' = TicketIds
           /\ \A i \in TicketIds :
                /\ tickets'[i].hash = tickets[i].hash
                /\ tickets'[i].count = IF i = id THEN row.count ELSE tickets[i].count
<1>1. id \in 1..Len(tickets) /\ DOMAIN tickets' = DOMAIN tickets
    BY LenProperties DEF TicketIds
<1>2. tickets' \in Seq(Row)
    BY <1>1, ExceptSeq
<1> QED
    BY <1>1, <1>2 DEF TicketIds

LEMMA OccurrenceCounted ==
    ASSUME tickets \in Seq(Row), NEW hash, NEW id, CountTicket(App, hash, id)
    PROVE  /\ id \in TicketIds /\ tickets[id].hash = hash
           /\ tickets' \in Seq(Row) /\ TicketIds' = TicketIds
           /\ \A i \in TicketIds :
                /\ tickets'[i].hash = tickets[i].hash
                /\ tickets'[i].count = IF i = id THEN tickets[id].count + 1 ELSE tickets[i].count
<1>1. id \in TicketIds /\ tickets[id].hash = hash
    BY DEF CountTicket, Existing, Key
<1>2. tickets[id] \in Row
    BY <1>1, ElementOfSeq, LenProperties DEF TicketIds
<1>3. PICK n \in Nat : n = tickets[id].count + 1
    BY <1>2 DEF Row
<1>4. PICK row \in Row : row = [tickets[id] EXCEPT !.count = n]
    <2>1. [tickets[id] EXCEPT !.count = n] \in Row
        BY <1>2, <1>3, SMTT(60) DEF Row
    <2> QED
        BY <2>1
<1>5. row.hash = tickets[id].hash /\ row.count = n
    BY <1>2, <1>4 DEF Row
<1>6. tickets' = [tickets EXCEPT ![id] = row]
    BY <1>1, <1>3, <1>4 DEF CountTicket
<1>7. /\ tickets' \in Seq(Row) /\ TicketIds' = TicketIds
      /\ \A i \in TicketIds :
            /\ tickets'[i].hash = tickets[i].hash
            /\ tickets'[i].count = IF i = id THEN row.count ELSE tickets[i].count
    <2>1. id \in TicketIds /\ row \in Row /\ row.hash = tickets[id].hash
        BY <1>1, <1>5
    <2> QED
        BY <1>6, <2>1, RowWritten
<1> QED
    BY <1>1, <1>3, <1>5, <1>7

LEMMA StatusWritten ==
    ASSUME tickets \in Seq(Row), NEW id \in TicketIds, NEW status \in Statuses,
           UpdateStatus(id, status)
    PROVE  /\ tickets' \in Seq(Row) /\ TicketIds' = TicketIds
           /\ \A i \in TicketIds :
                /\ tickets'[i].hash = tickets[i].hash
                /\ tickets'[i].count = tickets[i].count
<1>1. tickets[id] \in Row
    BY ElementOfSeq, LenProperties DEF TicketIds
<1>2. PICK row \in Row : row = [tickets[id] EXCEPT !.status = status]
    <2>1. [tickets[id] EXCEPT !.status = status] \in Row
        BY <1>1 DEF Row
    <2> QED
        BY <2>1
<1>3. row.hash = tickets[id].hash /\ row.count = tickets[id].count
    BY <1>1, <1>2 DEF Row
<1>4. tickets' = [tickets EXCEPT ![id] = row]
    BY <1>2 DEF UpdateStatus
<1>5. /\ tickets' \in Seq(Row) /\ TicketIds' = TicketIds
      /\ \A i \in TicketIds :
            /\ tickets'[i].hash = tickets[i].hash
            /\ tickets'[i].count = IF i = id THEN row.count ELSE tickets[i].count
    <2>1. row \in Row /\ row.hash = tickets[id].hash
        BY <1>3
    <2> QED
        BY <1>4, <2>1, RowWritten
<1> QED
    BY <1>3, <1>5

LEMMA TicketInserted ==
    ASSUME tickets \in Seq(Row), today \in Nat, NEW hash \in Lines, InsertTicket(App, hash)
    PROVE  /\ tickets' \in Seq(Row)
           /\ \E new \in Nat :
                /\ new \notin TicketIds /\ TicketIds' = TicketIds \cup {new}
                /\ \A i \in TicketIds : tickets'[i] = tickets[i]
                /\ tickets'[new].hash = hash /\ tickets'[new].count = 1
<1>1. PICK row \in Row : /\ row = [app |-> App, hash |-> hash, date |-> today, status |-> "open",
                                   count |-> 1, hasMessageId |-> FALSE]
    <2>1. [app |-> App, hash |-> hash, date |-> today, status |-> "open", count |-> 1,
           hasMessageId |-> FALSE] \in Row
        BY DedupAssumption DEF Row, Statuses
    <2> QED
        BY <2>1
<1>2. tickets' = Append(tickets, row) /\ row.hash = hash /\ row.count = 1
    BY <1>1 DEF InsertTicket
<1>3. PICK new \in Nat : new = Len(tickets) + 1
    OBVIOUS
<1>4. /\ tickets' \in Seq(Row) /\ Len(tickets') = new
      /\ \A i \in 1..Len(tickets) : tickets'[i] = tickets[i]
      /\ tickets'[new] = row
    BY <1>2, <1>3, AppendProperties
<1>5. TicketIds = 1..Len(tickets) /\ TicketIds' = 1..new /\ Len(tickets) \in Nat
    BY <1>4, LenProperties DEF TicketIds
<1>6. new \notin TicketIds /\ TicketIds' = TicketIds \cup {new}
    BY <1>3, <1>5
<1> QED
    BY <1>2, <1>4, <1>5, <1>6

(* What Upsert does, whichever way it commits.                             *)
Upserted(hash) ==
    /\ tickets' \in Seq(Row)
    /\ TicketIds \subseteq TicketIds'
    /\ \A i \in TicketIds : tickets'[i].hash = tickets[i].hash
    /\ \A i \in TicketIds : tickets'[i].count = tickets[i].count
            \/ (tickets[i].hash = hash /\ tickets'[i].count = tickets[i].count + 1)
    /\ \A i \in TicketIds' \ TicketIds : tickets'[i].hash = hash /\ tickets'[i].count = 1
    /\ \E i \in TicketIds' : tickets'[i].hash = hash

LEMMA UpsertDoes ==
    ASSUME tickets \in Seq(Row), today \in Nat, NEW e, Fingerprint(e) \in Lines, Upsert(e)
    PROVE  Upserted(Fingerprint(e))
<1>1. CASE InsertTicket(App, Fingerprint(e))
    BY <1>1, TicketInserted DEF Upserted
<1>2. ASSUME NEW id \in TicketIds, SkipTicket(App, Fingerprint(e), id)
      PROVE  Upserted(Fingerprint(e))
    BY <1>2 DEF SkipTicket, Existing, Key, Upserted, TicketIds
<1>3. ASSUME NEW id \in TicketIds, CountTicket(App, Fingerprint(e), id)
      PROVE  Upserted(Fingerprint(e))
    BY <1>3, OccurrenceCounted DEF Upserted
<1> QED
    BY <1>1, <1>2, <1>3 DEF Upsert

-----------------------------------------------------------------------------
(* Types.                                                                  *)

LEMMA Numbers ==
    ASSUME DedupTypeOK
    PROVE  /\ clock \in Nat /\ polledAt \in Nat /\ polledAt <= clock /\ clock <= MaxClock
           /\ Interval \in Nat \ {0} /\ setbacks \in Nat /\ slowest \in Nat
           /\ \/ nextTick = NotStarted
              \/ nextTick \in Nat /\ nextTick > clock /\ nextTick <= clock + Interval
           /\ tickets \in Seq(Row) /\ today \in Nat /\ source \in {"aws", "gcp", "file", "mock"}
           /\ due \in BOOLEAN
BY DedupAssumption DEF DedupTypeOK, StoreTypeOK

LEMMA FetchedTyped ==
    ASSUME DedupTypeOK, EntriesTyped, NEW entries \in Fetched
    PROVE  /\ entries \subseteq [error: Errors, ts: -1..clock]
           /\ source \in LogServices => entries = {e \in log : e.ts >= clock - 2 * Interval}
<1>1. clock \in Nat /\ source \in {"aws", "gcp", "file", "mock"}
    BY Numbers
<1>2. CASE source \in LogServices
    <2>1. entries = {e \in log : e.ts >= clock - 2 * Interval}
        BY <1>2 DEF Fetched, FetchAWS, FetchGCP, LogServices, Since, Lookback
    <2> QED
        BY <1>1, <2>1 DEF EntriesTyped
<1>3. CASE source \notin LogServices
    <2>1. entries \subseteq [error: Errors, ts: {clock - 1, clock}]
        BY <1>1, <1>3 DEF Fetched, FetchFile, FetchMock, Generated, LogServices
    <2>2. {clock - 1, clock} \subseteq -1..clock
        BY <1>1
    <2> QED
        BY <1>3, <2>1, <2>2
<1> QED
    BY <1>2, <1>3

LEMMA FingerprintTyped ==
    ASSUME DedupTypeOK, EntriesTyped, NEW e \in batch
    PROVE  /\ Fingerprint(e) \in Lines
           /\ source \in LogServices => Fingerprint(e) = e
<1>1. clock \in Nat /\ polledAt \in Nat /\ polledAt <= clock /\ MaxClock \in Nat /\ clock <= MaxClock
    BY Numbers, DedupAssumption
<1>2. e \in [error: Errors, ts: -1..MaxClock]
    <2>1. e \in [error: Errors, ts: -1..polledAt]
        BY DEF EntriesTyped
    <2>2. -1..polledAt \subseteq -1..MaxClock
        BY <1>1
    <2> QED
        BY <2>1, <2>2
<1>3. Fingerprint(e) \in [error: Errors, ts: -1..MaxClock]
    BY <1>1, <1>2 DEF Fingerprint, WithTime, WithoutTime, NoTime
<1>4. source \in LogServices => Fingerprint(e) = e
    BY <1>2 DEF Fingerprint, WithTime, LogServices
<1> QED
    BY <1>3, <1>4, DedupAssumption

LEMMA LogErrorTyped ==
    ASSUME DedupTypeOK, EntriesTyped, NEW error \in Errors, LogError(error)
    PROVE  DedupTypeOK' /\ EntriesTyped'
<1>1. clock \in Nat /\ polledAt \in Nat
    BY Numbers
<1>2. [error |-> error, ts |-> clock] \in [error: Errors, ts: 0..clock]
    BY <1>1
<1>3. log' \subseteq [error: Errors, ts: 0..clock]
    BY <1>2 DEF LogError, EntriesTyped
<1>4. log' \subseteq Entry
    BY <1>1, <1>3 DEF Entry
<1>5. EntriesTyped'
    BY <1>3 DEF EntriesTyped, LogError, pollVars
<1>6. DedupTypeOK'
    BY <1>4 DEF DedupTypeOK, StoreTypeOK, LogError, pollVars, troubleVars, storeVars
<1> QED
    BY <1>5, <1>6

LEMMA TickTyped ==
    ASSUME DedupTypeOK, EntriesTyped, Tick
    PROVE  DedupTypeOK' /\ EntriesTyped'
<1>1. /\ clock \in Nat /\ polledAt \in Nat /\ polledAt <= clock /\ slowest \in Nat /\ due \in BOOLEAN
      /\ Interval \in Nat \ {0} /\ MaxClock \in Nat /\ MaxPollTime \in Nat /\ DayLength \in Nat \ {0}
    BY Numbers, DedupAssumption
<1>2. clock' = clock + 1 /\ clock' <= MaxClock /\ clock' \in Nat
    BY <1>1 DEF Tick
<1>3. today' \in 0..MaxDay
    <2>1. today' = clock' \div DayLength
        BY DEF Tick, Day
    <2>2. PICK a \in Nat : a = clock' /\ a <= MaxClock
        BY <1>2
    <2>3. a \div DayLength \in 0..(MaxClock \div DayLength)
        BY <1>1, <2>2, DayOfLater
    <2> QED
        BY <2>1, <2>2, <2>3, DedupAssumption
<1>4. nextTick' \in (clock' + 1)..(clock' + Interval) \cup {NotStarted}
    <2>1. nextTick' = IF clock' = nextTick THEN nextTick + Interval ELSE nextTick
        BY DEF Tick, TickAfter
    <2>2. nextTick \in (clock + 1)..(clock + Interval) \cup {NotStarted} /\ NotStarted = -1
        BY DEF DedupTypeOK, NotStarted
    <2>3. CASE nextTick = NotStarted
        BY <1>2, <2>1, <2>2, <2>3
    <2>4. CASE nextTick \in (clock + 1)..(clock + Interval)
        BY <1>1, <1>2, <2>1, <2>4
    <2> QED
        BY <2>2, <2>3, <2>4
<1>5. slowest' \in 0..MaxPollTime
    <2>1. slowest \in 0..MaxPollTime
        BY DEF DedupTypeOK
    <2>2. /\ slowest' = IF batch # {} /\ clock' - polledAt > slowest
                        THEN clock' - polledAt ELSE slowest
          /\ batch # {} => clock < polledAt + MaxPollTime
        BY DEF Tick
    <2> QED
        BY <1>1, <1>2, <2>1, <2>2
<1>6. /\ polledAt' \in 0..clock' /\ clock' \in 0..MaxClock /\ due' \in BOOLEAN
    <2>1. polledAt' = polledAt /\ due' = (due \/ clock' = nextTick)
        BY DEF Tick
    <2> QED
        BY <1>1, <1>2, <2>1
<1>7. DedupTypeOK'
    <2>1. StoreTypeOK'
        BY <1>3 DEF Tick, DedupTypeOK, StoreTypeOK
    <2>2. UNCHANGED <<source, log, batch, paused, setbacks>>
        BY DEF Tick
    <2> QED
        BY <1>4, <1>5, <1>6, <2>1, <2>2 DEF DedupTypeOK
<1>8. EntriesTyped'
    <2>1. UNCHANGED <<source, log, batch, polledAt>>
        BY DEF Tick
    <2>2. 0..clock \subseteq 0..clock'
        BY <1>1, <1>2
    <2> QED
        BY <2>1, <2>2 DEF EntriesTyped
<1> QED
    BY <1>7, <1>8

LEMMA PollEndsTyped ==
    ASSUME DedupTypeOK, PollEnds, clock' = clock
    PROVE  nextTick' \in (clock' + 1)..(clock' + Interval) \cup {NotStarted}
BY Numbers DEF PollEnds, DedupTypeOK

LEMMA PollTyped ==
    ASSUME DedupTypeOK, EntriesTyped, Poll
    PROVE  DedupTypeOK' /\ EntriesTyped'
<1>1. clock \in Nat /\ setbacks \in Nat /\ MaxSetbacks \in Nat
    BY Numbers, DedupAssumption
<1>2. /\ UNCHANGED <<source, clock, log, paused, slowest, storeVars>>
      /\ polledAt' = clock /\ due' = FALSE
    BY DEF Poll
<1>3. /\ batch' \subseteq [error: Errors, ts: -1..clock]
      /\ source \in LogServices => batch' \subseteq log
    <2>1. CASE batch' \in Fetched
        BY <2>1, FetchedTyped
    <2>2. CASE batch' = {}
        BY <2>2
    <2> QED
        BY <2>1, <2>2 DEF Poll
<1>4. setbacks' \in 0..MaxSetbacks
    BY <1>1 DEF Poll, SetBack, DedupTypeOK
<1>5. nextTick' \in (clock' + 1)..(clock' + Interval) \cup {NotStarted}
    BY <1>2, PollEndsTyped DEF Poll
<1>6. EntriesTyped'
    BY <1>2, <1>3 DEF EntriesTyped
<1>7. batch' \subseteq Entry
    BY <1>1, <1>3 DEF Entry
<1>8. polledAt' \in 0..clock' /\ due' \in BOOLEAN
    <2>1. clock \in 0..clock
        BY <1>1
    <2>2. due' \in BOOLEAN
        BY <1>2
    <2> QED
        BY <1>2, <2>1, <2>2
<1> QED
    BY <1>2, <1>4, <1>5, <1>6, <1>7, <1>8 DEF DedupTypeOK, StoreTypeOK, storeVars

LEMMA HandleDoes ==
    ASSUME DedupTypeOK, EntriesTyped, NEW e \in batch, HandleEntry(e)
    PROVE  /\ \/ Upserted(Fingerprint(e)) /\ setbacks' = setbacks
              \/ tickets' = tickets /\ setbacks' = setbacks + 1 /\ setbacks' \in 0..MaxSetbacks
           /\ tickets' \in Seq(Row)
<1>1. tickets \in Seq(Row) /\ today \in Nat /\ setbacks \in Nat /\ MaxSetbacks \in Nat
    BY Numbers, DedupAssumption
<1>2. Fingerprint(e) \in Lines
    BY FingerprintTyped
<1>3. CASE Upsert(e) /\ UNCHANGED setbacks
    <2>1. Upserted(Fingerprint(e))
        BY <1>1, <1>2, <1>3, UpsertDoes
    <2> QED
        BY <1>3, <2>1 DEF Upserted
<1>4. CASE SetBack /\ UNCHANGED tickets
    BY <1>1, <1>4 DEF SetBack
<1> QED
    BY <1>3, <1>4 DEF HandleEntry

LEMMA HandleTyped ==
    ASSUME DedupTypeOK, EntriesTyped, NEW e \in batch, HandleEntry(e)
    PROVE  DedupTypeOK' /\ EntriesTyped'
<1>1. /\ UNCHANGED <<source, clock, log, slowest, due, polledAt, paused, today, stranded>>
      /\ batch' \subseteq batch
    BY DEF HandleEntry
<1>2. tickets' \in Seq(Row) /\ setbacks' \in 0..MaxSetbacks
    BY HandleDoes DEF DedupTypeOK
<1>3. nextTick' \in (clock' + 1)..(clock' + Interval) \cup {NotStarted}
    BY <1>1, PollEndsTyped DEF HandleEntry
<1>4. EntriesTyped'
    BY <1>1 DEF EntriesTyped
<1>5. DedupTypeOK'
    BY <1>1, <1>2, <1>3 DEF DedupTypeOK, StoreTypeOK
<1> QED
    BY <1>4, <1>5

LEMMA CloseTyped ==
    ASSUME DedupTypeOK, EntriesTyped, NEW id \in TicketIds, CloseTicket(id)
    PROVE  DedupTypeOK' /\ EntriesTyped'
<1>1. tickets' \in Seq(Row)
    BY Numbers, StatusWritten DEF CloseTicket, Statuses
<1> QED
    BY <1>1 DEF CloseTicket, troubleVars, pollVars, DedupTypeOK, StoreTypeOK, EntriesTyped

LEMMA PauseTyped ==
    ASSUME DedupTypeOK, EntriesTyped, PressPause
    PROVE  DedupTypeOK' /\ EntriesTyped'
<1>1. paused' \in BOOLEAN
    BY DEF PressPause
<1>2. UNCHANGED <<source, clock, log, due, nextTick, polledAt, batch, setbacks, slowest, storeVars>>
    BY DEF PressPause, troubleVars
<1>3. DedupTypeOK'
    BY <1>1, <1>2 DEF DedupTypeOK, StoreTypeOK, storeVars
<1> QED
    BY <1>2, <1>3 DEF EntriesTyped

LEMMA TypesStep ==
    DedupTypeOK /\ EntriesTyped /\ [DedupNext]_dedupVars => DedupTypeOK' /\ EntriesTyped'
<1> SUFFICES ASSUME DedupTypeOK, EntriesTyped, [DedupNext]_dedupVars
             PROVE  DedupTypeOK' /\ EntriesTyped'
    OBVIOUS
<1>1. CASE UNCHANGED dedupVars
    BY <1>1 DEF dedupVars, troubleVars, pollVars, storeVars, DedupTypeOK, StoreTypeOK, EntriesTyped
<1> QED
    BY <1>1, LogErrorTyped, TickTyped, PollTyped, PauseTyped, HandleTyped, CloseTyped DEF DedupNext

LEMMA TypesInit == DedupInit => DedupTypeOK /\ EntriesTyped
<1> SUFFICES ASSUME DedupInit PROVE DedupTypeOK /\ EntriesTyped
    OBVIOUS
<1>1. StoreTypeOK
    BY StoreAssumption DEF DedupInit, StoreInit, StoreTypeOK
<1>2. due \in BOOLEAN /\ paused \in BOOLEAN
    BY DEF DedupInit
<1>3. clock = 0 /\ log = {} /\ batch = {} /\ polledAt = 0 /\ setbacks = 0 /\ slowest = 0
    BY DEF DedupInit
<1>4. nextTick = NotStarted /\ source \in Sources
    BY DEF DedupInit
<1>5. 0 \in 0..MaxClock /\ 0 \in 0..MaxSetbacks /\ 0 \in 0..MaxPollTime /\ 0 \in 0..0
    BY DedupAssumption
<1>6. DedupTypeOK
    BY <1>1, <1>2, <1>3, <1>4, <1>5 DEF DedupTypeOK
<1> QED
    BY <1>3, <1>6 DEF EntriesTyped

-----------------------------------------------------------------------------
(* When the polls begin.                                                   *)

LEMMA NextPollIs ==
    /\ due => NextPoll = clock
    /\ ~due /\ nextTick # NotStarted => NextPoll = nextTick
    /\ due' => NextPoll' = clock'
    /\ ~due' /\ nextTick' # NotStarted => NextPoll' = nextTick'
<1>1. due => NextPoll = clock
    BY DEF NextPoll
<1>2. ~due /\ nextTick # NotStarted => NextPoll = nextTick
    BY DEF NextPoll
<1>3. due' => NextPoll' = clock'
    BY DEF NextPoll
<1>4. ~due' /\ nextTick' # NotStarted => NextPoll' = nextTick'
    BY DEF NextPoll, NotStarted
<1> QED
    BY <1>1, <1>2, <1>3, <1>4

LEMMA TickTimes ==
    ASSUME DedupTypeOK, DedupTypeOK', FirstPoll, InTime, Tick
    PROVE  FirstPoll' /\ InTime'
<1>1. /\ clock \in Nat /\ polledAt \in Nat /\ polledAt <= clock /\ slowest \in Nat
      /\ Interval \in Nat \ {0} /\ NotStarted = -1
      /\ \/ nextTick = NotStarted
         \/ nextTick \in Nat /\ nextTick > clock /\ nextTick <= clock + Interval
    BY Numbers DEF NotStarted
<1>2. /\ clock' = clock + 1 /\ polledAt' = polledAt /\ batch' = batch /\ tickets' = tickets
      /\ due' <=> (due \/ clock' = nextTick)
      /\ nextTick' = IF clock' = nextTick THEN nextTick + Interval ELSE nextTick
      /\ slowest' = IF batch # {} /\ clock' - polledAt > slowest THEN clock' - polledAt ELSE slowest
      /\ batch = {} => ~due
    BY DEF Tick, TickAfter
<1>3. slowest' \in Nat /\ slowest <= slowest' /\ (batch # {} => clock' <= polledAt + slowest')
    BY <1>1, <1>2
<1>4. FirstPoll'
    <2>1. CASE nextTick = NotStarted
        <3>1. clock' # nextTick /\ nextTick' = NotStarted
            BY <1>1, <1>2, <2>1
        <3>2. ~due /\ batch # {}
            BY <1>2, <2>1 DEF FirstPoll
        <3> QED
            BY <1>2, <2>1, <3>1, <3>2 DEF FirstPoll
    <2>2. CASE nextTick # NotStarted
        <3>1. nextTick' # NotStarted
            BY <1>1, <1>2, <2>2
        <3> QED
            BY <3>1 DEF FirstPoll
    <2> QED
        BY <2>1, <2>2
<1>5. ASSUME slowest' <= Interval, nextTick' # NotStarted
      PROVE  /\ due' => nextTick' = clock' + Interval
             /\ polledAt' + Interval <= NextPoll'
             /\ NextPoll' <= polledAt' + Interval + slowest'
             /\ batch' # {} => NextPoll' = polledAt' + Interval
    <2>1. slowest <= Interval /\ nextTick # NotStarted
        BY <1>1, <1>2, <1>3, <1>5
    <2>2. /\ due => nextTick = clock + Interval
          /\ polledAt + Interval <= NextPoll
          /\ NextPoll <= polledAt + Interval + slowest
          /\ batch # {} => NextPoll = polledAt + Interval
        BY <2>1 DEF InTime
    <2>3. ~due
        <3>1. CASE batch = {}
            BY <1>2, <3>1
        <3>2. CASE batch # {} /\ due
            <4>1. clock = polledAt + Interval
                BY <2>2, <3>2, NextPollIs
            <4> QED
                BY <1>1, <1>2, <1>3, <1>5, <3>2, <4>1
        <3> QED
            BY <3>1, <3>2
    <2>4. NextPoll = nextTick
        BY <2>1, <2>3, NextPollIs
    <2>5. CASE clock' = nextTick
        <3>1. due' /\ NextPoll' = clock' /\ nextTick' = clock' + Interval
            BY <1>2, <2>5, NextPollIs
        <3>2. NextPoll' = NextPoll
            BY <2>4, <2>5, <3>1
        <3> QED
            BY <1>1, <1>2, <1>3, <2>2, <2>4, <3>1, <3>2
    <2>6. CASE clock' # nextTick
        <3>1. ~due' /\ nextTick' = nextTick
            BY <1>2, <2>3, <2>6
        <3>2. NextPoll' = NextPoll
            BY <1>5, <2>4, <3>1, NextPollIs
        <3> QED
            BY <1>1, <1>2, <1>3, <2>2, <2>4, <3>1, <3>2
    <2> QED
        BY <2>5, <2>6
<1>6. InTime'
    BY <1>2, <1>3, <1>5 DEF InTime
<1> QED
    BY <1>4, <1>6

LEMMA PollTimes ==
    ASSUME DedupTypeOK, DedupTypeOK', FirstPoll, InTime, Poll
    PROVE  FirstPoll' /\ InTime'
<1>1. /\ clock \in Nat /\ polledAt \in Nat /\ polledAt <= clock /\ slowest \in Nat
      /\ Interval \in Nat \ {0} /\ NotStarted = -1
      /\ nextTick = NotStarted \/ nextTick \in Nat
    BY Numbers DEF NotStarted
<1>2. /\ clock' = clock /\ polledAt' = clock /\ slowest' = slowest /\ tickets' = tickets
      /\ due /\ ~due' /\ batch = {}
      /\ nextTick' = IF batch' = {} /\ nextTick = NotStarted THEN clock + Interval ELSE nextTick
    BY DEF Poll, PollEnds, storeVars
<1>3. nextTick = NotStarted => polledAt = 0 /\ clock = 0
    BY <1>2 DEF FirstPoll
<1>4. FirstPoll'
    <2>1. ASSUME nextTick' = NotStarted PROVE polledAt' = 0 /\ batch' # {}
        BY <1>1, <1>2, <1>3, <2>1
    <2> QED
        BY <1>2, <2>1 DEF FirstPoll
<1>5. ASSUME slowest' <= Interval, nextTick' # NotStarted
      PROVE  NextPoll' = polledAt' + Interval
    <2>1. NextPoll' = nextTick'
        BY <1>2, <1>5, NextPollIs
    <2>2. CASE nextTick = NotStarted
        BY <1>2, <1>5, <2>1, <2>2
    <2>3. CASE nextTick # NotStarted
        <3>1. nextTick = clock + Interval
            BY <1>2, <1>5, <2>3 DEF InTime
        <3> QED
            BY <1>2, <2>1, <2>3, <3>1
    <2> QED
        BY <2>2, <2>3
<1>6. ASSUME slowest' <= Interval, nextTick' # NotStarted
      PROVE  /\ polledAt' + Interval <= NextPoll'
             /\ NextPoll' <= polledAt' + Interval + slowest'
    BY <1>1, <1>2, <1>5, <1>6
<1>7. clock' <= polledAt' + slowest'
    BY <1>1, <1>2
<1>8. InTime'
    BY <1>2, <1>5, <1>6, <1>7 DEF InTime
<1> QED
    BY <1>4, <1>8

LEMMA HandleTimes ==
    ASSUME DedupTypeOK, DedupTypeOK', FirstPoll, InTime, NEW e \in batch, HandleEntry(e)
    PROVE  FirstPoll' /\ InTime'
<1>1. /\ clock \in Nat /\ polledAt \in Nat /\ polledAt <= clock /\ slowest \in Nat
      /\ Interval \in Nat \ {0} /\ NotStarted = -1
      /\ nextTick = NotStarted \/ nextTick \in Nat
    BY Numbers DEF NotStarted
<1>2. /\ clock' = clock /\ polledAt' = polledAt /\ slowest' = slowest /\ (due' <=> due)
      /\ batch # {}
      /\ nextTick' = IF batch' = {} /\ nextTick = NotStarted THEN clock + Interval ELSE nextTick
    BY DEF HandleEntry, PollEnds
<1>3. clock <= polledAt + slowest
    BY <1>2 DEF InTime
<1>4. nextTick = NotStarted => polledAt = 0 /\ ~due
    BY <1>2 DEF FirstPoll
<1>5. FirstPoll'
    <2>1. ASSUME nextTick' = NotStarted PROVE polledAt' = 0 /\ ~due' /\ batch' # {}
        <3>1. nextTick = NotStarted /\ batch' # {}
            BY <1>1, <1>2, <2>1
        <3> QED
            BY <1>2, <1>4, <3>1
    <2> QED
        BY <2>1 DEF FirstPoll
<1>6. ASSUME slowest' <= Interval, nextTick' # NotStarted
      PROVE  /\ due' => nextTick' = clock' + Interval
             /\ polledAt' + Interval <= NextPoll'
             /\ NextPoll' <= polledAt' + Interval + slowest'
             /\ batch' # {} => NextPoll' = polledAt' + Interval
    <2>1. CASE nextTick = NotStarted
        <3>1. ~due' /\ batch' = {} /\ nextTick' = clock + Interval
            BY <1>2, <1>4, <1>6, <2>1
        <3>2. NextPoll' = clock + Interval
            BY <1>6, <3>1, NextPollIs
        <3>3. /\ polledAt' + Interval <= NextPoll'
              /\ NextPoll' <= polledAt' + Interval + slowest'
            <4>1. /\ polledAt + Interval <= clock + Interval
                  /\ clock + Interval <= polledAt + Interval + slowest
                BY <1>1, <1>3
            <4> QED
                BY <1>2, <3>2, <4>1
        <3> QED
            BY <3>1, <3>3
    <2>2. CASE nextTick # NotStarted
        <3>1. nextTick' = nextTick
            BY <1>2, <2>2
        <3>2. NextPoll' = NextPoll
            BY <1>2, <2>2, <3>1 DEF NextPoll
        <3>3. /\ due => nextTick = clock + Interval
              /\ polledAt + Interval <= NextPoll
              /\ NextPoll <= polledAt + Interval + slowest
              /\ NextPoll = polledAt + Interval
            BY <1>2, <1>6, <2>2 DEF InTime
        <3> QED
            BY <1>2, <3>1, <3>2, <3>3
    <2> QED
        BY <2>1, <2>2
<1>7. InTime'
    BY <1>2, <1>3, <1>6 DEF InTime
<1> QED
    BY <1>5, <1>7

LEMMA TimesSame ==
    ASSUME FirstPoll, InTime, UNCHANGED <<clock, due, nextTick, polledAt, batch, slowest>>,
           tickets = <<>> => tickets' = <<>>
    PROVE  FirstPoll' /\ InTime'
BY DEF FirstPoll, InTime, NextPoll

LEMMA TimesStep ==
    ASSUME DedupTypeOK, DedupTypeOK', FirstPoll, InTime, [DedupNext]_dedupVars
    PROVE  FirstPoll' /\ InTime'
<1>1. ASSUME NEW error, LogError(error) PROVE FirstPoll' /\ InTime'
    BY <1>1, TimesSame DEF LogError, pollVars, troubleVars, storeVars
<1>2. ASSUME NEW id \in TicketIds, CloseTicket(id) PROVE FirstPoll' /\ InTime'
    <2>1. tickets # <<>>
        BY <1>2 DEF TicketIds
    <2> QED
        BY <1>2, <2>1, TimesSame DEF CloseTicket, pollVars, troubleVars
<1>3. CASE UNCHANGED dedupVars
    BY <1>3, TimesSame DEF dedupVars, pollVars, troubleVars, storeVars
<1>4. CASE PressPause
    BY <1>4, TimesSame DEF PressPause, troubleVars, storeVars
<1> QED
    BY <1>1, <1>2, <1>3, <1>4, TickTimes, PollTimes, HandleTimes DEF DedupNext

LEMMA TimesInit == DedupInit => FirstPoll /\ InTime
BY DEF DedupInit, StoreInit, FirstPoll, InTime

-----------------------------------------------------------------------------
(* What no poll is still to fetch has a row.                               *)

RowsKept ==
    /\ source' = source
    /\ TicketIds \subseteq TicketIds'
    /\ \A i \in TicketIds : tickets'[i].hash = tickets[i].hash

LEMMA HasRowKept ==
    ASSUME RowsKept, NEW e, HasRow(e)
    PROVE  HasRow(e)'
BY DEF RowsKept, HasRow, Fingerprint, WithTime, WithoutTime

(* Nothing but the rows changes, or what was logged now.                   *)
LEMMA CoveredSame ==
    ASSUME DedupTypeOK, Covered, RowsKept, UNCHANGED <<polledAt, batch, setbacks>>,
           slowest' \in Nat, slowest <= slowest',
           \A e \in log' \ log : e.ts = clock
    PROVE  Covered'
<1>1. /\ polledAt \in Nat /\ Interval \in Nat /\ clock \in Nat /\ polledAt <= clock
      /\ slowest \in Nat
    BY Numbers
<1>2. ASSUME NEW e \in log', e \notin log
      PROVE  ~(e.ts < polledAt) /\ ~(e.ts < polledAt - Interval)
    <2>1. e.ts = clock
        BY <1>2
    <2> QED
        BY <1>1, <2>1
<1>3. NothingLeft'
    <2> SUFFICES ASSUME setbacks' = 0, slowest' <= Interval,
                        NEW e \in log', e.ts < polledAt'
                 PROVE  (e \in batch \/ HasRow(e))'
        BY DEF NothingLeft
    <2>1. slowest <= Interval /\ setbacks = 0 /\ e \in log /\ e.ts < polledAt
        BY <1>1, <1>2
    <2>2. e \in batch \/ HasRow(e)
        BY <2>1 DEF Covered, NothingLeft
    <2> QED
        BY <2>2, HasRowKept
<1>4. slowest' = 0 => slowest = 0
    BY <1>1
<1>5. PastInRows'
    <2> SUFFICES ASSUME setbacks' = 0, slowest' = 0, NEW e \in log', e.ts < polledAt' - Interval
                 PROVE  HasRow(e)'
        BY DEF PastInRows
    <2>1. HasRow(e)
        BY <1>2, <1>4 DEF Covered, PastInRows
    <2> QED
        BY <2>1, HasRowKept
<1>6. PastNotLeft'
    <2> SUFFICES ASSUME setbacks' <= 1, slowest' = 0, NEW e \in log', e.ts < polledAt' - Interval
                 PROVE  (e \in batch \/ HasRow(e))'
        BY DEF PastNotLeft
    <2>1. e \in batch \/ HasRow(e)
        BY <1>2, <1>4 DEF Covered, PastNotLeft
    <2> QED
        BY <2>1, HasRowKept
<1> QED
    BY <1>3, <1>5, <1>6 DEF Covered

(* A poll begins when there is no entry left of the one before it: what is *)
(* before its window is what the one before it was not to leave.           *)
LEMMA PollCovers ==
    ASSUME DedupTypeOK, EntriesTyped, FirstPoll, InTime, Covered, Poll
    PROVE  Covered'
<1>1. /\ clock \in Nat /\ polledAt \in Nat /\ polledAt <= clock /\ slowest \in Nat
      /\ Interval \in Nat \ {0} /\ setbacks \in Nat
    BY Numbers
<1>2. /\ UNCHANGED <<source, log, slowest, tickets>> /\ polledAt' = clock /\ due /\ batch = {}
      /\ \/ batch' \in Fetched /\ setbacks' = setbacks
         \/ setbacks' = setbacks + 1 /\ batch' = {}
    BY DEF Poll, SetBack, storeVars
<1>3. \A e : HasRow(e) => HasRow(e)'
    BY <1>2, HasRowKept DEF RowsKept, TicketIds
<1>4. \A e \in log : e.ts \in Nat /\ e.ts <= clock
    BY <1>1 DEF EntriesTyped
<1>5. ASSUME NEW e \in log, e.ts >= clock - 2 * Interval, setbacks' = setbacks
      PROVE  e \in batch'
    <2>1. source \in LogServices
        BY DEF EntriesTyped
    <2>2. batch' \in Fetched
        BY <1>1, <1>2, <1>5
    <2> QED
        BY <1>5, <2>1, <2>2, FetchedTyped
<1>6. CASE nextTick = NotStarted
    <2>1. polledAt' = 0
        BY <1>2, <1>6 DEF FirstPoll
    <2>2. \A e \in log' : ~(e.ts < polledAt') /\ ~(e.ts < polledAt' - Interval)
        BY <1>1, <1>2, <1>4, <2>1
    <2> QED
        BY <2>2 DEF Covered, NothingLeft, PastInRows, PastNotLeft
<1>7. CASE nextTick # NotStarted
    <2>1. NextPoll = clock
        BY <1>2, NextPollIs
    <2>2. slowest <= Interval => clock <= polledAt + Interval + slowest
        BY <1>7, <2>1 DEF InTime
    <2>3. NothingLeft'
        <3> SUFFICES ASSUME setbacks' = 0, slowest' <= Interval,
                            NEW e \in log', e.ts < polledAt'
                     PROVE  e \in batch' \/ HasRow(e)'
            BY DEF NothingLeft
        <3>1. setbacks = 0 /\ setbacks' = setbacks /\ slowest <= Interval /\ e \in log
            BY <1>1, <1>2
        <3>2. CASE e.ts >= clock - 2 * Interval
            BY <1>5, <3>1, <3>2
        <3>3. CASE ~(e.ts >= clock - 2 * Interval)
            <4>1. e.ts < polledAt
                BY <1>1, <1>4, <2>2, <3>1, <3>3
            <4> QED
                BY <1>2, <1>3, <3>1, <4>1 DEF Covered, NothingLeft
        <3> QED
            BY <3>2, <3>3
    <2>4. ASSUME slowest = 0 PROVE clock - Interval <= polledAt
        BY <1>1, <2>2, <2>4
    <2>5. ASSUME setbacks = 0, slowest = 0, NEW e \in log, e.ts < clock - Interval
          PROVE  HasRow(e)
        <3>1. e.ts < polledAt /\ slowest <= Interval
            BY <1>1, <1>4, <2>4, <2>5
        <3> QED
            BY <1>2, <2>5, <3>1 DEF Covered, NothingLeft
    <2>6. PastInRows'
        <3> SUFFICES ASSUME setbacks' = 0, slowest' = 0,
                            NEW e \in log', e.ts < polledAt' - Interval
                     PROVE  HasRow(e)'
            BY DEF PastInRows
        <3>1. setbacks = 0
            BY <1>1, <1>2
        <3> QED
            BY <1>2, <1>3, <2>5, <3>1
    <2>7. PastNotLeft'
        <3> SUFFICES ASSUME setbacks' <= 1, slowest' = 0,
                            NEW e \in log', e.ts < polledAt' - Interval
                     PROVE  e \in batch' \/ HasRow(e)'
            BY DEF PastNotLeft
        <3>1. e \in log /\ slowest = 0 /\ e.ts < clock - Interval
            BY <1>2
        <3>2. CASE setbacks = 0
            BY <1>3, <2>5, <3>1, <3>2
        <3>3. CASE setbacks # 0 /\ e.ts >= clock - 2 * Interval
            <4>1. setbacks' = setbacks
                BY <1>1, <1>2, <3>3
            <4> QED
                BY <1>5, <3>1, <3>3, <4>1
        <3>4. CASE setbacks # 0 /\ ~(e.ts >= clock - 2 * Interval)
            <4>1. setbacks <= 1
                BY <1>1, <1>2
            <4>2. e.ts < polledAt - Interval
                BY <1>1, <1>4, <2>4, <3>1, <3>4
            <4>3. HasRow(e)
                BY <1>2, <3>1, <4>1, <4>2 DEF Covered, PastNotLeft
            <4> QED
                BY <1>3, <4>3
        <3> QED
            BY <3>2, <3>3, <3>4
    <2> QED
        BY <2>3, <2>6, <2>7 DEF Covered
<1> QED
    BY <1>6, <1>7

LEMMA UpsertedKeeps ==
    ASSUME NEW hash, Upserted(hash), source' = source
    PROVE  RowsKept
BY DEF Upserted, RowsKept

LEMMA HandleCovers ==
    ASSUME DedupTypeOK, EntriesTyped, Covered, NEW e \in batch, HandleEntry(e)
    PROVE  Covered'
<1>1. setbacks \in Nat /\ slowest \in Nat /\ Interval \in Nat
    BY Numbers
<1>2. UNCHANGED <<source, log, slowest, polledAt>> /\ batch' = batch \ {e}
    BY DEF HandleEntry
<1>3. CASE Upserted(Fingerprint(e)) /\ setbacks' = setbacks
    <2>1. \A f : HasRow(f) => HasRow(f)'
        BY <1>2, <1>3, UpsertedKeeps, HasRowKept
    <2>2. HasRow(e)'
        BY <1>2, <1>3 DEF Upserted, HasRow, Fingerprint, WithTime, WithoutTime
    <2>3. \A f : f \in batch \/ HasRow(f) => f \in batch' \/ HasRow(f)'
        BY <1>2, <2>1, <2>2
    <2>4. NothingLeft' /\ PastNotLeft'
        BY <1>2, <1>3, <2>3 DEF Covered, NothingLeft, PastNotLeft
    <2>5. PastInRows'
        BY <1>2, <1>3, <2>1 DEF Covered, PastInRows
    <2> QED
        BY <2>4, <2>5 DEF Covered
<1>4. CASE tickets' = tickets /\ setbacks' = setbacks + 1
    <2>1. \A f : HasRow(f) => HasRow(f)'
        BY <1>2, <1>4, HasRowKept DEF RowsKept, TicketIds
    <2>2. setbacks' # 0 /\ (setbacks' <= 1 => setbacks = 0)
        BY <1>1, <1>4
    <2>3. PastNotLeft'
        BY <1>2, <2>1, <2>2 DEF Covered, PastInRows, PastNotLeft
    <2> QED
        BY <2>2, <2>3 DEF Covered, NothingLeft, PastInRows
<1> QED
    BY <1>3, <1>4, HandleDoes

LEMMA CoveredStep ==
    ASSUME DedupTypeOK, DedupTypeOK', EntriesTyped, FirstPoll, InTime, Covered,
           [DedupNext]_dedupVars
    PROVE  Covered'
<1>1. slowest \in Nat /\ slowest' \in Nat /\ clock \in Nat /\ polledAt \in Nat
    BY Numbers DEF DedupTypeOK
<1>2. ASSUME NEW error, LogError(error) PROVE Covered'
    <2>1. RowsKept /\ UNCHANGED <<polledAt, batch, setbacks, slowest>>
        BY <1>2 DEF LogError, RowsKept, TicketIds, pollVars, troubleVars, storeVars
    <2>2. \A e \in log' \ log : e.ts = clock
        BY <1>2 DEF LogError
    <2>3. slowest <= slowest'
        BY <1>1, <2>1
    <2> QED
        BY <1>1, <2>1, <2>2, <2>3, CoveredSame
<1>3. CASE Tick
    <2>1. RowsKept /\ UNCHANGED <<polledAt, batch, setbacks, log>>
        BY <1>3 DEF Tick, RowsKept, TicketIds
    <2>2. slowest <= slowest'
        <3>1. /\ clock' = clock + 1
              /\ slowest' = IF batch # {} /\ clock' - polledAt > slowest
                            THEN clock' - polledAt ELSE slowest
            BY <1>3 DEF Tick
        <3> QED
            BY <1>1, <3>1
    <2> QED
        BY <1>1, <2>1, <2>2, CoveredSame
<1>4. ASSUME NEW id \in TicketIds, CloseTicket(id) PROVE Covered'
    <2>1. RowsKept
        BY <1>4, Numbers, StatusWritten DEF CloseTicket, RowsKept, Statuses
    <2>2. UNCHANGED <<polledAt, batch, setbacks, slowest, log>>
        BY <1>4 DEF CloseTicket, pollVars, troubleVars
    <2>3. slowest <= slowest'
        BY <1>1, <2>2
    <2> QED
        BY <1>1, <2>1, <2>2, <2>3, CoveredSame
<1>5. CASE UNCHANGED dedupVars
    <2>1. RowsKept /\ UNCHANGED <<polledAt, batch, setbacks, slowest, log>>
        BY <1>5 DEF dedupVars, RowsKept, TicketIds, pollVars, troubleVars, storeVars
    <2>2. slowest <= slowest'
        BY <1>1, <2>1
    <2> QED
        BY <1>1, <2>1, <2>2, CoveredSame
<1>6. CASE PressPause
    <2>1. RowsKept /\ UNCHANGED <<polledAt, batch, setbacks, slowest, log>>
        BY <1>6 DEF PressPause, RowsKept, TicketIds, troubleVars, storeVars
    <2>2. slowest <= slowest'
        BY <1>1, <2>1
    <2> QED
        BY <1>1, <2>1, <2>2, CoveredSame
<1> QED
    BY <1>2, <1>3, <1>4, <1>5, <1>6, PollCovers, HandleCovers DEF DedupNext

LEMMA CoveredInit == DedupInit => Covered
BY DEF DedupInit, Covered, NothingLeft, PastInRows, PastNotLeft

-----------------------------------------------------------------------------
(* How often an entry is counted.                                          *)

LEMMA InTurnStill ==
    ASSUME NEW n \in Nat, NEW m \in Nat, NEW ts \in Nat, NEW last \in Nat, NEW later \in Nat,
           InTurn(n, ts, last), m <= n, last <= later
    PROVE  InTurn(m, ts, later)
<1>1. Interval \in Nat
    BY DedupAssumption
<1> QED
    BY <1>1 DEF InTurn

LEMMA InTurnAgain ==
    ASSUME NEW n \in Nat, NEW ts \in Nat, NEW last \in Nat, NEW later \in Nat,
           InTurn(n, ts, last), last + Interval <= later, ts <= later, ts >= later - 2 * Interval
    PROVE  InTurn(n + 1, ts, later)
<1>1. Interval \in Nat \ {0}
    BY DedupAssumption
<1>2. n <= 2
    BY <1>1 DEF InTurn
<1> QED
    BY <1>1, <1>2 DEF InTurn

LEMMA CountTyped ==
    ASSUME NEW rows \in Seq(Row), NEW id \in DOMAIN rows
    PROVE  rows[id].count \in Nat
<1>1. rows[id] \in Row
    BY ElementOfSeq, LenProperties
<1> QED
    BY <1>1 DEF Row

LEMMA RowTyped ==
    ASSUME DedupTypeOK, NEW id \in TicketIds
    PROVE  tickets[id].count \in Nat
<1>1. tickets \in Seq(Row) /\ id \in DOMAIN tickets
    BY Numbers DEF TicketIds
<1> QED
    BY <1>1, CountTyped

LEMMA CountsTyped ==
    ASSUME DedupTypeOK, NEW id \in TicketIds
    PROVE  /\ Counts(id) \in Nat
           /\ tickets[id].hash \in batch => Counts(id) = tickets[id].count + 1
           /\ tickets[id].hash \notin batch => Counts(id) = tickets[id].count
BY RowTyped DEF Counts

(* What has a row was logged, and stays in the log.                        *)
LEMMA LoggedTyped ==
    ASSUME DedupTypeOK, EntriesTyped, NEW e \in log
    PROVE  e.ts \in Nat /\ e.ts <= clock
BY Numbers DEF EntriesTyped

(* A row that counts no more than it did, and no earlier.                  *)
LEMMA RowStillInTurn ==
    ASSUME DedupTypeOK, DedupTypeOK', EntriesTyped, NEW id \in TicketIds, id \in TicketIds',
           CountedInTurn(id), tickets'[id].hash = tickets[id].hash, log \subseteq log',
           Counts(id)' <= Counts(id), polledAt <= polledAt', slowest <= slowest'
    PROVE  CountedInTurn(id)'
<1>1. Counts(id) \in Nat
    BY CountsTyped
<1>2. Counts(id)' \in Nat
    <2>1. tickets' \in Seq(Row) /\ id \in DOMAIN tickets'
        BY DEF DedupTypeOK, StoreTypeOK, TicketIds
    <2>2. tickets'[id].count \in Nat
        BY <2>1, CountTyped
    <2> QED
        BY <2>2 DEF Counts
<1>3. polledAt \in Nat /\ slowest \in Nat /\ Interval \in Nat
    BY Numbers
<1>4. polledAt' \in Nat /\ slowest' \in Nat
    <2>1. clock' \in Nat /\ polledAt' \in 0..clock' /\ slowest' \in 0..MaxPollTime
        BY DedupAssumption DEF DedupTypeOK
    <2> QED
        BY <2>1, DedupAssumption
<1>5. tickets[id].hash \in log /\ tickets[id].hash.ts \in Nat
    BY LoggedTyped DEF CountedInTurn
<1>6. ASSUME slowest' <= Interval PROVE InTurn(Counts(id)', tickets[id].hash.ts, polledAt')
    <2>1. slowest <= Interval
        BY <1>3, <1>4, <1>6
    <2>2. InTurn(Counts(id), tickets[id].hash.ts, polledAt)
        BY <2>1 DEF CountedInTurn
    <2> QED
        BY <1>1, <1>2, <1>3, <1>4, <1>5, <2>2, InTurnStill
<1> QED
    BY <1>5, <1>6 DEF CountedInTurn, InTurn

LEMMA PollCounts ==
    ASSUME DedupTypeOK, DedupTypeOK', EntriesTyped, FirstPoll, InTime, RowsCounted, Poll,
           source \in LogServices, NEW id \in TicketIds
    PROVE  CountedInTurn(id)'
<1>1. /\ clock \in Nat /\ polledAt \in Nat /\ polledAt <= clock /\ slowest \in Nat
      /\ Interval \in Nat \ {0}
    BY Numbers
<1>2. /\ UNCHANGED <<source, log, slowest, tickets>> /\ polledAt' = clock /\ due /\ batch = {}
      /\ \/ batch' \in Fetched
         \/ batch' = {}
    BY DEF Poll, SetBack, storeVars
<1>3. CountedInTurn(id) /\ tickets[id].hash \in log /\ TicketIds' = TicketIds
    BY <1>2 DEF RowsCounted, CountedInTurn, TicketIds
<1>4. tickets[id].hash.ts \in Nat /\ tickets[id].hash.ts <= clock
    BY <1>3, LoggedTyped
<1>5. Counts(id) = tickets[id].count /\ Counts(id) \in Nat
    BY <1>2, CountsTyped
<1>6. /\ tickets[id].hash \in batch' => Counts(id)' = tickets[id].count + 1
      /\ tickets[id].hash \notin batch' => Counts(id)' = tickets[id].count
    BY <1>2, <1>3, RowTyped DEF Counts
<1>7. CASE tickets[id].hash \notin batch'
    <2>1. Counts(id)' <= Counts(id)
        BY <1>5, <1>6, <1>7
    <2>2. polledAt <= polledAt' /\ slowest <= slowest' /\ log \subseteq log'
        BY <1>1, <1>2
    <2> QED
        BY <1>2, <1>3, <2>1, <2>2, RowStillInTurn
<1>8. CASE tickets[id].hash \in batch'
    <2>1. tickets[id].hash.ts >= clock - 2 * Interval
        BY <1>2, <1>8, FetchedTyped
    <2>2. nextTick # NotStarted
        BY <1>2 DEF FirstPoll, TicketIds
    <2>3. ASSUME slowest <= Interval PROVE InTurn(Counts(id)', tickets[id].hash.ts, clock)
        <3>1. polledAt + Interval <= clock
            BY <1>2, <2>2, <2>3, NextPollIs DEF InTime
        <3>2. InTurn(Counts(id), tickets[id].hash.ts, polledAt)
            BY <1>3, <2>3 DEF CountedInTurn
        <3>3. InTurn(Counts(id) + 1, tickets[id].hash.ts, clock)
            BY <1>1, <1>4, <1>5, <2>1, <3>1, <3>2, InTurnAgain
        <3> QED
            BY <1>5, <1>6, <1>8, <3>3
    <2> QED
        BY <1>2, <1>3, <2>3 DEF CountedInTurn, InTurn
<1> QED
    BY <1>7, <1>8

LEMMA HandleCounts ==
    ASSUME DedupTypeOK, DedupTypeOK', EntriesTyped, RowsCounted, NEW e \in batch, HandleEntry(e),
           source \in LogServices, NEW id \in TicketIds'
    PROVE  CountedInTurn(id)'
<1>1. polledAt \in Nat /\ slowest \in Nat /\ Interval \in Nat \ {0}
    BY Numbers
<1>2. UNCHANGED <<source, log, slowest, polledAt>> /\ batch' = batch \ {e}
    BY DEF HandleEntry
<1>3. Fingerprint(e) = e /\ e \in log
    BY FingerprintTyped DEF EntriesTyped
<1>4. polledAt <= polledAt' /\ slowest <= slowest' /\ log \subseteq log'
    BY <1>1, <1>2
<1>5. CASE id \in TicketIds
    <2>1. CountedInTurn(id) /\ tickets[id].count \in Nat /\ Counts(id) \in Nat
        BY <1>5, RowTyped, CountsTyped DEF RowsCounted
    <2>2. /\ tickets'[id].hash = tickets[id].hash
          /\ \/ tickets'[id].count = tickets[id].count
             \/ tickets[id].hash = e /\ tickets'[id].count = tickets[id].count + 1
        BY <1>3, <1>5, HandleDoes DEF Upserted
    <2>3. Counts(id)' = tickets'[id].count + (IF tickets[id].hash \in batch' THEN 1 ELSE 0)
        BY <2>2 DEF Counts
    <2>4. Counts(id)' <= Counts(id)
        <3>1. CASE tickets[id].hash = e
            <4>1. Counts(id) = tickets[id].count + 1
                BY <1>5, <3>1, CountsTyped
            <4>2. Counts(id)' = tickets'[id].count + 0
                BY <1>2, <2>3, <3>1
            <4> QED
                BY <2>1, <2>2, <4>1, <4>2
        <3>2. CASE tickets[id].hash # e
            <4>1. tickets'[id].count = tickets[id].count
                  /\ (tickets[id].hash \in batch' <=> tickets[id].hash \in batch)
                BY <1>2, <2>2, <3>2
            <4>2. Counts(id)' = Counts(id)
                BY <2>3, <4>1 DEF Counts
            <4> QED
                BY <2>1, <4>2
        <3> QED
            BY <3>1, <3>2
    <2> QED
        BY <1>4, <1>5, <2>1, <2>2, <2>4, RowStillInTurn
<1>6. CASE id \notin TicketIds
    <2>1. tickets'[id].hash = e /\ tickets'[id].count = 1
        BY <1>3, <1>6, HandleDoes DEF Upserted, TicketIds
    <2>2. Counts(id)' = 1
        BY <1>2, <2>1 DEF Counts
    <2>3. e.ts <= polledAt
        BY <1>1 DEF EntriesTyped
    <2>4. InTurn(1, e.ts, polledAt)
        BY <2>3 DEF InTurn
    <2> QED
        BY <1>2, <1>3, <2>1, <2>2, <2>4 DEF CountedInTurn, InTurn
<1> QED
    BY <1>5, <1>6

LEMMA CountedStep ==
    ASSUME DedupTypeOK, DedupTypeOK', EntriesTyped, FirstPoll, InTime, RowsCounted,
           [DedupNext]_dedupVars
    PROVE  RowsCounted'
<1> SUFFICES ASSUME source' \in LogServices, NEW id \in TicketIds'
             PROVE  CountedInTurn(id)'
    BY DEF RowsCounted
<1>1. source' = source
    BY DEF DedupNext, LogError, Tick, Poll, PressPause, HandleEntry, CloseTicket, dedupVars
<1>2. polledAt \in Nat /\ slowest \in Nat /\ clock \in Nat
    BY Numbers
<1>3. ASSUME id \in TicketIds, tickets'[id].hash = tickets[id].hash,
             tickets'[id].count = tickets[id].count, batch' = batch, log \subseteq log',
             polledAt' = polledAt, slowest <= slowest'
      PROVE  CountedInTurn(id)'
    <2>1. CountedInTurn(id) /\ Counts(id) \in Nat
        BY <1>1, <1>3, CountsTyped DEF RowsCounted
    <2>2. Counts(id)' = Counts(id)
        BY <1>3 DEF Counts
    <2>3. Counts(id)' <= Counts(id) /\ polledAt <= polledAt'
        BY <1>2, <1>3, <2>1, <2>2
    <2> QED
        BY <1>3, <2>1, <2>3, RowStillInTurn
<1>4. ASSUME NEW error, LogError(error) PROVE CountedInTurn(id)'
    <2>1. tickets' = tickets /\ UNCHANGED <<batch, polledAt, slowest>> /\ log \subseteq log'
        BY <1>4 DEF LogError, pollVars, troubleVars, storeVars
    <2>2. slowest <= slowest'
        BY <1>2, <2>1
    <2> QED
        BY <1>3, <2>1, <2>2 DEF TicketIds
<1>5. CASE Tick
    <2>1. tickets' = tickets /\ UNCHANGED <<batch, polledAt, log>>
        BY <1>5 DEF Tick
    <2>2. slowest <= slowest'
        <3>1. /\ clock' = clock + 1
              /\ slowest' = IF batch # {} /\ clock' - polledAt > slowest
                            THEN clock' - polledAt ELSE slowest
            BY <1>5 DEF Tick
        <3> QED
            BY <1>2, <3>1
    <2> QED
        BY <1>3, <2>1, <2>2 DEF TicketIds
<1>6. CASE Poll
    <2>1. TicketIds' = TicketIds
        BY <1>6 DEF Poll, TicketIds, storeVars
    <2> QED
        BY <1>1, <1>6, <2>1, PollCounts
<1>7. ASSUME NEW e \in batch, HandleEntry(e) PROVE CountedInTurn(id)'
    BY <1>1, <1>7, HandleCounts
<1>8. ASSUME NEW closed \in TicketIds, CloseTicket(closed) PROVE CountedInTurn(id)'
    <2>1. /\ id \in TicketIds /\ tickets'[id].hash = tickets[id].hash
          /\ tickets'[id].count = tickets[id].count
        BY <1>8, Numbers, StatusWritten DEF CloseTicket, Statuses
    <2>2. UNCHANGED <<batch, polledAt, slowest, log>>
        BY <1>8 DEF CloseTicket, pollVars, troubleVars
    <2>3. slowest <= slowest'
        BY <1>2, <2>2
    <2> QED
        BY <1>3, <2>1, <2>2, <2>3
<1>9. CASE UNCHANGED dedupVars
    <2>1. tickets' = tickets /\ UNCHANGED <<batch, polledAt, slowest, log>>
        BY <1>9 DEF dedupVars, pollVars, troubleVars, storeVars
    <2>2. slowest <= slowest'
        BY <1>2, <2>1
    <2> QED
        BY <1>3, <2>1, <2>2 DEF TicketIds
<1>10. CASE PressPause
    <2>1. tickets' = tickets /\ UNCHANGED <<batch, polledAt, slowest, log>>
        BY <1>10 DEF PressPause, troubleVars, storeVars
    <2>2. slowest <= slowest'
        BY <1>2, <2>1
    <2> QED
        BY <1>3, <2>1, <2>2 DEF TicketIds
<1> QED
    BY <1>4, <1>5, <1>6, <1>7, <1>8, <1>9, <1>10 DEF DedupNext

LEMMA CountedInit == DedupInit => RowsCounted
BY DEF DedupInit, StoreInit, RowsCounted, TicketIds

-----------------------------------------------------------------------------
(* The theorems.                                                           *)

LEMMA InvStep == DedupInv /\ [DedupNext]_dedupVars => DedupInv'
<1> SUFFICES ASSUME DedupInv, [DedupNext]_dedupVars PROVE DedupInv'
    OBVIOUS
<1>1. /\ DedupTypeOK /\ EntriesTyped
      /\ FirstPoll /\ InTime
      /\ Covered
      /\ RowsCounted
    BY DEF DedupInv
<1>2. DedupTypeOK' /\ EntriesTyped'
    BY <1>1, TypesStep
<1>3. FirstPoll' /\ InTime'
    BY <1>1, <1>2, TimesStep
<1>4. Covered'
    BY <1>1, <1>2, CoveredStep
<1>5. RowsCounted'
    BY <1>1, <1>2, CountedStep
<1> QED
    BY <1>2, <1>3, <1>4, <1>5 DEF DedupInv

LEMMA InvInit == DedupInit => DedupInv
BY TypesInit, TimesInit, CoveredInit, CountedInit DEF DedupInv

LEMMA InvAlways == DedupSpec => []DedupInv
BY InvInit, InvStep, PTL DEF DedupSpec

(* The table, the clock, the ticker and the batch of a poll stay in their  *)
(* types: the next tick is at most an interval away, and today is the day  *)
(* of the clock.                                                           *)
THEOREM DedupTyped == DedupSpec => []DedupTypeOK
<1>1. DedupInv => DedupTypeOK
    BY DEF DedupInv
<1> QED
    BY <1>1, InvAlways, PTL

(* since := time.Now().Add(-2 * PollInterval): with windows of two         *)
(* intervals one failure or skipped poll, or polls as long as an interval, *)
(* cost no entry its row.                                                  *)
THEOREM NoEntryIsMissed == DedupSpec => []NothingIsMissed
<1>1. DedupInv => NothingIsMissed
    <2> SUFFICES ASSUME DedupInv, setbacks * Interval + slowest <= Interval,
                        NEW e \in log, OutOfReach(e)
                 PROVE  HasRow(e)
        BY DEF NothingIsMissed
    <2>1. /\ DedupTypeOK /\ EntriesTyped
          /\ FirstPoll /\ InTime
          /\ Covered
        BY DEF DedupInv
    <2>2. /\ clock \in Nat /\ polledAt \in Nat /\ polledAt <= clock /\ slowest \in Nat
          /\ Interval \in Nat \ {0} /\ setbacks \in Nat
        BY <2>1, Numbers
    <2>3. e.ts \in Nat /\ e.ts <= clock
        BY <2>1, LoggedTyped
    <2>4. (setbacks = 0 /\ slowest <= Interval) \/ (setbacks = 1 /\ slowest = 0)
        <3>1. PICK n \in Nat, x \in Nat, len \in Nat \ {0} :
                n = setbacks /\ x = slowest /\ len = Interval
            BY <2>2
        <3>2. n * len + x <= len
            BY <3>1
        <3>3. (n = 0 /\ x <= len) \/ (n = 1 /\ x = 0)
            BY <3>2, OneSetback
        <3> QED
            BY <3>1, <3>3
    <2>5. e \notin batch /\ e.ts < NextPoll - 2 * Interval
        BY DEF OutOfReach
    <2>6. nextTick # NotStarted
        <3> SUFFICES ASSUME nextTick = NotStarted PROVE FALSE
            OBVIOUS
        <3>1. CASE due
            <4>1. NextPoll = clock /\ clock = 0
                BY <2>1, <3>1, NextPollIs DEF FirstPoll
            <4> QED
                BY <2>2, <2>3, <2>5, <4>1
        <3>2. CASE ~due
            <4>1. NextPoll = clock + Interval
                BY <3>2 DEF NextPoll
            <4>2. polledAt = 0 /\ clock <= polledAt + slowest
                BY <2>1, <3>2 DEF FirstPoll, InTime
            <4>3. slowest <= Interval
                BY <2>2, <2>4
            <4> QED
                BY <2>2, <2>3, <2>5, <4>1, <4>2, <4>3
        <3> QED
            BY <3>1, <3>2
    <2>7. polledAt + Interval <= NextPoll /\ NextPoll <= polledAt + Interval + slowest
        BY <2>1, <2>2, <2>4, <2>6 DEF InTime
    <2>8. NextPoll \in Int
        BY <2>1, <2>2, <2>6, Numbers DEF NextPoll
    <2>9. CASE setbacks = 0 /\ slowest <= Interval
        <3>1. e.ts < polledAt
            BY <2>2, <2>3, <2>5, <2>7, <2>8, <2>9
        <3> QED
            BY <2>1, <2>5, <2>9, <3>1 DEF Covered, NothingLeft
    <2>10. CASE setbacks = 1 /\ slowest = 0
        <3>1. e.ts < polledAt - Interval
            BY <2>2, <2>3, <2>5, <2>7, <2>8, <2>10
        <3> QED
            BY <2>1, <2>5, <2>10, <3>1 DEF Covered, PastNotLeft
    <2> QED
        BY <2>4, <2>9, <2>10
<1> QED
    BY <1>1, InvAlways, PTL

(* README.md: "same error same day increments the occurrence counter":     *)
(* polls that begin an interval apart have an entry in three windows of    *)
(* two intervals at the most.                                              *)
THEOREM NoneCountedMore == DedupSpec => []CountedAtMostThrice
<1>1. DedupInv => CountedAtMostThrice
    <2> SUFFICES ASSUME DedupInv, source \in LogServices, slowest <= Interval, NEW id \in TicketIds
                 PROVE  tickets[id].count <=
                            3 * Cardinality({e \in log : Fingerprint(e) = tickets[id].hash})
        BY DEF CountedAtMostThrice
    <2>1. DedupTypeOK /\ EntriesTyped /\ CountedInTurn(id)
        BY DEF DedupInv, RowsCounted
    <2>2. slowest \in Nat /\ Interval \in Nat
        BY <2>1, Numbers
    <2>3. tickets[id].hash \in log /\ Counts(id) <= 3
        BY <2>1, <2>2 DEF CountedInTurn, InTurn
    <2>4. tickets[id].count <= 3
        BY <2>1, <2>3, RowTyped, CountsTyped
    <2>5. \A e \in log : Fingerprint(e) = e
        BY <2>1 DEF EntriesTyped, Fingerprint, WithTime, LogServices
    <2>6. {e \in log : Fingerprint(e) = tickets[id].hash} = {tickets[id].hash}
        BY <2>3, <2>5
    <2>7. Cardinality({tickets[id].hash}) = 1
        BY FS_Singleton
    <2> QED
        BY <2>4, <2>6, <2>7
<1> QED
    BY <1>1, InvAlways, PTL
=============================================================================
