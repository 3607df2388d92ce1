--------------------------- MODULE StartupProofs ---------------------------
(***************************************************************************)
(* Proofs about Startup for any configurations, lines, days and number of  *)
(* stops.                                                                  *)
(***************************************************************************)
EXTENDS Startup, SequenceTheorems, TLAPS

-----------------------------------------------------------------------------
(* The store.                                                              *)

(***************************************************************************)
(* With the index on the date, Upsert can insert every line it has no row  *)
(* of today for.                                                           *)
(***************************************************************************)
LEMMA NewLineFits ==
    ASSUME index = "dated", Unique(index, rows), NEW line \in Lines
    PROVE  Accepted(line)
<1>1. CASE Recorded(line)
    BY <1>1 DEF Accepted
<1>2. CASE ~Recorded(line)
    <2>1. \A r \in rows : ~(r.hash = line /\ r.created = today)
        BY <1>2 DEF Recorded
    <2>2. NewRow(line).hash = line /\ NewRow(line).created = today
        BY DEF NewRow
    <2>3. Unique("dated", rows \cup {NewRow(line)})
        BY <2>1, <2>2 DEF Unique
    <2> QED
        BY <2>3 DEF Accepted
<1> QED
    BY <1>1, <1>2

(***************************************************************************)
(* OpenMeansMigrated follows from the other parts of the invariant.        *)
(***************************************************************************)
LEMMA FoundIsMigrated ==
    ASSUME index # "absent" => Unique(index, rows), IF torn THEN TornFile ELSE Found
    PROVE  OpenMeansMigrated
<1> SUFFICES ASSUME step = "open"
             PROVE  /\ ~torn => index = "dated" /\ \A r \in rows : r.created # Undated
                    /\ \A line \in Lines :
                        \/ Accepted(line)
                        \/ torn /\ \E r \in rows : r.hash = line /\ r.created # today
    BY DEF OpenMeansMigrated
<1>1. CASE ~torn
    <2>1. NewFile /\ index = "dated"
        BY <1>1 DEF Found
    <2>2. \A line \in Lines : Accepted(line)
        BY <2>1, NewLineFits
    <2> QED
        BY <1>1, <2>1, <2>2 DEF NewFile, RowsAreDated
<1>2. CASE torn
    <2>1. index = "undated" /\ Unique("undated", rows)
        BY <1>2 DEF TornFile
    <2>2. ASSUME NEW line \in Lines, ~ \E r \in rows : r.hash = line /\ r.created # today
          PROVE  Accepted(line)
        <3>1. CASE \E r \in rows : r.hash = line
            BY <2>2, <3>1 DEF Accepted, Recorded
        <3>2. CASE ~ \E r \in rows : r.hash = line
            BY <2>1, <3>2 DEF Accepted, Unique, NewRow
        <3> QED
            BY <3>1, <3>2
    <2> QED
        BY <1>2, <2>2
<1> QED
    BY <1>1, <1>2

(***************************************************************************)
(* The parts of MigrationSafe that have to be proved step by step.         *)
(***************************************************************************)
MigrationInductive ==
    /\ MigrationTypeOK
    /\ index # "absent" => Unique(index, rows)
    /\ IF torn THEN TornFile ELSE Found

LEMMA InductiveIsSafe == MigrationInductive => MigrationSafe
BY FoundIsMigrated DEF MigrationInductive, MigrationSafe

LEMMA InitInductive == MigrationInit => MigrationInductive
<1> SUFFICES ASSUME MigrationInit PROVE MigrationInductive
    OBVIOUS
<1>1. rows \subseteq MigratedRow
    <2>1. 0 \in 0..MaxDay /\ Undated \in 0..Undated
        BY MigrationAssumption DEF Undated
    <2>2. ASSUME NEW lines \in SUBSET Lines
          PROVE  {[hash |-> line, firstSeen |-> 0, created |-> Undated] : line \in lines}
                    \subseteq MigratedRow
        BY <2>1 DEF MigratedRow
    <2> QED
        BY <2>2 DEF MigrationInit
<1>4. MigrationTypeOK
    <2>1. table \in Forms /\ index \in Forms
        BY DEF MigrationInit, Forms
    <2>2. today = 0 /\ step = "closed" /\ stops = 0 /\ torn = FALSE
        BY DEF MigrationInit
    <2>3. today \in 0..MaxDay /\ stops \in 0..MaxStops
        BY <2>2, MigrationAssumption
    <2>4. step \in Steps /\ torn \in BOOLEAN
        BY <2>2, Zenon DEF Steps
    <2> QED
        BY <1>1, <2>1, <2>3, <2>4 DEF MigrationTypeOK
<1>2. index # "absent" => Unique(index, rows)
    BY DEF MigrationInit, Unique
<1>3. Found /\ ~torn
    BY DEF MigrationInit, Found, NoFile, OldFile
<1> QED
    BY <1>2, <1>3, <1>4 DEF MigrationInductive

(***************************************************************************)
(* Rows that differ in their line still do when they get a date.           *)
(***************************************************************************)
LEMMA BackfillKeepsRows ==
    ASSUME Unique("undated", rows), rows \subseteq MigratedRow, Backfill
    PROVE  Unique("undated", rows') /\ RowsAreDated' /\ rows' \subseteq MigratedRow
<1> DEFINE dated(r) == IF r.created = Undated THEN [r EXCEPT !.created = r.firstSeen] ELSE r
<1>1. rows' = {dated(r) : r \in rows}
    BY DEF Backfill
<1>2. ASSUME NEW r \in rows
      PROVE  dated(r) \in MigratedRow /\ dated(r).hash = r.hash /\ dated(r).created # Undated
    BY MigrationAssumption DEF MigratedRow, Undated
<1>3. \A r, s \in rows : r.hash = s.hash => r = s
    BY DEF Unique
<1>4. Unique("undated", rows')
    <2> SUFFICES ASSUME NEW a \in rows', NEW b \in rows', a.hash = b.hash
                 PROVE  a = b
        BY DEF Unique
    <2>1. PICK r \in rows : a = dated(r)
        BY <1>1
    <2>2. PICK s \in rows : b = dated(s)
        BY <1>1
    <2> HIDE DEF dated
    <2> QED
        BY <1>2, <1>3, <2>1, <2>2
<1>5. RowsAreDated' /\ rows' \subseteq MigratedRow
    BY <1>1, <1>2 DEF RowsAreDated, Undated
<1> QED
    BY <1>4, <1>5

(***************************************************************************)
(* Each statement of Open, a stop, an insert and a midnight preserve the   *)
(* inductive invariant.                                                    *)
(***************************************************************************)
LEMMA NextInductive ==
    MigrationInductive /\ [MigrationNext]_migrationVars => MigrationInductive'
<1> SUFFICES ASSUME MigrationInductive, [MigrationNext]_migrationVars
             PROVE  MigrationInductive'
    OBVIOUS
<1> USE MigrationAssumption DEF MigrationInductive
<1>1. CASE OpenFile
    BY <1>1 DEF OpenFile, Goto, fileVars, MigrationTypeOK, Steps, Unique, Found, NoFile, OldFile,
                NewFile, RowsAreDated, TornFile
<1>2. CASE CreateTable
    BY <1>2 DEF CreateTable, Goto, MigrationTypeOK, Steps, Forms, Unique, Found, NoFile, OldFile,
                NewFile, RowsAreDated, TornFile
<1>3. CASE CreateIndex("index", "inspect")
    BY <1>3 DEF CreateIndex, Goto, MigrationTypeOK, Steps, Forms, Unique, Found, NoFile, OldFile,
                NewFile, RowsAreDated, TornFile
<1>4. CASE Inspect
    BY <1>4 DEF Inspect, Goto, fileVars, MigrationTypeOK, Steps, Forms, Unique, Found, OldFile,
                NewFile, RowsAreDated, TornFile
<1>5. CASE AddColumn
    BY <1>5 DEF AddColumn, Goto, MigrationTypeOK, Steps, Forms, Unique, Found, OldFile, TornFile
<1>6. CASE Backfill
    <2>1. ~torn /\ table = "dated" /\ index = "undated" /\ Unique("undated", rows)
        BY <1>6 DEF Backfill, Goto, Found, TornFile
    <2>2. Unique("undated", rows') /\ RowsAreDated' /\ rows' \subseteq MigratedRow
        BY <1>6, <2>1, BackfillKeepsRows DEF MigrationTypeOK
    <2>3. step' = "dropIndex" /\ UNCHANGED <<table, index, today, stops, torn>>
        BY <1>6 DEF Backfill, Goto
    <2> QED
        BY <2>1, <2>2, <2>3 DEF MigrationTypeOK, Steps, Found
<1>7. CASE DropIndex
    BY <1>7 DEF DropIndex, Goto, MigrationTypeOK, Steps, Forms, Found, NewFile, RowsAreDated, TornFile
<1>8. CASE CreateIndex("createIndex", "open")
    BY <1>8 DEF CreateIndex, Goto, MigrationTypeOK, Steps, Forms, Unique, Found,
                NewFile, RowsAreDated, TornFile
<1>9. CASE Stop
    <2>1. UNCHANGED <<fileVars, today>> /\ step' = "closed" /\ stops' \in 0..MaxStops
        BY <1>9 DEF Stop, MigrationTypeOK
    <2>2. MigrationTypeOK'
        BY <1>9, <2>1 DEF Stop, fileVars, MigrationTypeOK, Steps
    <2>3. (index # "absent" => Unique(index, rows))'
        BY <2>1 DEF fileVars, Unique
    <2>4. IF torn' THEN TornFile' ELSE Found'
        BY <1>9, <2>1 DEF Stop, fileVars, MigrationTypeOK, Steps, Found, NoFile, OldFile, NewFile,
                          RowsAreDated, TornFile
    <2> QED
        BY <2>2, <2>3, <2>4
<1>10. ASSUME NEW line \in Lines, Insert(line)
       PROVE  MigrationInductive'
    <2>1. /\ step = "open" /\ rows' = rows \cup {NewRow(line)}
          /\ UNCHANGED <<table, index, today, step, stops, torn>>
        BY <1>10 DEF Insert
    <2>2. NewRow(line) \in MigratedRow /\ NewRow(line).created # Undated
        BY DEF NewRow, MigratedRow, Undated, MigrationTypeOK
    <2>3. index # "absent" => Unique(index, rows')
        BY <1>10, <2>1 DEF Insert, Accepted
    <2> QED
        BY <2>1, <2>2, <2>3 DEF MigrationTypeOK, Unique, Found, NewFile, RowsAreDated, TornFile
<1>11. CASE NextDay
    <2>1. today' \in 0..MaxDay /\ UNCHANGED <<table, index, rows, step, stops, torn>>
        BY <1>11 DEF NextDay, fileVars, MigrationTypeOK
    <2> QED
        BY <2>1 DEF MigrationTypeOK, Unique, Found, NoFile, OldFile, NewFile, RowsAreDated, TornFile
<1>12. CASE UNCHANGED migrationVars
    BY <1>12 DEF migrationVars, MigrationTypeOK, Unique, Found, NoFile, OldFile, NewFile,
                 RowsAreDated, TornFile
<1> QED
    BY <1>1, <1>2, <1>3, <1>4, <1>5, <1>6, <1>7, <1>8, <1>9, <1>10, <1>11, <1>12 DEF MigrationNext

(***************************************************************************)
(* Whatever stops Open, a file that is opened is fully migrated unless     *)
(* migrate was stopped between its first and third statements; then it      *)
(* refuses no error but those it has of another day.                       *)
(***************************************************************************)
THEOREM AlwaysMigrated == MigrationSpec => []MigrationSafe
<1>1. MigrationSpec => []MigrationInductive
    BY InitInductive, NextInductive, PTL DEF MigrationSpec
<1> QED
    BY <1>1, InductiveIsSafe, PTL

-----------------------------------------------------------------------------
(* The configuration and the start.                                        *)

(***************************************************************************)
(* The parts of the inductive invariant.  Nothing is started before the    *)
(* store is open, and what is there by then has passed the validation.     *)
(***************************************************************************)
NothingStartedYet ==
    /\ at \in {"down", "config", "aws", "store"} =>
        workers = <<>> /\ pollers = <<>> /\ unbuilt = {} /\ cancelled = FALSE
    /\ at = "workers" => pollers = <<>>

QueueIsChecked ==
    at \notin {"down", "config"} /\ config.queue = "none" =>
        \A i \in DOMAIN config.apps : NeedsNoQueue(config.apps[i])

(***************************************************************************)
(* OthersRun of the workers and pollers that have been handled so far.     *)
(***************************************************************************)
CanWork(worker) == \A k \in DOMAIN worker.actions : Buildable(worker.actions[k])

WorkersSoFar ==
    /\ UsesQueue => \A i \in DOMAIN workers : workers[i] > 0 <=> CanWork(config.workers[i])
    /\ ~UsesQueue => workers = <<>>

PollersSoFar == \A i \in DOMAIN pollers : pollers[i] # Skipped <=> i \notin unbuilt

NoneLeftOut ==
    /\ at \in {"pollers", "running"} /\ UsesQueue => Len(workers) = Len(config.workers)
    /\ at = "running" => Len(pollers) = Len(config.apps)

StartInv ==
    /\ StartTypeOK
    /\ NothingStartedYet
    /\ QueueIsChecked
    /\ WindowIsTwoIntervals
    /\ ~cancelled => WorkersSoFar /\ PollersSoFar
    /\ NoneLeftOut

LEMMA StartInvImplies == StartInv => OthersRun /\ CloudLogsHaveQueue
  <1> SUFFICES ASSUME StartInv PROVE OthersRun /\ CloudLogsHaveQueue
    OBVIOUS
  <1> USE DEF StartInv
  <1>1. /\ DOMAIN workers = 1..Len(workers) /\ DOMAIN config.workers = 1..Len(config.workers)
        /\ DOMAIN pollers = 1..Len(pollers) /\ DOMAIN config.apps = 1..Len(config.apps)
        /\ Len(pollers) <= Len(config.apps) /\ Len(pollers) \in Nat /\ Len(config.apps) \in Nat
    BY DEF StartTypeOK, Config
  <1>2. OthersRun
    BY <1>1 DEF OthersRun, NoneLeftOut, WorkersSoFar, PollersSoFar, CanWork
  <1>3. ASSUME NEW i \in DOMAIN pollers, pollers[i] # Skipped,
               config.apps[i].source \in {"gcp", "aws"}
        PROVE  config.queue # "none"
    <2>1. i \in DOMAIN config.apps
      BY <1>1, <1>3
    <2>2. at \notin {"down", "config"}
      BY <1>3 DEF NothingStartedYet
    <2> QED
      BY <1>3, <2>1, <2>2 DEF QueueIsChecked, NeedsNoQueue
  <1> QED
    BY <1>2, <1>3 DEF CloudLogsHaveQueue

LEMMA InitStarts == StartInit => StartInv
  <1> SUFFICES ASSUME StartInit PROVE StartInv
    OBVIOUS
  <1>1. NoConfig \in Config
    BY DEF NoConfig, Config
  <1>2. StartTypeOK
    <2>1. workers \in Seq(Nat) /\ pollers \in Seq([tick: Nat, window: Nat])
      BY DEF StartInit
    <2>2. Len(workers) = 0 /\ Len(pollers) = 0 /\ config.workers = <<>> /\ config.apps = <<>>
      BY DEF StartInit, NoConfig
    <2>3. cancelled \in BOOLEAN
      BY Zenon DEF StartInit
    <2> QED
      BY <1>1, <2>1, <2>2, <2>3 DEF StartInit, StartTypeOK
  <1> QED
    BY <1>2 DEF StartInit, StartInv, NothingStartedYet, QueueIsChecked, WindowIsTwoIntervals,
                WorkersSoFar, PollersSoFar, NoneLeftOut, UsesQueue, NoConfig

(***************************************************************************)
(* A step after which main is where it was, and one that ends in "down".   *)
(***************************************************************************)
LEMMA MainStands ==
    ASSUME StartInv, UNCHANGED mainVars, at = "store" \/ UNCHANGED step
    PROVE  StartInv'
  <1>1. StartTypeOK'
    BY DEF StartInv, StartTypeOK, mainVars
  <1> QED
    BY <1>1 DEF StartInv, mainVars, NothingStartedYet, QueueIsChecked, WindowIsTwoIntervals,
                WorkersSoFar, PollersSoFar, NoneLeftOut, UsesQueue

LEMMA GivingUp == ASSUME GiveUp PROVE StartInv'
  <1>1. NoConfig \in Config
    BY DEF NoConfig, Config
  <1>2. StartTypeOK'
    <2>1. workers' \in Seq(Nat) /\ pollers' \in Seq([tick: Nat, window: Nat])
      BY DEF GiveUp
    <2>2. Len(workers') = 0 /\ Len(pollers') = 0 /\ config'.workers = <<>> /\ config'.apps = <<>>
      BY DEF GiveUp, NoConfig
    <2>3. cancelled' \in BOOLEAN
      BY Zenon DEF GiveUp
    <2> QED
      BY <1>1, <2>1, <2>2, <2>3 DEF GiveUp, StartTypeOK
  <1> QED
    BY <1>2 DEF GiveUp, StartInv, NothingStartedYet, QueueIsChecked, WindowIsTwoIntervals,
                WorkersSoFar, PollersSoFar, NoneLeftOut, UsesQueue, NoConfig

LEMMA FunctionIsSeq ==
    ASSUME NEW S, NEW n \in Nat, NEW f \in [1..n -> S]
    PROVE  f \in Seq(S) /\ Len(f) = n
  <1>1. f \in Seq(S)
    BY SeqDef
  <1> QED
    BY <1>1

(***************************************************************************)
(* The defaults change durations only.                                     *)
(***************************************************************************)
LEMMA DefaultsKeepTheRest ==
    ASSUME NEW c \in Config
    PROVE  /\ WithDefaults(c) \in Config
           /\ WithDefaults(c).workers = c.workers /\ WithDefaults(c).queue = c.queue
           /\ DOMAIN WithDefaults(c).apps = DOMAIN c.apps
           /\ \A i \in DOMAIN c.apps : WithDefaults(c).apps[i].source = c.apps[i].source
  <1> DEFINE all == OrElse(c.interval, 1)
             apps == [i \in DOMAIN c.apps |-> WithInterval(c.apps[i], all)]
  <1>1. /\ all \in Int
        /\ c.apps \in Seq(AppConfig) /\ DOMAIN c.apps = 1..Len(c.apps) /\ Len(c.apps) \in Nat
    BY DEF OrElse, Config
  <1>2. ASSUME NEW i \in DOMAIN c.apps
        PROVE  apps[i] \in AppConfig /\ apps[i].source = c.apps[i].source
    <2>1. c.apps[i] \in AppConfig
      BY <1>1
    <2> QED
      BY <1>1, <2>1 DEF WithInterval, OrElse, AppConfig
  <1>3. apps \in Seq(AppConfig)
    <2>1. apps \in [1..Len(c.apps) -> AppConfig]
      BY <1>1, <1>2
    <2> QED
      BY <1>1, <2>1, FunctionIsSeq
  <1>4. WithDefaults(c) = [c EXCEPT !.interval = all, !.apps = apps]
    BY DEF WithDefaults
  <1> HIDE DEF apps, all
  <1>5. WithDefaults(c) \in Config
    BY <1>1, <1>3, <1>4 DEF Config
  <1>6. /\ WithDefaults(c).workers = c.workers /\ WithDefaults(c).queue = c.queue
        /\ WithDefaults(c).apps = apps
    BY <1>4 DEF Config
  <1>7. DOMAIN apps = DOMAIN c.apps
    BY DEF apps
  <1> QED
    BY <1>2, <1>5, <1>6, <1>7

LEMMA ReachingKeeps ==
    ASSUME NEW from, NEW to, StartInv, Reach(from, to), UNCHANGED config,
           from \in {"aws", "store", "workers", "pollers"},
           to \in {"store", "workers", "pollers", "running"},
           from = "aws" <=> to = "store", from = "store" <=> to = "workers",
           to \in {"workers", "pollers", "running"} => step' = "open",
           to \in {"pollers", "running"} /\ UsesQueue => Len(workers) = Len(config.workers),
           to = "running" => Len(pollers) = Len(config.apps)
    PROVE  StartInv'
  <1>1. at = from /\ at' = to /\ UNCHANGED <<config, workers, pollers, unbuilt, cancelled>>
    BY DEF Reach, StartedNothing
  <1>2. StartTypeOK'
    BY <1>1 DEF StartInv, StartTypeOK
  <1>3. NothingStartedYet' /\ QueueIsChecked' /\ NoneLeftOut'
    BY <1>1 DEF StartInv, NothingStartedYet, QueueIsChecked, NoneLeftOut, UsesQueue
  <1>4. WindowIsTwoIntervals' /\ (~cancelled' => WorkersSoFar' /\ PollersSoFar')
    BY <1>1 DEF StartInv, WindowIsTwoIntervals, WorkersSoFar, PollersSoFar, UsesQueue
  <1> QED
    BY <1>2, <1>3, <1>4 DEF StartInv

LEMMA LoadStarts == StartInv /\ Load => StartInv'
  <1> SUFFICES ASSUME StartInv, Load PROVE StartInv'
    OBVIOUS
  <1>1. config' = WithDefaults(config) /\ config \in Config
    BY DEF Load, StartInv, StartTypeOK
  <1>2. at' = "aws" /\ cancelled' = FALSE /\ workers' = <<>> /\ pollers' = <<>> /\ unbuilt' = {}
    BY DEF Load, Reach, StartedNothing, StartInv, NothingStartedYet
  <1>3. StartTypeOK'
    <2>1. workers' \in Seq(Nat) /\ pollers' \in Seq([tick: Nat, window: Nat])
      BY <1>2
    <2>2. Len(workers') = 0 /\ Len(pollers') = 0 /\ cancelled' \in BOOLEAN
      BY <1>2
    <2>3. config' \in Config /\ Len(config'.workers) \in Nat /\ Len(config'.apps) \in Nat
      BY <1>1, DefaultsKeepTheRest DEF Config
    <2> QED
      BY <1>2, <2>1, <2>2, <2>3 DEF StartTypeOK
  <1>4. QueueIsChecked'
    <2>1. config.queue = "none" => \A i \in DOMAIN config.apps : NeedsNoQueue(config.apps[i])
      BY DEF Load, Valid
    <2> QED
      BY <1>1, <2>1, DefaultsKeepTheRest DEF QueueIsChecked, NeedsNoQueue
  <1> QED
    BY <1>2, <1>3, <1>4 DEF StartInv, NothingStartedYet, WindowIsTwoIntervals,
                            WorkersSoFar, PollersSoFar, NoneLeftOut

(***************************************************************************)
(* The next element of a sequence that is worked off: it is appended.      *)
(***************************************************************************)
LEMMA AppendedNext ==
    ASSUME NEW S, NEW done \in Seq(S), NEW e \in S, NEW n \in Nat, Len(done) < n
    PROVE  /\ Append(done, e) \in Seq(S)
           /\ Len(Append(done, e)) = Len(done) + 1 /\ Len(Append(done, e)) <= n
           /\ DOMAIN Append(done, e) = DOMAIN done \cup {Len(done) + 1}
           /\ Len(done) + 1 \notin DOMAIN done
           /\ \A i \in DOMAIN done : Append(done, e)[i] = done[i]
           /\ Append(done, e)[Len(done) + 1] = e
  <1>1. /\ DOMAIN done = 1..Len(done) /\ Len(done) \in Nat
        /\ Append(done, e) \in Seq(S) /\ Len(Append(done, e)) = Len(done) + 1
    OBVIOUS
  <1>2. DOMAIN Append(done, e) = 1..(Len(done) + 1)
    BY <1>1
  <1> QED
    BY <1>1, <1>2

LEMMA WorkerStarts == StartInv /\ StartWorker => StartInv'
  <1> SUFFICES ASSUME StartInv, StartWorker PROVE StartInv'
    OBVIOUS
  <1> DEFINE n == Len(workers) + 1
             w == config.workers[n]
             got == IF ~cancelled /\ CanWork(w) THEN Goroutines(w) ELSE 0
  <1>1. /\ UNCHANGED <<at, config, pollers, unbuilt, cancelled, step>>
        /\ at = "workers" /\ UsesQueue /\ Len(workers) < Len(config.workers)
        /\ workers' = Append(workers, got)
    BY DEF StartWorker, CanWork, NextWorker, migrationVars
  <1>2. /\ workers \in Seq(Nat) /\ config.workers \in Seq(WorkerConfig)
        /\ Len(config.workers) \in Nat /\ Len(workers) \in Nat
    BY DEF StartInv, StartTypeOK, Config
  <1>3. w \in WorkerConfig
    BY <1>1, <1>2
  <1>4. Goroutines(w) \in Nat /\ Goroutines(w) > 0
    BY <1>3 DEF Goroutines, WorkerConfig
  <1>5. got \in Nat /\ (~cancelled => (got > 0 <=> CanWork(w)))
    <2>1. CASE ~cancelled /\ CanWork(w)
      BY <2>1, <1>4
    <2>2. CASE ~(~cancelled /\ CanWork(w))
      <3>1. got = 0
        BY <2>2, Zenon
      <3> QED
        BY <2>2, <3>1
    <2> QED
      BY <2>1, <2>2
  <1> HIDE DEF got
  <1>6. /\ workers' \in Seq(Nat) /\ Len(workers') <= Len(config.workers)
        /\ DOMAIN workers' = DOMAIN workers \cup {n}
        /\ \A i \in DOMAIN workers : workers'[i] = workers[i]
        /\ workers'[n] = got
    BY <1>1, <1>2, <1>5, AppendedNext
  <1>7. StartTypeOK'
    BY <1>1, <1>6 DEF StartInv, StartTypeOK
  <1>8. ~cancelled => WorkersSoFar'
    BY <1>1, <1>5, <1>6 DEF StartInv, WorkersSoFar, UsesQueue
  <1> QED
    BY <1>1, <1>7, <1>8 DEF StartInv, NothingStartedYet, QueueIsChecked, WindowIsTwoIntervals,
                            PollersSoFar, NoneLeftOut

(***************************************************************************)
(* Whichever the next poller is, its ticker and its window agree.          *)
(***************************************************************************)
LEMMA PollerAppended ==
    ASSUME StartInv, at = "pollers", Len(pollers) < Len(config.apps),
           NEW p \in [tick: Nat, window: Nat], pollers' = Append(pollers, p),
           p # Skipped => p.tick > 0 /\ p.window = 2 * p.tick,
           unbuilt' \in {unbuilt, unbuilt \cup {Len(pollers) + 1}},
           ~cancelled => (p # Skipped <=> unbuilt' = unbuilt),
           UNCHANGED <<at, config, workers, cancelled, step>>
    PROVE  StartInv'
  <1> DEFINE n == Len(pollers) + 1
  <1>1. /\ pollers \in Seq([tick: Nat, window: Nat])
        /\ Len(config.apps) \in Nat /\ unbuilt \subseteq DOMAIN pollers
    BY DEF StartInv, StartTypeOK, Config
  <1>2. /\ pollers' \in Seq([tick: Nat, window: Nat]) /\ Len(pollers') <= Len(config.apps)
        /\ DOMAIN pollers' = DOMAIN pollers \cup {n} /\ n \notin DOMAIN pollers
        /\ \A i \in DOMAIN pollers : pollers'[i] = pollers[i]
        /\ pollers'[n] = p
    BY <1>1, AppendedNext
  <1>3. StartTypeOK'
    BY <1>1, <1>2 DEF StartInv, StartTypeOK
  <1>4. WindowIsTwoIntervals'
    BY <1>2 DEF StartInv, WindowIsTwoIntervals, Skipped
  <1>5. ~cancelled => PollersSoFar'
    <2> SUFFICES ASSUME ~cancelled, NEW i \in DOMAIN pollers'
                 PROVE  pollers'[i] # Skipped <=> i \notin unbuilt'
      BY DEF PollersSoFar
    <2>1. CASE i = n
      BY <1>1, <1>2, <2>1
    <2>2. CASE i # n
      <3>1. i \in DOMAIN pollers /\ (i \in unbuilt' <=> i \in unbuilt)
        BY <1>2, <2>2
      <3> QED
        BY <1>2, <3>1 DEF StartInv, PollersSoFar
    <2> QED
      BY <2>1, <2>2
  <1> QED
    BY <1>3, <1>4, <1>5 DEF StartInv, NothingStartedYet, QueueIsChecked, WorkersSoFar,
                            NoneLeftOut, UsesQueue

LEMMA PollerStarts == StartInv /\ StartPoller => StartInv'
  <1> SUFFICES ASSUME StartInv, StartPoller PROVE StartInv'
    OBVIOUS
  <1> DEFINE app == config.apps[Len(pollers) + 1]
             p == IF cancelled THEN Skipped
                  ELSE [tick |-> Interval(app), window |-> Lookback(app)]
  <1>1. /\ UNCHANGED <<at, config, workers, unbuilt, cancelled, step>>
        /\ at = "pollers" /\ Len(pollers) < Len(config.apps)
        /\ pollers' = Append(pollers, p)
    BY DEF StartPoller, NextApp, migrationVars
  <1>2. app \in AppConfig
    <2>1. Len(pollers) \in Nat /\ config.apps \in Seq(AppConfig)
      BY DEF StartInv, StartTypeOK, Config
    <2> QED
      BY <1>1, <2>1
  <1>3. /\ Interval(app) \in Nat /\ Interval(app) > 0
        /\ Lookback(app) \in Nat /\ Lookback(app) = 2 * Interval(app)
    BY <1>2 DEF Interval, Lookback, AppConfig
  <1>4. CASE cancelled
    <2>1. p = Skipped /\ Skipped \in [tick: Nat, window: Nat]
      BY <1>4 DEF Skipped
    <2> QED
      BY <1>1, <1>4, <2>1, PollerAppended
  <1>5. CASE ~cancelled
    <2>1. p = [tick |-> Interval(app), window |-> Lookback(app)]
      BY <1>5
    <2>2. p \in [tick: Nat, window: Nat] /\ p.tick > 0 /\ p.window = 2 * p.tick /\ p # Skipped
      BY <1>3, <2>1 DEF Skipped
    <2> HIDE DEF p
    <2> QED
      BY <1>1, <1>5, <2>2, PollerAppended
  <1> QED
    BY <1>4, <1>5

LEMMA SourceSkipped == StartInv /\ SkipSource => StartInv'
  <1> SUFFICES ASSUME StartInv, SkipSource PROVE StartInv'
    OBVIOUS
  <1>1. Len(pollers) + 1 \notin unbuilt
    BY DEF StartInv, StartTypeOK
  <1>2. Skipped \in [tick: Nat, window: Nat]
    BY DEF Skipped
  <1>3. /\ UNCHANGED <<at, config, workers, cancelled, step>>
        /\ at = "pollers" /\ Len(pollers) < Len(config.apps)
        /\ pollers' = Append(pollers, Skipped)
        /\ unbuilt' = unbuilt \cup {Len(pollers) + 1} /\ unbuilt' # unbuilt
    BY <1>1 DEF SkipSource, migrationVars
  <1> QED
    BY <1>2, <1>3, PollerAppended

(***************************************************************************)
(* After a signal nothing runs, and nothing is claimed of what has started. *)
(***************************************************************************)
LEMMA SignalStops == StartInv /\ Signal => StartInv'
  <1> SUFFICES ASSUME StartInv, Signal PROVE StartInv'
    OBVIOUS
  <1>1. /\ workers \in Seq(Nat) /\ pollers \in Seq([tick: Nat, window: Nat])
        /\ DOMAIN workers = 1..Len(workers) /\ DOMAIN pollers = 1..Len(pollers)
        /\ Len(workers) \in Nat /\ Len(pollers) \in Nat
    BY DEF StartInv, StartTypeOK
  <1>2. /\ workers' = [i \in 1..Len(workers) |-> 0]
        /\ pollers' = [i \in 1..Len(pollers) |-> Skipped]
        /\ at \in {"workers", "pollers"} /\ cancelled' = TRUE
        /\ UNCHANGED <<at, config, unbuilt, step>>
    BY <1>1 DEF Signal, migrationVars
  <1>3. /\ workers' \in [1..Len(workers) -> Nat]
        /\ pollers' \in [1..Len(pollers) -> [tick: Nat, window: Nat]]
    BY <1>2 DEF Skipped
  <1>4. /\ workers' \in Seq(Nat) /\ pollers' \in Seq([tick: Nat, window: Nat])
        /\ Len(workers') = Len(workers) /\ Len(pollers') = Len(pollers)
        /\ DOMAIN pollers' = DOMAIN pollers
    <2>1. workers' \in Seq(Nat) /\ Len(workers') = Len(workers)
      BY <1>1, <1>3, FunctionIsSeq
    <2>2. pollers' \in Seq([tick: Nat, window: Nat]) /\ Len(pollers') = Len(pollers)
      <3> DEFINE PollerRecord == [tick: Nat, window: Nat]
      <3>1. pollers' \in [1..Len(pollers) -> PollerRecord]
        BY <1>3
      <3> HIDE DEF PollerRecord
      <3>2. pollers' \in Seq(PollerRecord) /\ Len(pollers') = Len(pollers)
        BY <1>1, <3>1, FunctionIsSeq
      <3> QED
        BY <3>2 DEF PollerRecord
    <2> QED
      BY <1>1, <1>2, <2>1, <2>2
  <1>5. StartTypeOK'
    BY <1>2, <1>4 DEF StartInv, StartTypeOK
  <1>6. NothingStartedYet'
    <2>1. at = "workers" => pollers' = <<>>
      BY <1>1, <1>2, <1>4 DEF StartInv, NothingStartedYet
    <2> QED
      BY <1>2, <2>1 DEF NothingStartedYet
  <1>7. WindowIsTwoIntervals'
    BY <1>2 DEF WindowIsTwoIntervals
  <1> QED
    BY <1>2, <1>4, <1>5, <1>6, <1>7 DEF StartInv, QueueIsChecked, NoneLeftOut, UsesQueue

LEMMA NextStarts == StartInv /\ [StartNext]_startVars => StartInv'
  <1> SUFFICES ASSUME StartInv, [StartNext]_startVars PROVE StartInv'
    OBVIOUS
  <1>1. CASE Launch
    <2>1. /\ at' = "config" /\ config' \in Config /\ UNCHANGED <<workers, pollers, unbuilt, cancelled>>
          /\ workers = <<>> /\ pollers = <<>> /\ unbuilt = {} /\ cancelled = FALSE
      BY <1>1, StartupAssumption
         DEF Launch, Reach, StartedNothing, StartInv, NothingStartedYet
    <2>2. StartTypeOK'
      <3>1. Len(config'.workers) \in Nat /\ Len(config'.apps) \in Nat
        BY <2>1 DEF Config
      <3> QED
        BY <2>1, <3>1 DEF StartInv, StartTypeOK
    <2> QED
      BY <2>1, <2>2 DEF StartInv, NothingStartedYet, QueueIsChecked, WindowIsTwoIntervals,
                        WorkersSoFar, PollersSoFar, NoneLeftOut
  <1>2. CASE Load
    BY <1>2, LoadStarts
  <1>3. CASE LoadFails
    BY <1>3, GivingUp DEF LoadFails
  <1>4. CASE LoadAWS
    BY <1>4, ReachingKeeps DEF LoadAWS
  <1>5. CASE OpenStore
    BY <1>5, MainStands DEF OpenStore
  <1>6. CASE StoreOpened
    BY <1>6, ReachingKeeps DEF StoreOpened, migrationVars
  <1>7. CASE StartWorker
    BY <1>7, WorkerStarts
  <1>8. CASE WorkersStarted
    <2>1. at = "workers" /\ UNCHANGED step /\ step = "open"
      BY <1>8 DEF WorkersStarted, Reach, migrationVars, StartInv, StartTypeOK
    <2> QED
      BY <1>8, <2>1, ReachingKeeps DEF WorkersStarted
  <1>9. CASE StartPoller
    BY <1>9, PollerStarts
  <1>10. CASE SkipSource
    BY <1>10, SourceSkipped
  <1>11. CASE ShowTUI
    <2>1. at = "pollers" /\ UNCHANGED step /\ step = "open"
      BY <1>11 DEF ShowTUI, Reach, migrationVars, StartInv, StartTypeOK
    <2>2. UsesQueue => Len(workers) = Len(config.workers)
      BY <2>1 DEF StartInv, NoneLeftOut
    <2> QED
      BY <1>11, <2>1, <2>2, ReachingKeeps DEF ShowTUI
  <1>12. CASE Signal
    BY <1>12, SignalStops
  <1>13. CASE Exit
    BY <1>13, GivingUp DEF Exit
  <1>14. CASE Midnight
    BY <1>14, MainStands DEF Midnight, NextDay
  <1>15. ASSUME NEW line \in Lines, Serve(line) PROVE StartInv'
    BY <1>15, MainStands DEF Serve, Insert
  <1>16. CASE UNCHANGED startVars
    BY <1>16, MainStands DEF startVars, migrationVars, mainVars
  <1> QED
    BY <1>1, <1>2, <1>3, <1>4, <1>5, <1>6, <1>7, <1>8, <1>9, <1>10, <1>11, <1>12, <1>13, <1>14,
       <1>15, <1>16 DEF StartNext, MainStep

LEMMA AlwaysStartInv == StartSpec => []StartInv
  BY InitStarts, NextStarts, PTL DEF StartSpec

-----------------------------------------------------------------------------
(***************************************************************************)
(* Main has the store open once it starts workers and pollers, with as     *)
(* many of them as the file lists at the most.                             *)
(***************************************************************************)
THEOREM StartTyped == StartSpec => []StartTypeOK
  <1>1. StartInv => StartTypeOK
    BY DEF StartInv
  <1> QED
    BY <1>1, AlwaysStartInv, PTL

(***************************************************************************)
(* main.go, config.go, poller.go: whatever durations are in the file, the  *)
(* window of a poll is two intervals of its ticker.                        *)
(***************************************************************************)
THEOREM EveryWindowOverlaps == StartSpec => []WindowIsTwoIntervals
  <1>1. StartInv => WindowIsTwoIntervals
    BY DEF StartInv
  <1> QED
    BY <1>1, AlwaysStartInv, PTL

(***************************************************************************)
(* main.go: with any number of workers and applications, a worker or a     *)
(* source that cannot be built takes no other one with it.                 *)
(***************************************************************************)
THEOREM FailuresStayAlone == StartSpec => []OthersRun
  BY AlwaysStartInv, StartInvImplies, PTL

(***************************************************************************)
(* config.go: no log of a cloud is read without a queue for its tickets.   *)
(***************************************************************************)
THEOREM NoCloudWithoutQueue == StartSpec => []CloudLogsHaveQueue
  BY AlwaysStartInv, StartInvImplies, PTL

(***************************************************************************)
(* main.go calls Open as StoreMigration does, and stops it as that does:   *)
(* the file is safe in every start of the program, too.                    *)
(***************************************************************************)
LEMMA StartRefinesMigration == [StartNext]_startVars => [MigrationNext]_migrationVars
  BY DEF StartNext, MainStep, startVars, MigrationNext, Launch, Load, LoadFails, LoadAWS, OpenStore,
         StoreOpened, StartWorker, WorkersStarted, StartPoller, SkipSource, ShowTUI, Signal, Exit,
         Serve, Midnight

THEOREM StartsMigrated == StartSpec => []MigrationSafe
  <1>1. StartInit => MigrationInit
    BY DEF StartInit
  <1>2. StartSpec => MigrationSpec
    BY <1>1, StartRefinesMigration, PTL DEF StartSpec, MigrationSpec
  <1> QED
    BY <1>2, AlwaysMigrated, PTL
=============================================================================
