------------------------------ MODULE Startup ------------------------------
(***************************************************************************)
(* From the start of the program to the TUI (cmd/sentinel/main.go): the    *)
(* configuration with its validation and defaults (internal/config), the   *)
(* store (StoreMigration), the workers and their actions, the sources and  *)
(* pollers, and a signal on the way.  The program may be stopped anywhere  *)
(* and started again with another configuration and what is in the file.   *)
(*                                                                         *)
(* Durations are in units of 30 s.  Regions, models, end points and        *)
(* whatever else is handed on as it is are left out.                       *)
(***************************************************************************)
EXTENDS StoreMigration, Sequences, Integers

CONSTANT Configs    \* what the YAML file may say

Sources == {"gcp", "aws", "mock", "file"}

(* given: the field that the source requires is there.  target is the url  *)
(* of a webhook or the command of an agent.                                *)
AppConfig == [name: STRING, source: STRING, given: BOOLEAN, interval: Int]
ActionConfig == [type: STRING, target: BOOLEAN, mode: STRING]
WorkerConfig == [app: STRING, concurrency: Int, actions: Seq(ActionConfig)]
Config == [apps: Seq(AppConfig), workers: Seq(WorkerConfig), interval: Int,
           queue: {"none", "file", "sqs"}]

ASSUME StartupAssumption == Configs \subseteq Config

NoConfig == [apps |-> <<>>, workers |-> <<>>, interval |-> 0, queue |-> "none"]

VARIABLES
    at,         \* how far main has come
    config,
    workers,    \* for each worker handled so far, how many goroutines it got
    pollers,    \* for each application handled so far, its poller or Skipped
    unbuilt,    \* history: the applications whose source could not be built
    cancelled   \* the context is

mainVars == <<at, config, workers, pollers, unbuilt, cancelled>>
startVars == <<migrationVars, mainVars>>

Skipped == [tick |-> 0, window |-> 0]

StartTypeOK ==
    /\ at \in {"down", "config", "aws", "store", "workers", "pollers", "running"}
    /\ config \in Config
    /\ workers \in Seq(Nat) /\ Len(workers) <= Len(config.workers)
    /\ pollers \in Seq([tick: Nat, window: Nat]) /\ Len(pollers) <= Len(config.apps)
    /\ unbuilt \subseteq DOMAIN pollers
    /\ cancelled \in BOOLEAN
    /\ at \in {"workers", "pollers", "running"} => step = "open"

StartInit ==
    /\ MigrationInit
    /\ at = "down"
    /\ config = NoConfig
    /\ workers = <<>> /\ pollers = <<>> /\ unbuilt = {}
    /\ cancelled = FALSE

-----------------------------------------------------------------------------
(* config.Load                                                             *)
Complete(app) ==
    /\ app.name # ""
    /\ app.source \in Sources
    /\ app.source # "mock" => app.given

NeedsNoQueue(app) == app.source \in {"mock", "file"}

(* Mutant: the last application decides whether a queue is needed.         *)
ValidByTheLast(c) ==
    /\ c.apps # <<>>
    /\ \A i \in DOMAIN c.apps : Complete(c.apps[i])
    /\ c.queue = "none" => NeedsNoQueue(c.apps[Len(c.apps)])

Valid(c) ==
    /\ c.apps # <<>>
    /\ \A i \in DOMAIN c.apps : Complete(c.apps[i])
    /\ c.queue = "none" => \A i \in DOMAIN c.apps : NeedsNoQueue(c.apps[i])

OrElse(duration, default) == IF duration = 0 THEN default ELSE duration

WithInterval(app, default) == [app EXCEPT !.interval = OrElse(@, default)]

WithDefaults(c) ==
    LET all == OrElse(c.interval, 1)
    IN [c EXCEPT !.interval = all,
                 !.apps = [i \in DOMAIN c.apps |-> WithInterval(c.apps[i], all)]]

StartedNothing == UNCHANGED <<workers, pollers, unbuilt, cancelled>>
Reach(from, to) == at = from /\ at' = to /\ StartedNothing

Launch ==
    /\ Reach("down", "config")
    /\ config' \in Configs
    /\ UNCHANGED migrationVars

Load ==
    /\ Reach("config", "aws")
    /\ Valid(config)
    /\ config' = WithDefaults(config)
    /\ UNCHANGED migrationVars

GiveUp ==
    /\ at' = "down"
    /\ config' = NoConfig
    /\ workers' = <<>> /\ pollers' = <<>> /\ unbuilt' = {}
    /\ cancelled' = FALSE

LoadFails ==
    /\ at = "config"
    /\ ~Valid(config)
    /\ GiveUp
    /\ UNCHANGED migrationVars

LoadAWS == Reach("aws", "store") /\ UNCHANGED <<config, migrationVars>>

(* store.Open                                                              *)
OpenStore ==
    /\ at = "store"
    /\ \/ OpenFile \/ CreateTable \/ CreateIndex("index", "inspect") \/ Inspect
       \/ AddColumn \/ Backfill \/ DropIndex \/ CreateIndex("createIndex", "open")
    /\ UNCHANGED mainVars

-----------------------------------------------------------------------------
(* Mutant: main goes on although Open has not ended well.                  *)
StoreNotOpened ==
    /\ Reach("store", "workers")
    /\ UNCHANGED <<config, migrationVars>>

(* The classifier and the publisher are chosen, the context is made.       *)
StoreOpened ==
    /\ Reach("store", "workers")
    /\ step = "open"
    /\ UNCHANGED <<config, migrationVars>>

(* BuildAction                                                             *)
Buildable(action) ==
    \/ action.type = "webhook" /\ action.target
    \/ action.type = "cli_agent" /\ action.target /\ action.mode \in {"", "arg", "stdin"}

Goroutines(w) == IF w.concurrency <= 0 THEN 1 ELSE w.concurrency

UsesQueue == config.workers # <<>> /\ config.queue # "file"
NextWorker == config.workers[Len(workers) + 1]

(* Mutant: a worker that cannot be built ends the loop.                    *)
StartWorkerOrNone ==
    /\ at = "workers"
    /\ UsesQueue
    /\ Len(workers) < Len(config.workers)
    /\ workers' = IF \A i \in DOMAIN NextWorker.actions : Buildable(NextWorker.actions[i])
                  THEN Append(workers, IF cancelled THEN 0 ELSE Goroutines(NextWorker))
                  ELSE workers \o [i \in 1..(Len(config.workers) - Len(workers)) |-> 0]
    /\ UNCHANGED <<at, config, pollers, unbuilt, cancelled, migrationVars>>

(* worker.New and go w.Run: an action that cannot be built is logged.  The *)
(* goroutines of a context that is cancelled end at once.                  *)
StartWorker ==
    /\ at = "workers"
    /\ UsesQueue
    /\ Len(workers) < Len(config.workers)
    /\ workers' = Append(workers,
            IF ~cancelled /\ \A i \in DOMAIN NextWorker.actions : Buildable(NextWorker.actions[i])
            THEN Goroutines(NextWorker) ELSE 0)
    /\ UNCHANGED <<at, config, pollers, unbuilt, cancelled, migrationVars>>

(* Mutant: main waits for the workers although none is to be started.      *)
WorkersAwaited ==
    /\ Reach("workers", "pollers")
    /\ Len(workers) = Len(config.workers)
    /\ UNCHANGED <<config, migrationVars>>

WorkersStarted ==
    /\ Reach("workers", "pollers")
    /\ UsesQueue => Len(workers) = Len(config.workers)
    /\ UNCHANGED <<config, migrationVars>>

(* The ticker of Poller.Run and the window of Poller.poll.                 *)
Interval(app) == IF app.interval <= 0 THEN 1 ELSE app.interval

(* Mutant: only a duration of zero is replaced.                            *)
LookbackOfZero(app) == IF app.interval = 0 THEN 2 ELSE 2 * app.interval

Lookback(app) == IF app.interval <= 0 THEN 2 ELSE 2 * app.interval

NextApp == config.apps[Len(pollers) + 1]

(* buildSource, poller.New and go p.Run                                    *)
StartPoller ==
    /\ at = "pollers"
    /\ Len(pollers) < Len(config.apps)
    /\ pollers' = Append(pollers,
            IF cancelled THEN Skipped
            ELSE [tick |-> Interval(NextApp), window |-> Lookback(NextApp)])
    /\ UNCHANGED <<at, config, workers, unbuilt, cancelled, migrationVars>>

(* No client for Cloud Logging, or no such file or none with a line: the   *)
(* error is logged.                                                        *)
SkipSource ==
    /\ at = "pollers"
    /\ Len(pollers) < Len(config.apps)
    /\ NextApp.source \in {"gcp", "file"}
    /\ pollers' = Append(pollers, Skipped)
    /\ unbuilt' = unbuilt \cup {Len(pollers) + 1}
    /\ UNCHANGED <<at, config, workers, cancelled, migrationVars>>

ShowTUI ==
    /\ Reach("pollers", "running")
    /\ Len(pollers) = Len(config.apps)
    /\ UNCHANGED <<config, migrationVars>>

-----------------------------------------------------------------------------
(* SIGINT or SIGTERM before the TUI has its own handler: NotifyContext     *)
(* takes it and cancels the context, the goroutines end, main goes on.     *)
Signal ==
    /\ at \in {"workers", "pollers"}
    /\ cancelled' = TRUE
    /\ workers' = [i \in DOMAIN workers |-> 0]
    /\ pollers' = [i \in DOMAIN pollers |-> Skipped]
    /\ UNCHANGED <<at, config, unbuilt, migrationVars>>

(* The user quits, a call of main returns an error, or a crash.            *)
Exit ==
    /\ at # "down"
    /\ GiveUp
    /\ IF step = "closed" THEN UNCHANGED migrationVars ELSE Stop

(* A poller upserts, also while main still starts the others.              *)
Serve(line) ==
    /\ \E i \in DOMAIN pollers : pollers[i] # Skipped
    /\ Insert(line)
    /\ UNCHANGED mainVars

Midnight == NextDay /\ UNCHANGED mainVars

MainStep ==
    \/ Load \/ LoadFails \/ LoadAWS \/ OpenStore \/ StoreOpened
    \/ StartWorker \/ WorkersStarted \/ StartPoller \/ SkipSource \/ ShowTUI

StartNext ==
    \/ MainStep
    \/ Launch \/ Signal \/ Exit \/ Midnight
    \/ \E line \in Lines : Serve(line)

(* The statements of main follow on each other.                            *)
StartSpec == StartInit /\ [][StartNext]_startVars /\ WF_startVars(MainStep)

-----------------------------------------------------------------------------
(***************************************************************************)
(* poller.go asks for the entries of two intervals, so that a failed poll  *)
(* loses nothing (module LogDedup): that is so for every duration in the   *)
(* file, negative or left out, for all applications or for one, although   *)
(* the ticker, the window and the defaults of config.go each look at it    *)
(* for themselves.                                                         *)
(***************************************************************************)
WindowIsTwoIntervals ==
    \A i \in DOMAIN pollers :
        pollers[i] # Skipped => pollers[i].tick > 0 /\ pollers[i].window = 2 * pollers[i].tick

(***************************************************************************)
(* main.go logs a worker or a source that cannot be built and continues:   *)
(* it takes no other one with it.  Without a signal on the way, all others *)
(* run behind the TUI, the workers unless the queue is a file.             *)
(***************************************************************************)
OthersRun ==
    at = "running" /\ ~cancelled =>
        /\ UsesQueue => \A i \in DOMAIN config.workers :
            workers[i] > 0 <=> LET actions == config.workers[i].actions
                               IN \A k \in DOMAIN actions : Buildable(actions[k])
        /\ ~UsesQueue => workers = <<>>
        /\ \A i \in DOMAIN config.apps : pollers[i] # Skipped <=> i \notin unbuilt

(***************************************************************************)
(* config.go: "aws.sqs_queue_url is required", unless nothing is fetched   *)
(* from a cloud: where a poller reads the log of a real application, its   *)
(* tickets have a queue to go to.                                          *)
(***************************************************************************)
CloudLogsHaveQueue ==
    \A i \in DOMAIN pollers :
        pollers[i] # Skipped /\ config.apps[i].source \in {"gcp", "aws"} => config.queue # "none"

(***************************************************************************)
(* The start ends: with the TUI or with an error, whatever an earlier      *)
(* start has left in the file and whichever sources cannot be built.       *)
(***************************************************************************)
StartEnds == at # "down" ~> at \in {"down", "running"}
=============================================================================
