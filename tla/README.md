# Log Sentinel in TLA+

Log Sentinel polls application logs, classifies each error, keeps one ticket per
error and day in SQLite, publishes new tickets to SQS, and has workers act on
them (a webhook, a CLI agent) while a terminal UI shows all of it. This directory
holds a model of that program, the TLC runs that check it on small instances, and
TLAPS proofs of its main safety properties for instances of every size.

All line numbers refer to the repository. `PROJECT.json` maps every definition to
the lines it stands for.

    tlc -workers 2 -config Sentinel_faults.cfg MCSentinel      one run
    tlapm SentinelProofs.tla                                   one module's proofs

## 1. The system

### Components

| component | code | state | operations | correct when |
|---|---|---|---|---|
| main | `cmd/sentinel/main.go` | context, two pause flags, channels | start, quit, crash, restart | what cannot be started takes nothing else with it; goroutines that die between two steps leave nothing half done that cannot be explained |
| configuration | `internal/config` | none after start-up | load, validate, default | what it lets pass can run |
| log sources | `internal/sources` | the file source's lines | `FetchSince` | every entry is fetched by some poll |
| classifier | `internal/classifier` | none | `Classify` | the same error has the same hash |
| poller | `internal/poller` | ticker, current entry | `Run`, `poll` | each error is inserted once, published once, never lost |
| store | `internal/store` | table `tickets`, unique index | `Open`/`migrate`, `Upsert`, `UpdateStatus`, `UpdateSQSMessageID` | one row per (app, hash, date); a row's status is explained by what happened to its ticket; an old file is migrated or left as it was |
| SQS publisher, the queue | `internal/queue/sqs.go`, external | messages, visibility, receipt handles | send, receive, delete, change visibility | at-least-once |
| mock queue | `internal/queue/mock.go` | a file | append | chosen only where no cloud log needs a queue |
| queue statistics | `internal/queue/stats.go` | none | poll every 10 s | the TUI has the latest |
| worker | `internal/worker` | per goroutine: message and next action | `loop`, `process` | a message is acted on by its own worker, one at a time, and acknowledged only after the work |
| actions | `internal/worker/action.go` | a child process | webhook, agent | ends in its time, or nobody else starts meanwhile |
| TUI model | `internal/tui/model.go` | lists, index, cursor, filters, search, detail | `Update`, keys, commands on channels | each list shows its history, the tickets each once, at the status it has |
| TUI rendering | `internal/tui/views.go` | none | | the selected ticket is in the panel |
| log fan-out | `internal/tui/sentinellog.go` | none | `Handle` | never waits |
| example applications | `examples` | | | not part of the program |

### Interactions

* A poller goroutine per application calls source, classifier, store and publisher
  one after another. Several pollers may have the same application name: nothing
  in `config.validate` forbids it.
* The store has one connection (`SetMaxOpenConns(1)`), so that each of its calls
  is atomic. Between two calls any other goroutine may write the same row.
* All applications share one queue. The worker of an application has
  `concurrency` goroutines; a message of another application is made visible again.
* Pollers and workers write `status` without a condition on what they replace.
* Pollers, workers, the statistics and the logger tell the TUI over six buffered
  channels that drop when full; one command of the TUI waits on each.
* `q` cancels the context and `main` returns without waiting for any goroutine; an
  agent that a worker started may outlive both.

### What is hard

Steps of pollers, worker goroutines and the queue in any order; crashes between
the commit of a row and its publication; errors that do not say whether the call
took effect; redelivery while the first worker is still at it; status writes that
are lost; midnight between two fetches of one entry; a ticker that drops ticks; a
migration stopped half-way; notifications that overtake each other; timeouts of
actions, of visibility and of the long poll that must fit into each other. `PROJECT.json`
lists these hazards at their lines, each with the properties that would notice.

## 2. The modules

    Process ─────┬─ Poller ─┐
    TicketStore ─┤          ├─ Sentinel ──────┬─ LiveView
    TicketQueue ─┴─ Worker ─┘   TicketBoard ──┘
    TicketDelivery (what Sentinel implements)
    TicketStore ─── LogDedup                    (a poller in time)
    WorkerClock                                 (a worker in time)
    StoreMigration ─ Startup                    (main)
    Panels                                      (the other feeds of the TUI)
    Lists, used by TicketBoard and Panels

The proofs are in modules of their own, each of which extends the module it is about:

    SentinelProofs ── PipelineProofs ── LiveViewProofs      WorkerClockProofs
                                             │              StartupProofs
                        PanelsProofs ── ListProofs          LogDedupProofs

`MCSentinel`, `MCWorkerClock`, `MCLogDedup`, `MCLiveView`, `MCPanels` and `MCStartup`
hold the values of constants and the symmetry sets of the runs, and nothing else.

**Process.** `ctxDone` is the context of `main.go:97`, `paused` the two
`atomic.Bool`s. `CancelContext` and `RestartProcess` are two actions: goroutines
run on between them, as they do while `main` returns. `Faults` is a set of kinds of
failure, so that a run can ask what holds with which. A call that starts with a
cancelled context fails (`CallEnds`).

**TicketStore.** `tickets` is the sequence of rows; a position is the id. `Upsert`
is one transaction with the three outcomes `InsertTicket`, `SkipTicket` (a done
row) and `CountTicket`. `today` is the UTC date that `Upsert` reads; `Midnight` may
come between any two steps. `stranded` is a history variable: the rows whose last
status write was lost, or whose poller was stopped before it settled them.

**TicketQueue.** SQS, external: a message is visible, in flight or deleted, and
remembers whose receipt handle is the newest. A call with an older handle may or
may not take effect.

**Poller.** One action for each call of `poll`: `UpsertNew`/`Skipped`/`Counted`,
`PublishOK`/`PublishFails`, `RecordMessageId`/`MarkPending`, `Notify`. A failing
`SendMessage` may have reached the queue (fault `accepted`). Fetching and
classification are an entry with any line or no entry; LogDedup has their details.

**Worker.** One action for each call of `loop` and `process`. `BeginReceive` reads
context and pause flag, and the long poll ends in an action of its own. `StartAction`
and `ActionOK`/`ActionFails` are separate, since an action takes minutes. `ran`
is a history variable: which actions completed for which message. Status writes,
deletions and visibility changes may fail, which the code only logs.

**Sentinel.** The composition, with the expiry of visibility, the user, the clock
and the process as further actions; its properties, the inductive invariant
`Consistent`, the refinement mapping and the fairness.

**WorkerClock.** The same goroutines of one worker in time. Every wait (the long poll,
the visibility timeout, the timeouts of the two kinds of action, the pauses, the calls
in between) counts down, and `Tick` must wait for what is due, so that a deadline is
met. `AgentLeavesProcess` is `cmd.Run` without a `WaitDelay`: an agent that exits or is
killed while a process of its own holds the output keeps the goroutine for as long as
that process likes. `Stop` leaves agents behind in `orphans`. A failed
`changeVisibility`, a late one, and one with an old handle are `BackOff` with or without
effect. Rows, malformed messages and messages of others are in Worker. `pausedFor`,
`overlong` and `rested` are history variables.

**TicketDelivery.** What the pipeline promises of an error, without goroutines,
rows or handles: raised once, sent at most once, closed or removed only after the
work. A closed error may be reopened, since status writes are unconditional.

**LogDedup.** One poller in time, second by second: the ticker with its channel of
one tick, the window of two intervals, the four sources, the fingerprint as the
parts of an entry it depends on (the error, and the time stamp or not), and the
`Upsert` of TicketStore. `source` is the kind of the application, fixed at the start;
`FetchAWS`/`FetchGCP` return what the log services have, and the file and mock sources
generate entries. While `paused`, which `PressPause` toggles, a tick is taken without a
poll. `setbacks` and `slowest` are history variables: how many calls failed and polls
were skipped in a pause, and how long the longest poll took.

**TicketBoard, LiveView.** `updateTicket`, `filteredTickets` with its three filters, the
keys of the Tickets tab and the worker events, over the pipeline of Sentinel with its
two channels. `Update` is one goroutine, so a message is one step, and the two channels
are read in any order. Of the rendering it has the lines of the list: `VisibleItems` is
what `model.go` reckons with, `Drawn` what `renderTicketList` and `padToHeight` leave.
`overtaken` is a history variable: the tickets a count of which was sent to the TUI while
the poller that had inserted them was still to notify.

**Lists.** `Passing`, the pass over a list by which `filteredTickets`, `filteredLogs`,
`filteredSentinelLines` and the events of one ticket keep what a filter lets through.

**Panels.** The other channels and tabs: what each channel accepts, the command that waits
on it in a goroutine of its own (`TakeItem`), the bounded lists, statuses and counters
that `Update` keeps, and the Logs, Workers and Sentinel tabs with their filters, the
search and every key. `sent`, what each channel accepted, is a history variable.

**StoreMigration.** `Open` and `migrate` statement by statement, from no file or
from a file of the older version, with a stop after any statement, and then the
`Upsert`s of some days. What the older version looked like is inferred from the
statements that convert it.

**Startup.** `main` from the command line to the TUI, with `config.Load`, `validate` and
`applyDefaults`, the statements of StoreMigration, `worker.New` with `BuildAction`,
`buildSource`, and the durations of each poller. A signal, an exit or a crash may come
anywhere, and the next start has another configuration and what is left of the file.

## 3. The runs

### Runs that must pass

| run | states | instance | shows |
|---|---|---|---|
| `faults` | 882,000 | two pollers of one name, two goroutines, two actions to a ticket, every fault, a restart | `Consistent`, `OneMessagePerError`, `DoneMeansWorked`, `DeletedOnlyAfterWork`; the pipeline implements TicketDelivery (`ImplementsDelivery`) |
| `backed` | 1,588,000 | across midnight, failing rows, publishing and actions, no overrun, a restart, the user pausing the workers | `OpenTicketsAreQueued`, `RecordedIdHasMessage`, `SequentialPerTicket`, `AcknowledgedIsFinal`; `OneMessagePerError` of each of two days |
| `live` | 3,700 | two applications on one queue, a malformed message, failing actions, publishing and calls, fairness | `RightWorkerActs`, and `DeletedOnlyAfterWork` when messages are given back; every ticket is done and its message gone, or it is pending since it could not be published; the malformed message is discarded (`EveryTicketIsSettled`) |
| `clock` | 713,000 | two goroutines, the webhook and the agent of the documentation, calls of up to 10 s, a stop that leaves agents behind, the user pausing | `OneAtATime`, `AttemptsApart`, `PauseTakesEffect` |
| `window` | 2,893,000 | each of the four sources; one failure, one poll skipped in a pause, or polls as long as an interval; across midnight | `NothingIsMissed`, `CountedAtMostThrice` |
| `board` | 2,747,000 | two pollers of one name, two actions to a ticket, more listings than the board of two has room for, full channels, a restart | `ListedTwiceOnlyIfOvertaken`, `IndexMatchesBoard`, `BoardNotAhead`, `NobodyWaitsForTUI` |
| `keys` | 1,763,000 | every key, three heights of the terminal, tickets that change and fail meanwhile | `CursorOnScreen` |
| `feeds` | 720,000 | five channels, three tabs, every key, lists of one | `PanelsShowHistory`, `ViewsAreFresh` |
| `startup` | 77,000 | configurations of each kind, a new or an old file, a stop or a signal anywhere, fairness | `MigrationSafe`, `WindowIsTwoIntervals`, `OthersRun`, `CloudLogsHaveQueue`, and every start ends (`StartEnds`) |

### Where the code and its documentation differ

Each of these runs must end with the counterexample; `findings` quotes the lines.

| run | behaviour |
|---|---|
| `overrun` | the visibility timeout of 300 s is never extended: with two agents of three minutes a second goroutine runs an action of the ticket at the same time (`RunsSequentially`) |
| `stopped` | a stop between the commit of a row and its publication: the error is counted from then on and never published (`KnownErrorsWerePublished`) |
| `sameerror` | the hash of a CloudWatch line includes its time stamp: one error, two tickets (`SameErrorSameTicket`) |

Behaviour of the code that the models have too, and that has no run of its own:

* A ticket whose `SendMessage` failed stays `pending` and is never published either:
  `stopped` with the fault `publish` in place of the stop. `EveryTicketIsSettled` says
  that this is the only way not to be worked on.
* The counter of a row counts fetches, not occurrences: the windows of two or three
  polls overlap. `CountedAtMostThrice` is the bound that holds while no poll takes
  longer than an interval.
* An entry fetched on both sides of midnight gets a ticket on each of the two days.
* A pause of the pollers that skips more than one poll loses what is logged in it:
  the first poll after it looks back two intervals only. `NothingIsMissed` counts a
  skipped poll like a failed call.
* A stop after `ADD COLUMN` leaves the old unique index for good, since the next start
  finds the column and skips the rest: `TornFile`, the exception in `MigrationSafe`,
  which says that no other stop does so and what such a file refuses.
* When `SendMessage` fails although the queue took the message, the row may be set
  to `pending` after a worker has set it to `done`: the exception `LatePending` in
  `AcknowledgedIsFinal`.
* A process that an agent leaves with its output open holds the goroutine past the
  timeout of the action, and the message comes back meanwhile: `overlong`, the
  exception in `OneAtATime`. What an agent leaves behind when the program is stopped
  may outlive its timeout as well.
* With two pollers of one name the notification of a count may overtake the one of
  the insert, and the board then lists the ticket twice: `overtaken`, the exception in
  `ListedTwiceOnlyIfOvertaken` and in `IndexMatchesBoard`.
* A worker that is done before the poller notifies leaves the board at `open`, since its
  events are about a ticket not yet listed, and so does an event that is dropped: the
  board is never ahead (`BoardNotAhead`), but it may be behind for good.
* Between two actions of a ticket the board shows `done` for a moment, since each
  action sends an event of its own: `BoardNotAhead` speaks of the first action.
* An open detail view changes to the ticket that has moved under the cursor.
* A list that shrinks under the cursor is drawn without a selection until a key
  moves it: the condition `Selected` of `CursorOnScreen`.
* On the Sentinel tab `p` and `w` neither pause anything nor reach the search text.
* A signal between the context and the TUI stops every goroutine and leaves a TUI
  in which nothing moves: the condition `~cancelled` of `OthersRun`.
* If all applications are mock or file, no queue URL is asked for, and workers
  then receive from an empty URL and sleep after each error.
* The workers of the other applications give the messages back for ever of an
  application whose worker could not be built.

### Bounds, and why they are enough

* Two pollers, two goroutines: every property relates at most two of either. Where
  they have the same application they are interchangeable and a symmetry set.
* Two entries (`MaxEntries`): the first makes a row, the second counts, is skipped,
  or makes another row (another line or day). `board` takes three of one error on two
  days: a count that overtakes its insert makes three listings of two tickets, which
  the board of two has to cut. `keys` has two of them, which are two tickets; `live` takes
  one, since its property is about each ticket by itself.
* A message of another program is malformed in the runs; that a well-formed one is worked
  on without a row is in the model and in the theorems only.
* One restart: after it the process has no memory but the table and the queue, and
  a second one adds no new kind of state. Rows and messages are not bounded otherwise.
* One action per ticket, two in `faults`, where a goroutine stops between them, and in
  `board`, where each sends events of its own.
* In LogDedup a second is the resolution of a time stamp; with an interval of three
  seconds entries are logged at, before and between the polls, and eleven seconds
  hold four polls and a midnight in the last of them. Of failures and skipped polls
  there is one, since `NothingIsMissed` says nothing of two. A poll starts on the second
  and before what is logged within that second.
* In WorkerClock a unit is 10 s and each time is rounded up: the visibility timeout is
  30 units, the actions of the documentation take 6 and 12, a call up to 1. In sum a
  message is busy for 22 of the 30 (`WithinVisibility`); `overrun` has 36. One message
  is enough, since the properties are about each message by itself, and two goroutines
  are what it takes to overlap. One stop leaves the orphans of both.
* `Heights`: of 9 and 10 lines one ticket fits in the panel, of 13 two; below 9 the
  panel has no room for a ticket and its filter bar.
* `Panels`: two items on whatever channels overflow lists of one; each of the five
  feeds has items that a filter, a search or a ticket tells apart. One character is
  enough to find, not find and delete.
* `TicketChSize`, `EventChSize`, `BoardSize` are 500, 200 and 200 in the code; one
  to three fill up in a few steps.
* `startup` has two stops, the second of which meets what the first left, two errors
  and two days. The configurations are those in which a condition of the code has another
  outcome: durations below, at and above zero for one application and for all; each
  source and queue; actions that can and cannot be built. The unit is 30 s, the default.

`CHECK_DEADLOCK FALSE` stands in `window`, `sameerror` and `startup` only, where the
clock, the days or the stops are used up.

### Fairness

`FairSpec` assumes that a goroutine that is not waiting takes its next step (the Go
scheduler); that a hidden message becomes visible in the end and that a visible one
is handed out to goroutines that keep asking (SQS); and, by strong fairness, that an
action, and a deletion, that are tried again and again succeed at some time. The
last is not a promise of the code. Without it a ticket that always fails is retried
for ever, which is what the code does. Strong fairness of `Asks` rules out one more
schedule: that a goroutine, for ever, asks only in the moments in which the worker of
another application holds the message, and sleeps through those in which it is visible.

`live` has no restart, and nothing is paused in it. A lost status write is left out of
it on purpose: it leaves a row as it is for good.

`StartSpec` assumes weak fairness of `MainStep`: the statements of `main` follow on each
other. Nothing is assumed of signals, stops and the days.

## 4. The proofs

TLAPS proves every invariant but `NobodyWaitsForTUI`, every safety action property and the
refinement that the passing runs check, for constants of any size: applications, lines,
pollers, goroutines, actions, foreign messages, days, durations, channels, lists,
configurations and restarts. The theorems are about the specifications that the runs check.

| module | theorem | statement |
|---|---|---|
| SentinelProofs | `AlwaysConsistent` | `Spec => []Consistent`, the inductive invariant |
| | `TypeCorrect` | `Spec => []TypeOK` |
| | `AtMostOnceADay` | `Spec => []OneMessagePerError` |
| | `DoneAfterTheWork` | `Spec => []DoneMeansWorked` |
| | `DeletedAfterTheWork` | `Spec => []DeletedOnlyAfterWork` |
| | `RecordedAfterSending` | `Spec => []RecordedIdHasMessage` |
| | `OneGoroutinePerTicket` | without `overrun`, `Spec => []SequentialPerTicket` |
| PipelineProofs | `WorkedOnByItsOwn` | `Spec => []RightWorkerActs` |
| | `NoRowWaitsInVain` | without `overrun`, `Spec => []OpenTicketsAreQueued` |
| | `DoneForGood` | without `overrun`, `Spec => AcknowledgedIsFinal` |
| | `DeliveryImplemented` | with an action to a ticket, `Spec => ImplementsDelivery` |
| WorkerClockProofs | `ClockTyped`, `ReceiptsAreApart`, `PauseIsInTime`, `WorkedOnOneAtATime` | `ClockTypeOK`, `AttemptsApart`, `PauseTakesEffect`, `OneAtATime` |
| StartupProofs | `AlwaysMigrated`, `StartsMigrated` | `MigrationSafe`, of `Open` by itself and of every start of `main` |
| | `StartTyped`, `EveryWindowOverlaps`, `FailuresStayAlone`, `NoCloudWithoutQueue` | `StartTypeOK`, `WindowIsTwoIntervals`, `OthersRun`, `CloudLogsHaveQueue` |
| LiveViewProofs | `TUIChangesNothing` | `LiveSpec => Spec`: what is proved of the pipeline holds with the TUI |
| | `LiveTyped`, `BoardIsBehind`, `CursorStaysOnScreen` | `LiveTypeOK`, `BoardNotAhead`, `CursorOnScreen` |
| | `ListedOnce`, `IndexAgrees` | `ListedTwiceOnlyIfOvertaken`, `IndexMatchesBoard` |
| PanelsProofs | `PanelsTyped`, `EverythingIsShown`, `TabsAreFresh` | `PanelTypeOK`, `PanelsShowHistory`, `ViewsAreFresh` |
| LogDedupProofs | `DedupTyped`, `NoEntryIsMissed`, `NoneCountedMore` | `DedupTypeOK`, `NothingIsMissed`, `CountedAtMostThrice` |

### The arguments

**SentinelProofs.** `OneMessagePerError` is not inductive: nothing in it says that the
row a poller is about to publish has no message yet. `Consistent` adds the assumptions
the parts make of each other between two steps: keys are unique (the index), messages
name rows, a row has one message, a poller in "publish" is the only one about its row
and the row has no message (`PollersKnowRows`), a goroutine's message exists and its
completed actions are in `ran` (`WorkersKnowMessages`). The proof has a lemma per
action or group of actions. Those that change no key and no body share the lemmas
`RowsAndMessagesKept` to `DeletedKept`. `OneGoroutinePerTicket` needs in addition
`WorkersHoldMessages`: the message of a busy goroutine is in flight and its receipt
handle the newest. That is what an overrun breaks. With one message per row it follows
that two goroutines at work are on different rows.

**PipelineProofs.** `RightWorkerActs` follows from `AppsAgree`: the application of a
poller's row, of the body of its message and of a goroutine that got past the check of
`process` are the same; only the first of the three is in the row, the others are copies.
`OpenTicketsAreQueued` is about the moment in which a message is deleted, so it needs
`AckedRowsAreDone`: a row whose goroutine is acknowledging is done, pending or stranded.
That holds because between the write of `done` and the deletion no other goroutine
writes the row, which is `WorkersHoldMessages`. For the refinement, each action of the
pipeline is shown to be a `Raise`, `Send`, `Work`, `Close`, `Reopen` or `Remove` of one
error, or a stutter; the lemmas compute the five mapped variables after it. `Grounded`
keeps every key among the errors and every completed action at an existing message.

**WorkerClockProofs.** None of the three properties mentions enough time to be
inductive. `RestedOrHidden`: what a message has rested and what is left of its
visibility timeout are together at least the delay. `PollsEnd`: what is left of a long
poll and the time since the pause are together at most one long poll. `HiddenLongEnough`:
the visibility timeout of a message outlasts what is left of the step of its goroutine,
the longest the further actions may take (`Longest[k]`) and the calls still to come, and
likewise what is left of an orphan. It holds from the receipt on if `WithinVisibility`
does, and `Tick` takes a unit from both sides.

**StartupProofs.** The migration: the invariant says what each statement of `Open` finds
in the file; what makes it inductive is that the rows of an old file satisfy the new
unique index as soon as they satisfy the old one. A torn file keeps the
old index, and with it refuses a line only if it has a row of that line (`FoundIsMigrated`). Startup then implements StoreMigration,
so that the result carries over to every start. The rest is from `StartInv`, which says
for each place in `main` what has been validated, filled in and built by then.

**LiveViewProofs.** `BoardNotAhead` needs what is on its way: a "done" in `eventCh` is
about a ticket whose first action completed, and no ticket in `ticketCh` or with a poller
is done (`NothingAhead`). `ListedOnce` and `IndexAgrees` hold for any number of pollers of
one name; what the notifications of two of them may do to each other is in `overtaken`.
`NewOnce`: one poller at most holds a ticket as new, since one `Upsert` inserts it.
`HeldComesFirst`: unless a count overtook it, that ticket is neither on the board nor in
the channel. `SentComesFirst`: once its insert is in the channel, nothing about it is
before that. Without `overtaken` the second is false from the moment in which another
poller's count is sent. The board may be of any size: what
the cut drops from the end leaves the index, and it was the only listing of its id unless
the id is in `overtaken`.

**PanelsProofs.** `FeedsKnown` says that what a command carries and what its channel
holds are the end of what the channel accepted, and that one command waits. The
list, the events of each ticket, the status of each application and the counters follow
one item at a time, with the lemmas about the last items of a sequence and about
`Passing`. `ViewsAreFresh` needs no history: each key and message that changes a list,
its filter or the search refreshes the view; the proof is by cases over all of them.

**LogDedupProofs.** `InTime` bounds the distance of two polls by the interval and the
longest poll so far, which is where the one tick that the ticker's channel keeps comes
in. `Covered` says what has a row, or is in the batch, after no failure with slow polls
(`NothingLeft`), after none and after one with fast ones (`PastInRows`, `PastNotLeft`): the
second poll that sees an entry makes up for the failure of the first, or for a first that
was skipped in a pause. `CountedInTurn`
relates a row's counter to time: each further count is at least an interval after the
one before, so that a window of two intervals has room for three.

**ListProofs.** Lemmas about `Passing` and about the first and last items of a sequence.
The induction theorems of the library have an operator as a parameter, which the provers
cannot instantiate; induction over a list is by the least counterexample instead
(`LeastNumber`, `UpToLast`). That the recursive function of `Passing` exists is
proved too (`SomethingCollects`).

### What the theorems assume

The named `ASSUME`s of the modules, which TLC evaluates on each run: constants have
their types, the foreign messages carry no ticket id, timeouts are not negative,
`Longest` adds up those of the actions, and the lines of LogDedup are all the entries
that can be logged. Beyond them, in the theorems themselves:

* `"overrun" \notin Faults`: no action outlasts the visibility timeout. The run
  `overrun` shows that the code does not see to it; `WorkedOnOneAtATime` says for which
  timeouts it is so.
* `NActions # 0`: a worker with no action deletes a message without any work, and there
  is nothing that `Work` of TicketDelivery could mean.

That two pollers never have one name is not assumed anywhere: `config.validate` does not
ask for it.

### Only model-checked

Liveness, `EveryTicketIsSettled` and `StartEnds`, and `NobodyWaitsForTUI`, that a full
channel keeps nobody from going on: fairness and ENABLED are out of the provers' reach.
`RunsSequentially`, `KnownErrorsWerePublished` and `SameErrorSameTicket` are false, as
section 3 says.

## 5. What is not modelled

* Retries inside the AWS SDK: a call and its retries are one call. A retry of
  `SendMessage` that makes a second message is outside the model.
* SQS may deliver a message again although it is hidden; the fault `overrun` of
  Worker has that effect.
* The early return of `process` for a message without body or receipt handle
  (`worker.go:144-146`): SQS hands out no such message.
* The refusal of an `INSERT` by the unique index: `Upsert` looks the key up and inserts
  it in one transaction over the only connection, so that it does not happen. What the
  index of an old file refuses is in StoreMigration.
* Parsing: of the YAML file, of a model's reply, of a message's JSON other than whether
  it is well formed; the prompts, the rules of the mock classifier, the severity that a
  source infers. They compute data by which nothing but a filter decides.
* What an action does to the world: templates, HTTP headers, signatures, what an agent
  changes. It succeeds, fails, or leaves a process behind.
* A negative timeout of an action, with which each of its attempts fails at once:
  WorkerClock takes timeouts in Nat, and the property would restate the condition.
* The file that the mock queue appends to, and the log file: nothing reads them.
* Rendering but for the lines of the ticket list. `strings.Repeat` with a negative count
  in a very narrow terminal (`views.go:348`, `views.go:405`) is listed as a hazard.
* Scrolling within a viewport, which belongs to the library (external).
* LogDedup handles the entries of a batch in any order, and has one entry per error
  and second. Paging within a fetch is one call.
* The attributes and groups of the slog handler; that it never waits is in Panels.
* The growth of `workerByTicket`, which is never cut: it has no illegal state.
* The read-only queries of the store, which the program does not call, and the
  example applications.

## 6. Plan

Modelled: all components, as section 2 says. Proved: all safety properties of the runs,
as section 4 says. What could still be proved:

1. Which entries failures may lose, for any number of failed polls: `NothingIsMissed`
   allows one failure in all, where one in any two successive polls should do.
2. An abstract worker, of which both Worker and WorkerClock are refinements, so that
   `WorkedOnOneAtATime` could replace the assumption on `overrun` in Sentinel.
