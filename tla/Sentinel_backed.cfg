\* A poller and two goroutines of a worker across midnight, every failure but those
\* of the calls of workers to the queue, no visibility timeout that the actions overrun,
\* one restart, the user pausing the workers.
CONSTANTS
    p1 = p1  p2 = p2  w1 = w1  w2 = w2
    api = api  web = web  e1 = e1  e2 = e2
    NoApp = NoApp  NoWorker = NoWorker
    Apps = {api}
    Lines = {e1}
    Pollers = {p1}
    PollerApp <- OneApp
    Workers = {w1, w2}
    WorkerApp <- SameWorker
    NActions = 1
    ForeignMessages <- NothingForeign
    Faults = {"db", "publish", "accepted", "action"}
    Controls = {"workers"}
    MaxDay = 1
    MaxEntries = 2
    MaxRestarts = 1
SPECIFICATION Spec
SYMMETRY GoroutineSymmetry
INVARIANTS
    OpenTicketsAreQueued
    OneMessagePerError
    RecordedIdHasMessage
    SequentialPerTicket
PROPERTIES
    AcknowledgedIsFinal
