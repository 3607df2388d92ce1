\* Nothing fails; the process is stopped once.
CONSTANTS
    p1 = p1  p2 = p2  w1 = w1  w2 = w2
    api = api  web = web  e1 = e1  e2 = e2
    NoApp = NoApp  NoWorker = NoWorker
    Apps = {api}
    Lines = {e1}
    Pollers = {p1}
    PollerApp <- OneApp
    Workers = {w1}
    WorkerApp <- OneWorker
    NActions = 1
    ForeignMessages <- NothingForeign
    Faults = {}
    Controls = {}
    MaxDay = 0
    MaxEntries = 2
    MaxRestarts = 1
SPECIFICATION Spec
INVARIANTS
    KnownErrorsWerePublished
