\* Two pollers with the same application name, two goroutines of its worker,
\* every kind of failure, two actions to a ticket, one restart.
CONSTANTS
    p1 = p1  p2 = p2  w1 = w1  w2 = w2
    api = api  web = web  e1 = e1  e2 = e2
    NoApp = NoApp  NoWorker = NoWorker
    Apps = {api}
    Lines = {e1}
    Pollers = {p1, p2}
    PollerApp <- SameApp
    Workers = {w1, w2}
    WorkerApp <- SameWorker
    NActions = 2
    ForeignMessages <- NothingForeign
    Faults = {"db", "publish", "accepted", "action", "api", "overrun"}
    Controls = {}
    MaxDay = 0
    MaxEntries = 2
    MaxRestarts = 1
SPECIFICATION Spec
SYMMETRY GoroutineSymmetry
INVARIANTS
    Consistent
    OneMessagePerError
    DoneMeansWorked
    DeletedOnlyAfterWork
PROPERTIES
    ImplementsDelivery
