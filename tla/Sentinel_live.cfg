\* Fairness: two applications with a worker each, a poller of one of them and a
\* malformed message, while actions, publishing and calls of the queue fail.
CONSTANTS
    p1 = p1  p2 = p2  w1 = w1  w2 = w2
    api = api  web = web  e1 = e1  e2 = e2
    NoApp = NoApp  NoWorker = NoWorker
    Apps = {api, web}
    Lines = {e1}
    Pollers = {p1}
    PollerApp <- OneApp
    Workers = {w1, w2}
    WorkerApp <- TwoWorkers
    NActions = 1
    ForeignMessages <- OnlyMalformed
    Faults = {"action", "api", "publish"}
    Controls = {}
    MaxDay = 0
    MaxEntries = 1
    MaxRestarts = 0
SPECIFICATION FairSpec
INVARIANTS
    RightWorkerActs
    DeletedOnlyAfterWork
PROPERTIES
    EveryTicketIsSettled
