\* Every key on two tickets, one or both of which fit in the panel: one error
\* on two days, actions that may fail.
CONSTANTS
    p1 = p1  p2 = p2  w1 = w1
    api = api  e1 = e1
    NoApp = NoApp  NoWorker = NoWorker
    Apps = {api}
    Lines = {e1}
    Pollers = {p1}
    PollerApp <- OneApp
    Workers = {w1}
    WorkerApp <- OneWorker
    NActions = 1
    ForeignMessages <- NothingForeign
    Faults = {"action"}
    Controls = {}
    MaxDay = 1
    MaxEntries = 2
    MaxRestarts = 0
    AppOrder <- Order
    Severity <- SameSeverity
    BoardSize = 3
    Heights = {9, 10, 13}
    TicketChSize = 1
    EventChSize = 1
    Keys = {"move", "detail", "status", "tab", "resize"}
SPECIFICATION LiveSpec
PROPERTY
    CursorOnScreen
