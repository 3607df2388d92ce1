\* Two pollers with the same application name, two actions to a ticket, one error
\* on two days, a board of two tickets, channels of one message, one restart.
CONSTANTS
    p1 = p1  p2 = p2  w1 = w1
    api = api  e1 = e1
    NoApp = NoApp  NoWorker = NoWorker
    Apps = {api}
    Lines = {e1}
    Pollers = {p1, p2}
    PollerApp <- SameApp
    Workers = {w1}
    WorkerApp <- OneWorker
    NActions = 2
    ForeignMessages <- NothingForeign
    Faults = {}
    Controls = {}
    MaxDay = 1
    MaxEntries = 3
    MaxRestarts = 1
    AppOrder <- Order
    Severity <- SameSeverity
    BoardSize = 2
    Heights = {10}
    TicketChSize = 1
    EventChSize = 1
    Keys = {}
SPECIFICATION LiveSpec
SYMMETRY PollerSymmetry
INVARIANTS
    LiveTypeOK
    ListedTwiceOnlyIfOvertaken
    IndexMatchesBoard
    BoardNotAhead
    NobodyWaitsForTUI
