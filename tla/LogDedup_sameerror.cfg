\* A CloudWatch log, whose raw lines hold a time stamp.
CONSTANTS
    app = app  e1 = e1  e2 = e2
    Apps = {app}
    App = app
    Lines <- Fingerprints
    MaxDay <- LastDay
    Sources = {"aws"}
    Errors = {e1}
    Interval = 2
    DayLength = 8
    MaxClock = 4
    MaxSetbacks = 0
    MaxPollTime = 0
    MaxEvents = 2
SPECIFICATION DedupSpec
INVARIANTS
    SameErrorSameTicket
\* The clock stops at MaxClock.
CHECK_DEADLOCK FALSE
