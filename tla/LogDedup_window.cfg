\* A log service or a generator, one error, one failure or poll skipped in a pause,
\* or slow polls.
CONSTANTS
    app = app  e1 = e1  e2 = e2
    Apps = {app}
    App = app
    Lines <- Fingerprints
    MaxDay <- LastDay
    Sources = {"aws", "gcp", "file", "mock"}
    Errors = {e1}
    Interval = 3
    DayLength = 10
    MaxClock = 10
    MaxSetbacks = 1
    MaxPollTime = 3
    MaxEvents = 2
SPECIFICATION DedupSpec
INVARIANTS
    DedupTypeOK
    NothingIsMissed
    CountedAtMostThrice
\* The clock stops at MaxClock.
CHECK_DEADLOCK FALSE
