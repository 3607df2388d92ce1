\* Two agents that may take three minutes each: more than the visibility timeout.
CONSTANTS
    g1 = g1  g2 = g2  m1 = m1
    Goroutines = {g1, g2}
    Messages = {m1}
    NoMessage = NoMessage
    Actions <- Slow
    Longest <- SlowLongest
    DefaultTimeout = 6
    LongPoll = 2
    Visibility = 30
    RetryDelay = 3
    ErrorPause = 1
    Nap = 1
    CallTime = 1
    MaxStops = 0
SPECIFICATION Spec
SYMMETRY Symmetry
INVARIANTS
    RunsSequentially
