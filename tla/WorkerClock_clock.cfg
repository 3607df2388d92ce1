\* The actions of README.md's example for one message, calls of up to 10 s, one
\* stop of the program, the user pausing.
CONSTANTS
    g1 = g1  g2 = g2  m1 = m1
    Goroutines = {g1, g2}
    Messages = {m1}
    NoMessage = NoMessage
    Actions <- Readme
    Longest <- ReadmeLongest
    DefaultTimeout = 6
    LongPoll = 2
    Visibility = 30
    RetryDelay = 3
    ErrorPause = 1
    Nap = 1
    CallTime = 1
    MaxStops = 1
SPECIFICATION Spec
SYMMETRY Symmetry
INVARIANTS
    ClockTypeOK
    OneAtATime
    AttemptsApart
    PauseTakesEffect
