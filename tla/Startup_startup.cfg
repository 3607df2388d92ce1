\* Two errors, two days, a file of the older version or none, two stops.
CONSTANTS
    e1 = e1  e2 = e2
    Lines = {e1, e2}
    MaxDay = 1
    MaxStops = 2
    Configs <- Files
SPECIFICATION StartSpec
INVARIANTS
    StartTypeOK
    MigrationSafe
    WindowIsTwoIntervals
    OthersRun
    CloudLogsHaveQueue
PROPERTY
    StartEnds
\* The days and stops are used up.
CHECK_DEADLOCK FALSE
