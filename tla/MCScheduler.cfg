SPECIFICATION FairSpec
CONSTANTS
    MaxHandle = 2
    Interval <- MCInterval
    MaxTime = 5
    MaxStarts = 2
INVARIANTS
    EachTaskQueuedOnce
    NextTurnIsNear
    NoBurst
PROPERTIES
    RemovedStaysAway
    PeriodsAreKept
    DueTasksRun
    CallsReturn
