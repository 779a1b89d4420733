SPECIFICATION Spec
CONSTANTS
    PressTicks = 3
    RestartTicks = 2
    MaxGen = 3
INVARIANTS
    ViewFollowsReports
    FullPressOnly
CHECK_DEADLOCK FALSE
