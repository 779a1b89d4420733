SPECIFICATION FairSpec
CONSTANTS
    Inputs = {"W"}
    Owners = {"menu"}
    MaxGen = 2
    MaxSignals = 2
    MaxWheel = 1
INVARIANTS
    CursorGivenBack
    NoKeyIsStuck
    PublishesOwnGeneration
PROPERTIES
    CapturedGetsLocked
CHECK_DEADLOCK FALSE
