SPECIFICATION FairSpec
CONSTANTS
    Topics = {t1, t2}
    MaxSessions = 3
    MaxMessages = 2
INVARIANTS
    MessagesFindHandlers
    ToldIsCurrent
PROPERTIES
    RegisteredGetAsked
    SignalsInOrder
CHECK_DEADLOCK FALSE
