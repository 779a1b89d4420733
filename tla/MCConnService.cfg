SPECIFICATION FairSpec
CONSTANTS
    Ids = {"hero", "other"}
    Modes = {"Remote", "Local"}
    None = None
    TopicsOf <- MCTopicsOf
    BytesTopic = "bytes"
    StreamTimeout = 1
    MaxGen = 2
    MaxEvents = 3
INVARIANTS
    ShownIsBound
    BothHalvesAgree
    FailedStartIsRetried
PROPERTIES
    HeardOfBoundClientOnly
    ConnectionsAreShown
    SilentStreamsGoOffline
CHECK_DEADLOCK FALSE
