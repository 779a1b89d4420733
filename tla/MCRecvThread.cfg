SPECIFICATION FairSpec
CONSTANTS
    t1 = t1
    t2 = t2
    NoThread = NoThread
    Threads <- MCThreads
    EnomemThres = 2
INVARIANTS
    OneReceiver
    SocketOpenUnderThread
PROPERTIES
    CallsReturn
    ScansGoOn
