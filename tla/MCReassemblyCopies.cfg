SPECIFICATION Spec
CONSTANTS
    f1 = f1
    f2 = f2
    f3 = f3
    NoFrame = NoFrame
    Frames <- MCFrames
    Packets <- MCPackets
    BufferLimits = {3}
    NumSlots = 2
    IdxMod = 6
    MaxIdxLag = 2
    PayloadSize = 2
    MaxSecPerFrame = 3
    SlotLen = 5
    U32 = 16
    BigFrameThres = 2
    CompleteNum = 2
    CompleteDen = 3
    ReassembleTimeout = 1
    SyncTimeout = 1
INVARIANT
    CopiesStayInFrame
