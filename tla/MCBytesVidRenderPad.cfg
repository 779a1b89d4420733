SPECIFICATION Spec
CONSTANTS
    MainDecoders <- MCMainDecoders
    BytesDecoders <- MCBytesDecoders
    UploaderPads = {"sink", "src"}
    MaxMessages = 3
    MaxErrors = 2
    Limits = {0, 2}
    FrameSizes = {0, 1, 2}
INVARIANTS
    DecodedVideoIsLinked
CHECK_DEADLOCK FALSE
