SPECIFICATION Spec
CONSTANTS
    Base = 32
    MaxDepth = 3
    MaxRecord = 75
    WireLimit = 88
    MaxFrames = 3
    Messages <- MCFiles
    Extra <- MCExtra
    Payloads <- MCPayloads
    Records <- MCRecords
    EncodeOther <- EncodeSchema
    DecodeOther <- DecodeSchema
    ReadRecords <- ReadFrames
INVARIANT OverlongLengthRefused
CHECK_DEADLOCK FALSE
