SPECIFICATION Spec
CONSTANTS
    Base = 32
    MaxDepth = 3
    MaxRecord = 75
    WireLimit = 88
    MaxFrames = 3
    Messages <- MCMessages
    Extra <- MCExtra
    Payloads <- MCPayloads
    Records <- MCRecords
    EncodeOther <- EncodeSchema
    DecodeOther <- DecodeSchema
    ReadRecords <- ReadFrames
INVARIANTS
    WireRoundTrip
    WireCanonical
    CommitmentExposes
    ScanFindsWhole
    RoundTrip
    Canonical
    AlterationsRefused
    AdmissionStable
    DepthsAgree
    AcceptedRootsAdmitted
CHECK_DEADLOCK FALSE
