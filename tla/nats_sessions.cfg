CONSTANTS
    f1 = f1
    e1 = e1
    e2 = e2
    s1 = s1
    s2 = s2
    FiberId = {f1}
    EventId = {e1, e2}
    ZeroId = zero
    Hash <- MCHash
    ZeroHash = zeroHash
    Commitment <- MCCommitment
    MaxEventsPerFiber = 2
    MaxActiveFibers = 2
    Session = {s1, s2}
    Nobody = nobody
    RawEnvelope <- NoEnvelopes
    ForeignEnvelope <- NoEnvelopes
    BulkRead = {}
    MaxInFlight = 2
    MaxForeign = 0
    MaxSequence = 3
    MaxEpoch = 2
SPECIFICATION Spec
SYMMETRY Symmetry
INVARIANTS
    StreamWellFormed
    EpochOrder
    SessionsKnowPrefixes
    IndexFaithful
    ScanNeverRefused
CHECK_DEADLOCK FALSE
