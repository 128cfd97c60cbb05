CONSTANTS
    f1 = f1
    f2 = f2
    e1 = e1
    e2 = e2
    e3 = e3
    s1 = s1
    FiberId = {f1, f2}
    EventId = {e1, e2, e3}
    ZeroId = zero
    Hash <- MCHash
    ZeroHash = zeroHash
    Commitment <- MCCommitment
    MaxEventsPerFiber = 2
    MaxActiveFibers = 2
    Session = {s1}
    Nobody = nobody
    RawEnvelope <- AllRaw
    ForeignEnvelope <- Unlinked
    BulkRead = {"Frames", "Iterating", "Reading", "ReadingForMigration"}
    MaxInFlight = 1
    MaxForeign = 2
    MaxSequence = 4
    MaxEpoch = 1
SPECIFICATION ForeignSpec
SYMMETRY Symmetry
INVARIANTS
    OwnWritesExtend
    LandedIsDurable
CHECK_DEADLOCK FALSE
