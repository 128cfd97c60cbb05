CONSTANTS
    f1 = f1
    e1 = e1
    e2 = e2
    w1 = w1
    w2 = w2
    r1 = r1
    FiberId = {f1}
    EventId = {e1, e2}
    ZeroId = zero
    Hash <- MCHash
    ZeroHash = zeroHash
    Commitment <- MCCommitment
    MaxEventsPerFiber = 2
    MaxActiveFibers = 2
    Writer = {w1, w2}
    Reader = {r1}
    Nobody = nobody
    MaxEpoch = 2
SPECIFICATION Spec
SYMMETRY Symmetry
INVARIANTS
    FramesWellFormed
    WriterKnowsFile
    ExclusiveCreation
    CreatedStaysOpenable
    EpochOrder
    ReaderViewStays
PROPERTY
    DurableSpec
CHECK_DEADLOCK FALSE
