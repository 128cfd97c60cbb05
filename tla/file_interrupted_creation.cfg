CONSTANTS
    f1 = f1
    e1 = e1
    w1 = w1
    FiberId = {f1}
    EventId = {e1}
    ZeroId = zero
    Hash <- MCHash
    ZeroHash = zeroHash
    Commitment <- MCCommitment
    MaxEventsPerFiber = 2
    MaxActiveFibers = 2
    Writer = {w1}
    Reader = {}
    Nobody = nobody
    MaxEpoch = 1
SPECIFICATION Spec
SYMMETRY Symmetry
INVARIANTS
    InterruptedCreationCompletes
CHECK_DEADLOCK FALSE
