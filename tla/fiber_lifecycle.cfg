CONSTANTS
    f1 = f1
    f2 = f2
    f3 = f3
    e1 = e1
    e2 = e2
    e3 = e3
    e4 = e4
    e5 = e5
    FiberId = {f1, f2, f3}
    EventId = {e1, e2, e3, e4, e5}
    ZeroId = zero
    Hash <- MCHash
    ZeroHash = zeroHash
    Commitment <- MCCommitment
    MaxEventsPerFiber = 3
    MaxActiveFibers = 2
SPECIFICATION Spec
INVARIANTS
    LifecycleLegal
    HandlesAgree
    ReplayRebuildsIndex
    IndexTrustsHandles
CHECK_DEADLOCK FALSE
