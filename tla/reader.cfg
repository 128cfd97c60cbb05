CONSTANTS
    f1 = f1
    f2 = f2
    e1 = e1
    e2 = e2
    e3 = e3
    FiberId = {f1, f2}
    EventId = {e1, e2, e3}
    ZeroId = zero
    Hash <- MCHash
    ZeroHash = zeroHash
    Commitment <- MCCommitment
    MaxEventsPerFiber = 4
    MaxActiveFibers = 2
    Input <- MCInput
    Size <- MCSize
    MaxStreamItems = 3
    MaxStreamBytes = 5
    MaxPosition = 3
SPECIFICATION Spec
SYMMETRY Symmetry
INVARIANTS
    ObservedIsALine
    FailureIsABreak
    ChecksAgree
    ErrorIsLast
    WalkAdmits
CHECK_DEADLOCK FALSE
