SPECIFICATION Spec
CONSTANTS
    Procs = {p1, p2, p3}
    MaxEpoch = 3
SYMMETRY ProcSymmetry
INVARIANTS
    OneOwnerPerEpoch
    DataAfterClaim
    ProofsDisplaceNobody
CHECK_DEADLOCK FALSE
