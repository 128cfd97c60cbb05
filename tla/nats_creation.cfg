CONSTANTS
    p1 = p1
    p2 = p2
    p3 = p3
    Process = {p1, p2, p3}
    Operator = operator
    Nobody = nobody
    MaxMeta = 5
SPECIFICATION FairSpec
INVARIANTS
    RecordsOfOneCreator
    SessionMeansComplete
    OneEstablishes
PROPERTIES
    SomebodyEstablishes
CHECK_DEADLOCK FALSE
