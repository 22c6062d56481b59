SPECIFICATION Spec
CONSTANTS
    c1 = c1
    c2 = c2
    ReqIds = {1, 2}
    InputReqs = {2}
    Clients = {c1, c2}
    MaxInstances = 1
    MaxVersion = 4
    MaxQueue = 2
    DbMayFail = TRUE
CHECK_DEADLOCK FALSE
SYMMETRY ClientSymmetry
INVARIANTS
    TypeOK
    OneDecisionReceived
    AuditTellsTheTruth
    ResolvedIsClosed
PROPERTIES
    ImplementsContract
