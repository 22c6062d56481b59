SPECIFICATION FairSpec
CONSTANTS
    c1 = c1
    c2 = c2
    ReqIds = {1}
    InputReqs = {}
    Clients = {c1}
    MaxInstances = 2
    MaxVersion = 4
    MaxQueue = 2
    DbMayFail = FALSE
CHECK_DEADLOCK FALSE
INVARIANTS
    AnswersReachTheirProcess
PROPERTIES
    ResolutionApplied
    DeliveredIsAudited
