SPECIFICATION FairSpec
CONSTANTS
    t1 = t1
    t2 = t2
    Tasks = {t1}
    Capacity = 1
    PageSize = 1
    MaxFrames = 2
    MaxDrops = 2
    MaxFailures = 0
CHECK_DEADLOCK FALSE
PROPERTIES
    CatchesUp
    ApprovalsSurface
