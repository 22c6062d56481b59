SPECIFICATION Spec
CONSTANTS
    t1 = t1
    t2 = t2
    Tasks = {t1, t2}
    Capacity = 1
    PageSize = 1
    MaxFrames = 2
    MaxDrops = 1
    MaxFailures = 1
CHECK_DEADLOCK FALSE
INVARIANTS
    TypeOK
    SeenIsDurable
    GapsExplained
PROPERTY
    ShownInOrder
