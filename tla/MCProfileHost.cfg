SPECIFICATION Spec
CONSTANTS
    None = None
    s1 = s1
    s2 = s2
    Secrets = {s1, s2}
    FirstSecret = s1
    MaxProcs = 3
    MaxRequests = 1
    MayExit = TRUE
CHECK_DEADLOCK FALSE
INVARIANTS
    TypeOK
    RestartSparesTurns
    RefreshNotLost
    
    IdleIsNotBusy
    ReplacedReaderActsOnce
