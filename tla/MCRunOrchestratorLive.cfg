SPECIFICATION FairSpec
CONSTANTS
    None = None
    r1 = r1
    r2 = r2
    t1 = t1
    w1 = w1
    w2 = w2
    Tasks = {t1}
    TaskOf <- MCTaskOf
    Workers = {w1, w2}
    Runs = {r1}
    ParentOf <- MCNoParent
    ForkOf <- MCNoParent
    MainRuns = {}
    CleanupAttempts = 2
    MaxTokens = 2
    MaxClaims = 3
    DbMayFail = FALSE
PROPERTIES
    ProvisioningEnds
    OrphanReleased
    CleanupSettles
