SPECIFICATION Spec
CONSTANTS
    None = None
    r1 = r1
    r2 = r2
    t1 = t1
    w1 = w1
    w2 = w2
    Tasks = {t1}
    TaskOf <- MCTaskOf
    Workers = {w1, w2}
    Runs = {r1}
    ParentOf <- MCNoParent
    ForkOf <- MCNoParent
    MainRuns = {}
    CleanupAttempts = 2
    MaxTokens = 3
    MaxClaims = 3
    DbMayFail = TRUE
SYMMETRY WorkerSymmetry
INVARIANTS
    TypeOK
    LeaseMatchesStatus
    ExclusiveExecution
    ThreadWrittenOnce
    CheckoutsAccounted
PROPERTY
    EndedStaysEnded
