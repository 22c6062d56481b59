SPECIFICATION FairSpec
CONSTANTS
    None = None
    th1 = th1
    o1 = o1
    o2 = o2
    k1 = k1
    Threads = {th1}
    Ops = {o1}
    Kinds = {"start", "start_turn"}
    Terminals = {k1}
    MaxInstances = 2
PROPERTIES
    CallsReturn
    ExitIsRecorded
