SPECIFICATION Spec
CONSTANTS
    None = None
    th1 = th1
    o1 = o1
    o2 = o2
    k1 = k1
    Threads = {th1}
    Ops = {o1}
    Kinds = {"start", "start_turn", "interrupt", "archive"}
    Terminals = {k1}
    MaxInstances = 3
INVARIANTS
    TypeOK
    BindingsMatch
PROPERTY
    EndedIsFinal
