SPECIFICATION FairSpec
CONSTANTS
    s1 = s1
    s2 = s2
    p1 = p1
    c1 = c1
    Streams = {s1, s2}
    Snapshots = {p1}
    Customs = {c1}
    Removers = {"delete", "dispose", "shutdown"}
    NoRequest = NoRequest
CHECK_DEADLOCK FALSE
INVARIANTS
    TypeOK
    RemovedIsEmpty
PROPERTIES
    RemovalReturns
    LeavesSoon
    ImplementsHook
