SPECIFICATION FairSpec
CONSTANTS
    r1 = r1
    r2 = r2
    Rpc = {r1, r2}
    w1 = w1
    Web = {w1}
    p1 = p1
    Peers = {p1}
    s1 = s1
    Serials = {s1}
    Worker = Worker
    Main = Main
    NoPeer = NoPeer
    NoSerial = NoSerial
    MayThrow = FALSE
    LoadMayFail = FALSE
    Tours = TRUE
    MaxCrashes = 2
INVARIANTS
    Ownership
    NoOrphanRows
    RemovedHasNoRequests
PROPERTIES
    DeletionEnds
    ImplementsLifecycle
    ShutdownEnds
    RemovedIsLetGo
