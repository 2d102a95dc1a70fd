SPECIFICATION Spec
CONSTANTS
    r1 = r1
    r2 = r2
    Rpc = {r1, r2}
    w1 = w1
    Web = {w1}
    p1 = p1
    p2 = p2
    Peers = {p1, p2}
    s1 = s1
    Serials = {s1}
    Worker = Worker
    Main = Main
    NoPeer = NoPeer
    NoSerial = NoSerial
    MayThrow = TRUE
    LoadMayFail = TRUE
    Tours = FALSE
    MaxCrashes = 1
SYMMETRY Symmetry
INVARIANTS
    TypeOK
    Ownership
    RegisteredIsStored
    NoOrphanRows
    
PROPERTY ImplementsLifecycle
