SPECIFICATION FairSpec
CONSTANTS
    r1 = r1
    Rpc = {r1}
    Web = {}
    p1 = p1
    p2 = p2
    Peers = {p1, p2}
    s1 = s1
    s2 = s2
    Serials = {s1, s2}
    Worker = Worker
    Main = Main
    NoPeer = NoPeer
    NoSerial = NoSerial
    MayThrow = FALSE
    LoadMayFail = FALSE
    Tours = TRUE
    MaxCrashes = 1
INVARIANT IndexesAgree
PROPERTIES
    EveryPeerVisited
    RoundGoesOn
    ImplementsPairing
