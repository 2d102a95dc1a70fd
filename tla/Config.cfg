SPECIFICATION Spec
CONSTANTS
    t1 = t1
    t2 = t2
    u1 = u1
    x1 = x1
    Threads = {t1, t2}
    GoodUrls = {u1}
    BadUrls = {}
    Files = {}
    NoText = NoText
    Prefixes = {x1}
    MaxRestarts = 1
    Stored = {"STREAM_URL", "SNAPSHOT_URL", "CA_FILE"}
SYMMETRY Symmetry
INVARIANTS
    TypeOK
    UrlsInUse
    UrlsSaved
    AnnouncedTogether
