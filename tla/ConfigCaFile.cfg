SPECIFICATION Spec
CONSTANTS
    t1 = t1
    u1 = u1
    b1 = b1
    f1 = f1
    x1 = x1
    x2 = x2
    Threads = {t1}
    GoodUrls = {u1}
    BadUrls = {b1}
    Files = {f1}
    NoText = NoText
    Prefixes = {x1, x2}
    MaxRestarts = 0
    Stored = {"STREAM_URL", "SNAPSHOT_URL", "CA_FILE", "VERIFY_CERTIFICATE"}
INVARIANT CaFileReadsBack
