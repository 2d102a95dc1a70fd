SPECIFICATION Spec
CONSTANTS
    p1 = p1
    c1 = c1
    Streams = {}
    Snapshots = {p1}
    Customs = {c1}
    Removers = {"delete"}
    NoRequest = NoRequest
INVARIANT CustomUrlCalled
