CONSTANTS
    w1 = w1
    w2 = w2
    h1 = h1
    h2 = h2
    a = a
    b = b
    cut = cut
    Workers = {w1, w2}
    Hosts = {h1}
    HostOf <- MCOneHost
    Backends = {"local", "s3"}
    Files = {a, b, cut}
    NoFile = NoFile
    Publications <- MCPublications
    Truncated = cut
    Readable = {a, b, cut}
    Size <- MCGrowing
    Rows <- MCRows
    SendsLength = TRUE
    MaxCalls = 3
    MaxFaults = 1

SPECIFICATION Spec

INVARIANTS
    LandingIsWhole

PROPERTIES
    DurableStorageKept

CHECK_DEADLOCK FALSE
