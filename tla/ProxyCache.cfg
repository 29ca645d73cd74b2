CONSTANTS
    k1 = k1
    k2 = k2
    x = x
    y = y
    bad = bad
    b1 = b1
    b2 = b2
    c1 = c1
    c2 = c2
    evictor = evictor
    sweeper = sweeper
    None = none
    Keys = {k1, k2}
    Hashes = {x, y, bad}
    Backends = {b1}
    Default = b1
    Route <- MCOneBackend
    Clients = {c1, c2}
    Evictor = evictor
    Sweeper = sweeper
    Actors = {c1, c2, evictor, sweeper}
    Contents <- MCContents
    Corrupt = bad
    Integrity <- MCServeOnly
    Ttl = TRUE
    Coherence = FALSE
    Events = {"age", "corrupt", "no-store", "bare", "crash", "fault"}
    MaxEvents = 1
SPECIFICATION Spec
INVARIANTS TypeOK  ReferencesResolve
SYMMETRY MCClients
