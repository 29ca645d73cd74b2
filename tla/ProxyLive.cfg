CONSTANTS
    k1 = k1
    k2 = k2
    x = x
    y = y
    bad = bad
    b1 = b1
    b2 = b2
    c1 = c1
    c2 = c2
    evictor = evictor
    sweeper = sweeper
    None = none
    Keys = {k1, k2}
    Hashes = {x}
    Backends = {b1, b2}
    Default = b1
    Route <- MCTwoBackends
    Clients = {c1}
    Evictor = evictor
    Sweeper = sweeper
    Actors = {c1, evictor, sweeper}
    Contents <- MCOneContent
    Corrupt = bad
    Integrity <- MCStrict
    Ttl = TRUE
    Coherence = TRUE
    Events = {"age", "crash", "fault", "clear", "rot"}
    MaxEvents = 1
SPECIFICATION FairSpec
PROPERTIES DanglingHeals OrphansGo RotHeals
