CONSTANTS
    s1 = s1
    s2 = s2
    RowIds = {"r1", "r2", "r3"}
    Sealers = {s1}
    Lifecyclers = {}
    Operators = {o1}
    Verifiers = {v1}
    InitNow = 3
    MaxNow = 4
    AccessRetention = 2
    SecurityRetention = 0
    PseudonymiseAfter = 1
    Batch = 2
    ConflictRetries = 2
    SealsPerTick = 1
    MaxCrashes = 1
    MaxBlocks = 1
    PurgeCutoffs = {2}
    InitRows <- MCInitRows
    NewRows <- MCNewRows
SPECIFICATION FairSpec
INVARIANTS AlarmMeansOvertaken SealedWindowsMatch
PROPERTIES EveryWindowIsSealed
