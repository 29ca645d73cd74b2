CONSTANTS
    s1 = s1
    s2 = s2
    RowIds = {"r1", "r2"}
    Sealers = {s1, s2}
    Lifecyclers = {l1}
    Operators = {o1}
    Verifiers = {}
    InitNow = 3
    MaxNow = 4
    AccessRetention = 2
    SecurityRetention = 0
    PseudonymiseAfter = 1
    Batch = 2
    ConflictRetries = 2
    SealsPerTick = 1
    MaxCrashes = 0
    MaxBlocks = 0
    PurgeCutoffs = {}
    InitRows <- MCInitRows
    NewRows <- MCNewRows
SPECIFICATION Spec
INVARIANTS TypeOK SealedWindowsMatch
PROPERTIES NothingComesBack LedgerSpec
SYMMETRY MCSealers
