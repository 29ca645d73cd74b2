SPECIFICATION FairSpec
CONSTANTS
    Names <- MCNames
    Pkgs = {p1}
    JobIds = {1, 2}
    MaxAttempts = 2
    MaxConcurrent = 1
    NoJob = NoJob
    None = None
    Readers = {r1}
    Workers = {w1, w2}
    Admins = {}
    Flaggers = {}
    Policy <- DefaultPolicy
    ScanOrder <- OsvAndEpss
    Enrichers = {"epss"}
    Flaky = {}
    Store = "memory"
    ErrorCodes = {"SCANNER_ERROR"}
    CachedDates = {TRUE}
    Faults = {}
    LocalPkgs = {}
    Ages <- OldAge
    MaxAge = 2
    MaxCrashes = 2
    MaxEdits = 0
    Rescans = TRUE
    OperatorTriggers = {}
    Reloads = FALSE
    Disclosures = TRUE
    FlagKinds = {}
INVARIANTS
    
    AttemptsBoundHolders
PROPERTIES
    EveryJobCloses
    EveryHoldGetsScanned
CHECK_DEADLOCK FALSE
