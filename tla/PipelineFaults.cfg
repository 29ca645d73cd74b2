SPECIFICATION Spec
CONSTANTS
    Names <- MCNames
    Pkgs = {p1}
    JobIds = {1, 2}
    MaxAttempts = 1
    MaxConcurrent = 1
    NoJob = NoJob
    None = None
    Readers = {r1}
    Workers = {w1}
    Admins = {a1}
    Flaggers = {f1}
    Policy <- DefaultPolicy
    ScanOrder <- FlagsAndOsv
    Enrichers = {}
    Flaky = {"osv"}
    Store = "memory"
    ErrorCodes = {"SCANNER_ERROR"}
    CachedDates = {TRUE}
    Faults = {"read", "write", "queue", "close"}
    LocalPkgs = {p1}
    Ages <- OldAge
    MaxAge = 2
    MaxCrashes = 0
    MaxEdits = 2
    Rescans = FALSE
    OperatorTriggers = {}
    Reloads = TRUE
    Disclosures = FALSE
    FlagKinds <- OneHardKind
INVARIANTS
    TypeOK
    
    
    
CHECK_DEADLOCK FALSE
