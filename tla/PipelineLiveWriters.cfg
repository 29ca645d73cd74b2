SPECIFICATION FairSpec
CONSTANTS
    Names <- MCNames
    Pkgs = {p1}
    JobIds = {1, 2}
    MaxAttempts = 1
    MaxConcurrent = 1
    NoJob = NoJob
    None = None
    Readers = {r1}
    Workers = {w1}
    Admins = {a1}
    Flaggers = {f1}
    Policy <- DefaultPolicy
    ScanOrder <- AllScanners
    Enrichers = {}
    Flaky = {}
    Store = "postgres"
    ErrorCodes = {"SCANNER_ERROR"}
    CachedDates = {TRUE}
    Faults = {}
    LocalPkgs = {}
    Ages <- GrownAge
    MaxAge = 2
    MaxCrashes = 0
    MaxEdits = 1
    Rescans = TRUE
    OperatorTriggers = {"rescan"}
    Reloads = FALSE
    Disclosures = FALSE
    FlagKinds <- HardKinds
PROPERTIES
    StandingBlockEnforced
    StandingFlagEnforced
CHECK_DEADLOCK FALSE
