SPECIFICATION Spec
CONSTANTS
    Names <- MCNames
    Pkgs = {p1}
    JobIds = {1, 2}
    MaxAttempts = 1
    MaxConcurrent = 1
    NoJob = NoJob
    None = None
    Readers = {}
    Workers = {w1}
    Admins = {a1}
    Flaggers = {}
    Policy <- DefaultPolicy
    ScanOrder <- BlockAndOsv
    Enrichers = {}
    Flaky = {}
    Store = "memory"
    ErrorCodes = {"SCANNER_ERROR"}
    CachedDates = {TRUE}
    Faults = {}
    LocalPkgs = {}
    Ages <- OldAge
    MaxAge = 2
    MaxCrashes = 0
    MaxEdits = 1
    Rescans = FALSE
    OperatorTriggers = {"rescan"}
    Reloads = FALSE
    Disclosures = FALSE
    FlagKinds = {}
INVARIANTS
    QuietBlockDenies
CHECK_DEADLOCK FALSE
