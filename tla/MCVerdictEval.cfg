SPECIFICATION Spec
CONSTANTS
    Names <- MCNames
    Policies <- MCPolicies
    Reportable <- MCReportable
    MaxAge <- MCMaxAge
INVARIANTS
    AbsenceOfScanNeverAllows
    ServedHoldIsOnlyUnscanned
    StoredRowReadsAsFresh
    AvailableAtIsAhead
    FreshListingAgreesWithGate
    
PROPERTIES
    MoreFindingsNeverRelax
    TimeAndAnswersOnlyRelax
CHECK_DEADLOCK FALSE
