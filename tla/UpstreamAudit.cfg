CONSTANTS
    p = p
    q = q
    Packages = {p, q}
    Versions <- MCVersions
    Offers <- MCOffers
    Listing = TRUE
    Cap = 2
    MinProbed = 2
    RatioNum = 1
    RatioDen = 2
    ConfirmAfter = 2
    ConfirmMinAge = 1
    Sweeper = sweeper
    Rechecks = {r1}
    MaxChanges = 3
    MaxEvents = 1
    Events = {"fetch", "recheck", "admin", "fault"}
SPECIFICATION FairSpec
INVARIANTS TypeOK OutageConfirmsNothing
PROPERTIES GoneIsBlocked
