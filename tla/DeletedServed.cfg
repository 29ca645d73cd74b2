CONSTANTS
    u1 = u1
    u2 = u2
    v1 = v1
    v2 = v2
    None = none
    Users = {u1, u2}
    Versions = {v1, v2}
    Limit = 2
    QuotaAt = "registry"
    Immutable = FALSE
    VerifyOnServe = FALSE
    MaxEvents = 1
SPECIFICATION Spec
INVARIANTS DeletedIsUnreachable
