\* Leases that run out between two renewals, outages, and lost answers.
SPECIFICATION FairSpec
CONSTANTS
    User = {u1}
    Cred = {}
    Caller = {p1}
    Renewer = Renewer
    Token = {t1, t2, t3}
    NotFound = NotFound
    Failed = Failed
    AppRole = TRUE
    TTL = 3
    DefaultTTL = 3
    MinInterval = 4
    CallTime = 1
    MaxLate = 0
    Faults = {"down", "lost"}
INVARIANTS RetryIsAccepted
PROPERTIES Revives CallsEnd
