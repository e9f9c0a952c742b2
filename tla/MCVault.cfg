\* Lost answers, requests that arrive late, and refused tokens.
SPECIFICATION Spec
CONSTANTS
    User = {u1}
    Cred = {c1}
    Caller = {p1, p2}
    Renewer = Renewer
    Token = {t1, t2, t3, t4}
    NotFound = NotFound
    Failed = Failed
    AppRole = TRUE
    TTL = 1
    DefaultTTL = 1
    MinInterval = 1
    CallTime = 0
    MaxLate = 1
    Faults = {"lost"}
SYMMETRY Interchange
INVARIANTS TypeOK
PROPERTIES ImplementsLedger
