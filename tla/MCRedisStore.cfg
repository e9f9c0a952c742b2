SPECIFICATION Spec
CONSTANTS
    Sid = {i1}
    User = {u1, u2}
    Token = {t1}
    State = {s1}
    Caller = {c1, c2}
    SessionTTL = 1
    OidcTTL = 1
    MaxTime = 3
    NotFound = NotFound
    Failed = Failed
INVARIANT TypeOK
PROPERTY ImplementsLedger
