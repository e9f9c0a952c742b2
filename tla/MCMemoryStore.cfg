\* Two callers on one session and one OIDC state.
SPECIFICATION Spec
CONSTANTS
    Sid = {i1}
    User = {u1, u2}
    Token = {t1}
    State = {s1}
    Caller = {c1, c2}
    SessionTTL = 1
    MaxTime = 3
    NotFound = NotFound
    Failed = Failed
INVARIANT TypeOK
PROPERTY ImplementsLedger
