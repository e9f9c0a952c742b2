\* A credential is being linked in one tab while another logs out.
SPECIFICATION Spec
CONSTANTS
    Req = {r1, r2}
    b1 = b1
    b2 = b2
    u1 = u1
    u2 = u2
    c1 = c1
    c2 = c2
    Browser = {b1}
    User = {u1}
    Cred = {c1}
    Sid = {i1}
    Token = {t1}
    State = {s1}
    SessionTTL = 0
    OidcTTL = 1
    MaxTime = 0
    NotFound = NotFound
    Person <- Alone
    Linked <- NobodyLinked
    Handlers = {"login", "callback", "linkget", "linkpost", "logout"}
    Faults = {}
    Drops = {}
    Modes = {TRUE}
SYMMETRY Interchange
INVARIANTS LoggedOutStaysOut
