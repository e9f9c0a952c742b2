\* Two people at two browsers.
SPECIFICATION Spec
CONSTANTS
    Req = {r1, r2}
    b1 = b1
    b2 = b2
    u1 = u1
    u2 = u2
    c1 = c1
    c2 = c2
    Browser = {b1, b2}
    User = {u1, u2}
    Cred = {c1, c2}
    Sid = {i1, i2}
    Token = {t1}
    State = {s1, s2}
    SessionTTL = 0
    OidcTTL = 1
    MaxTime = 0
    NotFound = NotFound
    Person <- Apart
    Linked <- EachLinked
    Handlers = {"login", "callback", "linkget", "linkpost", "me"}
    Faults = {}
    Drops = {}
    Modes = {TRUE}
SYMMETRY Twins
INVARIANTS AccountsStayApart
