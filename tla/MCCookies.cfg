\* Cookies get lost, passwords change, people log in and out.
SPECIFICATION Spec
CONSTANTS
    Req = {r1, r2}
    b1 = b1
    b2 = b2
    u1 = u1
    u2 = u2
    c1 = c1
    c2 = c2
    Browser = {b1}
    User = {u1}
    Cred = {c1}
    Sid = {i1}
    Token = {}
    State = {s1, s2}
    SessionTTL = 0
    OidcTTL = 1
    MaxTime = 0
    NotFound = NotFound
    Person <- Alone
    Linked <- FirstLinked
    Handlers = {"login", "callback", "console", "me", "logout", "n8nlogout", "signout"}
    Faults = {"lost", "password", "n8n"}
    Drops = {"sid", "bridge"}
    Modes = {TRUE}
SYMMETRY Interchange
INVARIANTS MarkerMeansN8NCookie
