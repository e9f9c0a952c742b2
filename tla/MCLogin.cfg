\* Logins and logouts of two people sharing a browser, across restarts.
SPECIFICATION Spec
CONSTANTS
    Req = {r1, r2}
    b1 = b1
    b2 = b2
    u1 = u1
    u2 = u2
    c1 = c1
    c2 = c2
    Browser = {b1}
    User = {u1, u2}
    Cred = {c1}
    Sid = {i1, i2}
    Token = {}
    State = {s1, s2}
    SessionTTL = 0
    OidcTTL = 1
    MaxTime = 0
    NotFound = NotFound
    Person <- Family
    Linked <- FirstLinked
    Handlers = {"login", "callback", "logout", "n8nlogout"}
    Faults = {"store", "restart"}
    Drops = {}
    Modes = {TRUE, FALSE}
SYMMETRY Interchange
INVARIANTS SessionKeepsIdentity OneSessionPerLogin LoggedOutStaysOut
