\* Trips on which anything may fail and sessions run out.
SPECIFICATION TripSpec
CONSTANTS
    Req = {r1}
    b1 = b1
    b2 = b2
    u1 = u1
    u2 = u2
    c1 = c1
    c2 = c2
    Browser = {b1}
    User = {u1, u2}
    Cred = {c1}
    Sid = {i1, i2}
    Token = {t1}
    State = {s1, s2}
    SessionTTL = 1
    OidcTTL = 1
    MaxTime = 2
    NotFound = NotFound
    MaxHops = 8
    Person <- Family
    Linked <- FirstLinked
    Handlers = {"login", "callback", "console", "linkget", "logout", "signout"}
    Faults = {"store", "n8n", "oidc", "password"}
    Drops = {"bridge", "n8n"}
    Modes = {TRUE}
INVARIANTS NoRedirectLoop
PROPERTIES TripEnds 
