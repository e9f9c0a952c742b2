\* Linking and unlinking, and what follows a link, while sessions run out.
SPECIFICATION Spec
CONSTANTS
    Req = {r1, r2}
    b1 = b1
    b2 = b2
    u1 = u1
    u2 = u2
    c1 = c1
    c2 = c2
    Browser = {b1}
    User = {u1}
    Cred = {c1}
    Sid = {i1}
    Token = {t1}
    State = {s1}
    SessionTTL = 1
    OidcTTL = 1
    MaxTime = 2
    NotFound = NotFound
    Person <- Alone
    Linked <- NobodyLinked
    Handlers = {"login", "callback", "linkget", "linkpost", "linkdelete", "console", "alias", "me"}
    Faults = {"store", "vault", "n8n", "lost"}
    Drops = {}
    Modes = {TRUE}
SYMMETRY Interchange
INVARIANTS TypeOK SessionKeepsIdentity VaultHoldsAcceptedCredentials
PROPERTIES CredentialChangeNeedsForm ConsoleWithinDeadline
