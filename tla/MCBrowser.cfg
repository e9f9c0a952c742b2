\* Every spelling of short paths; n8n's cookies and the gateway's own, on
\* https and on http.
SPECIFICATION Spec
CONSTANTS
    Words = {"rest", "login", "logout", "auth", "signout", "webhook"}
    MaxLen = 3
    Names = {"auth", "browser"}
    Paths = {"/"}
    MaxAttrs = 2
    MaxSets = 4
INVARIANTS TypeOK TargetIsServed
INVARIANTS CookieReachesN8N SessionFollowsBrowser ProxyCookiesStayHere
PROPERTIES SpellingDoesNotMatter
