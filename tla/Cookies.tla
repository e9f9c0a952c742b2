-------------------------------- MODULE Cookies --------------------------------
(***************************************************************************)
(* Cookies on their way between n8n and a browser (security/cookie.go):    *)
(* the gateway rewrites the attributes of n8n's Set-Cookie headers, adds   *)
(* its own cookies, and takes those out of the Cookie header again before  *)
(* it passes a request on.  The browser stores and sends cookies as RFC    *)
(* 6265 says.  A path is the directory a page is in.                       *)
(*                                                                         *)
(* Definitions named Wrong... are buggy forms of the one after them.       *)
(***************************************************************************)
EXTENDS Integers, Sequences, SequencesExt

CONSTANTS
    Names,      \* the names of n8n's cookies
    Paths,      \* values of the Path attribute n8n sends
    MaxAttrs,   \* bound: attributes of a Set-Cookie header
    MaxSets     \* bound: values given to cookies

Pages == {"/", "/rest", "/auth"}
None == 0

VARIABLES
    https,      \* the browser reaches the gateway over https
    secure,     \* cfg.CookieSecure
    jar,        \* the browser's cookies, oldest first
    latest,     \* history: the value n8n last gave a name, None if it cleared it
    session,    \* history: the session id last given, None if cleared
    count       \* values given so far

cookieVars == <<https, secure, jar, latest, session, count>>

Attr(key, val) == [key |-> key, val |-> val]
Flag(key) == Attr(key, "")

\* The elements of a sequence that are in a set, in their order.
Only(s, S) ==
    FoldLeft(LAMBDA out, x : IF x \in S THEN Append(out, x) ELSE out, <<>>, s)

-----------------------------------------------------------------------------
(* RewriteSetCookie: attributes stay where they are, Path, Secure and       *)
(* SameSite are added behind them where they are missing.                   *)

Has(attrs, key) == \E i \in DOMAIN attrs : attrs[i].key = key
Unless(present, attr) == IF present THEN <<>> ELSE <<attr>>

\* sameSiteValue
Tamed(attr, forceSecure) ==
    IF attr = Attr("samesite", "none") /\ ~forceSecure
    THEN Attr("samesite", "lax") ELSE attr

Dropped(attr, forceSecure) ==
    attr.key = "domain" \/ (attr.key = "secure" /\ ~forceSecure)

Kept(attrs, forceSecure) ==
    LET kept == Only(attrs, {a \in ToSet(attrs) : ~Dropped(a, forceSecure)})
    IN  [i \in DOMAIN kept |-> Tamed(kept[i], forceSecure)]

\* Wrong variants: the missing Path is not added; the missing Secure is not;
\* Domain stays.
WrongRewriteSetCookie(attrs, forceSecure) ==
    Kept(attrs, forceSecure)
    \o Unless(~forceSecure \/ Has(attrs, "secure"), Flag("secure"))
    \o Unless(Has(attrs, "samesite"), Attr("samesite", "lax"))
WrongInsecure(attrs, forceSecure) ==
    Kept(attrs, forceSecure)
    \o Unless(Has(attrs, "path"), Attr("path", "/"))
    \o Unless(Has(attrs, "samesite"), Attr("samesite", "lax"))
WrongDropped(attr, forceSecure) == attr.key = "secure" /\ ~forceSecure

RewriteSetCookie(attrs, forceSecure) ==
    Kept(attrs, forceSecure)
    \o Unless(Has(attrs, "path"), Attr("path", "/"))
    \o Unless(~forceSecure \/ Has(attrs, "secure"), Flag("secure"))
    \o Unless(Has(attrs, "samesite"), Attr("samesite", "lax"))

-----------------------------------------------------------------------------
(* The gateway's own cookies. *)

\* sameSiteForSessionCookie
ProxyAttrs(secureAttr) ==
    <<Attr("path", "/")>>
    \o (IF secureAttr THEN <<Flag("secure"), Attr("samesite", "none")>>
                      ELSE <<Attr("samesite", "lax")>>)

SetCookie(name, val, attrs) == [name |-> name, val |-> val, attrs |-> attrs]

\* ProxySessionCookies and N8NBridgeCookie
ProxySessionCookies(id) ==
    (IF secure THEN <<SetCookie("__Host-n8np_session", id, ProxyAttrs(TRUE))>>
               ELSE <<>>)
    \o <<SetCookie("n8np_session", id, ProxyAttrs(secure)),
         SetCookie("n8np_n8n_bridge", 1, ProxyAttrs(secure))>>

Clear(name, secureAttr) ==
    SetCookie(name, None, Append(ProxyAttrs(secureAttr), Flag("gone")))

\* Wrong variant: only the name of the current mode is cleared.
WrongClearProxySessionCookies ==
    <<Clear(IF secure THEN "__Host-n8np_session" ELSE "n8np_session", secure)>>

\* ClearProxySessionCookies and ClearN8NBridgeCookie
ClearProxySessionCookies ==
    (IF secure THEN <<Clear("__Host-n8np_session", TRUE),
                      Clear("n8np_session", TRUE)>>
               ELSE <<Clear("n8np_session", FALSE)>>)
    \o <<Clear("n8np_session", FALSE), Clear("n8np_n8n_bridge", secure)>>

\* Wrong variant: the plain session cookie is passed on.
WrongProxyCookieNames == {"__Host-n8np_session", "n8np_n8n_bridge"}

\* isProxyCookieName
ProxyCookieNames == {"__Host-n8np_session", "n8np_session", "n8np_n8n_bridge"}

\* n8n's cookies have names of their own.
ASSUME CookiesAssumption == MaxSets \in Nat /\ Names \cap ProxyCookieNames = {}

-----------------------------------------------------------------------------
(* The browser. *)

LastValue(attrs, key, default) ==
    LET at == {i \in DOMAIN attrs : attrs[i].key = key}
    IN  IF at = {} THEN default ELSE attrs[Max(at)].val

\* What a browser on the given page makes of a Set-Cookie header.
Cookie(set, page) ==
    [name |-> set.name, val |-> set.val, host |-> LastValue(set.attrs, "domain", "own"),
     path |-> LastValue(set.attrs, "path", page), secure |-> Has(set.attrs, "secure"),
     samesite |-> LastValue(set.attrs, "samesite", "lax")]

\* A cookie for another host, a Secure one over http, SameSite=None without
\* Secure and a __Host- cookie that is less than its name says are ignored.
Admitted(c) ==
    /\ c.host = "own"
    /\ c.secure => https
    /\ c.samesite = "none" => c.secure
    /\ c.name = "__Host-n8np_session" => c.secure /\ c.path = "/"

SameCookie(c, d) == c.name = d.name /\ c.path = d.path /\ c.host = d.host

\* A cookie set again keeps its age.
Store(cookies, set, page) ==
    LET c == Cookie(set, page)
        same == {i \in DOMAIN cookies : SameCookie(cookies[i], c)}
    IN  IF ~Admitted(c) THEN cookies
        ELSE IF Has(set.attrs, "gone")
             THEN Only(cookies, {d \in ToSet(cookies) : ~SameCookie(d, c)})
        ELSE IF same # {} THEN [i \in DOMAIN cookies |->
                                   IF i \in same THEN c ELSE cookies[i]]
        ELSE Append(cookies, c)

\* The Cookie header of a request: the longest path first, then by age.
Header(page) ==
    LET sent == {c \in ToSet(jar) : c.path \in {"/", page}}
    IN  Only(jar, {c \in sent : c.path # "/"}) \o Only(jar, {c \in sent : c.path = "/"})

-----------------------------------------------------------------------------
(* SanitizedUpstreamCookieHeader: the last value of a name, where the name  *)
(* first stood.                                                             *)

\* Wrong variant: the first value of a name.
WrongKeep(out, c) ==
    IF c.name \in ProxyCookieNames \/ Has([i \in DOMAIN out |->
           Attr(out[i].name, "")], c.name) THEN out
    ELSE Append(out, [name |-> c.name, val |-> c.val])

Keep(out, c) ==
    LET at == {i \in DOMAIN out : out[i].name = c.name}
    IN  IF c.name \in ProxyCookieNames THEN out
        ELSE IF at # {} THEN [i \in DOMAIN out |->
                  IF i \in at THEN [out[i] EXCEPT !.val = c.val] ELSE out[i]]
        ELSE Append(out, [name |-> c.name, val |-> c.val])

SanitizedUpstreamCookieHeader(header) == FoldLeft(Keep, <<>>, header)

-----------------------------------------------------------------------------
\* A cookie n8n gave the browser for the whole domain, before there was a
\* gateway.
Older == [name |-> "auth", val |-> None, host |-> "parent", path |-> "/",
          secure |-> FALSE, samesite |-> "lax"]

\* Without COOKIE_SECURE the scheme decides; COOKIE_SECURE=true needs https.
CookiesInit ==
    /\ https \in BOOLEAN /\ secure \in {https, FALSE}
    /\ jar \in {<<>>, <<Older>>}
    /\ latest = [name \in Names |-> None]
    /\ session = None
    /\ count = 0

Attributes ==
    {Attr("domain", "n8n"), Flag("secure"), Flag("httponly"),
     Attr("samesite", "none"), Attr("samesite", "strict"), Flag("gone")}
    \cup {Attr("path", p) : p \in Paths}

\* RewriteSetCookies and writeN8NCookies
N8NSets(name, raw, page) ==
    LET attrs == RewriteSetCookie(raw, secure)
    IN  /\ count < MaxSets
        /\ count' = count + 1
        /\ jar' = Store(jar, SetCookie(name, count', attrs), page)
        /\ latest' = [latest EXCEPT ![name] =
                         IF Has(raw, "gone") THEN None ELSE count']
        /\ UNCHANGED <<https, secure, session>>

StoreAll(sets, page) ==
    FoldLeft(LAMBDA cookies, set : Store(cookies, set, page), jar, sets)

ProxySets(page) ==
    /\ count < MaxSets
    /\ count' = count + 1
    /\ session' = count'
    /\ jar' = StoreAll(ProxySessionCookies(count'), page)
    /\ UNCHANGED <<https, secure, latest>>

ProxyClears(page) ==
    /\ session' = None
    /\ jar' = StoreAll(ClearProxySessionCookies, page)
    /\ UNCHANGED <<https, secure, latest, count>>

CookiesNext == \E page \in Pages :
    \/ \E name \in Names, raw \in SeqOf(Attributes, MaxAttrs) :
          N8NSets(name, raw, page)
    \/ ProxySets(page)
    \/ ProxyClears(page)

-----------------------------------------------------------------------------
(* Properties. *)

\* The jar holds a cookie once, and only what a browser accepts; each of the
\* gateway's and of n8n's is Secure exactly when COOKIE_SECURE holds.
CookiesTypeOK ==
    /\ https \in BOOLEAN /\ secure \in {https, FALSE}
    /\ \A i \in DOMAIN jar :
          jar[i] = Older \/ (Admitted(jar[i]) /\ jar[i].secure = secure)
    /\ \A i, j \in DOMAIN jar : SameCookie(jar[i], jar[j]) => i = j
    /\ latest \in [Names -> 0..MaxSets] /\ session \in 0..MaxSets
    /\ count \in 0..MaxSets

ValuesIn(header, names) ==
    {header[i].val : i \in {j \in DOMAIN header : header[j].name \in names}}

\* Whatever attributes n8n sends, from every page it gets the value back that
\* it gave last, not one from before the gateway (cookie.go:107-159, 185-213).
CookieReachesN8N ==
    \A page \in Pages, name \in Names :
        LET values == ValuesIn(SanitizedUpstreamCookieHeader(Header(page)), {name})
        IN  IF latest[name] = None THEN values \subseteq {None}
            ELSE values = {latest[name]}

\* From every page the gateway gets the session id back that it gave last,
\* under whichever name, and after a logout none (cookie.go:19-74).
SessionFollowsBrowser ==
    \A page \in Pages :
        ValuesIn(Header(page), {"__Host-n8np_session", "n8np_session"}) =
            IF session = None THEN {} ELSE {session}

\* No cookie the gateway gave a browser for itself goes on to n8n with a
\* proxied request; its own calls for a logout and for the current user pass the
\* Cookie header as it is (cookie.go:185-222, server.go:295, 303, 456).
ProxyCookiesStayHere ==
    \A page \in Pages :
        LET header == SanitizedUpstreamCookieHeader(Header(page))
            own == ProxySessionCookies(1)
        IN  ValuesIn(header, {own[i].name : i \in DOMAIN own}) = {}
=============================================================================
