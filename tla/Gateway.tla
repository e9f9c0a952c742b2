------------------------------- MODULE Gateway -------------------------------
(***************************************************************************)
(* The HTTP handlers of internal/httpserver/server.go, serving concurrent  *)
(* requests of browsers.  A request is a process: it carries the cookies   *)
(* its browser had when it was sent, takes one step per call to Redis,     *)
(* Vault, n8n or the identity provider, and ends with a response whose     *)
(* Set-Cookie headers reach the browser when it is delivered.  Code        *)
(* between two calls belongs to the step of the call before it.            *)
(*                                                                         *)
(* GetSession and CreateSession are one step each here: RedisStore shows   *)
(* that callers cannot tell.  As in RedisKeys, a definition named Wrong... *)
(* is a buggy form of the one after it that no behaviour uses.             *)
(***************************************************************************)
EXTENDS RedisKeys, FiniteSets, Sequences

CONSTANTS
    Req,        \* slots for requests in flight
    Browser,
    Person,     \* who logs in from each browser, in [Browser -> SUBSET User]
    Cred,       \* n8n login id and password; each opens an account of its own
    Linked,     \* the credentials Vault holds at the start
    Handlers,   \* the routes browsers use
    Faults,     \* what may fail: see FaultKinds
    Drops,      \* the cookies that may go without the gateway: lost by the
                \* browser, or cleared by n8n in a proxied answer
    Modes,      \* values COOKIE_SECURE takes from one start to the next
    MaxTime     \* bound of the clock

SessionHandlers == {"alias", "linkget", "linkpost", "linkdelete",
                    "console", "me"}
HandlerKinds == SessionHandlers \cup
    {"login", "callback", "logout", "n8nlogout", "signout"}
FaultKinds == {"store", "vault", "n8n", "oidc", "password", "restart", "lost"}

ASSUME GatewayAssumption ==
    /\ Person \in [Browser -> SUBSET User]
    /\ Linked \in [User -> Cred \cup {NotFound}]
    /\ Handlers \subseteq HandlerKinds
    /\ Faults \subseteq FaultKinds
    /\ Drops \subseteq {"sid", "bridge", "n8n"}
    /\ Modes \subseteq BOOLEAN /\ Modes # {}
    /\ MaxTime \in Nat
    /\ NotFound \notin Cred \cup Browser

VARIABLES
    secure,     \* cfg.CookieSecure of the running process
    vault,      \* the credential stored for each user
    accepted,   \* external: the credentials n8n accepts
    askedBy,    \* external: the browser sent to the IdP with a state
    idp,        \* external: who logged in at the IdP for a state
    jar,        \* the cookies of each browser
    forms,      \* the CSRF tokens on the link pages a browser has open
    pc, rq, resp,
    drawn,      \* history: random states drawn
    issued,     \* history: the CSRF tokens drawn for a session
    origin,     \* history: the state whose callback created a session
    holder,     \* history: the identity it was created for
    bearer,     \* history: the browser whose callback created it
    deadline,   \* history: its first ExpiresAt
    validated,  \* history: <<user, credential>> that n8n accepted
    loggedOut   \* history: sessions deleted by a completed logout

external == <<accepted, askedBy, idp>>
browsers == <<jar, forms>>
history  == <<drawn, issued, origin, holder, bearer, deadline, validated,
              loggedOut>>
vars == <<now, keys, secure, vault, external, browsers, pc, rq, resp, history>>

-----------------------------------------------------------------------------
Jar == [plain  : Sid \cup {NotFound},      \* n8np_session
        host   : Sid \cup {NotFound},      \* __Host-n8np_session
        bridge : BOOLEAN,                  \* n8np_n8n_bridge
        n8n    : Cred \cup {NotFound}]     \* n8n's own session cookie

EmptyJar == [plain |-> NotFound, host |-> NotFound, bridge |-> FALSE,
             n8n |-> NotFound]

\* Wrong variants: a cookie without a value counts; only one name is read.
WrongCookieIds(j) == <<j.plain, j.host>>
WrongFirstCookie(j) ==
    IF j.plain = NotFound THEN <<>> ELSE <<j.plain>>

\* sessionCookieIDs: the plain name first, each value once.
CookieIds(j) ==
    LET some(id) == IF id = NotFound THEN <<>> ELSE <<id>>
    IN  IF j.plain = j.host THEN some(j.plain)
                            ELSE some(j.plain) \o some(j.host)

\* The locals of a request.
Blank == [h |-> "signout", b |-> NotFound, ids |-> <<>>, out |-> {},
          bridge |-> FALSE, n8n |-> NotFound, form |-> NotFound,
          cred |-> NotFound, st |-> NotFound, code |-> NotFound,
          id |-> NotFound, copy |-> NotFound]

\* The response under construction.
NoResponse == [to |-> "none", cause |-> "none", sid |-> "keep",
               bridge |-> "keep", n8n |-> "keep", page |-> NotFound,
               st |-> NotFound]

Init ==
    /\ KeysInit
    /\ secure \in Modes
    /\ vault = Linked
    /\ accepted = Cred
    /\ askedBy = [s \in State |-> NotFound]
    /\ idp = [s \in State |-> NotFound]
    /\ jar = [b \in Browser |-> EmptyJar]
    /\ forms = [b \in Browser |-> {}]
    /\ pc = [r \in Req |-> "idle"]
    /\ rq = [r \in Req |-> Blank]
    /\ resp = [r \in Req |-> NoResponse]
    /\ drawn = {}
    /\ issued = [id \in Sid |-> {}]
    /\ origin = [id \in Sid |-> NotFound]
    /\ holder = [id \in Sid |-> NotFound]
    /\ bearer = [id \in Sid |-> NotFound]
    /\ deadline = [id \in Sid |-> 0]
    /\ validated = {p \in User \X Cred : Linked[p[1]] = p[2]}
    /\ loggedOut = {}

-----------------------------------------------------------------------------
(* How a step moves its request. *)

At(r, p) == pc[r] = p
Goto(r, p) == pc' = [pc EXCEPT ![r] = p]
Serves(r, handlers) == rq[r].h \in handlers

\* The handler returns; only the response is left of its locals.
Leave(r) ==
    /\ Goto(r, "done")
    /\ rq' = [rq EXCEPT ![r] = [Blank EXCEPT !.h = rq[r].h, !.b = rq[r].b]]

Respond(r, to) == Leave(r) /\ resp' = [resp EXCEPT ![r].to = to]

\* Wrong variants: the n8n cookie, or the marker, is forgotten.
WrongMarkerOnly(r, to) ==
    Leave(r) /\ resp' = [resp EXCEPT ![r].to = to, ![r].bridge = "set"]
WrongCookieOnly(r, to) ==
    Leave(r) /\ resp' = [resp EXCEPT ![r].to = to, ![r].n8n = rq[r].cred]

\* writeN8NCookies and the bridge marker, after n8n.Login.
RespondLoggedIn(r, to) ==
    /\ Leave(r)
    /\ resp' = [resp EXCEPT ![r].to = to, ![r].n8n = rq[r].cred,
                            ![r].bridge = "set"]

\* Wrong variants: a refused credential sends the browser back to where it
\* came from; every login error blames the form.
WrongRetry(r, cause) ==
    /\ Leave(r)
    /\ resp' = [resp EXCEPT ![r].cause = cause, ![r].to = "return"]
WrongLoginError(r, cause) ==
    /\ Leave(r)
    /\ resp' = [resp EXCEPT ![r].cause = cause, ![r].to = "400"]

\* handleN8NLoginError
RespondLoginError(r, cause) ==
    /\ Leave(r)
    /\ resp' = [resp EXCEPT
                  ![r].cause = cause,
                  ![r].to = IF cause = "limited" THEN "429"
                            ELSE IF Serves(r, {"linkpost"}) THEN "400"
                            ELSE "relink"]

sharedButStore == <<now, secure, vault, external, browsers>>
shared == <<sharedButStore, keys>>

-----------------------------------------------------------------------------
(* Requests arrive. *)

Carried(b) == [Blank EXCEPT !.b = b, !.ids = CookieIds(jar[b]),
                            !.bridge = jar[b].bridge, !.n8n = jar[b].n8n]

Receive(r, b, h) ==
    /\ At(r, "idle") /\ h \in Handlers
    /\ UNCHANGED <<shared, history>>

\* The routes that start by looking the session up.
ReceiveWithSession(r, b, h) ==
    /\ Receive(r, b, h) /\ h \in {"login", "alias", "linkget", "console", "me"}
    /\ rq' = [rq EXCEPT ![r] = [Carried(b) EXCEPT !.h = h]]
    /\ IF CookieIds(jar[b]) # <<>>
       THEN Goto(r, "lookup") /\ UNCHANGED resp
       ELSE IF h = "login"
       THEN Goto(r, "state") /\ UNCHANGED resp
       ELSE Goto(r, "done") /\ resp' = [resp EXCEPT ![r].to = "login"]

\* POST (or DELETE) /n8n-link with the token of an open page, or none.
ReceiveForm(r, b, h, t, c) ==
    /\ Receive(r, b, h) /\ h \in {"linkpost", "linkdelete"}
    /\ h = "linkdelete" => c = NotFound
    /\ rq' = [rq EXCEPT ![r] = [Carried(b) EXCEPT !.h = h, !.form = t,
                                                  !.cred = c]]
    /\ IF CookieIds(jar[b]) # <<>>
       THEN Goto(r, "lookup") /\ UNCHANGED resp
       ELSE Goto(r, "done") /\ resp' = [resp EXCEPT ![r].to = "login"]

\* The logins that the identity provider has finished.
Finished == {s \in State : idp[s] # NotFound}

\* The identity provider sends a browser back.  Either parameter may be
\* missing, the two may be of different logins, and nothing ties them to the
\* browser that asked: the state is looked up in Redis alone.
ReceiveCallback(r, b, s, code) ==
    /\ Receive(r, b, "callback")
    /\ rq' = [rq EXCEPT ![r] = [Carried(b) EXCEPT !.h = "callback", !.st = s,
                                                  !.code = code]]
    /\ IF NotFound \in {s, code}
       THEN Goto(r, "done") /\ resp' = [resp EXCEPT ![r].to = "400"]
       ELSE Goto(r, "take") /\ UNCHANGED resp

ReceiveLogout(r, b) ==
    /\ Receive(r, b, "logout")
    /\ LET ids == CookieIds(jar[b])
       IN  /\ rq' = [rq EXCEPT ![r] = [Carried(b) EXCEPT !.h = "logout",
                      !.out = {jar[b].plain, jar[b].host} \ {NotFound}]]
           /\ Goto(r, IF ids = <<>> THEN "n8nlogout" ELSE "delete")
    /\ UNCHANGED resp

ReceiveN8NLogout(r, b) ==
    /\ Receive(r, b, "n8nlogout")
    /\ rq' = [rq EXCEPT ![r] = [Carried(b) EXCEPT !.h = "n8nlogout"]]
    /\ Goto(r, "n8nlogout")
    /\ UNCHANGED resp

\* handleN8NSignout makes no call.
ReceiveSignout(r, b) ==
    /\ Receive(r, b, "signout")
    /\ rq' = [rq EXCEPT ![r] = [Blank EXCEPT !.b = b]]
    /\ Goto(r, "done")
    /\ resp' = [resp EXCEPT ![r].to = "root", ![r].bridge = "clear"]

-----------------------------------------------------------------------------
(* lookupSessionFromCookies, requireSession and what each handler does next. *)

AfterSession(q) ==
    CASE q.h \in {"linkget", "linkpost", "linkdelete"} -> "csrf"
      [] q.h = "console" /\ q.bridge -> "proxy"
      [] q.h = "me" /\ q.bridge -> "current"
      [] OTHER -> "vault"

LookupFound(r) ==
    /\ At(r, "lookup")
    /\ LET id == Head(rq[r].ids)
       IN  /\ LiveSession(id) # NotFound
           /\ rq' = [rq EXCEPT ![r].id = id, ![r].copy = LiveSession(id),
                               ![r].ids = <<>>]
    /\ Goto(r, AfterSession(rq[r]))
    /\ UNCHANGED <<shared, resp, history>>

\* ErrNotFound: try the next id; after the last one clear the cookies.
LookupMissing(r) ==
    /\ At(r, "lookup")
    /\ LET id == Head(rq[r].ids)
           rest == Tail(rq[r].ids)
       IN  /\ LiveSession(id) = NotFound
           /\ \/ StoredSession(id) # NotFound /\ DelSession(id)
              \/ StoredSession(id) = NotFound /\ UNCHANGED <<sess, csrf>>
              \/ "store" \in Faults /\ UNCHANGED <<sess, csrf>>
           /\ IF rest # <<>>
              THEN /\ rq' = [rq EXCEPT ![r].ids = rest]
                   /\ UNCHANGED <<pc, resp>>
              ELSE IF Serves(r, {"login"})
              THEN /\ rq' = [rq EXCEPT ![r].ids = <<>>]
                   /\ Goto(r, "state")
                   /\ resp' = [resp EXCEPT ![r].sid = "clear"]
              ELSE /\ Leave(r)
                   /\ resp' = [resp EXCEPT ![r].sid = "clear",
                                           ![r].to = "login"]
    /\ UNCHANGED <<sharedButStore, oidc, history>>

LookupFails(r) ==
    /\ At(r, "lookup") /\ "store" \in Faults
    /\ Respond(r, "503")
    /\ UNCHANGED <<shared, history>>

-----------------------------------------------------------------------------
(* handleAuthLogin without a session: start an OIDC login. *)

StartLogin(r, s) ==
    /\ At(r, "state") /\ s \notin drawn
    /\ SetState(s)
    /\ drawn' = drawn \cup {s}
    /\ Leave(r)
    /\ resp' = [resp EXCEPT ![r].to = "idp", ![r].st = s]
    /\ UNCHANGED <<sharedButStore, sess, csrf, issued, origin, holder,
                   bearer, deadline, validated, loggedOut>>

StartLoginFails(r, s) ==
    /\ At(r, "state") /\ s \notin drawn /\ "store" \in Faults
    /\ SetState(s) \/ UNCHANGED oidc
    /\ drawn' = drawn \cup {s}
    /\ Respond(r, "503")
    /\ UNCHANGED <<sharedButStore, sess, csrf, issued, origin, holder,
                   bearer, deadline, validated, loggedOut>>

\* No randomness: here, when no state is left to draw.
RandomFails(r) ==
    /\ At(r, "state") /\ drawn = State
    /\ Respond(r, "500")
    /\ UNCHANGED <<shared, history>>

-----------------------------------------------------------------------------
(* handleAuthCallback. *)

TakeState(r) ==
    /\ At(r, "take") /\ StoredState(rq[r].st) # NotFound
    /\ GetDelState(rq[r].st)
    /\ Goto(r, "exchange")
    /\ UNCHANGED <<sharedButStore, sess, csrf, rq, resp, history>>

TakeStateFails(r) ==
    /\ At(r, "take")
    /\ \/ StoredState(rq[r].st) = NotFound /\ UNCHANGED oidc
       \/ "store" \in Faults /\ (GetDelState(rq[r].st) \/ UNCHANGED oidc)
    /\ Respond(r, "400")
    /\ UNCHANGED <<sharedButStore, sess, csrf, history>>

\* Wrong variant: neither is compared.
WrongCodeMatches(q) == TRUE

\* The verifier and the nonce stored with the state must be those of the
\* code; the provider might accept a code twice.
CodeMatches(q) == q.code = q.st

Exchange(r) ==
    /\ At(r, "exchange") /\ CodeMatches(rq[r])
    /\ Goto(r, "create")
    /\ UNCHANGED <<shared, rq, resp, history>>

ExchangeFails(r) ==
    /\ At(r, "exchange")
    /\ ~CodeMatches(rq[r]) \/ "oidc" \in Faults
    /\ Respond(r, "401")
    /\ UNCHANGED <<shared, history>>

CreateSession(r, id) ==
    LET v == NewSession(idp[rq[r].code])
    IN  /\ At(r, "create") /\ holder[id] = NotFound
        /\ SetSession(id, v)
        /\ origin' = [origin EXCEPT ![id] = rq[r].st]
        /\ holder' = [holder EXCEPT ![id] = v.user]
        /\ bearer' = [bearer EXCEPT ![id] = rq[r].b]
        /\ deadline' = [deadline EXCEPT ![id] = v.exp]
        /\ \/ /\ Goto(r, "vault")
              /\ rq' = [rq EXCEPT ![r].id = id, ![r].copy = v]
              /\ resp' = [resp EXCEPT ![r].sid = id]
           \/ "store" \in Faults /\ Respond(r, "503")
        /\ UNCHANGED <<sharedButStore, csrf, oidc, drawn, issued, validated,
                       loggedOut>>

CreateSessionFails(r) ==
    /\ At(r, "create")
    /\ "store" \in Faults \/ \A id \in Sid : holder[id] # NotFound
    /\ Respond(r, "503")
    /\ UNCHANGED <<shared, history>>

\* The second look at the session, after n8n accepted the credential.
Reload(r) ==
    LET v == LiveSession(rq[r].id)
    IN  /\ At(r, "reload") /\ v # NotFound
        /\ rq' = [rq EXCEPT ![r].copy = v]
        /\ Goto(r, "save")
        /\ UNCHANGED <<shared, resp, history>>

ReloadFails(r) ==
    LET id == rq[r].id
    IN  /\ At(r, "reload")
        /\ \/ LiveSession(id) = NotFound /\ StoredSession(id) # NotFound
              /\ DelSession(id)
           \/ LiveSession(id) = NotFound /\ StoredSession(id) = NotFound
              /\ UNCHANGED <<sess, csrf>>
           \/ "store" \in Faults /\ UNCHANGED <<sess, csrf>>
        /\ Respond(r, "503")
        /\ UNCHANGED <<sharedButStore, oidc, history>>

-----------------------------------------------------------------------------
(* getCredential and n8n.Login: callback, login, alias, console, me; the    *)
(* link page only asks whether a credential is there.                       *)

UserOf(r) == rq[r].copy.user

GetCredential(r) ==
    LET c == vault[UserOf(r)]
    IN  /\ At(r, "vault")
        /\ \/ Serves(r, {"linkget"}) /\ Respond(r, "page")
           \/ /\ ~Serves(r, {"linkget"}) /\ c = NotFound
              /\ Respond(r, "link")
           \/ /\ ~Serves(r, {"linkget"}) /\ c # NotFound
              /\ rq' = [rq EXCEPT ![r].cred = c]
              /\ Goto(r, "n8nlogin")
              /\ UNCHANGED resp
        /\ UNCHANGED <<shared, history>>

GetCredentialFails(r) ==
    /\ At(r, "vault") /\ "vault" \in Faults
    /\ Respond(r, "503")
    /\ UNCHANGED <<shared, history>>

\* handleLinkPost stores what n8n accepted; the callback looks at its session
\* again; the others answer at once.
N8NLogin(r) ==
    /\ At(r, "n8nlogin") /\ rq[r].cred \in accepted
    /\ \/ /\ Serves(r, {"linkpost"})
          /\ validated' = validated \cup {<<UserOf(r), rq[r].cred>>}
          /\ Goto(r, "put") /\ UNCHANGED <<rq, resp>>
       \/ /\ Serves(r, {"callback"})
          /\ Goto(r, "reload") /\ UNCHANGED <<rq, resp, validated>>
       \/ /\ Serves(r, {"me"})
          /\ RespondLoggedIn(r, "me") /\ UNCHANGED validated
       \/ /\ Serves(r, {"login", "alias", "console"})
          /\ RespondLoggedIn(r, "return") /\ UNCHANGED validated
    /\ UNCHANGED <<shared, drawn, issued, origin, holder, bearer, deadline,
                   loggedOut>>

\* 400 and 401 (a wrong password, or MFA), 429, and everything else.
N8NLoginFails(r, cause) ==
    /\ At(r, "n8nlogin")
    /\ \/ cause = "refused" /\ rq[r].cred \notin accepted
       \/ cause \in {"limited", "down"} /\ "n8n" \in Faults
    /\ RespondLoginError(r, cause)
    /\ UNCHANGED <<shared, history>>

-----------------------------------------------------------------------------
(* SaveSession: the copy the request read earlier, linked or not.  The      *)
(* callback reports an error, the link handlers ignore it.                  *)

SaveSession(r) ==
    /\ At(r, "save")
    /\ SetSession(rq[r].id,
                  [rq[r].copy EXCEPT !.linked = ~Serves(r, {"linkdelete"})])
    /\ \/ Serves(r, {"callback"}) /\ RespondLoggedIn(r, "return")
       \/ Serves(r, {"linkpost"}) /\ RespondLoggedIn(r, "root")
       \/ Serves(r, {"linkdelete"}) /\ Respond(r, "link")
    /\ UNCHANGED <<sharedButStore, csrf, oidc, history>>

SaveSessionFails(r) ==
    /\ At(r, "save") /\ "store" \in Faults
    /\ \/ SetSession(rq[r].id,
                     [rq[r].copy EXCEPT !.linked = ~Serves(r, {"linkdelete"})])
       \/ UNCHANGED sess
    /\ \/ Serves(r, {"callback"}) /\ Respond(r, "503")
       \/ Serves(r, {"linkpost"}) /\ RespondLoggedIn(r, "root")
       \/ Serves(r, {"linkdelete"}) /\ Respond(r, "link")
    /\ UNCHANGED <<sharedButStore, csrf, oidc, history>>

-----------------------------------------------------------------------------
(* CSRF: handleLinkGet reads or sets the token, validateCSRF compares it.   *)

LinkPageToken(r) ==
    /\ At(r, "csrf") /\ Serves(r, {"linkget"})
    /\ LET t == StoredToken(rq[r].id)
       IN  IF t = NotFound
           THEN Goto(r, "setcsrf") /\ UNCHANGED resp
           ELSE Goto(r, "vault") /\ resp' = [resp EXCEPT ![r].page = t]
    /\ UNCHANGED <<shared, rq, history>>

\* Reading and setting are two commands: another page may set a token between.
SetCSRF(r, t) ==
    /\ At(r, "setcsrf") /\ t \notin UNION {issued[id] : id \in Sid}
    /\ issued' = [issued EXCEPT ![rq[r].id] = @ \cup {t}]
    /\ \/ /\ SetToken(rq[r].id, t)
          /\ resp' = [resp EXCEPT ![r].page = t]
          /\ Goto(r, "vault")
          /\ UNCHANGED rq
       \/ /\ "store" \in Faults
          /\ SetToken(rq[r].id, t) \/ UNCHANGED csrf
          /\ Respond(r, "503")
    /\ UNCHANGED <<sharedButStore, sess, oidc, drawn, origin, holder, bearer,
                   deadline, validated, loggedOut>>

LinkPageFails(r) ==
    /\ \/ At(r, "csrf") /\ Serves(r, {"linkget"}) /\ "store" \in Faults
       \/ At(r, "setcsrf") /\ UNION {issued[id] : id \in Sid} = Token
    /\ Respond(r, "503")
    /\ UNCHANGED <<shared, history>>

\* Wrong variants: a form without a token passes; the credential is stored
\* before n8n is asked.
WrongTokenMatches(q) == q.form \in {NotFound, StoredToken(q.id)}
WrongAfterForm(q) == IF q.h = "linkdelete" THEN "delcred" ELSE "put"

TokenMatches(q) ==
    q.form # NotFound /\ StoredToken(q.id) = q.form

AfterForm(q) == IF q.h = "linkdelete" THEN "delcred" ELSE "n8nlogin"

ValidateCSRF(r) ==
    /\ At(r, "csrf") /\ Serves(r, {"linkpost", "linkdelete"})
    /\ TokenMatches(rq[r])
    /\ \/ /\ Serves(r, {"linkdelete"}) \/ rq[r].cred # NotFound
          /\ Goto(r, AfterForm(rq[r]))
          /\ UNCHANGED <<rq, resp>>
       \/ /\ Serves(r, {"linkpost"}) /\ rq[r].cred = NotFound
          /\ Respond(r, "400")
    /\ UNCHANGED <<shared, history>>

ValidateCSRFFails(r) ==
    /\ At(r, "csrf") /\ Serves(r, {"linkpost", "linkdelete"})
    /\ ~TokenMatches(rq[r]) \/ "store" \in Faults
    /\ Respond(r, "403")
    /\ UNCHANGED <<shared, history>>

-----------------------------------------------------------------------------
(* putCredential and deleteCredential. *)

sharedButVault == <<now, keys, secure, external, browsers>>

\* Wrong variant: the path does not depend on the subject.
WrongWriteVault(r) ==
    vault' = [u \in User |-> IF At(r, "put") THEN rq[r].cred ELSE NotFound]

WriteVault(r) ==
    vault' = [vault EXCEPT ![UserOf(r)] =
                IF At(r, "put") THEN rq[r].cred ELSE NotFound]

UpdateCredential(r) ==
    /\ pc[r] \in {"put", "delcred"}
    /\ WriteVault(r)
    /\ Goto(r, "save")
    /\ UNCHANGED <<sharedButVault, rq, resp, history>>

UpdateCredentialFails(r) ==
    /\ pc[r] \in {"put", "delcred"} /\ "vault" \in Faults
    /\ WriteVault(r) \/ UNCHANGED vault
    /\ Respond(r, "503")
    /\ UNCHANGED <<sharedButVault, history>>

-----------------------------------------------------------------------------
(* Logout.  handleProxyLogout deletes every session the cookies name, then  *)
(* both logout handlers call n8n; no error stops them.                      *)

DeleteSession(r) ==
    /\ At(r, "delete")
    /\ LET id == Head(rq[r].ids)
           rest == Tail(rq[r].ids)
       IN  /\ \/ /\ DelSession(id)
                 /\ rq' = [rq EXCEPT ![r].ids = rest]
              \/ /\ "store" \in Faults /\ UNCHANGED <<sess, csrf>>
                 /\ rq' = [rq EXCEPT ![r].ids = rest, ![r].out = @ \ {id}]
           /\ Goto(r, IF rest = <<>> THEN "n8nlogout" ELSE "delete")
    /\ UNCHANGED <<sharedButStore, oidc, resp, history>>

\* n8n's answer clears its own cookie; without an answer the cookie stays.
LogoutAnswers == {"clear"} \cup (IF "n8n" \in Faults THEN {"keep"} ELSE {})

N8NLogout(r) ==
    /\ At(r, "n8nlogout")
    /\ \E cookie \in LogoutAnswers :
        resp' = [resp EXCEPT ![r].to = "root", ![r].bridge = "clear",
                   ![r].n8n = cookie,
                   ![r].sid = IF Serves(r, {"logout"}) THEN "clear" ELSE @]
    /\ Leave(r)
    /\ loggedOut' = loggedOut \cup rq[r].out
    /\ UNCHANGED <<shared, drawn, issued, origin, holder, bearer, deadline,
                   validated>>

-----------------------------------------------------------------------------
(* GET /rest/login with the marker, and the console itself. *)

\* n8n can name a user only for its own cookie, and may have ended that
\* session.
MayBeLoggedIn(q) == q.n8n # NotFound

\* n8n may leave its cookie as it is, or renew the one it was sent for the
\* same account.
Renewals(r) == {resp[r].n8n} \cup ({rq[r].n8n} \ {NotFound})

\* A request whose cookies n8n refuses may have them cleared by a proxied
\* answer: one more way to lose n8n's cookie without the gateway.
ProxiedCookies(r) ==
    Renewals(r) \cup (IF "n8n" \in Drops THEN {"clear"} ELSE {})

\* n8n's answer reaches the browser with n8n's own Set-Cookie headers.
Relay(r, to, cookies) ==
    /\ Leave(r)
    /\ \E cookie \in cookies :
          resp' = [resp EXCEPT ![r].to = to, ![r].n8n = cookie]

\* n8n says who is logged in, or the gateway logs in with the stored
\* credential.
CurrentUser(r) ==
    /\ At(r, "current")
    /\ \/ MayBeLoggedIn(rq[r]) /\ Relay(r, "me", Renewals(r))
       \/ Goto(r, "vault") /\ UNCHANGED <<rq, resp>>
    /\ UNCHANGED <<shared, history>>

\* Only the marker was looked at: n8n decides on its own cookie.
ProxyConsole(r) ==
    /\ At(r, "proxy")
    /\ \/ Relay(r, "console", ProxiedCookies(r))
       \/ "n8n" \in Faults /\ Respond(r, "502")
    /\ UNCHANGED <<shared, history>>

-----------------------------------------------------------------------------
(* Responses, browsers, and the world around. *)

NewValue(answer, old) ==
    CASE answer = "keep" -> old [] answer = "clear" -> NotFound
      [] OTHER -> answer

\* ProxySessionCookies and ClearProxySessionCookies: with COOKIE_SECURE both
\* names, without it only the plain one.
Deliver(r) ==
    LET b == rq[r].b
        a == resp[r]
    IN  /\ At(r, "done")
        /\ jar' = [jar EXCEPT ![b] =
              [plain  |-> NewValue(a.sid, @.plain),
               host   |-> IF secure THEN NewValue(a.sid, @.host) ELSE @.host,
               bridge |-> CASE a.bridge = "keep" -> @.bridge
                            [] OTHER -> a.bridge = "set",
               n8n    |-> NewValue(a.n8n, @.n8n)]]
        /\ forms' = [forms EXCEPT ![b] =
              IF a.to = "page" THEN @ \cup {a.page} ELSE @]
        /\ askedBy' = IF a.to = "idp" THEN [askedBy EXCEPT ![a.st] = b]
                                      ELSE askedBy
        /\ Goto(r, "idle")
        /\ rq' = [rq EXCEPT ![r] = Blank]
        /\ resp' = [resp EXCEPT ![r] = NoResponse]
        /\ UNCHANGED <<now, keys, secure, vault, accepted, idp, history>>

\* The connection broke: the handler ran to its end, nobody hears of it.
Lose(r) ==
    /\ At(r, "done") /\ "lost" \in Faults
    /\ Goto(r, "idle")
    /\ rq' = [rq EXCEPT ![r] = Blank]
    /\ resp' = [resp EXCEPT ![r] = NoResponse]
    /\ UNCHANGED <<shared, history>>

\* The process dies with its requests and comes back, perhaps with another
\* COOKIE_SECURE; Redis, Vault and the browsers keep what they have.
Restart ==
    /\ "restart" \in Faults
    /\ secure' \in Modes
    /\ pc' = [r \in Req |-> "idle"]
    /\ rq' = [r \in Req |-> Blank]
    /\ resp' = [r \in Req |-> NoResponse]
    /\ UNCHANGED <<now, keys, vault, external, browsers, history>>

IdPLogin(s, u) ==
    /\ askedBy[s] # NotFound /\ idp[s] = NotFound
    /\ u \in Person[askedBy[s]]
    /\ idp' = [idp EXCEPT ![s] = u]
    /\ UNCHANGED <<now, keys, secure, vault, accepted, askedBy, browsers,
                   pc, rq, resp, history>>

\* Somebody changes a password at n8n, or changes it back.
PasswordChange(c) ==
    /\ "password" \in Faults
    /\ accepted' = IF c \in accepted THEN accepted \ {c} ELSE accepted \cup {c}
    /\ UNCHANGED <<now, keys, secure, vault, askedBy, idp, browsers,
                   pc, rq, resp, history>>

\* Max-Age passed, or the browser evicted the cookie.
DropCookie(b) ==
    /\ \/ "sid" \in Drops
          /\ jar' = [jar EXCEPT ![b].plain = NotFound, ![b].host = NotFound]
       \/ "bridge" \in Drops /\ jar' = [jar EXCEPT ![b].bridge = FALSE]
       \/ "n8n" \in Drops /\ jar' = [jar EXCEPT ![b].n8n = NotFound]
    /\ UNCHANGED <<now, keys, secure, vault, external, forms, pc, rq, resp,
                   history>>

Tick ==
    /\ now < MaxTime
    /\ ClockTick
    /\ UNCHANGED <<secure, vault, external, browsers, pc, rq, resp,
                   history>>

-----------------------------------------------------------------------------
Arrive(r) == \E b \in Browser :
    \/ \E h \in Handlers : ReceiveWithSession(r, b, h)
    \/ \E h \in Handlers, t \in forms[b] \cup {NotFound},
          c \in Cred \cup {NotFound} : ReceiveForm(r, b, h, t, c)
    \/ \E s, code \in Finished \cup {NotFound} : ReceiveCallback(r, b, s, code)
    \/ ReceiveLogout(r, b)
    \/ ReceiveN8NLogout(r, b)
    \/ ReceiveSignout(r, b)

Serve(r) ==
    \/ LookupFound(r) \/ LookupMissing(r) \/ LookupFails(r)
    \/ \E s \in State : StartLogin(r, s) \/ StartLoginFails(r, s)
    \/ RandomFails(r)
    \/ TakeState(r) \/ TakeStateFails(r)
    \/ Exchange(r) \/ ExchangeFails(r)
    \/ \E id \in Sid : CreateSession(r, id)
    \/ CreateSessionFails(r)
    \/ Reload(r) \/ ReloadFails(r)
    \/ GetCredential(r) \/ GetCredentialFails(r)
    \/ N8NLogin(r)
    \/ \E cause \in {"refused", "limited", "down"} : N8NLoginFails(r, cause)
    \/ SaveSession(r) \/ SaveSessionFails(r)
    \/ LinkPageToken(r) \/ LinkPageFails(r)
    \/ \E t \in Token : SetCSRF(r, t)
    \/ ValidateCSRF(r) \/ ValidateCSRFFails(r)
    \/ UpdateCredential(r) \/ UpdateCredentialFails(r)
    \/ DeleteSession(r) \/ N8NLogout(r)
    \/ CurrentUser(r) \/ ProxyConsole(r)

Environment ==
    \/ Tick \/ Restart
    \/ \E s \in State, u \in User : IdPLogin(s, u)
    \/ \E c \in Cred : PasswordChange(c)
    \/ \E b \in Browser : DropCookie(b)

Next ==
    \/ \E r \in Req : Arrive(r) \/ Serve(r) \/ Deliver(r) \/ Lose(r)
    \/ Environment

Spec == Init /\ [][Next]_vars

-----------------------------------------------------------------------------
(* Properties. *)

PCs == {"idle", "lookup", "state", "take", "exchange", "create", "reload",
        "vault", "n8nlogin", "save", "csrf", "setcsrf", "put", "delcred",
        "delete", "n8nlogout", "current", "proxy", "done"}

Request == [h : HandlerKinds, b : Browser \cup {NotFound}, ids : Seq(Sid),
            out : SUBSET Sid, bridge : BOOLEAN, n8n : Cred \cup {NotFound},
            form : Token \cup {NotFound}, cred : Cred \cup {NotFound},
            st : State \cup {NotFound}, code : State \cup {NotFound},
            id : Sid \cup {NotFound}, copy : Session \cup {NotFound}]

Response == [to : {"none", "idp", "login", "link", "relink", "return", "root",
                   "console", "me", "page", "400", "401", "403", "429", "500",
                   "502", "503"},
             cause : {"none", "refused", "limited", "down"},
             sid : Sid \cup {"keep", "clear"},
             bridge : {"keep", "clear", "set"},
             n8n : Cred \cup {"keep", "clear"},
             page : Token \cup {NotFound}, st : State \cup {NotFound}]

TypeOK ==
    /\ KeysTypeOK
    /\ secure \in BOOLEAN
    /\ vault \in [User -> Cred \cup {NotFound}]
    /\ accepted \subseteq Cred
    /\ askedBy \in [State -> Browser \cup {NotFound}]
    /\ idp \in [State -> User \cup {NotFound}]
    /\ jar \in [Browser -> Jar]
    /\ forms \in [Browser -> SUBSET Token]
    /\ pc \in [Req -> PCs]
    /\ rq \in [Req -> Request]
    /\ resp \in [Req -> Response]
    /\ drawn \subseteq State
    /\ issued \in [Sid -> SUBSET Token]
    /\ origin \in [Sid -> State \cup {NotFound}]
    /\ holder \in [Sid -> User \cup {NotFound}]
    /\ bearer \in [Sid -> Browser \cup {NotFound}]
    /\ deadline \in [Sid -> Nat]
    /\ validated \subseteq User \X Cred
    /\ loggedOut \subseteq Sid

\* A stored session belongs to the person who logged in at the identity
\* provider for the state it came from, and ends when it was first going to
\* end, whoever wrote it last (server.go:239-257, 281-282, 391-392, 410-411;
\* store.go:79, 91).
SessionKeepsIdentity ==
    \A id \in Sid : sess[id] # NotFound =>
        /\ sess[id].val.user = holder[id]
        /\ holder[id] = idp[origin[id]]
        /\ sess[id].val.exp = deadline[id]

\* A request goes on to the n8n console only on a session that a callback of
\* the same browser created, for the person who logged in at the provider, and
\* whose first deadline has not passed, although every save makes Redis keep
\* the session for another full TTL (server.go:252-257, 415-432, store.go:91,
\* 109).
ConsoleWithinDeadline ==
    [][\A r \in Req : pc[r] # "proxy" /\ pc'[r] = "proxy" =>
          LET id == rq'[r].id
          IN  /\ now <= deadline[id]
              /\ bearer[id] = rq'[r].b
              /\ rq'[r].copy.user = idp[origin[id]]]_vars

\* Each OIDC login makes at most one session, however often its callback is
\* sent, repeated or interrupted by a restart (server.go:233-252,
\* store.go:136).
OneSessionPerLogin ==
    \A i, j \in Sid : origin[i] = origin[j] /\ origin[i] # NotFound => i = j

\* Vault holds for a user only a credential that n8n accepted when that user
\* submitted it (server.go:372-386).
VaultHoldsAcceptedCredentials ==
    \A u \in User : vault[u] # NotFound => <<u, vault[u]>> \in validated

\* A user's stored credential changes only on behalf of a request whose form
\* carries a token drawn for a session of that same user (server.go:349-413).
CredentialChangeNeedsForm ==
    [][\A u \in User : vault'[u] # vault[u] =>
          \E r \in Req, id \in Sid :
              /\ pc[r] \in {"put", "delcred"}
              /\ holder[id] = u /\ rq[r].form \in issued[id]]_vars

\* The marker cookie is in a browser only together with an n8n cookie, in
\* whatever order the answers to logins, logouts and GET /rest/login, and those
\* n8n gives through the proxy, arrive, as long as n8n itself clears no cookie
\* in a proxied answer (server.go:286-287, 296-298, 304-305, 310, 393-394, 458,
\* 486-487, 514-515).
MarkerMeansN8NCookie ==
    \A b \in Browser : jar[b].bridge => jar[b].n8n # NotFound

\* The n8n account a browser is logged in to is one that n8n accepted for the
\* holder of some session which that browser's own callback created: no answer
\* carries another browser's n8n session, whatever logins, links and renewals
\* are under way (server.go:259-287, 372-394, 454-518).
AccountsStayApart ==
    \A b \in Browser : jar[b].n8n # NotFound =>
        \E id \in Sid : bearer[id] = b /\ <<holder[id], jar[b].n8n>> \in validated

\* Once a logout deleted the sessions its cookies named, none of them opens
\* anything again (server.go:291-300; docs/requirements.md:79).  It holds as
\* long as no link form is in flight: see the run logout_race.
LoggedOutStaysOut == \A id \in loggedOut : LiveSession(id) = NotFound
=============================================================================
