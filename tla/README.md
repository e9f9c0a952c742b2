# n8n-gw: a TLA+ model of the gateway

n8n-gw stands between browsers and an n8n server. It authenticates people
with OIDC, keeps its own sessions in Redis, keeps each person's n8n credential
in Vault, logs in to n8n on their behalf, and forwards console requests only
for people who have a session. This directory models its core: what happens to
sessions, credentials and cookies when many requests, browsers and failures
interleave. Paths below are relative to `internal/` of the repository.

## The system

| Component | State | Operations | Hard behaviours |
|---|---|---|---|
| Session store (`session/store.go`) | Redis keys `session:<id>`, `csrf:<id>`, `oidc_state:<state>`, each with a TTL | create, save, get, delete session; set and get CSRF token; store and take OIDC state | sliding key TTL against an absolute deadline; GET then DEL; answers that get lost |
| HTTP handlers (`httpserver/server.go`) | none between requests; each request holds copies of what it read | login, callback, logout, n8n logout, signout, link page, link, unlink, login alias, current user, console | a chain of outside calls per request, with stale copies, ignored errors and crashes between them |
| OIDC client (`oidc/client.go`) | none | exchange a code, check its nonce and verifier | no time-out of its own |
| n8n client (`n8n/client.go`) | none | login, current user, logout, ping | outages and rate limits among refusals |
| Credential store (`vault/credential_store.go`) | one secret per (issuer, subject); a client token | get, put, delete; token renewal; re-login after an auth error | two writers of the token; a retried write |
| Cookies, CSRF, return URLs (`security/`) | the cookies of the browser | set, clear, rewrite, filter, compare | two cookie names, depending on `COOKIE_SECURE` |
| Routes (`httpserver/routes.go`) | none | classify a path | pure |
| Reverse proxy (`proxy/reverse_proxy.go`) | in-flight gauge | stream, rewrite headers, answer 502 or 504 | aborts, time-outs, half-sent bodies |
| Readiness (`server.go:520-554`) | none | four pings under one deadline | a slow dependency eats the others' time |
| Lifecycle (`cmd/n8n-proxy/main.go`) | the process | start, drain, stop | fifteen seconds for requests that may take minutes |
| Configuration, logging, metrics, test doubles, packaging | - | - | - |

A request touches the other systems only by calls: handlers call the session
store, Vault, n8n and the OIDC provider one after the other and answer with
Set-Cookie headers. No handler holds a lock, and two requests share nothing but
Redis, Vault and the browser's cookies. That is why every property worth stating
relates two of these three.

What makes each part right: the *store* never loses or prolongs a session and
hands an OIDC state out once; a *login* gives the session of the person who
logged in at the provider, once; *logout* is final; a *credential* is stored
only after n8n accepted it and only on behalf of its owner's own form; the
*marker cookie* and n8n's cookie go together; *redirects* end; people do not get
each other's accounts.

## Modules

| Module | Models | Notes |
|---|---|---|
| `RedisKeys` | the keys of the store and the commands sent to them | no behaviour of its own; shared by the next two |
| `RedisStore` | the methods of `Store` as `RedisStore` implements them, by concurrent callers | one action per Redis command |
| `MemoryStore` | the same methods in the store of the tests | one critical section each |
| `SessionLedger` | what the `Store` interface promises | abstract; both stores refine it |
| `Gateway` | all handlers that touch Redis, Vault, n8n, the provider or cookies | extends `RedisKeys` |
| `Journey` | browsers that follow redirects through `Gateway` | adds fairness |
| `VaultStore` | calls and the renewal goroutine on one Vault token | one action per exchange |
| `CredentialLedger` | what the Vault `Store` interface promises | abstract; `VaultStore` refines it |
| `ReverseProxy` | requests that hold a connection open | |
| `Lifecycle` | the process around them | extends `ReverseProxy` |
| `Readiness` | one `/readyz` probe after the other | |
| `Routes` | path classes and return targets | operators, and a walk over spellings |
| `Cookies` | cookie rewriting and filtering, with a browser | |
| `GatewayProofs` | theorems about `Gateway` | checked with TLAPS |
| `JourneyProofs` | theorems about `Journey` | checked with TLAPS; extends `GatewayProofs` |
| `RedisStoreProofs`, `MemoryStoreProofs`, `VaultStoreProofs` | theorems about the module in the name | checked with TLAPS |
| `ProcessProofs` | theorems about `ReverseProxy`, `Lifecycle` and `Readiness` | checked with TLAPS |
| `FoldTheory` | laws of `FoldLeft`, and induction over sequences | used by `BrowserProofs`; has no behaviour |
| `BrowserProofs` | theorems about `Routes` and `Cookies` | checked with TLAPS |
| `MCGateway`, `MCJourney`, `MCVault`, `MCProcess`, `MCBrowser` | instances for TLC | the last two put modules that share no state into one run |

Definitions named `Wrong...` are buggy forms of the definition after them. No
behaviour uses them; putting one in its place shows that a property notices.

### RedisKeys, RedisStore and SessionLedger

`sess`, `csrf` and `oidc` map ids to a value with the last instant at which
Redis returns it; `now` is a logical clock. `ClockTick` drops expired keys at
once. Real Redis does the same as far as any reader can see. A session record
carries `exp` (`ExpiresAt`), which `NewSession` fixes and `SetSession` leaves
alone, while every `SetSession` gives the *key* a new TTL: the key can outlive
the session, and `LiveSession` is the check that closes the gap
(`store.go:109`).

In `RedisStore` a method is one action per command: `CreateStamp` then
`CreateSave`, and `GetSession` then `GetSessionDrop` for an expired record. A
command may fail without effect, or take effect and lose its answer. Ids and
states are 32 random bytes, so drawing a used one is left out.

`SessionLedger` knows no keys and no TTL. A session has one owner and one
deadline; until then it is readable unless deleted, with its CSRF token; a
read answers with what the ledger holds at some moment of the call; a state is
handed out at most once. The refinement mapping reads `live` and `token` off
the keys, cut at the deadline. The ledger deliberately does not promise that a
deleted session stays deleted, because `SaveSession` does not look.

### MemoryStore

`sessions`, `csrf` and `states` are the maps of `session/memory.go`; each method
but `CreateSession` is one action, as it runs under the lock. Nothing expires:
`GetSession` compares the clock with the stored deadline. That both stores
implement one ledger says that a handler test on this store sees nothing the
Redis store could not show.

### Gateway

A request is a process. `pc[r]` is the call it will make next, `rq[r]` its
locals (handler, browser, the cookies it carried, the session copy it read, the
form), `resp[r]` the answer it is building. Each action is one outside call
with all the code up to the next one.

| Code | Actions |
|---|---|
| `ServeHTTP`, `serveInternal` | `ReceiveWithSession`, `ReceiveForm`, `ReceiveCallback`, `ReceiveLogout`, `ReceiveN8NLogout`, `ReceiveSignout` |
| `lookupSessionFromCookies`, `requireSession` | `LookupFound`, `LookupMissing`, `LookupFails` |
| `handleAuthLogin` | `StartLogin`, `StartLoginFails`, `RandomFails`, or the lookup and then `GetCredential`, `N8NLogin` |
| `handleAuthCallback` | `TakeState`, `Exchange`, `CreateSession`, `GetCredential`, `N8NLogin`, `Reload`, `SaveSession` and their failures |
| `handleProxyLogout`, `handleN8NLogout`, `handleN8NSignout` | `DeleteSession` once per id, `N8NLogout`; signout makes no call |
| `handleLinkGet` | `LinkPageToken`, `SetCSRF`, `LinkPageFails`, `GetCredential` |
| `handleLinkPost`, `handleLinkDelete` | `ValidateCSRF`, `N8NLogin`, `UpdateCredential`, `SaveSession` and their failures |
| `serveProtected`, `handleCurrentUserBridge`, `handleNativeLoginAlias` | `ProxyConsole` and `CurrentUser`, which hand n8n's own cookies on (`Relay`); `GetCredential`, `N8NLogin` |
| `handleN8NLoginError` | `RespondLoginError` |
| `security/cookie.go` | `Deliver`: with `COOKIE_SECURE` both session cookie names are set and cleared, without it only the plain one |
| `main.go` | `Restart` |

Around the gateway, written from how the code uses it: `IdPLogin` (a person
logs in at the provider), `PasswordChange` (what n8n accepts), `DropCookie`,
`Lose` (an answer that never arrives), `Tick`. Responses of one browser may be
delivered in any order. `Faults` says which failures a run allows: `store`,
`vault`, `n8n`, `oidc`, `password`, `restart`, `lost`. A failing write may have
taken effect.

The state of a login lies in Redis and is bound to no browser (`server.go:225`):
`ReceiveCallback` takes any finished login from any browser, so a browser can get
a session of a person who logged in elsewhere. The history variable `bearer` holds
the browser whose callback created a session. `AccountsStayApart` and
`ConsoleWithinDeadline` speak of it: what they rule out is that an *answer* or a
*session id* of one browser's requests reaches another, not that a browser opens a
callback it did not ask for.

Console requests and `GET /rest/login` relay n8n's `Set-Cookie` headers
(`server.go:458`, the proxy): `Renewals` are the cookies n8n may set there, the one
it was sent or none. That n8n takes its own cookie away in a proxied answer is one
more of the losses that `Drops` allows or not.

The state, nonce and verifier of a login are one value, and so are a code and
the state it was issued for: `CodeMatches` is the test of the nonce and the
verifier. A credential stands for login id and password and names its own n8n
account. E-mail, name and page text are left out. GetSession and CreateSession
are one step here; `RedisStore` shows the difference cannot be seen.

### Journey

A browser opens the console or the link page, or logs out, and then follows the
redirects until it gets a page or an error. One response is one hop.

### VaultStore and CredentialLedger

A call of a handler and the renewal goroutine are processes on one `client`
token (`vault/credential_store.go`). `Call` and `StartRenewal` send a request,
`Answer` and `Deny` are Vault's reply, `Issue` and `SetToken` the AppRole login
(`loginAppRole`), `Retry` the second attempt of `write`, `read` and `delete`.
Faults: Vault is down for any time (`GoDown`, `ComeUp`), an exchange times out
or breaks (`GiveUp`), a request is sent again by the client library while the
first is still under way (`Detach`, `Arrive`). `left` is the rest of each lease;
`due` and `ticked` are the ticker of `startTokenRenewal`, which never ticks
more often than every five minutes. `Elapse` lets no exchange outlast
`CallTime`.

`CredentialLedger` has no tokens: a call that succeeds took effect at its end,
and a credential changes only to what some call asked for. It allows a
stray write to arrive after its call, because the code cannot prevent it.

### ReverseProxy and Lifecycle

A request is `sent`, `copying` (headers passed on), or a `tunnel` (hijacked),
then `over`. `source` is n8n's side, `peer` the client's; `seen` is what the
client got and `status` what `statusRecorder` will log. `PassHeaders`,
`EndBody`, `BreakBody`, `RefuseRequest`, `TimeOut`, `ClientLeaves` are the ways on
and out (`proxy/reverse_proxy.go`, `server.go:99-149`); `Recover` is the deferred
recover that runs when the proxy panics with `ErrAbortHandler`. The provider's
call inside a callback is one more kind of request, without a time-out.

`Lifecycle` adds `main.go`: `Start`, `ListenFails`, `Signal`, and `Shutdown`
with its deadline (`ShutdownEnds`, `ShutdownFails`). `cut` is what was open when
the process exited. `http.Server.Shutdown` does not see hijacked connections.

### Readiness

One probe of `handleReady` at a time: `at` is the exchange it waits for, `clock`
the time since it began, `checks` what it found. Vault's `Ping` logs in and asks
again when refused, but only in a process that was given an AppRole (`approle`): with a
`VAULT_TOKEN` nothing replaces a refused token (`Stranded`). n8n's tries
`/healthz` and then `/`. Each dependency may turn
`up`, `half` (n8n without `/healthz`), `slow`, `silent` or `down` at any moment.

### Routes

A path is a sequence of segments; a segment may be escaped and may then hide
slashes. `CleanPath`, `ClassifyRoute`, `ValidReturnTo`, `SafeReturnTo`,
`Candidates` and `NativeReturnTo` are `routes.go`, `return_url.go` and
`server.go:641-683, 815-833`. `Requested` is the request that follows a redirect:
`http.Redirect` cleans the path as it is written, the browser resolves the dots
it knows. The behaviour starts from a plain path and writes
it in other ways step by step (`Respell`), or uses it as a return target
(`Return`).

### Cookies

`RewriteSetCookie`, `ProxySessionCookies`, `ClearProxySessionCookies` and
`SanitizedUpstreamCookieHeader` are `security/cookie.go` on lists of attributes.
`Cookie`, `Admitted`, `Store` and `Header` are a browser as RFC 6265 describes it,
with the rules for `Secure`, `SameSite=None` and `__Host-`. n8n sets cookies with any
attributes from any page; the gateway sets and clears its own.

## Properties and runs

| Run | Instance | Shows |
|---|---|---|
| `redis_store` | 2 callers, 1 session id, 1 token, 1 state, clock to 3 | `ImplementsLedger`: callers cannot tell the keys from the ledger |
| `memory_store` | the same, without failures | `ImplementsLedger` for the store of the tests |
| `login` | 2 requests, 1 browser with 2 people, 2 sessions, Redis failures, restarts with `COOKIE_SECURE` true or false | `SessionKeepsIdentity`, `OneSessionPerLogin`, `LoggedOutStaysOut` |
| `link` | 2 requests on all session routes, failing Redis, Vault and n8n, lost answers, TTL 1, clock to 2 | `VaultHoldsAcceptedCredentials`, `CredentialChangeNeedsForm`, `SessionKeepsIdentity` and `ConsoleWithinDeadline` while link forms save old copies |
| `apart` | 2 browsers of 2 linked people who link again, callbacks opened in either browser, `GET /rest/login`, 2 credentials, 1 form token | `AccountsStayApart` |
| `cookies` | 2 requests on every login and logout route, on the console and on `GET /rest/login`, lost answers, dropped cookies, changed passwords, failing n8n | `MarkerMeansN8NCookie` |
| `journey` | 1 browser with 2 people, any service failing, sessions running out, cookies lost between trips | `NoRedirectLoop`, `TripEnds`, `TripLandsRight` |
| `vault` | 2 callers and the goroutine, leases of one tick, lost answers, one late request | `ImplementsLedger` of `CredentialLedger` |
| `vault_revival` | 1 caller, leases shorter than the ticker, outages | `RetryIsAccepted`, `Revives`, `CallsEnd` |
| `process` | three dependencies, a budget of 1, Redis up to 2, an AppRole or a token; then 2 requests of four kinds and a signal at any moment | `ErrorsHaveCauses`, `ReadyAgain`; `InflightIsExact`, `SuccessMeansWhole`, `RequestsEnd`, `CleanExitCutsOnlyTunnels`, `KilledForAReason`, `SignalEnds` |
| `browser` | paths of up to 3 words out of 6; 2 cookies of n8n, 2 attributes, 4 values, http and https | `SpellingDoesNotMatter`, `TargetIsServed`; `CookieReachesN8N`, `SessionFollowsBrowser`, `ProxyCookiesStayHere` |
| `logout_race` | 2 requests, link and logout | violation: a logged-out session comes back |

A type invariant is checked where a module's state is richest.

**Bounds.** Two requests in flight suffice for a race between any two handlers;
a third would matter only for a property of three requests, and none is stated.
`MaxTime` exceeds `SessionTTL` by one or two where time matters, so a session is created, saved
late, and read after its deadline; `login`, `apart` and `logout_race` are about
ordering and, like `cookies`, have `MaxTime` 0. Two session ids are what one browser can carry. When the ids,
tokens or states of a run are used up, the model takes the code's error path
(`RandomFails`, `CreateSessionFails`, `LinkPageFails`), so a run cannot block on
a bound. `MaxHops` 8 is the longest trip: with 7 `NoRedirectLoop` fails, and 8 is what the
theorem `RedirectsEnd` gives for this clock and TTL.
`Settled` lets cookies and passwords change between trips only; a browser that
drops its cookies on every response is redirected for ever by any login system.
In `vault`, four tokens are one per process and one more, so a login never waits
for one, and one late request suffices for the effect after its call. `TTL` 3
and `MinInterval` 4 in `vault_revival` make the lease end between ticks, as a
short Vault lease does against the five minutes of the code. In `process` the
public time-out equals the drain and the console's is shorter, so both
outcomes of a shutdown occur; Redis alone can use up the budget of a probe. Words of `browser` are those at which the code
branches.

**Deadlock.** Checked in every run but `process`, where the process exits. In the
others slots become idle again and requests keep coming, so no reachable state may
be without a step.

**Symmetry.** Requests, session ids, states and tokens are interchangeable in
`login`, `link`, `cookies` and `logout_race`, tokens and callers in `vault`; in `apart` also the two people with
their browsers. The runs with liveness properties and the stores use none.

**Fairness.**

- `Journey`. `WF(Step(r) /\ pc[r] # "exchange")`: net/http runs each handler in a
  goroutine of its own, and the clients of Redis, Vault and n8n return or fail (n8n's and
  the proxy's at `CONSOLE_PROXY_TIMEOUT`, unless that is 0). The code exchange has
  no time-out (`oidc/client.go:77`), so nothing is assumed of it: `TripEnds` says
  that a trip ends unless some request waits for the provider for ever. The browser
  follows a redirect it received. `WF(LogIn)`: a person who is shown the login form fills it in.
  Nobody has to open a page, no clock has to tick, no service has to work.
- `VaultStore`. Weak for time, the goroutine's tick and each process; strong for
  an answer, an issued token and its installation, which other exchanges or lost connections interrupt
  again and again. Nothing makes Vault come back: `Revives` assumes it.
- `Lifecycle`. Weak for time and the end of `Shutdown`; strong for a time-out
  that can fire, since a client may stall and resume in between. Nothing
  makes n8n, the provider or a client go on, and no signal has to come.
- `Readiness`. Weak for the probe and for time. Nothing repairs a dependency:
  `ReadyAgain` assumes that they are well. A process with an AppRole is then
  ready again whatever happened to its token; one with a `VAULT_TOKEN` only if that
  is still good, which `ReadyAgain` asks for as well.

## Divergences

Checked by a run:

1. **A link form undoes a logout** (`logout_race`). `handleLinkPost` and
   `handleLinkDelete` read the session, call n8n and Vault, and save their copy
   back (`server.go:392`, `411`) with an unconditional SET. If `/auth/logout`
   deletes the session in between, the save re-creates it for a full TTL.
   `docs/requirements.md:79` says logout removes the proxy session. Without link
   forms the property holds (`login`, and `LogoutIsFinal` for every instance).
   The session still ends at its first deadline (`link`).

Read off the code while modelling, and part of the models, but without a run:

2. The console is gated by the marker alone (`server.go:426`), where
   `docs/README.md:21` asks for the n8n cookie. What the gateway does keep is
   that its answers never leave the marker without an n8n cookie (`cookies`).
3. `handleN8NLoginError` (`server.go:733`) answers an outage of n8n like a wrong
   credential; `docs/implementation-spec.md:230,332` ask for 503.
4. The deadline of a proxied request covers its body (`reverse_proxy.go:87`) and
   cuts streams, which `docs/requirements.md:105` wants kept.
5. A chunked body that n8n breaks off reaches the client padded with an
   error text and well terminated, because the recover (`server.go:124`)
   swallows `ErrAbortHandler`; `docs/requirements.md:36` asks for the body as it
   is. The log does tell (`SuccessMeansWhole`).
6. A callback waits for the provider without a time-out (`oidc/client.go:77`);
   `docs/security-and-ops.md:103` asks for one.
7. The readiness checks share a deadline (`server.go:521`), so a slow dependency
   fails the next ones, where `docs/requirements.md:106` wants each told apart.
8. `SameSite=None` is kept over https (`cookie.go:138`) against
   `docs/requirements.md:90`, though `docs/test-plan.md:47` expects it.
9. Of two cookies with one name, one is passed on (`cookie.go:205`), where
   `docs/architecture.md:61` has all of n8n's cookies pass.
10. Of an upgraded connection the log has status 200 and not 101: the 101 is written
    on the hijacked connection, and `Hijack` sets no status (`server.go:907-913`).
11. With a `VAULT_TOKEN` there is no login after an auth error
    (`credential_store.go:206-209`): once the token is refused, `/readyz` and every call fail
    until a restart (`Stranded`). `docs/implementation-spec.md:40` allows the setting.
12. `/auth/login` and `/auth/callback` are accepted as return targets
    (`server.go:827-829`). With a session the first is one redirect more, without a
    state the second is an error page; `TargetIsServed` does not speak of them.
13. Logout and `GET /rest/login` send the browser's `Cookie` header to n8n as it is, the
    gateway's own cookies included (`server.go:295`, `303`, `456`); `ProxyCookiesStayHere`
    is about proxied requests.
14. A return target may become `/signout`. The check unescapes the target before it
    resolves its dots (`server.go:823-833`), `http.Redirect` resolves them as they are
    written (`server.go:288`). With a step back behind a segment that holds an escaped
    slash the check sees a page below that segment, and the redirect goes to `/signout`,
    which `server_test.go:445-479` wants refused, at least when written plainly.
    `TargetIsServed` leaves such targets out (`Tangled`); no other spelling gets there.

## Proofs

All theorems hold for every value of the constants that meets the assumptions
of the module: natural numbers for TTLs and time-outs, a `NotFound` that is
nothing else, non-empty or finite sets where a definition needs them, and names of
n8n's cookies that are not the gateway's. Six theorems need more, and say so in
their statement: `MarkerKept`, `LogoutIsFinal`, `RetriesAreAccepted`,
`N8NCookieReaches`, `RedirectsEnd` and `TripsLandRight`, below.
`ProcessProofs` also takes from `Lifecycle` that `DrainTime <= MaxTimer`: the
clock of a request runs long enough to see the drain end.

### The handlers

`GatewayProofs` proves `TypeCorrect`, `IdentityKept` (`SessionKeepsIdentity`) and
`VaultAccepted` (`VaultHoldsAcceptedCredentials`) from one inductive invariant,
`IInv`. `SessionKeepsIdentity` speaks of Redis and is not inductive: `SaveSession`
writes what a request read long ago. `IInv` adds

- `StoreFaithful`: each record in Redis has the owner and deadline its id was
  created with;
- `Faithful`: so has each copy that a request holds, and its id is in use;
- `BornFromLogin`: the owner of an id is who logged in at the provider for the
  state the id came from;
- `Ready`: a request at a step has the locals the step uses. In particular
  state and code are equal when the session is created, and a request about to
  write Vault carries a pair that n8n accepted, which is what makes
  `VaultHoldsAcceptedCredentials` inductive;
- the types.

There is one lemma per action. `Stable` says what a step must leave alone
for the *other* requests to keep what they hold: owners and deadlines of used
ids, identities at the provider, and what n8n has accepted. `Move` then reduces a
step to the request that takes it; `Ending`, `Answering`, `Continuing`, `Arriving`
and `Freeing` are its common forms; `NothingShared`, `VaultStays`, `Deleting`,
`Saving`, `Birth` and `Outside` do the same for the shared state.

From a second invariant the module proves `LoginsAreOnce` (`OneSessionPerLogin`), `AccountsApart`
(`AccountsStayApart`), and two action properties, `ConsoleIsTimely`
(`ConsoleWithinDeadline`) and `FormsGuardCredentials`
(`CredentialChangeNeedsForm`). A cookie that reaches a browser was decided on many
steps earlier, so the invariant `Owned` follows it back to the login:

- `StatesOnce`: a state is drawn once, is then in Redis or in the hands of one
  callback, and becomes at most one session. This is the one place where it
  matters that GETDEL is a single command.
- `SentDrawn`: a browser is sent to the provider with a drawn state only.
- `BornTogether`: a session has an owner when it has a browser, both from the
  callback that created it.
- `Mine`: everything a request carries from one step to a later one (ids,
  session, credential, form token, the cookies it will set) belongs to the
  browser it came from: an id is one that a callback of this browser was given, an n8n
  cookie one of a credential accepted for the owner of such a session. Who logged in
  at the provider, and where, does not matter to it. `JarsOwn` says the same of the cookies that have arrived,
  `TokensIssued` of the CSRF tokens in Redis.

`Grows` lists what no step takes back; under it requests that do not move keep
what is theirs.

The module also proves `MarkerKept` (`MarkerMeansN8NCookie`), assuming that
browsers do not lose n8n's cookie by themselves and n8n does not clear it in a
proxied answer. Answers arrive in any
order, so it is no use that each fits the one before. The invariant makes every
answer fit *any* other: one that sets the marker brings a cookie, one that
clears the cookie clears the marker, and one that renews the cookie does neither
harm (`Paired`).

It proves `LogoutIsFinal` (`LoggedOutStaysOut`) too, assuming that nobody
sends link forms, with which it is false (`logout_race`). Callbacks write
sessions back too. They undo no logout because of `Private`: between creating its
session and answering, a callback alone knows the id, while a logout can name
only ids that some browser was told (`Shown`). `Due` says what a logout under way
has still to delete.

### Trips

`JourneyProofs` proves `TripsAreGateway`: a trip only does what `Gateway` allows, so that
every theorem above holds on trips. On top of `OInv`, the invariant of the handlers, it
proves the invariant `JInv` (`TripsKept`), and from that `RedirectsEnd`
(`NoRedirectLoop`) and the action property `TripsLandRight` (`TripLandsRight`), for any
number of browsers, people, sessions and requests and whatever fails.

What bounds the redirects of a trip is the clock. A trip comes back to the login
page only when the session it travels with has ended. A session is stored for at
least `SessionTTL`, and the next begins after it has ended, so the k-th begins no
earlier than `Age(k)`. `Room` says how many hops a trip may have in each life at
each page, given the browser's cookies: at most three more per life, as the
session and the marker that a login sets spare the next hops. If at
most N lives begin within `MaxTime`, no trip needs more than 3N + 2 responses
(`RedirectsEnd` assumes that `MaxHops` allows as many).

- `Moves` puts every browser in such a place; `OnTrip` says the same of a request
  under way, for the browser that will get its answer (`Serving`, `Served`). `Alone`:
  a browser waits for one answer at a time, so no other answer moves it.
- `Timely`, `Known`, `Told`: a session that a browser has, or is about to be told of, is
  in Redis until its deadline or until the same browser logs out. This is what makes
  a missing session mean an ended one.
- `OneCookie`: the two names of the session cookie hold the same value or the
  second holds none.
- `Fits` and `Lands` carry what `TripLandsRight` needs: a trip without trouble is at the link
  page unasked only when n8n refuses the stored credential of the session's person.

Both theorems assume `IdsApart`: no session id is one of the words `keep` and
`clear` that stand for "no cookie in the answer" and "cookie cleared" in the model.

### The stores, Vault and the process

`RedisStoreProofs` and `MemoryStoreProofs` prove `TypeCorrect` and `Refinement`: both
implement `SessionLedger`. For Redis, `KeysInv` says that a key never ends before
the deadline in its record, as every save starts the TTL again and later, so the
deadline alone decides what can be read; `CallsInv` says that a caller between
two commands of a method holds an id of its own, or one that is over.

`VaultStoreProofs` proves `TypeCorrect` and the `Refinement` of `CredentialLedger`.
`ProcsInv` says that a process in a call has an operation of its own kind and that
a request under way carries a token. Every exchange is then a step of the ledger
(a write that takes effect, an answer) or none.

It also proves `RetriesAreAccepted` (`RetryIsAccepted`): Vault never refuses the
token of a second attempt. The theorem assumes `LeaseOutlastsRetry`, that
a lease lasts longer than the two exchanges between its issue and the retry's
arrival. With a lease shorter than that no client could use a token at all;
Vault's are hours, the client's exchanges seconds. `FreshTokens` follows the token
from the login to the retry and says how much of the lease is left at each step: what
another process does meanwhile only installs a token that is at least as young.

`ProcessProofs` proves `ReadyTypeCorrect` and `ErrorsAreCaused` (`ErrorsHaveCauses`)
of `Readiness`: the clock of a probe is the sum of what its exchanges took
(`TimeAdds`), and a dependency that is not well is among those the probe met in
trouble (`TroubleIsSeen`). A refused token that cannot be replaced stays so
(`Stranded`), hence it still explains the error at the end of the probe. The
module also proves `TypeCorrect`, `GaugeIsExact`, `SuccessIsWhole`, `CleanExit`
and `KilledWithReason`, the safety properties of `process` that concern
`Lifecycle`. `Consistent` fixes what is known of a request at each stage, from
n8n's side to the client's. The gauge is the cardinality of a set (`Counted`) that
each step changes by at most one element, and `DrainedRequestsAge` relates a
request that is still open to the time since the signal.

### Paths and cookies

`BrowserProofs` proves `SpellingIrrelevant` (`SpellingDoesNotMatter`) for
paths of any words and any length. What a fold computes can only be shown by
induction over the sequence, and an induction rule with a predicate as its
parameter cannot be used here. `FoldTheory` gets round this: its `Induct` takes the
*set* of the indices at which a fact holds, an ordinary value, and the laws
`FoldEmpty`, `FoldAppend`, `FoldType` and `FoldConcat` follow from it.

`CleanPath` and `Unescape` are folds. Two pieces of a path are `Alike` when
cleaning goes on in the same way after either; since a fold over a concatenation
is the fold over the second part from where the first one ended, a piece may be
replaced by one that is alike anywhere in a path, and `SpellingKept` shows that each
way of writing a path differently does just that. With the invariant `PathInv`, that the
path is made of words that exist, this gives the theorem.

The module also proves `TypeCorrect` (`TypeOK`), `SessionFollows`
(`SessionFollowsBrowser`), `ProxyCookiesStay` (`ProxyCookiesStayHere`) and
`N8NCookieReaches` (`CookieReachesN8N`) for any names, any number of values and
`Set-Cookie` headers of any length. None of the three properties is inductive, as
they speak of what one page sends, and an attribute decides which pages that is. The invariant
`CookiesInv` speaks of the jar instead:

- `JarOK`: the jar holds a cookie once, the one from before the gateway is the
  oldest, and every other is one that a browser accepts, with the `Secure`
  attribute `COOKIE_SECURE` asks for;
- `Tells`: under each name of the gateway's, and of n8n's if it asks for no path but
  `/`, the jar holds what was `Given` last under it, and nothing if that was cleared.

`Suits` is what the gateway makes of any list of attributes, and `CookieFits` what a
browser makes of that. Filters (`Only`) keep order (`Embedding`), and `LastGoesOn`
says that of several values of one name the last goes on to n8n; as the older
cookie comes first in a header, n8n gets the newer value. `FoldTheory`'s
`SeqInduct` gives these for every length, again with a set in the place of a
predicate.

`N8NCookieReaches` assumes that n8n asks for no path but `/`, which is its default.
With another it is false, and should be: a browser does not send such a cookie from
elsewhere.

### Model-checked only

`TargetIsServed` compares two ways of resolving dots, the check's and the redirect's;
where the two agree depends on both folds at once, and no proof is attempted.

Liveness (`TripEnds`, `Revives`, `CallsEnd`, `ReadyAgain`, `RequestsEnd`, `SignalEnds`)
stays with TLC: fairness and ENABLED are beyond the prover.
`NoRedirectLoop` is the safety half of `TripEnds`: what it leaves to fairness is that
each of the boundedly many responses comes.

## Not modelled

- configuration parsing, logging, `/healthz` and `/metrics`, packaging and the
  test doubles other than the session store: nothing the rest depends on;
- `X-Forwarded-*` and other rewritten headers, which the gateway never reads
  back, and what n8n's console answers contain but for its own cookie;
- paths with broken escapes, backslashes or control characters, and public
  prefixes that do not end with a slash (the defaults do);
- the byte-level splitting of a `Set-Cookie` header;
- Vault revoking a lease in the middle of a call: leases end by running out;
- the OIDC discovery and URL building, which hold no state;
- values of `SESSION_TTL` and the time-outs that mean nothing (`SESSION_TTL=0`).

## Left to do

- `VaultStore` with two callers and outages at once: `vault` has the callers and
  `vault_revival` the outages, as both together do not fit into a run.
- `TripEnds` for two browsers of one person, which the theorems on trips cover but
  the run does not.
