---------------------------- MODULE JourneyProofs ----------------------------
(***************************************************************************)
(* Where a trip through the gateway leads: theorems about Journey for any   *)
(* number of browsers, people, requests and sessions, any faults and any    *)
(* TTL.  Every trip is a behaviour of Gateway, so that the theorems of      *)
(* GatewayProofs hold on trips; redirects come to an end; and a trip        *)
(* without trouble ends where it should.                                    *)
(***************************************************************************)
EXTENDS GatewayProofs, Journey

\* No session id looks like the model's words for a cookie left alone or
\* cleared.
IdsApart == Sid \cap {"keep", "clear"} = {}

-----------------------------------------------------------------------------
(* The inductive invariant.  A response is a hop; what bounds the hops of a *)
(* trip is the clock.  A trip comes back to the login page only when the    *)
(* session it travels with has ended, and such a session began after the    *)
(* one before it had ended.                                                 *)

\* The k-th session that a trip travels with, counted from 0, begins no
\* earlier.
Age(k) == k * (SessionTTL + 1)

\* The steps a request of a trip goes through.
OnRoute(h, p) ==
    \/ h = "console"  /\ p \in {"lookup", "vault", "n8nlogin", "proxy", "done"}
    \/ h = "linkget"  /\ p \in {"lookup", "csrf", "setcsrf", "vault", "done"}
    \/ h = "login"    /\ p \in {"state", "done"}
    \/ h = "callback" /\ p \in {"take", "exchange", "create", "vault",
                                "n8nlogin", "reload", "save", "done"}
    \/ h = "logout"   /\ p \in {"delete", "n8nlogout", "done"}
    \/ h = "signout"  /\ p = "done"

\* Session id does not end before the life after the k-th begins.
Fresh(id, k) ==
    id \in Sid /\ holder[id] # NotFound /\ deadline[id] >= Age(k) + SessionTTL

\* In life k, a browser whose session cookie is id and whose marker is bridge
\* goes to url after n hops: a session that a login just made, and the marker
\* the console just set, save the next hops.
Room(url, n, id, bridge, k) ==
    \/ url \in {"logout", "signout"} /\ n = 0
    \/ url \in {"console", "linkget"} /\ n <= 1
    \/ /\ url \in {"console", "linkget"} /\ n <= 3 * k + 4 /\ Fresh(id, k)
       /\ url = "console" => bridge
    \/ url = "login" /\ id = NotFound /\ n <= 3 * k + 2
    \/ url \in {"idp", "callback"} /\ n <= 3 * k + 3
    \/ url = "none" /\ n <= 3 * k + 5

Place(url, n, id, bridge) ==
    \E k \in Nat : Age(k) <= now /\ Room(url, n, id, bridge, k)

\* n8n does not accept the stored credential of the session's person.
Refused(id) ==
    id \in Sid /\ holder[id] # NotFound /\ vault[holder[id]] \notin accepted

Fits(goal, url, well, id) ==
    /\ goal = "linkget" => url \notin {"console", "logout", "signout"}
    /\ url = "linkget" /\ goal # "linkget" /\ well => Refused(id)

\* Where TripLandsRight lets a trip end.
Lands(goal, to, id) ==
    \/ goal = "linkget" /\ to = "page"
    \/ goal # "linkget" /\ to = "console"
    \/ goal # "linkget" /\ to = "page" /\ Refused(id)

\* The browser has got the response.
NewBridge(a, j) == IF a.bridge = "keep" THEN j.bridge ELSE a.bridge = "set"

\* Request q, at step p of its handler, with the response a so far, for a
\* browser with trip t and cookies j.  Only a callback has a cookie to tell,
\* that of the session it created.
Serving(t, p, q, a, j) ==
    /\ Place(q.h, t.hops, j.plain, j.bridge)
    /\ Fits(t.goal, q.h, t.well, j.plain)
    /\ a.cause = "none" /\ a.bridge = "keep" /\ q.bridge = j.bridge
    /\ p = "lookup" => q.ids = <<j.plain>> /\ j.plain # NotFound
    /\ q.h \in {"console", "linkget"} /\ p # "lookup" => q.id = j.plain
    /\ p \in {"vault", "n8nlogin"} /\ q.h = "console" => ~q.bridge
    /\ p = "n8nlogin" => q.cred = vault[q.copy.user]
    /\ IF q.h = "callback" /\ p \in HasSession
       THEN a.sid = q.id /\ Place("console", t.hops + 1, q.id, TRUE)
       ELSE a.sid = "keep"

\* The response a of handler h, on its way to the browser.
Served(t, h, a, j) ==
    /\ Place(Location(a.to, t.goal), t.hops + 1, NewValue(a.sid, j.plain),
             NewBridge(a, j))
    /\ Fits(t.goal, Location(a.to, t.goal), t.well /\ ~Trouble(a),
            NewValue(a.sid, j.plain))
    /\ Location(a.to, t.goal) = "none" /\ t.well /\ ~Trouble(a) =>
          Lands(t.goal, a.to, j.plain)
    /\ h = "logout" => a.sid = "clear"

OnTrip(r) ==
    LET t == trip[rq[r].b]
        j == jar[rq[r].b]
    IN  /\ t.url = "busy" /\ OnRoute(rq[r].h, pc[r])
        /\ IF pc[r] = "done" THEN Served(t, rq[r].h, resp[r], j)
                             ELSE Serving(t, pc[r], rq[r], resp[r], j)

InFlight == {r \in Req : pc[r] # "idle"}

\* A browser on a trip waits for one response at a time.
Alone == \A r, x \in InFlight : rq[r].b = rq[x].b => r = x

Moves(b) ==
    LET t == trip[b]
    IN  t.url # "busy" => /\ Place(t.url, t.hops, jar[b].plain, jar[b].bridge)
                          /\ Fits(t.goal, t.url, t.well, jar[b].plain)

\* A session is stored until its deadline, or until its browser logs out.
Present(id) == sess[id] # NotFound \/ now > deadline[id]
LoggingOut(b) == \E r \in InFlight : rq[r].b = b /\ rq[r].h = "logout"

Timely ==
    /\ now <= MaxTime
    /\ \A id \in Sid : holder[id] # NotFound =>
          deadline[id] >= SessionTTL /\ deadline[id] <= now + SessionTTL
    /\ \A id \in Sid : sess[id] # NotFound => sess[id].ttl >= deadline[id]

Known ==
    \A b \in Browser : jar[b].plain # NotFound =>
        Present(jar[b].plain) \/ LoggingOut(b)

Told == \A r \in InFlight : resp[r].sid \in Sid => Present(resp[r].sid)

\* Both names of the session cookie, or the plain one.
OneCookie ==
    \A b \in Browser : jar[b].host = IF secure THEN jar[b].plain ELSE NotFound

Trip == [goal : Goals,
         url : Goals \cup {"none", "login", "idp", "callback", "busy"},
         st : State \cup {NotFound}, hops : Nat,
         last : {"none", "idp", "login", "link", "relink", "return", "root",
                 "console", "me", "page", "400", "401", "403", "429", "500",
                 "502", "503"},
         well : BOOLEAN]

TripTypeOK ==
    /\ trip \in [Browser -> Trip]
    /\ \A b \in Browser : trip[b].url = "idp" => trip[b].st \in State

Bounded ==
    \A b \in Browser : \E k \in Nat : Age(k) <= now /\ trip[b].hops <= 3 * k + 5

JInv == /\ TripTypeOK /\ Bounded /\ Timely /\ Known /\ Told /\ OneCookie /\ Alone
        /\ \A b \in Browser : Moves(b)
        /\ \A r \in InFlight : OnTrip(r)

-----------------------------------------------------------------------------
(* Lives of a session. *)

LEMMA Ages ==
    /\ SessionTTL \in Nat /\ Age(0) = 0
    /\ \A k \in Nat : Age(k) \in Nat /\ Age(k + 1) = Age(k) + SessionTTL + 1
BY TTLAssumption DEF Age

\* Later lives begin later.
LEMMA AgeOrder ==
    ASSUME NEW k \in Nat, NEW m \in Nat, Age(k) < Age(m)
    PROVE  k < m
<1> SUFFICES ASSUME k >= m PROVE FALSE
  OBVIOUS
<1>1. PICK d \in Nat : k = m + d
  <2>1. k - m \in Nat /\ k = m + (k - m)
    OBVIOUS
  <2>2. QED
    BY <2>1
<1>2. d * (SessionTTL + 1) \in Nat
  BY TTLAssumption
<1>3. (m + d) * (SessionTTL + 1) = m * (SessionTTL + 1) + d * (SessionTTL + 1)
  BY TTLAssumption
<1>4. m * (SessionTTL + 1) \in Nat
  BY TTLAssumption
<1>5. QED
  BY <1>1, <1>2, <1>3, <1>4 DEF Age

-----------------------------------------------------------------------------
(* From one hop to the next. *)

\* Wherever a trip is, it may end.
LEMMA Stops ==
    ASSUME now \in Nat, NEW url, NEW n \in Nat, NEW id, NEW bridge,
           Place(url, n, id, bridge), url # "none",
           NEW i, NEW b
    PROVE  Place("none", n + 1, i, b)
<1>1. PICK k \in Nat : Age(k) <= now /\ Room(url, n, id, bridge, k)
  BY DEF Place
<1>2. n + 1 <= 3 * k + 5
  BY <1>1 DEF Room
<1>3. QED
  BY <1>1, <1>2 DEF Place, Room

\* A trip begins anywhere, with any cookies.
LEMMA Starts ==
    ASSUME now \in Nat, NEW goal \in Goals, NEW id, NEW bridge
    PROVE  Place(goal, 0, id, bridge)
<1>1. 0 \in Nat /\ Age(0) <= now
  BY Ages
<1>2. Room(goal, 0, id, bridge, 0)
  BY DEF Room, Goals
<1>3. QED
  BY <1>1, <1>2 DEF Place

\* Without a cookie the console and the link page send to the login.
LEMMA NoCookie ==
    ASSUME now \in Nat, NEW url \in {"console", "linkget"}, NEW n \in Nat,
           NEW id, NEW bridge, Place(url, n, id, bridge), id \notin Sid, NEW b
    PROVE  Place("login", n + 1, NotFound, b)
<1>1. PICK k \in Nat : Age(k) <= now /\ Room(url, n, id, bridge, k)
  BY DEF Place
<1>2. n + 1 <= 2
  BY <1>1 DEF Room, Fresh
<1>3. Room("login", n + 1, NotFound, b, k)
  BY <1>2 DEF Room
<1>4. QED
  BY <1>1, <1>3 DEF Place

\* So they do when the session has ended; then the next life has begun.
LEMMA SessionOver ==
    ASSUME now \in Nat, deadline \in [Sid -> Nat],
           NEW url \in {"console", "linkget"}, NEW n \in Nat,
           NEW id, NEW bridge, Place(url, n, id, bridge),
           now > deadline[id], NEW b
    PROVE  Place("login", n + 1, NotFound, b)
<1>1. PICK k \in Nat : Age(k) <= now /\ Room(url, n, id, bridge, k)
  BY DEF Place
<1>2. CASE n <= 1
  <2>1. Room("login", n + 1, NotFound, b, k)
    BY <1>2 DEF Room
  <2>2. QED
    BY <1>1, <2>1 DEF Place
<1>3. CASE n <= 3 * k + 4 /\ Fresh(id, k)
  <2>1. Age(k + 1) <= now
    BY <1>3, Ages DEF Fresh
  <2>2. Room("login", n + 1, NotFound, b, k + 1) /\ k + 1 \in Nat
    BY <1>3 DEF Room
  <2>3. QED
    BY <2>1, <2>2 DEF Place
<1>4. QED
  BY <1>1, <1>2, <1>3 DEF Room

\* A console request without the marker and with a session sets the marker or
\* goes to the link page; it was the trip's first or second.
LEMMA FirstLook ==
    ASSUME now \in Nat, deadline \in [Sid -> Nat], NEW n \in Nat,
           NEW id \in Sid, Place("console", n, id, FALSE),
           holder[id] # NotFound, deadline[id] >= SessionTTL, NEW b
    PROVE  Place("console", n + 1, id, TRUE) /\ Place("linkget", n + 1, id, b)
<1>1. n <= 1
  BY DEF Place, Room
<1>2. Age(0) <= now /\ Fresh(id, 0) /\ 0 \in Nat /\ n + 1 <= 3 * 0 + 4
  BY <1>1, Ages DEF Fresh
<1>3. QED
  BY <1>2 DEF Place, Room

LEMMA ToProvider ==
    ASSUME now \in Nat, NEW n \in Nat, NEW id, NEW bridge,
           Place("login", n, id, bridge), NEW i, NEW b
    PROVE  Place("idp", n + 1, i, b)
<1>1. PICK k \in Nat : Age(k) <= now /\ Room("login", n, id, bridge, k)
  BY DEF Place
<1>2. Room("idp", n + 1, i, b, k)
  BY <1>1 DEF Room
<1>3. QED
  BY <1>1, <1>2 DEF Place

LEMMA FromProvider ==
    ASSUME NEW n \in Nat, NEW id, NEW bridge, Place("idp", n, id, bridge)
    PROVE  Place("callback", n, id, bridge)
BY DEF Place, Room

\* The link page may come where the console may.
LEMMA LinkInstead ==
    ASSUME NEW n \in Nat, NEW id, Place("console", n, id, TRUE), NEW b
    PROVE  Place("linkget", n, id, b)
BY DEF Place, Room

\* After a logout or a signout the console is the first page.
LEMMA LeftForRoot ==
    ASSUME NEW url \in {"logout", "signout"}, NEW n \in Nat, NEW id, NEW bridge,
           Place(url, n, id, bridge), NEW i, NEW b
    PROVE  Place("console", n + 1, i, b)
BY DEF Place, Room

\* The session that a callback creates lasts to the end of the life it begins
\* in.
LEMMA NewLife ==
    ASSUME now \in Nat, now' = now, NEW n \in Nat, NEW url, NEW bridge,
           Place("callback", n, url, bridge), NEW id \in Sid,
           holder'[id] # NotFound, deadline'[id] = now + SessionTTL
    PROVE  Place("console", n + 1, id, TRUE)'
<1>1. PICK k \in Nat : Age(k) <= now /\ n <= 3 * k + 3
  BY DEF Place, Room
<1>2. Age(k) \in Nat /\ Age(k) <= now' /\ n + 1 <= 3 * k + 4
  BY <1>1, Ages
<1>3. Fresh(id, k)'
  BY <1>1, <1>2, Ages DEF Fresh
<1>4. Room("console", n + 1, id, TRUE, k)'
  BY <1>2, <1>3 DEF Room
<1>5. QED
  BY <1>2, <1>4 DEF Place

\* Every place bounds the hops, and fewer hops fit as well.
LEMMA PlaceBound ==
    ASSUME NEW url, NEW n \in Nat, NEW id, NEW bridge, Place(url, n, id, bridge)
    PROVE  /\ \E k \in Nat : Age(k) <= now /\ n <= 3 * k + 5
           /\ \A m \in Nat : m <= n => Place(url, m, id, bridge)
<1>1. PICK k \in Nat : Age(k) <= now /\ Room(url, n, id, bridge, k)
  BY DEF Place
<1>2. n <= 3 * k + 5
  BY <1>1 DEF Room
<1>3. ASSUME NEW m \in Nat, m <= n
      PROVE  Room(url, m, id, bridge, k)
  BY <1>1, <1>3 DEF Room
<1>4. QED
  BY <1>1, <1>2, <1>3 DEF Place

-----------------------------------------------------------------------------
(* What a step leaves alone. *)

\* Time goes on; credentials, and what was recorded about a created session,
\* stay.
Keeps ==
    /\ now \in Nat /\ now' \in Nat /\ now <= now'
    /\ UNCHANGED <<vault, accepted>>
    /\ \A id \in Sid : holder[id] # NotFound =>
          holder'[id] = holder[id] /\ deadline'[id] = deadline[id]

LEMMA PlaceKept ==
    ASSUME Keeps, NEW url, NEW n, NEW id, NEW bridge, Place(url, n, id, bridge)
    PROVE  Place(url, n, id, bridge)'
<1>1. PICK k \in Nat : Age(k) <= now /\ Room(url, n, id, bridge, k)
  BY DEF Place
<1>2. Age(k) <= now'
  BY <1>1, Ages DEF Keeps
<1>3. Room(url, n, id, bridge, k)'
  BY <1>1 DEF Room, Fresh, Keeps
<1>4. QED
  BY <1>2, <1>3 DEF Place

LEMMA RefusedKept ==
    ASSUME Keeps, NEW id, Refused(id)
    PROVE  Refused(id)'
BY DEF Refused, Keeps

LEMMA FitsKept ==
    ASSUME Keeps, NEW goal, NEW url, NEW well, NEW id, Fits(goal, url, well, id)
    PROVE  Fits(goal, url, well, id)'
BY RefusedKept DEF Fits

LEMMA ServingKept ==
    ASSUME Keeps, NEW t, NEW p, NEW q, NEW a, NEW j, Serving(t, p, q, a, j)
    PROVE  Serving(t, p, q, a, j)'
BY PlaceKept, FitsKept DEF Serving, Keeps

LEMMA ServedKept ==
    ASSUME Keeps, NEW t, NEW h, NEW a, NEW j, Served(t, h, a, j)
    PROVE  Served(t, h, a, j)'
<1>1. Lands(t.goal, a.to, j.plain) => Lands(t.goal, a.to, j.plain)'
  BY RefusedKept DEF Lands
<1>2. Place(Location(a.to, t.goal), t.hops + 1, NewValue(a.sid, j.plain),
            NewBridge(a, j))'
  BY PlaceKept DEF Served
<1>3. Fits(t.goal, Location(a.to, t.goal), t.well /\ ~Trouble(a),
           NewValue(a.sid, j.plain))'
  BY FitsKept DEF Served
<1>4. QED
  BY <1>1, <1>2, <1>3 DEF Served

\* A request that does not move, of a browser that gets nothing new.
LEMMA StillOnTrip ==
    ASSUME Keeps, NEW x \in Req, Still(x), OnTrip(x),
           trip'[rq[x].b] = trip[rq[x].b], jar'[rq[x].b] = jar[rq[x].b]
    PROVE  OnTrip(x)'
<1>1. pc'[x] = pc[x] /\ rq'[x] = rq[x] /\ resp'[x] = resp[x]
  BY DEF Still
<1>2. CASE pc[x] = "done"
  <2>1. Served(trip[rq[x].b], rq[x].h, resp[x], jar[rq[x].b])
    BY <1>2 DEF OnTrip
  <2> QED
    BY <1>1, <1>2, <2>1, ServedKept DEF OnTrip
<1>3. CASE pc[x] # "done"
  <2>1. Serving(trip[rq[x].b], pc[x], rq[x], resp[x], jar[rq[x].b])
    BY <1>3 DEF OnTrip
  <2> QED
    BY <1>1, <1>3, <2>1, ServingKept DEF OnTrip
<1>4. QED
  BY <1>2, <1>3

LEMMA StillMoves ==
    ASSUME Keeps, NEW b \in Browser, Moves(b),
           trip'[b] = trip[b], jar'[b] = jar[b]
    PROVE  Moves(b)'
BY PlaceKept, FitsKept DEF Moves

\* What is known of a browser's next hop is known after a step as well.
LEMMA StillBounded ==
    ASSUME Keeps, NEW b \in Browser, trip'[b].hops = trip[b].hops,
           \E k \in Nat : Age(k) <= now /\ trip[b].hops <= 3 * k + 5
    PROVE  \E k \in Nat : Age(k) <= now' /\ trip'[b].hops <= 3 * k + 5
<1>1. PICK k \in Nat : Age(k) <= now /\ trip[b].hops <= 3 * k + 5
  OBVIOUS
<1>2. Age(k) <= now'
  BY <1>1, Ages DEF Keeps
<1>3. QED
  BY <1>1, <1>2

-----------------------------------------------------------------------------
(* Steps of a request. *)

LEMMA WorldTypes ==
    ASSUME OInv
    PROVE  /\ now \in Nat /\ SessionTTL \in Nat
           /\ sess \in [Sid -> SessionKey \cup {NotFound}]
           /\ vault \in [User -> Cred \cup {NotFound}] /\ accepted \subseteq Cred
           /\ jar \in [Browser -> Jar]
           /\ holder \in [Sid -> User \cup {NotFound}]
           /\ deadline \in [Sid -> Nat]
           /\ NotFound \notin Sid \cup User \cup Cred \cup State \cup SessionKey
BY TTLAssumption, NotFoundAssumption, GatewayAssumption
   DEF OInv, IInv, SharedOK, KeysTypeOK, WorldOK, HistoryOK

LEMMA RequestTypes ==
    ASSUME OInv, JInv, NEW r \in Req, pc[r] # "idle"
    PROVE  /\ r \in InFlight /\ OnTrip(r)
           /\ rq[r] \in Request /\ resp[r] \in Response
           /\ rq[r].b \in Browser /\ trip[rq[r].b] \in Trip
           /\ jar[rq[r].b] \in Jar
           /\ pc \in [Req -> PCs] /\ rq \in [Req -> Request]
           /\ resp \in [Req -> Response]
<1>1. r \in InFlight
  BY DEF InFlight
<1>2. /\ rq[r] \in Request /\ resp[r] \in Response /\ rq[r].b \in Browser
      /\ pc \in [Req -> PCs] /\ rq \in [Req -> Request]
      /\ resp \in [Req -> Response]
  BY DEF OInv, IInv, RequestsOK, Ready
<1>3. QED
  BY <1>1, <1>2, WorldTypes DEF JInv, TripTypeOK

\* What a request that has not answered knows.
LEMMA AtWork ==
    ASSUME OInv, JInv, NEW r \in Req, pc[r] \notin {"idle", "done"}
    PROVE  /\ OnRoute(rq[r].h, pc[r])
           /\ Serving(trip[rq[r].b], pc[r], rq[r], resp[r], jar[rq[r].b])
BY RequestTypes DEF OnTrip

\* A session that was there, or whose time was over, is so after the step.
Lasting == \A id \in Sid : Present(id) => Present(id)'

LEMMA StillKnown ==
    ASSUME OInv, Known, Lasting, UNCHANGED jar,
           \A x \in Req : pc[x] # "idle" =>
              pc'[x] # "idle" /\ rq'[x].b = rq[x].b /\ rq'[x].h = rq[x].h
    PROVE  Known'
<1>1. \A b \in Browser : LoggingOut(b) => LoggingOut(b)'
  BY DEF LoggingOut, InFlight
<1>2. \A b \in Browser : jar[b].plain # NotFound => jar[b].plain \in Sid
  BY WorldTypes DEF Jar
<1>3. QED
  BY <1>1, <1>2 DEF Known, Lasting

\* One request has moved on: what has to be seen about it.
LEMMA ServeStep ==
    ASSUME OInv, OInv', JInv, Keeps, NEW r \in Req, pc[r] # "idle",
           \A x \in Req \ {r} : Still(x), UNCHANGED <<trip, jar, secure>>,
           pc'[r] # "idle", rq'[r].b = rq[r].b, rq'[r].h = rq[r].h,
           OnTrip(r)', Timely', Told', Known'
    PROVE  JInv'
<1>1. TripTypeOK' /\ OneCookie'
  BY DEF JInv, TripTypeOK, OneCookie
<1>2. Bounded'
  BY StillBounded DEF JInv, Bounded
<1>3. \A x \in Req : /\ x \in InFlight' <=> x \in InFlight
                     /\ rq'[x].b = rq[x].b
  BY DEF Still, InFlight
<1>4. Alone'
  BY <1>3 DEF JInv, Alone, InFlight
<1>5. \A b \in Browser : Moves(b)'
  BY StillMoves DEF JInv
<1>6. ASSUME NEW x \in InFlight' PROVE OnTrip(x)'
  <2>1. CASE x = r
    BY <2>1
  <2>2. CASE x # r
    BY <1>3, <2>2, StillOnTrip DEF JInv, InFlight
  <2>3. QED
    BY <2>1, <2>2
<1>7. QED
  BY <1>1, <1>2, <1>4, <1>5, <1>6 DEF JInv

\* A step that at most drops sessions whose time is over, and writes back
\* sessions that were created before.
Spares ==
    /\ UNCHANGED <<now, secure, vault, accepted, jar, trip, holder, deadline>>
    /\ \A id \in Sid : \/ sess'[id] = sess[id]
                       \/ sess'[id] = NotFound /\ now > deadline[id]
                       \/ /\ sess'[id] # NotFound /\ holder[id] # NotFound
                          /\ sess'[id].ttl = now + SessionTTL

LEMMA SparesAll ==
    ASSUME OInv, JInv, Spares
    PROVE  Keeps /\ Lasting /\ Timely'
<1>1. Keeps
  BY WorldTypes DEF Spares, Keeps
<1>2. Lasting
  BY DEF Spares, Lasting, Present
<1>3. Timely'
  BY DEF JInv, Timely, Spares
<1>4. QED
  BY <1>1, <1>2, <1>3

LEMMA Onward ==
    ASSUME OInv, OInv', JInv, Spares, NEW r \in Req, pc[r] # "idle",
           NEW p, NEW q, NEW a, p # "idle",
           pc' = [pc EXCEPT ![r] = p], rq' = [rq EXCEPT ![r] = q],
           resp' = [resp EXCEPT ![r] = a],
           q.b = rq[r].b, q.h = rq[r].h,
           a.sid = resp[r].sid \/ a.sid \notin Sid, OnRoute(q.h, p),
           IF p = "done" THEN Served(trip[q.b], q.h, a, jar[q.b])
                         ELSE Serving(trip[q.b], p, q, a, jar[q.b])
    PROVE  JInv'
<1>1. Keeps /\ Lasting /\ Timely'
  BY SparesAll
<1>2. /\ pc'[r] = p /\ rq'[r] = q /\ resp'[r] = a
      /\ \A x \in Req \ {r} : Still(x)
  BY RequestTypes DEF Still
<1>3. UNCHANGED <<trip, jar, secure>>
  BY DEF Spares
<1>4. OnTrip(r)'
  <2>1. trip'[q.b].url = "busy"
    BY <1>3, RequestTypes DEF OnTrip
  <2>2. CASE p = "done"
    BY <1>1, <1>2, <1>3, <2>1, <2>2, ServedKept DEF OnTrip
  <2>3. CASE p # "done"
    BY <1>1, <1>2, <1>3, <2>1, <2>3, ServingKept DEF OnTrip
  <2>4. QED
    BY <2>2, <2>3
<1>5. Known'
  BY <1>1, <1>2, <1>3, StillKnown DEF JInv, Still
<1>6. Told'
  BY <1>1, <1>2 DEF JInv, Told, Lasting, Still, InFlight
<1>7. QED
  BY <1>1, <1>2, <1>3, <1>4, <1>5, <1>6, ServeStep

\* The handler has answered.
LEMMA Concludes ==
    ASSUME OInv, OInv', JInv, Spares, NEW r \in Req,
           pc[r] \notin {"idle", "done"},
           NEW a, Leave(r), resp' = [resp EXCEPT ![r] = a],
           a.sid = resp[r].sid \/ a.sid \notin Sid,
           Served(trip[rq[r].b], rq[r].h, a, jar[rq[r].b])
    PROVE  JInv'
<1> DEFINE q == [Blank EXCEPT !.h = rq[r].h, !.b = rq[r].b]
<1>1. q.b = rq[r].b /\ q.h = rq[r].h
  BY DEF Blank
<1>2. OnRoute(q.h, "done")
  BY <1>1, AtWork DEF OnRoute
<1>3. pc' = [pc EXCEPT ![r] = "done"] /\ rq' = [rq EXCEPT ![r] = q]
  BY DEF Leave, Goto
<1> HIDE DEF q
<1>4. QED
  BY <1>1, <1>2, <1>3, Onward

\* An error ends the trip, and tells of trouble.
LEMMA Broken ==
    ASSUME OInv, JInv, NEW r \in Req,
           pc[r] \notin {"idle", "done", "delete", "n8nlogout"},
           NEW to \in {"400", "401", "500", "502", "503"}
    PROVE  Served(trip[rq[r].b], rq[r].h, [resp[r] EXCEPT !.to = to],
                  jar[rq[r].b])
<1> DEFINE a == [resp[r] EXCEPT !.to = to]
           t == trip[rq[r].b]
           j == jar[rq[r].b]
<1>1. resp[r] \in Response /\ t \in Trip
  BY RequestTypes
<1>2. /\ a.to = to /\ a.sid = resp[r].sid /\ a.cause = resp[r].cause
      /\ a.bridge = resp[r].bridge
  BY <1>1 DEF Response
<1>3. Serving(t, pc[r], rq[r], resp[r], j) /\ OnRoute(rq[r].h, pc[r])
  BY AtWork
<1>4. Trouble(a) /\ Location(a.to, t.goal) = "none"
  BY <1>2, <1>3 DEF Trouble, Location, Serving
<1>5. rq[r].h # "none" /\ rq[r].h # "logout"
  BY <1>3 DEF OnRoute
<1>6. t.hops \in Nat
  BY <1>1 DEF Trip
<1>7. Place("none", t.hops + 1, NewValue(a.sid, j.plain), NewBridge(a, j))
  BY <1>3, <1>5, <1>6, Stops, WorldTypes DEF Serving
<1>8. QED
  BY <1>4, <1>5, <1>7 DEF Served, Fits

LEMMA BreaksOff ==
    ASSUME OInv, OInv', JInv, Spares, NEW r \in Req,
           pc[r] \notin {"idle", "done", "delete", "n8nlogout"},
           NEW to \in {"400", "401", "500", "502", "503"}, Respond(r, to)
    PROVE  JInv'
<1> DEFINE a == [resp[r] EXCEPT !.to = to]
<1>1. a.sid = resp[r].sid
  BY RequestTypes DEF Response
<1>2. Served(trip[rq[r].b], rq[r].h, a, jar[rq[r].b])
  BY Broken
<1>3. Leave(r) /\ resp' = [resp EXCEPT ![r] = a]
  BY DEF Respond
<1> HIDE DEF a
<1>4. QED
  BY <1>1, <1>2, <1>3, Concludes

LEMMA SparesNothing ==
    ASSUME UNCHANGED <<shared, history>>, UNCHANGED trip
    PROVE  Spares
BY DEF Spares, shared, sharedButStore, keys, external, browsers, history

\* Redis may drop a session, or be told to, once its time is over.
LEMMA SparesStore ==
    ASSUME UNCHANGED <<sharedButStore, holder, deadline>>, UNCHANGED trip,
           OInv, NEW id \in Sid,
           \/ UNCHANGED sess
           \/ DelSession(id) /\ now > deadline[id]
           \/ \E v : SetSession(id, v) /\ v \in Session /\ holder[id] # NotFound
    PROVE  Spares
<1> SUFFICES ASSUME NEW v, SetSession(id, v), v \in Session,
                    holder[id] # NotFound
             PROVE  Spares
  BY WorldTypes
     DEF Spares, DelSession, sharedButStore, external, browsers
<1>1. /\ sess'[id] = [val |-> v, ttl |-> now + SessionTTL]
      /\ \A x \in Sid \ {id} : sess'[x] = sess[x]
  BY WorldTypes DEF SetSession
<1>2. sess'[id] \in SessionKey
  BY <1>1, WorldTypes DEF SessionKey
<1>3. QED
  BY <1>1, <1>2, WorldTypes DEF Spares, sharedButStore, external, browsers

\* A session that is not live any more, although it is stored or its time is
\* over.
LEMMA NotLive ==
    ASSUME OInv, NEW id \in Sid, LiveSession(id) = NotFound,
           sess[id] # NotFound \/ now > deadline[id]
    PROVE  now > deadline[id]
<1> SUFFICES ASSUME sess[id] # NotFound PROVE now > deadline[id]
  OBVIOUS
<1>1. sess[id] \in SessionKey /\ sess[id].val.exp = deadline[id]
  BY WorldTypes DEF OInv, IInv, SharedOK, StoreFaithful
<1>2. sess[id].val \in Session /\ NotFound \notin Session
  BY <1>1, NotFoundAssumption DEF SessionKey
<1>3. Expired(sess[id].val)
  BY <1>2 DEF LiveSession, StoredSession, ValueOf
<1>4. QED
  BY <1>1, <1>3 DEF Expired

\* The session a browser has a cookie for was created.
LEMMA CookieSession ==
    ASSUME OInv, JInv, NEW b \in Browser, jar[b].plain # NotFound
    PROVE  /\ jar[b].plain \in Sid /\ holder[jar[b].plain] # NotFound
           /\ deadline[jar[b].plain] >= SessionTTL
<1>1. jar[b].plain \in Sid
  BY WorldTypes DEF Jar
<1>2. Own(jar[b].plain, b)
  BY DEF OInv, Owned, JarsOwn
<1>3. holder[jar[b].plain] # NotFound
  BY <1>1, <1>2, GatewayAssumption DEF Own, OInv, Owned, BornTogether
<1>4. QED
  BY <1>1, <1>3 DEF JInv, Timely

\* A request that is no logout finds its browser's session, or finds it over.
LEMMA LookedUp ==
    ASSUME OInv, JInv, NEW r \in Req, pc[r] = "lookup"
    PROVE  LET id == jar[rq[r].b].plain
           IN  /\ rq[r].h \in {"console", "linkget"} /\ rq[r].ids = <<id>>
               /\ id \in Sid
               /\ LiveSession(id) = NotFound => now > deadline[id]
<1> DEFINE b == rq[r].b
           id == jar[b].plain
<1>1. rq[r].h \in {"console", "linkget"} /\ rq[r].ids = <<id>> /\ id # NotFound
  BY AtWork DEF OnRoute, Serving
<1>2. b \in Browser /\ r \in InFlight
  BY RequestTypes
<1>3. id \in Sid
  BY <1>1, <1>2, CookieSession
<1>4. ~LoggingOut(b)
  BY <1>1, <1>2 DEF LoggingOut, JInv, Alone
<1>5. Present(id)
  BY <1>1, <1>2, <1>4 DEF JInv, Known
<1>6. QED
  BY <1>1, <1>3, <1>5, NotLive DEF Present

LEMMA LookupFoundTrip ==
    ASSUME OInv, OInv', JInv, NEW r \in Req, LookupFound(r), UNCHANGED trip
    PROVE  JInv'
<1> DEFINE id == jar[rq[r].b].plain
           p == AfterSession(rq[r])
           q == [rq[r] EXCEPT !.id = id, !.copy = LiveSession(id), !.ids = <<>>]
<1>1. pc[r] = "lookup" /\ Spares
  BY SparesNothing DEF LookupFound, At
<1>2. rq[r] \in Request
  BY <1>1, RequestTypes
<1>3. rq[r].h \in {"console", "linkget"} /\ rq[r].ids = <<id>>
  BY <1>1, LookedUp
<1>4. Head(rq[r].ids) = id
  BY <1>3
<1>5. /\ pc' = [pc EXCEPT ![r] = p] /\ rq' = [rq EXCEPT ![r] = q]
      /\ resp' = [resp EXCEPT ![r] = resp[r]]
  BY <1>1, <1>4, RequestTypes DEF LookupFound, Goto
<1>6. /\ q.b = rq[r].b /\ q.h = rq[r].h /\ q.id = id
      /\ q.bridge = rq[r].bridge
  BY <1>2 DEF Request
<1>7. /\ p \notin {"idle", "done", "lookup", "n8nlogin"} /\ OnRoute(q.h, p)
      /\ p = "vault" /\ q.h = "console" => ~q.bridge
  BY <1>3, <1>6 DEF AfterSession, OnRoute
<1>8. Serving(trip[q.b], p, q, resp[r], jar[q.b])
  BY <1>1, <1>3, <1>6, <1>7, AtWork DEF Serving
<1> HIDE DEF p, q
<1>9. QED
  BY <1>1, <1>5, <1>6, <1>7, <1>8, Onward

\* The cookies are cleared on the way to the login.
LEMMA LookupMissingTrip ==
    ASSUME IdsApart, OInv, OInv', JInv, NEW r \in Req, LookupMissing(r),
           UNCHANGED trip
    PROVE  JInv'
<1> DEFINE id == jar[rq[r].b].plain
           a == [resp[r] EXCEPT !.sid = "clear", !.to = "login"]
           t == trip[rq[r].b]
           j == jar[rq[r].b]
<1>1. pc[r] = "lookup"
  BY DEF LookupMissing, At
<1>2. resp[r] \in Response /\ t \in Trip
  BY <1>1, RequestTypes
<1>3. /\ rq[r].h \in {"console", "linkget"} /\ rq[r].ids = <<id>> /\ id \in Sid
      /\ LiveSession(id) = NotFound => now > deadline[id]
  BY <1>1, LookedUp
<1>4. Head(rq[r].ids) = id /\ Tail(rq[r].ids) = <<>>
  BY <1>3
<1>5. now > deadline[id]
  BY <1>3, <1>4 DEF LookupMissing
<1>6. Spares
  <2>1. UNCHANGED sess \/ DelSession(id)
    BY <1>4 DEF LookupMissing
  <2>2. UNCHANGED <<sharedButStore, holder, deadline>>
    BY DEF LookupMissing, history
  <2>3. QED
    BY <1>3, <1>5, <2>1, <2>2, SparesStore
<1>7. Leave(r) /\ resp' = [resp EXCEPT ![r] = a]
  BY <1>3, <1>4 DEF LookupMissing, Serves
<1>8. /\ a.sid = "clear" /\ a.to = "login" /\ a.cause = resp[r].cause
      /\ a.bridge = resp[r].bridge
  BY <1>2 DEF Response
<1>9. t.hops \in Nat
  BY <1>2 DEF Trip
<1>10. Place("login", t.hops + 1, NotFound, NewBridge(a, j))
  <2>1. Place(rq[r].h, t.hops, id, j.bridge)
    BY <1>1, AtWork DEF Serving
  <2>2. QED
    BY <1>3, <1>5, <1>9, <2>1, SessionOver, WorldTypes
<1>11. Served(t, rq[r].h, a, j)
  BY <1>3, <1>8, <1>10 DEF Served, Location, NewValue, Fits
<1>12. a.sid \notin Sid
  BY <1>8 DEF IdsApart
<1> HIDE DEF a, t, j
<1>13. QED
  BY <1>1, <1>6, <1>7, <1>11, <1>12, Concludes DEF t, j

\* The login page is for browsers without a session cookie: it starts a login.
LEMMA StartLoginTrip ==
    ASSUME OInv, OInv', JInv, NEW r \in Req, NEW s \in State, StartLogin(r, s),
           UNCHANGED trip
    PROVE  JInv'
<1> DEFINE a == [resp[r] EXCEPT !.to = "idp", !.st = s]
           t == trip[rq[r].b]
           j == jar[rq[r].b]
<1>1. pc[r] = "state"
  BY DEF StartLogin, At
<1>2. resp[r] \in Response /\ t \in Trip
  BY <1>1, RequestTypes
<1>3. Spares
  BY DEF StartLogin, Spares, sharedButStore, external, browsers
<1>4. Leave(r) /\ resp' = [resp EXCEPT ![r] = a]
  BY DEF StartLogin
<1>5. /\ a.to = "idp" /\ a.sid = resp[r].sid
      /\ a.bridge = resp[r].bridge
  BY <1>2 DEF Response
<1>6. t.hops \in Nat
  BY <1>2 DEF Trip
<1>7. rq[r].h = "login" /\ Place("login", t.hops, j.plain, j.bridge)
  BY <1>1, AtWork DEF OnRoute, Serving
<1>8. Place("idp", t.hops + 1, NewValue(a.sid, j.plain), NewBridge(a, j))
  BY <1>6, <1>7, ToProvider, WorldTypes
<1>9. Served(t, rq[r].h, a, j)
  BY <1>5, <1>7, <1>8 DEF Served, Location, Fits
<1> HIDE DEF a, t, j
<1>10. QED
  BY <1>1, <1>3, <1>4, <1>5, <1>9, Concludes DEF t, j

-----------------------------------------------------------------------------
(* The callback. *)

\* The session that a request works on.
LEMMA AtHand ==
    ASSUME OInv, JInv, NEW r \in Req, pc[r] \in HasSession
    PROVE  /\ pc[r] \notin {"idle", "done", "delete", "n8nlogout"}
           /\ rq[r].id \in Sid /\ holder[rq[r].id] # NotFound
           /\ rq[r].copy \in Session /\ rq[r].copy.user = holder[rq[r].id]
           /\ deadline[rq[r].id] >= SessionTTL
<1>1. pc[r] \notin {"idle", "done", "delete", "n8nlogout"}
  BY DEF HasSession
<1>2. rq[r] \in Request /\ rq[r].copy # NotFound /\ Faithful(rq[r])
  BY <1>1, RequestTypes DEF OInv, IInv, RequestsOK, Ready
<1>3. QED
  BY <1>1, <1>2 DEF Request, Faithful, JInv, Timely

\* What blames a service, or a state that is gone.
LEMMA ErrorsTrip ==
    ASSUME OInv, OInv', JInv, NEW r \in Req, UNCHANGED trip,
           \/ LookupFails(r) \/ (\E s \in State : StartLoginFails(r, s))
           \/ RandomFails(r) \/ TakeStateFails(r) \/ ExchangeFails(r)
           \/ CreateSessionFails(r) \/ GetCredentialFails(r) \/ LinkPageFails(r)
    PROVE  JInv'
<1>1. CASE LookupFails(r) \/ GetCredentialFails(r) \/ LinkPageFails(r)
  BY <1>1, BreaksOff, SparesNothing
     DEF LookupFails, GetCredentialFails, LinkPageFails, At
<1>2. CASE RandomFails(r) \/ ExchangeFails(r) \/ CreateSessionFails(r)
  BY <1>2, BreaksOff, SparesNothing
     DEF RandomFails, ExchangeFails, CreateSessionFails, At
<1>3. CASE \E s \in State : StartLoginFails(r, s)
  <2>1. Spares
    BY <1>3 DEF StartLoginFails, Spares, sharedButStore, external, browsers
  <2>2. QED
    BY <1>3, <2>1, BreaksOff DEF StartLoginFails, At
<1>4. CASE TakeStateFails(r)
  <2>1. Spares
    BY <1>4
       DEF TakeStateFails, Spares, sharedButStore, external, browsers, history
  <2>2. QED
    BY <1>4, <2>1, BreaksOff DEF TakeStateFails, At
<1>5. QED
  BY <1>1, <1>2, <1>3, <1>4

LEMMA ReloadFailsTrip ==
    ASSUME OInv, OInv', JInv, NEW r \in Req, UNCHANGED trip, ReloadFails(r)
    PROVE  JInv'
<1>1. pc[r] = "reload"
  BY DEF ReloadFails, At
<1>2. rq[r].id \in Sid
  BY <1>1, AtHand DEF HasSession
<1>3. Spares
  <2>1. UNCHANGED sess \/ (DelSession(rq[r].id) /\ now > deadline[rq[r].id])
    BY <1>2, NotLive DEF ReloadFails, StoredSession, ValueOf
  <2>2. UNCHANGED <<sharedButStore, holder, deadline>>
    BY DEF ReloadFails, history
  <2>3. QED
    BY <1>2, <2>1, <2>2, SparesStore
<1>4. QED
  BY <1>1, <1>3, BreaksOff DEF ReloadFails

\* The callback redeems its state and its code.
LEMMA RedeemTrip ==
    ASSUME OInv, OInv', JInv, NEW r \in Req, UNCHANGED trip,
           TakeState(r) \/ Exchange(r)
    PROVE  JInv'
<1> DEFINE p == IF pc[r] = "take" THEN "exchange" ELSE "create"
<1>1. pc[r] \in {"take", "exchange"}
  BY DEF TakeState, Exchange, At
<1>2. Spares
  BY SparesNothing
     DEF TakeState, Exchange, Spares, sharedButStore, external, browsers,
         history
<1>3. /\ pc' = [pc EXCEPT ![r] = p] /\ rq' = [rq EXCEPT ![r] = rq[r]]
      /\ resp' = [resp EXCEPT ![r] = resp[r]]
  BY <1>1, RequestTypes DEF TakeState, Exchange, At, Goto
<1>4. rq[r].h = "callback"
  BY <1>1, AtWork DEF OnRoute
<1>5. p \in {"exchange", "create"} /\ OnRoute(rq[r].h, p)
  BY <1>4 DEF OnRoute
<1>6. Serving(trip[rq[r].b], p, rq[r], resp[r], jar[rq[r].b])
  BY <1>1, <1>4, <1>5, AtWork DEF Serving, HasSession
<1> HIDE DEF p
<1>7. QED
  BY <1>1, <1>2, <1>3, <1>5, <1>6, Onward

LEMMA ReloadTrip ==
    ASSUME OInv, OInv', JInv, NEW r \in Req, UNCHANGED trip, Reload(r)
    PROVE  JInv'
<1> DEFINE q == [rq[r] EXCEPT !.copy = LiveSession(rq[r].id)]
<1>1. pc[r] = "reload" /\ Spares
  BY SparesNothing DEF Reload, At
<1>2. rq[r] \in Request
  BY <1>1, RequestTypes
<1>3. /\ pc' = [pc EXCEPT ![r] = "save"] /\ rq' = [rq EXCEPT ![r] = q]
      /\ resp' = [resp EXCEPT ![r] = resp[r]]
  BY <1>1, RequestTypes DEF Reload, Goto
<1>4. /\ q.b = rq[r].b /\ q.h = rq[r].h /\ q.id = rq[r].id
      /\ q.bridge = rq[r].bridge
  BY <1>2 DEF Request
<1>5. rq[r].h = "callback" /\ OnRoute(q.h, "save")
  BY <1>1, <1>4, AtWork DEF OnRoute
<1>6. Serving(trip[q.b], "save", q, resp[r], jar[q.b])
  BY <1>1, <1>4, <1>5, AtWork DEF Serving, HasSession
<1> HIDE DEF q
<1>7. QED
  BY <1>1, <1>3, <1>4, <1>5, <1>6, Onward

\* A callback goes on with the session it created.
LEMMA CreatedServing ==
    ASSUME Keeps, now' = now, NEW t, NEW q, NEW a, NEW j,
           Serving(t, "create", q, a, j), q.h = "callback", t.hops \in Nat,
           NEW id \in Sid, holder'[id] # NotFound,
           deadline'[id] = now + SessionTTL,
           NEW q2, q2.h = q.h, q2.id = id, q2.bridge = q.bridge,
           NEW a2, a2.sid = id, a2.cause = a.cause, a2.bridge = a.bridge
    PROVE  Serving(t, "vault", q2, a2, j)'
<1>1. Place("callback", t.hops, j.plain, j.bridge)
  BY DEF Serving
<1>2. Place("callback", t.hops, j.plain, j.bridge)'
  BY <1>1, PlaceKept
<1>3. Place("console", t.hops + 1, id, TRUE)'
  BY <1>1, NewLife DEF Keeps
<1>4. Fits(t.goal, "callback", t.well, j.plain)'
  BY FitsKept DEF Serving
<1>5. QED
  BY <1>2, <1>3, <1>4 DEF Serving, HasSession

\* The session that the callback creates is good for the hops to come.
LEMMA CreateSessionTrip ==
    ASSUME IdsApart, OInv, OInv', JInv, NEW r \in Req, UNCHANGED trip,
           NEW id \in Sid, CreateSession(r, id)
    PROVE  JInv'
<1> DEFINE v == NewSession(idp[rq[r].code])
           b == rq[r].b
           q == [rq[r] EXCEPT !.id = id, !.copy = v]
           a == [resp[r] EXCEPT !.sid = id]
           e == [resp[r] EXCEPT !.to = "503"]
<1>1. pc[r] = "create" /\ holder[id] = NotFound
  BY DEF CreateSession, At
<1>2. /\ rq[r] \in Request /\ resp[r] \in Response /\ b \in Browser
      /\ trip[b].hops \in Nat /\ trip[b].url = "busy" /\ rq[r].h = "callback"
      /\ Serving(trip[b], "create", rq[r], resp[r], jar[b])
  BY <1>1, RequestTypes, AtWork DEF OnRoute, OnTrip, Trip
<1>3. idp[rq[r].code] \in User
  BY <1>1 DEF OInv, IInv, RequestsOK, Ready
<1>4. /\ v \in Session /\ v.user = idp[rq[r].code] /\ v.user # NotFound
      /\ v.exp = now + SessionTTL
  BY <1>3, WorldTypes DEF NewSession, Session
<1>5. [val |-> v, ttl |-> now + SessionTTL] # NotFound
  BY <1>4, WorldTypes DEF SessionKey
<1>6. /\ sess' = [sess EXCEPT ![id] = [val |-> v, ttl |-> now + SessionTTL]]
      /\ holder' = [holder EXCEPT ![id] = v.user]
      /\ deadline' = [deadline EXCEPT ![id] = v.exp]
      /\ UNCHANGED <<now, secure, vault, accepted, jar, trip>>
  BY DEF CreateSession, SetSession, sharedButStore, external, browsers
<1>7. \/ /\ pc' = [pc EXCEPT ![r] = "vault"]
         /\ rq' = [rq EXCEPT ![r] = q] /\ resp' = [resp EXCEPT ![r] = a]
      \/ Leave(r) /\ resp' = [resp EXCEPT ![r] = e]
  BY DEF CreateSession, Respond, Goto
<1> HIDE DEF v
<1>8. /\ sess'[id] # NotFound /\ sess'[id].ttl = now + SessionTTL
      /\ holder'[id] # NotFound /\ deadline'[id] = now + SessionTTL
      /\ \A x \in Sid \ {id} : /\ sess'[x] = sess[x] /\ holder'[x] = holder[x]
                               /\ deadline'[x] = deadline[x]
  BY <1>4, <1>5, <1>6, WorldTypes
<1>9. Keeps /\ Lasting
  BY <1>1, <1>6, <1>8, WorldTypes DEF Keeps, Lasting, Present
<1>10. Timely'
  BY <1>6, <1>8, WorldTypes DEF JInv, Timely
<1>11. Present(id)'
  BY <1>8 DEF Present
<1>12. /\ q.h = rq[r].h /\ q.b = b /\ q.id = id /\ q.bridge = rq[r].bridge
       /\ a.sid = id /\ a.cause = resp[r].cause /\ a.bridge = resp[r].bridge
       /\ e.sid = resp[r].sid
  BY <1>2 DEF Request, Response
<1> HIDE DEF q, a, e
<1>13. \A x \in Req \ {r} : Still(x)
  BY <1>1, <1>7, RequestTypes DEF Still, Leave, Goto
<1>14. /\ pc'[r] # "idle" /\ rq'[r].b = b /\ rq'[r].h = rq[r].h
       /\ resp'[r].sid \in {id, resp[r].sid} /\ OnTrip(r)'
  <2>1. CASE pc' = [pc EXCEPT ![r] = "vault"] /\ rq' = [rq EXCEPT ![r] = q]
             /\ resp' = [resp EXCEPT ![r] = a]
    <3>1. pc'[r] = "vault" /\ rq'[r] = q /\ resp'[r] = a
      BY <1>1, <2>1, RequestTypes
    <3>2. ASSUME NEW t, t = trip[b], NEW j, j = jar[b],
                 NEW c, c = q, NEW d, d = a
          PROVE  Serving(t, "vault", c, d, j)'
      BY <1>2, <1>6, <1>8, <1>9, <1>12, <3>2, CreatedServing
    <3>3. QED
      BY <1>2, <1>6, <1>12, <3>1, <3>2 DEF OnTrip, OnRoute
  <2>2. CASE Leave(r) /\ resp' = [resp EXCEPT ![r] = e]
    <3>1. /\ pc'[r] = "done" /\ rq'[r].b = b /\ rq'[r].h = rq[r].h
          /\ resp'[r] = e
      BY <1>1, <2>2, RequestTypes DEF Leave, Goto, Blank
    <3>2. Served(trip[b], rq[r].h, e, jar[b])
      BY <1>1, Broken DEF e
    <3>3. QED
      BY <1>2, <1>6, <1>9, <1>12, <3>1, <3>2, ServedKept DEF OnTrip, OnRoute
  <2>3. QED
    BY <1>7, <2>1, <2>2
<1>15. Told'
  <2>1. ASSUME NEW x \in Req \ {r}, pc'[x] # "idle"
        PROVE  (resp[x].sid \in Sid => Present(resp[x].sid))'
    <3>1. pc[x] # "idle" /\ resp'[x] = resp[x]
      BY <1>13, <2>1 DEF Still
    <3>2. resp[x].sid \in Sid => Present(resp[x].sid)
      BY <3>1 DEF JInv, Told, InFlight
    <3>3. QED
      BY <1>9, <3>1, <3>2 DEF Lasting
  <2>2. (resp[r].sid \in Sid => Present(resp[r].sid))'
    <3>1. ASSUME NEW x \in Sid, x = resp[r].sid PROVE Present(x)'
      BY <1>1, <1>9, <3>1 DEF JInv, Told, Lasting, InFlight
    <3>2. QED
      BY <1>11, <1>14, <3>1
  <2>3. QED
    BY <2>1, <2>2 DEF Told, InFlight
<1>16. Known'
  BY <1>6, <1>9, <1>13, <1>14, StillKnown DEF JInv, Still
<1>17. QED
  BY <1>1, <1>6, <1>9, <1>10, <1>13, <1>14, <1>15, <1>16, ServeStep

-----------------------------------------------------------------------------
(* The stored credential, and n8n. *)

\* Where the console and the callback may send a browser with a session.
LEMMA Choices ==
    ASSUME IdsApart, OInv, JInv, NEW r \in Req,
           pc[r] \in {"vault", "n8nlogin", "save"}, rq[r].h # "linkget"
    PROVE  LET t == trip[rq[r].b]
               j == jar[rq[r].b]
               id == rq[r].id
           IN  /\ rq[r].h \in {"console", "callback"}
               /\ NewValue(resp[r].sid, j.plain) = id
               /\ Place("console", t.hops + 1, id, TRUE)
               /\ \A b : Place("linkget", t.hops + 1, id, b)
<1> DEFINE t == trip[rq[r].b]
           j == jar[rq[r].b]
           id == rq[r].id
<1>1. pc[r] \in HasSession
  BY DEF HasSession
<1>2. /\ pc[r] \notin {"idle", "done"} /\ id \in Sid /\ holder[id] # NotFound
      /\ deadline[id] >= SessionTTL
  BY <1>1, AtHand
<1>3. Serving(t, pc[r], rq[r], resp[r], j) /\ OnRoute(rq[r].h, pc[r])
  BY <1>2, AtWork
<1>4. t.hops \in Nat /\ t.hops + 1 \in Nat /\ j.bridge \in BOOLEAN
  BY <1>2, RequestTypes DEF Trip, Jar
<1>5. rq[r].h \in {"console", "callback"}
  BY <1>3 DEF OnRoute
<1>6. CASE rq[r].h = "callback"
  <2>1. resp[r].sid = id /\ Place("console", t.hops + 1, id, TRUE)
    BY <1>1, <1>3, <1>6 DEF Serving
  <2>2. NewValue(resp[r].sid, j.plain) = id
    BY <1>2, <2>1 DEF NewValue, IdsApart
  <2>3. \A b : Place("linkget", t.hops + 1, id, b)
    BY <1>4, <2>1, LinkInstead
  <2>4. QED
    BY <1>6, <2>1, <2>2, <2>3
<1>7. CASE rq[r].h = "console"
  <2>1. pc[r] \in {"vault", "n8nlogin"}
    BY <1>3, <1>7 DEF OnRoute
  <2>2. id = j.plain /\ j.bridge = FALSE /\ resp[r].sid = "keep"
    BY <1>3, <1>4, <1>7, <2>1 DEF Serving
  <2>3. Place("console", t.hops, id, FALSE)
    BY <1>3, <1>7, <2>2 DEF Serving
  <2>4. NewValue(resp[r].sid, j.plain) = id
    BY <2>2 DEF NewValue
  <2>5. QED
    BY <1>2, <1>4, <1>7, <2>3, <2>4, FirstLook, WorldTypes
<1>8. QED
  BY <1>5, <1>6, <1>7

\* Sent to the link page: with a reason, or with trouble.
LEMMA LinkAnswer ==
    ASSUME IdsApart, OInv, JInv, NEW r \in Req,
           pc[r] \in {"vault", "n8nlogin"}, rq[r].h # "linkget",
           NEW a \in Response, a.to \in {"link", "relink"},
           a.sid = resp[r].sid, Trouble(a) \/ Refused(rq[r].id)
    PROVE  Served(trip[rq[r].b], rq[r].h, a, jar[rq[r].b])
<1> DEFINE t == trip[rq[r].b]
           j == jar[rq[r].b]
<1>1. /\ rq[r].h \in {"console", "callback"}
      /\ NewValue(a.sid, j.plain) = rq[r].id
      /\ Place("linkget", t.hops + 1, rq[r].id, NewBridge(a, j))
  BY Choices
<1>2. Location(a.to, t.goal) = "linkget"
  BY DEF Location
<1>3. QED
  BY <1>1, <1>2 DEF Served, Fits

\* Logged in at n8n: the marker is set, and the trip goes on to its page.
LEMMA ReturnAnswer ==
    ASSUME IdsApart, OInv, OInv', JInv, Spares, NEW r \in Req,
           pc[r] \in {"n8nlogin", "save"}, rq[r].h # "linkget",
           RespondLoggedIn(r, "return")
    PROVE  JInv'
<1> DEFINE a == [resp[r] EXCEPT !.to = "return", !.n8n = rq[r].cred,
                                !.bridge = "set"]
           t == trip[rq[r].b]
           j == jar[rq[r].b]
<1>1. resp[r] \in Response
  BY RequestTypes
<1>2. a.to = "return" /\ a.bridge = "set" /\ a.sid = resp[r].sid
  BY <1>1 DEF Response
<1>3. /\ rq[r].h \in {"console", "callback"}
      /\ NewValue(a.sid, j.plain) = rq[r].id
      /\ Place("console", t.hops + 1, rq[r].id, TRUE)
      /\ Place("linkget", t.hops + 1, rq[r].id, TRUE)
  BY <1>2, Choices
<1>4. NewBridge(a, j) = TRUE
  BY <1>2 DEF NewBridge
<1>5. Location(a.to, t.goal) = IF t.goal = "linkget" THEN "linkget" ELSE "console"
  BY <1>2 DEF Location
<1>6. Served(t, rq[r].h, a, j)
  <2>1. Place(Location(a.to, t.goal), t.hops + 1, rq[r].id, NewBridge(a, j))
    BY <1>3, <1>4, <1>5
  <2>2. Fits(t.goal, Location(a.to, t.goal), t.well /\ ~Trouble(a), rq[r].id)
    BY <1>5 DEF Fits
  <2>3. Location(a.to, t.goal) # "none"
    BY <1>5
  <2> HIDE DEF a, t, j
  <2>4. QED
    BY <1>3, <2>1, <2>2, <2>3 DEF Served
<1>7. Leave(r) /\ resp' = [resp EXCEPT ![r] = a]
  BY DEF RespondLoggedIn
<1> HIDE DEF a, t, j
<1>8. QED
  BY <1>2, <1>6, <1>7, Concludes DEF t, j

\* The stored credential that a request found is that of its session's person.
LEMMA Stored ==
    ASSUME OInv, JInv, NEW r \in Req, pc[r] \in HasSession,
           vault[UserOf(r)] \notin accepted
    PROVE  Refused(rq[r].id)
BY AtHand DEF Refused, UserOf

LEMMA GetCredentialTrip ==
    ASSUME IdsApart, OInv, OInv', JInv, NEW r \in Req, UNCHANGED trip,
           GetCredential(r)
    PROVE  JInv'
<1> DEFINE t == trip[rq[r].b]
           j == jar[rq[r].b]
<1>1. pc[r] = "vault" /\ pc[r] \in HasSession /\ Spares
  BY SparesNothing DEF GetCredential, At, HasSession
<1>2. /\ rq[r] \in Request /\ resp[r] \in Response /\ t.hops \in Nat
      /\ Serving(t, "vault", rq[r], resp[r], j) /\ OnRoute(rq[r].h, "vault")
  BY <1>1, RequestTypes, AtWork DEF Trip
<1>3. CASE Serves(r, {"linkget"}) /\ Respond(r, "page")
  <2> DEFINE a == [resp[r] EXCEPT !.to = "page"]
  <2>1. a.to = "page" /\ a.sid = resp[r].sid
    BY <1>2 DEF Response
  <2>2. rq[r].h = "linkget" /\ Place("linkget", t.hops, j.plain, j.bridge)
    BY <1>2, <1>3 DEF Serves, Serving
  <2>3. Place("none", t.hops + 1, NewValue(a.sid, j.plain), NewBridge(a, j))
    BY <1>2, <2>2, Stops, WorldTypes
  <2>4. Location(a.to, t.goal) = "none"
    BY <2>1 DEF Location
  <2>5. t.well => Lands(t.goal, "page", j.plain)
    BY <1>2, <2>2 DEF Serving, Fits, Lands
  <2>6. Served(t, rq[r].h, a, j)
    BY <2>1, <2>2, <2>3, <2>4, <2>5 DEF Served, Fits
  <2>7. Leave(r) /\ resp' = [resp EXCEPT ![r] = a]
    BY <1>3 DEF Respond
  <2> HIDE DEF a, t, j
  <2>8. QED
    BY <1>1, <2>1, <2>6, <2>7, Concludes DEF t, j
<1>4. CASE ~Serves(r, {"linkget"}) /\ vault[UserOf(r)] = NotFound
           /\ Respond(r, "link")
  <2> DEFINE a == [resp[r] EXCEPT !.to = "link"]
  <2>1. a \in Response /\ a.to = "link" /\ a.sid = resp[r].sid
    BY <1>2 DEF Response
  <2>2. Refused(rq[r].id)
    BY <1>1, <1>4, Stored, WorldTypes
  <2>3. Leave(r) /\ resp' = [resp EXCEPT ![r] = a]
    BY <1>4 DEF Respond
  <2> HIDE DEF a
  <2>4. Served(t, rq[r].h, a, j)
    BY <1>1, <1>4, <2>1, <2>2, LinkAnswer DEF Serves
  <2> HIDE DEF t, j
  <2>5. QED
    BY <1>1, <2>1, <2>3, <2>4, Concludes DEF t, j
<1>5. CASE /\ ~Serves(r, {"linkget"})
           /\ rq' = [rq EXCEPT ![r].cred = vault[UserOf(r)]]
           /\ Goto(r, "n8nlogin") /\ UNCHANGED resp
  <2> DEFINE q == [rq[r] EXCEPT !.cred = vault[UserOf(r)]]
  <2>1. /\ q.b = rq[r].b /\ q.h = rq[r].h /\ q.id = rq[r].id
        /\ q.bridge = rq[r].bridge /\ q.cred = vault[q.copy.user]
    BY <1>2 DEF Request, UserOf
  <2>2. /\ pc' = [pc EXCEPT ![r] = "n8nlogin"] /\ rq' = [rq EXCEPT ![r] = q]
        /\ resp' = [resp EXCEPT ![r] = resp[r]]
    BY <1>1, <1>5, RequestTypes DEF Goto
  <2>3. OnRoute(q.h, "n8nlogin")
    BY <1>2, <1>5, <2>1 DEF OnRoute, Serves
  <2>4. Serving(trip[q.b], "n8nlogin", q, resp[r], jar[q.b])
    BY <1>2, <2>1 DEF Serving, HasSession
  <2> HIDE DEF q, t, j
  <2>5. QED
    BY <1>1, <2>1, <2>2, <2>3, <2>4, Onward
<1>6. QED
  BY <1>3, <1>4, <1>5 DEF GetCredential

LEMMA N8NLoginTrip ==
    ASSUME IdsApart, OInv, OInv', JInv, NEW r \in Req, UNCHANGED trip,
           N8NLogin(r)
    PROVE  JInv'
<1>1. pc[r] = "n8nlogin"
  BY DEF N8NLogin, At
<1>2. Spares
  BY DEF N8NLogin, Spares, shared, sharedButStore, keys, external, browsers
<1>3. /\ Serving(trip[rq[r].b], "n8nlogin", rq[r], resp[r], jar[rq[r].b])
      /\ rq[r].h \in {"console", "callback"}
  BY <1>1, AtWork DEF OnRoute
<1>4. CASE rq[r].h = "console"
  <2>1. RespondLoggedIn(r, "return")
    BY <1>4 DEF N8NLogin, Serves
  <2>2. QED
    BY <1>1, <1>2, <1>4, <2>1, ReturnAnswer
<1>5. CASE rq[r].h = "callback"
  <2>1. /\ pc' = [pc EXCEPT ![r] = "reload"] /\ rq' = [rq EXCEPT ![r] = rq[r]]
        /\ resp' = [resp EXCEPT ![r] = resp[r]]
    BY <1>1, <1>5, RequestTypes DEF N8NLogin, Serves, Goto
  <2>2. OnRoute(rq[r].h, "reload")
    BY <1>5 DEF OnRoute
  <2>3. Serving(trip[rq[r].b], "reload", rq[r], resp[r], jar[rq[r].b])
    BY <1>3, <1>5 DEF Serving, HasSession
  <2>4. QED
    BY <1>1, <1>2, <2>1, <2>2, <2>3, Onward
<1>6. QED
  BY <1>3, <1>4, <1>5

\* n8n refuses the stored credential, or does not answer.
LEMMA N8NLoginFailsTrip ==
    ASSUME IdsApart, OInv, OInv', JInv, NEW r \in Req, UNCHANGED trip,
           NEW cause \in {"refused", "limited", "down"}, N8NLoginFails(r, cause)
    PROVE  JInv'
<1> DEFINE to == IF cause = "limited" THEN "429" ELSE "relink"
           a == [resp[r] EXCEPT !.cause = cause, !.to = to]
           t == trip[rq[r].b]
           j == jar[rq[r].b]
<1>1. pc[r] = "n8nlogin" /\ pc[r] \in HasSession /\ Spares
  BY SparesNothing DEF N8NLoginFails, At, HasSession
<1>2. /\ resp[r] \in Response /\ t.hops \in Nat
      /\ Serving(t, "n8nlogin", rq[r], resp[r], j)
      /\ rq[r].h \in {"console", "callback"}
  BY <1>1, RequestTypes, AtWork DEF OnRoute, Trip
<1>3. /\ a \in Response /\ a.cause = cause /\ a.sid = resp[r].sid
      /\ a.to = IF cause = "limited" THEN "429" ELSE "relink"
  <2>1. to \in {"429", "relink"}
    OBVIOUS
  <2> HIDE DEF to
  <2>2. a \in Response
    BY <1>2, <2>1 DEF Response
  <2>3. a.cause = cause /\ a.sid = resp[r].sid /\ a.to = to
    BY <1>2 DEF Response
  <2>4. QED
    BY <2>2, <2>3 DEF to
<1>4. Leave(r) /\ resp' = [resp EXCEPT ![r] = a]
  BY <1>2 DEF N8NLoginFails, RespondLoginError, Serves
<1>5. CASE cause = "limited"
  <2>1. Location(a.to, t.goal) = "none" /\ Trouble(a)
    BY <1>3, <1>5 DEF Location, Trouble
  <2>2. Place(rq[r].h, t.hops, j.plain, j.bridge)
    BY <1>2 DEF Serving
  <2>3. Place("none", t.hops + 1, NewValue(a.sid, j.plain), NewBridge(a, j))
    BY <1>2, <2>2, Stops, WorldTypes
  <2>4. Served(t, rq[r].h, a, j)
    BY <1>2, <2>1, <2>3 DEF Served, Fits
  <2> HIDE DEF a, t, j
  <2>5. QED
    BY <1>1, <1>3, <1>4, <2>4, Concludes DEF t, j
<1>6. CASE cause # "limited"
  <2>1. Trouble(a) \/ Refused(rq[r].id)
    <3>1. CASE cause = "down"
      BY <1>3, <3>1 DEF Trouble
    <3>2. CASE cause = "refused"
      <4>1. rq[r].cred \notin accepted /\ rq[r].cred = vault[UserOf(r)]
        BY <1>2, <3>2 DEF N8NLoginFails, Serving, UserOf
      <4>2. QED
        BY <1>1, <4>1, Stored
    <3>3. QED
      BY <1>6, <3>1, <3>2
  <2>2. a.to = "relink" /\ rq[r].h # "linkget"
    BY <1>2, <1>3, <1>6
  <2> HIDE DEF a
  <2>3. Served(t, rq[r].h, a, j)
    BY <1>1, <1>3, <2>1, <2>2, LinkAnswer
  <2> HIDE DEF t, j
  <2>4. QED
    BY <1>1, <1>3, <1>4, <2>3, Concludes DEF t, j
<1>7. QED
  BY <1>5, <1>6

\* The callback saves its session, or the save fails.
LEMMA SaveSessionTrip ==
    ASSUME IdsApart, OInv, OInv', JInv, NEW r \in Req, UNCHANGED trip,
           SaveSession(r) \/ SaveSessionFails(r)
    PROVE  JInv'
<1> DEFINE id == rq[r].id
           v == [rq[r].copy EXCEPT !.linked = ~Serves(r, {"linkdelete"})]
<1>1. pc[r] = "save" /\ pc[r] \in HasSession
  BY DEF SaveSession, SaveSessionFails, At, HasSession
<1>2. id \in Sid /\ holder[id] # NotFound /\ v \in Session
  BY <1>1, AtHand DEF Session
<1>3. Spares
  <2>1. SetSession(id, v) \/ UNCHANGED sess
    BY DEF SaveSession, SaveSessionFails
  <2>2. UNCHANGED <<sharedButStore, holder, deadline>>
    BY DEF SaveSession, SaveSessionFails, history
  <2> HIDE DEF v
  <2>3. QED
    BY <1>2, <2>1, <2>2, SparesStore
<1>4. rq[r].h = "callback"
  BY <1>1, AtWork DEF OnRoute
<1>5. RespondLoggedIn(r, "return") \/ Respond(r, "503")
  BY <1>4 DEF SaveSession, SaveSessionFails, Serves
<1>6. QED
  BY <1>1, <1>3, <1>4, <1>5, ReturnAnswer, BreaksOff

-----------------------------------------------------------------------------
(* The link page, the console, and the logout. *)

LEMMA LinkPageTokenTrip ==
    ASSUME OInv, OInv', JInv, NEW r \in Req, UNCHANGED trip, LinkPageToken(r)
    PROVE  JInv'
<1> DEFINE p == IF StoredToken(rq[r].id) = NotFound THEN "setcsrf" ELSE "vault"
           a == IF StoredToken(rq[r].id) = NotFound THEN resp[r]
                ELSE [resp[r] EXCEPT !.page = StoredToken(rq[r].id)]
<1>1. pc[r] = "csrf" /\ rq[r].h = "linkget" /\ Spares
  BY SparesNothing DEF LinkPageToken, At, Serves, Spares, shared,
     sharedButStore, keys, external, browsers, history
<1>2. resp[r] \in Response
  BY <1>1, RequestTypes
<1>3. /\ pc' = [pc EXCEPT ![r] = p] /\ rq' = [rq EXCEPT ![r] = rq[r]]
      /\ resp' = [resp EXCEPT ![r] = a]
  BY <1>1, RequestTypes DEF LinkPageToken, Goto
<1>4. a.sid = resp[r].sid /\ a.cause = resp[r].cause /\ a.bridge = resp[r].bridge
  BY <1>2 DEF Response
<1>5. p \in {"setcsrf", "vault"} /\ OnRoute(rq[r].h, p)
  BY <1>1 DEF OnRoute
<1>6. Serving(trip[rq[r].b], p, rq[r], a, jar[rq[r].b])
  BY <1>1, <1>4, <1>5, AtWork DEF Serving
<1> HIDE DEF p, a
<1>7. QED
  BY <1>1, <1>3, <1>4, <1>5, <1>6, Onward

LEMMA SetCSRFTrip ==
    ASSUME OInv, OInv', JInv, NEW r \in Req, UNCHANGED trip,
           NEW k \in Token, SetCSRF(r, k)
    PROVE  JInv'
<1> DEFINE a == [resp[r] EXCEPT !.page = k]
<1>1. pc[r] = "setcsrf" /\ Spares
  BY DEF SetCSRF, At, Spares, sharedButStore, external, browsers
<1>2. resp[r] \in Response /\ rq[r].h = "linkget"
  BY <1>1, RequestTypes, AtWork DEF OnRoute
<1>3. CASE Respond(r, "503")
  BY <1>1, <1>3, BreaksOff
<1>4. CASE Goto(r, "vault") /\ resp' = [resp EXCEPT ![r].page = k] /\ UNCHANGED rq
  <2>1. /\ pc' = [pc EXCEPT ![r] = "vault"] /\ rq' = [rq EXCEPT ![r] = rq[r]]
        /\ resp' = [resp EXCEPT ![r] = a]
    BY <1>1, <1>4, RequestTypes DEF Goto
  <2>2. a.sid = resp[r].sid /\ a.cause = resp[r].cause /\ a.bridge = resp[r].bridge
    BY <1>2 DEF Response
  <2>3. OnRoute(rq[r].h, "vault")
    BY <1>2 DEF OnRoute
  <2>4. Serving(trip[rq[r].b], "vault", rq[r], a, jar[rq[r].b])
    BY <1>1, <1>2, <2>2, AtWork DEF Serving
  <2> HIDE DEF a
  <2>5. QED
    BY <1>1, <2>1, <2>2, <2>3, <2>4, Onward
<1>5. QED
  BY <1>3, <1>4 DEF SetCSRF

LEMMA ProxyConsoleTrip ==
    ASSUME OInv, OInv', JInv, NEW r \in Req, UNCHANGED trip, ProxyConsole(r)
    PROVE  JInv'
<1> DEFINE t == trip[rq[r].b]
           j == jar[rq[r].b]
<1>1. pc[r] = "proxy" /\ Spares
  BY SparesNothing DEF ProxyConsole, At
<1>2. CASE Respond(r, "502")
  BY <1>1, <1>2, BreaksOff
<1>3. CASE Relay(r, "console", ProxiedCookies(r))
  <2>1. PICK cookie :
          resp' = [resp EXCEPT ![r].to = "console", ![r].n8n = cookie]
    BY <1>3 DEF Relay
  <2> DEFINE a == [resp[r] EXCEPT !.to = "console", !.n8n = cookie]
  <2>2. /\ resp[r] \in Response /\ t.hops \in Nat /\ rq[r].h = "console"
        /\ Serving(t, "proxy", rq[r], resp[r], j)
    BY <1>1, RequestTypes, AtWork DEF OnRoute, Trip
  <2>3. a.to = "console" /\ a.sid = resp[r].sid
    BY <2>2 DEF Response
  <2>4. Location(a.to, t.goal) = "none"
    BY <2>3 DEF Location
  <2>5. Place("none", t.hops + 1, NewValue(a.sid, j.plain), NewBridge(a, j))
    <3>1. Place("console", t.hops, j.plain, j.bridge)
      BY <2>2 DEF Serving
    <3>2. QED
      BY <2>2, <3>1, Stops, WorldTypes
  <2>6. Lands(t.goal, a.to, j.plain)
    BY <2>2, <2>3 DEF Serving, Fits, Lands
  <2>7. Served(t, rq[r].h, a, j)
    BY <2>2, <2>4, <2>5, <2>6 DEF Served, Fits
  <2>8. Leave(r) /\ resp' = [resp EXCEPT ![r] = a]
    BY <1>3, <2>1 DEF Relay
  <2> HIDE DEF a, t, j
  <2>9. QED
    BY <1>1, <2>3, <2>7, <2>8, Concludes DEF t, j
<1>4. QED
  BY <1>2, <1>3 DEF ProxyConsole

LEMMA N8NLogoutTrip ==
    ASSUME IdsApart, OInv, OInv', JInv, NEW r \in Req, UNCHANGED trip,
           N8NLogout(r)
    PROVE  JInv'
<1> DEFINE t == trip[rq[r].b]
           j == jar[rq[r].b]
<1>1. pc[r] = "n8nlogout"
  BY DEF N8NLogout, At
<1>2. Spares
  BY DEF N8NLogout, Spares, shared, sharedButStore, keys, external, browsers
<1>3. /\ resp[r] \in Response /\ t.hops \in Nat /\ rq[r].h = "logout"
      /\ Serving(t, "n8nlogout", rq[r], resp[r], j)
  BY <1>1, RequestTypes, AtWork DEF OnRoute, Trip
<1>4. PICK cookie \in {"clear", "keep"} :
        resp' = [resp EXCEPT ![r].to = "root", ![r].bridge = "clear",
                   ![r].n8n = cookie,
                   ![r].sid = IF Serves(r, {"logout"}) THEN "clear" ELSE @]
  BY DEF N8NLogout, LogoutAnswers
<1> DEFINE a == [resp[r] EXCEPT !.to = "root", !.bridge = "clear",
                                !.n8n = cookie, !.sid = "clear"]
<1>5. a.to = "root" /\ a.sid = "clear"
  BY <1>3 DEF Response
<1>6. Location(a.to, t.goal) = "console"
  BY <1>5 DEF Location
<1>7. Place("console", t.hops + 1, NewValue(a.sid, j.plain), NewBridge(a, j))
  <2>1. Place("logout", t.hops, j.plain, j.bridge)
    BY <1>3 DEF Serving
  <2>2. QED
    BY <1>3, <2>1, LeftForRoot
<1>8. t.goal # "linkget"
  BY <1>3 DEF Serving, Fits
<1>9. Served(t, rq[r].h, a, j)
  BY <1>5, <1>6, <1>7, <1>8 DEF Served, Fits
<1>10. Leave(r) /\ resp' = [resp EXCEPT ![r] = a]
  <2>1. Serves(r, {"logout"})
    BY <1>3 DEF Serves
  <2>2. QED
    BY <1>1, <1>3, <1>4, <2>1, RequestTypes DEF N8NLogout, Response
<1>11. a.sid \notin Sid
  BY <1>5 DEF IdsApart
<1> HIDE DEF a, t, j
<1>12. QED
  BY <1>1, <1>2, <1>9, <1>10, <1>11, Concludes DEF t, j

\* A logout deletes sessions of its own browser, which waits for its answer.
LEMMA DeleteSessionTrip ==
    ASSUME IdsApart, OInv, OInv', JInv, NEW r \in Req, UNCHANGED trip,
           DeleteSession(r)
    PROVE  JInv'
<1> DEFINE id == Head(rq[r].ids)
           b == rq[r].b
           p == IF Tail(rq[r].ids) = <<>> THEN "n8nlogout" ELSE "delete"
<1>1. pc[r] = "delete"
  BY DEF DeleteSession, At
<1>2. /\ rq[r] \in Request /\ resp[r] \in Response /\ b \in Browser
      /\ r \in InFlight /\ trip[b].url = "busy" /\ rq[r].h = "logout"
      /\ Serving(trip[b], "delete", rq[r], resp[r], jar[b])
  BY <1>1, RequestTypes, AtWork DEF OnRoute, OnTrip
<1>3. id \in Sid /\ Own(id, b)
  <2>1. rq[r].ids # <<>>
    BY <1>1 DEF OInv, IInv, RequestsOK, Ready
  <2>2. QED
    BY <2>1, RestOwn
<1>4. /\ UNCHANGED <<now, secure, vault, accepted, jar, trip, holder, deadline>>
      /\ \A x \in Sid \ {id} : sess'[x] = sess[x]
      /\ sess'[id] \in {sess[id], NotFound}
  BY <1>3, WorldTypes
     DEF DeleteSession, DelSession, sharedButStore, external, browsers, history
<1>5. /\ pc'[r] = p /\ resp'[r] = resp[r] /\ rq'[r].b = b
      /\ rq'[r].h = rq[r].h /\ rq'[r].bridge = rq[r].bridge
      /\ \A x \in Req \ {r} : Still(x)
  <2>1. /\ pc' = [pc EXCEPT ![r] = p] /\ resp' = resp
        /\ \/ rq' = [rq EXCEPT ![r] = [rq[r] EXCEPT !.ids = Tail(rq[r].ids)]]
           \/ rq' = [rq EXCEPT ![r] = [rq[r] EXCEPT !.ids = Tail(rq[r].ids),
                                                    !.out = rq[r].out \ {id}]]
    BY DEF DeleteSession, Goto
  <2> DEFINE c == [rq[r] EXCEPT !.ids = Tail(rq[r].ids)]
             d == [rq[r] EXCEPT !.ids = Tail(rq[r].ids),
                                !.out = rq[r].out \ {id}]
  <2>2. /\ c.b = b /\ c.h = rq[r].h /\ c.bridge = rq[r].bridge
        /\ d.b = b /\ d.h = rq[r].h /\ d.bridge = rq[r].bridge
    BY <1>2 DEF Request
  <2>3. rq' = [rq EXCEPT ![r] = c] \/ rq' = [rq EXCEPT ![r] = d]
    BY <2>1
  <2> HIDE DEF id, p, b, c, d
  <2>4. rq'[r] \in {c, d} /\ \A x \in Req \ {r} : rq'[x] = rq[x]
    BY <1>1, <2>3, RequestTypes
  <2>5. pc'[r] = p /\ \A x \in Req \ {r} : pc'[x] = pc[x]
    BY <1>1, <2>1, RequestTypes
  <2>6. QED
    BY <2>1, <2>2, <2>4, <2>5 DEF Still
<1>6. p \in {"delete", "n8nlogout"}
  OBVIOUS
<1> HIDE DEF p
<1>7. Keeps
  BY <1>4, WorldTypes DEF Keeps
<1>8. Timely'
  BY <1>3, <1>4 DEF JInv, Timely
<1>9. \A x \in Sid \ {id} : Present(x) => Present(x)'
  BY <1>4 DEF Present
<1>10. OnTrip(r)'
  <2>1. ASSUME NEW t, t = trip[b], NEW j, j = jar[b],
               NEW s \in {"delete", "n8nlogout"}, NEW q, q.h = "logout",
               q.bridge = rq[r].bridge, NEW a, a = resp[r]
        PROVE  Serving(t, s, q, a, j)
    BY <1>2, <2>1 DEF Serving
  <2>2. \A t, j, q, a : \A s \in {"delete", "n8nlogout"} :
          t = trip[b] /\ j = jar[b] /\ q.h = "logout"
          /\ q.bridge = rq[r].bridge /\ a = resp[r] => Serving(t, s, q, a, j)'
    BY <1>7, <2>1, ServingKept
  <2>3. OnRoute("logout", p) /\ p # "done"
    BY <1>6 DEF OnRoute
  <2>4. QED
    BY <1>2, <1>4, <1>5, <1>6, <2>2, <2>3 DEF OnTrip
<1>11. Known'
  <2>1. ASSUME NEW c \in Browser, jar[c].plain # NotFound
        PROVE  (Present(jar[c].plain) \/ LoggingOut(c))'
    <3>1. LoggingOut(c) => LoggingOut(c)'
      BY <1>2, <1>5, <1>6 DEF LoggingOut, InFlight, Still
    <3>2. CASE jar[c].plain = id
      <4>1. Own(id, c)
        BY <2>1, <3>2 DEF OInv, Owned, JarsOwn
      <4>2. c = b
        BY <1>3, <4>1 DEF Own
      <4>3. QED
        BY <1>2, <1>5, <1>6, <4>2 DEF LoggingOut, InFlight
    <3>3. CASE jar[c].plain # id
      <4>1. jar[c].plain \in Sid
        BY <2>1, WorldTypes DEF Jar
      <4>2. QED
        BY <1>4, <1>9, <2>1, <3>1, <3>3, <4>1 DEF JInv, Known
    <3>4. QED
      BY <3>2, <3>3
  <2>2. QED
    BY <1>4, <2>1 DEF Known
<1>12. Told'
  <2>1. ASSUME NEW x \in Req, pc'[x] # "idle"
        PROVE  (resp[x].sid \in Sid => Present(resp[x].sid))'
    <3>1. pc[x] # "idle" /\ resp'[x] = resp[x]
      BY <1>1, <1>5, <2>1 DEF Still
    <3>2. resp[x].sid \in Sid => Present(resp[x].sid)
      BY <3>1 DEF JInv, Told, InFlight
    <3>3. resp[x].sid = id => FALSE
      <4>1. CASE x = r
        BY <1>2, <1>3, <4>1 DEF Serving, HasSession, IdsApart
      <4>2. CASE x # r /\ resp[x].sid = id
        <5>1. Own(id, rq[x].b)
          BY <1>3, <4>2 DEF OInv, Owned, Mine, IdsApart
        <5>2. rq[x].b = b
          BY <1>3, <5>1 DEF Own
        <5>3. QED
          BY <1>2, <3>1, <4>2, <5>2 DEF JInv, Alone, InFlight
      <4>3. QED
        BY <4>1, <4>2
    <3>4. QED
      BY <1>9, <3>1, <3>2, <3>3
  <2>2. QED
    BY <2>1 DEF Told, InFlight
<1>13. QED
  BY <1>1, <1>4, <1>5, <1>6, <1>7, <1>8, <1>10, <1>11, <1>12, ServeStep

\* On a trip nobody sends the forms of the link page.
LEMMA NoFormTrip ==
    ASSUME OInv, JInv, NEW r \in Req,
           \/ ValidateCSRF(r) \/ ValidateCSRFFails(r) \/ UpdateCredential(r)
           \/ UpdateCredentialFails(r) \/ CurrentUser(r)
    PROVE  FALSE
<1>1. CASE ValidateCSRF(r) \/ ValidateCSRFFails(r)
  BY <1>1, AtWork DEF ValidateCSRF, ValidateCSRFFails, At, Serves, OnRoute
<1>2. CASE UpdateCredential(r) \/ UpdateCredentialFails(r) \/ CurrentUser(r)
  BY <1>2, AtWork DEF UpdateCredential, UpdateCredentialFails, CurrentUser, At,
                      OnRoute
<1>3. QED
  BY <1>1, <1>2

LEMMA WorkTrip ==
    ASSUME IdsApart, OInv, OInv', JInv, NEW r \in Req, Work(r)
    PROVE  JInv'
BY LookupFoundTrip, LookupMissingTrip, StartLoginTrip, ErrorsTrip, RedeemTrip,
   CreateSessionTrip, ReloadTrip, ReloadFailsTrip, GetCredentialTrip,
   N8NLoginTrip, N8NLoginFailsTrip, SaveSessionTrip, LinkPageTokenTrip,
   SetCSRFTrip, NoFormTrip, DeleteSessionTrip, N8NLogoutTrip, ProxyConsoleTrip
   DEF Work, Serve

-----------------------------------------------------------------------------
(* The browser: a trip begins, the person logs in, a redirect is followed,  *)
(* and an answer is shown.                                                  *)

\* A browser that waits for no response turns to another page.
LEMMA Turns ==
    ASSUME OInv, JInv, Keeps, NEW b \in Browser, trip[b].url # "busy",
           UNCHANGED <<now, sess, secure, jar, pc, rq, resp, holder, deadline>>,
           NEW t \in Trip, t.url \notin {"busy", "idp"},
           trip' = [trip EXCEPT ![b] = t],
           Place(t.url, t.hops, jar[b].plain, jar[b].bridge),
           Fits(t.goal, t.url, t.well, jar[b].plain)
    PROVE  JInv'
<1>1. trip'[b] = t /\ \A c \in Browser \ {b} : trip'[c] = trip[c]
  BY DEF JInv, TripTypeOK
<1>2. TripTypeOK'
  BY <1>1 DEF JInv, TripTypeOK
<1>3. Bounded'
  <2>1. \E k \in Nat : Age(k) <= now' /\ t.hops <= 3 * k + 5
    BY PlaceBound DEF Trip
  <2>2. ASSUME NEW c \in Browser \ {b}
        PROVE  \E k \in Nat : Age(k) <= now' /\ trip'[c].hops <= 3 * k + 5
    BY <1>1, StillBounded DEF JInv, Bounded
  <2>3. QED
    BY <1>1, <2>1, <2>2 DEF Bounded
<1>4. Timely' /\ Known' /\ Told' /\ OneCookie' /\ Alone'
  BY DEF JInv, Timely, Known, Told, OneCookie, Alone, InFlight, Present,
         LoggingOut
<1>5. ASSUME NEW c \in Browser PROVE Moves(c)'
  <2>1. CASE c = b
    <3>1. ASSUME NEW j, j = jar[b]
          PROVE  (Place(t.url, t.hops, j.plain, j.bridge)
                  /\ Fits(t.goal, t.url, t.well, j.plain))'
      BY <3>1, PlaceKept, FitsKept
    <3>2. QED
      BY <1>1, <2>1, <3>1 DEF Moves
  <2>2. CASE c # b
    BY <1>1, <2>2, StillMoves DEF JInv
  <2>3. QED
    BY <2>1, <2>2
<1>6. ASSUME NEW x \in InFlight' PROVE OnTrip(x)'
  <2>1. x \in InFlight /\ Still(x) /\ OnTrip(x)
    BY DEF InFlight, Still, JInv
  <2>2. rq[x].b \in Browser /\ rq[x].b # b
    BY <2>1, RequestTypes DEF InFlight, OnTrip
  <2>3. QED
    BY <1>1, <2>1, <2>2, StillOnTrip DEF InFlight
<1>7. QED
  BY <1>2, <1>3, <1>4, <1>5, <1>6 DEF JInv

LEMMA OpenTrip ==
    ASSUME OInv, JInv, NEW b \in Browser, NEW goal \in Goals, Open(b, goal)
    PROVE  JInv'
<1> DEFINE t == [Idle EXCEPT !.goal = goal, !.url = goal]
<1>1. /\ t.goal = goal /\ t.url = goal /\ t.hops = 0 /\ t.well = TRUE
      /\ t.url \notin {"busy", "idp"} /\ t \in Trip
  BY DEF Idle, Trip, Goals
<1>2. /\ trip[b].url = "none" /\ trip' = [trip EXCEPT ![b] = t]
      /\ UNCHANGED <<now, sess, secure, vault, accepted, jar, pc, rq, resp,
                     holder, deadline>>
  BY DEF Open, vars, keys, external, browsers, history
<1> HIDE DEF t
<1>3. Place(t.url, t.hops, jar[b].plain, jar[b].bridge)
  BY <1>1, Starts, WorldTypes
<1>4. Fits(t.goal, t.url, t.well, jar[b].plain)
  BY <1>1 DEF Fits
<1>5. Keeps
  BY <1>2, WorldTypes DEF Keeps
<1>6. QED
  BY <1>1, <1>2, <1>3, <1>4, <1>5, Turns

LEMMA LogInTrip ==
    ASSUME OInv, JInv, NEW b \in Browser, NEW u \in User, LogIn(b, u)
    PROVE  JInv'
<1> DEFINE t == [trip[b] EXCEPT !.url = "callback"]
<1>1. trip[b] \in Trip /\ trip[b].url = "idp"
  BY DEF LogIn, JInv, TripTypeOK
<1>2. /\ t \in Trip /\ t.url = "callback" /\ t.hops = trip[b].hops
      /\ t.goal = trip[b].goal /\ t.well = trip[b].well
  BY <1>1 DEF Trip
<1>3. /\ trip' = [trip EXCEPT ![b] = t]
      /\ UNCHANGED <<now, sess, secure, vault, accepted, jar, pc, rq, resp,
                     holder, deadline>>
  BY DEF LogIn, IdPLogin, keys, browsers, history
<1> HIDE DEF t
<1>4. Place(t.url, t.hops, jar[b].plain, jar[b].bridge)
  BY <1>1, <1>2, FromProvider DEF JInv, Moves, Trip
<1>5. Fits(t.goal, t.url, t.well, jar[b].plain)
  BY <1>2 DEF Fits
<1>6. Keeps
  BY <1>3, WorldTypes DEF Keeps
<1>7. QED
  BY <1>1, <1>2, <1>3, <1>4, <1>5, <1>6, Turns

\* The browser sends a request.
LEMMA Leads ==
    ASSUME OInv, JInv, NEW r \in Req, NEW b \in Browser, pc[r] = "idle",
           UNCHANGED <<shared, history>>, trip[b].url # "busy",
           trip' = [trip EXCEPT ![b].url = "busy"],
           NEW p, NEW q, NEW a, p # "idle",
           pc' = [pc EXCEPT ![r] = p], rq' = [rq EXCEPT ![r] = q],
           resp' = [resp EXCEPT ![r] = a],
           q.b = b, a.sid \notin Sid, OnRoute(q.h, p),
           IF p = "done" THEN Served(trip[b], q.h, a, jar[b])
                         ELSE Serving(trip[b], p, q, a, jar[b])
    PROVE  JInv'
<1> DEFINE t == [trip[b] EXCEPT !.url = "busy"]
<1>1. trip[b] \in Trip
  BY DEF JInv, TripTypeOK
<1>2. /\ t \in Trip /\ t.url = "busy" /\ t.hops = trip[b].hops
      /\ t.goal = trip[b].goal /\ t.well = trip[b].well
  BY <1>1 DEF Trip
<1>3. trip' = [trip EXCEPT ![b] = t]
  OBVIOUS
<1> HIDE DEF t
<1>4. trip'[b] = t /\ \A c \in Browser \ {b} : trip'[c] = trip[c]
  BY <1>3 DEF JInv, TripTypeOK
<1>5. /\ pc'[r] = p /\ rq'[r] = q /\ resp'[r] = a
      /\ \A x \in Req \ {r} : Still(x)
  BY DEF Still, OInv, IInv, RequestsOK
<1>6. UNCHANGED <<now, sess, secure, vault, accepted, jar, holder, deadline>>
  BY DEF shared, sharedButStore, keys, external, browsers, history
<1>7. Keeps
  BY <1>6, WorldTypes DEF Keeps
<1>8. TripTypeOK'
  BY <1>2, <1>3, <1>4 DEF JInv, TripTypeOK
<1>9. Bounded'
  <2>1. \A c \in Browser : trip'[c].hops = trip[c].hops
    BY <1>2, <1>4
  <2>2. QED
    BY <1>7, <2>1, StillBounded DEF JInv, Bounded
<1>10. \A x \in InFlight : x # r /\ Still(x) /\ rq[x].b \in Browser \ {b}
  BY <1>5, RequestTypes DEF JInv, InFlight, OnTrip
<1>11. \A x \in InFlight' : x = r \/ x \in InFlight
  BY <1>5 DEF InFlight, Still
<1>12. Alone'
  BY <1>5, <1>10, <1>11 DEF JInv, Alone, Still
<1>13. Timely' /\ OneCookie'
  BY <1>6 DEF JInv, Timely, OneCookie
<1>14. Known'
  <2>1. \A c \in Browser : LoggingOut(c) => LoggingOut(c)'
    BY <1>10 DEF LoggingOut, InFlight, Still
  <2>2. QED
    BY <1>6, <2>1 DEF JInv, Known, Present
<1>15. Told'
  <2>1. \A x \in InFlight' : resp'[x].sid \in Sid =>
          x \in InFlight /\ resp'[x] = resp[x]
    BY <1>5, <1>10, <1>11 DEF Still
  <2>2. QED
    BY <1>6, <2>1 DEF JInv, Told, Present
<1>16. ASSUME NEW c \in Browser PROVE Moves(c)'
  <2>1. CASE c = b
    BY <1>2, <1>4, <2>1 DEF Moves
  <2>2. CASE c # b
    BY <1>4, <1>6, <1>7, <2>2, StillMoves DEF JInv
  <2>3. QED
    BY <2>1, <2>2
<1>17. OnTrip(r)'
  <2>1. CASE p = "done"
    <3>1. Served(t, q.h, a, jar[b])
      BY <1>2, <2>1 DEF Served
    <3>2. ASSUME NEW u, u = t, NEW j, j = jar[b]
          PROVE  Served(u, q.h, a, j)'
      BY <1>7, <3>1, <3>2, ServedKept
    <3>3. QED
      BY <1>2, <1>4, <1>5, <1>6, <2>1, <3>2 DEF OnTrip
  <2>2. CASE p # "done"
    <3>1. Serving(t, p, q, a, jar[b])
      BY <1>2, <2>2 DEF Serving
    <3>2. ASSUME NEW u, u = t, NEW j, j = jar[b]
          PROVE  Serving(u, p, q, a, j)'
      BY <1>7, <3>1, <3>2, ServingKept
    <3>3. QED
      BY <1>2, <1>4, <1>5, <1>6, <2>2, <3>2 DEF OnTrip
  <2>3. QED
    BY <2>1, <2>2
<1>18. ASSUME NEW x \in InFlight' PROVE OnTrip(x)'
  <2>1. CASE x = r
    BY <1>17, <2>1
  <2>2. CASE x # r
    BY <1>4, <1>6, <1>7, <1>10, <1>11, <2>2, StillOnTrip DEF JInv, InFlight
  <2>3. QED
    BY <2>1, <2>2
<1>19. QED
  BY <1>8, <1>9, <1>12, <1>13, <1>14, <1>15, <1>16, <1>18 DEF JInv

\* Cookies sent under both names are one.
LEMMA CookieSent ==
    ASSUME JInv, OInv, NEW b \in Browser
    PROVE  CookieIds(jar[b]) =
              IF jar[b].plain = NotFound THEN <<>> ELSE <<jar[b].plain>>
<1> DEFINE one == jar[b].plain
<1>1. jar[b].host \in {one, NotFound}
  BY DEF JInv, OneCookie
<1>2. CASE one = NotFound \/ jar[b].host = one
  BY <1>1, <1>2 DEF CookieIds
<1>3. CASE one # NotFound /\ jar[b].host = NotFound
  <2>1. <<one>> \in Seq({one})
    OBVIOUS
  <2>2. <<one>> \o <<>> = <<one>>
    BY <2>1, ConcatEmptySeq
  <2>3. QED
    BY <1>3, <2>2 DEF CookieIds
<1>4. QED
  BY <1>1, <1>2, <1>3

\* A request that sets out carries its browser's cookies and nothing else.
LEMMA Luggage ==
    ASSUME OInv, JInv, NEW r \in Req, NEW b \in Browser, pc[r] = "idle",
           trip[b].url # "busy"
    PROVE  /\ resp[r] = NoResponse /\ resp = [resp EXCEPT ![r] = NoResponse]
           /\ Carried(b).b = b /\ Carried(b).bridge = jar[b].bridge
           /\ Carried(b).ids = IF jar[b].plain = NotFound THEN <<>>
                               ELSE <<jar[b].plain>>
           /\ trip[b].hops \in Nat /\ trip[b].goal \in Goals
           /\ Place(trip[b].url, trip[b].hops, jar[b].plain, jar[b].bridge)
           /\ Fits(trip[b].goal, trip[b].url, trip[b].well, jar[b].plain)
<1>1. resp[r] = NoResponse /\ resp = [resp EXCEPT ![r] = resp[r]]
  BY DEF OInv, Owned, Mine, IInv, RequestsOK
<1>2. Carried(b).b = b /\ Carried(b).bridge = jar[b].bridge
      /\ Carried(b).ids = CookieIds(jar[b])
  BY DEF Carried, Blank
<1>3. trip[b] \in Trip /\ Moves(b)
  BY DEF JInv, TripTypeOK
<1>4. QED
  BY <1>1, <1>2, <1>3, CookieSent DEF Trip, Moves

LEMMA FetchPage ==
    ASSUME IdsApart, OInv, OInv', JInv, NEW r \in Req, NEW b \in Browser,
           ReceiveWithSession(r, b, trip[b].url),
           trip' = [trip EXCEPT ![b].url = "busy"]
    PROVE  JInv'
<1> DEFINE t == trip[b]
           j == jar[b]
           h == trip[b].url
           q == [Carried(b) EXCEPT !.h = h]
           l == [NoResponse EXCEPT !.to = "login"]
<1>1. h \in {"login", "linkget", "console"} /\ h # "busy"
  BY DEF ReceiveWithSession, JInv, TripTypeOK, Trip, Goals
<1>2. pc[r] = "idle" /\ UNCHANGED <<shared, history>>
  BY DEF ReceiveWithSession, Receive, At
<1>3. /\ resp[r] = NoResponse /\ t.hops \in Nat
      /\ Place(h, t.hops, j.plain, j.bridge)
      /\ Fits(t.goal, h, t.well, j.plain)
  BY <1>1, <1>2, Luggage
<1>4. /\ q.h = h /\ q.b = b /\ q.bridge = j.bridge
      /\ q.ids = IF j.plain = NotFound THEN <<>> ELSE <<j.plain>>
  BY <1>1, <1>2, Luggage DEF Carried, Blank
<1>5. /\ NoResponse.cause = "none" /\ NoResponse.bridge = "keep"
      /\ NoResponse.sid = "keep"
      /\ l.to = "login" /\ l.sid = "keep" /\ l.bridge = "keep"
  BY DEF NoResponse
<1>6. rq' = [rq EXCEPT ![r] = q]
  BY DEF ReceiveWithSession
<1>7. "keep" \notin Sid /\ NotFound \notin Sid
  BY WorldTypes DEF IdsApart
<1>8. CASE j.plain # NotFound
  <2>1. h # "login"
    BY <1>3, <1>8 DEF Place, Room
  <2>2. /\ pc' = [pc EXCEPT ![r] = "lookup"]
        /\ resp' = [resp EXCEPT ![r] = NoResponse]
    <3>1. CookieIds(j) # <<>>
      <4>1. CookieIds(j) = <<j.plain>>
        BY <1>8, CookieSent
      <4>2. <<j.plain>> # <<>>
        OBVIOUS
      <4>3. QED
        BY <4>1, <4>2
    <3>2. pc' = [pc EXCEPT ![r] = "lookup"] /\ UNCHANGED resp
      BY <3>1 DEF ReceiveWithSession, Goto
    <3>3. QED
      BY <1>1, <1>2, <3>2, Luggage
  <2>3. OnRoute(q.h, "lookup")
    BY <1>1, <1>4, <2>1 DEF OnRoute
  <2>4. Serving(t, "lookup", q, NoResponse, j)
    BY <1>1, <1>3, <1>4, <1>5, <1>8 DEF Serving
  <2> HIDE DEF q, t, j
  <2>5. QED
    BY <1>1, <1>2, <1>4, <1>5, <1>6, <1>7, <2>2, <2>3, <2>4, Leads DEF t, j
<1>9. CASE j.plain = NotFound /\ h = "login"
  <2>1. /\ pc' = [pc EXCEPT ![r] = "state"]
        /\ resp' = [resp EXCEPT ![r] = NoResponse]
    BY <1>2, <1>9, CookieSent, Luggage DEF ReceiveWithSession, Goto
  <2>2. OnRoute(q.h, "state")
    BY <1>4, <1>9 DEF OnRoute
  <2>3. Serving(t, "state", q, NoResponse, j)
    BY <1>3, <1>4, <1>5, <1>9 DEF Serving
  <2> HIDE DEF q, t, j
  <2>4. QED
    BY <1>1, <1>2, <1>4, <1>5, <1>6, <1>7, <2>1, <2>2, <2>3, Leads DEF t, j
<1>10. CASE j.plain = NotFound /\ h # "login"
  <2>1. pc' = [pc EXCEPT ![r] = "done"]
    BY <1>2, <1>10, CookieSent DEF ReceiveWithSession, Goto
  <2>2. resp' = [resp EXCEPT ![r] = l]
    <3>1. resp' = [resp EXCEPT ![r].to = "login"]
      BY <1>2, <1>10, CookieSent DEF ReceiveWithSession
    <3>2. QED
      BY <1>3, <3>1
  <2>3. OnRoute(q.h, "done")
    BY <1>1, <1>4, <1>10 DEF OnRoute
  <2>4. Place("login", t.hops + 1, NotFound, NewBridge(l, j))
    BY <1>1, <1>3, <1>7, <1>10, NoCookie, WorldTypes
  <2>5. Served(t, q.h, l, j)
    BY <1>1, <1>4, <1>5, <1>10, <2>4 DEF Served, Location, NewValue, Fits
  <2> HIDE DEF q, t, j, l
  <2>6. QED
    BY <1>1, <1>2, <1>4, <1>5, <1>6, <1>7, <2>1, <2>2, <2>3, <2>5, Leads DEF t, j
<1>11. QED
  BY <1>8, <1>9, <1>10

LEMMA FetchLogout ==
    ASSUME IdsApart, OInv, OInv', JInv, NEW r \in Req, NEW b \in Browser,
           trip[b].url = "logout", ReceiveLogout(r, b),
           trip' = [trip EXCEPT ![b].url = "busy"]
    PROVE  JInv'
<1> DEFINE t == trip[b]
           j == jar[b]
           p == IF CookieIds(j) = <<>> THEN "n8nlogout" ELSE "delete"
           q == [Carried(b) EXCEPT !.h = "logout",
                   !.out = {j.plain, j.host} \ {NotFound}]
<1>1. pc[r] = "idle" /\ UNCHANGED <<shared, history>>
  BY DEF ReceiveLogout, Receive, At
<1>2. /\ Place("logout", t.hops, j.plain, j.bridge)
      /\ Fits(t.goal, "logout", t.well, j.plain)
  BY <1>1, Luggage
<1>3. q.h = "logout" /\ q.b = b /\ q.bridge = j.bridge
  BY DEF Carried, Blank
<1>4. /\ NoResponse.cause = "none" /\ NoResponse.bridge = "keep"
      /\ NoResponse.sid = "keep" /\ "keep" \notin Sid
  BY DEF NoResponse, IdsApart
<1>5. /\ rq' = [rq EXCEPT ![r] = q] /\ pc' = [pc EXCEPT ![r] = p]
      /\ resp' = [resp EXCEPT ![r] = NoResponse]
  BY <1>1, Luggage DEF ReceiveLogout, Goto
<1>6. p \in {"n8nlogout", "delete"} /\ OnRoute(q.h, p)
  BY <1>3 DEF OnRoute
<1>7. Serving(t, p, q, NoResponse, j)
  BY <1>2, <1>3, <1>4, <1>6 DEF Serving
<1> HIDE DEF p, q, t, j
<1>8. QED
  BY <1>1, <1>3, <1>4, <1>5, <1>6, <1>7, Leads DEF t, j

LEMMA FetchSignout ==
    ASSUME IdsApart, OInv, OInv', JInv, NEW r \in Req, NEW b \in Browser,
           trip[b].url = "signout", ReceiveSignout(r, b),
           trip' = [trip EXCEPT ![b].url = "busy"]
    PROVE  JInv'
<1> DEFINE t == trip[b]
           j == jar[b]
           q == [Blank EXCEPT !.b = b]
           a == [NoResponse EXCEPT !.to = "root", !.bridge = "clear"]
<1>1. pc[r] = "idle" /\ UNCHANGED <<shared, history>>
  BY DEF ReceiveSignout, Receive, At
<1>2. /\ Place("signout", t.hops, j.plain, j.bridge)
      /\ Fits(t.goal, "signout", t.well, j.plain) /\ t.hops \in Nat
      /\ resp[r] = NoResponse
  BY <1>1, Luggage
<1>3. q.h = "signout" /\ q.b = b
  BY DEF Blank
<1>4. a.to = "root" /\ a.sid = "keep" /\ a.sid \notin Sid
  BY DEF NoResponse, IdsApart
<1>5. /\ rq' = [rq EXCEPT ![r] = q] /\ pc' = [pc EXCEPT ![r] = "done"]
      /\ resp' = [resp EXCEPT ![r] = a]
  <2>1. resp' = [resp EXCEPT ![r].to = "root", ![r].bridge = "clear"]
    BY DEF ReceiveSignout
  <2>2. resp \in [Req -> Response]
    BY DEF OInv, IInv, RequestsOK
  <2>3. resp' = [resp EXCEPT ![r] = a]
    BY <1>2, <2>1, <2>2
  <2>4. QED
    BY <2>3 DEF ReceiveSignout, Goto
<1>6. OnRoute(q.h, "done")
  BY <1>3 DEF OnRoute
<1>7. Location(a.to, t.goal) = "console"
  BY <1>4 DEF Location
<1>8. Place("console", t.hops + 1, NewValue(a.sid, j.plain), NewBridge(a, j))
  BY <1>2, LeftForRoot
<1>9. Served(t, q.h, a, j)
  BY <1>2, <1>3, <1>7, <1>8 DEF Served, Fits
<1> HIDE DEF q, t, j, a
<1>10. QED
  BY <1>1, <1>3, <1>4, <1>5, <1>6, <1>9, Leads DEF t, j

LEMMA FetchCallback ==
    ASSUME IdsApart, OInv, OInv', JInv, NEW r \in Req, NEW b \in Browser,
           trip[b].url = "callback",
           ReceiveCallback(r, b, trip[b].st, trip[b].st),
           trip' = [trip EXCEPT ![b].url = "busy"]
    PROVE  JInv'
<1> DEFINE t == trip[b]
           j == jar[b]
           q == [Carried(b) EXCEPT !.h = "callback", !.st = t.st, !.code = t.st]
           a == [NoResponse EXCEPT !.to = "400"]
<1>1. pc[r] = "idle" /\ UNCHANGED <<shared, history>>
  BY DEF ReceiveCallback, Receive, At
<1>2. /\ Place("callback", t.hops, j.plain, j.bridge)
      /\ Fits(t.goal, "callback", t.well, j.plain) /\ t.hops \in Nat
      /\ resp[r] = NoResponse
  BY <1>1, Luggage
<1>3. q.h = "callback" /\ q.b = b /\ q.bridge = j.bridge
  BY DEF Carried, Blank
<1>4. /\ NoResponse.cause = "none" /\ NoResponse.bridge = "keep"
      /\ NoResponse.sid = "keep" /\ "keep" \notin Sid
      /\ a.to = "400" /\ a.cause = "none" /\ a.sid = "keep"
  BY DEF NoResponse, IdsApart
<1>5. rq' = [rq EXCEPT ![r] = q]
  BY DEF ReceiveCallback
<1>6. CASE t.st # NotFound
  <2>1. /\ pc' = [pc EXCEPT ![r] = "take"]
        /\ resp' = [resp EXCEPT ![r] = NoResponse]
    BY <1>1, <1>6, Luggage DEF ReceiveCallback, Goto
  <2>2. OnRoute(q.h, "take")
    BY <1>3 DEF OnRoute
  <2>3. Serving(t, "take", q, NoResponse, j)
    BY <1>2, <1>3, <1>4 DEF Serving, HasSession
  <2> HIDE DEF q, t, j
  <2>4. QED
    BY <1>1, <1>3, <1>4, <1>5, <2>1, <2>2, <2>3, Leads DEF t, j
<1>7. CASE t.st = NotFound
  <2>1. /\ pc' = [pc EXCEPT ![r] = "done"]
        /\ resp' = [resp EXCEPT ![r] = a]
    BY <1>2, <1>7 DEF ReceiveCallback, Goto
  <2>2. OnRoute(q.h, "done")
    BY <1>3 DEF OnRoute
  <2>3. Location(a.to, t.goal) = "none" /\ Trouble(a)
    BY <1>4 DEF Location, Trouble
  <2>4. Place("none", t.hops + 1, NewValue(a.sid, j.plain), NewBridge(a, j))
    BY <1>2, Stops, WorldTypes
  <2>5. Served(t, q.h, a, j)
    BY <1>3, <2>3, <2>4 DEF Served, Fits
  <2> HIDE DEF q, t, j, a
  <2>6. QED
    BY <1>1, <1>3, <1>4, <1>5, <2>1, <2>2, <2>5, Leads DEF t, j
<1>8. QED
  BY <1>6, <1>7

LEMMA FetchTrip ==
    ASSUME IdsApart, OInv, OInv', JInv, NEW r \in Req, NEW b \in Browser,
           Fetch(r, b)
    PROVE  JInv'
BY FetchPage, FetchLogout, FetchSignout, FetchCallback DEF Fetch

\* Where the browser is after an answer.
LEMMA Arrives ==
    ASSUME OInv, TripTypeOK, NEW r \in Req, Show(r)
    PROVE  LET b == rq[r].b
               t == trip[b]
               a == resp[r]
               n == trip'[b]
           IN  /\ pc[r] = "done" /\ b \in Browser /\ t \in Trip /\ a \in Response
               /\ n \in Trip /\ n.goal = t.goal
               /\ n.url = Location(a.to, t.goal) /\ n.url # "busy"
               /\ n.hops <= t.hops + 1 /\ n.last = a.to
               /\ n.well = (t.well /\ ~Trouble(a))
               /\ n.url = "idp" => n.st \in State
               /\ \A c \in Browser \ {b} : trip'[c] = trip[c]
               /\ TripTypeOK'
<1> DEFINE b == rq[r].b
           t == trip[b]
           a == resp[r]
           hops == IF t.hops > MaxHops THEN t.hops ELSE t.hops + 1
           n == [t EXCEPT !.url = Location(a.to, t.goal), !.st = a.st,
                          !.hops = hops, !.last = a.to,
                          !.well = t.well /\ ~Trouble(a)]
<1>1. pc[r] = "done"
  BY DEF Show, Deliver, At
<1>2. b \in Browser /\ a \in Response
  BY <1>1 DEF OInv, IInv, RequestsOK, Ready
<1>3. t \in Trip
  BY <1>2 DEF TripTypeOK
<1>4. hops \in Nat /\ hops <= t.hops + 1
  BY <1>3 DEF Trip
<1>5. Location(a.to, t.goal) \in Goals \cup {"none", "login", "idp"}
  BY <1>3 DEF Location, Trip, Goals
<1>6. Location(a.to, t.goal) = "idp" => a.st \in State
  <2>1. Location(a.to, t.goal) = "idp" => a.to = "idp"
    BY <1>3 DEF Location, Trip, Goals
  <2>2. a.to = "idp" => a.st \in State
    BY DEF OInv, Owned, SentDrawn, Sends, IInv, SharedOK, HistoryOK
  <2>3. QED
    BY <2>1, <2>2
<1>7. (t.well /\ ~Trouble(a)) \in BOOLEAN
  BY <1>3 DEF Trip, Trouble
<1> HIDE DEF hops
<1>8. trip' = [trip EXCEPT ![b] = n]
  BY <1>3 DEF Show, hops, Trip
<1>9. /\ n.goal = t.goal /\ n.url = Location(a.to, t.goal) /\ n.st = a.st
      /\ n.hops = hops /\ n.last = a.to /\ n.well = (t.well /\ ~Trouble(a))
  BY <1>3 DEF Trip
<1>10. n \in Trip
  BY <1>2, <1>3, <1>4, <1>5, <1>7 DEF Trip, Response
<1> HIDE DEF n
<1>11. trip'[b] = n /\ \A c \in Browser \ {b} : trip'[c] = trip[c]
  BY <1>2, <1>8 DEF TripTypeOK
<1>12. TripTypeOK'
  BY <1>6, <1>8, <1>9, <1>10, <1>11 DEF TripTypeOK
<1>13. n.url # "busy"
  BY <1>5, <1>9 DEF Goals
<1>14. QED
  BY <1>1, <1>2, <1>3, <1>4, <1>6, <1>9, <1>10, <1>11, <1>12, <1>13

LEMMA ShowTrip ==
    ASSUME IdsApart, OInv, OInv', JInv, NEW r \in Req, Show(r)
    PROVE  JInv'
<1> DEFINE b == rq[r].b
           t == trip[b]
           a == resp[r]
           j == jar[b]
           n == trip'[b]
<1>1. /\ pc[r] = "done" /\ b \in Browser /\ t \in Trip /\ a \in Response
      /\ n \in Trip /\ n.goal = t.goal
      /\ n.url = Location(a.to, t.goal) /\ n.url # "busy"
      /\ n.hops <= t.hops + 1 /\ n.last = a.to
      /\ n.well = (t.well /\ ~Trouble(a))
      /\ \A c \in Browser \ {b} : trip'[c] = trip[c]
      /\ TripTypeOK'
  BY Arrives DEF JInv
<1>2. /\ UNCHANGED <<now, sess, secure, vault, accepted, holder, deadline>>
      /\ pc' = [pc EXCEPT ![r] = "idle"] /\ rq' = [rq EXCEPT ![r] = Blank]
      /\ resp' = [resp EXCEPT ![r] = NoResponse]
  BY DEF Show, Deliver, Goto, keys, history
<1>3. /\ jar[b] \in Jar
      /\ jar'[b].plain = NewValue(a.sid, j.plain)
      /\ jar'[b].host = IF secure THEN NewValue(a.sid, j.host) ELSE j.host
      /\ jar'[b].bridge = NewBridge(a, j)
      /\ \A c \in Browser \ {b} : jar'[c] = jar[c]
  <2> DEFINE m == [plain  |-> NewValue(a.sid, j.plain),
                   host   |-> IF secure THEN NewValue(a.sid, j.host) ELSE j.host,
                   bridge |-> CASE a.bridge = "keep" -> j.bridge
                                [] OTHER -> a.bridge = "set",
                   n8n    |-> NewValue(a.n8n, j.n8n)]
  <2>1. jar \in [Browser -> Jar]
    BY WorldTypes
  <2>2. jar' = [jar EXCEPT ![b] = m]
    BY DEF Show, Deliver
  <2>3. m.bridge = NewBridge(a, j)
    BY DEF NewBridge
  <2>4. /\ m.plain = NewValue(a.sid, j.plain)
        /\ m.host = IF secure THEN NewValue(a.sid, j.host) ELSE j.host
    OBVIOUS
  <2> HIDE DEF m
  <2>5. jar'[b] = m /\ \A c \in Browser \ {b} : jar'[c] = jar[c]
    BY <1>1, <2>1, <2>2
  <2>6. QED
    BY <1>1, <2>1, <2>3, <2>4, <2>5
<1>4. r \in InFlight /\ Served(t, rq[r].h, a, j)
  BY <1>1, RequestTypes DEF OnTrip
<1>5. pc'[r] = "idle" /\ \A x \in Req \ {r} : Still(x)
  BY <1>1, <1>2, RequestTypes DEF Still
<1>6. \A x \in InFlight' : x \in InFlight /\ x # r /\ rq[x].b \in Browser \ {b}
  BY <1>4, <1>5, RequestTypes DEF InFlight, Still, JInv, Alone
<1>7. Keeps
  BY <1>2, WorldTypes DEF Keeps
<1>8. Timely'
  BY <1>2 DEF JInv, Timely
<1>9. Alone'
  BY <1>5, <1>6 DEF JInv, Alone, Still, InFlight
<1>10. OneCookie'
  <2>1. j.host = IF secure THEN j.plain ELSE NotFound
    BY <1>1 DEF JInv, OneCookie
  <2>2. jar'[b].host = IF secure' THEN jar'[b].plain ELSE NotFound
    BY <1>2, <1>3, <2>1
  <2>3. QED
    BY <1>2, <1>3, <2>2 DEF JInv, OneCookie
<1>11. Told'
  <2>1. \A x \in InFlight' : resp'[x] = resp[x]
    BY <1>5, <1>6 DEF Still, InFlight
  <2>2. QED
    BY <1>2, <1>6, <2>1 DEF JInv, Told, Present
<1>12. Known'
  <2>1. ASSUME NEW c \in Browser \ {b}, jar[c].plain # NotFound
        PROVE  Present(jar[c].plain) \/ LoggingOut(c)'
    <3>1. LoggingOut(c) => LoggingOut(c)'
      BY <1>5 DEF LoggingOut, InFlight, Still
    <3>2. QED
      BY <2>1, <3>1 DEF JInv, Known
  <2>2. ASSUME NewValue(a.sid, j.plain) # NotFound
        PROVE  Present(NewValue(a.sid, j.plain))
    <3>1. a.sid # "clear"
      BY <2>2 DEF NewValue
    <3>2. CASE a.sid = "keep"
      <4>1. NewValue(a.sid, j.plain) = j.plain
        BY <3>2 DEF NewValue
      <4>2. ~LoggingOut(b)
        BY <1>4, <3>1 DEF LoggingOut, JInv, Alone, Served
      <4>3. QED
        BY <1>1, <2>2, <4>1, <4>2 DEF JInv, Known
    <3>3. CASE a.sid # "keep"
      <4>1. a.sid \in Sid /\ NewValue(a.sid, j.plain) = a.sid
        BY <1>1, <3>1, <3>3 DEF NewValue, Response
      <4>2. QED
        BY <1>4, <4>1 DEF JInv, Told
    <3>4. QED
      BY <3>2, <3>3
  <2>3. QED
    BY <1>2, <1>3, <2>1, <2>2 DEF Known, Present
<1>13. t.hops + 1 \in Nat /\ n.hops \in Nat
  BY <1>1 DEF Trip
<1>14. /\ Place(n.url, n.hops, jar'[b].plain, jar'[b].bridge)
       /\ Fits(n.goal, n.url, n.well, jar'[b].plain)
  <2>1. /\ Place(n.url, t.hops + 1, jar'[b].plain, jar'[b].bridge)
        /\ Fits(n.goal, n.url, t.well /\ ~Trouble(a), jar'[b].plain)
    BY <1>1, <1>3, <1>4 DEF Served
  <2>2. Fits(n.goal, n.url, n.well, jar'[b].plain)
    BY <1>1, <2>1 DEF Fits
  <2>3. QED
    BY <1>1, <1>13, <2>1, <2>2, PlaceBound
<1>15. Bounded'
  <2>1. \E k \in Nat : Age(k) <= now' /\ n.hops <= 3 * k + 5
    BY <1>2, <1>13, <1>14, PlaceBound
  <2>2. ASSUME NEW c \in Browser \ {b}
        PROVE  \E k \in Nat : Age(k) <= now' /\ trip'[c].hops <= 3 * k + 5
    BY <1>1, <1>7, StillBounded DEF JInv, Bounded
  <2>3. QED
    BY <2>1, <2>2 DEF Bounded
<1>16. ASSUME NEW c \in Browser PROVE Moves(c)'
  <2>1. CASE c = b
    <3>1. ASSUME NEW m, m = n, NEW i, i = jar'[b]
          PROVE  (Place(m.url, m.hops, i.plain, i.bridge)
                  /\ Fits(m.goal, m.url, m.well, i.plain))'
      BY <1>7, <1>14, <3>1, PlaceKept, FitsKept
    <3>2. QED
      BY <2>1, <3>1 DEF Moves
  <2>2. CASE c # b
    BY <1>1, <1>3, <1>7, <2>2, StillMoves DEF JInv
  <2>3. QED
    BY <2>1, <2>2
<1>17. ASSUME NEW x \in InFlight' PROVE OnTrip(x)'
  BY <1>1, <1>3, <1>5, <1>6, <1>7, StillOnTrip DEF JInv, InFlight
<1>18. QED
  BY <1>1, <1>8, <1>9, <1>10, <1>11, <1>12, <1>15, <1>16, <1>17 DEF JInv

\* Time passes.
LEMMA TickTrip ==
    ASSUME OInv, OInv', JInv, Tick, UNCHANGED trip
    PROVE  JInv'
<1>1. /\ now < MaxTime /\ now' = now + 1 /\ MaxTime \in Nat
      /\ sess' = [id \in Sid |-> Swept(sess[id])]
      /\ UNCHANGED <<secure, vault, accepted, jar, pc, rq, resp, holder, deadline>>
  BY GatewayAssumption DEF Tick, ClockTick, external, browsers, history
<1>2. Keeps /\ \A x \in Req : Still(x)
  BY <1>1, WorldTypes DEF Keeps, Still
<1>3. \A id \in Sid : \/ sess'[id] = sess[id]
                      \/ sess'[id] = NotFound /\ now' > sess[id].ttl
                         /\ sess[id] # NotFound
  BY <1>1 DEF Swept
<1>4. \A id \in Sid : sess[id] # NotFound => sess[id].ttl \in Nat
  BY WorldTypes DEF SessionKey
<1>5. Lasting
  <2>1. ASSUME NEW id \in Sid, Present(id)
        PROVE  Present(id)'
    <3>1. CASE now > deadline[id]
      BY <1>1, <3>1, WorldTypes DEF Present
    <3>2. CASE sess[id] # NotFound
      <4>1. sess[id].ttl >= deadline[id] /\ sess[id].ttl \in Nat
        BY <1>4, <3>2 DEF JInv, Timely
      <4>2. QED
        BY <1>1, <1>3, <3>2, <4>1, WorldTypes DEF Present
    <3>3. QED
      BY <2>1, <3>1, <3>2 DEF Present
  <2>2. QED
    BY <2>1 DEF Lasting
<1>6. Timely'
  BY <1>1, <1>3, WorldTypes DEF JInv, Timely
<1>7. Known'
  BY <1>1, <1>5, StillKnown DEF JInv
<1>8. Told'
  BY <1>1, <1>5 DEF JInv, Told, Lasting, InFlight
<1>9. TripTypeOK' /\ OneCookie' /\ Alone'
  BY <1>1 DEF JInv, TripTypeOK, OneCookie, Alone, InFlight
<1>10. Bounded'
  BY <1>2, StillBounded DEF JInv, Bounded
<1>11. \A b \in Browser : Moves(b)'
  BY <1>1, <1>2, StillMoves DEF JInv
<1>12. \A x \in InFlight' : OnTrip(x)'
  BY <1>1, <1>2, StillOnTrip DEF JInv, InFlight
<1>13. QED
  BY <1>6, <1>7, <1>8, <1>9, <1>10, <1>11, <1>12 DEF JInv

\* Between trips cookies may go and passwords change.
LEMMA SettledTrip ==
    ASSUME OInv, OInv', JInv, Settled, UNCHANGED trip,
           \/ \E b \in Browser : DropCookie(b)
           \/ \E c \in Cred : PasswordChange(c)
    PROVE  JInv'
<1>1. UNCHANGED <<now, sess, secure, pc, rq, resp, holder, deadline>>
  BY DEF DropCookie, PasswordChange, keys, history
<1>2. InFlight = {} /\ InFlight' = {}
  <2>1. \A x \in InFlight : trip[rq[x].b].url = "busy" /\ rq[x].b \in Browser
    BY RequestTypes DEF InFlight, OnTrip
  <2>2. QED
    BY <1>1, <2>1 DEF Settled, InFlight
<1>3. ASSUME NEW c \in Browser
      PROVE  /\ jar'[c].plain \in {jar[c].plain, NotFound}
             /\ jar'[c].host = IF secure THEN jar'[c].plain ELSE NotFound
  <2>1. jar[c] \in Jar /\ jar[c].host = IF secure THEN jar[c].plain ELSE NotFound
    BY WorldTypes DEF JInv, OneCookie
  <2>2. CASE UNCHANGED jar
    BY <2>1, <2>2
  <2>3. CASE \E b \in Browser : DropCookie(b)
    <3>1. PICK b \in Browser : DropCookie(b)
      BY <2>3
    <3>2. CASE jar' = [jar EXCEPT ![b].plain = NotFound, ![b].host = NotFound]
      BY <2>1, <3>2, WorldTypes DEF Jar
    <3>3. CASE jar' = [jar EXCEPT ![b].bridge = FALSE]
      BY <2>1, <3>3, WorldTypes DEF Jar
    <3>4. CASE jar' = [jar EXCEPT ![b].n8n = NotFound]
      BY <2>1, <3>4, WorldTypes DEF Jar
    <3>5. QED
      BY <3>1, <3>2, <3>3, <3>4 DEF DropCookie
  <2>4. QED
    BY <2>2, <2>3 DEF PasswordChange, browsers
<1>4. OneCookie'
  BY <1>1, <1>3 DEF OneCookie
<1>5. TripTypeOK' /\ Bounded' /\ Timely'
  BY <1>1 DEF JInv, TripTypeOK, Bounded, Timely
<1>6. Told' /\ Alone' /\ \A x \in InFlight' : OnTrip(x)'
  BY <1>2 DEF Told, Alone
<1>7. Known'
  BY <1>1, <1>2, <1>3 DEF JInv, Known, LoggingOut, Present
<1>8. ASSUME NEW b \in Browser PROVE Moves(b)'
  <2>1. trip[b].url = "none" /\ Moves(b)
    BY DEF Settled, JInv
  <2>2. Place("none", trip[b].hops, jar[b].plain, jar[b].bridge)
    BY <2>1 DEF Moves
  <2>3. QED
    BY <1>1, <2>1, <2>2 DEF Moves, Place, Room, Fits
<1>9. QED
  BY <1>4, <1>5, <1>6, <1>7, <1>8 DEF JInv

LEMMA RestTrip ==
    ASSUME OInv, OInv', JInv, UNCHANGED tripVars
    PROVE  JInv'
<1>1. UNCHANGED <<now, sess, secure, vault, accepted, jar, pc, rq, resp, holder,
                  deadline, trip>>
  BY DEF tripVars, vars, keys, external, browsers, history
<1>2. Keeps /\ Lasting /\ \A x \in Req : Still(x)
  BY <1>1, WorldTypes DEF Keeps, Lasting, Present, Still
<1>3. Timely' /\ TripTypeOK' /\ OneCookie' /\ Alone' /\ Bounded'
  BY <1>1 DEF JInv, Timely, TripTypeOK, OneCookie, Alone, Bounded, InFlight
<1>4. Known' /\ Told'
  BY <1>1 DEF JInv, Known, Told, Present, LoggingOut, InFlight
<1>5. \A b \in Browser : Moves(b)'
  BY <1>1, <1>2, StillMoves DEF JInv
<1>6. \A x \in InFlight' : OnTrip(x)'
  BY <1>1, <1>2, StillOnTrip DEF JInv, InFlight
<1>7. QED
  BY <1>3, <1>4, <1>5, <1>6 DEF JInv

-----------------------------------------------------------------------------
(* Theorems. *)

\* A step of a trip is a step of the gateway, its browsers and the world
\* around them, or none.
THEOREM TripStep ==
    ASSUME TripTypeOK
    PROVE  [TripNext]_tripVars => [Next]_vars
<1> SUFFICES ASSUME [TripNext]_tripVars PROVE [Next]_vars
  OBVIOUS
<1>1. ASSUME NEW b \in Browser, NEW goal \in Goals, Open(b, goal)
      PROVE  UNCHANGED vars
  BY <1>1 DEF Open
<1>2. ASSUME NEW b \in Browser, NEW u \in User, LogIn(b, u)
      PROVE  Next
  BY <1>2 DEF LogIn, TripTypeOK, Next, Environment
<1>3. ASSUME NEW r \in Req, NEW b \in Browser, Fetch(r, b)
      PROVE  Arrive(r)
  <2>1. CASE ReceiveWithSession(r, b, trip[b].url)
    BY <2>1 DEF ReceiveWithSession, Receive, Arrive
  <2>2. CASE ReceiveLogout(r, b) \/ ReceiveSignout(r, b)
    BY <2>2 DEF Arrive
  <2>3. CASE /\ trip[b].st \in Finished
             /\ ReceiveCallback(r, b, trip[b].st, trip[b].st)
    BY <2>3 DEF Arrive
  <2>4. QED
    BY <1>3, <2>1, <2>2, <2>3 DEF Fetch
<1>4. ASSUME NEW r \in Req, Step(r)
      PROVE  Next
  BY <1>3, <1>4 DEF Step, Work, Show, Next
<1>5. World => Next
  BY DEF World, Next, Environment
<1>6. UNCHANGED tripVars => UNCHANGED vars
  BY DEF tripVars
<1>7. QED
  BY <1>1, <1>2, <1>4, <1>5, <1>6 DEF TripNext

LEMMA TripTyped ==
    ASSUME OInv, TripTypeOK, [TripNext]_tripVars
    PROVE  TripTypeOK'
<1>1. ASSUME NEW b \in Browser, NEW goal \in Goals, Open(b, goal)
      PROVE  TripTypeOK'
  <2> DEFINE t == [Idle EXCEPT !.goal = goal, !.url = goal]
  <2>1. t \in Trip /\ t.url # "idp"
    BY DEF Idle, Trip, Goals
  <2>2. trip' = [trip EXCEPT ![b] = t]
    BY <1>1 DEF Open
  <2> HIDE DEF t
  <2>3. QED
    BY <2>1, <2>2 DEF TripTypeOK
<1>2. ASSUME NEW b \in Browser, NEW url \in {"busy", "callback"},
             trip' = [trip EXCEPT ![b].url = url]
      PROVE  TripTypeOK'
  <2> DEFINE t == [trip[b] EXCEPT !.url = url]
  <2>1. t \in Trip /\ t.url # "idp"
    BY DEF TripTypeOK, Trip
  <2>2. trip' = [trip EXCEPT ![b] = t]
    BY <1>2
  <2> HIDE DEF t
  <2>3. QED
    BY <2>1, <2>2 DEF TripTypeOK
<1>3. ASSUME NEW r \in Req, Show(r)
      PROVE  TripTypeOK'
  BY <1>3, Arrives
<1>4. UNCHANGED trip => TripTypeOK'
  BY DEF TripTypeOK
<1>5. QED
  BY <1>1, <1>2, <1>3, <1>4
     DEF TripNext, Step, LogIn, Fetch, Work, World, tripVars

\* Whatever a person does on trips, the gateway behaves as Gateway says, so
\* that every theorem about Gateway holds on trips: requests of a trip are
\* requests that server.go may get (server.go:104-130, 184-518).
THEOREM TripsAreGateway == TripSpec => Spec
<1>1. TripInit => Init /\ OInv /\ TripTypeOK
  <2>1. Idle \in Trip /\ Idle.url # "idp"
    BY DEF Idle, Trip, Goals
  <2>2. QED
    BY <2>1, InitOwned DEF TripInit, TripTypeOK
<1>2. OInv /\ TripTypeOK /\ [TripNext]_tripVars =>
         [Next]_vars /\ OInv' /\ TripTypeOK'
  BY TripStep, TripTyped, NextOwned
<1>3. QED
  BY <1>1, <1>2, PTL DEF TripSpec, Spec

LEMMA InitTrip == TripInit => OInv /\ JInv
<1> SUFFICES ASSUME TripInit PROVE OInv /\ JInv
  OBVIOUS
<1>1. Init /\ trip = [b \in Browser |-> Idle] /\ OInv
  BY InitOwned DEF TripInit
<1>2. \A b \in Browser : trip[b] = Idle /\ jar[b] = EmptyJar
  BY <1>1 DEF Init
<1>3. /\ Idle \in Trip /\ Idle.url = "none" /\ Idle.hops = 0
      /\ Idle.goal = "console"
  BY DEF Idle, Trip, Goals
<1>4. /\ now = 0 /\ MaxTime \in Nat
      /\ \A id \in Sid : holder[id] = NotFound /\ sess[id] = NotFound
  BY <1>1, GatewayAssumption DEF Init, KeysInit
<1>5. InFlight = {}
  BY <1>1 DEF Init, InFlight
<1>6. 0 \in Nat /\ Age(0) <= now /\ 0 <= 3 * 0 + 5
  BY <1>4, Ages
<1>7. TripTypeOK
  BY <1>1, <1>3 DEF TripTypeOK
<1>8. Bounded
  BY <1>2, <1>3, <1>6 DEF Bounded
<1>9. Timely
  BY <1>4 DEF Timely
<1>10. Known /\ Told /\ OneCookie /\ Alone
  BY <1>2, <1>5 DEF Known, Told, OneCookie, Alone, EmptyJar
<1>11. ASSUME NEW b \in Browser PROVE Moves(b)
  <2>1. Place("none", 0, jar[b].plain, jar[b].bridge)
    BY <1>6 DEF Place, Room
  <2>2. QED
    BY <1>2, <1>3, <2>1 DEF Moves, Fits
<1>12. QED
  BY <1>1, <1>5, <1>7, <1>8, <1>9, <1>10, <1>11 DEF JInv

LEMMA NextTrip ==
    ASSUME IdsApart, OInv, JInv, [TripNext]_tripVars
    PROVE  OInv' /\ JInv'
<1>1. OInv'
  BY TripStep, NextOwned DEF JInv
<1>2. CASE \E b \in Browser : \/ \E goal \in Goals : Open(b, goal)
                              \/ \E u \in User : LogIn(b, u)
  BY <1>1, <1>2, OpenTrip, LogInTrip
<1>3. CASE \E r \in Req : Step(r)
  BY <1>1, <1>3, FetchTrip, WorkTrip, ShowTrip DEF Step
<1>4. CASE World
  BY <1>1, <1>4, TickTrip, SettledTrip DEF World
<1>5. CASE UNCHANGED tripVars
  BY <1>1, <1>5, RestTrip
<1>6. QED
  BY <1>1, <1>2, <1>3, <1>4, <1>5 DEF TripNext

\* The invariant of trips: where a browser is, how far it came and which life
\* its session is in belong together (server.go:184-518).
THEOREM TripsKept ==
    ASSUME IdsApart
    PROVE  TripSpec => [](OInv /\ JInv)
<1>1. OInv /\ JInv /\ [TripNext]_tripVars => (OInv /\ JInv)'
  BY NextTrip
<1>2. QED
  BY <1>1, InitTrip, PTL DEF TripSpec

\* Redirects come to an end: a trip gets at most five responses, and three more
\* for every session that can have run out by then (there are at most N - 1),
\* however long it takes and whatever fails.  A longer loop between console,
\* login, provider, callback and link page would need sessions that end before
\* the TTL they are stored with (server.go:286-288, 426-432, 493-518, 635-639).
THEOREM RedirectsEnd ==
    ASSUME IdsApart, NEW N \in Nat, MaxTime < N * (SessionTTL + 1),
           MaxHops \in Nat, 3 * N + 2 <= MaxHops
    PROVE  TripSpec => []NoRedirectLoop
<1>1. OInv /\ JInv => NoRedirectLoop
  <2> SUFFICES ASSUME OInv, JInv, NEW b \in Browser
               PROVE  trip[b].hops <= MaxHops
    BY DEF NoRedirectLoop
  <2>1. PICK k \in Nat : Age(k) <= now /\ trip[b].hops <= 3 * k + 5
    BY DEF JInv, Bounded
  <2>2. now \in Nat /\ now <= MaxTime /\ MaxTime \in Nat
    BY WorldTypes, GatewayAssumption DEF JInv, Timely
  <2>3. Age(k) \in Nat /\ Age(N) \in Nat /\ MaxTime < Age(N)
    BY Ages DEF Age
  <2>4. k < N
    BY <2>1, <2>2, <2>3, AgeOrder
  <2>5. trip[b].hops \in Nat
    BY DEF JInv, TripTypeOK, Trip
  <2>6. QED
    BY <2>1, <2>4, <2>5
<1>2. QED
  BY <1>1, TripsKept, PTL

\* Only a response ends a trip.
LEMMA EndsShown ==
    ASSUME TripTypeOK, NEW b \in Browser, [TripNext]_tripVars,
           trip[b].url # "none", trip'[b].url = "none"
    PROVE  \E r \in Req : Show(r)
<1>1. ASSUME NEW c \in Browser, NEW goal \in Goals, Open(c, goal)
      PROVE  FALSE
  <2> DEFINE t == [Idle EXCEPT !.goal = goal, !.url = goal]
  <2>1. t.url # "none"
    BY DEF Idle, Goals
  <2>2. trip' = [trip EXCEPT ![c] = t]
    BY <1>1 DEF Open
  <2> HIDE DEF t
  <2>3. QED
    BY <2>1, <2>2 DEF TripTypeOK
<1>2. ASSUME NEW c \in Browser, NEW url \in {"busy", "callback"},
             trip' = [trip EXCEPT ![c].url = url]
      PROVE  FALSE
  <2> DEFINE t == [trip[c] EXCEPT !.url = url]
  <2>1. t.url # "none"
    BY DEF TripTypeOK, Trip
  <2>2. trip' = [trip EXCEPT ![c] = t]
    BY <1>2
  <2> HIDE DEF t
  <2>3. QED
    BY <2>1, <2>2 DEF TripTypeOK
<1>3. trip' # trip
  OBVIOUS
<1>4. QED
  BY <1>1, <1>2, <1>3
     DEF TripNext, Step, LogIn, Fetch, Work, World, tripVars

\* A trip on which no answer tells of trouble ends where it should: at the
\* console, and at the link page only if that was asked for or if n8n refuses
\* the stored credential of the person whose session the browser has; never
\* at an error, and never at the link page because of a session that ended
\* or of a login that is over (server.go:184-206, 231-290, 426-455, 493-518;
\* docs/test-plan.md, "Existing link", "Invalid stored credential").
THEOREM TripsLandRight ==
    ASSUME IdsApart
    PROVE  TripSpec => TripLandsRight
<1>1. ASSUME OInv, JInv, [TripNext]_tripVars, NEW b \in Browser,
             trip[b].url # "none", trip'[b].url = "none", trip'[b].well
      PROVE  \/ trip[b].goal = "linkget" /\ trip'[b].last = "page"
             \/ trip[b].goal # "linkget" /\ trip'[b].last = "console"
             \/ /\ trip[b].goal # "linkget" /\ trip'[b].last = "page"
                /\ vault[holder[jar[b].plain]] \notin accepted
  <2>1. TripTypeOK
    BY <1>1 DEF JInv
  <2>2. PICK r \in Req : Show(r)
    BY <1>1, <2>1, EndsShown
  <2>3. /\ pc[r] = "done"
        /\ \A c \in Browser \ {rq[r].b} : trip'[c] = trip[c]
        /\ LET t == trip[rq[r].b]
               a == resp[r]
               n == trip'[rq[r].b]
           IN  /\ n.url = Location(a.to, t.goal) /\ n.last = a.to
               /\ n.well = (t.well /\ ~Trouble(a)) /\ t.well \in BOOLEAN
    BY <1>1, <2>1, <2>2, Arrives DEF Trip
  <2>4. rq[r].b = b
    BY <1>1, <2>3
  <2>5. Served(trip[b], rq[r].h, resp[r], jar[b])
    BY <1>1, <2>3, <2>4 DEF JInv, InFlight, OnTrip
  <2>6. Location(resp[r].to, trip[b].goal) = "none"
    BY <1>1, <2>3, <2>4
  <2>7. trip[b].well /\ ~Trouble(resp[r])
    BY <1>1, <2>3, <2>4
  <2>8. Lands(trip[b].goal, resp[r].to, jar[b].plain)
    BY <2>5, <2>6, <2>7 DEF Served
  <2>9. QED
    BY <2>3, <2>4, <2>8 DEF Lands, Refused
<1> DEFINE Right ==
      \A b \in Browser :
          trip[b].url # "none" /\ trip'[b].url = "none" /\ trip'[b].well =>
            \/ trip[b].goal = "linkget" /\ trip'[b].last = "page"
            \/ trip[b].goal # "linkget" /\ trip'[b].last = "console"
            \/ /\ trip[b].goal # "linkget" /\ trip'[b].last = "page"
               /\ vault[holder[jar[b].plain]] \notin accepted
<1>2. OInv /\ JInv /\ [TripNext]_tripVars => Right
  BY <1>1
<1>3. QED
  BY <1>2, TripsKept, PTL DEF TripSpec, TripLandsRight
=============================================================================
