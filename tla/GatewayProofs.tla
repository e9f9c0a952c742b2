---------------------------- MODULE GatewayProofs ----------------------------
(***************************************************************************)
(* Theorems about Gateway, for any number of requests, browsers, users,    *)
(* sessions and credentials, any faults and any TTL: that a session keeps  *)
(* its identity, that the marker and n8n's cookie go together, whose login *)
(* a session is, whose cookie and whose form, and when a logout is final.  *)
(***************************************************************************)
EXTENDS Gateway, SequenceTheorems, TLAPS

-----------------------------------------------------------------------------
(* The inductive invariant.  SessionKeepsIdentity speaks of Redis; it is    *)
(* kept because every copy of a session that a request holds, and may write *)
(* back long after it read it, agrees with the identity and the deadline    *)
(* its id was created with.  VaultHoldsAcceptedCredentials is kept because a *)
(* request about to write Vault carries a pair that n8n accepted.           *)

HasSession == {"vault", "n8nlogin", "reload", "save", "csrf", "setcsrf", "put",
               "delcred", "current", "proxy"}

\* A request at a step has the locals that the step uses.
Ready(p, q, a) ==
    /\ p # "idle" => q.b \in Browser
    /\ p \in {"lookup", "delete"} => q.ids # <<>>
    /\ p \in {"take", "exchange", "create"} =>
          /\ q.h = "callback" /\ q.st \in State
          /\ q.code \in State /\ idp[q.code] \in User
    /\ p = "create" => q.code = q.st
    /\ p \in HasSession => q.copy # NotFound
    /\ p = "current" => q.h = "me"
    /\ p = "delcred" => q.h = "linkdelete"
    /\ p \in {"n8nlogin", "reload", "put"} => q.cred \in Cred
    /\ p = "put" => <<q.copy.user, q.cred>> \in validated
    /\ p = "save" /\ q.h # "linkdelete" => q.cred \in Cred
    /\ p = "vault" /\ q.h = "linkget" => a.page \in Token
    /\ p = "done" /\ a.to = "page" => a.page \in Token

\* A copy of a session agrees with the session's history.
Faithful(q) ==
    q.copy # NotFound =>
        /\ q.id \in Sid
        /\ q.copy.user = holder[q.id]
        /\ q.copy.exp = deadline[q.id]
        /\ holder[q.id] # NotFound

RequestsOK ==
    /\ pc \in [Req -> PCs]
    /\ rq \in [Req -> Request]
    /\ resp \in [Req -> Response]
    /\ \A r \in Req : Ready(pc[r], rq[r], resp[r]) /\ Faithful(rq[r])

WorldOK ==
    /\ secure \in BOOLEAN
    /\ vault \in [User -> Cred \cup {NotFound}]
    /\ accepted \subseteq Cred
    /\ askedBy \in [State -> Browser \cup {NotFound}]
    /\ idp \in [State -> User \cup {NotFound}]
    /\ jar \in [Browser -> Jar]
    /\ forms \in [Browser -> SUBSET Token]

HistoryOK ==
    /\ drawn \subseteq State
    /\ issued \in [Sid -> SUBSET Token]
    /\ origin \in [Sid -> State \cup {NotFound}]
    /\ holder \in [Sid -> User \cup {NotFound}]
    /\ bearer \in [Sid -> Browser \cup {NotFound}]
    /\ deadline \in [Sid -> Nat]
    /\ validated \subseteq User \X Cred
    /\ loggedOut \subseteq Sid

StoreFaithful ==
    \A id \in Sid : sess[id] # NotFound =>
        /\ sess[id].val.user = holder[id]
        /\ sess[id].val.exp = deadline[id]
        /\ holder[id] # NotFound

BornFromLogin ==
    \A id \in Sid : holder[id] # NotFound =>
        origin[id] \in State /\ holder[id] = idp[origin[id]]

SharedOK == /\ KeysTypeOK /\ WorldOK /\ HistoryOK
            /\ StoreFaithful /\ BornFromLogin /\ VaultHoldsAcceptedCredentials

IInv == SharedOK /\ RequestsOK

-----------------------------------------------------------------------------
(* Steps of one request. *)

\* What was recorded about a created session, or a login, stays.
Stable ==
    /\ \A id \in Sid : holder[id] # NotFound =>
          holder'[id] = holder[id] /\ deadline'[id] = deadline[id]
    /\ \A s \in State : idp[s] \in User => idp'[s] = idp[s]
    /\ validated \subseteq validated'

\* Moving one request to a proper place keeps all of them proper.
LEMMA Move ==
    ASSUME RequestsOK, Stable, NEW r \in Req,
           NEW p \in PCs, NEW q \in Request, NEW a \in Response,
           pc' = [pc EXCEPT ![r] = p],
           rq' = [rq EXCEPT ![r] = q],
           resp' = [resp EXCEPT ![r] = a],
           Ready(pc[r], rq[r], resp[r])', Faithful(rq[r])'
    PROVE  RequestsOK'
<1>1. /\ pc' \in [Req -> PCs]
      /\ rq' \in [Req -> Request]
      /\ resp' \in [Req -> Response]
  BY DEF RequestsOK
<1>2. ASSUME NEW x \in Req
      PROVE  (Ready(pc[x], rq[x], resp[x]) /\ Faithful(rq[x]))'
  <2>1. CASE x = r
    BY <2>1
  <2>2. CASE x # r
    <3>1. pc'[x] = pc[x] /\ rq'[x] = rq[x] /\ resp'[x] = resp[x]
      BY <2>2 DEF RequestsOK
    <3>2. rq[x] \in Request /\ Ready(pc[x], rq[x], resp[x]) /\ Faithful(rq[x])
      BY DEF RequestsOK
    <3>3. Faithful(rq[x])'
      BY <3>1, <3>2 DEF Faithful, Stable, Request
    <3>4. Ready(pc[x], rq[x], resp[x])'
      BY ZenonT(60), <3>1, <3>2 DEF Ready, Stable, Request
    <3>5. QED  BY <3>3, <3>4
  <2>3. QED  BY <2>1, <2>2
<1>3. QED  BY <1>1, <1>2 DEF RequestsOK

\* The end of a handler keeps all requests proper, whatever it answers.
LEMMA Ending ==
    ASSUME RequestsOK, Stable, NEW r \in Req, pc[r] # "idle",
           NEW a \in Response, a.to = "page" => a.page \in Token,
           Leave(r), resp' = [resp EXCEPT ![r] = a]
    PROVE  RequestsOK'
<1> DEFINE q == [Blank EXCEPT !.h = rq[r].h, !.b = rq[r].b]
<1>1. rq[r] \in Request /\ rq[r].b \in Browser
  BY DEF RequestsOK, Ready
<1>2. q \in Request /\ q.b \in Browser /\ q.copy = NotFound
  BY <1>1, EmptySeq DEF Blank, Request
<1>3. "done" \in PCs
  BY DEF PCs
<1>4. pc'[r] = "done" /\ rq'[r] = q /\ resp'[r] = a
  BY DEF Leave, Goto, RequestsOK
<1>5. Ready(pc[r], rq[r], resp[r])' /\ Faithful(rq[r])'
  BY <1>2, <1>4 DEF Ready, Faithful, HasSession
<1>6. QED
  BY <1>2, <1>3, <1>5, Move DEF Leave, Goto

LEMMA Answering ==
    ASSUME RequestsOK, Stable, NEW r \in Req, pc[r] # "idle",
           NEW to, Respond(r, to),
           to \in {"idp", "login", "link", "relink", "return", "root",
                   "console", "me", "400", "401", "403", "429", "500",
                   "502", "503"}
    PROVE  RequestsOK'
<1> DEFINE a == [resp[r] EXCEPT !.to = to]
<1>1. resp[r] \in Response
  BY DEF RequestsOK
<1>2. a \in Response /\ a.to # "page"
  BY <1>1 DEF Response
<1>3. resp' = [resp EXCEPT ![r] = a]
  BY DEF Respond
<1>4. QED
  BY <1>2, <1>3, Ending DEF Respond

LEMMA AnsweringLoggedIn ==
    ASSUME RequestsOK, Stable, NEW r \in Req, pc[r] # "idle",
           NEW to, RespondLoggedIn(r, to), rq[r].cred \in Cred,
           to \in {"return", "root", "me"}
    PROVE  RequestsOK'
<1> DEFINE a == [resp[r] EXCEPT !.to = to, !.n8n = rq[r].cred, !.bridge = "set"]
<1>1. resp[r] \in Response
  BY DEF RequestsOK
<1>2. a \in Response /\ a.to # "page"
  BY ZenonT(60), <1>1 DEF Response
<1>3. resp' = [resp EXCEPT ![r] = a]
  BY DEF RespondLoggedIn
<1>4. QED
  BY <1>2, <1>3, Ending DEF RespondLoggedIn

\* As long as Vault is left alone, what n8n accepted only grows.
LEMMA VaultStays ==
    ASSUME VaultHoldsAcceptedCredentials, UNCHANGED vault,
           validated \subseteq validated'
    PROVE  VaultHoldsAcceptedCredentials'
BY DEF VaultHoldsAcceptedCredentials

\* A step that touches neither the stores nor the history.
LEMMA NothingShared ==
    ASSUME SharedOK, UNCHANGED <<shared, history>>
    PROVE  SharedOK' /\ Stable
BY DEF SharedOK, shared, sharedButStore, history, KeysTypeOK, WorldOK, HistoryOK,
       StoreFaithful, BornFromLogin,
       VaultHoldsAcceptedCredentials, Stable, keys, external, browsers

\* Deleting a session, or nothing at all, keeps the store faithful.
LEMMA Deleting ==
    ASSUME SharedOK, NEW id \in Sid,
           DelSession(id) \/ UNCHANGED <<sess, csrf>>,
           UNCHANGED <<sharedButStore, oidc, history>>
    PROVE  SharedOK' /\ Stable
<1>1. KeysTypeOK'
  BY DEF SharedOK, KeysTypeOK, DelSession, sharedButStore
<1>2. WorldOK' /\ HistoryOK' /\ BornFromLogin' /\ Stable
  BY DEF SharedOK, WorldOK, HistoryOK, BornFromLogin, Stable, sharedButStore,
         history, external, browsers
<1>3. StoreFaithful'
  BY DEF SharedOK, StoreFaithful, DelSession, KeysTypeOK, sharedButStore, history
<1>4. VaultHoldsAcceptedCredentials'
  BY VaultStays DEF SharedOK, sharedButStore, history
<1>5. QED  BY <1>1, <1>2, <1>3, <1>4 DEF SharedOK
\* Requests that do not move stay proper.
LEMMA Staying ==
    ASSUME RequestsOK, Stable, UNCHANGED <<pc, rq, resp>>
    PROVE  RequestsOK'
<1>1. ASSUME NEW x \in Req
      PROVE  (Ready(pc[x], rq[x], resp[x]) /\ Faithful(rq[x]))'
  <2>1. rq[x] \in Request /\ Ready(pc[x], rq[x], resp[x]) /\ Faithful(rq[x])
    BY DEF RequestsOK
  <2>2. Faithful(rq[x])'
    BY <2>1 DEF Faithful, Stable, Request
  <2>3. Ready(pc[x], rq[x], resp[x])'
    BY <2>1 DEF Ready, Stable, Request
  <2>4. QED  BY <2>2, <2>3
<1>2. QED  BY <1>1 DEF RequestsOK

\* A slot that is freed is proper.
LEMMA Freeing ==
    ASSUME RequestsOK, Stable, NEW r \in Req,
           Goto(r, "idle"),
           rq' = [rq EXCEPT ![r] = Blank],
           resp' = [resp EXCEPT ![r] = NoResponse]
    PROVE  RequestsOK'
<1>1. Blank \in Request /\ Blank.copy = NotFound
  BY EmptySeq DEF Blank, Request, HandlerKinds
<1>2. NoResponse \in Response /\ "idle" \in PCs
  BY DEF NoResponse, Response, PCs
<1>3. pc'[r] = "idle" /\ rq'[r] = Blank
  BY DEF Goto, RequestsOK
<1>4. Ready(pc[r], rq[r], resp[r])' /\ Faithful(rq[r])'
  BY <1>1, <1>3 DEF Ready, Faithful, HasSession
<1>5. QED
  BY <1>1, <1>2, <1>4, Move DEF Goto

\* The cookies of a browser name sessions.
LEMMA CookieIdsType ==
    ASSUME NEW j \in Jar
    PROVE  CookieIds(j) \in Seq(Sid)
<1> DEFINE some(id) == IF id = NotFound THEN <<>> ELSE <<id>>
<1>1. \A id \in Sid \cup {NotFound} : some(id) \in Seq(Sid)
  OBVIOUS
<1>2. j.plain \in Sid \cup {NotFound} /\ j.host \in Sid \cup {NotFound}
  BY DEF Jar
<1>3. some(j.plain) \in Seq(Sid) /\ some(j.host) \in Seq(Sid)
  BY <1>1, <1>2
<1>4. some(j.plain) \o some(j.host) \in Seq(Sid)
  BY <1>3, ConcatProperties
<1>5. QED
  BY <1>3, <1>4 DEF CookieIds

LEMMA CarriedType ==
    ASSUME SharedOK, NEW b \in Browser
    PROVE  /\ Carried(b) \in Request
           /\ Carried(b).b = b /\ Carried(b).copy = NotFound
           /\ Carried(b).ids = CookieIds(jar[b])
<1>1. jar[b] \in Jar
  BY DEF SharedOK, WorldOK
<1>2. CookieIds(jar[b]) \in Seq(Sid)
  BY <1>1, CookieIdsType
<1>3. QED
  BY <1>1, <1>2 DEF Carried, Blank, Request, Jar, HandlerKinds

-----------------------------------------------------------------------------
(* Requests arrive. *)

\* A request that just arrived, at whichever step it starts.
LEMMA Arriving ==
    ASSUME IInv, UNCHANGED <<shared, history>>, NEW r \in Req,
           NEW p \in {"lookup", "state", "take", "delete", "n8nlogout", "done"},
           NEW q \in Request, NEW a \in Response,
           q.b \in Browser, q.copy = NotFound,
           p \in {"lookup", "delete"} => q.ids # <<>>,
           p = "take" => /\ q.h = "callback" /\ q.st \in State
                         /\ q.code \in State /\ idp[q.code] \in User,
           p = "done" => a.to # "page",
           Goto(r, p), rq' = [rq EXCEPT ![r] = q],
           resp' = [resp EXCEPT ![r] = a]
    PROVE  IInv'
<1>1. SharedOK' /\ Stable /\ RequestsOK
  BY NothingShared DEF IInv
<1>2. p \in PCs
  BY DEF PCs
<1>3. pc'[r] = p /\ rq'[r] = q /\ resp'[r] = a /\ idp' = idp
  BY <1>1 DEF Goto, RequestsOK, shared, sharedButStore, external
<1>4. Faithful(rq[r])'
  BY <1>3 DEF Faithful
<1>5. Ready(pc[r], rq[r], resp[r])'
  BY <1>3 DEF Ready, HasSession
<1>6. RequestsOK'
  BY <1>1, <1>2, <1>4, <1>5, Move DEF Goto
<1>7. QED
  BY <1>1, <1>6 DEF IInv

\* The response slot, untouched or redirected.
LEMMA SlotType ==
    ASSUME RequestsOK, NEW r \in Req
    PROVE  /\ resp[r] \in Response
           /\ resp = [resp EXCEPT ![r] = resp[r]]
           /\ \A to \in {"login", "400"} :
                 /\ [resp[r] EXCEPT !.to = to] \in Response
                 /\ [resp EXCEPT ![r].to = to] =
                       [resp EXCEPT ![r] = [resp[r] EXCEPT !.to = to]]
BY DEF RequestsOK, Response

LEMMA ReceiveWithSessionOK ==
    ASSUME IInv, NEW r \in Req, NEW b \in Browser, NEW h \in Handlers,
           ReceiveWithSession(r, b, h)
    PROVE  IInv'
<1> DEFINE q == [Carried(b) EXCEPT !.h = h]
<1>1. h \in HandlerKinds
  BY DEF ReceiveWithSession, HandlerKinds, SessionHandlers
<1>2. q \in Request /\ q.b \in Browser /\ q.copy = NotFound
      /\ q.ids = CookieIds(jar[b])
  <2>1. /\ Carried(b) \in Request /\ Carried(b).b = b
        /\ Carried(b).copy = NotFound /\ Carried(b).ids = CookieIds(jar[b])
    BY CarriedType DEF IInv
  <2>2. QED
    BY <1>1, <2>1 DEF Request
<1>3. UNCHANGED <<shared, history>> /\ rq' = [rq EXCEPT ![r] = q]
  BY DEF ReceiveWithSession, Receive
<1>4. resp[r] \in Response /\ resp = [resp EXCEPT ![r] = resp[r]]
  BY SlotType DEF IInv
<1>5. CASE CookieIds(jar[b]) # <<>>
  <2>1. Goto(r, "lookup") /\ resp' = [resp EXCEPT ![r] = resp[r]]
    BY <1>4, <1>5 DEF ReceiveWithSession
  <2>2. QED
    BY <1>2, <1>3, <1>4, <1>5, <2>1, Arriving
<1>6. CASE CookieIds(jar[b]) = <<>> /\ h = "login"
  <2>1. Goto(r, "state") /\ resp' = [resp EXCEPT ![r] = resp[r]]
    BY <1>4, <1>6 DEF ReceiveWithSession
  <2>2. QED
    BY <1>2, <1>3, <1>4, <2>1, Arriving
<1>7. CASE CookieIds(jar[b]) = <<>> /\ h # "login"
  <2> DEFINE a == [resp[r] EXCEPT !.to = "login"]
  <2>1. Goto(r, "done") /\ resp' = [resp EXCEPT ![r] = a]
    BY <1>7 DEF ReceiveWithSession
  <2>2. a \in Response /\ a.to # "page"
    BY <1>4 DEF Response
  <2>3. QED
    BY <1>2, <1>3, <2>1, <2>2, Arriving
<1>8. QED
  BY <1>5, <1>6, <1>7

LEMMA ReceiveFormOK ==
    ASSUME IInv, NEW r \in Req, NEW b \in Browser, NEW h \in Handlers,
           NEW t \in forms[b] \cup {NotFound}, NEW c \in Cred \cup {NotFound},
           ReceiveForm(r, b, h, t, c)
    PROVE  IInv'
<1> DEFINE q == [Carried(b) EXCEPT !.h = h, !.form = t, !.cred = c]
<1>1. h \in HandlerKinds /\ t \in Token \cup {NotFound}
  BY DEF ReceiveForm, HandlerKinds, SessionHandlers, IInv, SharedOK, WorldOK
<1>2. q \in Request /\ q.b \in Browser /\ q.copy = NotFound
      /\ q.ids = CookieIds(jar[b])
  <2>1. /\ Carried(b) \in Request /\ Carried(b).b = b
        /\ Carried(b).copy = NotFound /\ Carried(b).ids = CookieIds(jar[b])
    BY CarriedType DEF IInv
  <2>2. QED
    BY ZenonT(60), <1>1, <2>1 DEF Request
<1>3. UNCHANGED <<shared, history>> /\ rq' = [rq EXCEPT ![r] = q]
  BY DEF ReceiveForm, Receive
<1>4. resp[r] \in Response /\ resp = [resp EXCEPT ![r] = resp[r]]
  BY SlotType DEF IInv
<1>5. CASE CookieIds(jar[b]) # <<>>
  <2>1. Goto(r, "lookup") /\ resp' = [resp EXCEPT ![r] = resp[r]]
    BY <1>4, <1>5 DEF ReceiveForm
  <2>2. QED
    BY <1>2, <1>3, <1>4, <1>5, <2>1, Arriving
<1>6. CASE CookieIds(jar[b]) = <<>>
  <2> DEFINE a == [resp[r] EXCEPT !.to = "login"]
  <2>1. Goto(r, "done") /\ resp' = [resp EXCEPT ![r] = a]
    BY <1>6 DEF ReceiveForm
  <2>2. a \in Response /\ a.to # "page"
    BY <1>4 DEF Response
  <2>3. QED
    BY <1>2, <1>3, <2>1, <2>2, Arriving
<1>7. QED
  BY <1>5, <1>6

LEMMA ReceiveCallbackOK ==
    ASSUME IInv, NEW r \in Req, NEW b \in Browser,
           NEW s \in Finished \cup {NotFound},
           NEW code \in Finished \cup {NotFound},
           ReceiveCallback(r, b, s, code)
    PROVE  IInv'
<1> DEFINE q == [Carried(b) EXCEPT !.h = "callback", !.st = s, !.code = code]
<1>1. q \in Request /\ q.b \in Browser /\ q.copy = NotFound
      /\ q.h = "callback" /\ q.st = s /\ q.code = code
  <2>1. Carried(b) \in Request /\ Carried(b).b = b /\ Carried(b).copy = NotFound
    BY CarriedType DEF IInv
  <2>2. /\ "callback" \in HandlerKinds
        /\ s \in State \cup {NotFound} /\ code \in State \cup {NotFound}
    BY DEF HandlerKinds, Finished
  <2>3. ASSUME NEW c \in Request
        PROVE  LET d == [c EXCEPT !.h = "callback", !.st = s, !.code = code]
               IN  /\ d \in Request /\ d.b = c.b /\ d.copy = c.copy
                   /\ d.h = "callback" /\ d.st = s /\ d.code = code
    BY ZenonT(60), <2>2 DEF Request
  <2>4. QED
    BY <2>1, <2>3
<1>2. UNCHANGED <<shared, history>> /\ rq' = [rq EXCEPT ![r] = q]
  BY DEF ReceiveCallback, Receive
<1>3. resp[r] \in Response /\ resp = [resp EXCEPT ![r] = resp[r]]
  BY SlotType DEF IInv
<1>4. CASE NotFound \in {s, code}
  <2> DEFINE a == [resp[r] EXCEPT !.to = "400"]
  <2>1. Goto(r, "done") /\ resp' = [resp EXCEPT ![r] = a]
    BY <1>4 DEF ReceiveCallback
  <2>2. a \in Response /\ a.to # "page"
    BY <1>3 DEF Response
  <2>3. QED
    BY <1>1, <1>2, <2>1, <2>2, Arriving
<1>5. CASE NotFound \notin {s, code}
  <2>1. Goto(r, "take") /\ resp' = [resp EXCEPT ![r] = resp[r]]
    BY <1>3, <1>5 DEF ReceiveCallback
  <2>2. s \in State /\ code \in State /\ idp[code] \in User
    BY <1>5 DEF IInv, SharedOK, WorldOK, Finished
  <2> HIDE DEF q
  <2>3. QED
    BY <1>1, <1>2, <1>3, <2>1, <2>2, Arriving
<1>6. QED
  BY <1>4, <1>5

LEMMA ReceiveLogoutOK ==
    ASSUME IInv, NEW r \in Req, NEW b \in Browser,
           ReceiveLogout(r, b) \/ ReceiveN8NLogout(r, b)
    PROVE  IInv'
<1>1. resp[r] \in Response /\ resp = [resp EXCEPT ![r] = resp[r]]
  BY SlotType DEF IInv
<1>2. UNCHANGED <<shared, history, resp>>
  BY DEF ReceiveLogout, ReceiveN8NLogout, Receive
<1>3. CASE ReceiveLogout(r, b)
  <2> DEFINE q == [Carried(b) EXCEPT !.h = "logout",
                     !.out = {jar[b].plain, jar[b].host} \ {NotFound}]
             p == IF CookieIds(jar[b]) = <<>> THEN "n8nlogout" ELSE "delete"
  <2>1. {jar[b].plain, jar[b].host} \ {NotFound} \in SUBSET Sid
    BY DEF IInv, SharedOK, WorldOK, Jar
  <2>2. q \in Request /\ q.b \in Browser /\ q.copy = NotFound
        /\ q.ids = CookieIds(jar[b])
    <3>1. /\ Carried(b) \in Request /\ Carried(b).b = b
          /\ Carried(b).copy = NotFound /\ Carried(b).ids = CookieIds(jar[b])
      BY CarriedType DEF IInv
    <3>2. "logout" \in HandlerKinds
      BY DEF HandlerKinds
    <3>3. QED
      BY ZenonT(60), <2>1, <3>1, <3>2 DEF Request
  <2>3. Goto(r, p) /\ rq' = [rq EXCEPT ![r] = q]
    BY <1>3 DEF ReceiveLogout
  <2>4. QED
    BY <1>1, <1>2, <2>2, <2>3, Arriving
<1>4. CASE ReceiveN8NLogout(r, b)
  <2> DEFINE q == [Carried(b) EXCEPT !.h = "n8nlogout"]
  <2>1. q \in Request /\ q.b \in Browser /\ q.copy = NotFound
    <3>1. Carried(b) \in Request /\ Carried(b).b = b /\ Carried(b).copy = NotFound
      BY CarriedType DEF IInv
    <3>2. "n8nlogout" \in HandlerKinds
      BY DEF HandlerKinds
    <3>3. QED
      BY <3>1, <3>2 DEF Request
  <2>2. Goto(r, "n8nlogout") /\ rq' = [rq EXCEPT ![r] = q]
    BY <1>4 DEF ReceiveN8NLogout
  <2>3. QED
    BY <1>1, <1>2, <2>1, <2>2, Arriving
<1>5. QED
  BY <1>3, <1>4

LEMMA ReceiveSignoutOK ==
    ASSUME IInv, NEW r \in Req, NEW b \in Browser, ReceiveSignout(r, b)
    PROVE  IInv'
<1> DEFINE q == [Blank EXCEPT !.b = b]
           a == [resp[r] EXCEPT !.to = "root", !.bridge = "clear"]
<1>1. q \in Request /\ q.b \in Browser /\ q.copy = NotFound
  BY EmptySeq DEF Blank, Request, HandlerKinds
<1>2. a \in Response /\ a.to # "page"
  BY ZenonT(60) DEF IInv, RequestsOK, Response
<1>3. /\ UNCHANGED <<shared, history>>
      /\ Goto(r, "done") /\ rq' = [rq EXCEPT ![r] = q]
      /\ resp' = [resp EXCEPT ![r] = a]
  BY DEF ReceiveSignout, Receive
<1>4. QED
  BY <1>1, <1>2, <1>3, Arriving
-----------------------------------------------------------------------------
(* The session lookup. *)

\* A handler that ends without a call ends properly.
LEMMA Responding ==
    ASSUME IInv, UNCHANGED <<shared, history>>,
           NEW r \in Req, pc[r] # "idle", NEW to, Respond(r, to),
           to \in {"idp", "login", "link", "relink", "return", "root",
                   "console", "me", "400", "401", "403", "429", "500",
                   "502", "503"}
    PROVE  IInv'
BY NothingShared, Answering DEF IInv

\* GetSession returns a session as it was created.
LEMMA LiveType ==
    ASSUME SharedOK, NEW id \in Sid, LiveSession(id) # NotFound
    PROVE  /\ LiveSession(id) \in Session
           /\ LiveSession(id).user = holder[id]
           /\ LiveSession(id).exp = deadline[id]
           /\ holder[id] # NotFound
<1>1. sess[id] # NotFound /\ LiveSession(id) = sess[id].val
  BY DEF LiveSession, StoredSession, ValueOf
<1>2. sess[id] \in SessionKey
  BY <1>1 DEF SharedOK, KeysTypeOK
<1>3. QED
  BY <1>1, <1>2 DEF SharedOK, StoreFaithful, SessionKey

LEMMA LookupFoundOK ==
    ASSUME IInv, NEW r \in Req, LookupFound(r)
    PROVE  IInv'
<1> DEFINE id == Head(rq[r].ids)
           v == LiveSession(id)
           q == [rq[r] EXCEPT !.id = id, !.copy = v, !.ids = <<>>]
           p == AfterSession(rq[r])
<1>1. /\ pc[r] = "lookup" /\ rq[r] \in Request
      /\ rq[r].b \in Browser /\ rq[r].ids # <<>> /\ resp[r] \in Response
  BY DEF LookupFound, At, IInv, RequestsOK, Ready
<1>2. id \in Sid
  BY <1>1, HeadTailProperties DEF Request
<1>3. /\ v \in Session /\ v # NotFound
      /\ v.user = holder[id] /\ v.exp = deadline[id] /\ holder[id] # NotFound
  <2>1. v # NotFound
    BY DEF LookupFound
  <2>2. QED
    BY <1>2, <2>1, LiveType DEF IInv
<1>4. /\ q \in Request /\ q.b \in Browser /\ q.id = id /\ q.copy = v
      /\ q.h = rq[r].h
  <2> HIDE DEF id, v
  <2>1. QED
    BY <1>1, <1>2, <1>3, EmptySeq DEF Request
<1>5. /\ p \in PCs \cap (HasSession \cup {"csrf"})
      /\ p \in {"vault", "csrf", "proxy", "current"}
      /\ p = "current" => q.h = "me"
      /\ p = "vault" => q.h # "linkget"
  BY <1>4 DEF AfterSession, PCs, HasSession
<1>6. /\ UNCHANGED <<shared, history>> /\ Goto(r, p)
      /\ rq' = [rq EXCEPT ![r] = q] /\ resp' = [resp EXCEPT ![r] = resp[r]]
  BY DEF LookupFound, IInv, RequestsOK
<1>7. SharedOK' /\ Stable /\ RequestsOK
  BY <1>6, NothingShared DEF IInv
<1>8. pc'[r] = p /\ rq'[r] = q /\ resp'[r] = resp[r]
      /\ holder' = holder /\ deadline' = deadline
  BY <1>6, <1>7 DEF Goto, RequestsOK, history
<1> HIDE DEF q, p, v, id
<1>9. Faithful(rq[r])'
  BY <1>2, <1>3, <1>4, <1>8 DEF Faithful
<1>10. Ready(pc[r], rq[r], resp[r])'
  BY <1>3, <1>4, <1>5, <1>8 DEF Ready, HasSession
<1>11. RequestsOK'
  BY <1>1, <1>4, <1>5, <1>6, <1>7, <1>9, <1>10, Move DEF Goto
<1>12. QED
  BY <1>7, <1>11 DEF IInv

LEMMA LookupMissingOK ==
    ASSUME IInv, NEW r \in Req, LookupMissing(r)
    PROVE  IInv'
<1> DEFINE id == Head(rq[r].ids)
           rest == Tail(rq[r].ids)
<1>1. /\ pc[r] = "lookup" /\ rq[r] \in Request
      /\ rq[r].b \in Browser /\ rq[r].ids # <<>> /\ resp[r] \in Response
  BY DEF LookupMissing, At, IInv, RequestsOK, Ready
<1>2. id \in Sid /\ rest \in Seq(Sid)
  BY <1>1, HeadTailProperties DEF Request
<1>3. /\ DelSession(id) \/ UNCHANGED <<sess, csrf>>
      /\ UNCHANGED <<sharedButStore, oidc, history>>
  BY DEF LookupMissing
<1>4. SharedOK' /\ Stable /\ RequestsOK
  BY <1>2, <1>3, Deleting DEF IInv
<1>5. holder' = holder /\ deadline' = deadline
  BY <1>3 DEF history
<1>6. Faithful(rq[r])
  BY DEF IInv, RequestsOK
<1>7. CASE rest # <<>>
  <2> DEFINE q == [rq[r] EXCEPT !.ids = rest]
  <2>1. /\ pc' = [pc EXCEPT ![r] = "lookup"] /\ rq' = [rq EXCEPT ![r] = q]
        /\ resp' = [resp EXCEPT ![r] = resp[r]]
    BY <1>1, <1>4, <1>7 DEF LookupMissing, RequestsOK
  <2>2. /\ q \in Request /\ q.b \in Browser /\ q.ids # <<>>
        /\ q.copy = rq[r].copy /\ q.id = rq[r].id
    BY <1>1, <1>2, <1>7 DEF Request
  <2>3. pc'[r] = "lookup" /\ rq'[r] = q
    BY <2>1, <1>4 DEF RequestsOK
  <2>4. Faithful(rq[r])'
    BY <1>5, <1>6, <2>2, <2>3 DEF Faithful
  <2>5. Ready(pc[r], rq[r], resp[r])'
    BY <2>2, <2>3 DEF Ready, HasSession
  <2>6. RequestsOK'
    BY <1>1, <1>4, <2>1, <2>2, <2>4, <2>5, Move DEF PCs
  <2>7. QED
    BY <1>4, <2>6 DEF IInv
<1>8. CASE rest = <<>> /\ rq[r].h = "login"
  <2> DEFINE q == [rq[r] EXCEPT !.ids = <<>>]
             a == [resp[r] EXCEPT !.sid = "clear"]
  <2>1. /\ pc' = [pc EXCEPT ![r] = "state"] /\ rq' = [rq EXCEPT ![r] = q]
        /\ resp' = [resp EXCEPT ![r] = a]
    BY <1>8 DEF LookupMissing, Serves, Goto
  <2>2. /\ q \in Request /\ q.b \in Browser
        /\ q.copy = rq[r].copy /\ q.id = rq[r].id
    BY <1>1, EmptySeq DEF Request
  <2>3. a \in Response
    BY <1>1 DEF Response
  <2>4. pc'[r] = "state" /\ rq'[r] = q
    BY <2>1, <1>4 DEF RequestsOK
  <2>5. Faithful(rq[r])'
    BY <1>5, <1>6, <2>2, <2>4 DEF Faithful
  <2>6. Ready(pc[r], rq[r], resp[r])'
    BY <2>2, <2>4 DEF Ready, HasSession
  <2>7. RequestsOK'
    BY <1>4, <2>1, <2>2, <2>3, <2>5, <2>6, Move DEF PCs
  <2>8. QED
    BY <1>4, <2>7 DEF IInv
<1>9. CASE rest = <<>> /\ rq[r].h # "login"
  <2> DEFINE a == [resp[r] EXCEPT !.sid = "clear", !.to = "login"]
  <2>1. Leave(r) /\ resp' = [resp EXCEPT ![r] = a]
    BY <1>9 DEF LookupMissing, Serves
  <2>2. a \in Response /\ a.to # "page"
    BY ZenonT(60), <1>1 DEF Response
  <2>3. RequestsOK'
    BY <1>1, <1>4, <2>1, <2>2, Ending
  <2>4. QED
    BY <1>4, <2>3 DEF IInv
<1>10. QED
  BY <1>7, <1>8, <1>9

LEMMA LookupFailsOK ==
    ASSUME IInv, NEW r \in Req, LookupFails(r)
    PROVE  IInv'
BY Responding DEF LookupFails, At

-----------------------------------------------------------------------------
(* The OIDC login. *)

\* Setting or removing a state, and drawing one, disturbs no session.
LEMMA StatesOnly ==
    ASSUME SharedOK, oidc' \in [State -> StateKey \cup {NotFound}],
           drawn' \subseteq State,
           UNCHANGED <<sharedButStore, sess, csrf, issued, origin, holder,
                       bearer, deadline, validated, loggedOut>>
    PROVE  SharedOK' /\ Stable
BY DEF SharedOK, sharedButStore, KeysTypeOK, WorldOK, HistoryOK, StoreFaithful,
       BornFromLogin, VaultHoldsAcceptedCredentials, Stable, external, browsers

LEMMA SetStateType ==
    ASSUME SharedOK, NEW s \in State, SetState(s)
    PROVE  oidc' \in [State -> StateKey \cup {NotFound}]
<1>1. now \in Nat /\ oidc \in [State -> StateKey \cup {NotFound}]
  BY DEF SharedOK, KeysTypeOK
<1>2. [val |-> s, ttl |-> now + OidcTTL] \in StateKey
  BY <1>1, TTLAssumption DEF StateKey
<1>3. QED
  BY <1>1, <1>2 DEF SetState

LEMMA StartLoginOK ==
    ASSUME IInv, NEW r \in Req, NEW s \in State,
           StartLogin(r, s) \/ StartLoginFails(r, s)
    PROVE  IInv'
<1>1. pc[r] # "idle" /\ resp[r] \in Response /\ RequestsOK
  BY DEF StartLogin, StartLoginFails, At, IInv, RequestsOK
<1>2. /\ SetState(s) \/ UNCHANGED oidc
      /\ drawn' = drawn \cup {s}
      /\ UNCHANGED <<sharedButStore, sess, csrf, issued, origin, holder,
                     bearer, deadline, validated, loggedOut>>
  BY DEF StartLogin, StartLoginFails
<1>3. oidc' \in [State -> StateKey \cup {NotFound}]
  BY <1>2, SetStateType DEF IInv, SharedOK, KeysTypeOK
<1>4. SharedOK' /\ Stable
  <2>1. drawn' \subseteq State
    BY <1>2 DEF IInv, SharedOK, HistoryOK
  <2>2. QED
    BY <1>2, <1>3, <2>1, StatesOnly DEF IInv
<1>5. CASE StartLogin(r, s)
  <2> DEFINE a == [resp[r] EXCEPT !.to = "idp", !.st = s]
  <2>1. Leave(r) /\ resp' = [resp EXCEPT ![r] = a]
    BY <1>5 DEF StartLogin
  <2>2. a \in Response /\ a.to # "page"
    BY <1>1 DEF Response
  <2>3. QED
    BY <1>1, <1>4, <2>1, <2>2, Ending DEF IInv
<1>6. CASE StartLoginFails(r, s)
  BY <1>1, <1>4, <1>6, Answering DEF StartLoginFails, IInv
<1>7. QED
  BY <1>5, <1>6

LEMMA RandomFailsOK ==
    ASSUME IInv, NEW r \in Req, RandomFails(r)
    PROVE  IInv'
BY Responding DEF RandomFails, At

LEMMA TakeStateOK ==
    ASSUME IInv, NEW r \in Req, TakeState(r) \/ TakeStateFails(r)
    PROVE  IInv'
<1>1. pc[r] = "take" /\ rq[r] \in Request /\ resp[r] \in Response
      /\ RequestsOK /\ Ready(pc[r], rq[r], resp[r]) /\ Faithful(rq[r])
  BY DEF TakeState, TakeStateFails, At, IInv, RequestsOK
<1>2. /\ GetDelState(rq[r].st) \/ UNCHANGED oidc
      /\ UNCHANGED <<sharedButStore, sess, csrf, history>>
  BY DEF TakeState, TakeStateFails
<1>3. oidc' \in [State -> StateKey \cup {NotFound}]
  BY <1>2 DEF GetDelState, IInv, SharedOK, KeysTypeOK
<1>4. SharedOK' /\ Stable
  <2>1. /\ drawn' \subseteq State
        /\ UNCHANGED <<issued, origin, holder, bearer, deadline, validated,
                       loggedOut>>
    BY <1>2 DEF IInv, SharedOK, HistoryOK, history
  <2>2. QED
    BY <1>2, <1>3, <2>1, StatesOnly DEF IInv
<1>5. CASE TakeState(r)
  <2>1. /\ pc' = [pc EXCEPT ![r] = "exchange"]
        /\ rq' = [rq EXCEPT ![r] = rq[r]] /\ resp' = [resp EXCEPT ![r] = resp[r]]
    BY <1>1, <1>5 DEF TakeState, Goto, RequestsOK
  <2>2. /\ pc'[r] = "exchange" /\ rq'[r] = rq[r] /\ resp'[r] = resp[r]
        /\ idp' = idp /\ holder' = holder /\ deadline' = deadline
    BY <1>1, <1>2, <2>1 DEF RequestsOK, sharedButStore, external, history
  <2>3. Ready(pc[r], rq[r], resp[r])' /\ Faithful(rq[r])'
    BY <1>1, <2>2 DEF Ready, Faithful, HasSession
  <2>4. RequestsOK'
    BY <1>1, <1>4, <2>1, <2>3, Move DEF PCs
  <2>5. QED
    BY <1>4, <2>4 DEF IInv
<1>6. CASE TakeStateFails(r)
  BY <1>1, <1>4, <1>6, Answering DEF TakeStateFails, IInv
<1>7. QED
  BY <1>5, <1>6

LEMMA ExchangeOK ==
    ASSUME IInv, NEW r \in Req, Exchange(r) \/ ExchangeFails(r)
    PROVE  IInv'
<1>1. CASE Exchange(r)
  <2>1. pc[r] = "exchange" /\ rq[r] \in Request /\ resp[r] \in Response
        /\ RequestsOK /\ Ready(pc[r], rq[r], resp[r]) /\ Faithful(rq[r])
    BY <1>1 DEF Exchange, At, IInv, RequestsOK
  <2>2. UNCHANGED <<shared, history>> /\ rq[r].code = rq[r].st
    BY <1>1 DEF Exchange, CodeMatches
  <2>3. SharedOK' /\ Stable
    BY <2>2, NothingShared DEF IInv
  <2>4. /\ pc' = [pc EXCEPT ![r] = "create"]
        /\ rq' = [rq EXCEPT ![r] = rq[r]] /\ resp' = [resp EXCEPT ![r] = resp[r]]
    BY <1>1, <2>1 DEF Exchange, Goto, RequestsOK
  <2>5. /\ pc'[r] = "create" /\ rq'[r] = rq[r] /\ resp'[r] = resp[r]
        /\ idp' = idp /\ holder' = holder /\ deadline' = deadline
    BY <2>1, <2>2, <2>4 DEF RequestsOK, shared, sharedButStore, external, history
  <2>6. Ready(pc[r], rq[r], resp[r])' /\ Faithful(rq[r])'
    BY <2>1, <2>2, <2>5 DEF Ready, Faithful, HasSession
  <2>7. RequestsOK'
    BY <2>1, <2>3, <2>4, <2>6, Move DEF PCs
  <2>8. QED
    BY <2>3, <2>7 DEF IInv
<1>2. CASE ExchangeFails(r)
  BY <1>2, Responding DEF ExchangeFails, At
<1>3. QED
  BY <1>1, <1>2

\* A session is born with the identity of its login and the deadline its
\* first record carries; no session that was there before is disturbed.
LEMMA Birth ==
    ASSUME SharedOK, NEW id \in Sid, holder[id] = NotFound, NEW s \in State,
           idp[s] \in User, SetSession(id, NewSession(idp[s])),
           NEW b \in Browser, bearer' = [bearer EXCEPT ![id] = b],
           origin' = [origin EXCEPT ![id] = s],
           holder' = [holder EXCEPT ![id] = NewSession(idp[s]).user],
           deadline' = [deadline EXCEPT ![id] = NewSession(idp[s]).exp],
           UNCHANGED <<sharedButStore, csrf, oidc, drawn, issued, validated,
                       loggedOut>>
    PROVE  SharedOK' /\ Stable
<1> DEFINE v == NewSession(idp[s])
<1>1. v \in Session /\ v.user = idp[s] /\ v.exp = now + SessionTTL
      /\ now + SessionTTL \in Nat
  BY TTLAssumption DEF SharedOK, KeysTypeOK, NewSession, Session
<1>2. KeysTypeOK'
  BY <1>1 DEF SharedOK, KeysTypeOK, SetSession, SessionKey, sharedButStore
<1>3. WorldOK'
  BY DEF SharedOK, WorldOK, sharedButStore, external, browsers
<1>4. HistoryOK'
  BY <1>1 DEF SharedOK, HistoryOK
<1>5. /\ holder'[id] = idp[s] /\ deadline'[id] = v.exp /\ origin'[id] = s
      /\ \A x \in Sid \ {id} : /\ holder'[x] = holder[x]
                               /\ deadline'[x] = deadline[x]
                               /\ origin'[x] = origin[x]
      /\ idp' = idp
  BY <1>1 DEF SharedOK, HistoryOK, sharedButStore, external
<1>6. Stable
  BY <1>5 DEF Stable
<1>7. BornFromLogin'
  BY <1>5 DEF SharedOK, BornFromLogin
<1>8. /\ sess'[id].val = v
      /\ \A x \in Sid \ {id} : sess'[x] = sess[x]
  BY DEF SharedOK, KeysTypeOK, SetSession
<1>9. StoreFaithful'
  <2>1. ASSUME NEW x \in Sid, sess'[x] # NotFound
        PROVE  /\ sess'[x].val.user = holder'[x]
               /\ sess'[x].val.exp = deadline'[x]
               /\ holder'[x] # NotFound
    <3>1. CASE x = id
      BY <1>1, <1>5, <1>8, <3>1, NotFoundAssumption
    <3>2. CASE x # id
      BY <1>5, <1>8, <2>1, <3>2 DEF SharedOK, StoreFaithful
    <3>3. QED
      BY <3>1, <3>2
  <2>2. QED
    BY <2>1 DEF StoreFaithful
<1>10. VaultHoldsAcceptedCredentials'
  BY VaultStays DEF SharedOK, sharedButStore
<1>11. QED
  BY <1>2, <1>3, <1>4, <1>6, <1>7, <1>9, <1>10 DEF SharedOK

LEMMA CreateSessionOK ==
    ASSUME IInv, NEW r \in Req, NEW id \in Sid, CreateSession(r, id)
    PROVE  IInv'
<1> DEFINE v == NewSession(idp[rq[r].code])
<1>1. pc[r] = "create" /\ rq[r] \in Request /\ resp[r] \in Response
      /\ RequestsOK /\ Ready(pc[r], rq[r], resp[r])
  BY DEF CreateSession, At, IInv, RequestsOK
<1>2. /\ rq[r].h = "callback" /\ rq[r].b \in Browser
      /\ rq[r].code \in State /\ rq[r].code = rq[r].st /\ idp[rq[r].code] \in User
  BY <1>1 DEF Ready
<1>3. /\ holder[id] = NotFound /\ SetSession(id, v)
      /\ origin' = [origin EXCEPT ![id] = rq[r].code]
      /\ holder' = [holder EXCEPT ![id] = v.user]
      /\ bearer' = [bearer EXCEPT ![id] = rq[r].b]
      /\ deadline' = [deadline EXCEPT ![id] = v.exp]
      /\ UNCHANGED <<sharedButStore, csrf, oidc, drawn, issued, validated,
                     loggedOut>>
  BY <1>2 DEF CreateSession
<1>4. SharedOK' /\ Stable
  BY <1>2, <1>3, Birth DEF IInv
<1>5. /\ v \in Session /\ v # NotFound /\ v.user \in User
      /\ holder'[id] = v.user /\ deadline'[id] = v.exp /\ v.user # NotFound
  <2>1. v \in Session
    BY <1>2, TTLAssumption DEF IInv, SharedOK, KeysTypeOK, NewSession, Session
  <2>2. QED
    BY <1>3, <2>1, NotFoundAssumption
       DEF IInv, SharedOK, HistoryOK, Session
<1>6. CASE Goto(r, "vault")
           /\ rq' = [rq EXCEPT ![r].id = id, ![r].copy = v]
           /\ resp' = [resp EXCEPT ![r].sid = id]
  <2> DEFINE q == [rq[r] EXCEPT !.id = id, !.copy = v]
             a == [resp[r] EXCEPT !.sid = id]
  <2>1. rq' = [rq EXCEPT ![r] = q] /\ resp' = [resp EXCEPT ![r] = a]
    BY <1>6
  <2> HIDE DEF v
  <2>2. /\ q \in Request /\ q.b \in Browser /\ q.h = "callback"
        /\ q.id = id /\ q.copy = v
    BY <1>1, <1>2, <1>5 DEF Request
  <2>3. a \in Response
    BY <1>1 DEF Response
  <2>4. pc'[r] = "vault" /\ rq'[r] = q
    BY <1>1, <1>6, <2>1 DEF Goto, RequestsOK
  <2> HIDE DEF q, a
  <2>5. Faithful(rq[r])'
    BY <1>5, <2>2, <2>4 DEF Faithful
  <2>6. Ready(pc[r], rq[r], resp[r])'
    BY <1>5, <2>2, <2>4 DEF Ready, HasSession
  <2>7. RequestsOK'
    BY <1>1, <1>4, <1>6, <2>1, <2>2, <2>3, <2>5, <2>6, Move DEF Goto, PCs
  <2>8. QED
    BY <1>4, <2>7 DEF IInv
<1>7. CASE Respond(r, "503")
  BY <1>1, <1>4, <1>7, Answering DEF IInv
<1>8. QED
  BY <1>6, <1>7 DEF CreateSession

LEMMA CreateSessionFailsOK ==
    ASSUME IInv, NEW r \in Req, CreateSessionFails(r)
    PROVE  IInv'
BY Responding DEF CreateSessionFails, At

LEMMA ReloadOK ==
    ASSUME IInv, NEW r \in Req, Reload(r)
    PROVE  IInv'
<1> DEFINE id == rq[r].id
           v == LiveSession(id)
           q == [rq[r] EXCEPT !.copy = v]
<1>1. pc[r] = "reload" /\ rq[r] \in Request /\ resp[r] \in Response
      /\ RequestsOK /\ Ready(pc[r], rq[r], resp[r]) /\ Faithful(rq[r])
  BY DEF Reload, At, IInv, RequestsOK
<1>2. id \in Sid /\ rq[r].b \in Browser /\ rq[r].cred \in Cred
  BY <1>1 DEF Ready, Faithful, HasSession
<1>3. /\ UNCHANGED <<shared, history>> /\ Goto(r, "save") /\ v # NotFound
      /\ rq' = [rq EXCEPT ![r] = q] /\ resp' = [resp EXCEPT ![r] = resp[r]]
  BY <1>1 DEF Reload, RequestsOK
<1>4. v \in Session /\ v.user = holder[id] /\ v.exp = deadline[id]
      /\ holder[id] # NotFound
  BY <1>2, <1>3, LiveType DEF IInv
<1>5. SharedOK' /\ Stable
  BY <1>3, NothingShared DEF IInv
<1>6. /\ pc'[r] = "save" /\ rq'[r] = q
      /\ holder' = holder /\ deadline' = deadline
  BY <1>1, <1>3 DEF Goto, RequestsOK, history
<1> HIDE DEF v
<1>7. /\ q \in Request /\ q.b \in Browser /\ q.cred \in Cred
      /\ q.id = id /\ q.copy = v
  BY <1>1, <1>2, <1>4 DEF Request
<1> HIDE DEF q, id
<1>8. Faithful(rq[r])'
  BY <1>2, <1>4, <1>6, <1>7 DEF Faithful
<1>9. Ready(pc[r], rq[r], resp[r])'
  BY <1>3, <1>6, <1>7 DEF Ready, HasSession
<1>10. RequestsOK'
  BY <1>1, <1>3, <1>5, <1>7, <1>8, <1>9, Move DEF Goto, PCs
<1>11. QED
  BY <1>5, <1>10 DEF IInv

LEMMA ReloadFailsOK ==
    ASSUME IInv, NEW r \in Req, ReloadFails(r)
    PROVE  IInv'
<1>1. pc[r] = "reload" /\ RequestsOK
      /\ Ready(pc[r], rq[r], resp[r]) /\ Faithful(rq[r])
  BY DEF ReloadFails, At, IInv, RequestsOK
<1>2. rq[r].id \in Sid
  BY <1>1 DEF Ready, Faithful, HasSession
<1>3. /\ DelSession(rq[r].id) \/ UNCHANGED <<sess, csrf>>
      /\ UNCHANGED <<sharedButStore, oidc, history>> /\ Respond(r, "503")
  BY DEF ReloadFails
<1>4. SharedOK' /\ Stable
  BY <1>2, <1>3, Deleting DEF IInv
<1>5. QED
  BY <1>1, <1>3, <1>4, Answering DEF IInv
-----------------------------------------------------------------------------
(* The stored credential, n8n, and the link page. *)

\* A request that goes on to another step with the session it found.
LEMMA Continuing ==
    ASSUME IInv, SharedOK', Stable, UNCHANGED <<holder, deadline>>,
           NEW r \in Req, pc[r] \in HasSession,
           NEW p \in HasSession, NEW c \in Cred \cup {NotFound},
           NEW page \in Token \cup {NotFound},
           p = "current" => rq[r].h = "me",
           p = "delcred" => rq[r].h = "linkdelete",
           p \in {"n8nlogin", "reload", "put"} => c \in Cred,
           p = "put" => <<UserOf(r), c>> \in validated',
           p = "save" /\ rq[r].h # "linkdelete" => c \in Cred,
           p = "vault" /\ rq[r].h = "linkget" => page \in Token,
           Goto(r, p),
           rq' = [rq EXCEPT ![r].cred = c],
           resp' = [resp EXCEPT ![r].page = page]
    PROVE  IInv'
<1> DEFINE q == [rq[r] EXCEPT !.cred = c]
           a == [resp[r] EXCEPT !.page = page]
<1>1. /\ rq[r] \in Request /\ resp[r] \in Response /\ RequestsOK
      /\ Ready(pc[r], rq[r], resp[r]) /\ Faithful(rq[r])
  BY DEF IInv, RequestsOK
<1>2. rq[r].copy # NotFound /\ rq[r].b \in Browser
  BY <1>1 DEF Ready, HasSession
<1>3. rq' = [rq EXCEPT ![r] = q] /\ resp' = [resp EXCEPT ![r] = a]
  OBVIOUS
<1>4. /\ q \in Request /\ q.h = rq[r].h /\ q.b = rq[r].b /\ q.id = rq[r].id
      /\ q.copy = rq[r].copy /\ q.cred = c
  BY ZenonT(60), <1>1 DEF Request
<1>5. a \in Response /\ a.page = page
  BY <1>1 DEF Response
<1>6. pc'[r] = p /\ rq'[r] = q /\ resp'[r] = a
  BY <1>1, <1>3 DEF Goto, RequestsOK
<1> HIDE DEF q, a
<1>7. Faithful(rq[r])'
  BY <1>1, <1>4, <1>6 DEF Faithful
<1>8. Ready(pc[r], rq[r], resp[r])'
  BY <1>2, <1>4, <1>5, <1>6 DEF Ready, HasSession, UserOf
<1>9. p \in PCs
  BY DEF HasSession, PCs
<1>10. RequestsOK'
  BY <1>1, <1>3, <1>4, <1>5, <1>7, <1>8, <1>9, Move DEF Goto
<1>11. QED
  BY <1>10 DEF IInv

\* What is known of a request that works on a session.
LEMMA Working ==
    ASSUME IInv, NEW r \in Req, pc[r] \in HasSession
    PROVE  /\ rq[r] \in Request /\ resp[r] \in Response
           /\ rq[r].id \in Sid /\ rq[r].copy \in Session
           /\ rq[r].copy.user = holder[rq[r].id]
           /\ rq[r].copy.exp = deadline[rq[r].id]
           /\ holder[rq[r].id] # NotFound
           /\ UserOf(r) \in User
           /\ rq[r].cred \in Cred \cup {NotFound}
           /\ resp[r].page \in Token \cup {NotFound}
           /\ rq = [rq EXCEPT ![r].cred = rq[r].cred]
           /\ resp = [resp EXCEPT ![r].page = resp[r].page]
<1>1. /\ rq[r] \in Request /\ resp[r] \in Response
      /\ Ready(pc[r], rq[r], resp[r]) /\ Faithful(rq[r])
      /\ rq \in [Req -> Request] /\ resp \in [Req -> Response]
  BY DEF IInv, RequestsOK
<1>2. rq[r].copy # NotFound
  BY <1>1 DEF Ready
<1>3. /\ rq[r].id \in Sid /\ rq[r].copy.user = holder[rq[r].id]
      /\ rq[r].copy.exp = deadline[rq[r].id] /\ holder[rq[r].id] # NotFound
  BY <1>1, <1>2 DEF Faithful
<1>4. /\ rq[r].copy \in Session /\ rq[r].cred \in Cred \cup {NotFound}
      /\ rq[r] = [rq[r] EXCEPT !.cred = rq[r].cred]
  BY <1>1, <1>2 DEF Request
<1>5. /\ resp[r].page \in Token \cup {NotFound}
      /\ resp[r] = [resp[r] EXCEPT !.page = resp[r].page]
  BY <1>1 DEF Response
<1>6. UserOf(r) \in User
  BY <1>4 DEF UserOf, Session
<1>7. /\ rq = [rq EXCEPT ![r].cred = rq[r].cred]
      /\ resp = [resp EXCEPT ![r].page = resp[r].page]
  BY <1>1, <1>4, <1>5
<1>8. QED
  BY <1>1, <1>3, <1>4, <1>5, <1>6, <1>7

LEMMA GetCredentialOK ==
    ASSUME IInv, NEW r \in Req, GetCredential(r)
    PROVE  IInv'
<1> DEFINE c == vault[UserOf(r)]
<1>1. pc[r] = "vault" /\ pc[r] \in HasSession
  BY DEF GetCredential, At, HasSession
<1>2. UNCHANGED <<shared, history>>
  BY DEF GetCredential
<1>3. SharedOK' /\ Stable
  BY <1>2, NothingShared DEF IInv
<1>4. /\ UserOf(r) \in User /\ resp[r] \in Response
      /\ resp[r].page \in Token \cup {NotFound}
      /\ resp = [resp EXCEPT ![r].page = resp[r].page]
  BY <1>1, Working
<1>5. CASE rq[r].h = "linkget" /\ Respond(r, "page")
  <2> DEFINE a == [resp[r] EXCEPT !.to = "page"]
  <2>1. Leave(r) /\ resp' = [resp EXCEPT ![r] = a]
    BY <1>5 DEF Respond
  <2>2. resp[r].page \in Token
    BY <1>1, <1>5 DEF IInv, RequestsOK, Ready
  <2>3. a \in Response /\ a.page \in Token
    BY <1>4, <2>2 DEF Response
  <2>4. QED
    BY <1>1, <1>3, <2>1, <2>3, Ending DEF IInv
<1>6. CASE Respond(r, "link")
  BY <1>1, <1>2, <1>6, Responding
<1>7. CASE /\ rq[r].h # "linkget" /\ c # NotFound
           /\ rq' = [rq EXCEPT ![r].cred = c]
           /\ Goto(r, "n8nlogin") /\ UNCHANGED resp
  <2>1. c \in Cred
    BY <1>4, <1>7 DEF IInv, SharedOK, WorldOK
  <2>2. "n8nlogin" \in HasSession /\ UNCHANGED <<holder, deadline>>
    BY <1>2 DEF HasSession, history
  <2> HIDE DEF c
  <2>3. QED
    BY <1>1, <1>3, <1>4, <1>7, <2>1, <2>2, Continuing
<1>8. QED
  BY <1>5, <1>6, <1>7 DEF GetCredential, Serves

LEMMA GetCredentialFailsOK ==
    ASSUME IInv, NEW r \in Req, GetCredentialFails(r)
    PROVE  IInv'
BY Responding DEF GetCredentialFails, At

\* Recording what n8n accepted disturbs nothing else.
LEMMA Validating ==
    ASSUME SharedOK, validated' \subseteq User \X Cred,
           validated \subseteq validated',
           UNCHANGED <<shared, drawn, issued, origin, holder, bearer,
                       deadline, loggedOut>>
    PROVE  SharedOK' /\ Stable
BY DEF SharedOK, shared, sharedButStore, KeysTypeOK, WorldOK, HistoryOK,
       StoreFaithful, BornFromLogin,
       VaultHoldsAcceptedCredentials, Stable, keys, external, browsers

LEMMA N8NLoginOK ==
    ASSUME IInv, NEW r \in Req, N8NLogin(r)
    PROVE  IInv'
<1>1. pc[r] = "n8nlogin" /\ pc[r] \in HasSession
  BY DEF N8NLogin, At, HasSession
<1>2. /\ UserOf(r) \in User /\ rq[r].cred \in Cred \cup {NotFound}
      /\ resp[r].page \in Token \cup {NotFound}
      /\ rq = [rq EXCEPT ![r].cred = rq[r].cred]
      /\ resp = [resp EXCEPT ![r].page = resp[r].page]
  BY <1>1, Working
<1>3. rq[r].cred \in Cred
  BY <1>1 DEF IInv, RequestsOK, Ready
<1>4. /\ UNCHANGED <<shared, drawn, issued, origin, holder, bearer, deadline,
                     loggedOut>>
      /\ \/ validated' = validated \cup {<<UserOf(r), rq[r].cred>>}
         \/ UNCHANGED validated
  BY DEF N8NLogin
<1>5. SharedOK' /\ Stable
  <2>1. validated' \subseteq User \X Cred
    BY <1>2, <1>3, <1>4 DEF IInv, SharedOK, HistoryOK
  <2>2. validated \subseteq validated'
    BY <1>4
  <2>3. QED
    BY <1>4, <2>1, <2>2, Validating DEF IInv
<1>6. CASE /\ Goto(r, "put") /\ UNCHANGED <<rq, resp>>
           /\ validated' = validated \cup {<<UserOf(r), rq[r].cred>>}
  <2>1. "put" \in HasSession
    BY DEF HasSession
  <2>2. <<UserOf(r), rq[r].cred>> \in validated'
    BY <1>6
  <2>3. UNCHANGED <<holder, deadline>>
    BY <1>4
  <2>4. QED
    BY <1>1, <1>2, <1>3, <1>5, <1>6, <2>1, <2>2, <2>3, Continuing
<1>7. CASE Goto(r, "reload") /\ UNCHANGED <<rq, resp>>
  <2>1. "reload" \in HasSession
    BY DEF HasSession
  <2>2. QED
    BY <1>1, <1>2, <1>3, <1>4, <1>5, <1>7, <2>1, Continuing
<1>8. CASE \E to \in {"me", "return"} : RespondLoggedIn(r, to)
  BY <1>1, <1>3, <1>5, <1>8, AnsweringLoggedIn DEF IInv
<1>9. QED
  BY <1>6, <1>7, <1>8 DEF N8NLogin

LEMMA N8NLoginFailsOK ==
    ASSUME IInv, NEW r \in Req, NEW cause \in {"refused", "limited", "down"},
           N8NLoginFails(r, cause)
    PROVE  IInv'
<1> DEFINE to == IF cause = "limited" THEN "429"
                 ELSE IF Serves(r, {"linkpost"}) THEN "400"
                 ELSE "relink"
           a == [resp[r] EXCEPT !.cause = cause, !.to = to]
<1>1. pc[r] # "idle" /\ resp[r] \in Response /\ RequestsOK
  BY DEF N8NLoginFails, At, IInv, RequestsOK
<1>2. UNCHANGED <<shared, history>>
      /\ Leave(r) /\ resp' = [resp EXCEPT ![r] = a]
  BY DEF N8NLoginFails, RespondLoginError
<1>3. to \in {"429", "400", "relink"}
  OBVIOUS
<1> HIDE DEF to
<1>4. a \in Response /\ a.to # "page"
  BY ZenonT(60), <1>1, <1>3 DEF Response
<1>5. QED
  BY <1>1, <1>2, <1>4, Ending, NothingShared DEF IInv

\* Saving a faithful copy keeps the store faithful.
LEMMA Saving ==
    ASSUME IInv, NEW r \in Req, pc[r] \in HasSession, NEW linked \in BOOLEAN,
           \/ SetSession(rq[r].id, [rq[r].copy EXCEPT !.linked = linked])
           \/ UNCHANGED sess,
           UNCHANGED <<sharedButStore, csrf, oidc, history>>
    PROVE  SharedOK' /\ Stable
<1> DEFINE id == rq[r].id
           v == [rq[r].copy EXCEPT !.linked = linked]
<1>1. /\ id \in Sid /\ rq[r].copy \in Session
      /\ rq[r].copy.user = holder[id] /\ rq[r].copy.exp = deadline[id]
      /\ holder[id] # NotFound
  BY Working
<1>2. v \in Session /\ v.user = holder[id] /\ v.exp = deadline[id]
  BY <1>1 DEF Session
<1>3. now + SessionTTL \in Nat /\ sess \in [Sid -> SessionKey \cup {NotFound}]
  BY TTLAssumption DEF IInv, SharedOK, KeysTypeOK
<1> DEFINE key == [val |-> v, ttl |-> now + SessionTTL]
<1>4. sess' = [sess EXCEPT ![id] = key] \/ sess' = sess
  BY DEF SetSession
<1> HIDE DEF v, id
<1>5. key \in SessionKey /\ key.val = v
  BY <1>2, <1>3 DEF SessionKey
<1> HIDE DEF key
<1>6. KeysTypeOK'
  BY <1>3, <1>4, <1>5 DEF IInv, SharedOK, KeysTypeOK, sharedButStore
<1>7. WorldOK' /\ HistoryOK' /\ BornFromLogin' /\ Stable
  BY DEF IInv, SharedOK, WorldOK, HistoryOK, BornFromLogin, Stable,
         sharedButStore, history, external, browsers
<1>8. holder' = holder /\ deadline' = deadline
  BY DEF history
<1>9. StoreFaithful'
  BY <1>1, <1>2, <1>3, <1>4, <1>5, <1>8 DEF IInv, SharedOK, StoreFaithful
<1>10. VaultHoldsAcceptedCredentials'
  BY VaultStays DEF IInv, SharedOK, sharedButStore, history
<1>11. QED
  BY <1>6, <1>7, <1>9, <1>10 DEF SharedOK

LEMMA SaveSessionOK ==
    ASSUME IInv, NEW r \in Req, SaveSession(r) \/ SaveSessionFails(r)
    PROVE  IInv'
<1> DEFINE linked == ~Serves(r, {"linkdelete"})
<1>1. pc[r] = "save" /\ pc[r] \in HasSession
  BY DEF SaveSession, SaveSessionFails, At, HasSession
<1>2. /\ \/ SetSession(rq[r].id, [rq[r].copy EXCEPT !.linked = linked])
         \/ UNCHANGED sess
      /\ UNCHANGED <<sharedButStore, csrf, oidc, history>>
  BY DEF SaveSession, SaveSessionFails
<1>3. linked \in BOOLEAN
  BY DEF Serves
<1>4. SharedOK' /\ Stable
  <2> HIDE DEF linked
  <2>1. QED
    BY <1>1, <1>2, <1>3, Saving
<1>5. rq[r].h # "linkdelete" => rq[r].cred \in Cred
  BY <1>1 DEF IInv, RequestsOK, Ready
<1>6. CASE rq[r].h # "linkdelete"
           /\ \E to \in {"return", "root"} : RespondLoggedIn(r, to)
  BY <1>1, <1>4, <1>5, <1>6, AnsweringLoggedIn DEF IInv
<1>7. CASE Respond(r, "link") \/ Respond(r, "503")
  BY <1>1, <1>4, <1>7, Answering DEF IInv
<1>8. QED
  BY <1>6, <1>7 DEF SaveSession, SaveSessionFails, Serves

-----------------------------------------------------------------------------
(* CSRF tokens and the credential forms. *)

LEMMA LinkPageTokenOK ==
    ASSUME IInv, NEW r \in Req, LinkPageToken(r)
    PROVE  IInv'
<1> DEFINE t == StoredToken(rq[r].id)
<1>1. pc[r] = "csrf" /\ pc[r] \in HasSession
  BY DEF LinkPageToken, At, HasSession
<1>2. UNCHANGED <<shared, history, rq>>
  BY DEF LinkPageToken
<1>3. SharedOK' /\ Stable /\ UNCHANGED <<holder, deadline>>
  BY <1>2, NothingShared DEF IInv, history
<1>4. /\ rq[r].id \in Sid /\ rq[r].cred \in Cred \cup {NotFound}
      /\ resp[r].page \in Token \cup {NotFound}
      /\ rq = [rq EXCEPT ![r].cred = rq[r].cred]
      /\ resp = [resp EXCEPT ![r].page = resp[r].page]
  BY <1>1, Working
<1>5. t \in Token \cup {NotFound}
  BY <1>4 DEF IInv, SharedOK, KeysTypeOK, StoredToken, ValueOf, TokenKey
<1>6. rq[r].h = "linkget" /\ "vault" \in HasSession /\ "setcsrf" \in HasSession
  BY DEF LinkPageToken, Serves, HasSession
<1>7. CASE t = NotFound
  <2>1. Goto(r, "setcsrf") /\ UNCHANGED resp
    BY <1>7 DEF LinkPageToken
  <2>2. QED
    BY <1>1, <1>2, <1>3, <1>4, <1>6, <2>1, Continuing
<1>8. CASE t # NotFound
  <2>1. Goto(r, "vault") /\ resp' = [resp EXCEPT ![r].page = t]
    BY <1>8 DEF LinkPageToken
  <2> HIDE DEF t
  <2>2. t \in Token
    BY <1>5, <1>8
  <2>3. QED
    BY <1>1, <1>2, <1>3, <1>4, <1>6, <2>1, <2>2, Continuing
<1>9. QED
  BY <1>7, <1>8

LEMMA SetCSRFOK ==
    ASSUME IInv, NEW r \in Req, NEW t \in Token, SetCSRF(r, t)
    PROVE  IInv'
<1>1. pc[r] = "setcsrf" /\ pc[r] \in HasSession
  BY DEF SetCSRF, At, HasSession
<1>2. /\ rq[r].id \in Sid /\ rq[r].cred \in Cred \cup {NotFound}
      /\ rq = [rq EXCEPT ![r].cred = rq[r].cred]
  BY <1>1, Working
<1>3. /\ SetToken(rq[r].id, t) \/ UNCHANGED csrf
      /\ issued' = [issued EXCEPT ![rq[r].id] = @ \cup {t}]
      /\ UNCHANGED <<sharedButStore, sess, oidc, drawn, origin, holder,
                     bearer, deadline, validated, loggedOut>>
  BY DEF SetCSRF
<1>4. KeysTypeOK'
  <2>1. [val |-> t, ttl |-> now + SessionTTL] \in TokenKey
    BY TTLAssumption DEF IInv, SharedOK, KeysTypeOK, TokenKey
  <2>2. QED
    BY <1>3, <2>1 DEF IInv, SharedOK, KeysTypeOK, SetToken, sharedButStore
<1>5. WorldOK' /\ HistoryOK' /\ StoreFaithful' /\ BornFromLogin' /\ Stable
  BY <1>2, <1>3 DEF IInv, SharedOK, WorldOK, HistoryOK, StoreFaithful,
     BornFromLogin, Stable, sharedButStore, external, browsers
<1>6. SharedOK'
  <2>1. VaultHoldsAcceptedCredentials'
    BY <1>3, VaultStays DEF IInv, SharedOK, sharedButStore
  <2>2. QED
    BY <1>4, <1>5, <2>1 DEF SharedOK
<1>7. CASE Goto(r, "vault") /\ resp' = [resp EXCEPT ![r].page = t]
           /\ UNCHANGED rq
  <2>1. "vault" \in HasSession
    BY DEF HasSession
  <2>2. QED
    BY <1>1, <1>2, <1>3, <1>5, <1>6, <1>7, <2>1, Continuing
<1>8. CASE Respond(r, "503")
  BY <1>1, <1>5, <1>6, <1>8, Answering DEF IInv
<1>9. QED
  BY <1>7, <1>8 DEF SetCSRF

LEMMA LinkPageFailsOK ==
    ASSUME IInv, NEW r \in Req, LinkPageFails(r)
    PROVE  IInv'
BY Responding DEF LinkPageFails, At

LEMMA ValidateCSRFOK ==
    ASSUME IInv, NEW r \in Req, ValidateCSRF(r)
    PROVE  IInv'
<1>1. pc[r] = "csrf" /\ pc[r] \in HasSession
  BY DEF ValidateCSRF, At, HasSession
<1>2. UNCHANGED <<shared, history>>
  BY DEF ValidateCSRF
<1>3. SharedOK' /\ Stable /\ UNCHANGED <<holder, deadline>>
  BY <1>2, NothingShared DEF IInv, history
<1>4. /\ rq[r].cred \in Cred \cup {NotFound}
      /\ resp[r].page \in Token \cup {NotFound}
      /\ rq = [rq EXCEPT ![r].cred = rq[r].cred]
      /\ resp = [resp EXCEPT ![r].page = resp[r].page]
  BY <1>1, Working
<1>5. CASE /\ Serves(r, {"linkdelete"}) \/ rq[r].cred # NotFound
           /\ Goto(r, AfterForm(rq[r])) /\ UNCHANGED <<rq, resp>>
  <2>1. CASE rq[r].h = "linkdelete"
    <3>1. Goto(r, "delcred") /\ "delcred" \in HasSession
      BY <1>5, <2>1 DEF AfterForm, HasSession
    <3>2. QED
      BY <1>1, <1>3, <1>4, <1>5, <2>1, <3>1, Continuing
  <2>2. CASE rq[r].h # "linkdelete"
    <3>1. Goto(r, "n8nlogin") /\ "n8nlogin" \in HasSession
      BY <1>5, <2>2 DEF AfterForm, HasSession
    <3>2. rq[r].cred \in Cred
      BY <1>4, <1>5, <2>2 DEF Serves
    <3>3. QED
      BY <1>1, <1>3, <1>4, <1>5, <3>1, <3>2, Continuing
  <2>3. QED
    BY <2>1, <2>2
<1>6. CASE Respond(r, "400")
  BY <1>1, <1>2, <1>6, Responding
<1>7. QED
  BY <1>5, <1>6 DEF ValidateCSRF

LEMMA ValidateCSRFFailsOK ==
    ASSUME IInv, NEW r \in Req, ValidateCSRFFails(r)
    PROVE  IInv'
BY Responding DEF ValidateCSRFFails, At

LEMMA UpdateCredentialOK ==
    ASSUME IInv, NEW r \in Req, UpdateCredential(r) \/ UpdateCredentialFails(r)
    PROVE  IInv'
<1>1. pc[r] \in {"put", "delcred"} /\ pc[r] \in HasSession
  BY DEF UpdateCredential, UpdateCredentialFails, HasSession
<1>2. /\ UserOf(r) \in User /\ rq[r].cred \in Cred \cup {NotFound}
      /\ resp[r].page \in Token \cup {NotFound}
      /\ rq = [rq EXCEPT ![r].cred = rq[r].cred]
      /\ resp = [resp EXCEPT ![r].page = resp[r].page]
  BY <1>1, Working
<1>3. /\ WriteVault(r) \/ UNCHANGED vault
      /\ UNCHANGED <<sharedButVault, history>>
  BY DEF UpdateCredential, UpdateCredentialFails
<1>4. vault' \in [User -> Cred \cup {NotFound}]
  BY <1>2, <1>3 DEF WriteVault, IInv, SharedOK, WorldOK
<1>5. SharedOK' /\ Stable /\ UNCHANGED <<holder, deadline>>
  <2>1. KeysTypeOK' /\ WorldOK' /\ HistoryOK' /\ StoreFaithful'
        /\ BornFromLogin' /\ Stable /\ UNCHANGED <<holder, deadline>>
    BY <1>3, <1>4 DEF IInv, SharedOK, KeysTypeOK, WorldOK, HistoryOK,
       StoreFaithful, BornFromLogin, Stable, sharedButVault, history, keys,
       external, browsers
  <2>2. pc[r] = "put" => <<UserOf(r), rq[r].cred>> \in validated
    BY DEF IInv, RequestsOK, Ready, UserOf
  <2>3. ASSUME NEW u \in User, vault'[u] # NotFound
        PROVE  <<u, vault'[u]>> \in validated
    <3>1. CASE vault'[u] = vault[u]
      BY <2>3, <3>1 DEF IInv, SharedOK, VaultHoldsAcceptedCredentials
    <3>2. CASE vault'[u] # vault[u]
      <4>1. u = UserOf(r) /\ pc[r] = "put" /\ vault'[u] = rq[r].cred
        BY <1>2, <1>3, <2>3, <3>2 DEF WriteVault, At, IInv, SharedOK, WorldOK
      <4>2. QED
        BY <2>2, <4>1
    <3>3. QED
      BY <3>1, <3>2
  <2>4. VaultHoldsAcceptedCredentials'
    BY <1>3, <2>3 DEF VaultHoldsAcceptedCredentials, history
  <2>5. QED
    BY <2>1, <2>4 DEF SharedOK
<1>6. CASE Goto(r, "save") /\ UNCHANGED <<rq, resp>>
  <2>1. rq[r].h # "linkdelete" => rq[r].cred \in Cred
    BY <1>1 DEF IInv, RequestsOK, Ready
  <2>2. "save" \in HasSession
    BY DEF HasSession
  <2>3. QED
    BY <1>1, <1>2, <1>5, <1>6, <2>1, <2>2, Continuing
<1>7. CASE Respond(r, "503")
  BY <1>1, <1>5, <1>7, Answering DEF IInv
<1>8. QED
  BY <1>6, <1>7 DEF UpdateCredential, UpdateCredentialFails
-----------------------------------------------------------------------------
(* Logout, GET /rest/login and the console. *)

LEMMA DeleteSessionOK ==
    ASSUME IInv, NEW r \in Req, DeleteSession(r)
    PROVE  IInv'
<1> DEFINE id == Head(rq[r].ids)
           rest == Tail(rq[r].ids)
           p == IF rest = <<>> THEN "n8nlogout" ELSE "delete"
<1>1. /\ pc[r] = "delete" /\ rq[r] \in Request /\ rq[r].b \in Browser
      /\ rq[r].ids # <<>> /\ resp[r] \in Response /\ RequestsOK
      /\ Faithful(rq[r])
  BY DEF DeleteSession, At, IInv, RequestsOK, Ready
<1>2. id \in Sid /\ rest \in Seq(Sid)
  BY <1>1, HeadTailProperties DEF Request
<1>3. /\ DelSession(id) \/ UNCHANGED <<sess, csrf>>
      /\ UNCHANGED <<sharedButStore, oidc, history>>
      /\ Goto(r, p) /\ resp' = [resp EXCEPT ![r] = resp[r]]
  BY <1>1 DEF DeleteSession, RequestsOK
<1>4. SharedOK' /\ Stable /\ UNCHANGED <<holder, deadline>>
  BY <1>2, <1>3, Deleting DEF IInv, history
<1>5. PICK out \in SUBSET Sid :
        rq' = [rq EXCEPT ![r] = [rq[r] EXCEPT !.ids = rest, !.out = out]]
  <2>1. rq[r].out \in SUBSET Sid /\ rq[r].out \ {id} \in SUBSET Sid
    BY <1>1 DEF Request
  <2>2. rq[r] = [rq[r] EXCEPT !.out = rq[r].out]
    BY <1>1 DEF Request
  <2>3. CASE rq' = [rq EXCEPT ![r].ids = rest]
    <3>1. [rq[r] EXCEPT !.ids = rest]
            = [rq[r] EXCEPT !.ids = rest, !.out = rq[r].out]
      BY <1>1, <1>2 DEF Request
    <3>2. QED
      BY <2>1, <2>3, <3>1
  <2>4. CASE rq' = [rq EXCEPT ![r].ids = rest, ![r].out = @ \ {id}]
    <3>1. rq' = [rq EXCEPT ![r] = [rq[r] EXCEPT !.ids = rest,
                                                !.out = rq[r].out \ {id}]]
      BY <1>1, <2>4 DEF RequestsOK, Request
    <3>2. QED
      BY <2>1, <3>1
  <2>5. QED
    BY <2>3, <2>4 DEF DeleteSession
<1> DEFINE q == [rq[r] EXCEPT !.ids = rest, !.out = out]
<1> HIDE DEF rest
<1>6. /\ q \in Request /\ q.b \in Browser /\ q.ids = rest
      /\ q.copy = rq[r].copy /\ q.id = rq[r].id
  BY <1>1, <1>2 DEF Request
<1>7. pc'[r] = p /\ rq'[r] = q /\ p \in {"n8nlogout", "delete"}
  BY <1>1, <1>3, <1>5 DEF Goto, RequestsOK
<1> HIDE DEF q
<1>8. Faithful(rq[r])'
  BY <1>1, <1>4, <1>6, <1>7 DEF Faithful
<1>9. Ready(pc[r], rq[r], resp[r])'
  BY <1>6, <1>7 DEF Ready, HasSession
<1>10. p \in PCs
  BY DEF PCs
<1>11. RequestsOK'
  BY <1>1, <1>3, <1>4, <1>5, <1>6, <1>8, <1>9, <1>10, Move DEF Goto, q
<1>12. QED
  BY <1>4, <1>11 DEF IInv

LEMMA N8NLogoutOK ==
    ASSUME IInv, NEW r \in Req, N8NLogout(r)
    PROVE  IInv'
<1>1. pc[r] # "idle" /\ resp[r] \in Response /\ RequestsOK
      /\ rq[r] \in Request
  BY DEF N8NLogout, At, IInv, RequestsOK
<1>2. PICK cookie \in {"clear", "keep"} :
        resp' = [resp EXCEPT ![r].to = "root", ![r].bridge = "clear",
                   ![r].n8n = cookie,
                   ![r].sid = IF Serves(r, {"logout"}) THEN "clear" ELSE @]
  BY DEF N8NLogout, LogoutAnswers
<1> DEFINE sid == IF Serves(r, {"logout"}) THEN "clear" ELSE resp[r].sid
           a == [resp[r] EXCEPT !.to = "root", !.bridge = "clear",
                                !.n8n = cookie, !.sid = sid]
<1>3. resp' = [resp EXCEPT ![r] = a]
  BY <1>1, <1>2 DEF RequestsOK, Response
<1>4. a \in Response /\ a.to # "page"
  <2>1. sid \in Sid \cup {"keep", "clear"}
    BY <1>1 DEF Response
  <2> HIDE DEF sid
  <2>2. QED
    BY ZenonT(60), <1>1, <2>1 DEF Response
<1>5. /\ Leave(r) /\ loggedOut' = loggedOut \cup rq[r].out
      /\ UNCHANGED <<shared, drawn, issued, origin, holder, bearer, deadline,
                     validated>>
  BY DEF N8NLogout
<1>6. SharedOK' /\ Stable
  <2>1. loggedOut' \subseteq Sid
    BY <1>1, <1>5 DEF IInv, SharedOK, HistoryOK, Request
  <2>2. QED
    BY <1>5, <2>1 DEF IInv, SharedOK, shared, sharedButStore, KeysTypeOK,
       WorldOK, HistoryOK, StoreFaithful, BornFromLogin,
       VaultHoldsAcceptedCredentials, Stable, keys,
       external, browsers
<1>7. QED
  BY <1>1, <1>3, <1>4, <1>5, <1>6, Ending DEF IInv

\* n8n's own cookie is the only one that n8n's answer may set.
LEMMA RenewalsType ==
    ASSUME RequestsOK, NEW r \in Req
    PROVE  /\ Renewals(r) \subseteq Cred \cup {"keep", "clear"}
           /\ ProxiedCookies(r) \subseteq Cred \cup {"keep", "clear"}
<1>1. /\ rq[r].n8n \in Cred \cup {NotFound}
      /\ resp[r].n8n \in Cred \cup {"keep", "clear"}
  BY DEF RequestsOK, Request, Response
<1>2. QED
  BY <1>1 DEF Renewals, ProxiedCookies

LEMMA RelayOK ==
    ASSUME IInv, UNCHANGED <<shared, history>>,
           NEW r \in Req, pc[r] # "idle", NEW to \in {"me", "console"},
           NEW cookies, cookies \subseteq Cred \cup {"keep", "clear"},
           Relay(r, to, cookies)
    PROVE  IInv'
<1>1. PICK cookie \in cookies :
        resp' = [resp EXCEPT ![r].to = to, ![r].n8n = cookie]
  BY DEF Relay
<1> DEFINE a == [resp[r] EXCEPT !.to = to, !.n8n = cookie]
<1>2. resp[r] \in Response /\ RequestsOK
  BY DEF IInv, RequestsOK
<1>3. a \in Response /\ a.to # "page"
  BY ZenonT(60), <1>2 DEF Response
<1>4. resp' = [resp EXCEPT ![r] = a]
  BY <1>1
<1>5. SharedOK' /\ Stable
  BY NothingShared DEF IInv
<1>6. QED
  BY <1>2, <1>3, <1>4, <1>5, Ending DEF Relay, IInv

LEMMA CurrentUserOK ==
    ASSUME IInv, NEW r \in Req, CurrentUser(r)
    PROVE  IInv'
<1>1. pc[r] = "current" /\ pc[r] \in HasSession /\ rq[r].h = "me"
  BY DEF CurrentUser, At, HasSession, IInv, RequestsOK, Ready
<1>2. UNCHANGED <<shared, history>>
  BY DEF CurrentUser
<1>3. CASE Relay(r, "me", Renewals(r))
  BY <1>1, <1>2, <1>3, RenewalsType, RelayOK DEF IInv
<1>4. CASE Goto(r, "vault") /\ UNCHANGED <<rq, resp>>
  <2>1. SharedOK' /\ Stable /\ UNCHANGED <<holder, deadline>>
    BY <1>2, NothingShared DEF IInv, history
  <2>2. /\ rq[r].cred \in Cred \cup {NotFound}
        /\ resp[r].page \in Token \cup {NotFound}
        /\ rq = [rq EXCEPT ![r].cred = rq[r].cred]
        /\ resp = [resp EXCEPT ![r].page = resp[r].page]
    BY <1>1, Working
  <2>3. "vault" \in HasSession
    BY DEF HasSession
  <2>4. QED
    BY <1>1, <1>4, <2>1, <2>2, <2>3, Continuing
<1>5. QED
  BY <1>3, <1>4 DEF CurrentUser

LEMMA ProxyConsoleOK ==
    ASSUME IInv, NEW r \in Req, ProxyConsole(r)
    PROVE  IInv'
<1>1. pc[r] # "idle" /\ UNCHANGED <<shared, history>>
  BY DEF ProxyConsole, At
<1>2. CASE Relay(r, "console", ProxiedCookies(r))
  BY <1>1, <1>2, RenewalsType, RelayOK DEF IInv
<1>3. CASE Respond(r, "502")
  BY <1>1, <1>3, Responding
<1>4. QED
  BY <1>2, <1>3 DEF ProxyConsole

-----------------------------------------------------------------------------
(* Responses, browsers and the world. *)

\* The world may change as it likes, as long as nobody who logged in at the
\* identity provider becomes somebody else.
LEMMA Outside ==
    ASSUME SharedOK, WorldOK', \A s \in State : idp[s] \in User => idp'[s] = idp[s],
           UNCHANGED <<now, keys, vault, history>>
    PROVE  SharedOK' /\ Stable
<1>1. KeysTypeOK' /\ HistoryOK' /\ StoreFaithful'
  BY DEF SharedOK, KeysTypeOK, HistoryOK, StoreFaithful, keys, history
<1>2. BornFromLogin'
  <2>1. ASSUME NEW id \in Sid, holder[id] # NotFound
        PROVE  origin[id] \in State /\ holder[id] = idp'[origin[id]]
    BY <2>1 DEF SharedOK, BornFromLogin, HistoryOK
  <2>2. QED
    BY <2>1 DEF BornFromLogin, history
<1>3. Stable
  BY DEF Stable, history
<1>4. VaultHoldsAcceptedCredentials'
  BY VaultStays DEF SharedOK, history
<1>5. QED
  BY <1>1, <1>2, <1>3, <1>4 DEF SharedOK

LEMMA DeliverOK ==
    ASSUME IInv, NEW r \in Req, Deliver(r)
    PROVE  IInv'
<1> DEFINE b == rq[r].b
           a == resp[r]
           j == [plain  |-> NewValue(a.sid, jar[b].plain),
                 host   |-> IF secure THEN NewValue(a.sid, jar[b].host)
                                      ELSE jar[b].host,
                 bridge |-> CASE a.bridge = "keep" -> jar[b].bridge
                              [] OTHER -> a.bridge = "set",
                 n8n    |-> NewValue(a.n8n, jar[b].n8n)]
<1>1. b \in Browser /\ a \in Response /\ RequestsOK
      /\ (a.to = "page" => a.page \in Token)
  BY DEF Deliver, At, IInv, RequestsOK, Ready
<1>2. jar[b] \in Jar /\ WorldOK
  BY <1>1 DEF IInv, SharedOK, WorldOK
<1>3. j \in Jar
  <2>1. /\ a.sid \in Sid \cup {"keep", "clear"}
        /\ a.n8n \in Cred \cup {"keep", "clear"}
        /\ jar[b].plain \in Sid \cup {NotFound}
        /\ jar[b].host \in Sid \cup {NotFound}
        /\ jar[b].bridge \in BOOLEAN /\ jar[b].n8n \in Cred \cup {NotFound}
    BY <1>1, <1>2 DEF Response, Jar
  <2> HIDE DEF a, b
  <2>2. /\ NewValue(a.sid, jar[b].plain) \in Sid \cup {NotFound}
        /\ NewValue(a.sid, jar[b].host) \in Sid \cup {NotFound}
        /\ NewValue(a.n8n, jar[b].n8n) \in Cred \cup {NotFound}
    BY <2>1 DEF NewValue
  <2>3. (CASE a.bridge = "keep" -> jar[b].bridge
           [] OTHER -> a.bridge = "set") \in BOOLEAN
    BY <2>1
  <2>4. QED
    BY <2>1, <2>2, <2>3 DEF Jar
<1>4. jar' = [jar EXCEPT ![b] = j]
  BY DEF Deliver
<1>5. jar' \in [Browser -> Jar]
  <2> HIDE DEF j
  <2>1. QED
    BY <1>2, <1>3, <1>4 DEF WorldOK
<1>6. forms' \in [Browser -> SUBSET Token]
  BY <1>1, <1>2 DEF Deliver, WorldOK
<1>7. askedBy' \in [State -> Browser \cup {NotFound}]
  BY <1>1, <1>2 DEF Deliver, WorldOK
<1>8. UNCHANGED <<now, keys, secure, vault, accepted, idp, history>>
  BY DEF Deliver
<1>9. SharedOK' /\ Stable
  <2>1. WorldOK'
    BY <1>2, <1>5, <1>6, <1>7, <1>8 DEF WorldOK
  <2>2. QED
    BY <1>8, <2>1, Outside DEF IInv
<1>10. QED
  BY <1>1, <1>9, Freeing DEF Deliver, IInv

LEMMA LoseOK ==
    ASSUME IInv, NEW r \in Req, Lose(r)
    PROVE  IInv'
BY NothingShared, Freeing DEF Lose, IInv

LEMMA RestartOK ==
    ASSUME IInv, Restart
    PROVE  IInv'
<1>1. WorldOK'
  BY GatewayAssumption
     DEF Restart, IInv, SharedOK, WorldOK, external, browsers
<1>2. SharedOK'
  BY <1>1, Outside DEF Restart, IInv, external
<1>3. Blank \in Request /\ Blank.copy = NotFound
  BY EmptySeq DEF Blank, Request, HandlerKinds
<1>4. NoResponse \in Response /\ "idle" \in PCs
  BY DEF NoResponse, Response, PCs
<1>5. ASSUME NEW r \in Req
      PROVE  (Ready(pc[r], rq[r], resp[r]) /\ Faithful(rq[r]))'
  <2>1. pc'[r] = "idle" /\ rq'[r] = Blank
    BY DEF Restart
  <2>2. QED
    BY <1>3, <2>1 DEF Ready, Faithful, HasSession
<1>6. RequestsOK'
  BY <1>3, <1>4, <1>5 DEF Restart, RequestsOK
<1>7. QED
  BY <1>2, <1>6 DEF IInv

LEMMA IdPLoginOK ==
    ASSUME IInv, NEW s \in State, NEW u \in User, IdPLogin(s, u)
    PROVE  IInv'
<1>1. NotFound \notin User
  BY NotFoundAssumption
<1>2. WorldOK'
  BY DEF IdPLogin, IInv, SharedOK, WorldOK, browsers
<1>3. \A x \in State : idp[x] \in User => idp'[x] = idp[x]
  BY <1>1 DEF IdPLogin, IInv, SharedOK, WorldOK
<1>4. SharedOK' /\ Stable
  BY <1>2, <1>3, Outside DEF IdPLogin, IInv
<1>5. QED
  BY <1>4, Staying DEF IdPLogin, IInv

LEMMA PasswordChangeOK ==
    ASSUME IInv, NEW c \in Cred, PasswordChange(c)
    PROVE  IInv'
<1>1. WorldOK'
  BY DEF PasswordChange, IInv, SharedOK, WorldOK, browsers
<1>2. SharedOK' /\ Stable
  BY <1>1, Outside DEF PasswordChange, IInv
<1>3. QED
  BY <1>2, Staying DEF PasswordChange, IInv

LEMMA DropCookieOK ==
    ASSUME IInv, NEW b \in Browser, DropCookie(b)
    PROVE  IInv'
<1>1. jar \in [Browser -> Jar]
  BY DEF IInv, SharedOK, WorldOK
<1>2. jar' \in [Browser -> Jar]
  <2>1. CASE jar' = [jar EXCEPT ![b].plain = NotFound, ![b].host = NotFound]
    BY <1>1, <2>1 DEF Jar
  <2>2. CASE jar' = [jar EXCEPT ![b].bridge = FALSE]
    BY <1>1, <2>2 DEF Jar
  <2>3. CASE jar' = [jar EXCEPT ![b].n8n = NotFound]
    BY <1>1, <2>3 DEF Jar
  <2>4. QED
    BY <2>1, <2>2, <2>3 DEF DropCookie
<1>3. WorldOK'
  BY <1>2 DEF DropCookie, IInv, SharedOK, WorldOK, external
<1>4. SharedOK' /\ Stable
  BY <1>3, Outside DEF DropCookie, IInv, external
<1>5. QED
  BY <1>4, Staying DEF DropCookie, IInv

\* Redis drops keys; it changes none.
LEMMA TickOK ==
    ASSUME IInv, Tick
    PROVE  IInv'
<1>1. KeysTypeOK' /\ (\A id \in Sid : sess'[id] \in {sess[id], NotFound})
  BY DEF Tick, ClockTick, Swept, IInv, SharedOK, KeysTypeOK
<1>2. WorldOK' /\ HistoryOK' /\ BornFromLogin' /\ Stable
  BY DEF Tick, IInv, SharedOK, WorldOK, HistoryOK, BornFromLogin, Stable,
         external, browsers, history
<1>3. StoreFaithful'
  BY <1>1 DEF Tick, IInv, SharedOK, StoreFaithful, history
<1>4. VaultHoldsAcceptedCredentials'
  BY VaultStays DEF Tick, IInv, SharedOK, history
<1>5. QED
  BY <1>1, <1>2, <1>3, <1>4, Staying DEF Tick, IInv, SharedOK

-----------------------------------------------------------------------------
(* The theorems. *)

THEOREM InitIInv == Init => IInv
<1> SUFFICES ASSUME Init PROVE IInv
  OBVIOUS
<1>1. KeysTypeOK /\ StoreFaithful
  BY DEF Init, KeysInit, KeysTypeOK, StoreFaithful
<1>2. WorldOK
  <2>1. EmptyJar \in Jar
    BY DEF EmptyJar, Jar
  <2>2. QED
    BY <2>1, GatewayAssumption DEF Init, WorldOK
<1>3. HistoryOK /\ BornFromLogin
  BY GatewayAssumption DEF Init, HistoryOK, BornFromLogin
<1>4. RequestsOK
  <2>1. Blank \in Request /\ Blank.copy = NotFound
    BY EmptySeq DEF Blank, Request, HandlerKinds
  <2>2. NoResponse \in Response /\ "idle" \in PCs
    BY DEF NoResponse, Response, PCs
  <2>3. QED
    BY <2>1, <2>2 DEF Init, RequestsOK, Ready, Faithful, HasSession
<1>5. VaultHoldsAcceptedCredentials
  BY GatewayAssumption DEF Init, VaultHoldsAcceptedCredentials
<1>6. QED
  BY <1>1, <1>2, <1>3, <1>4, <1>5 DEF IInv, SharedOK

LEMMA ArriveOK ==
    ASSUME IInv, NEW r \in Req, Arrive(r)
    PROVE  IInv'
<1>1. PICK b \in Browser :
        \/ \E h \in Handlers : ReceiveWithSession(r, b, h)
        \/ \E h \in Handlers, t \in forms[b] \cup {NotFound},
              c \in Cred \cup {NotFound} : ReceiveForm(r, b, h, t, c)
        \/ \E s, code \in Finished \cup {NotFound} : ReceiveCallback(r, b, s, code)
        \/ ReceiveLogout(r, b)
        \/ ReceiveN8NLogout(r, b)
        \/ ReceiveSignout(r, b)
  BY DEF Arrive
<1>2. QED
  BY <1>1, ReceiveWithSessionOK, ReceiveFormOK, ReceiveCallbackOK,
     ReceiveLogoutOK, ReceiveSignoutOK

LEMMA ServeOK ==
    ASSUME IInv, NEW r \in Req, Serve(r)
    PROVE  IInv'
BY LookupFoundOK, LookupMissingOK, LookupFailsOK, StartLoginOK, RandomFailsOK,
   TakeStateOK, ExchangeOK, CreateSessionOK, CreateSessionFailsOK, ReloadOK,
   ReloadFailsOK, GetCredentialOK, GetCredentialFailsOK, N8NLoginOK,
   N8NLoginFailsOK, SaveSessionOK, LinkPageTokenOK, LinkPageFailsOK, SetCSRFOK,
   ValidateCSRFOK, ValidateCSRFFailsOK, UpdateCredentialOK, DeleteSessionOK,
   N8NLogoutOK, CurrentUserOK, ProxyConsoleOK
   DEF Serve

LEMMA EnvironmentOK ==
    ASSUME IInv, Environment
    PROVE  IInv'
BY TickOK, RestartOK, IdPLoginOK, PasswordChangeOK, DropCookieOK DEF Environment

\* Every step of the gateway, of the browsers and of the world around keeps
\* the inductive invariant.
THEOREM NextIInv == IInv /\ [Next]_vars => IInv'
<1> SUFFICES ASSUME IInv, [Next]_vars PROVE IInv'
  OBVIOUS
<1>1. CASE Next
  BY <1>1, ArriveOK, ServeOK, DeliverOK, LoseOK, EnvironmentOK DEF Next
<1>2. CASE UNCHANGED vars
  <2>1. UNCHANGED <<shared, history, pc, rq, resp>>
    BY <1>2 DEF vars, shared, sharedButStore
  <2>2. QED
    BY <2>1, NothingShared, Staying DEF IInv
<1>3. QED
  BY <1>1, <1>2

\* The inductive invariant holds in every reachable state: whatever requests
\* are in flight, each copy of a session they hold, and each session in Redis,
\* is the one its callback created (server.go:245-289, 392, 411).
THEOREM Inductive == Spec => []IInv
BY InitIInv, NextIInv, PTL DEF Spec

\* Every variable keeps its type, for any constants.
THEOREM TypeCorrect == Spec => []TypeOK
<1>1. IInv => TypeOK
  BY DEF IInv, SharedOK, WorldOK, HistoryOK, RequestsOK, TypeOK
<1>2. QED
  BY <1>1, Inductive, PTL

\* A stored session keeps the identity and the deadline of its login, whatever
\* requests write it back, in any order and after any delay
\* (server.go:245-289, 391-392, 410-411; store.go:79, 91).
THEOREM IdentityKept == Spec => []SessionKeepsIdentity
<1>1. StoreFaithful /\ BornFromLogin => SessionKeepsIdentity
  BY DEF StoreFaithful, BornFromLogin, SessionKeepsIdentity
<1>2. IInv => StoreFaithful /\ BornFromLogin
  BY DEF IInv, SharedOK
<1>3. QED
  BY <1>1, <1>2, Inductive, PTL

\* Vault holds for a user only what n8n accepted when that user submitted it:
\* the request that writes it carries the very pair it had validated, however
\* long ago, whatever was stored or written back since (server.go:372-386).
THEOREM VaultAccepted == Spec => []VaultHoldsAcceptedCredentials
<1>1. IInv => VaultHoldsAcceptedCredentials
  BY DEF IInv, SharedOK
<1>2. QED
  BY <1>1, Inductive, PTL

-----------------------------------------------------------------------------
(* The marker cookie and n8n's own cookie go together, for browsers that    *)
(* may lose any cookie but n8n's.                                           *)

\* No browser loses n8n's cookie alone, and no cookie reads like one of the
\* two answers that stand for "not in the response" and "cleared".
CookiesApart == "n8n" \notin Drops /\ Cred \cap {"keep", "clear"} = {}

-----------------------------------------------------------------------------
(* The inductive invariant.  Responses may reach the browser in any order,  *)
(* so it does not help that each is right after the one before it: each     *)
(* must be right after any other.                                           *)

\* Delivered to any browser, the response leaves no marker without a cookie.
Paired(a) == /\ a.bridge = "set" => a.n8n \in Cred
             /\ a.n8n = "clear" => a.bridge = "clear"

ResponsesPaired == \A r \in Req : Paired(resp[r])

MInv == IInv /\ ResponsesPaired /\ MarkerMeansN8NCookie

\* A step of request r that answers with a.
LEMMA StayPaired ==
    ASSUME IInv, ResponsesPaired, NEW r \in Req, NEW a, Paired(a),
           resp' = [resp EXCEPT ![r] = a]
    PROVE  ResponsesPaired'
BY DEF IInv, RequestsOK, ResponsesPaired

\* The step may touch neither of the two cookies.
LEMMA OtherFields ==
    ASSUME IInv, ResponsesPaired, NEW r \in Req, NEW a,
           a.bridge = resp[r].bridge, a.n8n = resp[r].n8n,
           resp' = [resp EXCEPT ![r] = a]
    PROVE  ResponsesPaired'
BY StayPaired DEF ResponsesPaired, Paired

LEMMA RespondPaired ==
    ASSUME IInv, ResponsesPaired, NEW r \in Req, NEW to,
           resp' = [resp EXCEPT ![r].to = to]
    PROVE  ResponsesPaired'
<1> DEFINE a == [resp[r] EXCEPT !.to = to]
<1>1. a.bridge = resp[r].bridge /\ a.n8n = resp[r].n8n
  BY DEF IInv, RequestsOK, Response
<1>2. QED
  BY <1>1, OtherFields

LEMMA LoginErrorPaired ==
    ASSUME IInv, ResponsesPaired, NEW r \in Req, NEW cause,
           RespondLoginError(r, cause)
    PROVE  ResponsesPaired'
<1> DEFINE to == IF cause = "limited" THEN "429"
                 ELSE IF Serves(r, {"linkpost"}) THEN "400" ELSE "relink"
           a == [resp[r] EXCEPT !.cause = cause, !.to = to]
<1>1. a.bridge = resp[r].bridge /\ a.n8n = resp[r].n8n
  BY DEF IInv, RequestsOK, Response
<1>2. resp' = [resp EXCEPT ![r] = a]
  BY DEF RespondLoginError
<1>3. QED
  BY <1>1, <1>2, OtherFields

LEMMA SessionCookiePaired ==
    ASSUME IInv, ResponsesPaired, NEW r \in Req, NEW id,
           \/ resp' = [resp EXCEPT ![r].sid = id]
           \/ \E to : resp' = [resp EXCEPT ![r].sid = id, ![r].to = to]
    PROVE  ResponsesPaired'
<1>1. CASE resp' = [resp EXCEPT ![r].sid = id]
  <2> DEFINE a == [resp[r] EXCEPT !.sid = id]
  <2>1. a.bridge = resp[r].bridge /\ a.n8n = resp[r].n8n
    BY DEF IInv, RequestsOK, Response
  <2>2. QED
    BY <1>1, <2>1, OtherFields
<1>2. ASSUME NEW to, resp' = [resp EXCEPT ![r].sid = id, ![r].to = to]
      PROVE  ResponsesPaired'
  <2> DEFINE a == [resp[r] EXCEPT !.sid = id, !.to = to]
  <2>1. a.bridge = resp[r].bridge /\ a.n8n = resp[r].n8n
    BY DEF IInv, RequestsOK, Response
  <2>2. resp' = [resp EXCEPT ![r] = a]
    BY <1>2
  <2>3. QED
    BY <2>1, <2>2, OtherFields
<1>3. QED
  BY <1>1, <1>2

LEMMA PagePaired ==
    ASSUME IInv, ResponsesPaired, NEW r \in Req, NEW t,
           resp' = [resp EXCEPT ![r].page = t]
    PROVE  ResponsesPaired'
<1> DEFINE a == [resp[r] EXCEPT !.page = t]
<1>1. a.bridge = resp[r].bridge /\ a.n8n = resp[r].n8n
  BY DEF IInv, RequestsOK, Response
<1>2. QED
  BY <1>1, OtherFields

\* After a login at n8n both cookies are set (server.go:286-287).
LEMMA LoggedInPaired ==
    ASSUME CookiesApart, IInv, ResponsesPaired, NEW r \in Req,
           rq[r].cred \in Cred, NEW to, RespondLoggedIn(r, to)
    PROVE  ResponsesPaired'
<1> DEFINE a == [resp[r] EXCEPT !.to = to, !.n8n = rq[r].cred, !.bridge = "set"]
<1>1. a.bridge = "set" /\ a.n8n = rq[r].cred
  BY DEF IInv, RequestsOK, Response
<1>2. Paired(a)
  BY <1>1 DEF Paired, CookiesApart
<1>3. QED
  BY <1>2, StayPaired DEF RespondLoggedIn

-----------------------------------------------------------------------------
(* No handler builds an unpaired response. *)

LEMMA ArrivePaired ==
    ASSUME MInv, NEW r \in Req, Arrive(r)
    PROVE  ResponsesPaired' /\ UNCHANGED jar
<1>1. PICK b \in Browser :
        \/ \E h \in Handlers : ReceiveWithSession(r, b, h)
        \/ \E h \in Handlers, t \in forms[b] \cup {NotFound},
              c \in Cred \cup {NotFound} : ReceiveForm(r, b, h, t, c)
        \/ \E s, code \in Finished \cup {NotFound} : ReceiveCallback(r, b, s, code)
        \/ ReceiveLogout(r, b) \/ ReceiveN8NLogout(r, b)
        \/ ReceiveSignout(r, b)
  BY DEF Arrive
<1>2. UNCHANGED jar
  BY <1>1 DEF ReceiveWithSession, ReceiveForm, ReceiveCallback, ReceiveLogout,
              ReceiveN8NLogout, ReceiveSignout, Receive, shared,
              sharedButStore, browsers
<1>3. CASE ReceiveSignout(r, b)
  <2> DEFINE a == [resp[r] EXCEPT !.to = "root", !.bridge = "clear"]
  <2>1. a.bridge = "clear"
    BY DEF MInv, IInv, RequestsOK, Response
  <2>2. Paired(a)
    BY <2>1 DEF Paired
  <2>3. QED
    BY <1>2, <1>3, <2>2, StayPaired DEF MInv, ReceiveSignout
<1>4. CASE UNCHANGED resp
  BY <1>2, <1>4 DEF MInv, ResponsesPaired
<1>5. ASSUME NEW to, resp' = [resp EXCEPT ![r].to = to]
      PROVE  ResponsesPaired'
  BY <1>5, RespondPaired DEF MInv
<1>6. QED
  BY <1>1, <1>2, <1>3, <1>4, <1>5
     DEF ReceiveWithSession, ReceiveForm, ReceiveCallback, ReceiveLogout,
         ReceiveN8NLogout

LEMMA LogoutPaired ==
    ASSUME MInv, NEW r \in Req, N8NLogout(r)
    PROVE  ResponsesPaired'
<1>1. PICK cookie \in LogoutAnswers :
        resp' = [resp EXCEPT ![r].to = "root", ![r].bridge = "clear",
                   ![r].n8n = cookie,
                   ![r].sid = IF Serves(r, {"logout"}) THEN "clear" ELSE @]
  BY DEF N8NLogout
<1> DEFINE sid == IF Serves(r, {"logout"}) THEN "clear" ELSE resp[r].sid
           a == [resp[r] EXCEPT !.to = "root", !.bridge = "clear",
                                !.n8n = cookie, !.sid = sid]
<1>2. a.bridge = "clear"
  BY DEF MInv, IInv, RequestsOK, Response
<1>3. Paired(a)
  BY <1>2 DEF Paired
<1>4. resp' = [resp EXCEPT ![r] = a]
  BY <1>1
<1>5. QED
  BY <1>3, <1>4, StayPaired DEF MInv

\* The steps that answer with a status or a redirect, or do not answer yet.
LEMMA PlainPaired ==
    ASSUME MInv, NEW r \in Req, UNCHANGED resp \/ \E to : Respond(r, to)
    PROVE  ResponsesPaired'
<1>1. CASE UNCHANGED resp
  BY <1>1 DEF MInv, ResponsesPaired
<1>2. CASE \E to : Respond(r, to)
  BY <1>2, RespondPaired DEF MInv, Respond
<1>3. QED
  BY <1>1, <1>2

\* n8n's own answers only renew its cookie, or leave it.
LEMMA RelayPaired ==
    ASSUME CookiesApart, MInv, NEW r \in Req, NEW to,
           \/ Relay(r, to, Renewals(r))
           \/ Relay(r, to, ProxiedCookies(r))
    PROVE  ResponsesPaired'
<1>1. PICK cookie \in Renewals(r) :
        resp' = [resp EXCEPT ![r].to = to, ![r].n8n = cookie]
  BY DEF Relay, ProxiedCookies, CookiesApart
<1> DEFINE a == [resp[r] EXCEPT !.to = to, !.n8n = cookie]
<1>2. cookie \in Cred \cup {resp[r].n8n}
  BY DEF MInv, IInv, RequestsOK, Request, Renewals
<1>3. a.bridge = resp[r].bridge /\ a.n8n = cookie
  BY DEF MInv, IInv, RequestsOK, Response
<1>4. Paired(a)
  BY <1>2, <1>3 DEF MInv, ResponsesPaired, Paired, CookiesApart
<1>5. resp' = [resp EXCEPT ![r] = a]
  BY <1>1
<1>6. QED
  BY <1>4, <1>5, StayPaired DEF MInv

LEMMA StartLoginPaired ==
    ASSUME MInv, NEW r \in Req, NEW s \in State, StartLogin(r, s)
    PROVE  ResponsesPaired'
<1> DEFINE a == [resp[r] EXCEPT !.to = "idp", !.st = s]
<1>1. a.bridge = resp[r].bridge /\ a.n8n = resp[r].n8n
  BY DEF MInv, IInv, RequestsOK, Response
<1>2. resp' = [resp EXCEPT ![r] = a]
  BY DEF StartLogin
<1>3. QED
  BY <1>1, <1>2, OtherFields DEF MInv

\* The steps after n8n accepted a credential still carry it.
LEMMA LoginPaired ==
    ASSUME CookiesApart, MInv, NEW r \in Req,
           N8NLogin(r) \/ SaveSession(r) \/ SaveSessionFails(r)
    PROVE  ResponsesPaired'
<1>1. Ready(pc[r], rq[r], resp[r])
  BY DEF MInv, IInv, RequestsOK
<1>2. ASSUME NEW to, RespondLoggedIn(r, to), rq[r].cred \in Cred
      PROVE  ResponsesPaired'
  BY <1>2, LoggedInPaired DEF MInv
<1>3. CASE N8NLogin(r)
  BY <1>1, <1>2, <1>3, PlainPaired DEF N8NLogin, At, Ready
<1>4. CASE SaveSession(r) \/ SaveSessionFails(r)
  BY <1>1, <1>2, <1>4, PlainPaired
     DEF SaveSession, SaveSessionFails, At, Ready, Serves
<1>5. QED
  BY <1>3, <1>4

LEMMA ServePaired ==
    ASSUME CookiesApart, MInv, NEW r \in Req, Serve(r)
    PROVE  ResponsesPaired'
<1>1. CASE \/ LookupFound(r) \/ LookupFails(r) \/ RandomFails(r)
           \/ \E s \in State : StartLoginFails(r, s)
  BY <1>1, PlainPaired DEF LookupFound, LookupFails, RandomFails, StartLoginFails
<1>2. CASE LookupMissing(r)
  BY <1>2, SessionCookiePaired, PlainPaired DEF LookupMissing, MInv
<1>3. CASE \E s \in State : StartLogin(r, s)
  BY <1>3, StartLoginPaired
<1>4. CASE TakeState(r) \/ TakeStateFails(r) \/ Exchange(r) \/ ExchangeFails(r)
  BY <1>4, PlainPaired DEF TakeState, TakeStateFails, Exchange, ExchangeFails
<1>5. CASE CreateSessionFails(r) \/ \E id \in Sid : CreateSession(r, id)
  <2>1. CASE CreateSessionFails(r)
    BY <2>1, PlainPaired DEF CreateSessionFails
  <2>2. ASSUME NEW id \in Sid, CreateSession(r, id)
        PROVE  ResponsesPaired'
    <3>1. \/ resp' = [resp EXCEPT ![r].sid = id]
          \/ Respond(r, "503")
      BY <2>2 DEF CreateSession
    <3> QED
      BY <3>1, SessionCookiePaired, PlainPaired DEF MInv
  <2> QED
    BY <1>5, <2>1, <2>2
<1>6. CASE \/ Reload(r) \/ ReloadFails(r)
           \/ GetCredential(r) \/ GetCredentialFails(r)
  <2>1. CASE Reload(r) \/ ReloadFails(r)
    BY <2>1, PlainPaired DEF Reload, ReloadFails
  <2>2. CASE GetCredential(r) \/ GetCredentialFails(r)
    BY <2>2, PlainPaired DEF GetCredential, GetCredentialFails
  <2> QED
    BY <1>6, <2>1, <2>2
<1>7. CASE \E cause \in {"refused", "limited", "down"} : N8NLoginFails(r, cause)
  BY <1>7, LoginErrorPaired, PlainPaired DEF N8NLoginFails, MInv
<1>8. CASE N8NLogin(r) \/ SaveSession(r) \/ SaveSessionFails(r)
  BY <1>8, LoginPaired
<1>9. CASE LinkPageToken(r) \/ LinkPageFails(r) \/ \E t \in Token : SetCSRF(r, t)
  BY <1>9, PagePaired, PlainPaired
     DEF LinkPageToken, LinkPageFails, SetCSRF, MInv
<1>10. CASE ValidateCSRF(r) \/ ValidateCSRFFails(r)
  BY <1>10, PlainPaired DEF ValidateCSRF, ValidateCSRFFails, AfterForm
<1>11. CASE UpdateCredential(r) \/ UpdateCredentialFails(r)
  BY <1>11, PlainPaired DEF UpdateCredential, UpdateCredentialFails
<1>12. CASE DeleteSession(r) \/ CurrentUser(r) \/ ProxyConsole(r)
  <2>1. CASE DeleteSession(r)
    BY <2>1, PlainPaired DEF DeleteSession
  <2>2. CASE CurrentUser(r)
    BY <2>2, PlainPaired, RelayPaired DEF CurrentUser
  <2>3. CASE ProxyConsole(r)
    BY <2>3, PlainPaired, RelayPaired DEF ProxyConsole
  <2> QED
    BY <1>12, <2>1, <2>2, <2>3
<1>13. CASE N8NLogout(r)
  BY <1>13, LogoutPaired
<1>14. QED
  BY <1>1, <1>2, <1>3, <1>4, <1>5, <1>6, <1>7, <1>8, <1>9, <1>10, <1>11,
     <1>12, <1>13 DEF Serve

\* Only responses and browsers touch the cookies.
LEMMA ServeSparesJars ==
    ASSUME NEW r \in Req, Serve(r)
    PROVE  UNCHANGED jar
<1>1. CASE \/ LookupFound(r) \/ LookupMissing(r) \/ LookupFails(r)
           \/ \E s \in State : StartLogin(r, s) \/ StartLoginFails(r, s)
           \/ RandomFails(r)
  BY <1>1 DEF LookupFound, LookupMissing, LookupFails, StartLogin,
              StartLoginFails, RandomFails, shared, sharedButStore, browsers
<1>2. CASE \/ TakeState(r) \/ TakeStateFails(r)
           \/ Exchange(r) \/ ExchangeFails(r)
           \/ \E id \in Sid : CreateSession(r, id)
           \/ CreateSessionFails(r)
  BY <1>2 DEF TakeState, TakeStateFails, Exchange, ExchangeFails,
              CreateSession, CreateSessionFails, shared, sharedButStore,
              browsers
<1>3. CASE \/ Reload(r) \/ ReloadFails(r)
           \/ GetCredential(r) \/ GetCredentialFails(r) \/ N8NLogin(r)
           \/ \E cause \in {"refused", "limited", "down"} :
                 N8NLoginFails(r, cause)
           \/ SaveSession(r) \/ SaveSessionFails(r)
  BY <1>3 DEF Reload, ReloadFails, GetCredential, GetCredentialFails, N8NLogin,
              N8NLoginFails, SaveSession, SaveSessionFails, shared,
              sharedButStore, browsers
<1>4. CASE \/ LinkPageToken(r) \/ LinkPageFails(r)
           \/ \E t \in Token : SetCSRF(r, t)
           \/ ValidateCSRF(r) \/ ValidateCSRFFails(r)
           \/ UpdateCredential(r) \/ UpdateCredentialFails(r)
  BY <1>4 DEF LinkPageToken, LinkPageFails, SetCSRF, ValidateCSRF,
              ValidateCSRFFails, UpdateCredential, UpdateCredentialFails,
              shared, sharedButStore, sharedButVault, browsers
<1>5. CASE DeleteSession(r) \/ N8NLogout(r) \/ CurrentUser(r) \/ ProxyConsole(r)
  BY <1>5 DEF DeleteSession, N8NLogout, CurrentUser, ProxyConsole, shared,
              sharedButStore, browsers
<1>6. QED
  BY <1>1, <1>2, <1>3, <1>4, <1>5 DEF Serve

-----------------------------------------------------------------------------
(* The steps that change cookies. *)

LEMMA Forgotten ==
    ASSUME MInv, NEW r \in Req, resp' = [resp EXCEPT ![r] = NoResponse]
    PROVE  ResponsesPaired'
BY StayPaired DEF MInv, Paired, NoResponse

LEMMA DeliverPaired ==
    ASSUME CookiesApart, MInv, NEW r \in Req, Deliver(r)
    PROVE  ResponsesPaired' /\ MarkerMeansN8NCookie'
<1> DEFINE b == rq[r].b
           a == resp[r]
           bridge == CASE a.bridge = "keep" -> jar[b].bridge
                       [] OTHER -> a.bridge = "set"
           n8n == NewValue(a.n8n, jar[b].n8n)
<1>1. /\ b \in Browser /\ jar \in [Browser -> Jar]
      /\ a \in Response /\ Paired(a) /\ NotFound \notin Cred
  BY GatewayAssumption
     DEF MInv, IInv, SharedOK, WorldOK, RequestsOK, Ready, ResponsesPaired,
         Deliver, At
<1>2. ResponsesPaired'
  BY Forgotten DEF Deliver
<1>3. jar'[b].bridge = bridge /\ jar'[b].n8n = n8n
  BY <1>1 DEF Deliver
<1>4. ASSUME NEW x \in Browser, x # b
      PROVE  jar'[x] = jar[x]
  BY <1>1, <1>4 DEF Deliver
<1>5. bridge => n8n # NotFound
  <2>1. jar[b].bridge => jar[b].n8n # NotFound
    BY <1>1 DEF MInv, MarkerMeansN8NCookie
  <2>2. a.bridge \in {"keep", "clear", "set"}
        /\ a.n8n \in Cred \cup {"keep", "clear"}
    BY <1>1 DEF Response
  <2>3. CASE a.bridge = "keep"
    <3>1. a.n8n \in Cred \cup {"keep"}
      BY <1>1, <2>2, <2>3 DEF Paired
    <3>2. QED
      BY <1>1, <2>1, <2>3, <3>1 DEF NewValue, CookiesApart
  <2>4. CASE a.bridge = "set"
    BY <1>1, <2>4 DEF Paired, NewValue, CookiesApart
  <2>5. CASE a.bridge = "clear"
    BY <2>5
  <2>6. QED
    BY <2>2, <2>3, <2>4, <2>5
<1>6. QED
  BY <1>2, <1>3, <1>4, <1>5 DEF MInv, MarkerMeansN8NCookie

LEMMA DropCookiePaired ==
    ASSUME CookiesApart, MInv, NEW b \in Browser, DropCookie(b)
    PROVE  MarkerMeansN8NCookie'
<1>1. jar \in [Browser -> Jar]
  BY DEF MInv, IInv, SharedOK, WorldOK
<1>2. CASE jar' = [jar EXCEPT ![b].plain = NotFound, ![b].host = NotFound]
  <2> DEFINE j == [jar[b] EXCEPT !.plain = NotFound, !.host = NotFound]
  <2>1. j.bridge = jar[b].bridge /\ j.n8n = jar[b].n8n
    BY <1>1 DEF Jar
  <2>2. jar' = [jar EXCEPT ![b] = j]
    BY <1>2
  <2>3. QED
    BY <1>1, <2>1, <2>2 DEF MInv, MarkerMeansN8NCookie
<1>3. CASE jar' = [jar EXCEPT ![b].bridge = FALSE]
  <2> DEFINE j == [jar[b] EXCEPT !.bridge = FALSE]
  <2>1. ~j.bridge
    BY <1>1 DEF Jar
  <2>2. jar' = [jar EXCEPT ![b] = j]
    BY <1>3
  <2>3. QED
    BY <1>1, <2>1, <2>2 DEF MInv, MarkerMeansN8NCookie
<1>4. QED
  BY <1>2, <1>3 DEF DropCookie, CookiesApart

LEMMA EnvironmentPaired ==
    ASSUME CookiesApart, MInv, Environment
    PROVE  ResponsesPaired' /\ MarkerMeansN8NCookie'
<1>1. CASE Restart
  BY <1>1 DEF Restart, browsers, MInv, MarkerMeansN8NCookie, ResponsesPaired,
              Paired, NoResponse
<1>2. CASE UNCHANGED <<jar, resp>>
  BY <1>2 DEF MInv, MarkerMeansN8NCookie, ResponsesPaired
<1>3. CASE \E b \in Browser : DropCookie(b)
  BY <1>3, DropCookiePaired DEF DropCookie, MInv, ResponsesPaired
<1>4. QED
  BY <1>1, <1>2, <1>3
     DEF Environment, Tick, IdPLogin, PasswordChange, browsers

-----------------------------------------------------------------------------
(* The theorems. *)

THEOREM InitPaired == Init => MInv
<1>1. Init => IInv
  BY InitIInv
<1>2. Init => ResponsesPaired /\ MarkerMeansN8NCookie
  BY DEF Init, ResponsesPaired, Paired, NoResponse, MarkerMeansN8NCookie,
         EmptyJar
<1>3. QED
  BY <1>1, <1>2 DEF MInv

THEOREM NextPaired == CookiesApart /\ MInv /\ [Next]_vars => MInv'
<1> SUFFICES ASSUME CookiesApart, MInv, [Next]_vars PROVE MInv'
  OBVIOUS
<1>1. IInv'
  BY NextIInv DEF MInv
<1>2. ASSUME UNCHANGED jar
      PROVE  MarkerMeansN8NCookie'
  BY <1>2 DEF MInv, MarkerMeansN8NCookie
<1>3. ASSUME NEW r \in Req, Arrive(r) \/ Serve(r)
      PROVE  ResponsesPaired' /\ MarkerMeansN8NCookie'
  BY <1>2, <1>3, ArrivePaired, ServePaired, ServeSparesJars
<1>4. ASSUME NEW r \in Req, Lose(r)
      PROVE  ResponsesPaired' /\ MarkerMeansN8NCookie'
  BY <1>2, <1>4, Forgotten DEF Lose, shared, sharedButStore, browsers
<1>5. CASE UNCHANGED vars
  <2>1. UNCHANGED <<jar, resp>>
    BY <1>5 DEF vars, browsers
  <2>2. QED
    BY <1>1, <1>2, <2>1 DEF MInv, ResponsesPaired
<1>6. CASE Next
  <2>1. ResponsesPaired' /\ MarkerMeansN8NCookie'
    BY <1>3, <1>4, <1>6, DeliverPaired, EnvironmentPaired DEF Next
  <2>2. QED
    BY <1>1, <2>1 DEF MInv
<1>7. QED
  BY <1>5, <1>6

\* The marker cookie is in a browser only together with an n8n cookie, in
\* whatever order the answers to logins, logouts and GET /rest/login, and those
\* n8n gives through the proxy, arrive, unless the browser or n8n's own answer
\* drops n8n's cookie alone (server.go:286-287, 302-347, 458).
THEOREM MarkerKept ==
    ASSUME CookiesApart
    PROVE  Spec => []MarkerMeansN8NCookie
<1>1. MInv /\ [Next]_vars => MInv'
  BY NextPaired
<1>2. MInv => MarkerMeansN8NCookie
  BY DEF MInv
<1>3. QED
  BY <1>1, <1>2, InitPaired, PTL DEF Spec

-----------------------------------------------------------------------------
(* Whose login a session is, whose cookie and whose form.                   *)

-----------------------------------------------------------------------------
(* The inductive invariant, on top of IInv. A state is drawn once and       *)
(* consumed once, so that it leads one callback to a session; and everything *)
(* that a request carries from one step to a later one, its session, its    *)
(* credential, its form and the cookies it came with or will set, stays with *)
(* the browser it came from, whatever other requests do between the two.    *)

\* A callback of browser b created session id; n8n accepted credential c for
\* the holder of such a session.
Own(id, b) == bearer[id] = b
Granted(b, c) == \E id \in Sid : Own(id, b) /\ <<holder[id], c>> \in validated

\* A callback that holds its state; a response about to start a login.
Redeems(r) == pc[r] \in {"exchange", "create"}
Sends(r)   == resp[r].to = "idp"

\* A state passes from Redis to one callback, and from it to one session.
StatesOnce ==
    /\ \A s \in State : oidc[s] # NotFound => s \in drawn
    /\ \A id \in Sid : origin[id] # NotFound =>
          /\ origin[id] \in drawn /\ oidc[origin[id]] = NotFound
          /\ holder[id] # NotFound
    /\ \A r \in Req : Redeems(r) =>
          /\ rq[r].st \in drawn /\ oidc[rq[r].st] = NotFound
          /\ \A id \in Sid : origin[id] # rq[r].st
    /\ \A r, x \in Req :
          Redeems(r) /\ Redeems(x) /\ rq[r].st = rq[x].st => r = x
    /\ OneSessionPerLogin

\* A browser is sent to the identity provider with a state that was drawn.
SentDrawn ==
    \A r \in Req : Sends(r) => pc[r] = "done" /\ resp[r].st \in drawn

\* Only a callback that creates a session gives it a holder and a bearer.
BornTogether ==
    \A id \in Sid : bearer[id] # NotFound <=> holder[id] # NotFound

\* n8n accepted the credential of the request; its form has a token drawn for
\* its session.
Checked(p, q) ==
    \/ p \in {"reload", "put"}
    \/ p = "n8nlogin" /\ q.h # "linkpost"
    \/ p = "save" /\ q.h # "linkdelete"
ByForm(p, q) == p \in {"put", "delcred"} \/ (p = "n8nlogin" /\ q.h = "linkpost")

\* What a request carries, and what it will answer, is its own browser's.
Mine(p, q, a) ==
    /\ p = "idle" => q = Blank /\ a = NoResponse
    /\ \A i \in 1..Len(q.ids) : Own(q.ids[i], q.b)
    /\ q.copy # NotFound => Own(q.id, q.b)
    /\ q.n8n # NotFound => Granted(q.b, q.n8n)
    /\ Checked(p, q) => <<q.copy.user, q.cred>> \in validated
    /\ ByForm(p, q) => q.form \in issued[q.id]
    /\ p = "setcsrf" => q.h = "linkget"
    /\ p = "vault" => q.h # "linkpost"
    /\ a.sid \notin {"keep", "clear"} => Own(a.sid, q.b)
    /\ a.n8n \notin {"keep", "clear"} => Granted(q.b, a.n8n)

JarsOwn ==
    \A b \in Browser :
        /\ \A id \in {jar[b].plain, jar[b].host} \ {NotFound} : Own(id, b)
        /\ jar[b].n8n # NotFound => Granted(b, jar[b].n8n)

TokensIssued ==
    \A id \in Sid : csrf[id] # NotFound => csrf[id].val \in issued[id]

Owned == /\ StatesOnce /\ SentDrawn /\ BornTogether /\ JarsOwn
         /\ TokensIssued
         /\ \A r \in Req : Mine(pc[r], rq[r], resp[r])

OInv == IInv /\ Owned

-----------------------------------------------------------------------------
(* Steps of one request. *)

Still(r) == pc'[r] = pc[r] /\ rq'[r] = rq[r] /\ resp'[r] = resp[r]

\* Nothing that a request relies on is taken back.
Grows ==
    /\ \A id \in Sid : bearer[id] # NotFound =>
          bearer'[id] = bearer[id] /\ holder'[id] = holder[id]
    /\ \A id \in Sid : issued[id] \subseteq issued'[id]
    /\ validated \subseteq validated'

\* No login starts, no session is born, and no cookie reaches a browser.
QuietStores ==
    /\ UNCHANGED <<drawn, origin, holder, bearer>>
    /\ \A id \in Sid : issued[id] \subseteq issued'[id]
    /\ validated \subseteq validated'
    /\ \A s \in State : oidc'[s] \in {oidc[s], NotFound}
    /\ \A id \in Sid : csrf'[id] # NotFound =>
          csrf'[id] = csrf[id] \/ csrf'[id].val \in issued'[id]
QuietWorld == QuietStores /\ UNCHANGED jar

LEMMA OwnStays ==
    ASSUME IInv, Grows, NEW id \in Sid, NEW b \in Browser, Own(id, b)
    PROVE  Own(id, b)'
<1>1. NotFound \notin Browser /\ bearer[id] = b
  BY GatewayAssumption DEF Own
<1>2. bearer'[id] = b
  BY <1>1 DEF Grows
<1>3. QED
  BY <1>2 DEF Own

LEMMA GrantedStays ==
    ASSUME IInv, Grows, NEW b \in Browser, NEW c, Granted(b, c)
    PROVE  Granted(b, c)'
<1>1. PICK id \in Sid : Own(id, b) /\ <<holder[id], c>> \in validated
  BY DEF Granted
<1>2. Own(id, b)'
  BY <1>1, OwnStays
<1>3. <<holder'[id], c>> \in validated'
  BY <1>1, GatewayAssumption DEF Own, Grows
<1>4. QED
  BY <1>2, <1>3 DEF Granted

\* A request that does not move keeps what is its own.
LEMMA MineStays ==
    ASSUME IInv, Grows, NEW r \in Req, Mine(pc[r], rq[r], resp[r]), Still(r)
    PROVE  Mine(pc[r], rq[r], resp[r])'
<1>1. CASE pc[r] = "idle"
  <2>1. rq[r] = Blank /\ resp[r] = NoResponse
    BY <1>1 DEF Mine
  <2>2. /\ Len(rq[r].ids) = 0 /\ rq[r].copy = NotFound
        /\ rq[r].n8n = NotFound
        /\ resp[r].sid = "keep" /\ resp[r].n8n = "keep"
    BY <2>1 DEF Blank, NoResponse
  <2>3. QED
    BY <1>1, <2>1, <2>2 DEF Mine, Still, Checked, ByForm
<1>2. CASE pc[r] # "idle"
  <2>1. /\ rq[r] \in Request /\ resp[r] \in Response
        /\ rq[r].b \in Browser /\ Ready(pc[r], rq[r], resp[r])
        /\ Faithful(rq[r])
    BY <1>2 DEF IInv, RequestsOK, Ready
  <2>2. \A i \in 1..Len(rq[r].ids) : Own(rq[r].ids[i], rq[r].b)'
    <3>1. \A i \in 1..Len(rq[r].ids) :
             rq[r].ids[i] \in Sid /\ Own(rq[r].ids[i], rq[r].b)
      BY <2>1 DEF Request, Mine
    <3>2. QED
      BY <2>1, <3>1, OwnStays DEF Still
  <2>3. rq[r].copy # NotFound => Own(rq[r].id, rq[r].b)'
    BY <2>1, OwnStays DEF Mine, Faithful, Still
  <2>4. /\ resp[r].sid \notin {"keep", "clear"} => Own(resp[r].sid, rq[r].b)'
        /\ resp[r].n8n \notin {"keep", "clear"} =>
              Granted(rq[r].b, resp[r].n8n)'
    BY <2>1, OwnStays, GrantedStays DEF Mine, Response, Still
  <2>5. rq[r].n8n # NotFound => Granted(rq[r].b, rq[r].n8n)'
    BY <2>1, GrantedStays DEF Mine, Still
  <2>6. Checked(pc[r], rq[r]) => <<rq[r].copy.user, rq[r].cred>> \in validated'
    BY DEF Mine, Grows
  <2>7. ByForm(pc[r], rq[r]) => rq[r].form \in issued'[rq[r].id]
    <3>1. ByForm(pc[r], rq[r]) => rq[r].id \in Sid
      BY <2>1 DEF ByForm, Ready, HasSession, Faithful
    <3>2. QED
      BY <3>1 DEF Mine, Grows
  <2>8. QED
    BY <1>2, <2>2, <2>3, <2>4, <2>5, <2>6, <2>7
       DEF Mine, Still, Checked, ByForm
<1>3. QED
  BY <1>1, <1>2

LEMMA JarsStay ==
    ASSUME IInv, Grows, JarsOwn, UNCHANGED jar
    PROVE  JarsOwn'
<1>1. ASSUME NEW b \in Browser
      PROVE  /\ \A id \in {jar[b].plain, jar[b].host} \ {NotFound} : Own(id, b)'
             /\ jar[b].n8n # NotFound => Granted(b, jar[b].n8n)'
  <2>1. {jar[b].plain, jar[b].host} \ {NotFound} \subseteq Sid
    BY DEF IInv, SharedOK, WorldOK, Jar
  <2>2. QED
    BY <2>1, OwnStays, GrantedStays DEF JarsOwn
<1>2. QED
  BY <1>1 DEF JarsOwn

\* No callback takes a state, and no response starts a login.
NoNewLogin(x) ==
    /\ Redeems(x)' => Redeems(x) /\ rq'[x].st = rq[x].st
    /\ Sends(x)' => Sends(x) /\ Still(x)

LEMMA QuietRequests ==
    ASSUME OInv, QuietStores, JarsOwn',
           \A x \in Req : NoNewLogin(x),
           \A x \in Req : Mine(pc[x], rq[x], resp[x])'
    PROVE  Owned'
<1>1. TokensIssued'
  BY DEF QuietStores, OInv, Owned, TokensIssued
<1>2. \A x \in Req : /\ Redeems(x)' => Redeems(x) /\ rq'[x].st = rq[x].st
                     /\ Sends(x)' => Sends(x) /\ resp'[x].st = resp[x].st
                                     /\ pc'[x] = pc[x]
  BY DEF NoNewLogin, Still
<1>3. StatesOnce'
  <2>1. \A x \in Req : Redeems(x) => rq[x].st \in State
    BY DEF OInv, IInv, RequestsOK, Ready, Redeems
  <2>2. \A id \in Sid : origin[id] # NotFound => origin[id] \in State
    BY DEF OInv, IInv, SharedOK, HistoryOK
  <2>3. \A s \in State : oidc'[s] \in {oidc[s], NotFound}
    BY DEF QuietStores
  <2>4. UNCHANGED <<drawn, origin, holder>>
    BY DEF QuietStores
  <2>5. StatesOnce
    BY DEF OInv, Owned
  <2>6. OneSessionPerLogin'
    BY <2>4, <2>5 DEF StatesOnce, OneSessionPerLogin
  <2>7. \A x \in Req : Redeems(x)' =>
          /\ rq'[x].st \in drawn' /\ oidc'[rq'[x].st] = NotFound
          /\ \A id \in Sid : origin'[id] # rq'[x].st
    BY <1>2, <2>1, <2>3, <2>4, <2>5 DEF StatesOnce
  <2>8. \A x, y \in Req :
          Redeems(x)' /\ Redeems(y)' /\ rq'[x].st = rq'[y].st => x = y
    BY <1>2, <2>5 DEF StatesOnce
  <2>9. /\ \A s \in State : oidc'[s] # NotFound => s \in drawn'
        /\ \A id \in Sid : origin'[id] # NotFound =>
             /\ origin'[id] \in drawn' /\ oidc'[origin'[id]] = NotFound
             /\ holder'[id] # NotFound
    BY <2>2, <2>3, <2>4, <2>5 DEF StatesOnce
  <2>10. QED
    BY <2>6, <2>7, <2>8, <2>9 DEF StatesOnce
<1>4. SentDrawn' /\ BornTogether'
  BY <1>2 DEF SentDrawn, BornTogether, QuietStores, OInv, Owned
<1>5. QED
  BY <1>1, <1>3, <1>4 DEF Owned

LEMMA Quiet ==
    ASSUME OInv, QuietWorld, NEW r \in Req,
           \A x \in Req \ {r} : Still(x),
           NoNewLogin(r), Mine(pc[r], rq[r], resp[r])'
    PROVE  Owned'
<1>1. Grows
  BY DEF QuietWorld, QuietStores, Grows
<1>2. \A x \in Req : Mine(pc[x], rq[x], resp[x])'
  BY <1>1, MineStays DEF OInv, Owned
<1>3. JarsOwn'
  BY <1>1, JarsStay DEF OInv, Owned, QuietWorld
<1>4. \A x \in Req : NoNewLogin(x)
  BY DEF NoNewLogin, Redeems, Sends, Still
<1>5. QED
  BY <1>2, <1>3, <1>4, QuietRequests DEF QuietWorld

LEMMA Calm ==
    ASSUME UNCHANGED <<shared, history>>
    PROVE  QuietWorld
BY DEF shared, sharedButStore, keys, external, browsers, history,
       QuietWorld, QuietStores

\* A handler that ends answers its own browser.
LEMMA Leaving ==
    ASSUME OInv, Grows, NEW r \in Req, pc[r] # "idle",
           Leave(r), NEW a, resp' = [resp EXCEPT ![r] = a],
           a.sid \in {"keep", "clear", resp[r].sid},
           a.n8n \in {"keep", "clear", resp[r].n8n} \/ Granted(rq[r].b, a.n8n)
    PROVE  /\ pc'[r] = "done" /\ resp'[r] = a
           /\ \A x \in Req \ {r} : Still(x)
           /\ Mine(pc[r], rq[r], resp[r])'
<1> DEFINE q == [Blank EXCEPT !.h = rq[r].h, !.b = rq[r].b]
<1>1. RequestsOK /\ Mine(pc[r], rq[r], resp[r]) /\ rq[r].b \in Browser
      /\ resp[r] \in Response /\ IInv
  BY DEF OInv, Owned, IInv, RequestsOK, Ready
<1>2. pc'[r] = "done" /\ rq'[r] = q /\ resp'[r] = a
      /\ \A x \in Req \ {r} : Still(x)
  BY <1>1 DEF Leave, Goto, RequestsOK, Still
<1>3. PICK b \in Browser : b = rq[r].b
  BY <1>1
<1>4. /\ a.sid \notin {"keep", "clear"} => Own(a.sid, b)'
      /\ a.n8n \notin {"keep", "clear"} => Granted(b, a.n8n)'
  <2>1. a.sid \notin {"keep", "clear"} => a.sid \in Sid /\ Own(a.sid, b)
    BY <1>1, <1>3 DEF Mine, Response
  <2>2. a.n8n \notin {"keep", "clear"} => Granted(b, a.n8n)
    BY <1>1, <1>3 DEF Mine
  <2>3. QED
    BY <1>1, <2>1, <2>2, OwnStays, GrantedStays
<1>5. Mine(pc[r], rq[r], resp[r])'
  <2>1. q.b = b /\ Len(q.ids) = 0 /\ q.copy = NotFound /\ q.n8n = NotFound
    BY <1>3 DEF Blank
  <2>2. QED
    BY <1>2, <1>4, <2>1 DEF Mine, Checked, ByForm
<1>6. QED
  BY <1>2, <1>5

LEMMA Ended ==
    ASSUME OInv, QuietWorld, NEW r \in Req, pc[r] # "idle",
           Leave(r), NEW a, resp' = [resp EXCEPT ![r] = a],
           a.to # "idp",
           a.sid \in {"keep", "clear", resp[r].sid},
           a.n8n \in {"keep", "clear", resp[r].n8n} \/ Granted(rq[r].b, a.n8n)
    PROVE  Owned'
<1>1. Grows
  BY DEF QuietWorld, QuietStores, Grows
<1>2. /\ pc'[r] = "done" /\ resp'[r] = a
      /\ \A x \in Req \ {r} : Still(x)
      /\ Mine(pc[r], rq[r], resp[r])'
  BY <1>1, Leaving
<1>3. NoNewLogin(r)
  BY <1>2 DEF NoNewLogin, Redeems, Sends
<1>4. QED
  BY <1>2, <1>3, Quiet

LEMMA Answered ==
    ASSUME OInv, QuietWorld, NEW r \in Req, pc[r] # "idle",
           NEW to, to # "idp", Respond(r, to)
    PROVE  Owned'
<1> DEFINE a == [resp[r] EXCEPT !.to = to]
<1>1. resp[r] \in Response
  BY DEF OInv, IInv, RequestsOK
<1>2. a.to # "idp" /\ a.sid = resp[r].sid /\ a.n8n = resp[r].n8n
  BY <1>1 DEF Response
<1>3. Leave(r) /\ resp' = [resp EXCEPT ![r] = a]
  BY DEF Respond
<1>4. QED
  BY <1>2, <1>3, Ended

\* The credential of a request was accepted for the holder of its session.
LEMMA CheckedGranted ==
    ASSUME OInv, NEW r \in Req, Checked(pc[r], rq[r])
    PROVE  Granted(rq[r].b, rq[r].cred)
<1> DEFINE id == rq[r].id
<1>1. /\ Mine(pc[r], rq[r], resp[r]) /\ Ready(pc[r], rq[r], resp[r])
      /\ Faithful(rq[r])
  BY DEF OInv, IInv, Owned, RequestsOK
<1>2. rq[r].copy # NotFound
  BY <1>1 DEF Checked, Ready, HasSession
<1>3. id \in Sid /\ rq[r].copy.user = holder[id] /\ Own(id, rq[r].b)
  BY <1>1, <1>2 DEF Faithful, Mine
<1>4. <<holder[id], rq[r].cred>> \in validated
  BY <1>1, <1>3 DEF Mine
<1>5. QED
  BY <1>3, <1>4 DEF Granted

LEMMA AnsweredLoggedIn ==
    ASSUME OInv, QuietWorld, NEW r \in Req, Checked(pc[r], rq[r]),
           NEW to, to # "idp", RespondLoggedIn(r, to)
    PROVE  Owned'
<1> DEFINE a == [resp[r] EXCEPT !.to = to, !.n8n = rq[r].cred, !.bridge = "set"]
<1>1. resp[r] \in Response /\ pc[r] # "idle"
  BY DEF OInv, IInv, RequestsOK, Checked
<1>2. a.to # "idp" /\ a.sid = resp[r].sid /\ a.n8n = rq[r].cred
  BY <1>1 DEF Response
<1>3. Leave(r) /\ resp' = [resp EXCEPT ![r] = a]
  BY DEF RespondLoggedIn
<1>4. Granted(rq[r].b, rq[r].cred)
  BY CheckedGranted
<1>5. QED
  BY <1>1, <1>2, <1>3, <1>4, Ended

\* Redis may lose keys, or write sessions.
LEMMA QuietStore ==
    ASSUME UNCHANGED <<sharedButStore, history>>,
           \A id \in Sid : csrf'[id] \in {csrf[id], NotFound},
           \A s \in State : oidc'[s] \in {oidc[s], NotFound}
    PROVE  QuietWorld
BY DEF sharedButStore, external, browsers, history, QuietWorld, QuietStores

\* A handler goes on with a session, a credential and a form of its own.
LEMMA GoesOn ==
    ASSUME OInv, QuietWorld, NEW r \in Req, pc[r] \notin {"idle", "done"},
           NEW p \in PCs \ {"idle", "take", "exchange", "create"},
           NEW q \in Request, q.b = rq[r].b, q.n8n = rq[r].n8n,
           \A i \in 1..Len(q.ids) : Own(q.ids[i], q.b),
           q.copy # NotFound => q.id \in Sid /\ Own(q.id, q.b),
           Checked(p, q) => <<q.copy.user, q.cred>> \in validated',
           ByForm(p, q) => q.form \in issued'[q.id],
           p = "setcsrf" => q.h = "linkget",
           p = "vault" => q.h # "linkpost",
           Goto(r, p), rq' = [rq EXCEPT ![r] = q],
           NEW a \in Response, resp' = [resp EXCEPT ![r] = a],
           a.to = resp[r].to, a.n8n = resp[r].n8n,
           a.sid \in {resp[r].sid, "keep", "clear"}
    PROVE  Owned'
<1>1. /\ IInv /\ RequestsOK /\ Mine(pc[r], rq[r], resp[r])
      /\ rq[r].b \in Browser /\ resp[r] \in Response
  BY DEF OInv, Owned, IInv, RequestsOK, Ready
<1>2. /\ pc'[r] = p /\ rq'[r] = q /\ resp'[r] = a
      /\ \A x \in Req \ {r} : Still(x)
  BY <1>1 DEF Goto, RequestsOK, Still
<1>3. Grows
  BY DEF QuietWorld, QuietStores, Grows
<1>4. \A i \in 1..Len(q.ids) : Own(q.ids[i], q.b)'
  <2>1. \A i \in 1..Len(q.ids) : q.ids[i] \in Sid
    BY DEF Request
  <2>2. QED
    BY <1>1, <1>3, <2>1, OwnStays
<1>5. q.copy # NotFound => Own(q.id, q.b)'
  BY <1>1, <1>3, OwnStays
<1>6. /\ a.sid \notin {"keep", "clear"} => Own(a.sid, q.b)'
      /\ a.n8n \notin {"keep", "clear"} => Granted(q.b, a.n8n)'
  <2>1. a.sid \notin {"keep", "clear"} => a.sid \in Sid /\ Own(a.sid, q.b)
    BY <1>1 DEF Mine, Response
  <2>2. a.n8n \notin {"keep", "clear"} => Granted(q.b, a.n8n)
    BY <1>1 DEF Mine
  <2>3. QED
    BY <1>1, <1>3, <2>1, <2>2, OwnStays, GrantedStays
<1>7. q.n8n # NotFound => Granted(q.b, q.n8n)'
  BY <1>1, <1>3, GrantedStays DEF Mine
<1>8. Mine(pc[r], rq[r], resp[r])'
  BY <1>2, <1>4, <1>5, <1>6, <1>7 DEF Mine
<1>9. NoNewLogin(r)
  BY <1>2 DEF NoNewLogin, Redeems, Sends, OInv, Owned, SentDrawn
<1>10. QED
  BY <1>2, <1>8, <1>9, Quiet

\* The same for a handler that only takes its next step.
LEMMA GoesOnAsIs ==
    ASSUME OInv, QuietWorld, NEW r \in Req, pc[r] \notin {"idle", "done"},
           NEW p \in PCs \ {"idle", "take", "exchange", "create"},
           Checked(p, rq[r]) => <<rq[r].copy.user, rq[r].cred>> \in validated',
           ByForm(p, rq[r]) => rq[r].form \in issued'[rq[r].id],
           p = "setcsrf" => rq[r].h = "linkget",
           p = "vault" => rq[r].h # "linkpost",
           Goto(r, p), UNCHANGED rq,
           NEW a \in Response, resp' = [resp EXCEPT ![r] = a],
           a.to = resp[r].to, a.n8n = resp[r].n8n,
           a.sid \in {resp[r].sid, "keep", "clear"}
    PROVE  Owned'
<1>1. /\ rq[r] \in Request /\ Faithful(rq[r])
      /\ Mine(pc[r], rq[r], resp[r])
      /\ rq = [rq EXCEPT ![r] = rq[r]]
  BY DEF OInv, Owned, IInv, RequestsOK
<1>2. /\ \A i \in 1..Len(rq[r].ids) : Own(rq[r].ids[i], rq[r].b)
      /\ rq[r].copy # NotFound => rq[r].id \in Sid /\ Own(rq[r].id, rq[r].b)
  BY <1>1 DEF Mine, Faithful
<1>3. rq' = [rq EXCEPT ![r] = rq[r]]
  BY <1>1
<1>4. QED
  BY <1>1, <1>2, <1>3, GoesOn

\* The response is left as it was.
LEMMA SameResponse ==
    ASSUME OInv, NEW r \in Req, UNCHANGED resp
    PROVE  resp[r] \in Response /\ resp' = [resp EXCEPT ![r] = resp[r]]
BY DEF OInv, IInv, RequestsOK

-----------------------------------------------------------------------------
(* Requests arrive. *)

LEMMA CarriedOwn ==
    ASSUME OInv, NEW b \in Browser
    PROVE  \A i \in 1..Len(CookieIds(jar[b])) : Own(CookieIds(jar[b])[i], b)
<1> DEFINE one == jar[b].plain
           two == jar[b].host
<1>1. /\ one # NotFound => Own(one, b)
      /\ two # NotFound => Own(two, b)
  BY DEF OInv, Owned, JarsOwn
<1>2. CASE one = NotFound /\ two = NotFound
  BY <1>2 DEF CookieIds
<1>3. CASE one # NotFound /\ two \in {one, NotFound}
  <2>1. <<one>> \in Seq({one})
    OBVIOUS
  <2>2. <<one>> \o <<>> = <<one>>
    BY <2>1, ConcatEmptySeq
  <2>3. CookieIds(jar[b]) = <<one>>
    BY <1>3, <2>2 DEF CookieIds
  <2>4. QED
    BY <1>1, <1>3, <2>3
<1>4. CASE one = NotFound /\ two # NotFound
  <2>1. <<two>> \in Seq({two})
    OBVIOUS
  <2>2. <<>> \o <<two>> = <<two>>
    BY <2>1, ConcatEmptySeq
  <2>3. CookieIds(jar[b]) = <<two>>
    BY <1>4, <2>2 DEF CookieIds
  <2>4. QED
    BY <1>1, <1>4, <2>3
<1>5. CASE one # NotFound /\ two # NotFound /\ one # two
  <2> DEFINE s == <<one>> \o <<two>>
  <2>1. <<one>> \in Seq({one, two}) /\ <<two>> \in Seq({one, two})
    OBVIOUS
  <2>2. Len(s) = 2 /\ s[1] = one /\ s[2] = two
    BY <2>1, ConcatProperties
  <2>3. CookieIds(jar[b]) = s
    BY <1>5 DEF CookieIds
  <2>4. \A i \in 1..Len(s) : s[i] \in {one, two}
    BY <2>2
  <2>5. \A x \in {one, two} : Own(x, b)
    BY <1>1, <1>5
  <2> HIDE DEF s, one, two
  <2>6. QED
    BY <2>3, <2>4, <2>5
<1>6. QED
  BY <1>2, <1>3, <1>4, <1>5

LEMMA Arrived ==
    ASSUME OInv, UNCHANGED <<shared, history>>, NEW r \in Req, pc[r] = "idle",
           NEW p \in {"lookup", "state", "take", "delete", "n8nlogout", "done"},
           NEW q \in Request, q.b \in Browser, q.copy = NotFound,
           \A i \in 1..Len(q.ids) : Own(q.ids[i], q.b),
           q.n8n # NotFound => Granted(q.b, q.n8n),
           NEW to, to # "idp", NEW bridge,
           Goto(r, p), rq' = [rq EXCEPT ![r] = q],
           \/ UNCHANGED resp
           \/ resp' = [resp EXCEPT ![r].to = to]
           \/ resp' = [resp EXCEPT ![r].to = to, ![r].bridge = bridge]
    PROVE  Owned'
<1>1. IInv /\ RequestsOK /\ resp[r] = NoResponse
  BY DEF OInv, Owned, Mine, IInv
<1>2. QuietWorld /\ Grows
  BY Calm DEF QuietWorld, QuietStores, Grows
<1>3. /\ pc'[r] = p /\ rq'[r] = q
      /\ \A x \in Req \ {r} : Still(x)
  BY <1>1 DEF Goto, RequestsOK, Still
<1>4. resp'[r].to # "idp" /\ resp'[r].sid = "keep" /\ resp'[r].n8n = "keep"
  BY <1>1 DEF RequestsOK, NoResponse
<1>5. \A i \in 1..Len(q.ids) : Own(q.ids[i], q.b)'
  <2>1. \A i \in 1..Len(q.ids) : q.ids[i] \in Sid
    BY DEF Request
  <2>2. QED
    BY <1>1, <1>2, <2>1, OwnStays
<1>6. q.n8n # NotFound => Granted(q.b, q.n8n)'
  BY <1>1, <1>2, GrantedStays
<1>7. Mine(pc[r], rq[r], resp[r])'
  BY <1>3, <1>4, <1>5, <1>6 DEF Mine, Checked, ByForm
<1>8. NoNewLogin(r)
  BY <1>3, <1>4 DEF NoNewLogin, Redeems, Sends
<1>9. QED
  BY <1>2, <1>3, <1>7, <1>8, Quiet

\* What a request takes from its browser is the browser's.
LEMMA CarriedFromJar ==
    ASSUME OInv, NEW b \in Browser
    PROVE  /\ Carried(b) \in Request /\ Carried(b).b = b
           /\ Carried(b).copy = NotFound
           /\ \A i \in 1..Len(Carried(b).ids) : Own(Carried(b).ids[i], b)
           /\ Carried(b).n8n # NotFound => Granted(b, Carried(b).n8n)
<1>1. /\ Carried(b) \in Request /\ Carried(b).b = b
      /\ Carried(b).copy = NotFound
      /\ \A i \in 1..Len(Carried(b).ids) : Own(Carried(b).ids[i], b)
  BY CarriedType, CarriedOwn DEF OInv, IInv
<1>2. Carried(b).n8n = jar[b].n8n
  BY DEF Carried, Blank
<1>3. QED
  BY <1>1, <1>2 DEF OInv, Owned, JarsOwn

LEMMA ArriveOwned ==
    ASSUME OInv, NEW r \in Req, Arrive(r)
    PROVE  Owned'
<1>1. PICK b \in Browser :
        \/ \E h \in Handlers : ReceiveWithSession(r, b, h)
        \/ \E h \in Handlers, t \in forms[b] \cup {NotFound},
              c \in Cred \cup {NotFound} : ReceiveForm(r, b, h, t, c)
        \/ \E s, code \in Finished \cup {NotFound} : ReceiveCallback(r, b, s, code)
        \/ ReceiveLogout(r, b)
        \/ ReceiveN8NLogout(r, b)
        \/ ReceiveSignout(r, b)
  BY DEF Arrive
<1>2. /\ Carried(b) \in Request /\ Carried(b).b = b
      /\ Carried(b).copy = NotFound
      /\ \A i \in 1..Len(Carried(b).ids) : Own(Carried(b).ids[i], b)
      /\ Carried(b).n8n # NotFound => Granted(b, Carried(b).n8n)
  BY CarriedFromJar
<1>3. CASE \E h \in Handlers : ReceiveWithSession(r, b, h)
  <2>1. PICK h \in Handlers : ReceiveWithSession(r, b, h)
    BY <1>3
  <2> DEFINE q == [Carried(b) EXCEPT !.h = h]
  <2>2. h \in HandlerKinds
    BY GatewayAssumption
  <2>3. /\ q \in Request /\ q.b = b /\ q.copy = NotFound
        /\ q.ids = Carried(b).ids /\ q.n8n = Carried(b).n8n
    BY <1>2, <2>2 DEF Request
  <2> HIDE DEF q
  <2>4. /\ pc[r] = "idle" /\ UNCHANGED <<shared, history>>
        /\ rq' = [rq EXCEPT ![r] = q]
        /\ \E p \in {"lookup", "state", "done"} : Goto(r, p)
        /\ UNCHANGED resp \/ resp' = [resp EXCEPT ![r].to = "login"]
    BY <2>1 DEF ReceiveWithSession, Receive, At, q
  <2>5. QED
    BY ZenonT(60), <1>2, <2>3, <2>4, Arrived
<1>4. CASE \E h \in Handlers, t \in forms[b] \cup {NotFound},
              c \in Cred \cup {NotFound} : ReceiveForm(r, b, h, t, c)
  <2>1. PICK h \in Handlers, t \in forms[b] \cup {NotFound},
              c \in Cred \cup {NotFound} : ReceiveForm(r, b, h, t, c)
    BY <1>4
  <2> DEFINE q == [Carried(b) EXCEPT !.h = h, !.form = t, !.cred = c]
  <2>2. h \in HandlerKinds /\ t \in Token \cup {NotFound}
    BY GatewayAssumption DEF OInv, IInv, SharedOK, WorldOK
  <2>3. /\ q \in Request /\ q.b = b /\ q.copy = NotFound
        /\ q.ids = Carried(b).ids /\ q.n8n = Carried(b).n8n
    BY ZenonT(60), <1>2, <2>2 DEF Request
  <2> HIDE DEF q
  <2>4. /\ pc[r] = "idle" /\ UNCHANGED <<shared, history>>
        /\ rq' = [rq EXCEPT ![r] = q]
        /\ \E p \in {"lookup", "done"} : Goto(r, p)
        /\ UNCHANGED resp \/ resp' = [resp EXCEPT ![r].to = "login"]
    BY <2>1 DEF ReceiveForm, Receive, At, q
  <2>5. QED
    BY ZenonT(60), <1>2, <2>3, <2>4, Arrived
<1>5. CASE \E s, code \in Finished \cup {NotFound} : ReceiveCallback(r, b, s, code)
  <2>1. PICK s, code \in Finished \cup {NotFound} :
              ReceiveCallback(r, b, s, code)
    BY <1>5
  <2> DEFINE q == [Carried(b) EXCEPT !.h = "callback", !.st = s, !.code = code]
  <2>2. /\ "callback" \in HandlerKinds
        /\ s \in State \cup {NotFound} /\ code \in State \cup {NotFound}
    BY DEF HandlerKinds, Finished
  <2>3. /\ q \in Request /\ q.b = b /\ q.copy = NotFound
        /\ q.ids = Carried(b).ids /\ q.n8n = Carried(b).n8n
    <3>1. ASSUME NEW c \in Request
          PROVE  LET d == [c EXCEPT !.h = "callback", !.st = s, !.code = code]
                 IN  /\ d \in Request /\ d.b = c.b /\ d.copy = c.copy
                     /\ d.ids = c.ids /\ d.n8n = c.n8n
      BY ZenonT(60), <2>2 DEF Request
    <3>2. QED
      BY <1>2, <3>1
  <2> HIDE DEF q
  <2>4. /\ pc[r] = "idle" /\ UNCHANGED <<shared, history>>
        /\ rq' = [rq EXCEPT ![r] = q]
    BY <2>1 DEF ReceiveCallback, Receive, At, q
  <2>5. \/ Goto(r, "done") /\ resp' = [resp EXCEPT ![r].to = "400"]
        \/ Goto(r, "take") /\ UNCHANGED resp
    BY <2>1 DEF ReceiveCallback
  <2>6. CASE Goto(r, "done") /\ resp' = [resp EXCEPT ![r].to = "400"]
    BY <1>2, <2>3, <2>4, <2>6, Arrived
  <2>7. CASE Goto(r, "take") /\ UNCHANGED resp
    BY <1>2, <2>3, <2>4, <2>7, Arrived
  <2>8. QED
    BY <2>5, <2>6, <2>7
<1>6. CASE ReceiveLogout(r, b)
  <2> DEFINE q == [Carried(b) EXCEPT !.h = "logout",
                      !.out = {jar[b].plain, jar[b].host} \ {NotFound}]
  <2>1. /\ "logout" \in HandlerKinds
        /\ {jar[b].plain, jar[b].host} \ {NotFound} \in SUBSET Sid
    BY DEF HandlerKinds, OInv, IInv, SharedOK, WorldOK, Jar
  <2>2. /\ q \in Request /\ q.b = b /\ q.copy = NotFound
        /\ q.ids = Carried(b).ids /\ q.n8n = Carried(b).n8n
    BY ZenonT(60), <1>2, <2>1 DEF Request
  <2> HIDE DEF q
  <2>3. /\ pc[r] = "idle" /\ UNCHANGED <<shared, history>>
        /\ rq' = [rq EXCEPT ![r] = q]
        /\ \E p \in {"delete", "n8nlogout"} : Goto(r, p)
        /\ UNCHANGED resp
    BY <1>6 DEF ReceiveLogout, Receive, At, q
  <2>4. QED
    BY <1>2, <2>2, <2>3, Arrived
<1>7. CASE ReceiveN8NLogout(r, b)
  <2> DEFINE q == [Carried(b) EXCEPT !.h = "n8nlogout"]
  <2>1. "n8nlogout" \in HandlerKinds
    BY DEF HandlerKinds
  <2>2. /\ q \in Request /\ q.b = b /\ q.copy = NotFound
        /\ q.ids = Carried(b).ids /\ q.n8n = Carried(b).n8n
    BY <1>2, <2>1 DEF Request
  <2> HIDE DEF q
  <2>3. /\ pc[r] = "idle" /\ UNCHANGED <<shared, history>>
        /\ rq' = [rq EXCEPT ![r] = q] /\ Goto(r, "n8nlogout") /\ UNCHANGED resp
    BY <1>7 DEF ReceiveN8NLogout, Receive, At, q
  <2>4. QED
    BY <1>2, <2>2, <2>3, Arrived
<1>8. CASE ReceiveSignout(r, b)
  <2> DEFINE q == [Blank EXCEPT !.b = b]
  <2>1. /\ q \in Request /\ q.b = b /\ q.copy = NotFound /\ q.ids = <<>>
        /\ q.n8n = NotFound
    BY EmptySeq DEF Blank, Request, HandlerKinds
  <2>2. \A i \in 1..Len(q.ids) : Own(q.ids[i], b)
    BY <2>1
  <2> HIDE DEF q
  <2>3. /\ pc[r] = "idle" /\ UNCHANGED <<shared, history>>
        /\ rq' = [rq EXCEPT ![r] = q] /\ Goto(r, "done")
        /\ resp' = [resp EXCEPT ![r].to = "root", ![r].bridge = "clear"]
    BY <1>8 DEF ReceiveSignout, Receive, At, q
  <2>4. QED
    BY <2>1, <2>2, <2>3, Arrived
<1>9. QED
  BY <1>1, <1>3, <1>4, <1>5, <1>6, <1>7, <1>8

-----------------------------------------------------------------------------
(* The handlers. *)

\* A handler that ends at a failed call.
LEMMA EndsOwned ==
    ASSUME OInv, NEW r \in Req, pc[r] # "idle", NEW to, to # "idp",
           Respond(r, to), UNCHANGED <<sharedButStore, history>>,
           \A id \in Sid : csrf'[id] \in {csrf[id], NotFound},
           \A s \in State : oidc'[s] \in {oidc[s], NotFound}
    PROVE  Owned'
BY QuietStore, Answered

LEMMA EndsCalmly ==
    ASSUME OInv, NEW r \in Req, pc[r] # "idle", NEW to, to # "idp",
           Respond(r, to), UNCHANGED <<shared, history>>
    PROVE  Owned'
BY Calm, Answered

LEMMA DelSessionQuiet ==
    ASSUME OInv, NEW id \in Sid,
           DelSession(id) \/ UNCHANGED <<sess, csrf>>,
           UNCHANGED <<sharedButStore, oidc, history>>
    PROVE  QuietWorld
<1>1. csrf \in [Sid -> TokenKey \cup {NotFound}]
  BY DEF OInv, IInv, SharedOK, KeysTypeOK
<1>2. \A x \in Sid : csrf'[x] \in {csrf[x], NotFound}
  BY <1>1 DEF DelSession
<1>3. QED
  BY <1>2, QuietStore

\* The ids that are left after the first are still the browser's.
LEMMA RestOwn ==
    ASSUME OInv, NEW r \in Req, rq[r].ids # <<>>
    PROVE  /\ Head(rq[r].ids) \in Sid /\ Own(Head(rq[r].ids), rq[r].b)
           /\ Tail(rq[r].ids) \in Seq(Sid)
           /\ \A i \in 1..Len(Tail(rq[r].ids)) :
                 Own(Tail(rq[r].ids)[i], rq[r].b)
<1> DEFINE s == rq[r].ids
<1>1. s \in Seq(Sid) /\ \A i \in 1..Len(s) : Own(s[i], rq[r].b)
  BY DEF OInv, Owned, IInv, RequestsOK, Request, Mine
<1> HIDE DEF s
<1>2. Head(s) = s[1] /\ 1 \in 1..Len(s) /\ Head(s) \in Sid
  BY <1>1 DEF s
<1>3. /\ Tail(s) \in Seq(Sid) /\ Len(Tail(s)) = Len(s) - 1
      /\ \A i \in 1..Len(Tail(s)) : Tail(s)[i] = s[i + 1]
  BY <1>1 DEF s
<1>4. \A i \in 1..Len(Tail(s)) : i + 1 \in 1..Len(s)
  BY <1>1, <1>3
<1>5. QED
  BY <1>1, <1>2, <1>3, <1>4 DEF s

\* The session found is one the browser's cookies name.
LEMMA LookupFoundOwned ==
    ASSUME OInv, NEW r \in Req, LookupFound(r)
    PROVE  Owned'
<1> DEFINE id == Head(rq[r].ids)
           q  == [rq[r] EXCEPT !.id = id, !.copy = LiveSession(id),
                               !.ids = <<>>]
           p  == AfterSession(rq[r])
<1>1. /\ rq[r] \in Request /\ rq[r].ids # <<>> /\ SharedOK
      /\ pc[r] = "lookup" /\ LiveSession(id) # NotFound
  BY DEF LookupFound, At, OInv, IInv, RequestsOK, Ready
<1>2. id \in Sid /\ Own(id, rq[r].b)
  BY <1>1, RestOwn
<1>3. LiveSession(id) \in Session
  BY <1>1, <1>2, LiveType
<1>4. /\ q \in Request /\ q.b = rq[r].b /\ q.id = id /\ q.ids = <<>>
      /\ q.h = rq[r].h /\ q.n8n = rq[r].n8n
  BY <1>1, <1>2, <1>3, EmptySeq DEF Request
<1>5. /\ p \in {"csrf", "proxy", "current", "vault"}
      /\ p = "vault" => q.h # "linkpost"
  BY <1>4 DEF AfterSession
<1>6. p \in PCs \ {"idle", "take", "exchange", "create"}
  BY <1>5 DEF PCs
<1>7. /\ UNCHANGED <<shared, history>> /\ UNCHANGED resp
      /\ Goto(r, p) /\ rq' = [rq EXCEPT ![r] = q]
  BY DEF LookupFound
<1> HIDE DEF q, p
<1>8. \A i \in 1..Len(q.ids) : Own(q.ids[i], q.b)
  BY <1>4
<1>9. ~Checked(p, q) /\ ~ByForm(p, q) /\ p # "setcsrf"
  BY <1>5 DEF Checked, ByForm
<1>10. resp[r] \in Response /\ resp' = [resp EXCEPT ![r] = resp[r]]
  BY <1>7, SameResponse
<1>11. QED
  BY <1>1, <1>2, <1>4, <1>5, <1>6, <1>7, <1>8, <1>9, <1>10, Calm, GoesOn

LEMMA LookupMissingOwned ==
    ASSUME OInv, NEW r \in Req, LookupMissing(r)
    PROVE  Owned'
<1> DEFINE rest == Tail(rq[r].ids)
           q == [rq[r] EXCEPT !.ids = rest]
<1>1. /\ rq[r] \in Request /\ rq[r].ids # <<>> /\ pc[r] = "lookup"
      /\ Faithful(rq[r]) /\ Mine(pc[r], rq[r], resp[r])
      /\ resp[r] \in Response /\ RequestsOK
  BY DEF LookupMissing, At, OInv, Owned, IInv, RequestsOK, Ready
<1>2. /\ Head(rq[r].ids) \in Sid /\ rest \in Seq(Sid)
      /\ \A i \in 1..Len(rest) : Own(rest[i], rq[r].b)
  BY <1>1, RestOwn
<1>3. QuietWorld
  BY <1>2, DelSessionQuiet DEF LookupMissing
<1>4. q \in Request /\ q.b = rq[r].b /\ q.ids = rest
      /\ q.copy = rq[r].copy /\ q.id = rq[r].id /\ q.n8n = rq[r].n8n
  BY <1>1, <1>2 DEF Request
<1>5. /\ \A i \in 1..Len(q.ids) : Own(q.ids[i], q.b)
      /\ q.copy # NotFound => q.id \in Sid /\ Own(q.id, q.b)
  BY <1>1, <1>2, <1>4 DEF Mine, Faithful
<1>6. CASE rest # <<>>
  <2>1. /\ Goto(r, "lookup") /\ rq' = [rq EXCEPT ![r] = q] /\ UNCHANGED resp
        /\ "lookup" \in PCs
    BY <1>1, <1>6 DEF LookupMissing, Goto, RequestsOK, PCs
  <2>2. resp' = [resp EXCEPT ![r] = resp[r]]
    BY <2>1, SameResponse
  <2>3. ~Checked("lookup", q) /\ ~ByForm("lookup", q)
    BY DEF Checked, ByForm
  <2> HIDE DEF q
  <2>4. QED
    BY <1>1, <1>3, <1>4, <1>5, <2>1, <2>2, <2>3, GoesOn
<1>7. CASE rest = <<>> /\ rq[r].h = "login"
  <2> DEFINE a == [resp[r] EXCEPT !.sid = "clear"]
  <2>1. /\ Goto(r, "state") /\ rq' = [rq EXCEPT ![r] = q]
        /\ resp' = [resp EXCEPT ![r] = a] /\ "state" \in PCs
    BY <1>7 DEF LookupMissing, Serves, PCs
  <2>2. /\ a \in Response /\ a.sid = "clear"
        /\ a.to = resp[r].to /\ a.n8n = resp[r].n8n
    BY <1>1 DEF Response
  <2>3. ~Checked("state", q) /\ ~ByForm("state", q)
    BY DEF Checked, ByForm
  <2> HIDE DEF q, a
  <2>4. QED
    BY <1>1, <1>3, <1>4, <1>5, <2>1, <2>2, <2>3, GoesOn
<1>8. CASE rest = <<>> /\ rq[r].h # "login"
  <2> DEFINE a == [resp[r] EXCEPT !.sid = "clear", !.to = "login"]
  <2>1. Leave(r) /\ resp' = [resp EXCEPT ![r] = a]
    BY <1>8 DEF LookupMissing, Serves
  <2>2. a.sid = "clear" /\ a.to = "login" /\ a.n8n = resp[r].n8n
    BY <1>1 DEF Response
  <2> HIDE DEF a
  <2>3. QED
    BY <1>1, <1>3, <2>1, <2>2, Ended
<1>9. QED
  BY <1>6, <1>7, <1>8

\* The session read again is still the one the request started with.
LEMMA ReloadOwned ==
    ASSUME OInv, NEW r \in Req, Reload(r)
    PROVE  Owned'
<1> DEFINE v == LiveSession(rq[r].id)
           q == [rq[r] EXCEPT !.copy = v]
<1>1. /\ rq[r] \in Request /\ pc[r] = "reload" /\ v # NotFound
      /\ Faithful(rq[r]) /\ Mine(pc[r], rq[r], resp[r])
      /\ rq[r].copy # NotFound /\ SharedOK
  BY DEF Reload, At, OInv, Owned, IInv, RequestsOK, Ready, HasSession
<1>2. rq[r].id \in Sid
  BY <1>1 DEF Faithful
<1>3. v \in Session /\ v.user = rq[r].copy.user
  BY <1>1, <1>2, LiveType DEF Faithful
<1>4. /\ q \in Request /\ q.b = rq[r].b /\ q.ids = rq[r].ids
      /\ q.id = rq[r].id /\ q.copy = v /\ q.cred = rq[r].cred
      /\ q.n8n = rq[r].n8n
  BY <1>1, <1>3 DEF Request
<1>5. /\ \A i \in 1..Len(q.ids) : Own(q.ids[i], q.b)
      /\ Own(q.id, q.b)
      /\ <<q.copy.user, q.cred>> \in validated
  BY <1>1, <1>3, <1>4 DEF Mine, Checked
<1>6. /\ UNCHANGED <<shared, history>> /\ UNCHANGED resp
      /\ Goto(r, "save") /\ rq' = [rq EXCEPT ![r] = q] /\ "save" \in PCs
  BY DEF Reload, PCs
<1>7. /\ QuietWorld
      /\ resp[r] \in Response /\ resp' = [resp EXCEPT ![r] = resp[r]]
  BY <1>6, SameResponse, Calm
<1>8. validated' = validated /\ ~ByForm("save", q)
  BY <1>6 DEF history, ByForm
<1> HIDE DEF q
<1>9. QED
  BY <1>1, <1>2, <1>4, <1>5, <1>6, <1>7, <1>8, GoesOn

LEMMA ReloadFailsOwned ==
    ASSUME OInv, NEW r \in Req, ReloadFails(r)
    PROVE  Owned'
<1>1. pc[r] = "reload" /\ rq[r].id \in Sid
  BY DEF ReloadFails, At, OInv, IInv, RequestsOK, Ready, Faithful, HasSession
<1>2. QuietWorld
  BY <1>1, DelSessionQuiet DEF ReloadFails
<1>3. QED
  BY <1>1, <1>2, Answered DEF ReloadFails

\* The credential in Vault was accepted for the session's user.
LEMMA GetCredentialOwned ==
    ASSUME OInv, NEW r \in Req, GetCredential(r)
    PROVE  Owned'
<1> DEFINE u == rq[r].copy.user
           q == [rq[r] EXCEPT !.cred = vault[u]]
<1>1. /\ rq[r] \in Request /\ pc[r] = "vault" /\ Faithful(rq[r])
      /\ Mine(pc[r], rq[r], resp[r]) /\ rq[r].copy # NotFound
      /\ VaultHoldsAcceptedCredentials /\ WorldOK
  BY DEF GetCredential, At, OInv, Owned, IInv, SharedOK, RequestsOK, Ready,
         HasSession
<1>2. u \in User
  BY <1>1 DEF Request, Session
<1>3. UNCHANGED <<shared, history>>
  BY DEF GetCredential
<1>4. CASE \E to \in {"page", "link"} : Respond(r, to)
  <2>1. PICK to \in {"page", "link"} : Respond(r, to)
    BY <1>4
  <2>2. QED
    BY <1>1, <1>3, <2>1, EndsCalmly
<1>5. CASE /\ vault[u] # NotFound /\ rq' = [rq EXCEPT ![r] = q]
           /\ Goto(r, "n8nlogin") /\ UNCHANGED resp
  <2>1. vault[u] \in Cred /\ <<u, vault[u]>> \in validated
    BY <1>1, <1>2, <1>5 DEF WorldOK, VaultHoldsAcceptedCredentials
  <2>2. /\ q \in Request /\ q.b = rq[r].b /\ q.ids = rq[r].ids
        /\ q.id = rq[r].id /\ q.copy = rq[r].copy /\ q.cred = vault[u]
        /\ q.h = rq[r].h /\ q.n8n = rq[r].n8n
    BY <1>1, <2>1 DEF Request
  <2>3. /\ \A i \in 1..Len(q.ids) : Own(q.ids[i], q.b)
        /\ q.id \in Sid /\ Own(q.id, q.b) /\ q.h # "linkpost"
    BY <1>1, <2>2 DEF Mine, Faithful
  <2>4. validated' = validated /\ ~ByForm("n8nlogin", q)
    BY <1>3, <2>3 DEF history, ByForm
  <2>5. /\ QuietWorld /\ "n8nlogin" \in PCs
        /\ resp[r] \in Response /\ resp' = [resp EXCEPT ![r] = resp[r]]
    BY <1>3, <1>5, SameResponse, Calm DEF PCs
  <2> HIDE DEF q
  <2>6. QED
    BY <1>1, <1>5, <2>1, <2>2, <2>3, <2>4, <2>5, GoesOn
<1>6. QED
  BY <1>4, <1>5 DEF GetCredential, UserOf

\* The one place where n8n accepts a pair that Vault does not hold yet.
LEMMA N8NLoginOwned ==
    ASSUME OInv, NEW r \in Req, N8NLogin(r)
    PROVE  Owned'
<1>1. pc[r] = "n8nlogin" /\ Mine(pc[r], rq[r], resp[r])
  BY DEF N8NLogin, At, OInv, Owned
<1>2. validated \subseteq validated'
  BY DEF N8NLogin
<1>3. QuietWorld
  BY <1>2 DEF N8NLogin, shared, sharedButStore, keys, external, browsers,
              QuietWorld, QuietStores
<1>4. CASE /\ rq[r].h = "linkpost" /\ Goto(r, "put") /\ UNCHANGED <<rq, resp>>
           /\ <<rq[r].copy.user, rq[r].cred>> \in validated'
  <2>1. rq[r].form \in issued'[rq[r].id]
    BY <1>1, <1>4 DEF Mine, ByForm, N8NLogin
  <2>2. QED
    BY <1>1, <1>3, <1>4, <2>1, SameResponse, GoesOnAsIs DEF PCs
<1>5. CASE rq[r].h = "callback" /\ Goto(r, "reload") /\ UNCHANGED <<rq, resp>>
  <2>1. /\ <<rq[r].copy.user, rq[r].cred>> \in validated'
        /\ ~ByForm("reload", rq[r])
    BY <1>1, <1>2, <1>5 DEF Mine, Checked, ByForm
  <2>2. QED
    BY <1>1, <1>3, <1>5, <2>1, SameResponse, GoesOnAsIs DEF PCs
<1>6. CASE /\ rq[r].h \in {"me", "login", "alias", "console"}
           /\ \E to \in {"me", "return"} : RespondLoggedIn(r, to)
  <2>1. PICK to \in {"me", "return"} : RespondLoggedIn(r, to)
    BY <1>6
  <2>2. Checked(pc[r], rq[r])
    BY <1>1, <1>6 DEF Checked
  <2>3. QED
    BY <1>3, <2>1, <2>2, AnsweredLoggedIn
<1>7. QED
  BY <1>4, <1>5, <1>6 DEF N8NLogin, Serves, UserOf

LEMMA N8NLoginFailsOwned ==
    ASSUME OInv, NEW r \in Req, NEW cause, N8NLoginFails(r, cause)
    PROVE  Owned'
<1> DEFINE to == IF cause = "limited" THEN "429"
                 ELSE IF Serves(r, {"linkpost"}) THEN "400" ELSE "relink"
           a  == [resp[r] EXCEPT !.cause = cause, !.to = to]
<1>1. /\ pc[r] = "n8nlogin" /\ resp[r] \in Response
      /\ UNCHANGED <<shared, history>>
  BY DEF N8NLoginFails, At, OInv, IInv, RequestsOK
<1>2. Leave(r) /\ resp' = [resp EXCEPT ![r] = a]
  BY DEF N8NLoginFails, RespondLoginError
<1>3. a.to # "idp" /\ a.sid = resp[r].sid /\ a.n8n = resp[r].n8n
  BY <1>1 DEF Response
<1> HIDE DEF a
<1>4. QED
  BY <1>1, <1>2, <1>3, Calm, Ended

LEMMA SaveOwned ==
    ASSUME OInv, NEW r \in Req, SaveSession(r) \/ SaveSessionFails(r)
    PROVE  Owned'
<1>1. /\ pc[r] = "save"
      /\ UNCHANGED <<sharedButStore, csrf, oidc, history>>
  BY DEF SaveSession, SaveSessionFails, At
<1>2. QuietWorld
  BY <1>1, QuietStore
<1>3. CASE /\ rq[r].h \in {"callback", "linkpost"}
           /\ \E to \in {"return", "root"} : RespondLoggedIn(r, to)
  <2>1. PICK to \in {"return", "root"} : RespondLoggedIn(r, to)
    BY <1>3
  <2>2. Checked(pc[r], rq[r])
    BY <1>1, <1>3 DEF Checked
  <2>3. QED
    BY <1>2, <2>1, <2>2, AnsweredLoggedIn
<1>4. CASE \E to \in {"link", "503"} : Respond(r, to)
  <2>1. PICK to \in {"link", "503"} : Respond(r, to)
    BY <1>4
  <2>2. QED
    BY <1>1, <1>2, <2>1, Answered
<1>5. QED
  BY <1>3, <1>4 DEF SaveSession, SaveSessionFails, Serves

LEMMA LinkPageTokenOwned ==
    ASSUME OInv, NEW r \in Req, LinkPageToken(r)
    PROVE  Owned'
<1> DEFINE t == StoredToken(rq[r].id)
           a == [resp[r] EXCEPT !.page = t]
<1>1. /\ pc[r] = "csrf" /\ rq[r].h = "linkget" /\ rq[r].id \in Sid
      /\ resp[r] \in Response /\ KeysTypeOK /\ QuietWorld /\ UNCHANGED rq
  BY Calm DEF LinkPageToken, At, Serves, OInv, IInv, SharedOK, RequestsOK,
              Ready, Faithful, HasSession
<1>2. /\ ~Checked("setcsrf", rq[r]) /\ ~ByForm("setcsrf", rq[r])
      /\ ~Checked("vault", rq[r]) /\ ~ByForm("vault", rq[r])
      /\ "setcsrf" \in PCs /\ "vault" \in PCs
  BY DEF Checked, ByForm, PCs
<1>3. CASE t = NotFound
  <2>1. Goto(r, "setcsrf") /\ UNCHANGED resp
    BY <1>3 DEF LinkPageToken
  <2>2. QED
    BY <1>1, <1>2, <2>1, SameResponse, GoesOnAsIs
<1>4. CASE t # NotFound
  <2>1. Goto(r, "vault") /\ resp' = [resp EXCEPT ![r] = a]
    BY <1>4 DEF LinkPageToken
  <2>2. t \in Token
    BY <1>1, <1>4 DEF StoredToken, ValueOf, KeysTypeOK, TokenKey
  <2>3. /\ a \in Response /\ a.to = resp[r].to /\ a.n8n = resp[r].n8n
        /\ a.sid = resp[r].sid
    BY <1>1, <2>2 DEF Response
  <2> HIDE DEF a
  <2>4. QED
    BY <1>1, <1>2, <2>1, <2>3, GoesOnAsIs
<1>5. QED
  BY <1>3, <1>4

LEMMA SetCSRFOwned ==
    ASSUME OInv, NEW r \in Req, NEW t \in Token, SetCSRF(r, t)
    PROVE  Owned'
<1> DEFINE a == [resp[r] EXCEPT !.page = t]
<1>1. /\ pc[r] = "setcsrf" /\ rq[r].h = "linkget" /\ rq[r].id \in Sid
      /\ resp[r] \in Response /\ KeysTypeOK /\ HistoryOK
  BY DEF SetCSRF, At, OInv, Owned, Mine, IInv, SharedOK, RequestsOK,
         Ready, Faithful, HasSession
<1>2. \A id \in Sid : issued[id] \subseteq issued'[id]
  BY <1>1 DEF SetCSRF, HistoryOK
<1>3. \A id \in Sid : csrf'[id] = csrf[id] \/ csrf'[id].val \in issued'[id]
  <2>1. t \in issued'[rq[r].id]
    BY <1>1 DEF SetCSRF, HistoryOK
  <2>2. SetToken(rq[r].id, t) \/ UNCHANGED csrf
    BY DEF SetCSRF
  <2>3. QED
    BY <1>1, <2>1, <2>2 DEF SetToken, KeysTypeOK
<1>4. QuietWorld
  BY <1>2, <1>3
     DEF SetCSRF, sharedButStore, external, browsers, QuietWorld, QuietStores
<1>5. CASE /\ resp' = [resp EXCEPT ![r].page = t]
           /\ Goto(r, "vault") /\ UNCHANGED rq
  <2>1. resp' = [resp EXCEPT ![r] = a]
    BY <1>5
  <2>2. /\ a \in Response /\ a.to = resp[r].to /\ a.n8n = resp[r].n8n
        /\ a.sid = resp[r].sid
    BY <1>1 DEF Response
  <2>3. ~Checked("vault", rq[r]) /\ ~ByForm("vault", rq[r]) /\ "vault" \in PCs
    BY DEF Checked, ByForm, PCs
  <2> HIDE DEF a
  <2>4. QED
    BY <1>1, <1>4, <1>5, <2>1, <2>2, <2>3, GoesOnAsIs
<1>6. CASE Respond(r, "503")
  BY <1>1, <1>4, <1>6, Answered
<1>7. QED
  BY <1>5, <1>6 DEF SetCSRF

\* A form passes with a token that was drawn for its session.
LEMMA ValidateCSRFOwned ==
    ASSUME OInv, NEW r \in Req, ValidateCSRF(r)
    PROVE  Owned'
<1> DEFINE q == rq[r]
           p == AfterForm(q)
<1>1. /\ pc[r] = "csrf" /\ q.id \in Sid /\ TokenMatches(q)
      /\ q.h \in {"linkpost", "linkdelete"}
      /\ UNCHANGED <<shared, history>> /\ TokensIssued
  BY DEF ValidateCSRF, At, Serves, OInv, Owned, IInv, RequestsOK, Ready,
         Faithful, HasSession
<1>2. q.form \in issued[q.id]
  BY <1>1 DEF TokenMatches, StoredToken, ValueOf, TokensIssued
<1>3. CASE Goto(r, p) /\ UNCHANGED <<rq, resp>>
  <2>1. /\ p \in {"delcred", "n8nlogin"} /\ ~Checked(p, q)
        /\ p \in PCs \ {"idle", "take", "exchange", "create"}
    BY <1>1 DEF AfterForm, Checked, PCs
  <2>2. QuietWorld /\ issued' = issued
    BY <1>1, Calm DEF history
  <2>3. QED
    BY <1>1, <1>2, <1>3, <2>1, <2>2, SameResponse, GoesOnAsIs
<1>4. CASE Respond(r, "400")
  BY <1>1, <1>4, EndsCalmly
<1>5. QED
  BY <1>3, <1>4 DEF ValidateCSRF

LEMMA UpdateCredentialOwned ==
    ASSUME OInv, NEW r \in Req,
           UpdateCredential(r) \/ UpdateCredentialFails(r)
    PROVE  Owned'
<1>1. /\ pc[r] \in {"put", "delcred"}
      /\ UNCHANGED <<now, keys, secure, external, browsers, history>>
      /\ Mine(pc[r], rq[r], resp[r]) /\ Ready(pc[r], rq[r], resp[r])
  BY DEF UpdateCredential, UpdateCredentialFails, sharedButVault, OInv, Owned,
         IInv, RequestsOK
<1>2. QuietWorld
  BY <1>1 DEF keys, external, browsers, history, QuietWorld, QuietStores
<1>3. CASE Goto(r, "save") /\ UNCHANGED <<rq, resp>>
  <2>1. validated' = validated
    BY <1>1 DEF history
  <2>2. /\ Checked("save", rq[r]) =>
             <<rq[r].copy.user, rq[r].cred>> \in validated'
        /\ ~ByForm("save", rq[r])
    BY <1>1, <2>1 DEF Mine, Ready, Checked, ByForm
  <2>3. QED
    BY <1>1, <1>2, <1>3, <2>2, SameResponse, GoesOnAsIs DEF PCs
<1>4. CASE Respond(r, "503")
  BY <1>1, <1>2, <1>4, Answered
<1>5. QED
  BY <1>3, <1>4 DEF UpdateCredential, UpdateCredentialFails

LEMMA DeleteSessionOwned ==
    ASSUME OInv, NEW r \in Req, DeleteSession(r)
    PROVE  Owned'
<1> DEFINE id   == Head(rq[r].ids)
           rest == Tail(rq[r].ids)
           p    == IF rest = <<>> THEN "n8nlogout" ELSE "delete"
<1>1. /\ rq[r] \in Request /\ rq[r].ids # <<>> /\ pc[r] = "delete"
      /\ Faithful(rq[r]) /\ Mine(pc[r], rq[r], resp[r])
      /\ UNCHANGED resp /\ Goto(r, p)
  BY DEF DeleteSession, At, OInv, Owned, IInv, RequestsOK, Ready
<1>2. /\ id \in Sid /\ rest \in Seq(Sid)
      /\ \A i \in 1..Len(rest) : Own(rest[i], rq[r].b)
  BY <1>1, RestOwn
<1>3. QuietWorld
  BY <1>2, DelSessionQuiet DEF DeleteSession
<1>4. PICK out \in SUBSET Sid :
        rq' = [rq EXCEPT ![r] = [rq[r] EXCEPT !.ids = rest, !.out = out]]
  <2>1. rq[r].out \in SUBSET Sid /\ rq[r].out \ {id} \in SUBSET Sid
        /\ rq[r] = [rq[r] EXCEPT !.out = rq[r].out]
    BY <1>1 DEF Request
  <2>2. \/ rq' = [rq EXCEPT ![r] = [rq[r] EXCEPT !.ids = rest]]
        \/ rq' = [rq EXCEPT ![r] = [rq[r] EXCEPT !.ids = rest,
                                                 !.out = rq[r].out \ {id}]]
    BY DEF DeleteSession
  <2>3. [rq[r] EXCEPT !.ids = rest] =
           [rq[r] EXCEPT !.ids = rest, !.out = rq[r].out]
    BY <1>1 DEF Request
  <2>4. QED
    BY <2>1, <2>2, <2>3
<1> DEFINE q == [rq[r] EXCEPT !.ids = rest, !.out = out]
<1>5. /\ q \in Request /\ q.b = rq[r].b /\ q.ids = rest
      /\ q.copy = rq[r].copy /\ q.id = rq[r].id /\ q.n8n = rq[r].n8n
  BY <1>1, <1>2 DEF Request
<1>6. /\ \A i \in 1..Len(q.ids) : Own(q.ids[i], q.b)
      /\ q.copy # NotFound => q.id \in Sid /\ Own(q.id, q.b)
  BY <1>1, <1>2, <1>5 DEF Mine, Faithful
<1>7. ~Checked(p, q) /\ ~ByForm(p, q)
      /\ p \in PCs \ {"idle", "take", "exchange", "create"}
      /\ p \notin {"vault", "setcsrf"}
  BY DEF Checked, ByForm, PCs
<1>8. resp[r] \in Response /\ resp' = [resp EXCEPT ![r] = resp[r]]
      /\ rq' = [rq EXCEPT ![r] = q]
  BY <1>1, <1>4, SameResponse
<1> HIDE DEF p, q
<1>9. QED
  BY <1>1, <1>3, <1>5, <1>6, <1>7, <1>8, GoesOn

LEMMA N8NLogoutOwned ==
    ASSUME OInv, NEW r \in Req, N8NLogout(r)
    PROVE  Owned'
<1>1. /\ pc[r] = "n8nlogout" /\ Leave(r) /\ resp[r] \in Response
      /\ RequestsOK
  BY DEF N8NLogout, At, OInv, IInv, RequestsOK
<1>2. QuietWorld
  BY DEF N8NLogout, shared, sharedButStore, keys, external, browsers,
         QuietWorld, QuietStores
<1>3. PICK cookie \in {"clear", "keep"} :
        resp' = [resp EXCEPT ![r].to = "root", ![r].bridge = "clear",
                   ![r].n8n = cookie,
                   ![r].sid = IF Serves(r, {"logout"}) THEN "clear" ELSE @]
  BY DEF N8NLogout, LogoutAnswers
<1> DEFINE sid == IF Serves(r, {"logout"}) THEN "clear" ELSE resp[r].sid
           a == [resp[r] EXCEPT !.to = "root", !.bridge = "clear",
                                !.n8n = cookie, !.sid = sid]
<1>4. resp' = [resp EXCEPT ![r] = a]
  BY <1>1, <1>3 DEF RequestsOK, Response
<1>5. /\ a.to = "root" /\ a.n8n = cookie /\ a.sid = sid
      /\ sid \in {"clear", resp[r].sid}
  BY <1>1 DEF Response
<1> HIDE DEF a, sid
<1>6. QED
  BY <1>1, <1>2, <1>4, <1>5, Ended

\* n8n renews a cookie for the browser that sent it.
LEMMA RelayOwned ==
    ASSUME OInv, UNCHANGED <<shared, history>>, NEW r \in Req, pc[r] # "idle",
           NEW to \in {"me", "console"},
           \/ Relay(r, to, Renewals(r))
           \/ Relay(r, to, ProxiedCookies(r))
    PROVE  Owned'
<1>1. PICK cookie \in {"clear", resp[r].n8n} \cup ({rq[r].n8n} \ {NotFound}) :
        resp' = [resp EXCEPT ![r].to = to, ![r].n8n = cookie]
  BY DEF Relay, Renewals, ProxiedCookies
<1> DEFINE a == [resp[r] EXCEPT !.to = to, !.n8n = cookie]
<1>2. resp[r] \in Response /\ Mine(pc[r], rq[r], resp[r])
  BY DEF OInv, Owned, IInv, RequestsOK
<1>3. a.to # "idp" /\ a.sid = resp[r].sid /\ a.n8n = cookie
  BY <1>2 DEF Response
<1>4. cookie \in {"keep", "clear", resp[r].n8n} \/ Granted(rq[r].b, cookie)
  BY <1>1, <1>2 DEF Mine
<1>5. resp' = [resp EXCEPT ![r] = a] /\ Leave(r)
  BY <1>1 DEF Relay
<1> HIDE DEF a
<1>6. QED
  BY <1>3, <1>4, <1>5, Calm, Ended

LEMMA CurrentUserOwned ==
    ASSUME OInv, NEW r \in Req, CurrentUser(r)
    PROVE  Owned'
<1>1. /\ pc[r] = "current" /\ rq[r].h = "me" /\ UNCHANGED <<shared, history>>
  BY DEF CurrentUser, At, OInv, IInv, RequestsOK, Ready
<1>2. CASE Relay(r, "me", Renewals(r))
  BY <1>1, <1>2, RelayOwned
<1>3. CASE Goto(r, "vault") /\ UNCHANGED <<rq, resp>>
  <2>1. ~Checked("vault", rq[r]) /\ ~ByForm("vault", rq[r]) /\ "vault" \in PCs
    BY DEF Checked, ByForm, PCs
  <2>2. QED
    BY <1>1, <1>3, <2>1, Calm, SameResponse, GoesOnAsIs
<1>4. QED
  BY <1>2, <1>3 DEF CurrentUser

\* Handlers that only answer.
LEMMA AnswersOwned ==
    ASSUME OInv, NEW r \in Req,
           \/ LookupFails(r) \/ RandomFails(r) \/ ExchangeFails(r)
           \/ CreateSessionFails(r) \/ GetCredentialFails(r)
           \/ LinkPageFails(r) \/ ValidateCSRFFails(r) \/ ProxyConsole(r)
    PROVE  Owned'
<1>1. CASE ProxyConsole(r) /\ Relay(r, "console", ProxiedCookies(r))
  BY <1>1, RelayOwned DEF ProxyConsole, At
<1>2. CASE \E to \in {"503", "500", "401", "403", "502"} :
             Respond(r, to) /\ pc[r] # "idle" /\ UNCHANGED <<shared, history>>
  BY <1>2, EndsCalmly
<1>3. QED
  BY <1>1, <1>2
     DEF LookupFails, RandomFails, ExchangeFails, CreateSessionFails,
         GetCredentialFails, LinkPageFails, ValidateCSRFFails, ProxyConsole, At

LEMMA TakeStateFailsOwned ==
    ASSUME OInv, NEW r \in Req, TakeStateFails(r)
    PROVE  Owned'
<1>1. oidc \in [State -> StateKey \cup {NotFound}]
  BY DEF OInv, IInv, SharedOK, KeysTypeOK
<1>2. \A s \in State : oidc'[s] \in {oidc[s], NotFound}
  BY <1>1 DEF TakeStateFails, GetDelState
<1>3. UNCHANGED <<sharedButStore, history, csrf>>
  BY DEF TakeStateFails
<1>4. pc[r] # "idle" /\ Respond(r, "400")
  BY DEF TakeStateFails, At
<1>5. QED
  BY <1>2, <1>3, <1>4, EndsOwned

-----------------------------------------------------------------------------
(* A login: a state is drawn, taken back by a callback, and turned into a   *)
(* session.                                                                 *)

LEMMA StartLoginOwned ==
    ASSUME OInv, NEW r \in Req, NEW s \in State,
           StartLogin(r, s) \/ StartLoginFails(r, s)
    PROVE  Owned'
<1>1. /\ pc[r] = "state" /\ s \notin drawn /\ drawn' = drawn \cup {s}
      /\ SetState(s) \/ UNCHANGED oidc
      /\ UNCHANGED <<jar, csrf, issued, origin, holder, bearer, validated>>
      /\ Leave(r) /\ resp[r] \in Response
  BY DEF StartLogin, StartLoginFails, At, Respond, sharedButStore, external,
         browsers, OInv, IInv, RequestsOK
<1>2. /\ StatesOnce /\ SentDrawn /\ BornTogether
      /\ oidc \in [State -> StateKey \cup {NotFound}]
      /\ \A x \in Req : Redeems(x) => rq[x].st \in State
      /\ \A id \in Sid : origin[id] # NotFound => origin[id] \in State
  BY DEF OInv, Owned, IInv, SharedOK, KeysTypeOK, HistoryOK, RequestsOK, Ready,
         Redeems
<1>3. \A x \in State \ {s} : oidc'[x] = oidc[x]
  BY <1>1, <1>2 DEF SetState
<1>4. PICK a \in {[resp[r] EXCEPT !.to = "503"],
                  [resp[r] EXCEPT !.to = "idp", !.st = s]} :
        resp' = [resp EXCEPT ![r] = a]
  BY <1>1 DEF StartLogin, StartLoginFails, Respond
<1>5. /\ a.sid = resp[r].sid /\ a.n8n = resp[r].n8n
      /\ a.to = "idp" => a.st = s
  BY <1>1, <1>4 DEF Response
<1>6. Grows
  BY <1>1 DEF Grows
<1>7. /\ pc'[r] = "done" /\ resp'[r] = a
      /\ \A x \in Req \ {r} : Still(x)
      /\ Mine(pc[r], rq[r], resp[r])'
  BY <1>1, <1>4, <1>5, <1>6, Leaving
<1>8. /\ \A x \in Req : Mine(pc[x], rq[x], resp[x])'
      /\ JarsOwn' /\ TokensIssued'
  BY <1>1, <1>6, <1>7, MineStays, JarsStay DEF OInv, Owned, TokensIssued
<1>9. \A x \in Req : Redeems(x)' => Redeems(x) /\ rq'[x].st = rq[x].st
  BY <1>7 DEF Redeems, Still
<1>10. StatesOnce'
  <2>1. OneSessionPerLogin'
    BY <1>1, <1>2 DEF StatesOnce, OneSessionPerLogin
  <2>2. \A x \in Req : Redeems(x)' =>
          /\ rq'[x].st \in drawn' /\ oidc'[rq'[x].st] = NotFound
          /\ \A id \in Sid : origin'[id] # rq'[x].st
    BY <1>1, <1>2, <1>3, <1>9 DEF StatesOnce
  <2>3. \A x, y \in Req :
          Redeems(x)' /\ Redeems(y)' /\ rq'[x].st = rq'[y].st => x = y
    BY <1>2, <1>9 DEF StatesOnce
  <2>4. /\ \A x \in State : oidc'[x] # NotFound => x \in drawn'
        /\ \A id \in Sid : origin'[id] # NotFound =>
             /\ origin'[id] \in drawn' /\ oidc'[origin'[id]] = NotFound
             /\ holder'[id] # NotFound
    BY <1>1, <1>2, <1>3 DEF StatesOnce
  <2>5. QED
    BY <2>1, <2>2, <2>3, <2>4 DEF StatesOnce
<1>11. SentDrawn' /\ BornTogether'
  <2>1. Sends(r)' => resp'[r].st = s
    BY <1>5, <1>7 DEF Sends
  <2>2. \A x \in Req \ {r} : Sends(x)' => Sends(x) /\ Still(x)
    BY <1>7 DEF Sends, Still
  <2>3. \A x \in Req : Sends(x)' =>
          pc'[x] = "done" /\ resp'[x].st \in drawn'
    BY <1>1, <1>2, <1>7, <2>1, <2>2 DEF SentDrawn, Still
  <2>4. QED
    BY <1>1, <1>2, <2>3 DEF SentDrawn, BornTogether
<1>12. QED
  BY <1>8, <1>10, <1>11 DEF Owned

\* GETDEL: of two callbacks with one state, one takes it.
LEMMA TakeStateOwned ==
    ASSUME OInv, NEW r \in Req, TakeState(r)
    PROVE  Owned'
<1> DEFINE s == rq[r].st
<1>1. /\ pc[r] = "take" /\ s \in State /\ oidc[s] # NotFound
      /\ Mine(pc[r], rq[r], resp[r])
  BY DEF TakeState, At, StoredState, ValueOf, OInv, Owned, IInv, RequestsOK,
         Ready
<1>2. /\ UNCHANGED <<jar, drawn, csrf, issued, origin, holder, bearer,
                     validated, rq, resp>>
      /\ oidc' = [oidc EXCEPT ![s] = NotFound]
      /\ oidc \in [State -> StateKey \cup {NotFound}]
      /\ pc' = [pc EXCEPT ![r] = "exchange"] /\ pc \in [Req -> PCs]
  BY DEF TakeState, GetDelState, Goto, sharedButStore, external, browsers,
         history, OInv, IInv, SharedOK, KeysTypeOK, RequestsOK
<1>3. StatesOnce /\ SentDrawn /\ BornTogether /\ Grows
  BY <1>2 DEF OInv, Owned, Grows
<1>4. pc'[r] = "exchange" /\ \A x \in Req \ {r} : Still(x)
  BY <1>2 DEF Still
<1>5. Mine(pc[r], rq[r], resp[r])'
  <2>1. \A id, b : Own(id, b)' <=> Own(id, b)
    BY <1>2 DEF Own
  <2>2. \A b, c : Granted(b, c)' <=> Granted(b, c)
    BY <1>2, <2>1 DEF Granted
  <2>3. rq' = rq /\ resp' = resp
    BY <1>2
  <2>4. QED
    BY <1>1, <1>4, <2>1, <2>2, <2>3 DEF Mine, Checked, ByForm
<1>6. /\ \A x \in Req : Mine(pc[x], rq[x], resp[x])'
      /\ JarsOwn' /\ TokensIssued'
  BY <1>2, <1>3, <1>4, <1>5, MineStays, JarsStay DEF OInv, Owned, TokensIssued
<1>7. s \in drawn /\ \A id \in Sid : origin[id] # s
  BY <1>1, <1>3, NotFoundAssumption DEF StatesOnce
<1>8. \A x \in Req : Redeems(x) => rq[x].st # s
  BY <1>1, <1>3 DEF StatesOnce
<1>9. \A x \in Req \ {r} : Redeems(x)' => Redeems(x)
  BY <1>4 DEF Redeems, Still
<1>10. StatesOnce'
  <2>1. OneSessionPerLogin'
    BY <1>2, <1>3 DEF StatesOnce, OneSessionPerLogin
  <2>2. /\ \A x \in State : oidc'[x] \in {oidc[x], NotFound}
        /\ oidc'[s] = NotFound
    BY <1>1, <1>2
  <2>3. \A x \in Req : Redeems(x) => rq[x].st \in State
    BY DEF OInv, IInv, RequestsOK, Ready, Redeems
  <2>4. \A x \in Req : Redeems(x)' =>
          /\ rq'[x].st \in drawn' /\ oidc'[rq'[x].st] = NotFound
          /\ \A id \in Sid : origin'[id] # rq'[x].st
    BY <1>2, <1>3, <1>7, <1>9, <2>2, <2>3 DEF StatesOnce
  <2>5. \A x, y \in Req :
          Redeems(x)' /\ Redeems(y)' /\ rq'[x].st = rq'[y].st => x = y
    BY <1>2, <1>3, <1>8, <1>9 DEF StatesOnce
  <2>6. \A id \in Sid : origin[id] # NotFound => origin[id] \in State
    BY DEF OInv, IInv, SharedOK, HistoryOK
  <2>7. /\ \A x \in State : oidc'[x] # NotFound => x \in drawn'
        /\ \A id \in Sid : origin'[id] # NotFound =>
             /\ origin'[id] \in drawn' /\ oidc'[origin'[id]] = NotFound
             /\ holder'[id] # NotFound
    BY <1>2, <1>3, <2>2, <2>6 DEF StatesOnce
  <2>8. QED
    BY <2>1, <2>4, <2>5, <2>7 DEF StatesOnce
<1>11. SentDrawn' /\ BornTogether'
  BY <1>1, <1>2, <1>3, <1>4 DEF SentDrawn, BornTogether, Sends, Still
<1>12. QED
  BY <1>6, <1>10, <1>11 DEF Owned

LEMMA ExchangeOwned ==
    ASSUME OInv, NEW r \in Req, Exchange(r)
    PROVE  Owned'
<1>1. /\ pc[r] = "exchange" /\ UNCHANGED <<shared, rq, resp, history>>
      /\ pc' = [pc EXCEPT ![r] = "create"] /\ pc \in [Req -> PCs]
      /\ Mine(pc[r], rq[r], resp[r]) /\ SentDrawn
  BY DEF Exchange, At, Goto, OInv, Owned, IInv, RequestsOK
<1>2. QuietWorld
  BY <1>1, Calm
<1>3. pc'[r] = "create" /\ \A x \in Req \ {r} : Still(x)
  BY <1>1 DEF Still
<1>4. Mine(pc[r], rq[r], resp[r])'
  <2>1. \A id, b : Own(id, b)' <=> Own(id, b)
    BY <1>2 DEF Own, QuietWorld, QuietStores
  <2>2. \A b, c : Granted(b, c)' <=> Granted(b, c)
    BY <1>1, <2>1 DEF Granted, history
  <2>3. rq' = rq /\ resp' = resp
    BY <1>1
  <2>4. QED
    BY <1>1, <1>3, <2>1, <2>2, <2>3 DEF Mine, Checked, ByForm
<1>5. NoNewLogin(r)
  BY <1>1, <1>3 DEF NoNewLogin, Redeems, Sends, SentDrawn
<1>6. QED
  BY <1>2, <1>3, <1>4, <1>5, Quiet

\* The new session comes from the state of its callback, and from no other.
LEMMA CreateSessionOwned ==
    ASSUME OInv, NEW r \in Req, NEW id \in Sid, CreateSession(r, id)
    PROVE  Owned'
<1> DEFINE v == NewSession(idp[rq[r].code])
           s == rq[r].st
           q == [rq[r] EXCEPT !.id = id, !.copy = v]
           a == [resp[r] EXCEPT !.sid = id]
<1>1. /\ pc[r] = "create" /\ s \in State /\ idp[rq[r].code] \in User
      /\ rq[r] \in Request /\ rq[r].h = "callback" /\ resp[r] \in Response
      /\ RequestsOK /\ Mine(pc[r], rq[r], resp[r]) /\ HistoryOK
      /\ StatesOnce /\ SentDrawn /\ BornTogether /\ rq[r].b \in Browser
  BY DEF CreateSession, At, OInv, Owned, IInv, SharedOK, RequestsOK, Ready
<1>2. /\ UNCHANGED <<jar, drawn, csrf, oidc, issued, validated>>
      /\ holder[id] = NotFound
      /\ origin' = [origin EXCEPT ![id] = s]
      /\ holder' = [holder EXCEPT ![id] = v.user]
      /\ bearer' = [bearer EXCEPT ![id] = rq[r].b]
  BY DEF CreateSession, sharedButStore, external, browsers
<1>3. /\ origin[id] = NotFound /\ origin'[id] = s /\ holder'[id] # NotFound
      /\ bearer[id] = NotFound /\ bearer'[id] = rq[r].b
      /\ \A x \in Sid \ {id} : /\ origin'[x] = origin[x]
                               /\ holder'[x] = holder[x]
                               /\ bearer'[x] = bearer[x]
  BY <1>1, <1>2, NotFoundAssumption
     DEF StatesOnce, BornTogether, HistoryOK, NewSession
<1>4. Grows
  BY <1>2, <1>3 DEF Grows
<1>5. Redeems(r)
  BY <1>1 DEF Redeems
<1>6. /\ pc'[r] \in {"vault", "done"} /\ (\A x \in Req \ {r} : Still(x))
      /\ Mine(pc[r], rq[r], resp[r])' /\ ~Sends(r)'
  <2>1. CASE Respond(r, "503")
    <3> DEFINE w == [resp[r] EXCEPT !.to = "503"]
    <3>1. Leave(r) /\ resp' = [resp EXCEPT ![r] = w]
      BY <2>1 DEF Respond
    <3>2. w.sid = resp[r].sid /\ w.n8n = resp[r].n8n /\ w.to = "503"
      BY <1>1 DEF Response
    <3> HIDE DEF w
    <3>3. QED
      BY <1>1, <1>4, <3>1, <3>2, Leaving DEF Sends
  <2>2. CASE /\ Goto(r, "vault") /\ rq' = [rq EXCEPT ![r] = q]
             /\ resp' = [resp EXCEPT ![r] = a]
    <3>1. /\ pc'[r] = "vault" /\ rq'[r] = q /\ resp'[r] = a
          /\ \A x \in Req \ {r} : Still(x)
      BY <1>1, <2>2 DEF Goto, RequestsOK, Still
    <3>2. /\ q.b = rq[r].b /\ q.ids = rq[r].ids /\ q.id = id
          /\ q.h = "callback" /\ q.b \in Browser /\ q.n8n = rq[r].n8n
      BY <1>1 DEF Request, RequestsOK, Ready
    <3>3. a.sid = id /\ a.n8n = resp[r].n8n /\ a.to = resp[r].to
      BY <1>1 DEF Response
    <3>4. PICK b \in Browser : b = rq[r].b
      BY <3>2
    <3>5. Own(id, b)'
      BY <1>3, <3>4 DEF Own
    <3>6. \A i \in 1..Len(rq'[r].ids) : Own(rq[r].ids[i], b)'
      <4>1. \A i \in 1..Len(rq[r].ids) :
               rq[r].ids[i] \in Sid /\ Own(rq[r].ids[i], b)
        BY <1>1, <3>4 DEF Mine, Request
      <4>2. \A x \in Sid : Own(x, b) => Own(x, b)'
        BY <1>4, OwnStays DEF OInv
      <4>3. rq'[r].ids = rq[r].ids
        BY <3>1, <3>2
      <4>4. QED
        BY <4>1, <4>2, <4>3
    <3>7. /\ resp'[r].n8n \notin {"keep", "clear"} => Granted(b, resp[r].n8n)'
          /\ rq'[r].n8n # NotFound => Granted(b, rq[r].n8n)'
      <4>1. resp'[r].n8n = resp[r].n8n /\ rq'[r].n8n = rq[r].n8n
        BY <3>1, <3>3
      <4>2. \A c : Granted(b, c) => Granted(b, c)'
        BY <1>4, GrantedStays DEF OInv
      <4>3. QED
        BY <1>1, <3>4, <4>1, <4>2 DEF Mine
    <3>8. resp[r].to # "idp"
      BY <1>1 DEF SentDrawn, Sends
    <3> HIDE DEF q, a
    <3>9. Mine(pc[r], rq[r], resp[r])'
      BY <3>1, <3>2, <3>3, <3>4, <3>5, <3>6, <3>7 DEF Mine, Checked, ByForm
    <3>10. QED
      BY <3>1, <3>3, <3>8, <3>9 DEF Sends
  <2>3. QED
    BY <1>1, <2>1, <2>2 DEF CreateSession, RequestsOK, Response
<1>7. /\ \A x \in Req : Mine(pc[x], rq[x], resp[x])'
      /\ JarsOwn' /\ TokensIssued'
  BY <1>2, <1>4, <1>6, MineStays, JarsStay DEF OInv, Owned, TokensIssued
<1>8. \A x \in Req : Redeems(x)' =>
         Redeems(x) /\ x # r /\ rq'[x].st = rq[x].st
  BY <1>6 DEF Redeems, Still
<1>9. StatesOnce'
  <2>1. /\ s \in drawn /\ oidc[s] = NotFound
        /\ \A x \in Sid : origin[x] # s
    BY <1>1, <1>5 DEF StatesOnce
  <2>2. OneSessionPerLogin'
    BY <1>1, <1>3, <2>1 DEF StatesOnce, OneSessionPerLogin
  <2>3. \A x \in Req : Redeems(x)' => rq'[x].st # s
    BY <1>1, <1>5, <1>8 DEF StatesOnce
  <2>4. \A x \in Req : Redeems(x)' =>
          /\ rq'[x].st \in drawn' /\ oidc'[rq'[x].st] = NotFound
          /\ \A y \in Sid : origin'[y] # rq'[x].st
    BY <1>1, <1>2, <1>3, <1>8, <2>3 DEF StatesOnce
  <2>5. \A x, y \in Req :
          Redeems(x)' /\ Redeems(y)' /\ rq'[x].st = rq'[y].st => x = y
    BY <1>1, <1>8 DEF StatesOnce
  <2>6. /\ \A x \in State : oidc'[x] # NotFound => x \in drawn'
        /\ \A x \in Sid : origin'[x] # NotFound =>
             /\ origin'[x] \in drawn' /\ oidc'[origin'[x]] = NotFound
             /\ holder'[x] # NotFound
    BY <1>1, <1>2, <1>3, <2>1 DEF StatesOnce
  <2>7. QED
    BY <2>2, <2>4, <2>5, <2>6 DEF StatesOnce
<1>10. SentDrawn' /\ BornTogether'
  <2>1. \A x \in Req : Sends(x)' => x # r /\ Sends(x) /\ Still(x)
    BY <1>6 DEF Sends, Still
  <2>2. SentDrawn'
    BY <1>1, <1>2, <2>1 DEF SentDrawn, Still
  <2>3. bearer'[id] # NotFound
    BY <1>1, <1>3, GatewayAssumption
  <2>4. QED
    BY <1>1, <1>3, <2>2, <2>3 DEF BornTogether
<1>11. QED
  BY <1>7, <1>9, <1>10 DEF Owned

-----------------------------------------------------------------------------
(* Responses, browsers, and the world around. *)

\* The Set-Cookie headers reach the browser that the request came from.
LEMMA DeliverOwned ==
    ASSUME OInv, NEW r \in Req, Deliver(r)
    PROVE  Owned'
<1> DEFINE a == resp[r]
           new(b) == [plain  |-> NewValue(a.sid, jar[b].plain),
                      host   |-> IF secure THEN NewValue(a.sid, jar[b].host)
                                 ELSE jar[b].host,
                      bridge |-> CASE a.bridge = "keep" -> jar[b].bridge
                                   [] OTHER -> a.bridge = "set",
                      n8n    |-> NewValue(a.n8n, jar[b].n8n)]
<1>1. /\ pc[r] = "done" /\ rq[r].b \in Browser /\ resp[r] \in Response
      /\ Mine(pc[r], rq[r], resp[r]) /\ RequestsOK
      /\ StatesOnce /\ SentDrawn /\ BornTogether
      /\ JarsOwn /\ jar \in [Browser -> Jar]
  BY DEF Deliver, At, OInv, Owned, IInv, SharedOK, WorldOK, HistoryOK,
         RequestsOK, Ready
<1>2. PICK b \in Browser : b = rq[r].b
  BY <1>1
<1>3. /\ UNCHANGED <<drawn, csrf, oidc, issued, origin, holder, bearer,
                     validated>>
      /\ jar' = [jar EXCEPT ![b] = new(b)]
  BY <1>1, <1>2 DEF Deliver, keys, history
<1>4. /\ pc'[r] = "idle" /\ rq'[r] = Blank /\ resp'[r] = NoResponse
      /\ \A x \in Req \ {r} : Still(x)
  BY <1>1 DEF Deliver, Goto, RequestsOK, Still
<1>5. Grows
  BY <1>3 DEF Grows
<1>6. Mine(pc[r], rq[r], resp[r])'
  <2>1. /\ Len(Blank.ids) = 0 /\ Blank.copy = NotFound /\ Blank.n8n = NotFound
        /\ NoResponse.sid = "keep" /\ NoResponse.n8n = "keep"
    BY DEF Blank, NoResponse
  <2>2. QED
    BY <1>4, <2>1 DEF Mine, Checked, ByForm
<1>7. \A x \in Req : Mine(pc[x], rq[x], resp[x])'
  BY <1>4, <1>5, <1>6, MineStays DEF OInv, Owned
<1>8. JarsOwn'
  <2>1. /\ a.sid \notin {"keep", "clear"} => a.sid \in Sid /\ Own(a.sid, b)
        /\ a.n8n \notin {"keep", "clear"} => Granted(b, a.n8n)
    BY <1>1, <1>2 DEF Mine, Response
  <2>2. \A x \in Browser :
          /\ \A id \in {jar[x].plain, jar[x].host} \ {NotFound} :
                id \in Sid /\ Own(id, x)
          /\ jar[x].n8n # NotFound => Granted(x, jar[x].n8n)
    BY <1>1 DEF JarsOwn, Jar
  <2>3. /\ \A id \in {new(b).plain, new(b).host} \ {NotFound} :
              id \in Sid /\ Own(id, b)
        /\ new(b).n8n # NotFound => Granted(b, new(b).n8n)
    <3>1. /\ NewValue(a.sid, jar[b].plain) \in {jar[b].plain, NotFound, a.sid}
          /\ NewValue(a.sid, jar[b].plain) = a.sid
                => a.sid \notin {"keep", "clear"}
                     \/ a.sid \in {jar[b].plain, NotFound}
          /\ NewValue(a.sid, jar[b].host) \in {jar[b].host, NotFound, a.sid}
          /\ NewValue(a.sid, jar[b].host) = a.sid
                => a.sid \notin {"keep", "clear"}
                     \/ a.sid \in {jar[b].host, NotFound}
          /\ NewValue(a.n8n, jar[b].n8n) \in {jar[b].n8n, NotFound, a.n8n}
          /\ NewValue(a.n8n, jar[b].n8n) = a.n8n
                => a.n8n \notin {"keep", "clear"}
                     \/ a.n8n \in {jar[b].n8n, NotFound}
      BY DEF NewValue
    <3>2. QED
      BY <2>1, <2>2, <3>1
  <2>4. \A x \in Browser : jar'[x] = IF x = b THEN new(b) ELSE jar[x]
    BY <1>1, <1>3
  <2> HIDE DEF new
  <2>5. \A x \in Browser :
          /\ \A id \in {jar'[x].plain, jar'[x].host} \ {NotFound} :
                id \in Sid /\ Own(id, x)
          /\ jar'[x].n8n # NotFound => Granted(x, jar'[x].n8n)
    BY <2>2, <2>3, <2>4
  <2>6. /\ \A id \in Sid, x \in Browser : Own(id, x) => Own(id, x)'
        /\ \A x \in Browser : \A c : Granted(x, c) => Granted(x, c)'
    BY <1>5, OwnStays, GrantedStays DEF OInv
  <2>7. QED
    BY <2>5, <2>6 DEF JarsOwn
<1>9. TokensIssued'
  BY <1>3 DEF OInv, Owned, TokensIssued
<1>10. \A x \in Req : Redeems(x)' => Redeems(x) /\ rq'[x].st = rq[x].st
  BY <1>4 DEF Redeems, Still
<1>11. StatesOnce'
  BY <1>1, <1>3, <1>10 DEF StatesOnce, OneSessionPerLogin
<1>12. SentDrawn' /\ BornTogether'
  <2>1. \A x \in Req : Sends(x)' => x # r /\ Sends(x) /\ Still(x)
    BY <1>4 DEF Sends, Still, NoResponse
  <2>2. QED
    BY <1>1, <1>3, <2>1 DEF SentDrawn, BornTogether, Still
<1>13. QED
  BY <1>7, <1>8, <1>9, <1>11, <1>12 DEF Owned

\* A slot that is freed holds nothing.
LEMMA FreedMine ==
    ASSUME NEW r \in Req,
           pc'[r] = "idle", rq'[r] = Blank, resp'[r] = NoResponse
    PROVE  Mine(pc[r], rq[r], resp[r])' /\ NoNewLogin(r)
<1>1. /\ Len(Blank.ids) = 0 /\ Blank.copy = NotFound /\ Blank.n8n = NotFound
      /\ NoResponse.sid = "keep" /\ NoResponse.n8n = "keep"
      /\ NoResponse.to # "idp"
  BY DEF Blank, NoResponse
<1>2. QED
  BY <1>1 DEF Mine, Checked, ByForm, NoNewLogin, Redeems, Sends

LEMMA LoseOwned ==
    ASSUME OInv, NEW r \in Req, Lose(r)
    PROVE  Owned'
<1>1. /\ pc'[r] = "idle" /\ rq'[r] = Blank /\ resp'[r] = NoResponse
      /\ \A x \in Req \ {r} : Still(x)
  BY DEF Lose, Goto, Still, OInv, IInv, RequestsOK
<1>2. QuietWorld
  BY Calm DEF Lose
<1>3. QED
  BY <1>1, <1>2, FreedMine, Quiet

\* A restart takes the requests; cookies, keys and Vault stay as they are.
LEMMA RestartOwned ==
    ASSUME OInv, Restart
    PROVE  Owned'
<1>1. QuietWorld /\ Grows
  BY DEF Restart, keys, external, browsers, history, QuietWorld, QuietStores,
         Grows
<1>2. \A x \in Req : Mine(pc[x], rq[x], resp[x])' /\ NoNewLogin(x)
  BY FreedMine DEF Restart
<1>3. JarsOwn'
  BY <1>1, JarsStay DEF OInv, Owned, QuietWorld
<1>4. QED
  BY <1>1, <1>2, <1>3, QuietRequests DEF QuietWorld

LEMMA DropCookieOwned ==
    ASSUME OInv, NEW b \in Browser, DropCookie(b)
    PROVE  Owned'
<1>1. /\ UNCHANGED <<keys, external, pc, rq, resp, history>>
      /\ jar \in [Browser -> Jar] /\ JarsOwn
  BY DEF DropCookie, OInv, Owned, IInv, SharedOK, WorldOK
<1>2. QuietStores /\ Grows
  BY <1>1 DEF keys, external, history, QuietStores, Grows
<1>3. \A x \in Browser :
         /\ jar'[x].plain \in {jar[x].plain, NotFound}
         /\ jar'[x].host \in {jar[x].host, NotFound}
         /\ jar'[x].n8n \in {jar[x].n8n, NotFound}
  <2>1. CASE jar' = [jar EXCEPT ![b].plain = NotFound, ![b].host = NotFound]
    BY <1>1, <2>1 DEF Jar
  <2>2. CASE jar' = [jar EXCEPT ![b].bridge = FALSE]
    BY <1>1, <2>2 DEF Jar
  <2>3. CASE jar' = [jar EXCEPT ![b].n8n = NotFound]
    BY <1>1, <2>3 DEF Jar
  <2>4. QED
    BY <2>1, <2>2, <2>3 DEF DropCookie
<1>4. JarsOwn'
  <2>1. /\ \A id, x : Own(id, x) => Own(id, x)'
        /\ \A x, c : Granted(x, c) => Granted(x, c)'
    BY <1>1 DEF history, Own, Granted
  <2>2. QED
    BY <1>1, <1>3, <2>1 DEF JarsOwn
<1>5. \A x \in Req : Still(x) /\ NoNewLogin(x)
  BY <1>1 DEF Still, NoNewLogin, Redeems, Sends
<1>6. \A x \in Req : Mine(pc[x], rq[x], resp[x])'
  BY <1>2, <1>5, MineStays DEF OInv, Owned
<1>7. QED
  BY <1>2, <1>4, <1>5, <1>6, QuietRequests

\* Time passes, someone logs in at the identity provider, a password
\* changes, or nothing happens.
LEMMA WorldOwned ==
    ASSUME OInv, UNCHANGED <<jar, pc, rq, resp, history>>,
           \A s \in State : oidc'[s] \in {oidc[s], NotFound},
           \A id \in Sid : csrf'[id] \in {csrf[id], NotFound}
    PROVE  Owned'
<1>1. QuietWorld /\ Grows
  BY DEF history, QuietWorld, QuietStores, Grows
<1>2. \A x \in Req : Still(x) /\ NoNewLogin(x)
  BY DEF Still, NoNewLogin, Redeems, Sends
<1>3. JarsOwn' /\ \A x \in Req : Mine(pc[x], rq[x], resp[x])'
  BY <1>1, <1>2, MineStays, JarsStay DEF OInv, Owned, QuietWorld
<1>4. QED
  BY <1>1, <1>2, <1>3, QuietRequests DEF QuietWorld

LEMMA EnvironmentOwned ==
    ASSUME OInv, Environment
    PROVE  Owned'
<1>1. CASE Tick
  <2>1. /\ \A s \in State : oidc'[s] \in {oidc[s], NotFound}
        /\ \A id \in Sid : csrf'[id] \in {csrf[id], NotFound}
    BY <1>1 DEF Tick, ClockTick, Swept
  <2>2. QED
    BY <1>1, <2>1, WorldOwned DEF Tick, browsers
<1>2. CASE \/ \E s \in State, u \in User : IdPLogin(s, u)
           \/ \E c \in Cred : PasswordChange(c)
  BY <1>2, WorldOwned DEF IdPLogin, PasswordChange, keys, browsers
<1>3. QED
  BY <1>1, <1>2, RestartOwned, DropCookieOwned DEF Environment

LEMMA ServeOwned ==
    ASSUME OInv, NEW r \in Req, Serve(r)
    PROVE  Owned'
BY LookupFoundOwned, LookupMissingOwned, StartLoginOwned, TakeStateOwned,
   TakeStateFailsOwned, ExchangeOwned, CreateSessionOwned, ReloadOwned,
   ReloadFailsOwned, GetCredentialOwned, N8NLoginOwned, N8NLoginFailsOwned,
   SaveOwned, LinkPageTokenOwned, SetCSRFOwned, ValidateCSRFOwned,
   UpdateCredentialOwned, DeleteSessionOwned, N8NLogoutOwned, CurrentUserOwned,
   AnswersOwned
   DEF Serve

-----------------------------------------------------------------------------
(* The theorems. *)

THEOREM InitOwned == Init => OInv
<1> SUFFICES ASSUME Init PROVE OInv
  OBVIOUS
<1>1. IInv
  BY InitIInv
<1>2. /\ Len(Blank.ids) = 0 /\ Blank.copy = NotFound /\ Blank.n8n = NotFound
      /\ NoResponse.sid = "keep" /\ NoResponse.n8n = "keep"
      /\ NoResponse.to = "none"
  BY DEF Blank, NoResponse
<1>3. \A x \in Req : /\ Mine(pc[x], rq[x], resp[x])
                     /\ ~Redeems(x) /\ ~Sends(x)
  BY <1>2 DEF Init, Mine, Checked, ByForm, Redeems, Sends
<1>4. StatesOnce /\ SentDrawn /\ BornTogether
  BY <1>3 DEF Init, KeysInit, StatesOnce, SentDrawn, BornTogether,
              OneSessionPerLogin
<1>5. JarsOwn /\ TokensIssued
  BY DEF Init, KeysInit, JarsOwn, TokensIssued, EmptyJar
<1>6. QED
  BY <1>1, <1>3, <1>4, <1>5 DEF OInv, Owned

\* No step of a request, a browser or the world around breaks the invariant.
THEOREM NextOwned == OInv /\ [Next]_vars => OInv'
<1> SUFFICES ASSUME OInv, [Next]_vars PROVE OInv'
  OBVIOUS
<1>1. IInv'
  BY NextIInv DEF OInv
<1>2. Owned'
  <2>1. CASE Next
    BY <2>1, ArriveOwned, ServeOwned, DeliverOwned, LoseOwned,
       EnvironmentOwned DEF Next
  <2>2. CASE UNCHANGED vars
    BY <2>2, WorldOwned DEF vars, keys, browsers
  <2>3. QED
    BY <2>1, <2>2
<1>3. QED
  BY <1>1, <1>2 DEF OInv

\* The session, credential, form and n8n cookie that a request carries from
\* step to step, and the cookies it will set, belong to the browser it came from
\* (server.go:184-518).
THEOREM OwnershipKept == Spec => []OInv
BY InitOwned, NextOwned, PTL DEF Spec

\* Each OIDC login makes at most one session, however often its callback is
\* sent, repeated or interrupted by a restart, because one GETDEL hands the
\* state to one request (server.go:233-252, store.go:136).
THEOREM LoginsAreOnce == Spec => []OneSessionPerLogin
<1>1. OInv => OneSessionPerLogin
  BY DEF OInv, Owned, StatesOnce
<1>2. QED
  BY <1>1, OwnershipKept, PTL

\* The n8n account a browser is logged in to is one that n8n accepted for the
\* holder of some session which that browser's own callback created: the answer
\* that set its cookie was to a request of that session, or renewed the cookie
\* that the browser had sent (server.go:259-287, 372-394, 454-518).
THEOREM AccountsApart == Spec => []AccountsStayApart
<1>1. OInv => AccountsStayApart
  BY DEF OInv, Owned, JarsOwn, Granted, Own, AccountsStayApart
<1>2. QED
  BY <1>1, OwnershipKept, PTL

-----------------------------------------------------------------------------
(* What a single step may do. *)

\* A request ends up at another step than the console proxy.
NotToProxy(r) == pc'[r] = "proxy" => pc[r] = "proxy"

LEMMA MovesElsewhere ==
    ASSUME RequestsOK, NEW x \in Req, NEW p, p # "proxy", Goto(x, p),
           NEW r \in Req
    PROVE  NotToProxy(r)
BY DEF RequestsOK, Goto, NotToProxy

LEMMA LeavesElsewhere ==
    ASSUME RequestsOK, NEW x \in Req, Leave(x), NEW r \in Req
    PROVE  NotToProxy(r)
BY MovesElsewhere DEF Leave

LEMMA ArriveElsewhere ==
    ASSUME RequestsOK, NEW x \in Req, Arrive(x), NEW r \in Req
    PROVE  NotToProxy(r)
<1>1. PICK p \in {"lookup", "state", "done", "take", "delete", "n8nlogout"} :
        Goto(x, p)
  BY DEF Arrive, ReceiveWithSession, ReceiveForm, ReceiveCallback,
         ReceiveLogout, ReceiveN8NLogout, ReceiveSignout
<1>2. QED
  BY <1>1, MovesElsewhere

LEMMA ServeElsewhere ==
    ASSUME RequestsOK, NEW x \in Req, Serve(x), ~LookupFound(x), NEW r \in Req
    PROVE  NotToProxy(r)
<1> DEFINE Elsewhere ==
        \/ UNCHANGED pc \/ Leave(x)
        \/ \E p \in PCs \ {"proxy"} : Goto(x, p)
<1>1. Elsewhere
  <2>1. CASE LookupMissing(x) \/ LookupFails(x) \/ RandomFails(x)
    BY <2>1 DEF LookupMissing, LookupFails, RandomFails, Respond, PCs
  <2>2. CASE \E s \in State : StartLogin(x, s) \/ StartLoginFails(x, s)
    BY <2>2 DEF StartLogin, StartLoginFails, Respond
  <2>3. CASE \/ TakeState(x) \/ TakeStateFails(x)
             \/ Exchange(x) \/ ExchangeFails(x)
    BY <2>3 DEF TakeState, TakeStateFails, Exchange, ExchangeFails, Respond, PCs
  <2>4. CASE CreateSessionFails(x) \/ \E id \in Sid : CreateSession(x, id)
    BY <2>4 DEF CreateSessionFails, CreateSession, Respond, PCs
  <2>5. CASE Reload(x) \/ ReloadFails(x)
    BY <2>5 DEF Reload, ReloadFails, Respond, PCs
  <2>6. CASE GetCredential(x) \/ GetCredentialFails(x)
    BY <2>6 DEF GetCredential, GetCredentialFails, Respond, PCs
  <2>7. CASE \/ N8NLogin(x)
             \/ \E cause \in {"refused", "limited", "down"} :
                   N8NLoginFails(x, cause)
    BY <2>7 DEF N8NLogin, N8NLoginFails, RespondLoggedIn, RespondLoginError, PCs
  <2>8. CASE SaveSession(x) \/ SaveSessionFails(x)
    BY <2>8 DEF SaveSession, SaveSessionFails, RespondLoggedIn, Respond
  <2>9. CASE LinkPageToken(x) \/ LinkPageFails(x)
    BY <2>9 DEF LinkPageToken, LinkPageFails, Respond, PCs
  <2>10. CASE \E t \in Token : SetCSRF(x, t)
    BY <2>10 DEF SetCSRF, Respond, PCs
  <2>11. CASE ValidateCSRF(x) \/ ValidateCSRFFails(x)
    BY <2>11 DEF ValidateCSRF, ValidateCSRFFails, AfterForm, Respond, PCs
  <2>12. CASE UpdateCredential(x) \/ UpdateCredentialFails(x)
    BY <2>12 DEF UpdateCredential, UpdateCredentialFails, Respond, PCs
  <2>13. CASE \/ DeleteSession(x) \/ N8NLogout(x)
              \/ CurrentUser(x) \/ ProxyConsole(x)
    BY <2>13 DEF DeleteSession, N8NLogout, CurrentUser, ProxyConsole, Respond,
                 Relay, PCs
  <2>14. QED
    BY <2>1, <2>2, <2>3, <2>4, <2>5, <2>6, <2>7, <2>8, <2>9, <2>10, <2>11,
       <2>12, <2>13 DEF Serve
<1>2. QED
  BY <1>1, MovesElsewhere, LeavesElsewhere DEF NotToProxy

LEMMA OnlyLookupsReachProxy ==
    ASSUME OInv, [Next]_vars, NEW r \in Req, pc[r] # "proxy", pc'[r] = "proxy"
    PROVE  LookupFound(r)
<1>1. RequestsOK /\ ~NotToProxy(r)
  BY DEF OInv, IInv, NotToProxy
<1>2. ASSUME NEW x \in Req, Deliver(x) \/ Lose(x)
      PROVE  FALSE
  BY <1>1, <1>2, MovesElsewhere DEF Deliver, Lose
<1>3. ASSUME Environment
      PROVE  FALSE
  BY <1>3 DEF Environment, Tick, Restart, IdPLogin, PasswordChange, DropCookie
<1>4. PICK x \in Req : LookupFound(x)
  <2>1. CASE Next
    BY <1>1, <1>2, <1>3, <2>1, ArriveElsewhere, ServeElsewhere DEF Next
  <2>2. CASE UNCHANGED vars
    BY <2>2 DEF vars
  <2>3. QED
    BY <2>1, <2>2
<1>5. x = r
  BY <1>1, <1>4 DEF LookupFound, Goto, RequestsOK
<1>6. QED
  BY <1>4, <1>5

\* A request goes on to the n8n console only on a session that a callback of
\* the same browser created, for the person who logged in at the provider, and
\* whose first deadline has not passed, although every save makes Redis keep
\* the session for another full TTL (server.go:252-257, 415-432, store.go:91,
\* 109).
THEOREM ConsoleIsTimely == Spec => ConsoleWithinDeadline
<1> DEFINE Console(r) ==
        LET id == rq'[r].id
        IN  /\ now <= deadline[id]
            /\ bearer[id] = rq'[r].b
            /\ rq'[r].copy.user = idp[origin[id]]
<1>1. ASSUME OInv, [Next]_vars, NEW r \in Req,
             pc[r] # "proxy", pc'[r] = "proxy"
      PROVE  Console(r)
  <2> DEFINE id == Head(rq[r].ids)
             v == LiveSession(id)
             q == [rq[r] EXCEPT !.id = id, !.copy = v, !.ids = <<>>]
  <2>1. /\ LookupFound(r) /\ pc[r] = "lookup" /\ v # NotFound
        /\ rq' = [rq EXCEPT ![r] = q]
    BY <1>1, OnlyLookupsReachProxy DEF LookupFound, At
  <2>2. /\ rq[r] \in Request /\ rq \in [Req -> Request] /\ rq[r].ids # <<>>
        /\ SharedOK
    BY <1>1, <2>1 DEF OInv, IInv, RequestsOK, Ready
  <2>3. id \in Sid /\ Own(id, rq[r].b)
    BY <1>1, <2>2, RestOwn
  <2>4. /\ v \in Session /\ v.user = holder[id] /\ v.exp = deadline[id]
        /\ holder[id] # NotFound
    BY <2>1, <2>2, <2>3, LiveType
  <2>5. /\ rq'[r].id = id /\ rq'[r].copy = v /\ rq'[r].b = rq[r].b
    BY <2>1, <2>2 DEF Request
  <2>6. now <= deadline[id]
    <3>1. ~(now > v.exp)
      BY <2>1 DEF LiveSession, Expired
    <3>2. now \in Nat /\ v.exp \in Nat
      BY <2>2, <2>4 DEF SharedOK, KeysTypeOK, Session
    <3>3. QED
      BY <2>4, <3>1, <3>2
  <2>7. holder[id] = idp[origin[id]]
    BY <2>2, <2>3, <2>4 DEF SharedOK, BornFromLogin
  <2>8. QED
    BY <2>3, <2>4, <2>5, <2>6, <2>7 DEF Own
<1>2. OInv /\ [Next]_vars =>
        [\A r \in Req : pc[r] # "proxy" /\ pc'[r] = "proxy" => Console(r)]_vars
  BY <1>1
<1>3. QED
  BY <1>2, OwnershipKept, PTL DEF Spec, ConsoleWithinDeadline

LEMMA ServeSparesVault ==
    ASSUME NEW x \in Req, Serve(x),
           ~UpdateCredential(x), ~UpdateCredentialFails(x)
    PROVE  UNCHANGED vault
<1>1. CASE \/ LookupFound(x) \/ LookupMissing(x)
           \/ LookupFails(x) \/ RandomFails(x)
  BY <1>1 DEF LookupFound, LookupMissing, LookupFails, RandomFails, shared,
              sharedButStore
<1>2. CASE \E s \in State : StartLogin(x, s) \/ StartLoginFails(x, s)
  BY <1>2 DEF StartLogin, StartLoginFails, sharedButStore
<1>3. CASE \/ TakeState(x) \/ TakeStateFails(x)
           \/ Exchange(x) \/ ExchangeFails(x)
  BY <1>3 DEF TakeState, TakeStateFails, Exchange, ExchangeFails, shared,
              sharedButStore
<1>4. CASE CreateSessionFails(x) \/ \E id \in Sid : CreateSession(x, id)
  BY <1>4 DEF CreateSessionFails, CreateSession, shared, sharedButStore
<1>5. CASE Reload(x) \/ ReloadFails(x) \/ SaveSession(x) \/ SaveSessionFails(x)
  BY <1>5 DEF Reload, ReloadFails, SaveSession, SaveSessionFails, shared,
              sharedButStore
<1>6. CASE \/ GetCredential(x) \/ GetCredentialFails(x) \/ N8NLogin(x)
           \/ \E cause \in {"refused", "limited", "down"} :
                 N8NLoginFails(x, cause)
  BY <1>6 DEF GetCredential, GetCredentialFails, N8NLogin, N8NLoginFails,
              shared, sharedButStore
<1>7. CASE \/ LinkPageToken(x) \/ LinkPageFails(x)
           \/ \E t \in Token : SetCSRF(x, t)
  BY <1>7 DEF LinkPageToken, LinkPageFails, SetCSRF, shared, sharedButStore
<1>8. CASE ValidateCSRF(x) \/ ValidateCSRFFails(x) \/ DeleteSession(x)
  BY <1>8 DEF ValidateCSRF, ValidateCSRFFails, DeleteSession, shared,
              sharedButStore
<1>9. CASE N8NLogout(x) \/ CurrentUser(x) \/ ProxyConsole(x)
  BY <1>9 DEF N8NLogout, CurrentUser, ProxyConsole, shared, sharedButStore
<1>10. QED
  BY <1>1, <1>2, <1>3, <1>4, <1>5, <1>6, <1>7, <1>8, <1>9 DEF Serve

LEMMA OnlyFormsWriteVault ==
    ASSUME [Next]_vars, vault' # vault
    PROVE  \E x \in Req : UpdateCredential(x) \/ UpdateCredentialFails(x)
<1>1. ASSUME NEW x \in Req, Arrive(x)
      PROVE  UNCHANGED vault
  BY <1>1 DEF Arrive, ReceiveWithSession, ReceiveForm, ReceiveCallback,
     ReceiveLogout, ReceiveN8NLogout, ReceiveSignout, Receive, shared,
     sharedButStore
<1>2. ASSUME NEW x \in Req, Deliver(x) \/ Lose(x)
      PROVE  UNCHANGED vault
  BY <1>2 DEF Deliver, Lose, shared, sharedButStore
<1>3. ASSUME Environment
      PROVE  UNCHANGED vault
  BY <1>3 DEF Environment, Tick, Restart, IdPLogin, PasswordChange, DropCookie
<1>4. CASE Next
  BY <1>1, <1>2, <1>3, <1>4, ServeSparesVault DEF Next
<1>5. CASE UNCHANGED vars
  BY <1>5 DEF vars
<1>6. QED
  BY <1>4, <1>5

\* A user's stored credential changes only on behalf of a request whose form
\* carries a token drawn for a session of that same user (server.go:349-413).
THEOREM FormsGuardCredentials == Spec => CredentialChangeNeedsForm
<1> DEFINE ByAForm(u) ==
        \E r \in Req, id \in Sid :
            /\ pc[r] \in {"put", "delcred"}
            /\ holder[id] = u /\ rq[r].form \in issued[id]
<1>1. ASSUME OInv, [Next]_vars, NEW u \in User, vault'[u] # vault[u]
      PROVE  ByAForm(u)
  <2>1. PICK r \in Req : UpdateCredential(r) \/ UpdateCredentialFails(r)
    BY <1>1, OnlyFormsWriteVault
  <2>2. /\ pc[r] \in {"put", "delcred"}
        /\ WriteVault(r) \/ UNCHANGED vault
    BY <2>1 DEF UpdateCredential, UpdateCredentialFails
  <2>3. /\ vault \in [User -> Cred \cup {NotFound}] /\ Faithful(rq[r])
        /\ rq[r].copy # NotFound /\ Mine(pc[r], rq[r], resp[r])
    BY <1>1, <2>2 DEF OInv, Owned, IInv, SharedOK, WorldOK, RequestsOK, Ready,
                      HasSession
  <2>4. u = rq[r].copy.user
    BY <1>1, <2>2, <2>3 DEF WriteVault, UserOf
  <2>5. /\ rq[r].id \in Sid /\ holder[rq[r].id] = u
        /\ rq[r].form \in issued[rq[r].id]
    BY <2>2, <2>3, <2>4 DEF Faithful, Mine, ByForm
  <2>6. QED
    BY <2>2, <2>5
<1>2. OInv /\ [Next]_vars =>
        [\A u \in User : vault'[u] # vault[u] => ByAForm(u)]_vars
  BY <1>1
<1>3. QED
  BY <1>2, OwnershipKept, PTL DEF Spec, CredentialChangeNeedsForm

-----------------------------------------------------------------------------
(* A logout is final where no link form writes sessions back.  With link    *)
(* forms it is false, as the run logout_race shows.                         *)

FormHandlers == {"linkpost", "linkdelete"}

\* Nobody sends the forms of the link page.
NoForms == Handlers \cap FormHandlers = {}

-----------------------------------------------------------------------------
(* The inductive invariant.  The callback also writes a session back, some  *)
(* calls after it created it.  That undoes no logout, because until it      *)
(* answers nobody else knows the session's id: a logout names only ids that *)
(* some browser was told.                                                   *)

Members(s) == {s[i] : i \in 1..Len(s)}

\* The ids that a request carries, of sessions to look up or to delete.
Carries(r) == Members(rq[r].ids) \cup rq[r].out

\* Somebody besides the gateway's callback has been told the id.
Shown(id) ==
    \/ \E b \in Browser : id \in {jar[b].plain, jar[b].host}
    \/ \E r \in Req : id \in Carries(r)
    \/ id \in loggedOut

\* A response that will tell the browser.
Sets(r, id) == resp[r].sid = id /\ id \notin {"keep", "clear"}

\* A callback between creating its session and answering.
Holds(r) ==
    /\ rq[r].h = "callback"
    /\ pc[r] \in {"vault", "n8nlogin", "reload", "save"}

\* Only the ids of sessions that were created go round.
OnlyUsed ==
    \A id \in Sid : Shown(id) \/ (\E r \in Req : Sets(r, id)) =>
        holder[id] # NotFound

Private ==
    \A r \in Req : Holds(r) =>
        /\ ~Shown(rq[r].id)
        /\ \A x \in Req \ {r} :
              ~Sets(x, rq[r].id) /\ ~(Holds(x) /\ rq[x].id = rq[r].id)

\* What a logout has still to delete.
Due(r) ==
    \A id \in rq[r].out :
        /\ pc[r] = "delete" => sess[id] = NotFound \/ id \in Members(rq[r].ids)
        /\ pc[r] = "n8nlogout" => sess[id] = NotFound

Steady(p, q) ==
    /\ q.h \notin FormHandlers /\ p \notin {"put", "delcred"}
    /\ p \in {"lookup", "setcsrf"} => q.h # "callback"

Gone == \A id \in loggedOut : sess[id] = NotFound

Final == /\ OnlyUsed /\ Private /\ Gone
         /\ \A r \in Req : Due(r) /\ Steady(pc[r], rq[r])

LInv == IInv /\ Final

-----------------------------------------------------------------------------
(* Steps of one request. *)

Others(r) ==
    \A x \in Req \ {r} : pc'[x] = pc[x] /\ rq'[x] = rq[x] /\ resp'[x] = resp[x]

\* No session comes back under an id that somebody knows.
NoneBack ==
    \A id \in Sid : Shown(id) /\ sess[id] = NotFound => sess'[id] = NotFound

\* A step that creates no session.
LEMMA Lasts ==
    ASSUME LInv, NEW r \in Req, Others(r), NoneBack, UNCHANGED holder,
           \A id \in Sid : Shown(id)' => Shown(id) \/ (Sets(r, id) /\ ~Holds(r)'),
           \A id \in Sid : Sets(r, id)' => Sets(r, id),
           Holds(r)' => Holds(r) /\ rq'[r].id = rq[r].id,
           \A id \in loggedOut' :
              \/ id \in loggedOut
              \/ id \in rq[r].out /\ pc[r] = "n8nlogout",
           Due(r)', Steady(pc[r], rq[r])'
    PROVE  Final'
<1>1. /\ \A x \in Req : rq[x] \in Request /\ Due(x) /\ Steady(pc[x], rq[x])
      /\ \A x \in Req : Holds(x) => rq[x].id \in Sid
      /\ loggedOut \subseteq Sid /\ OnlyUsed /\ Private /\ Gone
  BY DEF LInv, Final, IInv, SharedOK, HistoryOK, RequestsOK, Ready, Faithful,
         Holds, HasSession
<1>2. \A x \in Req : rq[x].out \subseteq Sid
  BY <1>1 DEF Request
<1>3. \A x \in Req : /\ \A id : Sets(x, id)' => Sets(x, id) \/ x = r
                     /\ Holds(x)' => Holds(x) /\ rq'[x].id = rq[x].id
  BY DEF Others, Sets, Holds
<1>4. OnlyUsed'
  BY <1>1, <1>3 DEF OnlyUsed
<1>5. Private'
  <2>1. ASSUME NEW x \in Req, Holds(x)'
        PROVE  /\ ~Shown(rq[x].id)'
               /\ \A y \in Req \ {x} :
                    ~Sets(y, rq[x].id)' /\ ~(Holds(y) /\ rq[y].id = rq[x].id)'
    <3>1. PICK id \in Sid : id = rq[x].id /\ id = rq'[x].id /\ Holds(x)
      BY <1>1, <1>3, <2>1
    <3>2. /\ ~Shown(id)
          /\ \A y \in Req \ {x} :
                ~Sets(y, id) /\ ~(Holds(y) /\ rq[y].id = id)
      BY <1>1, <3>1 DEF Private
    <3>3. ~Shown(id)'
      BY <2>1, <3>1, <3>2
    <3>4. \A y \in Req \ {x} : ~Sets(y, id)'
      BY <1>3, <3>1, <3>2
    <3>5. \A y \in Req \ {x} : ~(Holds(y)' /\ rq'[y].id = id)
      BY <1>3, <3>1, <3>2
    <3>6. QED
      BY <3>1, <3>3, <3>4, <3>5 DEF Shown, Sets
  <2>2. QED
    BY <2>1 DEF Private
<1>6. Gone'
  BY <1>1, <1>2 DEF Gone, Due, NoneBack, Shown, Carries
<1>7. \A x \in Req : Due(x)' /\ Steady(pc[x], rq[x])'
  <2>1. ASSUME NEW x \in Req \ {r}
        PROVE  Due(x)' /\ Steady(pc[x], rq[x])'
    <3>1. \A id \in rq[x].out : Shown(id)
      BY DEF Shown, Carries
    <3>2. pc'[x] = pc[x] /\ rq'[x] = rq[x]
      BY DEF Others
    <3>3. QED
      BY <1>1, <1>2, <3>1, <3>2 DEF NoneBack, Due, Steady
  <2>2. QED
    BY <2>1
<1>8. QED
  BY <1>4, <1>5, <1>6, <1>7 DEF Final

\* A step that tells nobody a new id.
LEMMA Works ==
    ASSUME LInv, NEW r \in Req, Others(r), NoneBack,
           UNCHANGED <<jar, holder, loggedOut>>,
           \A id \in Carries(r)' : Shown(id),
           resp'[r].sid \in {"keep", "clear", resp[r].sid},
           Holds(r)' => Holds(r) /\ rq'[r].id = rq[r].id,
           Due(r)', Steady(pc[r], rq[r])'
    PROVE  Final'
<1>1. ASSUME NEW id \in Sid, Shown(id)'
      PROVE  Shown(id)
  <2>1. \A x \in Req \ {r} : Carries(x)' = Carries(x)
    BY DEF Others, Carries
  <2>2. QED
    BY <1>1, <2>1 DEF Shown
<1>2. \A id \in Sid : Sets(r, id)' => Sets(r, id)
  BY DEF Sets
<1>3. QED
  BY <1>1, <1>2, Lasts

LEMMA NoMembers == Members(<<>>) = {}
BY DEF Members

\* A handler that ends.
LEMMA Leaves ==
    ASSUME LInv, NEW r \in Req, Leave(r), NoneBack,
           UNCHANGED <<jar, holder, loggedOut>>, NEW a,
           resp' = [resp EXCEPT ![r] = a],
           a.sid \in {"keep", "clear", resp[r].sid}
    PROVE  Final'
<1>1. RequestsOK /\ Steady(pc[r], rq[r])
  BY DEF LInv, IInv, Final
<1>2. Others(r)
  BY <1>1 DEF Others, RequestsOK, Leave, Goto
<1>3. /\ pc'[r] = "done" /\ resp'[r] = a
      /\ rq'[r].h = rq[r].h /\ rq'[r].ids = <<>> /\ rq'[r].out = {}
  BY <1>1 DEF RequestsOK, Leave, Goto, Blank
<1>4. Carries(r)' = {} /\ ~Holds(r)' /\ Due(r)'
  BY <1>3, NoMembers DEF Carries, Holds, Due
<1>5. Steady(pc[r], rq[r])'
  BY <1>1, <1>3 DEF Steady
<1>6. QED
  BY <1>2, <1>3, <1>4, <1>5, Works

LEMMA Responds ==
    ASSUME LInv, NEW r \in Req, NEW to, Respond(r, to), NoneBack,
           UNCHANGED <<jar, holder, loggedOut>>
    PROVE  Final'
<1> DEFINE a == [resp[r] EXCEPT !.to = to]
<1>1. a.sid = resp[r].sid
  BY DEF LInv, IInv, RequestsOK, Response
<1>2. QED
  BY <1>1, Leaves DEF Respond

\* A handler that goes on, with the same session if it holds one.
LEMMA CarriesOn ==
    ASSUME LInv, NEW r \in Req, NEW p, Goto(r, p), NoneBack,
           UNCHANGED <<jar, holder, loggedOut>>,
           NEW q, rq' = [rq EXCEPT ![r] = q],
           q.h = rq[r].h, q.out = rq[r].out,
           Members(q.ids) \subseteq Members(rq[r].ids),
           NEW a, resp' = [resp EXCEPT ![r] = a],
           a.sid \in {"keep", "clear", resp[r].sid},
           p \notin {"delete", "n8nlogout"},
           Holds(r)' => Holds(r) /\ q.id = rq[r].id,
           Steady(p, q)
    PROVE  Final'
<1>1. RequestsOK
  BY DEF LInv, IInv
<1>2. Others(r) /\ pc'[r] = p /\ rq'[r] = q /\ resp'[r] = a
  BY <1>1 DEF Others, RequestsOK, Goto
<1>3. \A id \in Carries(r)' : Shown(id)
  BY <1>2 DEF Carries, Shown
<1>4. Due(r)'
  BY <1>2 DEF Due
<1>5. QED
  BY <1>2, <1>3, <1>4, Works

\* A handler that only turns to its next call.
LEMMA TurnsTo ==
    ASSUME LInv, NEW r \in Req, NEW p, Goto(r, p), UNCHANGED rq, NoneBack,
           UNCHANGED <<jar, holder, loggedOut>>,
           NEW a, resp' = [resp EXCEPT ![r] = a],
           a.sid \in {"keep", "clear", resp[r].sid},
           p \notin {"delete", "n8nlogout"},
           Holds(r)' => Holds(r), Steady(p, rq[r])
    PROVE  Final'
<1>1. rq' = [rq EXCEPT ![r] = rq[r]]
  BY DEF LInv, IInv, RequestsOK
<1>2. QED
  BY <1>1, CarriesOn

LEMMA KeepsAnswer ==
    ASSUME LInv, NEW r \in Req, UNCHANGED resp
    PROVE  resp' = [resp EXCEPT ![r] = resp[r]]
BY DEF LInv, IInv, RequestsOK

LEMMA StoreKept ==
    ASSUME LInv, \/ UNCHANGED sess
                 \/ \E id \in Sid : sess' = [sess EXCEPT ![id] = NotFound]
    PROVE  NoneBack
BY DEF LInv, IInv, SharedOK, KeysTypeOK, NoneBack

LEMMA NothingHappens ==
    ASSUME LInv, UNCHANGED <<shared, history>>
    PROVE  NoneBack /\ UNCHANGED <<jar, holder, loggedOut>>
BY StoreKept DEF shared, sharedButStore, keys, browsers, history

-----------------------------------------------------------------------------
(* Requests arrive. *)

Named(b) == {jar[b].plain, jar[b].host} \ {NotFound}

LEMMA CookieMembers ==
    ASSUME NEW j \in Jar
    PROVE  Members(CookieIds(j)) = {j.plain, j.host} \ {NotFound}
<1> DEFINE one == j.plain
           two == j.host
<1>1. CASE one = NotFound /\ two = NotFound
  BY <1>1, NoMembers DEF CookieIds
<1>2. CASE one # NotFound /\ two \in {one, NotFound}
  <2>1. <<one>> \in Seq({one})
    OBVIOUS
  <2>2. <<one>> \o <<>> = <<one>>
    BY <2>1, ConcatEmptySeq
  <2>3. CookieIds(j) = <<one>>
    BY <1>2, <2>2 DEF CookieIds
  <2>4. QED
    BY <1>2, <2>3 DEF Members
<1>3. CASE one = NotFound /\ two # NotFound
  <2>1. <<two>> \in Seq({two})
    OBVIOUS
  <2>2. <<>> \o <<two>> = <<two>>
    BY <2>1, ConcatEmptySeq
  <2>3. CookieIds(j) = <<two>>
    BY <1>3, <2>2 DEF CookieIds
  <2>4. QED
    BY <1>3, <2>3 DEF Members
<1>4. CASE one # NotFound /\ two # NotFound /\ one # two
  <2> DEFINE s == <<one>> \o <<two>>
  <2>1. <<one>> \in Seq({one, two}) /\ <<two>> \in Seq({one, two})
    OBVIOUS
  <2>2. Len(s) = 2 /\ s[1] = one /\ s[2] = two
    BY <2>1, ConcatProperties
  <2>3. CookieIds(j) = s
    BY <1>4 DEF CookieIds
  <2> HIDE DEF s
  <2>4. Members(s) = {one, two}
    BY <2>2 DEF Members
  <2>5. QED
    BY <1>4, <2>3, <2>4
<1>5. QED
  BY <1>1, <1>2, <1>3, <1>4

LEMMA CarriedNames ==
    ASSUME LInv, NEW b \in Browser
    PROVE  /\ Carried(b) \in Request /\ Carried(b).b = b
           /\ Members(Carried(b).ids) = Named(b) /\ Carried(b).out = {}
           /\ CookieIds(jar[b]) = <<>> => Named(b) = {}
<1>1. jar[b] \in Jar /\ SharedOK
  BY DEF LInv, IInv, SharedOK, WorldOK
<1>2. /\ Carried(b) \in Request /\ Carried(b).b = b
      /\ Carried(b).ids = CookieIds(jar[b])
  BY <1>1, CarriedType
<1>3. Carried(b).out = {}
  BY DEF Carried, Blank
<1>4. Members(CookieIds(jar[b])) = Named(b)
  BY <1>1, CookieMembers DEF Named
<1>5. QED
  BY <1>2, <1>3, <1>4, NoMembers

LEMMA GotThrough ==
    ASSUME LInv, NEW r \in Req, NEW b \in Browser, pc[r] = "idle",
           UNCHANGED <<shared, history>>,
           NEW p \in {"lookup", "state", "take", "delete", "n8nlogout", "done"},
           NEW q, Goto(r, p), rq' = [rq EXCEPT ![r] = q],
           Members(q.ids) \subseteq Named(b), q.out \subseteq Named(b),
           p = "delete" => q.out \subseteq Members(q.ids),
           p = "n8nlogout" => q.out = {},
           q.h \notin FormHandlers, p = "lookup" => q.h # "callback",
           \/ UNCHANGED resp
           \/ \E to : resp' = [resp EXCEPT ![r].to = to]
           \/ \E to, m : resp' = [resp EXCEPT ![r].to = to, ![r].bridge = m]
    PROVE  Final'
<1>1. RequestsOK
  BY DEF LInv, IInv
<1>2. NoneBack /\ UNCHANGED <<jar, holder, loggedOut>>
  BY NothingHappens
<1>3. Others(r) /\ pc'[r] = p /\ rq'[r] = q
  BY <1>1 DEF Others, RequestsOK, Goto
<1>4. resp'[r].sid = resp[r].sid
  <2>1. resp[r] \in Response /\ resp \in [Req -> Response]
    BY <1>1 DEF RequestsOK
  <2>2. ASSUME NEW a, a.sid = resp[r].sid, resp' = [resp EXCEPT ![r] = a]
        PROVE  resp'[r].sid = resp[r].sid
    BY <2>1, <2>2
  <2>3. ASSUME NEW to, resp' = [resp EXCEPT ![r].to = to]
        PROVE  resp'[r].sid = resp[r].sid
    <3> DEFINE a == [resp[r] EXCEPT !.to = to]
    <3>1. a.sid = resp[r].sid
      BY <2>1 DEF Response
    <3>2. QED
      BY <2>2, <2>3, <3>1
  <2>4. ASSUME NEW to, NEW m,
               resp' = [resp EXCEPT ![r].to = to, ![r].bridge = m]
        PROVE  resp'[r].sid = resp[r].sid
    <3> DEFINE a == [resp[r] EXCEPT !.to = to, !.bridge = m]
    <3>1. a.sid = resp[r].sid
      BY <2>1 DEF Response
    <3>2. resp' = [resp EXCEPT ![r] = a]
      BY <2>4
    <3>3. QED
      BY <2>2, <3>1, <3>2
  <2>5. QED
    BY <2>3, <2>4
<1>5. \A id \in Carries(r)' : Shown(id)
  BY <1>3 DEF Carries, Shown, Named
<1>6. Due(r)' /\ Steady(pc[r], rq[r])' /\ ~Holds(r)'
  BY <1>3 DEF Due, Steady, Holds
<1>7. QED
  BY <1>2, <1>3, <1>4, <1>5, <1>6, Works

LEMMA ArriveFinal ==
    ASSUME NoForms, LInv, NEW r \in Req, Arrive(r)
    PROVE  Final'
<1> USE DEF FormHandlers
<1>1. PICK b \in Browser :
        \/ \E h \in Handlers : ReceiveWithSession(r, b, h)
        \/ \E h \in Handlers, t \in forms[b] \cup {NotFound},
              c \in Cred \cup {NotFound} : ReceiveForm(r, b, h, t, c)
        \/ \E s, code \in Finished \cup {NotFound} : ReceiveCallback(r, b, s, code)
        \/ ReceiveLogout(r, b) \/ ReceiveN8NLogout(r, b)
        \/ ReceiveSignout(r, b)
  BY DEF Arrive
<1>2. /\ Carried(b) \in Request
      /\ Members(Carried(b).ids) = Named(b) /\ Carried(b).out = {}
      /\ CookieIds(jar[b]) = <<>> => Named(b) = {}
  BY CarriedNames
<1>3. ASSUME NEW h \in Handlers, ReceiveWithSession(r, b, h)
      PROVE  Final'
  <2> DEFINE q == [Carried(b) EXCEPT !.h = h]
  <2>1. /\ q.h = h /\ h \notin FormHandlers /\ h # "callback"
        /\ q.ids = Carried(b).ids /\ q.out = {}
    BY <1>2, <1>3 DEF Request, ReceiveWithSession
  <2>2. \E p \in {"lookup", "state", "done"} : Goto(r, p)
    BY <1>3 DEF ReceiveWithSession
  <2>3. /\ pc[r] = "idle" /\ UNCHANGED <<shared, history>>
        /\ rq' = [rq EXCEPT ![r] = q]
        /\ UNCHANGED resp \/ resp' = [resp EXCEPT ![r].to = "login"]
    BY <1>3 DEF ReceiveWithSession, Receive, At
  <2> HIDE DEF q
  <2>4. QED
    BY <1>2, <2>1, <2>2, <2>3, GotThrough
<1>4. ASSUME NEW h \in Handlers, NEW t, NEW c, ReceiveForm(r, b, h, t, c)
      PROVE  FALSE
  BY <1>4 DEF NoForms, ReceiveForm
<1>5. ASSUME NEW s, NEW code, ReceiveCallback(r, b, s, code)
      PROVE  Final'
  <2> DEFINE q == [Carried(b) EXCEPT !.h = "callback", !.st = s, !.code = code]
  <2>1. q.h = "callback" /\ q.ids = Carried(b).ids /\ q.out = {}
    BY <1>2 DEF Request
  <2>2. \E p \in {"take", "done"} : Goto(r, p)
    BY <1>5 DEF ReceiveCallback
  <2>3. /\ pc[r] = "idle" /\ UNCHANGED <<shared, history>>
        /\ rq' = [rq EXCEPT ![r] = q]
        /\ UNCHANGED resp \/ resp' = [resp EXCEPT ![r].to = "400"]
    BY <1>5 DEF ReceiveCallback, Receive, At
  <2> HIDE DEF q
  <2>4. QED
    BY <1>2, <2>1, <2>2, <2>3, GotThrough
<1>6. CASE ReceiveLogout(r, b)
  <2> DEFINE q == [Carried(b) EXCEPT !.h = "logout",
                      !.out = {jar[b].plain, jar[b].host} \ {NotFound}]
  <2>1. q.h = "logout" /\ q.ids = Carried(b).ids /\ q.out = Named(b)
    BY <1>2 DEF Request, Named
  <2>2. \/ Goto(r, "n8nlogout") /\ q.out = {}
        \/ Goto(r, "delete") /\ q.out = Members(q.ids)
    BY <1>2, <1>6, <2>1 DEF ReceiveLogout
  <2>3. /\ pc[r] = "idle" /\ UNCHANGED <<shared, history>>
        /\ rq' = [rq EXCEPT ![r] = q] /\ UNCHANGED resp
    BY <1>6 DEF ReceiveLogout, Receive, At
  <2> HIDE DEF q
  <2>4. QED
    BY <1>2, <2>1, <2>2, <2>3, GotThrough
<1>7. CASE ReceiveN8NLogout(r, b)
  <2> DEFINE q == [Carried(b) EXCEPT !.h = "n8nlogout"]
  <2>1. q.h = "n8nlogout" /\ q.ids = Carried(b).ids /\ q.out = {}
    BY <1>2 DEF Request
  <2>2. /\ pc[r] = "idle" /\ UNCHANGED <<shared, history>>
        /\ rq' = [rq EXCEPT ![r] = q] /\ UNCHANGED resp
        /\ Goto(r, "n8nlogout")
    BY <1>7 DEF ReceiveN8NLogout, Receive, At
  <2> HIDE DEF q
  <2>3. QED
    BY <1>2, <2>1, <2>2, GotThrough
<1>8. CASE ReceiveSignout(r, b)
  <2> DEFINE q == [Blank EXCEPT !.b = b]
  <2>1. q.h = "signout" /\ Members(q.ids) = {} /\ q.out = {}
    BY NoMembers DEF Blank
  <2>2. /\ pc[r] = "idle" /\ UNCHANGED <<shared, history>>
        /\ rq' = [rq EXCEPT ![r] = q] /\ Goto(r, "done")
        /\ resp' = [resp EXCEPT ![r].to = "root", ![r].bridge = "clear"]
    BY <1>8 DEF ReceiveSignout, Receive, At
  <2> HIDE DEF q
  <2>3. QED
    BY <2>1, <2>2, GotThrough
<1>9. QED
  BY <1>1, <1>3, <1>4, <1>5, <1>6, <1>7, <1>8

-----------------------------------------------------------------------------
(* Requests are served. *)

LEMMA LookupFoundFinal ==
    ASSUME LInv, NEW r \in Req, LookupFound(r)
    PROVE  Final'
<1> DEFINE q == [rq[r] EXCEPT !.id = Head(rq[r].ids),
                              !.copy = LiveSession(Head(rq[r].ids)),
                              !.ids = <<>>]
<1>1. /\ rq[r] \in Request /\ Steady(pc[r], rq[r]) /\ pc[r] = "lookup"
      /\ resp[r] \in Response /\ pc \in [Req -> PCs]
  BY DEF LInv, Final, IInv, RequestsOK, LookupFound, At
<1>2. q.h = rq[r].h /\ q.out = rq[r].out /\ q.ids = <<>>
  BY <1>1 DEF Request
<1>3. rq' = [rq EXCEPT ![r] = q]
  BY DEF LookupFound
<1> HIDE DEF q
<1>4. NoneBack /\ UNCHANGED <<jar, holder, loggedOut, resp>>
  BY NothingHappens DEF LookupFound
<1>5. PICK p \in {"csrf", "proxy", "current", "vault"} : Goto(r, p)
  BY DEF LookupFound, AfterSession
<1>6. Steady(p, q) /\ ~Holds(r)'
  <2>1. rq[r].h # "callback" /\ rq[r].h \notin FormHandlers
    BY <1>1 DEF Steady
  <2>2. rq'[r].h = rq[r].h
    BY <1>2, <1>3 DEF LInv, IInv, RequestsOK
  <2>3. QED
    BY <1>2, <2>1, <2>2 DEF Steady, Holds
<1>7. resp' = [resp EXCEPT ![r] = resp[r]]
  BY <1>4, KeepsAnswer
<1>8. QED
  BY <1>2, <1>3, <1>4, <1>5, <1>6, <1>7, NoMembers, CarriesOn

LEMMA TailMembers ==
    ASSUME NEW s \in Seq(Sid), s # <<>>
    PROVE  /\ Head(s) \in Sid /\ Tail(s) \in Seq(Sid)
           /\ Members(s) = {Head(s)} \cup Members(Tail(s))
<1>1. Head(s) = s[1] /\ 1 \in 1..Len(s) /\ Head(s) \in Sid
  OBVIOUS
<1>2. /\ Tail(s) \in Seq(Sid) /\ Len(Tail(s)) = Len(s) - 1
      /\ \A i \in 1..Len(Tail(s)) : Tail(s)[i] = s[i + 1]
  OBVIOUS
<1>3. ASSUME NEW i \in 1..Len(s), i # 1
      PROVE  s[i] \in Members(Tail(s))
  <2>1. i - 1 \in 1..Len(Tail(s)) /\ s[i] = Tail(s)[i - 1]
    BY <1>2, <1>3
  <2>2. QED
    BY <2>1 DEF Members
<1>4. ASSUME NEW i \in 1..Len(Tail(s))
      PROVE  Tail(s)[i] \in Members(s)
  <2>1. i + 1 \in 1..Len(s) /\ Tail(s)[i] = s[i + 1]
    BY <1>2, <1>4
  <2>2. QED
    BY <2>1 DEF Members
<1>5. Members(s) \subseteq {Head(s)} \cup Members(Tail(s))
  BY <1>1, <1>3 DEF Members
<1>6. Members(Tail(s)) \subseteq Members(s) /\ Head(s) \in Members(s)
  BY <1>1, <1>4 DEF Members
<1>7. QED
  BY <1>1, <1>2, <1>5, <1>6

LEMMA FirstId ==
    ASSUME LInv, NEW r \in Req, pc[r] \in {"lookup", "delete"}
    PROVE  /\ Head(rq[r].ids) \in Sid /\ Tail(rq[r].ids) \in Seq(Sid)
           /\ Members(rq[r].ids) =
                 {Head(rq[r].ids)} \cup Members(Tail(rq[r].ids))
<1>1. rq[r].ids \in Seq(Sid) /\ rq[r].ids # <<>>
  BY DEF LInv, IInv, RequestsOK, Request, Ready
<1>2. QED
  BY <1>1, TailMembers

LEMMA LookupMissingFinal ==
    ASSUME LInv, NEW r \in Req, LookupMissing(r)
    PROVE  Final'
<1> DEFINE rest == Tail(rq[r].ids)
<1>1. /\ rq[r] \in Request /\ Steady(pc[r], rq[r]) /\ pc[r] = "lookup"
      /\ resp[r] \in Response /\ pc \in [Req -> PCs] /\ rq \in [Req -> Request]
  BY DEF LInv, Final, IInv, RequestsOK, LookupMissing, At
<1>2. Head(rq[r].ids) \in Sid /\ Members(rest) \subseteq Members(rq[r].ids)
  BY <1>1, FirstId
<1>3. NoneBack /\ UNCHANGED <<jar, holder, loggedOut>>
  <2>1. UNCHANGED sess \/ DelSession(Head(rq[r].ids))
    BY DEF LookupMissing
  <2>2. NoneBack
    BY <1>2, <2>1, StoreKept DEF DelSession
  <2>3. QED
    BY <2>2 DEF LookupMissing, sharedButStore, browsers, history
<1>4. CASE rest # <<>>
  <2> DEFINE q == [rq[r] EXCEPT !.ids = rest]
  <2>1. q.h = rq[r].h /\ q.out = rq[r].out /\ q.ids = rest
    BY <1>1 DEF Request
  <2>2. UNCHANGED <<pc, resp>> /\ rq' = [rq EXCEPT ![r] = q]
    BY <1>4 DEF LookupMissing
  <2> HIDE DEF q
  <2>3. Goto(r, "lookup") /\ resp' = [resp EXCEPT ![r] = resp[r]]
    BY <1>1, <2>2, KeepsAnswer DEF Goto
  <2>4. Steady("lookup", q) /\ ~Holds(r)'
    BY <1>1, <2>1, <2>2 DEF Steady, Holds
  <2>5. QED
    BY <1>2, <1>3, <2>1, <2>2, <2>3, <2>4, CarriesOn
<1>5. CASE rest = <<>> /\ Serves(r, {"login"})
  <2> DEFINE q == [rq[r] EXCEPT !.ids = <<>>]
             a == [resp[r] EXCEPT !.sid = "clear"]
  <2>1. q.h = rq[r].h /\ q.out = rq[r].out /\ q.ids = <<>> /\ a.sid = "clear"
    BY <1>1 DEF Request, Response
  <2>2. /\ Goto(r, "state") /\ rq' = [rq EXCEPT ![r] = q]
        /\ resp' = [resp EXCEPT ![r] = a]
    BY <1>5 DEF LookupMissing
  <2> HIDE DEF q, a
  <2>3. Steady("state", q) /\ ~Holds(r)'
    BY <1>1, <2>1, <2>2 DEF Steady, Holds, Goto
  <2>4. QED
    BY <1>3, <2>1, <2>2, <2>3, NoMembers, CarriesOn
<1>6. CASE rest = <<>> /\ ~Serves(r, {"login"})
  <2> DEFINE a == [resp[r] EXCEPT !.sid = "clear", !.to = "login"]
  <2>1. a.sid = "clear"
    BY <1>1 DEF Response
  <2>2. Leave(r) /\ resp' = [resp EXCEPT ![r] = a]
    BY <1>6 DEF LookupMissing
  <2>3. QED
    BY <1>3, <2>1, <2>2, Leaves
<1>7. QED
  BY <1>4, <1>5, <1>6

LEMMA StartLoginFinal ==
    ASSUME LInv, NEW r \in Req, NEW s \in State,
           StartLogin(r, s) \/ StartLoginFails(r, s)
    PROVE  Final'
<1>1. NoneBack /\ UNCHANGED <<jar, holder, loggedOut>>
  BY StoreKept DEF StartLogin, StartLoginFails, sharedButStore, browsers
<1>2. CASE StartLogin(r, s)
  <2> DEFINE a == [resp[r] EXCEPT !.to = "idp", !.st = s]
  <2>1. a.sid = resp[r].sid
    BY DEF LInv, IInv, RequestsOK, Response
  <2>2. Leave(r) /\ resp' = [resp EXCEPT ![r] = a]
    BY <1>2 DEF StartLogin
  <2>3. QED
    BY <1>1, <2>1, <2>2, Leaves
<1>3. CASE StartLoginFails(r, s)
  BY <1>1, <1>3, Responds DEF StartLoginFails
<1>4. QED
  BY <1>2, <1>3

LEMMA StateFinal ==
    ASSUME LInv, NEW r \in Req,
           \/ TakeState(r) \/ TakeStateFails(r)
           \/ Exchange(r) \/ ExchangeFails(r)
    PROVE  Final'
<1>1. NoneBack /\ UNCHANGED <<jar, holder, loggedOut>>
  BY StoreKept DEF TakeState, TakeStateFails, Exchange, ExchangeFails, shared,
                   sharedButStore, keys, browsers, history
<1>2. /\ Steady(pc[r], rq[r]) /\ rq \in [Req -> Request]
      /\ pc \in [Req -> PCs]
  BY DEF LInv, Final, IInv, RequestsOK
<1>3. ASSUME NEW p \in {"exchange", "create"}, Goto(r, p), UNCHANGED <<rq, resp>>
      PROVE  Final'
  <2>1. Steady(p, rq[r]) /\ ~Holds(r)'
    BY <1>2, <1>3 DEF Steady, Holds, Goto
  <2>2. resp' = [resp EXCEPT ![r] = resp[r]]
    BY <1>3, KeepsAnswer
  <2>3. QED
    BY <1>1, <1>3, <2>1, <2>2, TurnsTo
<1>4. ASSUME NEW to, Respond(r, to)
      PROVE  Final'
  BY <1>1, <1>4, Responds
<1>5. QED
  BY <1>3, <1>4 DEF TakeState, TakeStateFails, Exchange, ExchangeFails

LEMMA ReloadFinal ==
    ASSUME LInv, NEW r \in Req, Reload(r) \/ ReloadFails(r)
    PROVE  Final'
<1>1. /\ rq[r] \in Request /\ Steady(pc[r], rq[r]) /\ pc[r] = "reload"
      /\ rq \in [Req -> Request] /\ rq[r].id \in Sid /\ pc \in [Req -> PCs]
  BY DEF LInv, Final, IInv, RequestsOK, Ready, Faithful, HasSession, Reload,
         ReloadFails, At
<1>2. NoneBack /\ UNCHANGED <<jar, holder, loggedOut>>
  <2>1. UNCHANGED sess \/ DelSession(rq[r].id)
    BY DEF Reload, ReloadFails, shared, keys
  <2>2. NoneBack
    BY <1>1, <2>1, StoreKept DEF DelSession
  <2>3. QED
    BY <2>2 DEF Reload, ReloadFails, shared, sharedButStore, browsers, history
<1>3. CASE Reload(r)
  <2> DEFINE q == [rq[r] EXCEPT !.copy = LiveSession(rq[r].id)]
  <2>1. /\ q.h = rq[r].h /\ q.out = rq[r].out /\ q.ids = rq[r].ids
        /\ q.id = rq[r].id
    BY <1>1 DEF Request
  <2>2. /\ rq' = [rq EXCEPT ![r] = q] /\ Goto(r, "save")
        /\ resp' = [resp EXCEPT ![r] = resp[r]]
    BY <1>3, KeepsAnswer DEF Reload
  <2> HIDE DEF q
  <2>3. Steady("save", q) /\ (Holds(r)' => Holds(r))
    BY <1>1, <2>1, <2>2 DEF Steady, Holds
  <2>4. QED
    BY <1>2, <2>1, <2>2, <2>3, CarriesOn
<1>4. CASE ReloadFails(r)
  BY <1>2, <1>4, Responds DEF ReloadFails
<1>5. QED
  BY <1>3, <1>4

LEMMA GetCredentialFinal ==
    ASSUME LInv, NEW r \in Req, GetCredential(r) \/ GetCredentialFails(r)
    PROVE  Final'
<1>1. /\ rq[r] \in Request /\ Steady(pc[r], rq[r]) /\ pc[r] = "vault"
      /\ rq \in [Req -> Request]
  BY DEF LInv, Final, IInv, RequestsOK, GetCredential, GetCredentialFails, At
<1>2. NoneBack /\ UNCHANGED <<jar, holder, loggedOut>>
  BY NothingHappens DEF GetCredential, GetCredentialFails
<1>3. ASSUME NEW c, rq' = [rq EXCEPT ![r].cred = c], Goto(r, "n8nlogin"),
             UNCHANGED resp
      PROVE  Final'
  <2> DEFINE q == [rq[r] EXCEPT !.cred = c]
  <2>1. /\ q.h = rq[r].h /\ q.out = rq[r].out /\ q.ids = rq[r].ids
        /\ q.id = rq[r].id
    BY <1>1 DEF Request
  <2>2. /\ rq' = [rq EXCEPT ![r] = q]
        /\ resp' = [resp EXCEPT ![r] = resp[r]]
    BY <1>3, KeepsAnswer
  <2> HIDE DEF q
  <2>3. Steady("n8nlogin", q) /\ (Holds(r)' => Holds(r))
    BY <1>1, <2>1, <2>2 DEF Steady, Holds
  <2>4. QED
    BY <1>2, <1>3, <2>1, <2>2, <2>3, CarriesOn
<1>4. ASSUME NEW to, Respond(r, to)
      PROVE  Final'
  BY <1>2, <1>4, Responds
<1>5. QED
  BY <1>3, <1>4 DEF GetCredential, GetCredentialFails

LEMMA RespondsLoggedIn ==
    ASSUME LInv, NEW r \in Req, NEW to, RespondLoggedIn(r, to), NoneBack,
           UNCHANGED <<jar, holder, loggedOut>>
    PROVE  Final'
<1> DEFINE a == [resp[r] EXCEPT !.to = to, !.n8n = rq[r].cred, !.bridge = "set"]
<1>1. a.sid = resp[r].sid
  BY DEF LInv, IInv, RequestsOK, Response
<1>2. Leave(r) /\ resp' = [resp EXCEPT ![r] = a]
  BY DEF RespondLoggedIn
<1>3. QED
  BY <1>1, <1>2, Leaves

LEMMA N8NLoginFinal ==
    ASSUME LInv, NEW r \in Req, N8NLogin(r)
    PROVE  Final'
<1>1. /\ Steady(pc[r], rq[r]) /\ pc[r] = "n8nlogin" /\ rq \in [Req -> Request]
  BY DEF LInv, Final, IInv, RequestsOK, N8NLogin, At
<1>2. NoneBack /\ UNCHANGED <<jar, holder, loggedOut>>
  BY StoreKept DEF N8NLogin, shared, sharedButStore, keys, browsers
<1>3. CASE Goto(r, "reload") /\ UNCHANGED <<rq, resp>>
  <2>1. Steady("reload", rq[r]) /\ (Holds(r)' => Holds(r))
    BY <1>1, <1>3 DEF Steady, Holds
  <2>2. resp' = [resp EXCEPT ![r] = resp[r]]
    BY <1>3, KeepsAnswer
  <2>3. QED
    BY <1>2, <1>3, <2>1, <2>2, TurnsTo
<1>4. ASSUME NEW to, RespondLoggedIn(r, to)
      PROVE  Final'
  BY <1>2, <1>4, RespondsLoggedIn
<1>5. ~Serves(r, {"linkpost"})
  BY <1>1 DEF Steady, FormHandlers, Serves
<1>6. QED
  BY <1>3, <1>4, <1>5 DEF N8NLogin

LEMMA N8NLoginFailsFinal ==
    ASSUME LInv, NEW r \in Req, NEW cause, N8NLoginFails(r, cause)
    PROVE  Final'
<1> DEFINE to == IF cause = "limited" THEN "429"
                 ELSE IF Serves(r, {"linkpost"}) THEN "400" ELSE "relink"
           a == [resp[r] EXCEPT !.cause = cause, !.to = to]
<1>1. a.sid = resp[r].sid
  BY DEF LInv, IInv, RequestsOK, Response
<1>2. Leave(r) /\ resp' = [resp EXCEPT ![r] = a]
  BY DEF N8NLoginFails, RespondLoginError
<1>3. NoneBack /\ UNCHANGED <<jar, holder, loggedOut>>
  BY NothingHappens DEF N8NLoginFails
<1>4. QED
  BY <1>1, <1>2, <1>3, Leaves

\* Only a callback gets here, and nobody was told the id it saves.
LEMMA SaveFinal ==
    ASSUME LInv, NEW r \in Req, SaveSession(r) \/ SaveSessionFails(r)
    PROVE  Final'
<1>1. Steady(pc[r], rq[r]) /\ pc[r] = "save" /\ Private
      /\ sess \in [Sid -> SessionKey \cup {NotFound}]
  BY DEF LInv, Final, IInv, SharedOK, KeysTypeOK, SaveSession,
         SaveSessionFails, At
<1>2. Serves(r, {"callback"})
  BY <1>1 DEF SaveSession, SaveSessionFails, Steady, FormHandlers, Serves
<1>3. ~Shown(rq[r].id)
  BY <1>1, <1>2 DEF Private, Holds, Serves
<1>4. NoneBack
  <2>1. \/ UNCHANGED sess
        \/ \E k : sess' = [sess EXCEPT ![rq[r].id] = k]
    BY DEF SaveSession, SaveSessionFails, SetSession
  <2>2. QED
    BY <1>1, <1>3, <2>1 DEF NoneBack
<1>5. UNCHANGED <<jar, holder, loggedOut>>
  BY DEF SaveSession, SaveSessionFails, sharedButStore, browsers, history
<1>6. Respond(r, "503") \/ \E to : RespondLoggedIn(r, to)
  BY <1>1, <1>2 DEF SaveSession, SaveSessionFails, Steady, FormHandlers, Serves
<1>7. QED
  BY <1>4, <1>5, <1>6, Responds, RespondsLoggedIn

LEMMA LinkPageFinal ==
    ASSUME LInv, NEW r \in Req,
           LinkPageToken(r) \/ \E t \in Token : SetCSRF(r, t)
    PROVE  Final'
<1>1. /\ Steady(pc[r], rq[r]) /\ rq \in [Req -> Request] /\ resp[r] \in Response
  BY DEF LInv, Final, IInv, RequestsOK
<1>2. NoneBack /\ UNCHANGED <<jar, holder, loggedOut>>
  BY StoreKept DEF LinkPageToken, SetCSRF, shared, sharedButStore, keys,
                   browsers, history
<1>3. rq[r].h # "callback"
  BY <1>1 DEF LinkPageToken, SetCSRF, Serves, At, Steady
<1>4. ASSUME NEW p \in {"setcsrf", "vault"}, Goto(r, p), UNCHANGED rq,
             NEW a, resp' = [resp EXCEPT ![r] = a], a.sid = resp[r].sid
      PROVE  Final'
  <2>1. Steady(p, rq[r]) /\ ~Holds(r)'
    BY <1>1, <1>3, <1>4 DEF Steady, Holds
  <2>2. QED
    BY <1>2, <1>4, <2>1, TurnsTo
<1>5. CASE LinkPageToken(r)
  <2> DEFINE a == [resp[r] EXCEPT !.page = StoredToken(rq[r].id)]
  <2>1. a.sid = resp[r].sid
    BY <1>1 DEF Response
  <2>2. \/ Goto(r, "setcsrf") /\ UNCHANGED resp
        \/ Goto(r, "vault") /\ resp' = [resp EXCEPT ![r] = a]
    BY <1>5 DEF LinkPageToken
  <2>3. UNCHANGED rq
    BY <1>5 DEF LinkPageToken
  <2> HIDE DEF a
  <2>4. QED
    BY <1>4, <2>1, <2>2, <2>3, KeepsAnswer
<1>6. ASSUME NEW t \in Token, SetCSRF(r, t)
      PROVE  Final'
  <2> DEFINE a == [resp[r] EXCEPT !.page = t]
  <2>1. a.sid = resp[r].sid
    BY <1>1 DEF Response
  <2>2. \/ /\ Goto(r, "vault") /\ UNCHANGED rq
           /\ resp' = [resp EXCEPT ![r] = a]
        \/ Respond(r, "503")
    BY <1>6 DEF SetCSRF
  <2> HIDE DEF a
  <2>3. QED
    BY <1>2, <1>4, <2>1, <2>2, Responds
<1>7. QED
  BY <1>5, <1>6

\* Without forms, none of their steps is taken.
LEMMA FormsFinal ==
    ASSUME LInv, NEW r \in Req,
           \/ ValidateCSRF(r) \/ ValidateCSRFFails(r)
           \/ UpdateCredential(r) \/ UpdateCredentialFails(r)
    PROVE  FALSE
BY DEF LInv, Final, Steady, FormHandlers, Serves, ValidateCSRF,
       ValidateCSRFFails, UpdateCredential, UpdateCredentialFails

\* Each id of the logout is deleted, or struck off its list.
LEMMA DeleteSessionFinal ==
    ASSUME LInv, NEW r \in Req, DeleteSession(r)
    PROVE  Final'
<1> DEFINE id == Head(rq[r].ids)
           rest == Tail(rq[r].ids)
           p == IF rest = <<>> THEN "n8nlogout" ELSE "delete"
<1>1. /\ rq[r] \in Request /\ Steady(pc[r], rq[r]) /\ pc[r] = "delete"
      /\ resp[r] \in Response /\ RequestsOK /\ Due(r)
      /\ sess \in [Sid -> SessionKey \cup {NotFound}]
  BY DEF LInv, Final, IInv, SharedOK, KeysTypeOK, RequestsOK, DeleteSession, At
<1>2. id \in Sid /\ Members(rq[r].ids) = {id} \cup Members(rest)
  BY <1>1, FirstId
<1>3. NoneBack /\ UNCHANGED <<jar, holder, loggedOut, resp>>
  <2>1. UNCHANGED sess \/ DelSession(id)
    BY DEF DeleteSession
  <2>2. NoneBack
    BY <1>2, <2>1, StoreKept DEF DelSession
  <2>3. QED
    BY <2>2 DEF DeleteSession, sharedButStore, browsers, history
<1>4. Goto(r, p)
  BY DEF DeleteSession
<1>5. ASSUME NEW q, rq' = [rq EXCEPT ![r] = q], q.h = rq[r].h, q.ids = rest,
             q.out \subseteq rq[r].out, id \in q.out => sess'[id] = NotFound
      PROVE  Final'
  <2>1. Others(r) /\ pc'[r] = p /\ rq'[r] = q /\ resp' = resp
    BY <1>1, <1>3, <1>4, <1>5 DEF Others, RequestsOK, Goto
  <2>2. \A i \in Carries(r)' : Shown(i)
    BY <1>2, <1>5, <2>1 DEF Carries, Shown
  <2>3. Due(r)'
    <3>1. ASSUME NEW i \in q.out
          PROVE  sess'[i] = NotFound \/ i \in Members(rest)
      <4>1. i \in Sid /\ Shown(i)
        BY <1>1, <1>5, <3>1 DEF Request, Shown, Carries
      <4>2. sess[i] = NotFound \/ i \in Members(rq[r].ids)
        BY <1>1, <1>5, <3>1 DEF Due
      <4>3. QED
        BY <1>2, <1>3, <1>5, <3>1, <4>1, <4>2 DEF NoneBack
    <3>2. rest = <<>> => Members(rest) = {}
      BY NoMembers
    <3>3. p = "n8nlogout" => rest = <<>>
      OBVIOUS
    <3> HIDE DEF p, rest
    <3>4. QED
      BY <1>5, <2>1, <3>1, <3>2, <3>3 DEF Due
  <2>4. Steady(pc[r], rq[r])' /\ ~Holds(r)'
    BY <1>1, <1>5, <2>1 DEF Steady, Holds
  <2>5. QED
    BY <1>3, <2>1, <2>2, <2>3, <2>4, Works
<1>6. CASE DelSession(id) /\ rq' = [rq EXCEPT ![r].ids = rest]
  <2> DEFINE q == [rq[r] EXCEPT !.ids = rest]
  <2>1. q.h = rq[r].h /\ q.ids = rest /\ q.out = rq[r].out
    BY <1>1 DEF Request
  <2>2. sess'[id] = NotFound /\ rq' = [rq EXCEPT ![r] = q]
    BY <1>1, <1>2, <1>6 DEF DelSession
  <2> HIDE DEF q
  <2>3. QED
    BY <1>5, <2>1, <2>2
<1>7. CASE rq' = [rq EXCEPT ![r].ids = rest, ![r].out = @ \ {id}]
  <2> DEFINE q == [rq[r] EXCEPT !.ids = rest, !.out = rq[r].out \ {id}]
  <2>1. q.h = rq[r].h /\ q.ids = rest /\ q.out = rq[r].out \ {id}
    BY <1>1 DEF Request
  <2>2. rq' = [rq EXCEPT ![r] = q]
    BY <1>7
  <2> HIDE DEF q
  <2>3. QED
    BY <1>5, <2>1, <2>2
<1>8. QED
  BY <1>6, <1>7 DEF DeleteSession

LEMMA N8NLogoutFinal ==
    ASSUME LInv, NEW r \in Req, N8NLogout(r)
    PROVE  Final'
<1>1. /\ RequestsOK /\ Steady(pc[r], rq[r]) /\ pc[r] = "n8nlogout"
  BY DEF LInv, Final, IInv, N8NLogout, At
<1>2. NoneBack /\ UNCHANGED <<jar, holder>>
  BY StoreKept DEF N8NLogout, shared, sharedButStore, keys, browsers
<1>3. Others(r)
  BY <1>1 DEF Others, RequestsOK, N8NLogout, Leave, Goto
<1>4. /\ pc'[r] = "done" /\ rq'[r].h = rq[r].h
      /\ rq'[r].ids = <<>> /\ rq'[r].out = {}
  BY <1>1 DEF RequestsOK, N8NLogout, Leave, Goto, Blank
<1>5. Carries(r)' = {} /\ ~Holds(r)' /\ Due(r)' /\ Steady(pc[r], rq[r])'
  BY <1>1, <1>4, NoMembers DEF Carries, Holds, Due, Steady
<1>6. resp'[r].sid \in {"clear", resp[r].sid}
  BY <1>1 DEF RequestsOK, Response, N8NLogout
<1>7. loggedOut' = loggedOut \cup rq[r].out
  BY DEF N8NLogout
<1>8. ASSUME NEW id \in Sid, Shown(id)'
      PROVE  Shown(id)
  <2>1. \A x \in Req \ {r} : Carries(x)' = Carries(x)
    BY <1>3 DEF Others, Carries
  <2>2. QED
    BY <1>2, <1>5, <1>7, <1>8, <2>1 DEF Shown, Carries
<1>9. \A id \in Sid : Sets(r, id)' => Sets(r, id)
  BY <1>6 DEF Sets
<1>10. QED
  BY <1>1, <1>2, <1>3, <1>5, <1>7, <1>8, <1>9, Lasts

\* n8n's answer names no session of the gateway's.
LEMMA RelaysFinal ==
    ASSUME LInv, NEW r \in Req, NEW to, NEW cookies, Relay(r, to, cookies),
           NoneBack, UNCHANGED <<jar, holder, loggedOut>>
    PROVE  Final'
<1>1. PICK cookie : resp' = [resp EXCEPT ![r].to = to, ![r].n8n = cookie]
  BY DEF Relay
<1> DEFINE a == [resp[r] EXCEPT !.to = to, !.n8n = cookie]
<1>2. a.sid = resp[r].sid
  BY DEF LInv, IInv, RequestsOK, Response
<1>3. resp' = [resp EXCEPT ![r] = a] /\ Leave(r)
  BY <1>1 DEF Relay
<1> HIDE DEF a
<1>4. QED
  BY <1>2, <1>3, Leaves

LEMMA CurrentUserFinal ==
    ASSUME LInv, NEW r \in Req, CurrentUser(r)
    PROVE  Final'
<1>1. /\ Steady(pc[r], rq[r]) /\ rq[r].h = "me" /\ rq \in [Req -> Request]
  BY DEF LInv, Final, IInv, RequestsOK, Ready, CurrentUser, At
<1>2. NoneBack /\ UNCHANGED <<jar, holder, loggedOut>>
  BY NothingHappens DEF CurrentUser
<1>3. CASE Goto(r, "vault") /\ UNCHANGED <<rq, resp>>
  <2>1. Steady("vault", rq[r]) /\ ~Holds(r)'
    BY <1>1, <1>3 DEF Steady, Holds
  <2>2. resp' = [resp EXCEPT ![r] = resp[r]]
    BY <1>3, KeepsAnswer
  <2>3. QED
    BY <1>2, <1>3, <2>1, <2>2, TurnsTo
<1>4. QED
  BY <1>2, <1>3, RelaysFinal DEF CurrentUser

\* The steps that only answer.
LEMMA AnswersFinal ==
    ASSUME LInv, NEW r \in Req,
           \/ LookupFails(r) \/ RandomFails(r) \/ CreateSessionFails(r)
           \/ LinkPageFails(r) \/ ProxyConsole(r)
    PROVE  Final'
<1>1. NoneBack /\ UNCHANGED <<jar, holder, loggedOut>>
  BY NothingHappens DEF LookupFails, RandomFails, CreateSessionFails,
                        LinkPageFails, ProxyConsole
<1>2. \/ \E to : Respond(r, to)
      \/ \E to, cookies : Relay(r, to, cookies)
  BY DEF LookupFails, RandomFails, CreateSessionFails, LinkPageFails,
         ProxyConsole
<1>3. QED
  BY <1>1, <1>2, Responds, RelaysFinal

\* The id of a new session is new to everybody.
LEMMA CreateSessionFinal ==
    ASSUME LInv, NEW r \in Req, NEW id \in Sid, CreateSession(r, id)
    PROVE  Final'
<1> DEFINE v == NewSession(idp[rq[r].code])
<1>1. /\ RequestsOK /\ HistoryOK /\ pc[r] = "create" /\ rq[r].h = "callback"
      /\ idp[rq[r].code] \in User /\ OnlyUsed /\ Private /\ Gone
      /\ \A x \in Req : Due(x) /\ Steady(pc[x], rq[x])
      /\ sess \in [Sid -> SessionKey \cup {NotFound}]
  BY DEF LInv, Final, IInv, SharedOK, KeysTypeOK, RequestsOK, Ready,
         CreateSession, At
<1>2. holder[id] = NotFound /\ v.user # NotFound
  BY <1>1, NotFoundAssumption DEF CreateSession, NewSession
<1>3. /\ holder' = [holder EXCEPT ![id] = v.user]
      /\ \A i \in Sid \ {id} : sess'[i] = sess[i]
      /\ UNCHANGED <<jar, loggedOut>>
  BY <1>1 DEF CreateSession, SetSession, sharedButStore, browsers
<1>4. ~Shown(id) /\ \A x \in Req : ~Sets(x, id)
  BY <1>1, <1>2 DEF OnlyUsed
<1>5. \A x \in Req : Holds(x) => rq[x].id \in Sid \ {id}
  BY <1>1, <1>2 DEF RequestsOK, Ready, Faithful, Holds, HasSession
<1>6. NoneBack
  BY <1>3, <1>4 DEF NoneBack
<1>7. /\ rq[r] \in Request /\ resp[r] \in Response
      /\ rq \in [Req -> Request] /\ resp \in [Req -> Response]
      /\ pc \in [Req -> PCs]
  BY <1>1 DEF RequestsOK
<1>8. /\ Others(r) /\ Carries(r)' \subseteq Carries(r)
      /\ Steady(pc[r], rq[r])' /\ Due(r)'
      /\ Holds(r)' => rq'[r].id = id
      /\ resp'[r].sid \in {resp[r].sid, id}
  <2>1. CASE /\ Goto(r, "vault")
             /\ rq' = [rq EXCEPT ![r].id = id, ![r].copy = v]
             /\ resp' = [resp EXCEPT ![r].sid = id]
    <3> HIDE DEF v
    <3>1. /\ rq'[r].ids = rq[r].ids /\ rq'[r].out = rq[r].out
          /\ rq'[r].h = rq[r].h /\ rq'[r].id = id
      BY <1>7, <2>1 DEF Request
    <3>2. Others(r) /\ pc'[r] = "vault" /\ resp'[r].sid = id
      BY <1>7, <2>1 DEF Others, Goto, Response
    <3>3. QED
      BY <1>1, <3>1, <3>2 DEF Carries, Steady, Due
  <2>2. CASE Respond(r, "503")
    <3>1. Others(r) /\ pc'[r] = "done" /\ resp'[r].sid = resp[r].sid
      BY <1>7, <2>2 DEF Others, Respond, Leave, Goto, Response
    <3>2. rq'[r].ids = <<>> /\ rq'[r].out = {} /\ rq'[r].h = rq[r].h
      BY <1>7, <2>2 DEF Respond, Leave, Blank
    <3>3. QED
      BY <1>1, <3>1, <3>2, NoMembers DEF Carries, Steady, Due, Holds
  <2>3. QED
    BY <2>1, <2>2 DEF CreateSession
<1>9. \A i \in Sid : Shown(i)' => Shown(i)
  <2>1. \A x \in Req : Carries(x)' \subseteq Carries(x)
    BY <1>8 DEF Others, Carries
  <2>2. QED
    BY <1>3, <2>1 DEF Shown
<1>10. \A x \in Req, i \in Sid : Sets(x, i)' => Sets(x, i) \/ (x = r /\ i = id)
  BY <1>8 DEF Others, Sets
<1>11. OnlyUsed'
  <2>1. \A i \in Sid : holder[i] # NotFound \/ i = id => holder'[i] # NotFound
    BY <1>1, <1>2, <1>3 DEF HistoryOK
  <2>2. QED
    BY <1>1, <1>9, <1>10, <2>1 DEF OnlyUsed
<1>12. \A x \in Req \ {r} : Holds(x)' => Holds(x) /\ rq'[x].id = rq[x].id
  BY <1>8 DEF Others, Holds
<1>13. Private'
  <2>1. ASSUME NEW x \in Req, Holds(x)'
        PROVE  /\ ~Shown(rq[x].id)'
               /\ \A y \in Req \ {x} :
                    ~Sets(y, rq[x].id)' /\ ~(Holds(y) /\ rq[y].id = rq[x].id)'
    <3>1. PICK i \in Sid :
             /\ i = rq'[x].id
             /\ \/ x = r /\ i = id
                \/ x # r /\ i # id /\ Holds(x) /\ i = rq[x].id
      <4>1. CASE x = r
        BY <1>8, <2>1, <4>1
      <4>2. CASE x # r
        <5>1. Holds(x) /\ rq'[x].id = rq[x].id
          BY <1>12, <2>1, <4>2
        <5>2. QED
          BY <1>5, <4>2, <5>1
      <4>3. QED
        BY <4>1, <4>2
    <3>2. ~Shown(i)'
      BY <1>1, <1>4, <1>9, <3>1 DEF Private
    <3>3. \A y \in Req \ {x} : ~Sets(y, i)'
      BY <1>1, <1>4, <1>10, <3>1 DEF Private
    <3>4. \A y \in Req \ {x} : ~(Holds(y)' /\ rq'[y].id = i)
      <4>1. CASE x = r
        BY <1>5, <1>12, <3>1, <4>1
      <4>2. CASE x # r
        BY <1>1, <1>8, <1>12, <3>1, <4>2 DEF Private
      <4>3. QED
        BY <4>1, <4>2
    <3>5. QED
      BY <3>1, <3>2, <3>3, <3>4 DEF Shown, Sets
  <2>2. QED
    BY <2>1 DEF Private
<1>14. Gone'
  BY <1>1, <1>3, <1>6 DEF Gone, HistoryOK, NoneBack, Shown
<1>15. \A x \in Req : Due(x)' /\ Steady(pc[x], rq[x])'
  <2>1. ASSUME NEW x \in Req \ {r}
        PROVE  Due(x)' /\ Steady(pc[x], rq[x])'
    <3>1. \A i \in rq[x].out : Shown(i) /\ i \in Sid
      BY <1>7 DEF Shown, Carries, Request
    <3>2. pc'[x] = pc[x] /\ rq'[x] = rq[x]
      BY <1>8 DEF Others
    <3>3. QED
      BY <1>1, <1>6, <3>1, <3>2 DEF NoneBack, Due, Steady
  <2>2. QED
    BY <1>8, <2>1
<1>16. QED
  BY <1>11, <1>13, <1>14, <1>15 DEF Final

LEMMA ServeFinal ==
    ASSUME LInv, NEW r \in Req, Serve(r)
    PROVE  Final'
BY LookupFoundFinal, LookupMissingFinal, StartLoginFinal, StateFinal,
   CreateSessionFinal, ReloadFinal, GetCredentialFinal, N8NLoginFinal,
   N8NLoginFailsFinal, SaveFinal, LinkPageFinal, FormsFinal,
   DeleteSessionFinal, N8NLogoutFinal, CurrentUserFinal, AnswersFinal
   DEF Serve

-----------------------------------------------------------------------------
(* Responses, browsers, and the world around. *)

\* A request that is over holds nothing.
LEMMA Freed ==
    ASSUME LInv, NEW r \in Req, Goto(r, "idle"),
           rq' = [rq EXCEPT ![r] = Blank],
           resp' = [resp EXCEPT ![r] = NoResponse]
    PROVE  /\ Others(r) /\ Carries(r)' = {} /\ ~Holds(r)'
           /\ Due(r)' /\ Steady(pc[r], rq[r])' /\ \A id : ~Sets(r, id)'
<1>1. RequestsOK
  BY DEF LInv, IInv
<1>2. /\ Others(r) /\ pc'[r] = "idle" /\ rq'[r] = Blank
      /\ resp'[r] = NoResponse
  BY <1>1 DEF Others, RequestsOK, Goto
<1>3. Blank.ids = <<>> /\ Blank.out = {} /\ Blank.h = "signout"
      /\ NoResponse.sid = "keep"
  BY DEF Blank, NoResponse
<1>4. Carries(r)' = {}
  BY <1>2, <1>3, NoMembers DEF Carries
<1>5. QED
  BY <1>2, <1>3, <1>4 DEF Holds, Due, Steady, Sets, FormHandlers

\* Delivering a response shows its session to the browser.
LEMMA DeliverFinal ==
    ASSUME LInv, NEW r \in Req, Deliver(r)
    PROVE  Final'
<1> DEFINE b == rq[r].b
           a == resp[r]
<1>1. /\ b \in Browser /\ jar \in [Browser -> Jar] /\ a \in Response
  BY DEF LInv, IInv, SharedOK, WorldOK, RequestsOK, Ready, Deliver, At
<1>2. /\ Others(r) /\ Carries(r)' = {} /\ ~Holds(r)'
      /\ Due(r)' /\ Steady(pc[r], rq[r])' /\ \A id : ~Sets(r, id)'
  BY Freed DEF Deliver
<1>3. NoneBack /\ UNCHANGED <<holder, loggedOut>>
  BY StoreKept DEF Deliver, keys, history
<1>4. /\ jar'[b].plain = NewValue(a.sid, jar[b].plain)
      /\ jar'[b].host \in {NewValue(a.sid, jar[b].host), jar[b].host}
      /\ \A x \in Browser \ {b} : jar'[x] = jar[x]
  BY <1>1 DEF Deliver
<1>5. ASSUME NEW id \in Sid, Shown(id)'
      PROVE  Shown(id) \/ Sets(r, id)
  <2>1. \A x \in Req \ {r} : Carries(x)' = Carries(x)
    BY <1>2 DEF Others, Carries
  <2>2. NotFound \notin Sid
    BY NotFoundAssumption
  <2>3. ASSUME NEW x \in Browser, id \in {jar'[x].plain, jar'[x].host}
        PROVE  Shown(id) \/ Sets(r, id)
    <3>1. \/ id \in {jar[x].plain, jar[x].host}
          \/ id = a.sid /\ id \notin {"keep", "clear"}
      BY <1>1, <1>4, <2>2, <2>3 DEF NewValue
    <3>2. QED
      BY <3>1 DEF Shown, Sets
  <2>4. QED
    BY <1>2, <1>3, <1>5, <2>1, <2>3 DEF Shown
<1>6. \A id \in loggedOut' : id \in loggedOut
  BY <1>3
<1>7. QED
  BY <1>2, <1>3, <1>5, <1>6, Lasts

LEMMA LoseFinal ==
    ASSUME LInv, NEW r \in Req, Lose(r)
    PROVE  Final'
<1>1. /\ Others(r) /\ Carries(r)' = {} /\ ~Holds(r)'
      /\ Due(r)' /\ Steady(pc[r], rq[r])' /\ resp'[r].sid = "keep"
  BY Freed DEF Lose, LInv, IInv, RequestsOK, NoResponse
<1>2. NoneBack /\ UNCHANGED <<jar, holder, loggedOut>>
  BY NothingHappens DEF Lose
<1>3. QED
  BY <1>1, <1>2, Works

LEMMA RestartFinal ==
    ASSUME LInv, Restart
    PROVE  Final'
<1>1. /\ \A r \in Req : pc'[r] = "idle" /\ rq'[r] = Blank /\ resp'[r] = NoResponse
      /\ UNCHANGED <<jar, holder, loggedOut, sess>>
  BY DEF Restart, keys, browsers, history
<1>2. Blank.ids = <<>> /\ Blank.out = {} /\ Blank.h = "signout"
      /\ NoResponse.sid = "keep"
  BY DEF Blank, NoResponse
<1>3. \A r \in Req : /\ Carries(r)' = {} /\ ~Holds(r)' /\ \A id : ~Sets(r, id)'
                     /\ Due(r)' /\ Steady(pc[r], rq[r])'
  BY <1>1, <1>2, NoMembers DEF Carries, Holds, Sets, Due, Steady, FormHandlers
<1>4. \A id \in Sid : Shown(id)' => Shown(id)
  BY <1>1, <1>3 DEF Shown
<1>5. OnlyUsed' /\ Private' /\ Gone'
  BY <1>1, <1>3, <1>4 DEF LInv, Final, OnlyUsed, Private, Gone
<1>6. QED
  BY <1>3, <1>5 DEF Final

\* Nobody moves, and no cookie or session appears.
LEMMA WorldFinal ==
    ASSUME LInv, UNCHANGED <<pc, rq, resp, holder, loggedOut>>, NoneBack,
           \A id \in Sid, b \in Browser :
              id \in {jar'[b].plain, jar'[b].host} =>
                 id \in {jar[b].plain, jar[b].host}
    PROVE  Final'
<1>1. \A r \in Req : rq[r].out \subseteq Sid /\ loggedOut \subseteq Sid
  BY DEF LInv, IInv, SharedOK, HistoryOK, RequestsOK, Request
<1>2. \A r \in Req : Carries(r)' = Carries(r) /\ (Holds(r)' <=> Holds(r))
  BY DEF Carries, Holds
<1>3. \A id \in Sid : Shown(id)' => Shown(id)
  BY <1>2 DEF Shown
<1>4. \A r \in Req : \A id : Sets(r, id)' <=> Sets(r, id)
  BY DEF Sets
<1>5. OnlyUsed'
  BY <1>3, <1>4 DEF LInv, Final, OnlyUsed
<1>6. Private'
  <2>1. ASSUME NEW x \in Req, Holds(x)'
        PROVE  /\ ~Shown(rq[x].id)'
               /\ \A y \in Req \ {x} :
                    ~Sets(y, rq[x].id)' /\ ~(Holds(y) /\ rq[y].id = rq[x].id)'
    <3>1. PICK i \in Sid : i = rq[x].id /\ i = rq'[x].id
      BY <1>2, <2>1 DEF LInv, IInv, RequestsOK, Ready, Faithful, Holds,
                        HasSession
    <3>2. /\ ~Shown(i)
          /\ \A y \in Req \ {x} : ~Sets(y, i) /\ ~(Holds(y) /\ rq[y].id = i)
      BY <1>2, <2>1, <3>1 DEF LInv, Final, Private
    <3>3. /\ ~Shown(i)'
          /\ \A y \in Req \ {x} : ~Sets(y, i)' /\ ~(Holds(y)' /\ rq'[y].id = i)
      BY <1>2, <1>3, <1>4, <3>2
    <3>4. QED
      BY <3>1, <3>3 DEF Shown, Sets
  <2>2. QED
    BY <2>1 DEF Private
<1>7. Gone'
  BY <1>1 DEF LInv, Final, Gone, NoneBack, Shown, IInv, SharedOK, HistoryOK
<1>8. \A r \in Req : Due(r)' /\ Steady(pc[r], rq[r])'
  BY <1>1 DEF LInv, Final, Due, Steady, NoneBack, Shown, Carries
<1>9. QED
  BY <1>5, <1>6, <1>7, <1>8 DEF Final

LEMMA EnvironmentFinal ==
    ASSUME LInv, Environment
    PROVE  Final'
<1>1. CASE Tick
  <2>1. NoneBack
    BY <1>1 DEF Tick, ClockTick, Swept, NoneBack
  <2>2. QED
    BY <1>1, <2>1, WorldFinal DEF Tick, browsers, history
<1>2. CASE \/ \E s \in State, u \in User : IdPLogin(s, u)
           \/ \E c \in Cred : PasswordChange(c)
  <2>1. NoneBack /\ UNCHANGED <<jar, pc, rq, resp, holder, loggedOut>>
    BY <1>2, StoreKept DEF IdPLogin, PasswordChange, keys, browsers, history
  <2>2. QED
    BY <2>1, WorldFinal
<1>3. ASSUME NEW b \in Browser, DropCookie(b)
      PROVE  Final'
  <2>1. NoneBack /\ UNCHANGED <<pc, rq, resp, holder, loggedOut>>
    BY <1>3, StoreKept DEF DropCookie, keys, history
  <2>2. jar \in [Browser -> Jar] /\ NotFound \notin Sid
    BY NotFoundAssumption DEF LInv, IInv, SharedOK, WorldOK
  <2>3. \A x \in Browser \ {b} : jar'[x] = jar[x]
    BY <1>3, <2>2 DEF DropCookie
  <2>4. /\ jar'[b].plain \in {NotFound, jar[b].plain}
        /\ jar'[b].host \in {NotFound, jar[b].host}
    BY <1>3, <2>2 DEF DropCookie, Jar
  <2>5. QED
    BY <2>1, <2>2, <2>3, <2>4, WorldFinal
<1>4. QED
  BY <1>1, <1>2, <1>3, RestartFinal DEF Environment

-----------------------------------------------------------------------------
(* The theorems. *)

THEOREM InitFinal == Init => LInv
<1> SUFFICES ASSUME Init PROVE LInv
  OBVIOUS
<1>1. IInv
  BY InitIInv
<1>2. Blank.ids = <<>> /\ Blank.out = {} /\ Blank.h = "signout"
      /\ NoResponse.sid = "keep"
  BY DEF Blank, NoResponse
<1>3. \A r \in Req : pc[r] = "idle" /\ rq[r] = Blank /\ resp[r] = NoResponse
  BY DEF Init
<1>4. \A r \in Req : /\ Carries(r) = {} /\ ~Holds(r) /\ \A id : ~Sets(r, id)
                     /\ Due(r) /\ Steady(pc[r], rq[r])
  BY <1>2, <1>3, NoMembers DEF Carries, Holds, Sets, Due, Steady, FormHandlers
<1>5. \A id \in Sid : ~Shown(id)
  BY <1>4, NotFoundAssumption DEF Init, EmptyJar, Shown
<1>6. QED
  BY <1>1, <1>4, <1>5 DEF LInv, Final, OnlyUsed, Private, Gone, Init

THEOREM NextFinal ==
    ASSUME NoForms
    PROVE  LInv /\ [Next]_vars => LInv'
<1> SUFFICES ASSUME LInv, [Next]_vars PROVE LInv'
  OBVIOUS
<1>1. IInv'
  BY NextIInv DEF LInv
<1>2. CASE Next
  BY <1>1, <1>2, ArriveFinal, ServeFinal, DeliverFinal, LoseFinal,
     EnvironmentFinal DEF Next, LInv
<1>3. CASE UNCHANGED vars
  <2>1. NoneBack /\ UNCHANGED <<jar, pc, rq, resp, holder, loggedOut>>
    BY <1>3, StoreKept DEF vars, keys, browsers, history
  <2>2. QED
    BY <1>1, <2>1, WorldFinal DEF LInv
<1>4. QED
  BY <1>2, <1>3

\* Once a logout deleted the sessions its cookies named, none of them opens
\* anything again, whatever callbacks are under way, if nobody sends link
\* forms (server.go:291-300; docs/requirements.md:79).
THEOREM LogoutIsFinal ==
    ASSUME NoForms
    PROVE  Spec => []LoggedOutStaysOut
<1>1. LInv => LoggedOutStaysOut
  BY DEF LInv, Final, Gone, LoggedOutStaysOut, LiveSession, StoredSession,
         ValueOf
<1>2. LInv /\ [Next]_vars => LInv'
  BY NextFinal
<1>3. QED
  BY <1>1, <1>2, InitFinal, PTL DEF Spec
=============================================================================
