------------------------------ MODULE RedisKeys ------------------------------
(***************************************************************************)
(* The Redis keys that internal/session/store.go keeps, and the commands   *)
(* it sends to them.  Each command is atomic at the server.  A key carries *)
(* the last instant at which Redis still returns it; the clock's step past *)
(* that instant removes it.  Time is a logical clock.                      *)
(*                                                                         *)
(* A definition named Wrong... is the definition after it with a bug; no   *)
(* specification uses it, and the runs are shown to notice it.             *)
(*                                                                         *)
(* The module holds no behaviour of its own: RedisStore drives the keys    *)
(* through the methods of the Store interface, Gateway through the HTTP    *)
(* handlers.                                                               *)
(***************************************************************************)
EXTENDS Integers

CONSTANTS
    Sid,          \* session ids (RandomBase64URL(32))
    User,         \* OIDC identities: an (issuer, subject) pair
    Token,        \* CSRF tokens
    State,        \* OIDC states; the nonce and the verifier drawn with a
                  \* state are identified with it
    SessionTTL,   \* cfg.SessionTTL
    OidcTTL,      \* cfg.OIDCStateTTL
    NotFound      \* session.ErrNotFound; also "no such key"

ASSUME TTLAssumption == SessionTTL \in Nat /\ OidcTTL \in Nat

VARIABLES
    now,          \* the wall clock of the gateway and of Redis
    sess,         \* n8n_gw:session:<id>
    csrf,         \* n8n_gw:csrf:<id>
    oidc          \* n8n_gw:oidc_state:<state>

keys == <<sess, csrf, oidc>>

\* session.Session: what a request copies and writes back.
Session == [user : User, exp : Nat, linked : BOOLEAN]

SessionKey == [val : Session, ttl : Nat]
TokenKey   == [val : Token, ttl : Nat]
StateKey   == [val : State, ttl : Nat]     \* val is the stored nonce

ASSUME NotFoundAssumption ==
    /\ NotFound \notin Session /\ NotFound \notin SessionKey
    /\ NotFound \notin TokenKey /\ NotFound \notin StateKey
    /\ NotFound \notin Sid \cup User \cup Token \cup State

KeysTypeOK ==
    /\ now \in Nat
    /\ sess \in [Sid -> SessionKey \cup {NotFound}]
    /\ csrf \in [Sid -> TokenKey \cup {NotFound}]
    /\ oidc \in [State -> StateKey \cup {NotFound}]

KeysInit ==
    /\ now = 0
    /\ sess = [id \in Sid |-> NotFound]
    /\ csrf = [id \in Sid |-> NotFound]
    /\ oidc = [s \in State |-> NotFound]

-----------------------------------------------------------------------------
(* Reading a key. *)

ValueOf(key) == IF key = NotFound THEN NotFound ELSE key.val

StoredSession(id) == ValueOf(sess[id])
StoredToken(id)   == ValueOf(csrf[id])
StoredState(s)    == ValueOf(oidc[s])

Expired(v) == now > v.exp

\* Wrong variant: trusts Redis to drop the session in time.
WrongLiveSession(id) == StoredSession(id)

\* GetSession refuses a record whose own deadline has passed, however long
\* Redis would still keep the key.
LiveSession(id) ==
    LET v == StoredSession(id)
    IN  IF v # NotFound /\ ~Expired(v) THEN v ELSE NotFound

-----------------------------------------------------------------------------
(* Time passes, and Redis drops the keys whose TTL is over. *)

Swept(key) == IF key # NotFound /\ now' > key.ttl THEN NotFound ELSE key

ClockTick ==
    /\ now' = now + 1
    /\ sess' = [id \in Sid |-> Swept(sess[id])]
    /\ csrf' = [id \in Sid |-> Swept(csrf[id])]
    /\ oidc' = [s \in State |-> Swept(oidc[s])]

-----------------------------------------------------------------------------
(* Writing a key. *)

\* Wrong variant: a save prolongs the session itself.
WrongSetSession(id, v) ==
    sess' = [sess EXCEPT ![id] = [val |-> [v EXCEPT !.exp = now + SessionTTL],
                                  ttl |-> now + SessionTTL]]

\* SET session EX sessionTTL: every save starts the key's TTL again, and
\* leaves the deadline inside the record alone.
SetSession(id, v) ==
    sess' = [sess EXCEPT ![id] = [val |-> v, ttl |-> now + SessionTTL]]

\* Wrong variant: the session key is forgotten.
WrongDelSession(id) ==
    /\ csrf' = [csrf EXCEPT ![id] = NotFound]
    /\ UNCHANGED sess

\* DEL session csrf: one command for both keys.
DelSession(id) ==
    /\ sess' = [sess EXCEPT ![id] = NotFound]
    /\ csrf' = [csrf EXCEPT ![id] = NotFound]

\* Wrong variant: the token gets the TTL of an OIDC state.
WrongSetToken(id, t) ==
    csrf' = [csrf EXCEPT ![id] = [val |-> t, ttl |-> now]]

\* The CSRF key has its own TTL, counted from the moment the token is set.
SetToken(id, t) ==
    csrf' = [csrf EXCEPT ![id] = [val |-> t, ttl |-> now + SessionTTL]]

SetState(s) ==
    oidc' = [oidc EXCEPT ![s] = [val |-> s, ttl |-> now + OidcTTL]]

\* Wrong variant: GET instead of GETDEL.
WrongGetDelState(s) == UNCHANGED oidc

\* GETDEL: the read and the deletion are one command.
GetDelState(s) == oidc' = [oidc EXCEPT ![s] = NotFound]

\* Wrong variant: the deadline on the wrong side of the clock.
WrongNewSession(u) == [user |-> u, exp |-> now - SessionTTL, linked |-> FALSE]

\* The record CreateSession writes first.
NewSession(u) == [user |-> u, exp |-> now + SessionTTL, linked |-> FALSE]
=============================================================================
