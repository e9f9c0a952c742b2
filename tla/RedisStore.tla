------------------------------ MODULE RedisStore ------------------------------
(***************************************************************************)
(* The Store interface as RedisStore implements it (internal/session/      *)
(* store.go), called concurrently.  A method is one action per command it  *)
(* sends; CreateSession stamps the deadline before its SET, and GetSession *)
(* deletes an expired session in a second command.  A command may fail     *)
(* without effect, or take effect and lose its answer.                     *)
(***************************************************************************)
EXTENDS RedisKeys

CONSTANTS
    Caller,      \* the goroutines calling the store
    Failed,      \* an error other than ErrNotFound
    MaxTime      \* bound of the clock

ASSUME FailedAssumption ==
    /\ Failed # NotFound
    /\ Failed \notin Session /\ Failed \notin Token \cup State
    /\ NotFound \notin BOOLEAN

VARIABLES
    at,          \* where a caller is inside a method
    arg,         \* the session id the method in progress works on
    fresh,       \* the record CreateSession is about to write
    known,       \* ids that CreateSession returned to somebody
    holder,      \* history: the identity an id was created for
    deadline,    \* history: its first ExpiresAt
    stored,      \* history: the OIDC states written
    spent,       \* history: the OIDC states that GETDEL removed
    got          \* the answer to each caller's last read

callVars == <<at, arg, fresh>>
history  == <<known, holder, deadline, stored, spent>>
vars == <<now, keys, callVars, history, got>>

Answer(op, key, val) == [op |-> op, key |-> key, val |-> val]

Init ==
    /\ KeysInit
    /\ at = [c \in Caller |-> "idle"]
    /\ arg = [c \in Caller |-> NotFound]
    /\ fresh = [c \in Caller |-> NotFound]
    /\ known = {}
    /\ holder = [id \in Sid |-> NotFound]
    /\ deadline = [id \in Sid |-> 0]
    /\ stored = {}
    /\ spent = {}
    /\ got = [c \in Caller |-> Answer("none", NotFound, NotFound)]

Return(c) ==
    /\ at' = [at EXCEPT ![c] = "idle"]
    /\ arg' = [arg EXCEPT ![c] = NotFound]
    /\ fresh' = [fresh EXCEPT ![c] = NotFound]

Reply(c, op, key, val) == got' = [got EXCEPT ![c] = Answer(op, key, val)]


-----------------------------------------------------------------------------
(* CreateSession: the id and the deadline, then SaveSession. *)

CreateStamp(c, id, u) ==
    /\ at[c] = "idle" /\ holder[id] = NotFound
    /\ fresh' = [fresh EXCEPT ![c] = NewSession(u)]
    /\ at' = [at EXCEPT ![c] = "creating"]
    /\ arg' = [arg EXCEPT ![c] = id]
    /\ holder' = [holder EXCEPT ![id] = u]
    /\ deadline' = [deadline EXCEPT ![id] = NewSession(u).exp]
    /\ UNCHANGED <<now, keys, known, stored, spent, got>>

CreateSave(c) ==
    /\ at[c] = "creating"
    /\ \/ SetSession(arg[c], fresh[c]) /\ known' = known \cup {arg[c]}
       \/ SetSession(arg[c], fresh[c]) /\ UNCHANGED known
       \/ UNCHANGED <<sess, known>>
    /\ Return(c)
    /\ UNCHANGED <<now, csrf, oidc, holder, deadline, stored, spent, got>>

-----------------------------------------------------------------------------
(* SaveSession: a caller writes back the copy it read, linked or unlinked. *)

SaveSession(c, linked) ==
    /\ at[c] = "idle"
    /\ got[c].op = "session" /\ got[c].val \in Session
    /\ \/ SetSession(got[c].key, [got[c].val EXCEPT !.linked = linked])
       \/ UNCHANGED sess
    /\ UNCHANGED <<now, csrf, oidc, callVars, history, got>>

(* GetSession: GET and the deadline check; an expired record is deleted by *)
(* a command of its own whose error is ignored.                            *)

GetSession(c, id) ==
    /\ at[c] = "idle" /\ id \in known
    /\ LET v == StoredSession(id)
       IN  \/ /\ v # NotFound /\ Expired(v)
              /\ at' = [at EXCEPT ![c] = "dropping"]
              /\ arg' = [arg EXCEPT ![c] = id]
              /\ UNCHANGED got
           \/ /\ v # NotFound => ~Expired(v)
              /\ Reply(c, "session", id, v)
              /\ UNCHANGED <<at, arg>>
           \/ /\ Reply(c, "session", id, Failed)
              /\ UNCHANGED <<at, arg>>
    /\ UNCHANGED <<now, keys, fresh, history>>

GetSessionDrop(c) ==
    /\ at[c] = "dropping"
    /\ \/ DelSession(arg[c])
       \/ UNCHANGED <<sess, csrf>>
    /\ Reply(c, "session", arg[c], NotFound)
    /\ Return(c)
    /\ UNCHANGED <<now, oidc, history>>

DeleteSession(c, id) ==
    /\ at[c] = "idle" /\ id \in known
    /\ DelSession(id) \/ UNCHANGED <<sess, csrf>>
    /\ UNCHANGED <<now, oidc, callVars, history, got>>

-----------------------------------------------------------------------------
(* CSRF tokens. *)

\* The handlers set a token only for a session they have read.
SetCSRF(c, t) ==
    /\ at[c] = "idle"
    /\ got[c].op = "session" /\ got[c].val \in Session
    /\ SetToken(got[c].key, t) \/ UNCHANGED csrf
    /\ UNCHANGED <<now, sess, oidc, callVars, history, got>>

GetCSRF(c, id) ==
    /\ at[c] = "idle" /\ id \in known
    /\ \E v \in {StoredToken(id), Failed} : Reply(c, "csrf", id, v)
    /\ UNCHANGED <<now, keys, callVars, history>>

-----------------------------------------------------------------------------
(* OIDC states. *)

\* A state is drawn at random: it was never stored before.
StoreOIDCState(c, s) ==
    /\ at[c] = "idle" /\ s \notin stored
    /\ SetState(s) \/ UNCHANGED oidc
    /\ stored' = stored \cup {s}
    /\ UNCHANGED <<now, sess, csrf, callVars, known, holder, deadline, spent,
                   got>>

\* Also called with a state that was never stored, or already taken.
TakeOIDCState(c, s) ==
    /\ at[c] = "idle"
    /\ LET v == StoredState(s)
       IN  \/ /\ GetDelState(s)
              /\ spent' = IF v = NotFound THEN spent ELSE spent \cup {s}
              /\ Reply(c, "state", s, v) \/ Reply(c, "state", s, Failed)
           \/ /\ UNCHANGED <<oidc, spent>>
              /\ Reply(c, "state", s, Failed)
    /\ UNCHANGED <<now, sess, csrf, callVars, known, holder, deadline, stored>>

-----------------------------------------------------------------------------
Tick ==
    /\ now < MaxTime
    /\ ClockTick
    /\ UNCHANGED <<callVars, history, got>>

Step(c) ==
    \/ \E id \in Sid, u \in User : CreateStamp(c, id, u)
    \/ CreateSave(c)
    \/ \E linked \in BOOLEAN : SaveSession(c, linked)
    \/ \E id \in Sid : GetSession(c, id)
    \/ GetSessionDrop(c)
    \/ \E id \in Sid : DeleteSession(c, id)
    \/ \E t \in Token : SetCSRF(c, t)
    \/ \E id \in Sid : GetCSRF(c, id)
    \/ \E s \in State : StoreOIDCState(c, s)
    \/ \E s \in State : TakeOIDCState(c, s)

Next == Tick \/ \E c \in Caller : Step(c)

Spec == Init /\ [][Next]_vars

-----------------------------------------------------------------------------
TypeOK ==
    /\ KeysTypeOK
    /\ at \in [Caller -> {"idle", "creating", "dropping"}]
    /\ arg \in [Caller -> Sid \cup {NotFound}]
    /\ fresh \in [Caller -> Session \cup {NotFound}]
    /\ known \subseteq Sid
    /\ holder \in [Sid -> User \cup {NotFound}]
    /\ deadline \in [Sid -> Nat]
    /\ stored \subseteq State /\ spent \subseteq stored
    /\ DOMAIN got = Caller

-----------------------------------------------------------------------------
(* The ledger behind the keys. *)

Opened(id) == holder[id] # NotFound /\ now <= deadline[id]

\* The sessions a caller can read, the tokens that count, the states waiting.
Live == [id \in Sid |-> IF LiveSession(id) = NotFound THEN NotFound
                        ELSE LiveSession(id).linked]
LiveToken == [id \in Sid |-> IF Opened(id) THEN StoredToken(id) ELSE NotFound]
Pending == {s \in State : StoredState(s) # NotFound}

Ledger == INSTANCE SessionLedger WITH
    clock <- now, live <- Live, token <- LiveToken, pending <- Pending

\* The Redis store keeps the ledger's promises: the sliding TTL of a key
\* never takes a session or its CSRF token away before the session's
\* deadline, no save prolongs a session or changes its user, the late
\* deletion of an expired session is never seen, and GETDEL hands a state
\* out at most once (store.go:72-166).
ImplementsLedger == Ledger!Spec
=============================================================================
