------------------------------ MODULE MemoryStore ------------------------------
(***************************************************************************)
(* The Store interface as MemoryStore implements it (internal/session/     *)
(* memory.go), the store behind the handlers' tests.  Every method but     *)
(* CreateSession is one critical section; CreateSession stamps the         *)
(* deadline before it takes the lock.  Nothing expires by itself: only     *)
(* GetSession looks at the clock, and tokens and states stay until they    *)
(* are deleted or taken.  Definitions named Wrong... are buggy forms of    *)
(* the one after them.                                                     *)
(***************************************************************************)
EXTENDS Integers

CONSTANTS
    Sid, User, Token, State,
    Caller,      \* the goroutines calling the store
    SessionTTL,
    NotFound,    \* session.ErrNotFound; also "no such map entry"
    Failed,      \* an error other than ErrNotFound: no method returns one
    MaxTime      \* bound of the clock

\* session.Session
Session == [user : User, exp : Nat, linked : BOOLEAN]

ASSUME ConstantsAssumption ==
    /\ SessionTTL \in Nat
    /\ NotFound \notin Session /\ NotFound \notin User \cup Token \cup State
    /\ NotFound \notin [id : Sid, sess : Session] /\ NotFound \notin BOOLEAN

VARIABLES
    now,
    sessions,    \* s.sessions
    csrf,        \* s.csrf
    states,      \* the keys of s.states; a value is named like its key
    fresh,       \* the entry a CreateSession is about to write
    known,       \* ids that CreateSession returned to somebody
    holder,      \* history: the identity an id was created for
    deadline,    \* history: its first ExpiresAt
    stored,      \* history: the OIDC states written
    spent,       \* history: the OIDC states taken
    got          \* the answer to each caller's last read

maps == <<sessions, csrf, states>>
history == <<known, holder, deadline, stored, spent>>
vars == <<now, maps, fresh, history, got>>

Answer(op, key, val) == [op |-> op, key |-> key, val |-> val]
Reply(c, op, key, val) == got' = [got EXCEPT ![c] = Answer(op, key, val)]

Init ==
    /\ now = 0
    /\ sessions = [id \in Sid |-> NotFound]
    /\ csrf = [id \in Sid |-> NotFound]
    /\ states = {}
    /\ fresh = [c \in Caller |-> NotFound]
    /\ known = {}
    /\ holder = [id \in Sid |-> NotFound]
    /\ deadline = [id \in Sid |-> 0]
    /\ stored = {}
    /\ spent = {}
    /\ got = [c \in Caller |-> Answer("none", NotFound, NotFound)]

Idle(c) == fresh[c] = NotFound

-----------------------------------------------------------------------------
CreateStamp(c, id, u) ==
    /\ Idle(c) /\ holder[id] = NotFound
    /\ fresh' = [fresh EXCEPT ![c] =
          [id |-> id, sess |-> [user |-> u, exp |-> now + SessionTTL,
                                linked |-> FALSE]]]
    /\ holder' = [holder EXCEPT ![id] = u]
    /\ deadline' = [deadline EXCEPT ![id] = now + SessionTTL]
    /\ UNCHANGED <<now, maps, known, stored, spent, got>>

CreateSave(c) ==
    /\ ~Idle(c)
    /\ sessions' = [sessions EXCEPT ![fresh[c].id] = fresh[c].sess]
    /\ known' = known \cup {fresh[c].id}
    /\ fresh' = [fresh EXCEPT ![c] = NotFound]
    /\ UNCHANGED <<now, csrf, states, holder, deadline, stored, spent, got>>

\* The handlers save, and set a token for, a session they have read.
HasRead(c) == got[c].op = "session" /\ got[c].val # NotFound

\* Wrong variant: the deadline slides with the save.
WrongSaved(c, linked) ==
    [got[c].val EXCEPT !.linked = linked, !.exp = now + SessionTTL]

Saved(c, linked) == [got[c].val EXCEPT !.linked = linked]

SaveSession(c, linked) ==
    /\ Idle(c) /\ HasRead(c)
    /\ sessions' = [sessions EXCEPT ![got[c].key] = Saved(c, linked)]
    /\ UNCHANGED <<now, csrf, states, fresh, history, got>>

Expired(s) == now > s.exp

GetSession(c, id) ==
    /\ Idle(c) /\ id \in known
    /\ IF sessions[id] = NotFound \/ Expired(sessions[id])
       THEN /\ sessions' = [sessions EXCEPT ![id] = NotFound]
            /\ Reply(c, "session", id, NotFound)
       ELSE /\ Reply(c, "session", id, sessions[id])
            /\ UNCHANGED sessions
    /\ UNCHANGED <<now, csrf, states, fresh, history>>

\* Wrong variant: the token outlives its session.
WrongDeleteSession(c, id) ==
    /\ Idle(c) /\ id \in known
    /\ sessions' = [sessions EXCEPT ![id] = NotFound]
    /\ UNCHANGED <<now, csrf, states, fresh, history, got>>

DeleteSession(c, id) ==
    /\ Idle(c) /\ id \in known
    /\ sessions' = [sessions EXCEPT ![id] = NotFound]
    /\ csrf' = [csrf EXCEPT ![id] = NotFound]
    /\ UNCHANGED <<now, states, fresh, history, got>>

-----------------------------------------------------------------------------
SetCSRF(c, t) ==
    /\ Idle(c) /\ HasRead(c)
    /\ csrf' = [csrf EXCEPT ![got[c].key] = t]
    /\ UNCHANGED <<now, sessions, states, fresh, history, got>>

GetCSRF(c, id) ==
    /\ Idle(c) /\ id \in known
    /\ Reply(c, "csrf", id, csrf[id])
    /\ UNCHANGED <<now, maps, fresh, history>>

\* A state is drawn at random: it was never stored before.
StoreOIDCState(c, s) ==
    /\ Idle(c) /\ s \notin stored
    /\ states' = states \cup {s}
    /\ stored' = stored \cup {s}
    /\ UNCHANGED <<now, sessions, csrf, fresh, known, holder, deadline, spent,
                   got>>

\* Also called with a state that was never stored, or already taken.
TakeOIDCState(c, s) ==
    /\ Idle(c)
    /\ \/ s \in states /\ spent' = spent \cup {s} /\ Reply(c, "state", s, s)
       \/ s \notin states /\ UNCHANGED spent /\ Reply(c, "state", s, NotFound)
    /\ states' = states \ {s}
    /\ UNCHANGED <<now, sessions, csrf, fresh, known, holder, deadline, stored>>

Tick ==
    /\ now < MaxTime
    /\ now' = now + 1
    /\ UNCHANGED <<maps, fresh, history, got>>

Step(c) ==
    \/ \E id \in Sid, u \in User : CreateStamp(c, id, u)
    \/ CreateSave(c)
    \/ \E linked \in BOOLEAN : SaveSession(c, linked)
    \/ \E id \in Sid : GetSession(c, id)
    \/ \E id \in Sid : DeleteSession(c, id)
    \/ \E t \in Token : SetCSRF(c, t)
    \/ \E id \in Sid : GetCSRF(c, id)
    \/ \E s \in State : StoreOIDCState(c, s)
    \/ \E s \in State : TakeOIDCState(c, s)

Next == Tick \/ \E c \in Caller : Step(c)

Spec == Init /\ [][Next]_vars

-----------------------------------------------------------------------------
Answers == [op : {"none", "session", "csrf", "state"},
            key : Sid \cup State \cup {NotFound},
            val : Session \cup Token \cup State \cup {NotFound}]

OwnSession(id, s) ==
    /\ s \in Session
    /\ s.user = holder[id] /\ s.exp = deadline[id] /\ holder[id] # NotFound

\* A stored session, and every copy of one a caller holds, belongs to the
\* user, and dies at the instant, it was created for; a state is waiting only
\* between its store and its take (memory.go:30-90).
TypeOK ==
    /\ now \in Nat
    /\ holder \in [Sid -> User \cup {NotFound}] /\ deadline \in [Sid -> Nat]
    /\ sessions \in [Sid -> Session \cup {NotFound}]
    /\ \A id \in Sid : sessions[id] # NotFound => OwnSession(id, sessions[id])
    /\ csrf \in [Sid -> Token \cup {NotFound}]
    /\ \A id \in Sid : csrf[id] # NotFound => holder[id] # NotFound
    /\ known \subseteq Sid
    /\ fresh \in [Caller -> [id : Sid, sess : Session] \cup {NotFound}]
    /\ \A c \in Caller : ~Idle(c) => OwnSession(fresh[c].id, fresh[c].sess)
    /\ got \in [Caller -> Answers]
    /\ \A c \in Caller : HasRead(c) =>
          got[c].key \in Sid /\ OwnSession(got[c].key, got[c].val)
    /\ stored \subseteq State
    /\ states \subseteq stored /\ spent \subseteq stored
    /\ states \cap spent = {}

Opened(id) == holder[id] # NotFound /\ now <= deadline[id]

\* The sessions a caller can read, and the tokens that count.
Live == [id \in Sid |-> IF sessions[id] = NotFound \/ Expired(sessions[id])
                        THEN NotFound ELSE sessions[id].linked]
LiveToken == [id \in Sid |-> IF Opened(id) THEN csrf[id] ELSE NotFound]

Ledger == INSTANCE SessionLedger WITH
    clock <- now, live <- Live, token <- LiveToken, pending <- states

\* The store of the tests keeps the promises the Redis store keeps: what a
\* test of the handlers sees of it, the ledger allows (memory.go:30-109).
ImplementsLedger == Ledger!Spec
=============================================================================
