---------------------------- MODULE SessionLedger ----------------------------
(***************************************************************************)
(* What the Store interface of internal/session promises to the handlers,  *)
(* without keys, TTLs or commands:                                         *)
(*                                                                         *)
(*  - a session belongs to one user and dies at one deadline, both fixed   *)
(*    when it is opened; no save moves either;                             *)
(*  - until that deadline it stays readable unless somebody deletes it,    *)
(*    and its CSRF token stays with it;                                    *)
(*  - a read answers with what the ledger holds at some moment of the      *)
(*    call, or fails;                                                      *)
(*  - an OIDC state is handed out at most once.                            *)
(*                                                                         *)
(* It does not promise that a deleted session stays deleted: a save writes *)
(* the session again.                                                      *)
(***************************************************************************)
EXTENDS Integers

CONSTANTS Sid, User, Token, State, Caller, SessionTTL,
          NotFound,   \* session.ErrNotFound
          Failed      \* any other error of a call

VARIABLES
    clock,
    holder,     \* whose session an id is; NotFound before it is opened
    deadline,   \* the last instant of an opened session
    live,       \* the linked flag of the readable sessions, else NotFound
    token,      \* the CSRF token of the readable sessions, else NotFound
    pending,    \* OIDC states stored and not handed out
    spent,      \* OIDC states taken; none of them comes back
    got         \* the answer to each caller's last read

entries == <<holder, deadline, live, token, pending, spent>>

Answer(op, key, val) == [op |-> op, key |-> key, val |-> val]

Record(id) ==
    IF live[id] = NotFound THEN NotFound
    ELSE [user |-> holder[id], exp |-> deadline[id], linked |-> live[id]]

Past(id) == clock > deadline[id]

Init ==
    /\ clock = 0
    /\ holder = [id \in Sid |-> NotFound]
    /\ deadline = [id \in Sid |-> 0]
    /\ live = [id \in Sid |-> NotFound]
    /\ token = [id \in Sid |-> NotFound]
    /\ pending = {}
    /\ spent = {}
    /\ got = [c \in Caller |-> Answer("none", NotFound, NotFound)]

-----------------------------------------------------------------------------
(* Writes. *)

Open(id, u) ==
    /\ holder[id] = NotFound
    /\ holder' = [holder EXCEPT ![id] = u]
    /\ deadline' = [deadline EXCEPT ![id] = clock + SessionTTL]
    /\ UNCHANGED <<clock, live, token, pending, spent, got>>

Write(id, linked) ==
    /\ holder[id] # NotFound /\ ~Past(id)
    /\ live' = [live EXCEPT ![id] = linked]
    /\ UNCHANGED <<clock, holder, deadline, token, pending, spent, got>>

Delete(id) ==
    /\ live' = [live EXCEPT ![id] = NotFound]
    /\ token' = [token EXCEPT ![id] = NotFound]
    /\ UNCHANGED <<clock, holder, deadline, pending, spent, got>>

WriteToken(id, t) ==
    /\ holder[id] # NotFound /\ ~Past(id)
    /\ token' = [token EXCEPT ![id] = t]
    /\ UNCHANGED <<clock, holder, deadline, live, pending, spent, got>>

Keep(s) ==
    /\ s \notin pending \cup spent
    /\ pending' = pending \cup {s}
    /\ UNCHANGED <<clock, holder, deadline, live, token, spent, got>>

\* A state may be forgotten at any time, never duplicated.
Forget(s) ==
    /\ pending' = pending \ {s}
    /\ UNCHANGED <<clock, holder, deadline, live, token, spent, got>>

\* The state is consumed; the answer may be lost on its way to the caller.
Take(c, s) ==
    /\ s \in pending
    /\ pending' = pending \ {s}
    /\ spent' = spent \cup {s}
    /\ \E v \in {s, Failed} : got' = [got EXCEPT ![c] = Answer("state", s, v)]
    /\ UNCHANGED <<clock, holder, deadline, live, token>>

-----------------------------------------------------------------------------
(* Reads. *)

Reply(c, op, key, val) ==
    /\ got' = [got EXCEPT ![c] = Answer(op, key, val)]
    /\ UNCHANGED <<clock, entries>>

ReadSession(c, id) == \E v \in {Record(id), Failed} : Reply(c, "session", id, v)

\* Past the deadline of its session a token may still be read.
ReadToken(c, id) ==
    \E v \in Token \cup {NotFound, Failed} :
        /\ v \in Token \cup {NotFound} /\ ~Past(id) => v = token[id]
        /\ Reply(c, "csrf", id, v)

\* A state that is not handed out: gone, or the call failed before it took it.
TakeNothing(c, s) ==
    \E v \in {NotFound, Failed} :
        /\ v = NotFound => s \notin pending
        /\ Reply(c, "state", s, v)

\* The clock takes every session past its deadline, and its token, away, and
\* may take OIDC states.
Tick ==
    /\ clock' = clock + 1
    /\ live' = [id \in Sid |-> IF clock' > deadline[id] THEN NotFound
                                                        ELSE live[id]]
    /\ token' = [id \in Sid |-> IF clock' > deadline[id] THEN NotFound
                                                         ELSE token[id]]
    /\ pending' \in SUBSET pending
    /\ UNCHANGED <<holder, deadline, spent, got>>

Next ==
    \/ Tick
    \/ \E id \in Sid :
        \/ \E u \in User : Open(id, u)
        \/ \E linked \in BOOLEAN : Write(id, linked)
        \/ Delete(id)
        \/ \E t \in Token : WriteToken(id, t)
        \/ \E c \in Caller : ReadSession(c, id) \/ ReadToken(c, id)
    \/ \E s \in State :
        \/ Keep(s) \/ Forget(s)
        \/ \E c \in Caller : Take(c, s) \/ TakeNothing(c, s)

Spec == Init /\ [][Next]_<<clock, entries, got>>
=============================================================================
