---------------------------- MODULE CredentialLedger ----------------------------
(***************************************************************************)
(* What the Store interface of internal/vault promises to its callers,     *)
(* without tokens, logins or retries:                                      *)
(*                                                                         *)
(*  - a call that succeeds had its effect, or read what was stored, at its *)
(*    end;                                                                 *)
(*  - a credential changes only to what some call asked for.               *)
(*                                                                         *)
(* It does not promise that a call takes effect once, or before it ends: a *)
(* request whose connection broke may still be under way.                  *)
(***************************************************************************)
CONSTANTS User, Cred, Caller, Op,
          NotFound,   \* vault.ErrNotFound, and no call
          Failed      \* any other error of a call

VARIABLES
    stored,     \* the credential of each user
    call,       \* the operation of each running call
    stray,      \* writes still under way although nobody waits for them
    answer      \* how each caller's last call ended

vars == <<stored, call, stray, answer>>

Init ==
    /\ stored = [u \in User |-> NotFound]
    /\ call = [p \in Caller |-> NotFound]
    /\ stray = {}
    /\ answer = [p \in Caller |-> NotFound]

\* The store after an operation, and the answer to it.
After(o) == CASE o.kind = "write"  -> [stored EXCEPT ![o.user] = o.cred]
              [] o.kind = "delete" -> [stored EXCEPT ![o.user] = NotFound]
              [] OTHER             -> stored
Value(o) == IF o.kind = "read" THEN stored[o.user] ELSE "ok"

Begin(p, o) ==
    /\ call[p] = NotFound
    /\ call' = [call EXCEPT ![p] = o]
    /\ answer' = [answer EXCEPT ![p] = NotFound]
    /\ UNCHANGED <<stored, stray>>

End(p, v) ==
    /\ call[p] # NotFound
    /\ call' = [call EXCEPT ![p] = NotFound]
    /\ answer' = [answer EXCEPT ![p] = v]
    /\ UNCHANGED stray

Succeed(p) == End(p, Value(call[p])) /\ stored' = After(call[p])

Fail(p) == End(p, Failed) /\ UNCHANGED stored

Detach(p) ==
    /\ call[p] # NotFound
    /\ stray' = stray \cup {call[p]}
    /\ UNCHANGED <<stored, call, answer>>

Arrive(o) ==
    /\ stored' \in {stored, After(o)}
    /\ stray' \in {stray, stray \ {o}}
    /\ UNCHANGED <<call, answer>>

Next ==
    \/ \E p \in Caller : \/ \E o \in Op : Begin(p, o)
                         \/ Succeed(p) \/ Fail(p) \/ Detach(p)
    \/ \E o \in stray : Arrive(o)

Spec == Init /\ [][Next]_vars
=============================================================================
