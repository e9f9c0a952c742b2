------------------------------- MODULE VaultStore -------------------------------
(***************************************************************************)
(* vault/credential_store.go: the calls of the handlers and the renewal    *)
(* goroutine share one Vault client and its token.  A call is one exchange *)
(* with Vault; when Vault refuses its token it logs in with the AppRole,   *)
(* installs the new token in the client and sends the request once more.   *)
(* The goroutine renews the client's token at every tick and logs in when  *)
(* that fails.                                                             *)
(*                                                                         *)
(* Time passes in ticks of any length.  Code between two exchanges takes   *)
(* none.  Definitions named Wrong... are buggy forms of the one after      *)
(* them that no behaviour uses.                                            *)
(***************************************************************************)
EXTENDS Integers, FiniteSets

CONSTANTS
    User, Cred, Caller, Renewer,
    Token,       \* Vault tokens; one that nobody holds is issued again
    NotFound, Failed,
    AppRole,     \* FALSE: VAULT_TOKEN is set, there is nothing to log in with
    TTL,         \* lease of a token; 0 when it has none
    DefaultTTL,  \* 3600 seconds
    MinInterval, \* 5 minutes
    CallTime,    \* bound: an exchange ends within this time, by the time-out
                 \* of Vault's client library at the latest
    MaxLate,     \* bound: requests under way that nobody waits for
    Faults       \* "down": Vault fails for a while; "slow": exchanges time
                 \* out; "lost": they break

ASSUME VaultAssumption ==
    /\ Renewer \notin Caller /\ NotFound \notin Token \cup Cred
    /\ AppRole \in BOOLEAN
    /\ {TTL, DefaultTTL, MinInterval, CallTime, MaxLate} \subseteq Nat
    /\ MinInterval > 0 /\ Faults \subseteq {"down", "slow", "lost"}

VARIABLES
    stored,     \* Vault: the credential of each user
    left,       \* Vault: what is left of the lease of each token; 0: refused
    up,         \* Vault answers
    client,     \* the token of the shared client
    due,        \* time until the ticker fires
    ticked,     \* a tick waits for the goroutine
    pc, op, tok, age,   \* of each process: where it is, its operation, the
                        \* token its exchange carries, how long that has run
    late,       \* requests under way that nobody waits for
    answer      \* how each caller's last call ended

ticker == <<due, ticked>>
procs  == <<pc, op, tok, age, answer>>
vars   == <<stored, left, up, client, ticker, procs, late>>

-----------------------------------------------------------------------------
Proc == Caller \cup {Renewer}

Operation(kind, creds) == [kind : {kind}, user : User, cred : creds]
Op == Operation("write", Cred) \cup Operation("delete", {NotFound})
      \cup Operation("read", {NotFound}) \cup Operation("ping", {NotFound})
None  == [kind |-> "none", user |-> NotFound, cred |-> NotFound]
Renew == [None EXCEPT !.kind = "renew"]

ASSUME NotFoundAssumption == NotFound \notin Op

Eternal == TTL = 0 \/ ~AppRole
Lease == IF Eternal THEN 1 ELSE TTL

\* startTokenRenewal
Interval ==
    LET twoThirds == ((IF TTL = 0 THEN DefaultTTL ELSE TTL) * 2) \div 3
    IN  IF twoThirds < MinInterval THEN MinInterval ELSE twoThirds

Held == {client} \cup {tok[p] : p \in Proc} \cup {m.tok : m \in late}

\* NewStore: the static token, or a first login that succeeded.
Init ==
    /\ stored = [u \in User |-> NotFound]
    /\ \E t \in Token :
        /\ client = t
        /\ left = [x \in Token |-> IF x = t THEN Lease ELSE 0]
    /\ up = TRUE
    /\ due = Interval /\ ticked = FALSE
    /\ pc = [p \in Proc |-> "idle"]
    /\ op = [p \in Proc |-> None]
    /\ tok = [p \in Proc |-> NotFound]
    /\ age = [p \in Proc |-> 0]
    /\ late = {}
    /\ answer = [p \in Caller |-> NotFound]

-----------------------------------------------------------------------------
(* How a process moves.  An exchange is at "sent" or "resent" while its     *)
(* request or the answer to it is under way, a login at "login" until Vault *)
(* issued a token and at "issued" until the client has it.                  *)

Waiting == {"sent", "resent", "login", "issued"}

Move(p, stage, t) ==
    pc' = [pc EXCEPT ![p] = stage] /\ tok' = [tok EXCEPT ![p] = t]

Send(p, stage, t) == Move(p, stage, t) /\ age' = [age EXCEPT ![p] = 0]

Finish(p, value) ==
    /\ Send(p, "idle", NotFound)
    /\ op' = [op EXCEPT ![p] = None]
    /\ answer' = IF p \in Caller THEN [answer EXCEPT ![p] = value] ELSE answer

Begin(p, o) ==
    /\ pc[p] = "idle"
    /\ op' = [op EXCEPT ![p] = o]
    /\ Send(p, "sent", client)
    /\ UNCHANGED <<stored, left, up, client, late>>

\* Get, Put, Delete and Ping.
Call(p, o) ==
    /\ Begin(p, o)
    /\ answer' = [answer EXCEPT ![p] = NotFound]
    /\ UNCHANGED ticker

StartRenewal ==
    /\ ticked /\ ticked' = FALSE
    /\ Begin(Renewer, Renew)
    /\ UNCHANGED <<due, answer>>

-----------------------------------------------------------------------------
(* Vault serves a request. *)

Accepts(t) == up /\ left[t] > 0

Apply(o, t) ==
    /\ stored' = CASE o.kind = "write"  -> [stored EXCEPT ![o.user] = o.cred]
                   [] o.kind = "delete" -> [stored EXCEPT ![o.user] = NotFound]
                   [] OTHER             -> stored
    /\ left' = IF o.kind = "renew" THEN [left EXCEPT ![t] = Lease] ELSE left

Answer(p) ==
    /\ pc[p] \in {"sent", "resent"} /\ Accepts(tok[p])
    /\ Apply(op[p], tok[p])
    /\ Finish(p, IF op[p].kind = "read" THEN stored[op[p].user] ELSE "ok")
    /\ UNCHANGED <<up, client, ticker, late>>

\* Wrong variant: a failed retry is forgotten.
WrongFailure(p) == IF pc[p] = "resent" THEN "ok" ELSE Failed

\* reauthenticateAfterAuthError, and only before the retry.
MayLogIn(p) == AppRole /\ pc[p] = "sent"
Failure(p) == Failed

Deny(p) ==
    /\ pc[p] \in {"sent", "resent"} /\ up /\ left[tok[p]] = 0
    /\ \/ MayLogIn(p) /\ Send(p, "login", NotFound) /\ UNCHANGED <<op, answer>>
       \/ ~MayLogIn(p) /\ Finish(p, Failure(p))
    /\ UNCHANGED <<stored, left, up, client, ticker, late>>

Issue(p, t) ==
    /\ pc[p] = "login" /\ up /\ t \notin Held
    /\ left' = [left EXCEPT ![t] = Lease]
    /\ Move(p, "issued", t)
    /\ UNCHANGED <<stored, up, client, ticker, op, age, answer, late>>

\* Wrong variants: the new token is not installed in the client; a login that
\* returned no token counts as one.
WrongInstalled(p) == client
WrongEmptyToken(p) == NotFound

Installed(p) == tok[p]

\* loginAppRole sets the token, whatever another process set meanwhile.
SetToken(p) ==
    /\ pc[p] = "issued"
    /\ client' = Installed(p)
    /\ \/ p = Renewer /\ Finish(p, "ok")
       \/ p \in Caller /\ Send(p, "retry", NotFound) /\ UNCHANGED <<op, answer>>
    /\ UNCHANGED <<stored, left, up, ticker, late>>

\* The retry carries the token the client has by then.
Retry(p) ==
    /\ pc[p] = "retry"
    /\ Send(p, "resent", client)
    /\ UNCHANGED <<stored, left, up, client, ticker, op, answer, late>>

-----------------------------------------------------------------------------
(* What goes wrong on the way. *)

\* A connection breaks and the library sends the request again, while the
\* first one may still reach Vault.
Detach(p) ==
    /\ pc[p] \in {"sent", "resent"} /\ "lost" \in Faults
    /\ Cardinality(late) < MaxLate
    /\ late' = late \cup {[op |-> op[p], tok |-> tok[p]]}
    /\ UNCHANGED <<stored, left, up, client, ticker, procs>>

Arrive(m) ==
    /\ late' = late \ {m}
    /\ \/ Accepts(m.tok) /\ Apply(m.op, m.tok)
       \/ UNCHANGED <<stored, left>>
    /\ UNCHANGED <<up, client, ticker, procs>>

\* Wrong variant: a login waits for Vault for as long as it takes.
WrongNoAnswer(p) ==
    pc[p] \in {"sent", "resent"} /\ (~up \/ "lost" \in Faults)

\* The library gave up, or the browser left and its context was cancelled.
NoAnswer(p) ==
    (age[p] = CallTime /\ "slow" \in Faults) \/ ~up \/ "lost" \in Faults

\* The exchange ends with an error that is no refusal.  Only the goroutine
\* logs in after any error of its renewal.
GiveUp(p) ==
    /\ pc[p] \in Waiting /\ NoAnswer(p)
    /\ \/ /\ p = Renewer /\ pc[p] = "sent"
          /\ Send(p, "login", NotFound)
          /\ UNCHANGED <<op, answer>>
       \/ ~(p = Renewer /\ pc[p] = "sent") /\ Finish(p, Failure(p))
    /\ UNCHANGED <<stored, left, up, client, ticker, late>>

\* An outage may last longer than the leases do.
GoDown ==
    /\ up /\ "down" \in Faults
    /\ up' = FALSE
    /\ UNCHANGED <<stored, left, client, ticker, procs, late>>

ComeUp ==
    /\ ~up /\ up' = TRUE
    /\ UNCHANGED <<stored, left, client, ticker, procs, late>>

Elapse ==
    /\ \A p \in Proc : /\ pc[p] # "retry"
                       /\ pc[p] \in Waiting => age[p] < CallTime
    /\ ticked => pc[Renewer] # "idle"
    /\ left' = [t \in Token |-> CASE t \notin Held -> 0
                                  [] Eternal -> left[t]
                                  [] OTHER -> IF left[t] = 0 THEN 0
                                              ELSE left[t] - 1]
    /\ age' = [p \in Proc |-> IF pc[p] \in Waiting THEN age[p] + 1 ELSE 0]
    /\ IF AppRole THEN /\ due' = IF due = 1 THEN Interval ELSE due - 1
                       /\ ticked' = (ticked \/ due = 1)
                  ELSE UNCHANGED ticker
    /\ UNCHANGED <<stored, up, client, pc, op, tok, answer, late>>

-----------------------------------------------------------------------------
Exchange(p) ==
    \/ Answer(p) \/ Deny(p) \/ SetToken(p) \/ Retry(p) \/ GiveUp(p)
    \/ \E t \in Token : Issue(p, t)

Next ==
    \/ \E p \in Caller, o \in Op : Call(p, o)
    \/ StartRenewal
    \/ \E p \in Proc : Exchange(p) \/ Detach(p)
    \/ \E m \in late : Arrive(m)
    \/ GoDown \/ ComeUp \/ Elapse

Spec == Init /\ [][Next]_vars

\* Processes run and time passes; a request sent again and again is answered
\* some time.  Nothing makes Vault come back.
FairSpec ==
    /\ Spec
    /\ WF_vars(Elapse) /\ WF_vars(StartRenewal)
    /\ \A p \in Proc : /\ WF_vars(Exchange(p))
                       /\ SF_vars(Answer(p))
                       /\ SF_vars(\E t \in Token : Issue(p, t))
                       /\ SF_vars(SetToken(p))

-----------------------------------------------------------------------------
(* Properties. *)

TypeOK ==
    /\ stored \in [User -> Cred \cup {NotFound}]
    /\ left \in [Token -> 0..Lease]
    /\ up \in BOOLEAN /\ client \in Token
    /\ due \in 1..Interval /\ ticked \in BOOLEAN
    /\ pc \in [Proc -> Waiting \cup {"idle", "retry"}]
    /\ op \in [Proc -> Op \cup {None, Renew}]
    /\ tok \in [Proc -> Token \cup {NotFound}]
    /\ age \in [Proc -> 0..CallTime]
    /\ late \subseteq [op : Op \cup {Renew}, tok : Token]
    /\ answer \in [Caller -> Cred \cup {NotFound, Failed, "ok"}]

Running == [p \in Caller |-> IF pc[p] = "idle" THEN NotFound ELSE op[p]]
Strays  == {m.op : m \in {x \in late : x.op # Renew}}

Ledger == INSTANCE CredentialLedger WITH call <- Running, stray <- Strays

\* Whatever refusals, logins, lost answers and second attempts a call goes
\* through, its caller hears of success only when its own request took effect
\* at the end of the call, and Vault never holds what nobody asked for
\* (credential_store.go:126-217).
ImplementsLedger == Ledger!Spec

\* A retry is never refused: the token it carries lives, even when another
\* process installed one that was issued earlier (credential_store.go:84-98,
\* 131-133, 208-217).  Given that a lease lasts longer than two exchanges.
RetryIsAccepted == \A p \in Proc : pc[p] = "resent" => left[tok[p]] > 0

\* Once Vault stays up the client has a living token again and again, even if
\* no call is made, the ticker is slower than the lease, and every lease ran
\* out (credential_store.go:100-124).
Revives == <>[]up => []<>(left[client] > 0)

\* Every call ends, also when Vault is down (credential_store.go:126-217).
CallsEnd == \A p \in Caller : pc[p] # "idle" ~> pc[p] = "idle"
=============================================================================
