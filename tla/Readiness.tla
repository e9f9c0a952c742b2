------------------------------- MODULE Readiness -------------------------------
(***************************************************************************)
(* GET /readyz (server.go, handleReady) and the Ping methods it calls.     *)
(* Redis, Vault, n8n and the OIDC client are asked one after the other     *)
(* under one deadline.  When its token is refused Vault's ping logs in and *)
(* asks again, if the process was given an AppRole and not a token; n8n's  *)
(* tries /healthz and then /, and the OIDC ping asks nobody: the provider  *)
(* was discovered when the process started.                                *)
(*                                                                         *)
(* A probe is one request; two probes share nothing but Vault's token, so  *)
(* one at a time is modelled.  Definitions named Wrong... are buggy forms  *)
(* of the one after them that no behaviour uses.                           *)
(***************************************************************************)
EXTENDS Integers

CONSTANTS
    Budget,     \* the five seconds
    RedisTime   \* bound: Redis's client gives up within this time; it has
                \* time-outs of its own and need not watch the deadline

ASSUME ReadinessAssumption == {Budget, RedisTime} \subseteq Nat \ {0}

Dep == {"redis", "vault", "n8n"}

VARIABLES
    health,     \* "up", "half" (n8n fails /healthz only), "slow", "silent", "down"
    approle,    \* the client holds a role and a secret id, no VAULT_TOKEN
    token,      \* Vault accepts the client's token
    at,         \* the exchange the probe waits for
    clock,      \* time since the probe began
    checks,     \* what it found so far
    spent,      \* history: the time each dependency took
    troubled,   \* history: dependencies that were not up at some moment
    reply       \* the status of the last probe

readyVars == <<health, approle, token, at, clock, checks, spent, troubled,
               reply>>

NoChecks == [d \in Dep |-> "none"]
Fine == {"up", "half"}

ReadyInit ==
    /\ health = [d \in Dep |-> "up"]
    /\ approle \in BOOLEAN
    /\ token = TRUE
    /\ at = "idle" /\ clock = 0
    /\ checks = NoChecks
    /\ spent = [d \in Dep |-> 0]
    /\ troubled = {}
    /\ reply = "none"

Target == CASE at = "redis" -> "redis"
            [] at \in {"vault", "login", "again"} -> "vault"
            [] at \in {"healthz", "root"} -> "n8n"
            [] OTHER -> "none"

Asking == at \in {"redis", "vault", "login", "again", "healthz", "root"}

Begin ==
    /\ at = "idle" /\ at' = "redis"
    /\ clock' = 0
    /\ checks' = NoChecks
    /\ spent' = [d \in Dep |-> 0]
    /\ troubled' = {d \in Dep : health[d] \notin Fine}
    /\ UNCHANGED <<health, approle, token, reply>>

-----------------------------------------------------------------------------
(* The exchange ends. *)

Check(d, result) == checks' = [checks EXCEPT ![d] = result]

\* Wrong variant: a Redis error ends the probe.
WrongAfter(d) == CASE d = "redis" -> IF health[d] = "down" THEN "reply" ELSE "vault"
                   [] d = "vault" -> "healthz" [] OTHER -> "reply"

After(d) == CASE d = "redis" -> "vault" [] d = "vault" -> "healthz"
              [] OTHER -> "reply"

Succeed ==
    /\ CASE at = "login" -> at' = "again" /\ token' = TRUE /\ UNCHANGED checks
         [] OTHER -> at' = After(Target) /\ Check(Target, "ok") /\ UNCHANGED token

\* Wrong variants: n8n's ping is over after /healthz; Vault's does not log in.
WrongSecondTry == "none"
WrongLogIn == FALSE

SecondTry == "root"

\* reauthenticateAfterAuthError: NewStore keeps the two ids only when it logged
\* in with them.
LogIn == approle

Fail ==
    /\ IF at = "healthz" /\ SecondTry # "none"
       THEN at' = SecondTry /\ UNCHANGED checks
       ELSE at' = After(Target) /\ Check(Target, "error")
    /\ UNCHANGED token

Refused == at \in {"vault", "again"} /\ ~token

Refuse ==
    IF at = "vault" /\ LogIn
    THEN at' = "login" /\ UNCHANGED <<checks, token>>
    ELSE Fail

InTime == clock < Budget \/ at = "redis"

Answer ==
    /\ Asking /\ InTime
    /\ health[Target] \in {"up", "half", "slow"}
    /\ IF Refused THEN Refuse
       ELSE IF at = "healthz" /\ health["n8n"] = "half" THEN Fail
       ELSE Succeed
    /\ UNCHANGED <<health, approle, clock, spent, troubled, reply>>

\* Vault's library and n8n's client end with the deadline, Redis's when its
\* own time-out does.
Error ==
    /\ Asking
    /\ \/ ~InTime
       \/ health[Target] = "down"
       \/ at = "redis" /\ health[Target] = "silent" /\ clock > 0
    /\ Fail
    /\ UNCHANGED <<health, approle, clock, spent, troubled, reply>>

Reply ==
    /\ at = "reply" /\ at' = "idle"
    /\ reply' = IF \A d \in Dep : checks[d] = "ok" THEN "200" ELSE "503"
    /\ UNCHANGED <<health, approle, token, clock, checks, spent, troubled>>

-----------------------------------------------------------------------------
(* Time and the dependencies. *)

Elapse ==
    /\ Asking /\ health[Target] \in {"slow", "silent"}
    /\ clock < (IF at = "redis" THEN RedisTime ELSE Budget)
    /\ clock' = clock + 1
    /\ spent' = [spent EXCEPT ![Target] = @ + 1]
    /\ UNCHANGED <<health, approle, token, at, checks, troubled, reply>>

Turn(d, h) ==
    /\ h # health[d] /\ (h = "half" => d = "n8n")
    /\ health' = [health EXCEPT ![d] = h]
    /\ troubled' = IF h \in Fine THEN troubled ELSE troubled \cup {d}
    /\ UNCHANGED <<approle, token, at, clock, checks, spent, reply>>

\* A token runs out or is revoked; after the login that counts as trouble at
\* Vault.
Revoke ==
    /\ token /\ token' = FALSE
    /\ troubled' = IF at = "again" THEN troubled \cup {"vault"} ELSE troubled
    /\ UNCHANGED <<health, approle, at, clock, checks, spent, reply>>

Probe == Begin \/ Answer \/ Error \/ Reply

ReadyNext ==
    \/ Probe \/ Elapse \/ Revoke
    \/ \E d \in Dep, h \in {"up", "half", "slow", "silent", "down"} : Turn(d, h)

\* The platform asks again and again, time passes, nothing repairs anything.
ReadySpec == ReadyInit /\ [][ReadyNext]_readyVars /\ WF_readyVars(Probe) /\ WF_readyVars(Elapse)

-----------------------------------------------------------------------------
(* Properties. *)

ReadyTypeOK ==
    /\ health \in [Dep -> {"up", "half", "slow", "silent", "down"}]
    /\ {approle, token} \subseteq BOOLEAN
    /\ at \in {"idle", "redis", "vault", "login", "again", "healthz", "root", "reply"}
    /\ clock \in 0..(Budget + RedisTime)
    /\ checks \in [Dep -> {"none", "ok", "error"}]
    /\ spent \in [Dep -> 0..(Budget + RedisTime)]
    /\ troubled \subseteq Dep
    /\ reply \in {"none", "200", "503"}
    /\ at = "reply" => \A d \in Dep : checks[d] # "none"

SpentUpTo(d) == spent["redis"]
    + (IF d = "redis" THEN 0 ELSE spent["vault"])
    + (IF d = "n8n" THEN spent["n8n"] ELSE 0)

\* A VAULT_TOKEN that Vault refuses: only a restart replaces it.
Stranded == ~approle /\ ~token

\* A check says error only if its dependency was in trouble during the probe,
\* or it and the ones asked before used the whole deadline up, or Vault refuses
\* a token the process cannot replace; a refused token of a login and a missing
\* /healthz are no error (server.go:520-554, client.go:170-196,
\* credential_store.go:197-217).
ErrorsHaveCauses ==
    \A d \in Dep : checks[d] = "error" =>
        d \in troubled \/ SpentUpTo(d) >= Budget \/ (d = "vault" /\ Stranded)

\* Once every dependency is well and no token is revoked any more, every probe
\* answers 200, whatever state the outage left Vault's token in, unless it left
\* a VAULT_TOKEN refused (server.go:520-554, credential_store.go:197-217).
ReadyAgain ==
    /\ <>[][health' = health /\ (token => token')]_readyVars
    /\ <>[](\A d \in Dep : health[d] \in Fine)
    /\ <>[]~Stranded
    => <>[](reply = "200")
=============================================================================
