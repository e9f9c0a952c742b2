------------------------------ MODULE ReverseProxy ------------------------------
(***************************************************************************)
(* A request from its arrival at Server.ServeHTTP to its last byte, for    *)
(* the routes that hold a connection open: the two reverse proxies         *)
(* (proxy/reverse_proxy.go), upgraded connections, and a callback waiting  *)
(* for the identity provider.  n8n or the provider may be slow, refuse,    *)
(* or break off; the client may stop reading or leave.                     *)
(*                                                                         *)
(* Of net/http: ErrorHandler is called for errors before the response      *)
(* headers; an error after them panics with ErrAbortHandler, which the     *)
(* recover in ServeHTTP turns into an error text.  A response of known     *)
(* length that falls short closes its connection, a chunked one ends as    *)
(* if it were whole.  Definitions named Wrong... are buggy forms of the    *)
(* one after them that no behaviour uses.                                  *)
(***************************************************************************)
EXTENDS Integers, FiniteSets

CONSTANTS
    Req,            \* slots for requests
    Kinds,          \* what is requested: a subset of AllKinds
    PublicTimeout,  \* PUBLIC_EXECUTION_TIMEOUT; 0: none
    ConsoleTimeout, \* CONSOLE_PROXY_TIMEOUT; 0: none
    MaxTimer        \* bound: a request's age is counted up to here

AllKinds == {"public", "console", "socket", "publicsocket", "callback"}

ASSUME ProxyAssumption ==
    /\ IsFiniteSet(Req) /\ Kinds \subseteq AllKinds
    /\ {PublicTimeout, ConsoleTimeout, MaxTimer} \subseteq Nat
    /\ PublicTimeout <= MaxTimer /\ ConsoleTimeout <= MaxTimer

VARIABLES
    pc,         \* where each request is
    kind,
    timer,      \* its age
    framing,    \* how its response marks its end: "chunked" or "length"
    peer,       \* the client: "reading", "stalled" or "gone"
    source,     \* n8n or the provider: "silent", "answered", "ended", "broken"
    seen,       \* what the client got: a status code and how the body ended
    status,     \* statusRecorder.status
    inflight,   \* n8n_proxy_public_execution_inflight
    errors      \* requests counted in n8n_proxy_upstream_errors_total

proxyVars == <<pc, kind, timer, framing, peer, source, seen, status, inflight,
               errors>>

-----------------------------------------------------------------------------
Public == {"public", "publicsocket"}
Upgrades == {"socket", "publicsocket"}

\* "sent": nothing came back yet; "copying": headers passed on; "tunnel":
\* hijacked.
Active == {"sent", "copying", "tunnel"}

ProxyInit ==
    /\ pc = [r \in Req |-> "idle"]
    /\ kind = [r \in Req |-> "console"]
    /\ timer = [r \in Req |-> 0]
    /\ framing = [r \in Req |-> "length"]
    /\ peer = [r \in Req |-> "reading"]
    /\ source = [r \in Req |-> "silent"]
    /\ seen = [r \in Req |-> [code |-> "none", body |-> "open"]]
    /\ status = [r \in Req |-> "200"]
    /\ inflight = 0
    /\ errors = {}

\* Wrong variant: the console proxy is built without its time-out.
WrongTimeout(k) == IF k = "public" THEN PublicTimeout ELSE 0

\* ReverseProxy.ServeHTTP: an upgrade and the provider's calls have none.
Timeout(k) == CASE k = "public"  -> PublicTimeout
                [] k = "console" -> ConsoleTimeout
                [] OTHER         -> 0

TimedOut(r) == Timeout(kind[r]) > 0 /\ timer[r] >= Timeout(kind[r])

-----------------------------------------------------------------------------
Receive(r, k) ==
    /\ pc[r] \in {"idle", "over"}
    /\ pc' = [pc EXCEPT ![r] = "sent"]
    /\ kind' = [kind EXCEPT ![r] = k]
    /\ timer' = [timer EXCEPT ![r] = 0]
    /\ peer' = [peer EXCEPT ![r] = "reading"]
    /\ source' = [source EXCEPT ![r] = "silent"]
    /\ seen' = [seen EXCEPT ![r] = [code |-> "none", body |-> "open"]]
    /\ status' = [status EXCEPT ![r] = "200"]
    /\ inflight' = IF k \in Public THEN inflight + 1 ELSE inflight
    /\ errors' = errors \ {r}
    /\ framing' = [framing EXCEPT ![r] = "length"]

\* The handler returns; its deferred calls run.
Over(r) ==
    /\ pc' = [pc EXCEPT ![r] = "over"]
    /\ inflight' = IF kind[r] \in Public THEN inflight - 1 ELSE inflight

\* What a client that is still there gets.
Shows(r, code, body) ==
    seen' = IF peer[r] = "gone" THEN seen
            ELSE [seen EXCEPT ![r] = [code |-> code, body |-> body]]

\* An answer of the gateway's own, before any header of n8n was passed on.
AnswerError(r, code) ==
    /\ pc[r] = "sent"
    /\ Over(r)
    /\ status' = [status EXCEPT ![r] = code]
    /\ Shows(r, code, "whole")
    /\ errors' = IF kind[r] = "callback" THEN errors ELSE errors \cup {r}
    /\ UNCHANGED <<kind, timer, framing>>

Failure(r) == IF kind[r] = "callback" THEN "401" ELSE "502"

-----------------------------------------------------------------------------
(* n8n, or the identity provider. *)

\* The 101 of an upgrade is written on the hijacked connection, past the
\* recorder, whose Hijack sets no status.
PassHeaders(r, f) ==
    /\ pc[r] = "sent" /\ kind[r] # "callback"
    /\ source' = [source EXCEPT ![r] = "answered"]
    /\ \/ /\ pc' = [pc EXCEPT ![r] = "copying"]
          /\ framing' = [framing EXCEPT ![r] = f]
          /\ Shows(r, "200", "open")
       \/ /\ kind[r] \in Upgrades /\ f = "length"
          /\ pc' = [pc EXCEPT ![r] = "tunnel"]
          /\ Shows(r, "101", "open")
          /\ UNCHANGED framing
    /\ UNCHANGED <<kind, timer, peer, status, inflight, errors>>

CallbackAnswered(r) ==
    /\ pc[r] = "sent" /\ kind[r] = "callback"
    /\ source' = [source EXCEPT ![r] = "ended"]
    /\ Over(r)
    /\ status' = [status EXCEPT ![r] = "302"]
    /\ Shows(r, "302", "whole")
    /\ UNCHANGED <<kind, timer, framing, peer, errors>>

\* No connection, a reset, or an upload larger than PublicExecutionBodyLimit.
RefuseRequest(r) ==
    /\ AnswerError(r, Failure(r))
    /\ source' = [source EXCEPT ![r] = "broken"]
    /\ UNCHANGED peer

\* A client that does not read holds the copy up.
EndBody(r) ==
    /\ pc[r] = "copying" /\ peer[r] = "reading"
    /\ source' = [source EXCEPT ![r] = "ended"]
    /\ Over(r)
    /\ Shows(r, "200", "whole")
    /\ UNCHANGED <<kind, timer, framing, peer, status, errors>>

\* Wrong variants: the recover does not pass through the recorder; the gauge
\* is not decremented when the proxy panics.
WrongRecover(r) ==
    /\ Over(r) /\ UNCHANGED status
    /\ Shows(r, "200", IF framing[r] = "chunked" THEN "padded" ELSE "short")
WrongRelease(r) ==
    /\ pc' = [pc EXCEPT ![r] = "over"] /\ UNCHANGED inflight
    /\ status' = [status EXCEPT ![r] = "500"]
    /\ Shows(r, "200", IF framing[r] = "chunked" THEN "padded" ELSE "short")

\* The copy of the body failed: the recover adds the text of an error 500,
\* whose header comes too late, and the handler returns as if all were well.
Recover(r) ==
    /\ Over(r)
    /\ status' = [status EXCEPT ![r] = "500"]
    /\ Shows(r, "200", IF framing[r] = "chunked" THEN "padded" ELSE "short")

BreakBody(r) ==
    /\ pc[r] = "copying" /\ peer[r] = "reading"
    /\ source' = [source EXCEPT ![r] = "broken"]
    /\ Recover(r)
    /\ UNCHANGED <<kind, timer, framing, peer, errors>>

CloseTunnel(r) ==
    /\ pc[r] = "tunnel"
    /\ source' = [source EXCEPT ![r] = "ended"]
    /\ Over(r)
    /\ Shows(r, "101", "whole")
    /\ UNCHANGED <<kind, timer, framing, peer, status, errors>>

-----------------------------------------------------------------------------
(* The time-out and the client. *)

\* A copy that waits for the client to read notices nothing.
Interruptible(r) ==
    pc[r] = "sent" \/ (pc[r] = "copying" /\ peer[r] = "reading")

TimeOut(r) ==
    /\ TimedOut(r) /\ Interruptible(r)
    /\ \/ AnswerError(r, "504")
       \/ /\ pc[r] = "copying"
          /\ Recover(r)
          /\ UNCHANGED <<kind, timer, framing, errors>>
    /\ UNCHANGED <<peer, source>>

\* The request's context is cancelled: nobody hears the answer.
ClientLeaves(r) ==
    /\ pc[r] \in Active /\ peer[r] # "gone"
    /\ peer' = [peer EXCEPT ![r] = "gone"]
    /\ Over(r)
    /\ CASE pc[r] = "sent" ->
              /\ status' = [status EXCEPT ![r] = Failure(r)]
              /\ errors' = IF kind[r] = "callback" THEN errors
                           ELSE errors \cup {r}
         [] pc[r] = "copying" ->
              status' = [status EXCEPT ![r] = "500"] /\ UNCHANGED errors
         [] OTHER -> UNCHANGED <<status, errors>>
    /\ UNCHANGED <<kind, timer, framing, source, seen>>

ClientStalls(r) ==
    /\ pc[r] = "copying" /\ peer[r] # "gone"
    /\ peer' = [peer EXCEPT ![r] = IF @ = "reading" THEN "stalled"
                                                    ELSE "reading"]
    /\ UNCHANGED <<pc, kind, timer, framing, source, seen, status, inflight,
                   errors>>

\* Timers fire on time.
Elapses ==
    /\ \A r \in Req : ~(TimedOut(r) /\ Interruptible(r))
    /\ timer' = [r \in Req |-> IF pc[r] \in Active /\ timer[r] < MaxTimer
                               THEN timer[r] + 1 ELSE timer[r]]
    /\ UNCHANGED <<pc, kind, framing, peer, source, seen, status, inflight,
                   errors>>

Serve(r) ==
    \/ \E f \in {"chunked", "length"} : PassHeaders(r, f)
    \/ CallbackAnswered(r) \/ RefuseRequest(r) \/ EndBody(r) \/ BreakBody(r)
    \/ CloseTunnel(r) \/ TimeOut(r) \/ ClientLeaves(r) \/ ClientStalls(r)

ProxyNext ==
    \/ \E r \in Req, k \in Kinds : Receive(r, k)
    \/ \E r \in Req : Serve(r)
    \/ Elapses

ProxySpec == ProxyInit /\ [][ProxyNext]_proxyVars

-----------------------------------------------------------------------------
(* Properties. *)

ProxyTypeOK ==
    /\ pc \in [Req -> Active \cup {"idle", "over"}]
    /\ kind \in [Req -> AllKinds]
    /\ timer \in [Req -> 0..MaxTimer]
    /\ framing \in [Req -> {"chunked", "length"}]
    /\ peer \in [Req -> {"reading", "stalled", "gone"}]
    /\ source \in [Req -> {"silent", "answered", "ended", "broken"}]
    /\ seen \in [Req -> [code : {"none", "101", "200", "302", "401", "502", "504"},
                         body : {"open", "whole", "short", "padded"}]]
    /\ status \in [Req -> {"200", "302", "401", "500", "502", "504"}]
    /\ inflight \in 0..Cardinality(Req)
    /\ errors \subseteq Req

\* The gauge of public executions counts exactly those that run, however they
\* end: answered, timed out, abandoned or broken off by a panic
\* (server.go:137-140, reverse_proxy.go:79-101).
InflightIsExact ==
    inflight = Cardinality({r \in Req : pc[r] \in Active /\ kind[r] \in Public})

\* What is recorded of an answer that reached its client whole: its status,
\* and 200 for an upgrade.
Recorded(code) == IF code = "101" THEN "200" ELSE code

\* The recorded status of a finished request tells whether its client got
\* the whole answer or, of an upgrade, the connection until n8n closed it: a
\* body cut off after the headers is never recorded as a success although the
\* client read 200 (server.go:109-129, 891-913).
SuccessMeansWhole ==
    \A r \in Req : pc[r] = "over" =>
        (status[r] \in {"200", "302"} /\ peer[r] # "gone"
            <=> source[r] = "ended" /\ seen[r].body = "whole"
                /\ status[r] = Recorded(seen[r].code))
=============================================================================
