------------------------------- MODULE Lifecycle -------------------------------
(***************************************************************************)
(* cmd/n8n-proxy/main.go around the requests of ReverseProxy: the process  *)
(* starts, serves, and on a signal stops accepting and waits for the       *)
(* requests in flight.  http.Server.Shutdown does not know hijacked        *)
(* connections.  Exiting cuts whatever is still open.                      *)
(***************************************************************************)
EXTENDS ReverseProxy

CONSTANTS DrainTime     \* 15 seconds

\* The bound lets a request grow as old as a drain.
ASSUME DrainAssumption == DrainTime \in Nat /\ DrainTime <= MaxTimer

VARIABLES
    phase,  \* "starting", "serving", "draining"; then "stopped" (exit 0),
            \* "refused" or "killed" (exit 1)
    drain,  \* time since the signal
    cut     \* the requests open when the process exited

vars == <<proxyVars, phase, drain, cut>>

Running == {"serving", "draining"}
Exited  == {"stopped", "refused", "killed"}

Init == ProxyInit /\ phase = "starting" /\ drain = 0 /\ cut = {}

Open == {r \in Req : pc[r] \in Active}

\* Wrong variant: a request whose headers were sent counts as finished.
WrongBusy == {r \in Req : pc[r] = "sent"}

\* What Shutdown waits for; it looks again at once when a request ends.
Busy == {r \in Req : pc[r] \in {"sent", "copying"}}

Exit(how) ==
    /\ phase' = how
    /\ cut' = Open
    /\ UNCHANGED <<proxyVars, drain>>

\* The Vault login or the OIDC discovery fails.
Start ==
    /\ phase = "starting"
    /\ \/ phase' = "serving" /\ UNCHANGED <<proxyVars, drain, cut>>
       \/ Exit("refused")

ListenFails == phase = "serving" /\ Exit("refused")

\* Wrong variant: the deadline starts when the process does.
WrongElapsed == DrainTime
Elapsed == 0

\* A second signal finds nobody waiting for it.
Signal ==
    /\ phase = "serving"
    /\ phase' = "draining" /\ drain' = Elapsed
    /\ UNCHANGED <<proxyVars, cut>>

ShutdownEnds == phase = "draining" /\ Busy = {} /\ Exit("stopped")

\* Wrong variant: Shutdown with a context that has no deadline.
WrongPatience == FALSE
Patience == drain >= DrainTime

ShutdownFails ==
    phase = "draining" /\ Busy # {} /\ Patience /\ Exit("killed")

Accept(r, k) ==
    /\ phase = "serving" /\ Receive(r, k)
    /\ UNCHANGED <<phase, drain, cut>>

Work(r) == phase \in Running /\ Serve(r) /\ UNCHANGED <<phase, drain, cut>>

Tick ==
    /\ phase \in Running
    /\ phase = "draining" => Busy # {} /\ drain < DrainTime
    /\ Elapses
    /\ drain' = IF phase = "draining" THEN drain + 1 ELSE drain
    /\ UNCHANGED <<phase, cut>>

Next ==
    \/ Start \/ ListenFails \/ Signal \/ ShutdownEnds \/ ShutdownFails \/ Tick
    \/ \E r \in Req : Work(r) \/ \E k \in Kinds : Accept(r, k)

Spec == Init /\ [][Next]_vars

\* Time passes, a timer that can stop its request again and again does, and
\* Shutdown returns when it can.  Nothing makes n8n, the provider or a client
\* go on, and no signal has to come.
Fairness ==
    /\ WF_vars(Tick) /\ WF_vars(ShutdownEnds) /\ WF_vars(ShutdownFails)
    /\ \A r \in Req : SF_vars(Work(r) /\ TimeOut(r))

FairSpec == Spec /\ Fairness

-----------------------------------------------------------------------------
(* Properties. *)

TypeOK ==
    /\ ProxyTypeOK
    /\ phase \in Running \cup Exited \cup {"starting"}
    /\ drain \in 0..DrainTime
    /\ cut \subseteq Req

\* The process exits with 0 only when every answer it began was finished or
\* given up by its client; only upgraded connections are cut (main.go:95-100).
CleanExitCutsOnlyTunnels ==
    phase = "stopped" => \A r \in cut : kind[r] \in Upgrades

\* It exits with 1 after a signal only because of a request that has no
\* time-out, or one at least as long as the drain, or whose client does not
\* read, or did not when its time-out passed (main.go:95,
\* reverse_proxy.go:79-91).
KilledForAReason ==
    phase = "killed" =>
        \E r \in cut : \/ Timeout(kind[r]) = 0
                       \/ Timeout(kind[r]) >= DrainTime
                       \/ peer[r] = "stalled" \/ timer[r] > Timeout(kind[r])

\* After a signal the process exits, whatever its requests wait for
\* (main.go:82-100).
SignalEnds == phase = "draining" ~> phase \in Exited

\* A proxied request that is no upgrade ends, even when n8n never answers, as
\* long as its client does not stop reading for ever (reverse_proxy.go:79-91;
\* main.go:70 sets no write time-out).
RequestsEnd ==
    \A r \in Req : []<>(peer[r] # "stalled") =>
        (pc[r] \in {"sent", "copying"} /\ kind[r] \in {"public", "console"}
            ~> pc[r] = "over" \/ phase \in Exited)
=============================================================================
