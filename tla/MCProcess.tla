------------------------------- MODULE MCProcess -------------------------------
(***************************************************************************)
(* An instance of Lifecycle and Readiness for TLC.  Probes and requests    *)
(* share no state, so a behaviour first looks at the probes alone; once    *)
(* one found everything well at once, it may turn to the requests.  There  *)
(* are two of these, which is what it takes for the drain to wait for one  *)
(* while the other was cut or is a tunnel.                                 *)
(***************************************************************************)
EXTENDS Lifecycle, Readiness

VARIABLES part      \* what the behaviour looks at: "probes" or "requests"

ProcessInit == part = "probes" /\ Init /\ ReadyInit

Probes == part = "probes" /\ ReadyNext /\ UNCHANGED <<part, vars>>

Admit ==
    /\ part = "probes" /\ part' = "requests"
    /\ at = "idle" /\ reply = "200" /\ approle /\ token
    /\ \A d \in Dep : health[d] = "up" /\ spent[d] = 0
    /\ troubled = {}
    /\ UNCHANGED <<vars, readyVars>>

Requests == part = "requests" /\ Next /\ UNCHANGED <<part, readyVars>>

ProcessNext == Probes \/ Admit \/ Requests

ProcessSpec ==
    /\ ProcessInit /\ [][ProcessNext]_<<part, vars, readyVars>>
    /\ Fairness
    /\ WF_readyVars(part = "probes" /\ Probe)
    /\ WF_readyVars(part = "probes" /\ Elapse)
=============================================================================
