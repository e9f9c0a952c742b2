------------------------------- MODULE Journey -------------------------------
(***************************************************************************)
(* A person's trip through the gateway: the browser opens a page and       *)
(* follows every redirect until something is shown.  The handlers are      *)
(* those of Gateway; this module adds the Location headers they send.      *)
(***************************************************************************)
EXTENDS Gateway

CONSTANTS MaxHops   \* responses a browser may receive on one trip; they are
                    \* counted up to one more

VARIABLES trip      \* where each browser is: see Idle

tripVars == <<vars, trip>>

Idle == [goal |-> "console", url |-> "none", st |-> NotFound, hops |-> 0,
         last |-> "none", well |-> TRUE]

Goals == {"console", "linkget", "logout", "signout"}

\* Where a response sends the browser; "none" when it is a page or an error.
\* A redirect back names the page first asked for, or / after a logout or a
\* signout.
Location(to, goal) ==
    CASE to = "login" -> "login"
      [] to = "idp" -> "idp"
      [] to \in {"link", "relink"} -> "linkget"
      [] to = "return" -> IF goal = "linkget" THEN goal ELSE "console"
      [] to = "root" -> "console"
      [] OTHER -> "none"

TripInit == Init /\ trip = [b \in Browser |-> Idle]

\* An answer that blames Redis, the provider or n8n, or a login that took
\* longer than its state lives.
Trouble(a) ==
    \/ a.to \in {"401", "500", "502", "503"} \/ a.cause \in {"limited", "down"}
    \/ a.to = "400" /\ a.cause = "none"

Settled == \A b \in Browser : trip[b].url = "none"

\* A bound: a trip starts only while it can still log in once.
Open(b, goal) ==
    /\ trip[b].url = "none"
    /\ drawn # State /\ \E id \in Sid : holder[id] = NotFound
    /\ trip' = [trip EXCEPT ![b] = [Idle EXCEPT !.goal = goal, !.url = goal]]
    /\ UNCHANGED vars

Fetch(r, b) ==
    /\ \/ ReceiveWithSession(r, b, trip[b].url)
       \/ trip[b].url = "logout" /\ ReceiveLogout(r, b)
       \/ trip[b].url = "signout" /\ ReceiveSignout(r, b)
       \/ trip[b].url = "callback" /\ trip[b].st \in Finished
             /\ ReceiveCallback(r, b, trip[b].st, trip[b].st)
    /\ trip' = [trip EXCEPT ![b].url = "busy"]

\* The person logs in at the provider, which sends the browser back.
LogIn(b, u) ==
    /\ trip[b].url = "idp"
    /\ IdPLogin(trip[b].st, u)
    /\ trip' = [trip EXCEPT ![b].url = "callback"]

Work(r) == Serve(r) /\ UNCHANGED trip

Show(r) ==
    /\ Deliver(r)
    /\ LET b == rq[r].b
       IN  trip' = [trip EXCEPT ![b].url = Location(resp[r].to, trip[b].goal),
                                ![b].st = resp[r].st,
                                ![b].hops = IF @ > MaxHops THEN @ ELSE @ + 1,
                                ![b].last = resp[r].to,
                                ![b].well = @ /\ ~Trouble(resp[r])]

\* A browser that loses cookies on every response would loop for ever.
World ==
    /\ \/ Tick
       \/ Settled /\ \E b \in Browser : DropCookie(b)
       \/ Settled /\ \E c \in Cred : PasswordChange(c)
    /\ UNCHANGED trip

Step(r) == \/ \E b \in Browser : Fetch(r, b)
           \/ Work(r) \/ Show(r)

TripNext ==
    \/ \E b \in Browser :
        \/ \E goal \in Goals : Open(b, goal)
        \/ \E u \in User : LogIn(b, u)
    \/ \E r \in Req : Step(r)
    \/ World

\* The gateway serves a request it has: its clients of Redis, Vault and n8n
\* give up in the end, the last one unless CONSOLE_PROXY_TIMEOUT is 0, but the
\* code exchange has no time-out and may never return (oidc/client.go:77).
\* The browser follows a redirect it got and the person logs in when asked;
\* nobody has to open anything.
TripFairness ==
    /\ \A r \in Req : WF_tripVars(Step(r) /\ pc[r] # "exchange")
    /\ \A b \in Browser : WF_tripVars(\E u \in User : LogIn(b, u))

TripSpec == TripInit /\ [][TripNext]_tripVars /\ TripFairness

-----------------------------------------------------------------------------
\* No chain of redirects between console, login, provider, callback and link
\* page goes on: the marker and the session cookies a response sets are what
\* the next request needs (server.go:286-288, 426-432, 493-518, 635-639).
NoRedirectLoop == \A b \in Browser : trip[b].hops <= MaxHops

\* Every trip ends with a page or an error, whatever fails on the way, unless
\* the provider leaves a code exchange without an answer for ever
\* (server.go:233-262, oidc/client.go:77).
TripEnds ==
    (\A r \in Req : []<>(pc[r] # "exchange"))
        => \A b \in Browser : (trip[b].url # "none") ~> (trip[b].url = "none")

\* A trip on which no answer tells of trouble ends at the link page, if that
\* was asked for, and else at the console, or at the link page when n8n does
\* not accept the stored credential of the person whose session the browser
\* has; whatever cookies and sessions ended before or on the way
\* (docs/test-plan.md, "Existing link", "Invalid stored credential").
TripLandsRight ==
    [][\A b \in Browser :
          trip[b].url # "none" /\ trip'[b].url = "none" /\ trip'[b].well =>
            \/ trip[b].goal = "linkget" /\ trip'[b].last = "page"
            \/ trip[b].goal # "linkget" /\ trip'[b].last = "console"
            \/ /\ trip[b].goal # "linkget" /\ trip'[b].last = "page"
               /\ vault[holder[jar[b].plain]] \notin accepted]_tripVars
=============================================================================
