------------------------------- MODULE MCBrowser -------------------------------
(***************************************************************************)
(* Instances of Routes and Cookies for TLC.  What the gateway makes of a   *)
(* path and what it makes of a cookie share no state: a behaviour looks at *)
(* one of them and leaves the other as it is.                              *)
(***************************************************************************)
EXTENDS Routes, Cookies

VARIABLES part      \* what the behaviour looks at

Init ==
    \/ part = "paths" /\ RoutesInit /\ CookiesInit /\ https /\ secure /\ jar = <<>>
    \/ part = "cookies" /\ CookiesInit /\ path = <<>> /\ target = Home

Next ==
    \/ part = "paths" /\ RoutesNext /\ UNCHANGED <<part, cookieVars>>
    \/ part = "cookies" /\ CookiesNext /\ UNCHANGED <<part, routesVars>>

Spec == Init /\ [][Next]_<<part, routesVars, cookieVars>>

\* Paths and cookies stay well formed (routes.go:38-54, cookie.go:107-159).
TypeOK == part \in {"paths", "cookies"} /\ RoutesTypeOK /\ CookiesTypeOK
=============================================================================
