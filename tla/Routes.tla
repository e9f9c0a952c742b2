--------------------------------- MODULE Routes ---------------------------------
(***************************************************************************)
(* Which handler a path belongs to (httpserver/routes.go), and where a     *)
(* login may send the browser back to (security/return_url.go and          *)
(* server.go, safeReturnTo and nativeLoginReturnTo).                       *)
(*                                                                         *)
(* A path is the sequence of its segments; "" is what lies between two     *)
(* slashes, or behind the last.  A segment written with percent signs      *)
(* carries how often it is escaped, and stands for several once it is      *)
(* unescaped if it hides a slash.  Definitions named Wrong... are buggy    *)
(* forms of the one after them.                                            *)
(***************************************************************************)
EXTENDS Integers, Sequences, SequencesExt

CONSTANTS Words,    \* names used in paths
          MaxLen    \* bound: the words of a path

VARIABLES path,     \* r.URL.Path of a request
          target    \* where a login sent the browser

routesVars == <<path, target>>

Seg(word) == [words |-> <<word>>, escaped |-> 0]
Path(words) == [i \in 1..Len(words) |-> Seg(words[i])]

Unescaped(s) ==
    CASE s.escaped = 0 -> <<s>>
      [] s.escaped = 1 -> Path(s.words)
      [] OTHER -> <<[s EXCEPT !.escaped = @ - 1]>>

\* url.PathUnescape, and what url.Parse does to a path.
Unescape(p) == FoldLeft(LAMBDA done, s : done \o Unescaped(s), <<>>, p)

\* What path.Clean leaves out.
Skipped == {Seg(""), Seg(".")}

\* One segment of path.Clean.
Walk(done, s) ==
    CASE s \in Skipped -> done
      [] s = Seg("..") -> IF done = <<>> THEN done ELSE Front(done)
      [] OTHER -> Append(done, s)

\* Wrong variant: the path is not unescaped first.
WrongCleanPath(p) == FoldLeft(Walk, <<>>, p)

CleanPath(p) == FoldLeft(Walk, <<>>, Unescape(p))

-----------------------------------------------------------------------------
PublicPrefixes == {Path(<<w>>) : w \in {"webhook", "form"}}

\* path == base or it starts with the prefix, which ends with a slash.
Under(p, prefix) == IsPrefix(prefix, p)

Internal(p) ==
    \/ p \in {Path(<<w>>) : w \in {"n8n-link", "signout", "healthz", "readyz",
                                   "metrics"}}
    \/ Len(p) > 1 /\ p[1] = Seg("auth")

ClassifyRoute(method, raw) ==
    LET p == CleanPath(raw)
    IN  CASE Internal(p) -> "internal"
          [] method = "POST" /\ p = Path(<<"rest", "logout">>) -> "internal"
          [] \E prefix \in PublicPrefixes : Under(p, prefix) -> "public"
          [] method = "POST" /\ p = Path(<<"rest", "login">>) -> "blocked"
          [] method = "GET" /\ p \in {Path(<<"signin">>), Path(<<"login">>)}
                -> "alias"
          [] OTHER -> "console"

-----------------------------------------------------------------------------
(* Return targets.  A value is a path, or the path of another host; the     *)
(* whole may be escaped again.                                              *)

Value(p, host, escaped) == [path |-> p, host |-> host, escaped |-> escaped]
Home == Value(<<>>, FALSE, 0)

\* Wrong variant: only a value that begins with two slashes is refused.
WrongValidReturnTo(v) == ~v.host /\ ~(Len(v.path) > 1 /\ v.path[1] = Seg(""))

\* An escaped slash at the start passes: url.Parse unescapes the path once.
ValidReturnTo(v) ==
    /\ ~v.host /\ v.escaped <= 1
    /\ v.escaped = 0 => ~(Len(v.path) > 1 /\ v.path[1] = Seg(""))

LogoutPaths == {Path(<<"signout">>), Path(<<"auth", "logout">>),
                Path(<<"rest", "logout">>)}

LoginPaths == {Path(<<"signin">>), Path(<<"login">>)}

\* The Path of url.Parse(value).
ParsedPath(v) == IF v.escaped = 0 THEN Unescape(v.path) ELSE v.path

\* Wrong variant: the path is compared as it is written.
WrongForbidden(v) == ParsedPath(v) \in LogoutPaths \cup LoginPaths

Forbidden(v) == CleanPath(ParsedPath(v)) \in LogoutPaths \cup LoginPaths

Accepted(v) == ValidReturnTo(v) /\ ~Forbidden(v)

SafeReturnTo(v) == IF Accepted(v) THEN v ELSE Home

\* url.QueryUnescape
Once(v) == IF v.escaped > 0 THEN [v EXCEPT !.escaped = @ - 1]
                            ELSE [v EXCEPT !.path = Unescape(@)]

\* validNativeReturnTo: the value itself, or unescaped once or twice.
Usable(v) == IF v.escaped = 0 /\ Accepted(v) THEN <<v>> ELSE <<>>
Candidates(v) == Usable(v) \o Usable(Once(v)) \o Usable(Once(Once(v)))

\* What the parameters offer, in their order.
Offered(params) == FoldLeft(LAMBDA usable, v : usable \o Candidates(v), <<>>, params)

\* nativeLoginReturnTo: the parameters redirect, redirect_to and return_to,
\* and then the page of this host the request came from.
NativeReturnTo(params, referer) ==
    IF Offered(params) # <<>> THEN Head(Offered(params))
    ELSE SafeReturnTo(referer)

-----------------------------------------------------------------------------
(* The request that follows.                                                *)

Resolved(p) == FoldLeft(Walk, <<>>, p)

\* Browsers know dots that are escaped once.
Dots(p) == [i \in DOMAIN p |->
    IF p[i].words \in {<<".">>, <<"..">>} /\ p[i].escaped = 1
    THEN [p[i] EXCEPT !.escaped = 0] ELSE p[i]]

\* http.Redirect applies path.Clean to the value as it is written; one that does
\* not begin with a slash it takes as relative to /auth/, where the callback is.
\* This is the Path of the request the browser then makes.
Requested(v) == IF v.escaped = 0 THEN Unescape(Resolved(Dots(Resolved(v.path))))
                                 ELSE Path(<<"auth">>) \o v.path

-----------------------------------------------------------------------------
(* The paths and values to look at: a plain path written in other ways.     *)

RoutesInit ==
    /\ \E n \in 1..2 : \E words \in [1..n -> Words] : path = Path(words)
    /\ target = Home

Size(p) == FoldLeft(LAMBDA n, s : n + Len(s.words), 0, p)

\* A step down and back, behind the first i segments.
Back(p, i, w) == SubSeq(p, 1, i) \o Path(<<w, "..">>) \o SubSeq(p, i + 1, Len(p))

\* The slash behind the i-th segment is escaped.
Fuse(p, i) ==
    SubSeq(p, 1, i - 1)
      \o <<[words |-> p[i].words \o p[i + 1].words, escaped |-> 1]>>
      \o SubSeq(p, i + 2, Len(p))

\* A slash more, a dot, a step down and back, a step above the root, or a
\* segment or two of them escaped.
Spellings(p) ==
    {InsertAt(p, i, s) : i \in 1..(Len(p) + 1), s \in Skipped}
    \cup {Back(p, i, w) : i \in 0..Len(p), w \in {"rest", "webhook"}}
    \cup {<<Seg("..")>> \o p}
    \cup {[p EXCEPT ![i].escaped = 1] : i \in DOMAIN p}
    \cup {Fuse(p, i) : i \in 1..(Len(p) - 1)}

Respell ==
    /\ path' \in {p \in Spellings(path) : Size(p) <= MaxLen}
    /\ target' = Home

\* The path in an address bar is escaped once more than in r.URL.Path.
Escape(p) == [i \in DOMAIN p |->
    IF p[i].escaped > 0 THEN [p[i] EXCEPT !.escaped = @ + 1] ELSE p[i]]

Elsewhere == Value(<<>>, TRUE, 0)
Values == {Value(p, host, escaped) :
              p \in {path, Escape(path)}, host \in BOOLEAN, escaped \in 0..3}

\* The path of a Referer begins with a slash.
Return ==
    /\ \E v \in Values :
          target' \in {SafeReturnTo(v), NativeReturnTo(<<Elsewhere, v>>, Elsewhere),
                       NativeReturnTo(<<Elsewhere>>, [v EXCEPT !.escaped = 0])}
    /\ UNCHANGED path

RoutesNext == Respell \/ Return

-----------------------------------------------------------------------------
(* Properties. *)

RoutesTypeOK ==
    /\ \A i \in DOMAIN path : path[i].words # <<>> /\ path[i].escaped \in 0..1
    /\ \A i \in DOMAIN target.path : target.path[i].escaped \in 0..2
    /\ target.host \in BOOLEAN /\ target.escaped \in 0..1

\* However a path is spelled, its requests get the class of the plain path
\* (routes.go:20-57; docs/test-plan.md:33-34).
SpellingDoesNotMatter ==
    [][\A method \in {"GET", "POST"} :
          ClassifyRoute(method, path') = ClassifyRoute(method, path)]_path

\* A GET of these pages logs in once more or takes the marker of the login away.
Unwanted == LoginPaths \cup {Path(<<"signout">>)}

\* A step back behind an escaped segment: the redirect goes back from what is
\* written, the check from what it stands for.
Tangled(v) ==
    v.escaped = 0 /\ \E i, j \in DOMAIN v.path :
        i < j /\ v.path[i].escaped > 0 /\ v.path[j].words = <<"..">>

\* A login sends the browser to a page of this host and, once the redirect and
\* the browser have resolved its dots, to none of the native login pages nor to
\* /signout, however often parts of the target or all of it are escaped.  Not so
\* if it is tangled, and /auth/login is not refused: with a session, that is one
\* redirect more (server.go:641-683, 815-833; return_url.go:8-26).
TargetIsServed ==
    ~target.host /\ (Tangled(target) \/ CleanPath(Requested(target)) \notin Unwanted)
=============================================================================
