----------------------------- MODULE ProcessProofs -----------------------------
(***************************************************************************)
(* The safety properties of Readiness, for all time budgets, and those of  *)
(* ReverseProxy and Lifecycle, for any number of requests and every choice *)
(* of the time-outs.                                                       *)
(***************************************************************************)
EXTENDS Lifecycle, Readiness, FiniteSetTheorems, TLAPS

-----------------------------------------------------------------------------
(* Readiness.  The clock of a probe is the sum of what its exchanges took, *)
(* of which those not yet begun took nothing; a dependency that is not well *)
(* is among the troubled ones, and so is Vault when it revoked the token of *)
(* a login that this probe made.  Only an AppRole logs in.                  *)

TimeAdds ==
    /\ clock = spent["redis"] + spent["vault"] + spent["n8n"]
    /\ at = "redis" => spent["vault"] = 0
    /\ at \in {"redis", "vault", "login", "again"} => spent["n8n"] = 0

ChecksInOrder ==
    /\ at \in {"vault", "login", "again", "healthz", "root"} => checks["redis"] # "none"
    /\ at \in {"healthz", "root"} => checks["vault"] # "none"
    /\ at \in {"login", "again"} => approle

TroubleIsSeen ==
    /\ \A d \in Dep : health[d] \notin Fine => d \in troubled
    /\ at = "again" /\ ~token => "vault" \in troubled

ProbeInv == /\ ReadyTypeOK /\ TimeAdds /\ ChecksInOrder /\ TroubleIsSeen
            /\ ErrorsHaveCauses

LEMMA ReadyInitOK == ReadyInit => ProbeInv
<1> SUFFICES ASSUME ReadyInit PROVE ProbeInv
  OBVIOUS
<1> USE ReadinessAssumption DEF ReadyInit
<1>1. ReadyTypeOK
  BY DEF ReadyTypeOK, NoChecks
<1>2. TimeAdds /\ ChecksInOrder /\ TroubleIsSeen
  BY DEF TimeAdds, ChecksInOrder, TroubleIsSeen, Dep, Fine
<1>3. ErrorsHaveCauses
  BY DEF ErrorsHaveCauses, NoChecks
<1> QED
  BY <1>1, <1>2, <1>3 DEF ProbeInv

\* What ErrorsHaveCauses asks of an error, and what is known of the dependency
\* asked last.
Excused(d) == \/ d \in troubled
              \/ SpentUpTo(d) >= Budget
              \/ d = "vault" /\ Stranded
Caused(d) == d \in troubled \/ clock >= Budget \/ (d = "vault" /\ Stranded)

\* The dependency asked last answers, or gives up, and its check is written.
LEMMA Checking ==
  ASSUME ProbeInv, Asking, NEW result \in {"ok", "error"},
         Check(Target, result), at' = After(Target),
         UNCHANGED <<health, approle, token, clock, spent, troubled, reply>>,
         result = "error" => Caused(Target)
  PROVE  ProbeInv'
<1>1. /\ Target \in Dep /\ at' \in {"vault", "healthz", "reply"}
      /\ checks' = [checks EXCEPT ![Target] = result]
      /\ checks \in [Dep -> {"none", "ok", "error"}]
  BY DEF Target, Asking, Dep, Check, After, ProbeInv, ReadyTypeOK
<1>2. ReadyTypeOK'
  <2>1. at' = "reply" => \A d \in Dep : checks'[d] # "none"
    BY <1>1 DEF Target, After, Asking, Dep, ProbeInv, ChecksInOrder
  <2> QED
    BY <1>1, <2>1 DEF ProbeInv, ReadyTypeOK
<1>3. TimeAdds'
  BY <1>1 DEF ProbeInv, TimeAdds, Target, After, Asking, Dep
<1>4. ChecksInOrder'
  BY <1>1 DEF ProbeInv, ChecksInOrder, Target, After, Asking, Dep
<1>5. TroubleIsSeen'
  BY <1>1 DEF ProbeInv, TroubleIsSeen
<1>6. ErrorsHaveCauses'
  <2>1. result = "error" => Excused(Target)
    <3>1. SpentUpTo(Target) = clock
      BY DEF ProbeInv, ReadyTypeOK, TimeAdds, SpentUpTo, Target, Asking, Dep
    <3> QED
      BY <3>1 DEF Caused, Excused
  <2>2. ASSUME NEW d \in Dep, checks'[d] = "error"
        PROVE  Excused(d)
    BY <1>1, <2>1, <2>2 DEF ProbeInv, ErrorsHaveCauses, Excused
  <2>3. \A d \in Dep : Excused(d)' = Excused(d)
    BY DEF Excused, SpentUpTo, Stranded
  <2> QED
    BY <2>2, <2>3 DEF ErrorsHaveCauses, Excused
<1> QED
  BY <1>2, <1>3, <1>4, <1>5, <1>6 DEF ProbeInv

\* The probe asks the same dependency once more.
LEMMA AskingAgain ==
  ASSUME ProbeInv, Asking, token' \in BOOLEAN,
         \/ at = "vault" /\ at' = "login" /\ token' = token /\ approle
         \/ at = "login" /\ at' = "again" /\ token'
         \/ at = "healthz" /\ at' = "root" /\ token' = token,
         UNCHANGED <<health, approle, clock, checks, spent, troubled, reply>>
  PROVE  ProbeInv'
<1>1. ReadyTypeOK'
  BY DEF ProbeInv, ReadyTypeOK
<1>2. TimeAdds' /\ ChecksInOrder' /\ TroubleIsSeen'
  BY DEF ProbeInv, TimeAdds, ChecksInOrder, TroubleIsSeen
<1>3. ErrorsHaveCauses'
  BY DEF ProbeInv, ErrorsHaveCauses, SpentUpTo, Stranded, ChecksInOrder
<1> QED
  BY <1>1, <1>2, <1>3 DEF ProbeInv

LEMMA FailOK ==
  ASSUME ProbeInv, Asking, Fail,
         UNCHANGED <<health, approle, clock, spent, troubled, reply>>,
         at = "healthz" \/ Caused(Target)
  PROVE  ProbeInv'
<1>1. CASE at = "healthz"
  BY <1>1, AskingAgain DEF Fail, SecondTry, ProbeInv, ReadyTypeOK
<1>2. CASE at # "healthz"
  BY <1>2, Checking DEF Fail, ProbeInv, ReadyTypeOK
<1> QED
  BY <1>1, <1>2

LEMMA AnswerOK == ProbeInv /\ Answer => ProbeInv'
<1> SUFFICES ASSUME ProbeInv, Answer PROVE ProbeInv'
  OBVIOUS
<1>1. Asking /\ UNCHANGED <<health, approle, clock, spent, troubled, reply>>
      /\ token \in BOOLEAN
  BY DEF Answer, ProbeInv, ReadyTypeOK
<1>2. CASE Refused
  <2>1. CASE at = "vault" /\ LogIn
    BY <1>1, <1>2, <2>1, AskingAgain DEF Answer, Refuse, LogIn
  <2>3. CASE at = "vault" /\ ~LogIn
    <3>1. Caused(Target)
      BY <1>2, <2>3 DEF Refused, Target, Caused, Stranded, LogIn
    <3> QED
      BY <1>1, <1>2, <2>3, <3>1, FailOK DEF Answer, Refuse
  <2>2. CASE at = "again"
    <3>1. Caused(Target)
      BY <1>2, <2>2 DEF Refused, Target, Caused, ProbeInv, TroubleIsSeen
    <3> QED
      BY <1>1, <1>2, <2>2, <3>1, FailOK DEF Answer, Refuse
  <2> QED
    BY <1>2, <2>1, <2>2, <2>3 DEF Refused
<1>3. CASE ~Refused /\ at = "healthz" /\ health["n8n"] = "half"
  BY <1>1, <1>3, FailOK DEF Answer
<1>4. CASE Succeed /\ at = "login"
  BY <1>1, <1>4, AskingAgain DEF Succeed
<1>5. CASE Succeed /\ at # "login"
  BY <1>1, <1>5, Checking DEF Succeed
<1> QED
  BY <1>2, <1>3, <1>4, <1>5 DEF Answer

LEMMA ErrorOK == ProbeInv /\ Error => ProbeInv'
<1> SUFFICES ASSUME ProbeInv, Error PROVE ProbeInv'
  OBVIOUS
<1>1. Asking /\ Fail /\ UNCHANGED <<health, approle, clock, spent, troubled, reply>>
  BY DEF Error
<1>2. Target \in Dep
  BY <1>1 DEF Asking, Target, Dep
<1>3. clock >= Budget \/ health[Target] \notin Fine
  BY ReadinessAssumption DEF Error, InTime, Fine, Target, ProbeInv, ReadyTypeOK
<1>4. Caused(Target)
  BY <1>2, <1>3 DEF ProbeInv, TroubleIsSeen, Caused
<1> QED
  BY <1>1, <1>4, FailOK

LEMMA BeginOK == ProbeInv /\ Begin => ProbeInv'
<1> SUFFICES ASSUME ProbeInv, Begin PROVE ProbeInv'
  OBVIOUS
<1>1. ReadyTypeOK'
  BY ReadinessAssumption DEF Begin, ProbeInv, ReadyTypeOK, NoChecks
<1>2. TimeAdds' /\ ChecksInOrder' /\ TroubleIsSeen'
  BY DEF Begin, TimeAdds, ChecksInOrder, TroubleIsSeen, Dep
<1>3. ErrorsHaveCauses'
  BY DEF Begin, ErrorsHaveCauses, NoChecks
<1> QED
  BY <1>1, <1>2, <1>3 DEF ProbeInv

LEMMA ReplyOK == ProbeInv /\ Reply => ProbeInv'
<1> SUFFICES ASSUME ProbeInv, Reply PROVE ProbeInv'
  OBVIOUS
<1>1. ReadyTypeOK'
  BY DEF Reply, ProbeInv, ReadyTypeOK
<1>2. TimeAdds' /\ ChecksInOrder' /\ TroubleIsSeen'
  BY DEF Reply, ProbeInv, TimeAdds, ChecksInOrder, TroubleIsSeen
<1>3. ErrorsHaveCauses'
  BY DEF Reply, ProbeInv, ErrorsHaveCauses, SpentUpTo, Stranded
<1> QED
  BY <1>1, <1>2, <1>3 DEF ProbeInv

\* Time goes to the dependency that is asked.
LEMMA ElapseOK == ProbeInv /\ Elapse => ProbeInv'
<1> SUFFICES ASSUME ProbeInv, Elapse PROVE ProbeInv'
  OBVIOUS
<1>1. /\ Asking /\ Target \in Dep /\ clock' = clock + 1 /\ clock \in Nat
      /\ spent' = [spent EXCEPT ![Target] = @ + 1]
      /\ spent \in [Dep -> 0..(Budget + RedisTime)]
      /\ UNCHANGED <<health, approle, token, at, checks, troubled, reply>>
  BY ReadinessAssumption DEF Elapse, ProbeInv, ReadyTypeOK, Asking, Target, Dep
<1>2. \A d \in Dep : spent[d] \in Nat /\ spent'[d] = IF d = Target THEN spent[d] + 1
                                                                ELSE spent[d]
  BY <1>1, ReadinessAssumption
<1>3. clock' \in 0..(Budget + RedisTime)
  BY <1>1, ReadinessAssumption DEF Elapse
<1>4. TimeAdds'
  BY <1>1, <1>2 DEF ProbeInv, TimeAdds, Target, Dep, Asking
<1>5. spent' \in [Dep -> 0..(Budget + RedisTime)]
  <2>1. \A d \in Dep : spent'[d] \in Nat /\ spent'[d] <= clock'
    BY <1>1, <1>2, <1>4 DEF TimeAdds, Dep
  <2> QED
    BY <1>1, <1>3, <2>1, ReadinessAssumption
<1>6. ReadyTypeOK'
  BY <1>1, <1>3, <1>5 DEF ProbeInv, ReadyTypeOK
<1>7. ChecksInOrder' /\ TroubleIsSeen'
  BY <1>1 DEF ProbeInv, ChecksInOrder, TroubleIsSeen
<1>8. ErrorsHaveCauses'
  <2>1. \A d \in Dep : SpentUpTo(d)' >= SpentUpTo(d) /\ SpentUpTo(d) \in Nat
    BY <1>2 DEF SpentUpTo, Dep
  <2>2. ASSUME NEW d \in Dep, checks'[d] = "error"
        PROVE  Excused(d)'
    <3>1. Excused(d)
      BY <1>1, <2>2 DEF ProbeInv, ErrorsHaveCauses, Excused
    <3>2. SpentUpTo(d)' \in Nat /\ SpentUpTo(d)' >= SpentUpTo(d) /\ SpentUpTo(d) \in Nat
      BY <1>2, <2>1 DEF SpentUpTo, Dep
    <3> QED
      BY <1>1, <3>1, <3>2, ReadinessAssumption DEF Excused, Stranded
  <2> QED
    BY <2>2 DEF ErrorsHaveCauses, Excused
<1> QED
  BY <1>4, <1>6, <1>7, <1>8 DEF ProbeInv

\* The world around: trouble is only added.
LEMMA WorldOK ==
  ASSUME ProbeInv, Revoke \/ \E d \in Dep,
             h \in {"up", "half", "slow", "silent", "down"} : Turn(d, h)
  PROVE  ProbeInv'
<1>1. UNCHANGED <<approle, at, clock, checks, spent, reply>>
      /\ (Stranded => Stranded') /\ troubled \subseteq troubled'
      /\ troubled \subseteq Dep
  BY DEF Revoke, Turn, Stranded, ProbeInv, ReadyTypeOK
<1>2. ReadyTypeOK'
  <2>1. CASE Revoke
    BY <2>1 DEF Revoke, ProbeInv, ReadyTypeOK, Dep
  <2>2. ASSUME NEW d \in Dep, NEW h \in {"up", "half", "slow", "silent", "down"},
               Turn(d, h)
        PROVE  ReadyTypeOK'
    <3>1. /\ health' = [health EXCEPT ![d] = h] /\ token' = token
          /\ troubled' \subseteq troubled \cup {d}
      BY <2>2 DEF Turn
    <3> QED
      BY <1>1, <3>1 DEF ProbeInv, ReadyTypeOK
  <2> QED
    BY <2>1, <2>2
<1>3. TimeAdds' /\ ChecksInOrder'
  BY <1>1 DEF ProbeInv, TimeAdds, ChecksInOrder
<1>4. TroubleIsSeen'
  <2>1. CASE Revoke
    BY <2>1 DEF Revoke, ProbeInv, TroubleIsSeen
  <2>2. CASE \E d \in Dep, h \in {"up", "half", "slow", "silent", "down"} : Turn(d, h)
    <3>1. PICK d \in Dep, h \in {"up", "half", "slow", "silent", "down"} : Turn(d, h)
      BY <2>2
    <3>2. /\ \A x \in Dep : health'[x] = IF x = d THEN h ELSE health[x]
          /\ UNCHANGED <<at, token>>
          /\ troubled' = IF h \in Fine THEN troubled ELSE troubled \cup {d}
      BY <3>1 DEF Turn, ProbeInv, ReadyTypeOK
    <3> QED
      BY <3>2 DEF ProbeInv, TroubleIsSeen
  <2> QED
    BY <2>1, <2>2
<1>5. ErrorsHaveCauses'
  BY <1>1 DEF ProbeInv, ErrorsHaveCauses, SpentUpTo
<1> QED
  BY <1>2, <1>3, <1>4, <1>5 DEF ProbeInv

LEMMA ReadyNextOK == ProbeInv /\ [ReadyNext]_readyVars => ProbeInv'
<1> SUFFICES ASSUME ProbeInv, [ReadyNext]_readyVars PROVE ProbeInv'
  OBVIOUS
<1>1. CASE UNCHANGED readyVars
  BY <1>1 DEF readyVars, ProbeInv, ReadyTypeOK, TimeAdds, ChecksInOrder, TroubleIsSeen,
     ErrorsHaveCauses, SpentUpTo, Stranded
<1> QED
  BY <1>1, BeginOK, AnswerOK, ErrorOK, ReplyOK, ElapseOK, WorldOK DEF ReadyNext, Probe

\* Every probe stays within its budget and its checks within their values, and
\* a probe that answers has asked all three dependencies (server.go:520-554,
\* client.go:170-196, credential_store.go:197-206).
THEOREM ReadyTypeCorrect == ReadySpec => []ReadyTypeOK
<1>1. ProbeInv => ReadyTypeOK
  BY DEF ProbeInv
<1> QED
  BY <1>1, ReadyInitOK, ReadyNextOK, PTL DEF ReadySpec

\* No dependency is reported as broken without cause: it was in trouble while
\* the probe ran, or the time of the probe was used up when its turn ended
\* (server.go:520-554).
THEOREM ErrorsAreCaused == ReadySpec => []ErrorsHaveCauses
<1>1. ProbeInv => ErrorsHaveCauses
  BY DEF ProbeInv
<1> QED
  BY <1>1, ReadyInitOK, ReadyNextOK, PTL DEF ReadySpec
-----------------------------------------------------------------------------
USE ProxyAssumption, DrainAssumption

-----------------------------------------------------------------------------
(* Lifecycle: the inductive invariant. *)

\* What is known of a request at each stage: on both sides of the gateway, in
\* the log, and of its client.
Consistent(r) ==
    /\ pc[r] = "sent" =>
          /\ source[r] = "silent" /\ status[r] = "200" /\ peer[r] = "reading"
          /\ seen[r] = [code |-> "none", body |-> "open"]
    /\ pc[r] = "copying" =>
          /\ source[r] = "answered" /\ status[r] = "200" /\ peer[r] # "gone"
          /\ seen[r] = [code |-> "200", body |-> "open"]
    /\ pc[r] = "tunnel" =>
          /\ source[r] = "answered" /\ status[r] = "200" /\ peer[r] # "gone"
          /\ seen[r] = [code |-> "101", body |-> "open"]
          /\ kind[r] \in Upgrades
    /\ pc[r] = "over" =>
        (status[r] \in {"200", "302"} /\ peer[r] # "gone"
            <=> source[r] = "ended" /\ seen[r].body = "whole"
                /\ status[r] = Recorded(seen[r].code))

\* While the process drains every open request is at least as old as the
\* signal, since nothing is accepted any more.
DrainedRequestsAge ==
    phase = "draining" => \A r \in Open : timer[r] >= drain

Codes == {"none", "101", "200", "302", "401", "502", "504"}
Bodies == {"open", "whole", "short", "padded"}

\* ProxyTypeOK but for the upper bound of the gauge, which InflightIsExact
\* gives.
Types ==
    /\ pc \in [Req -> Active \cup {"idle", "over"}]
    /\ kind \in [Req -> AllKinds]
    /\ timer \in [Req -> 0..MaxTimer]
    /\ framing \in [Req -> {"chunked", "length"}]
    /\ peer \in [Req -> {"reading", "stalled", "gone"}]
    /\ source \in [Req -> {"silent", "answered", "ended", "broken"}]
    /\ seen \in [Req -> [code : Codes, body : Bodies]]
    /\ status \in [Req -> {"200", "302", "401", "500", "502", "504"}]
    /\ inflight \in Int
    /\ errors \subseteq Req

ProxyInv == Types /\ InflightIsExact /\ \A r \in Req : Consistent(r)

PhaseTypes ==
    /\ phase \in Running \cup Exited \cup {"starting"}
    /\ drain \in 0..DrainTime
    /\ cut \subseteq Req

IInv ==
    /\ ProxyInv /\ PhaseTypes
    /\ DrainedRequestsAge /\ CleanExitCutsOnlyTunnels /\ KilledForAReason

-----------------------------------------------------------------------------
(* The gauge. *)

Counted == {r \in Req : pc[r] \in Active /\ kind[r] \in Public}

LEMMA CountedIsFinite ==
    IsFiniteSet(Counted) /\ Cardinality(Counted) \in 0..Cardinality(Req)
<1>1. Counted \subseteq Req
  BY DEF Counted
<1>2. IsFiniteSet(Counted) /\ Cardinality(Counted) <= Cardinality(Req)
  BY <1>1, FS_Subset
<1> QED
  BY <1>2, FS_CardinalityType

\* A step that neither opens nor closes a request leaves the count alone.
LEMMA CountStays ==
    ASSUME \A r \in Req : (pc'[r] \in Active) = (pc[r] \in Active),
           UNCHANGED <<kind, inflight>>, InflightIsExact
    PROVE  InflightIsExact'
<1>1. Counted' = Counted
  BY DEF Counted
<1> QED
  BY <1>1 DEF InflightIsExact, Counted

\* Over keeps the gauge right, however the request ended.
LEMMA CountOver ==
    ASSUME NEW r \in Req, Types, InflightIsExact, pc[r] \in Active, Over(r),
           UNCHANGED kind
    PROVE  InflightIsExact'
<1>1. pc' = [pc EXCEPT ![r] = "over"]
  BY DEF Over
<1>2. CASE kind[r] \in Public
  <2>1. Counted' = Counted \ {r} /\ r \in Counted
    BY <1>1, <1>2 DEF Counted, Types, Active
  <2>2. Cardinality(Counted') = Cardinality(Counted) - 1
    BY <2>1, CountedIsFinite, FS_RemoveElement
  <2>3. inflight' = inflight - 1
    BY <1>2 DEF Over
  <2> QED
    BY <2>2, <2>3 DEF InflightIsExact, Counted
<1>3. CASE kind[r] \notin Public
  <2>1. Counted' = Counted
    BY <1>1, <1>3 DEF Counted, Types, Active
  <2> QED
    BY <1>3, <2>1 DEF InflightIsExact, Counted, Over
<1> QED
  BY <1>2, <1>3

-----------------------------------------------------------------------------
(* The steps of a request. *)

LEMMA Receiving ==
    ASSUME NEW r \in Req, NEW k \in Kinds, ProxyInv, Receive(r, k)
    PROVE  ProxyInv'
<1> USE DEF ProxyInv, Receive
<1>1. Types'
  BY DEF Types, Active, Codes, Bodies
<1>2. ASSUME NEW x \in Req PROVE Consistent(x)'
  <2>1. CASE x = r
    BY <2>1 DEF Consistent, Types
  <2>2. CASE x # r
    BY <2>2 DEF Consistent, Types
  <2> QED
    BY <2>1, <2>2
<1>3. r \notin Counted
  BY DEF Counted, Active
<1>4. CASE k \in Public
  <2>1. Counted' = Counted \cup {r}
    BY <1>4 DEF Counted, Types, Active
  <2>2. Cardinality(Counted') = Cardinality(Counted) + 1
    BY <1>3, <2>1, CountedIsFinite, FS_AddElement
  <2> QED
    BY <1>1, <1>2, <1>4, <2>2 DEF InflightIsExact, Counted
<1>5. CASE k \notin Public
  <2>1. Counted' = Counted
    BY <1>3, <1>5 DEF Counted, Types, Active
  <2> QED
    BY <1>1, <1>2, <1>5, <2>1 DEF InflightIsExact, Counted
<1> QED
  BY <1>4, <1>5

\* A request ends: it is enough to look at the request itself.
LEMMA Ending ==
    ASSUME NEW r \in Req, ProxyInv, pc[r] \in Active, Over(r), Types',
           UNCHANGED kind, Consistent(r)',
           \A x \in Req \ {r} : /\ source'[x] = source[x] /\ status'[x] = status[x]
                                /\ peer'[x] = peer[x] /\ seen'[x] = seen[x]
    PROVE  ProxyInv'
<1>1. InflightIsExact'
  BY CountOver DEF ProxyInv
<1>2. ASSUME NEW x \in Req PROVE Consistent(x)'
  <2>1. CASE x # r
    BY <2>1 DEF Consistent, ProxyInv, Types, Over
  <2> QED
    BY <2>1
<1> QED
  BY <1>1, <1>2 DEF ProxyInv

LEMMA Serving ==
    ASSUME NEW r \in Req, ProxyInv, Serve(r)
    PROVE  ProxyInv'
<1> USE DEF ProxyInv
<1>t. Consistent(r)
  OBVIOUS
<1>i. ASSUME Over(r) PROVE inflight' \in Int
  BY <1>i DEF Over, Types
<1>1. ASSUME NEW f \in {"chunked", "length"}, PassHeaders(r, f) PROVE ProxyInv'
  <2>1. /\ pc[r] = "sent" /\ peer[r] = "reading"
        /\ pc' \in {[pc EXCEPT ![r] = "copying"], [pc EXCEPT ![r] = "tunnel"]}
    BY <1>1 DEF PassHeaders, Consistent
  <2>2. Types'
    <3>1. /\ UNCHANGED <<kind, timer, peer, status, inflight, errors>>
          /\ source' = [source EXCEPT ![r] = "answered"]
          /\ framing' \in {framing, [framing EXCEPT ![r] = f]}
      BY <1>1 DEF PassHeaders
    <3>2. seen' \in [Req -> [code : Codes, body : Bodies]]
      BY <1>1, <2>1 DEF PassHeaders, Shows, Types, Codes, Bodies
    <3> QED
      BY ZenonT(60), <2>1, <3>1, <3>2 DEF Types, Active
  <2>3. ASSUME NEW x \in Req PROVE Consistent(x)'
    <3>1. CASE x = r
      BY <1>1, <2>1, <3>1 DEF PassHeaders, Shows, Types, Consistent
    <3>2. CASE x # r
      BY <1>1, <2>1, <3>2 DEF PassHeaders, Shows, Types, Consistent
    <3> QED
      BY <3>1, <3>2
  <2>4. InflightIsExact'
    <3>1. \A x \in Req : (pc'[x] \in Active) = (pc[x] \in Active)
      BY <2>1 DEF Types, Active
    <3> QED
      BY <1>1, <3>1, CountStays DEF PassHeaders
  <2> QED
    BY <2>2, <2>3, <2>4
<1>2. ASSUME CallbackAnswered(r) PROVE ProxyInv'
  <2>1. pc[r] = "sent" /\ Over(r) /\ UNCHANGED kind
    BY <1>2 DEF CallbackAnswered
  <2>2. Types'
    BY <1>2, <1>i DEF CallbackAnswered, Over, Shows, Types, Active, Codes, Bodies
  <2>3. Consistent(r)'
    BY <1>2 DEF CallbackAnswered, Over, Shows, Types, Consistent, Recorded
  <2>4. \A x \in Req \ {r} : /\ source'[x] = source[x] /\ status'[x] = status[x]
                             /\ peer'[x] = peer[x] /\ seen'[x] = seen[x]
    BY <1>2 DEF CallbackAnswered, Shows, Types
  <2> QED
    BY <2>1, <2>2, <2>3, <2>4, Ending DEF Active
<1>3. ASSUME RefuseRequest(r) PROVE ProxyInv'
  <2>1. pc[r] = "sent" /\ Over(r) /\ UNCHANGED kind
    BY <1>3 DEF RefuseRequest, AnswerError
  <2>2. Types'
    BY <1>3, <1>i DEF RefuseRequest, AnswerError, Failure, Over, Shows, Types,
                      Active, Codes, Bodies
  <2>3. Consistent(r)'
    BY <1>3 DEF RefuseRequest, AnswerError, Failure, Over, Shows, Types, Consistent
  <2>4. \A x \in Req \ {r} : /\ source'[x] = source[x] /\ status'[x] = status[x]
                             /\ peer'[x] = peer[x] /\ seen'[x] = seen[x]
    BY <1>3 DEF RefuseRequest, AnswerError, Shows, Types
  <2> QED
    BY <2>1, <2>2, <2>3, <2>4, Ending DEF Active
<1>4. ASSUME EndBody(r) PROVE ProxyInv'
  <2>1. pc[r] = "copying" /\ Over(r) /\ UNCHANGED kind
    BY <1>4 DEF EndBody
  <2>2. Types'
    BY <1>4, <1>i DEF EndBody, Over, Shows, Types, Active, Codes, Bodies
  <2>3. Consistent(r)'
    BY <1>4 DEF EndBody, Over, Shows, Types, Consistent, Recorded
  <2>4. \A x \in Req \ {r} : /\ source'[x] = source[x] /\ status'[x] = status[x]
                             /\ peer'[x] = peer[x] /\ seen'[x] = seen[x]
    BY <1>4 DEF EndBody, Shows, Types
  <2> QED
    BY <2>1, <2>2, <2>3, <2>4, Ending DEF Active
<1>5. ASSUME BreakBody(r) PROVE ProxyInv'
  <2>1. pc[r] = "copying" /\ Over(r) /\ UNCHANGED kind
    BY <1>5 DEF BreakBody, Recover
  <2>2. Types'
    BY <1>5, <1>i DEF BreakBody, Recover, Over, Shows, Types, Active, Codes, Bodies
  <2>3. Consistent(r)'
    BY <1>5 DEF BreakBody, Recover, Over, Shows, Types, Consistent
  <2>4. \A x \in Req \ {r} : /\ source'[x] = source[x] /\ status'[x] = status[x]
                             /\ peer'[x] = peer[x] /\ seen'[x] = seen[x]
    BY <1>5 DEF BreakBody, Recover, Shows, Types
  <2> QED
    BY <2>1, <2>2, <2>3, <2>4, Ending DEF Active
<1>6. ASSUME CloseTunnel(r) PROVE ProxyInv'
  <2>1. pc[r] = "tunnel" /\ Over(r) /\ UNCHANGED kind
    BY <1>6 DEF CloseTunnel
  <2>2. Types'
    BY <1>6, <1>i DEF CloseTunnel, Over, Shows, Types, Active, Codes, Bodies
  <2>3. Consistent(r)'
    BY <1>6 DEF CloseTunnel, Over, Shows, Types, Consistent, Recorded
  <2>4. \A x \in Req \ {r} : /\ source'[x] = source[x] /\ status'[x] = status[x]
                             /\ peer'[x] = peer[x] /\ seen'[x] = seen[x]
    BY <1>6 DEF CloseTunnel, Shows, Types
  <2> QED
    BY <2>1, <2>2, <2>3, <2>4, Ending DEF Active
<1>7. ASSUME TimeOut(r) PROVE ProxyInv'
  <2>1. CASE AnswerError(r, "504")
    <3>1. pc[r] = "sent" /\ Over(r) /\ UNCHANGED kind
      BY <2>1 DEF AnswerError
    <3>2. Types'
      BY <1>7, <2>1, <1>i DEF TimeOut, AnswerError, Over, Shows, Types, Active,
                              Codes, Bodies
    <3>3. Consistent(r)'
      BY <1>7, <2>1 DEF TimeOut, AnswerError, Over, Shows, Types, Consistent
    <3>4. \A x \in Req \ {r} : /\ source'[x] = source[x] /\ status'[x] = status[x]
                               /\ peer'[x] = peer[x] /\ seen'[x] = seen[x]
      BY <1>7, <2>1 DEF TimeOut, AnswerError, Shows, Types
    <3> QED
      BY <3>1, <3>2, <3>3, <3>4, Ending DEF Active
  <2>2. CASE pc[r] = "copying" /\ Recover(r) /\ UNCHANGED <<kind, timer, framing, errors>>
    <3>1. Over(r)
      BY <2>2 DEF Recover
    <3>2. Types'
      BY <1>7, <2>2, <1>i DEF TimeOut, Recover, Over, Shows, Types, Active,
                              Codes, Bodies
    <3>3. Consistent(r)'
      BY <1>7, <2>2 DEF TimeOut, Recover, Over, Shows, Types, Consistent
    <3>4. \A x \in Req \ {r} : /\ source'[x] = source[x] /\ status'[x] = status[x]
                               /\ peer'[x] = peer[x] /\ seen'[x] = seen[x]
      BY <1>7, <2>2 DEF TimeOut, Recover, Shows, Types
    <3> QED
      BY <2>2, <3>1, <3>2, <3>3, <3>4, Ending DEF Active
  <2> QED
    BY <1>7, <2>1, <2>2 DEF TimeOut
<1>8. ASSUME ClientLeaves(r) PROVE ProxyInv'
  <2>1. pc[r] \in Active /\ Over(r) /\ UNCHANGED kind
    BY <1>8 DEF ClientLeaves
  <2>2. Types'
    BY <1>8, <1>i DEF ClientLeaves, Failure, Over, Types, Active, Codes, Bodies
  <2>3. Consistent(r)'
    <3>1. peer'[r] = "gone" /\ pc'[r] = "over" /\ seen'[r] = seen[r]
      BY <1>8 DEF ClientLeaves, Over, Types
    <3>2. seen[r].body = "open"
      BY <2>1 DEF Consistent, Active
    <3> QED
      BY <3>1, <3>2 DEF Consistent
  <2>4. \A x \in Req \ {r} : /\ source'[x] = source[x] /\ status'[x] = status[x]
                             /\ peer'[x] = peer[x] /\ seen'[x] = seen[x]
    BY <1>8 DEF ClientLeaves, Types
  <2> QED
    BY <2>1, <2>2, <2>3, <2>4, Ending
<1>9. ASSUME ClientStalls(r) PROVE ProxyInv'
  <2>1. Types'
    BY <1>9 DEF ClientStalls, Types
  <2>2. ASSUME NEW x \in Req PROVE Consistent(x)'
    BY <1>9 DEF ClientStalls, Types, Consistent
  <2>3. InflightIsExact'
    BY <1>9, CountStays DEF ClientStalls
  <2> QED
    BY <2>1, <2>2, <2>3
<1> QED
  BY <1>1, <1>2, <1>3, <1>4, <1>5, <1>6, <1>7, <1>8, <1>9 DEF Serve

LEMMA Elapsing ==
    ASSUME ProxyInv, Elapses
    PROVE  ProxyInv'
<1> USE DEF ProxyInv
<1>1. Types'
  BY DEF Elapses, Types
<1>2. \A x \in Req : Consistent(x)'
  BY DEF Elapses, Consistent
<1>3. InflightIsExact'
  BY CountStays DEF Elapses
<1> QED
  BY <1>1, <1>2, <1>3

LEMMA Stuttering ==
    ASSUME ProxyInv, UNCHANGED proxyVars
    PROVE  ProxyInv'
<1>1. InflightIsExact'
  BY CountStays DEF proxyVars, ProxyInv
<1> QED
  BY <1>1 DEF proxyVars, ProxyInv, Types, Consistent

-----------------------------------------------------------------------------
(* The steps of the process. *)

LEMMA Starting == Init => IInv
<1> SUFFICES ASSUME Init PROVE IInv
  OBVIOUS
<1>1. Types /\ \A r \in Req : Consistent(r)
  BY DEF Init, ProxyInit, Types, Consistent, AllKinds, Active, Codes, Bodies
<1>2. Counted = {}
  BY DEF Init, ProxyInit, Counted, Active
<1>3. InflightIsExact
  BY <1>2, FS_EmptySet DEF Init, ProxyInit, InflightIsExact, Counted
<1>4. PhaseTypes /\ DrainedRequestsAge /\ CleanExitCutsOnlyTunnels /\ KilledForAReason
  BY DEF Init, PhaseTypes, DrainedRequestsAge, CleanExitCutsOnlyTunnels,
         KilledForAReason, Running, Exited
<1> QED
  BY <1>1, <1>3, <1>4 DEF IInv, ProxyInv

\* What the process does while it runs says nothing of how it exits.
LEMMA WhileRunning ==
    ASSUME ProxyInv', PhaseTypes', DrainedRequestsAge', phase' \in Running
    PROVE  IInv'
BY DEF IInv, Running, CleanExitCutsOnlyTunnels, KilledForAReason

\* The process exits and nothing else happens.
LEMMA Exiting ==
    ASSUME IInv, NEW how \in Exited, Exit(how),
           how = "stopped" => \A r \in Open : kind[r] \in Upgrades,
           how = "killed" =>
               \E r \in Open : Timeout(kind[r]) = 0 \/ Timeout(kind[r]) >= DrainTime
                                   \/ timer[r] > Timeout(kind[r])
    PROVE  IInv'
<1>1. ProxyInv'
  BY Stuttering DEF Exit, IInv
<1>2. PhaseTypes' /\ DrainedRequestsAge'
  BY DEF Exit, IInv, PhaseTypes, DrainedRequestsAge, Open, Exited
<1>3. CleanExitCutsOnlyTunnels'
  BY DEF Exit, CleanExitCutsOnlyTunnels, proxyVars
<1>4. KilledForAReason'
  BY DEF Exit, KilledForAReason, Timeout, proxyVars
<1> QED
  BY <1>1, <1>2, <1>3, <1>4 DEF IInv

\* A request that still waits when the drain is over has no time-out, or a
\* longer one than the drain, or is older than its own.
LEMMA Overdue ==
    ASSUME IInv, phase = "draining", drain >= DrainTime, NEW r \in Open
    PROVE  \/ Timeout(kind[r]) = 0 \/ Timeout(kind[r]) >= DrainTime
           \/ timer[r] > Timeout(kind[r])
<1>1. timer[r] >= drain /\ r \in Req
  BY DEF IInv, DrainedRequestsAge, Open
<1>2. timer[r] \in Nat /\ drain \in Nat /\ Timeout(kind[r]) \in Nat
  BY <1>1 DEF IInv, ProxyInv, Types, PhaseTypes, Timeout
<1> QED
  BY <1>1, <1>2

LEMMA Stepping == IInv /\ [Next]_vars => IInv'
<1> SUFFICES ASSUME IInv, [Next]_vars PROVE IInv'
  OBVIOUS
<1>1. CASE Start
  <2>1. CASE phase' = "serving" /\ UNCHANGED <<proxyVars, drain, cut>>
    <3>1. ProxyInv'
      BY <2>1, Stuttering DEF IInv
    <3> QED
      BY <2>1, <3>1, WhileRunning DEF IInv, PhaseTypes, DrainedRequestsAge, Running
  <2>2. CASE Exit("refused")
    BY <2>2, Exiting DEF Exited
  <2> QED
    BY <1>1, <2>1, <2>2 DEF Start
<1>2. CASE ListenFails
  BY <1>2, Exiting DEF ListenFails, Exited
<1>3. CASE Signal
  <2>1. ProxyInv'
    BY <1>3, Stuttering DEF IInv, Signal
  <2>2. DrainedRequestsAge'
    BY <1>3 DEF Signal, DrainedRequestsAge, Elapsed, Open, proxyVars, IInv,
                ProxyInv, Types
  <2> QED
    BY <1>3, <2>1, <2>2, WhileRunning
       DEF IInv, PhaseTypes, Signal, Running, Elapsed
<1>4. CASE ShutdownEnds
  <2>1. \A r \in Open : pc[r] = "tunnel"
    BY <1>4 DEF ShutdownEnds, Busy, Open, Active
  <2>2. \A r \in Open : kind[r] \in Upgrades
    BY <2>1 DEF Open, IInv, ProxyInv, Consistent
  <2> QED
    BY <1>4, <2>2, Exiting DEF ShutdownEnds, Exited
<1>5. CASE ShutdownFails
  <2>1. PICK r \in Busy : TRUE
    BY <1>5 DEF ShutdownFails
  <2>2. r \in Open
    BY <2>1 DEF Busy, Open, Active
  <2>3. \/ Timeout(kind[r]) = 0 \/ Timeout(kind[r]) >= DrainTime
        \/ timer[r] > Timeout(kind[r])
    BY <1>5, <2>2, Overdue DEF ShutdownFails, Patience
  <2> QED
    BY <1>5, <2>2, <2>3, Exiting DEF ShutdownFails, Exited
<1>6. CASE Tick
  <2>1. ProxyInv'
    BY <1>6, Elapsing DEF Tick, IInv
  <2>2. PhaseTypes' /\ phase' \in Running
    BY <1>6 DEF Tick, IInv, PhaseTypes
  <2>3. DrainedRequestsAge'
    <3> SUFFICES ASSUME phase = "draining", NEW r \in Req, pc[r] \in Active
                 PROVE  timer'[r] >= drain'
      BY <1>6 DEF Tick, Elapses, DrainedRequestsAge, Open
    <3>1. timer[r] >= drain /\ timer[r] \in 0..MaxTimer /\ drain \in 0..DrainTime
      BY DEF IInv, ProxyInv, Types, PhaseTypes, DrainedRequestsAge, Open
    <3>2. drain' = drain + 1 /\ drain < DrainTime
      BY <1>6 DEF Tick
    <3>3. timer'[r] = IF timer[r] < MaxTimer THEN timer[r] + 1 ELSE timer[r]
      BY <1>6 DEF Tick, Elapses
    <3> QED
      BY <3>1, <3>2, <3>3
  <2> QED
    BY <2>1, <2>2, <2>3, WhileRunning
<1>7. ASSUME NEW r \in Req, Work(r) PROVE IInv'
  <2>1. ProxyInv'
    BY <1>7, Serving DEF Work, IInv
  <2>2. PhaseTypes' /\ phase' \in Running
    BY <1>7 DEF Work, IInv, PhaseTypes
  <2>3. timer' = timer /\ \A x \in Req : pc'[x] \in Active => pc[x] \in Active
    BY <1>7 DEF Work, Serve, PassHeaders, CallbackAnswered, RefuseRequest,
                AnswerError, EndBody, BreakBody, Recover, CloseTunnel, TimeOut,
                ClientLeaves, ClientStalls, Over, Active, IInv, ProxyInv, Types
  <2>4. DrainedRequestsAge'
    BY <1>7, <2>3 DEF Work, IInv, DrainedRequestsAge, Open
  <2> QED
    BY <2>1, <2>2, <2>4, WhileRunning
<1>8. ASSUME NEW r \in Req, NEW k \in Kinds, Accept(r, k) PROVE IInv'
  <2>1. ProxyInv'
    BY <1>8, Receiving DEF Accept, IInv
  <2> QED
    BY <1>8, <2>1, WhileRunning
       DEF Accept, IInv, PhaseTypes, DrainedRequestsAge, Running
<1>9. CASE UNCHANGED vars
  <2>1. ProxyInv'
    BY <1>9, Stuttering DEF vars, IInv
  <2> QED
    BY <1>9, <2>1 DEF vars, proxyVars, IInv, PhaseTypes, DrainedRequestsAge, Open,
                      CleanExitCutsOnlyTunnels, KilledForAReason, Timeout
<1> QED
  BY <1>1, <1>2, <1>3, <1>4, <1>5, <1>6, <1>7, <1>8, <1>9 DEF Next

\* The invariant of Lifecycle holds for any number of requests and all times.
THEOREM Inductive == Spec => []IInv
BY Starting, Stepping, PTL DEF Spec

-----------------------------------------------------------------------------
\* No request, timer or gauge leaves its range (Lifecycle, ReverseProxy).
THEOREM TypeCorrect == Spec => []TypeOK
<1>1. IInv => TypeOK
  <2> SUFFICES ASSUME IInv PROVE TypeOK
    OBVIOUS
  <2>1. inflight \in 0..Cardinality(Req)
    BY CountedIsFinite DEF IInv, ProxyInv, InflightIsExact, Counted
  <2> QED
    BY <2>1 DEF IInv, ProxyInv, Types, PhaseTypes, TypeOK, ProxyTypeOK, Codes, Bodies
<1> QED
  BY <1>1, Inductive, PTL

\* However requests end, the gauge of public executions returns to the number
\* of those that run (server.go:137-140).
THEOREM GaugeIsExact == Spec => []InflightIsExact
<1>1. IInv => InflightIsExact
  BY DEF IInv, ProxyInv
<1> QED
  BY <1>1, Inductive, PTL

\* A success is logged only for an answer that its client, if it stayed, got
\* whole, and for each such answer (server.go:109-129, 891-899).
THEOREM SuccessIsWhole == Spec => []SuccessMeansWhole
<1>1. IInv => SuccessMeansWhole
  BY DEF IInv, ProxyInv, Consistent, SuccessMeansWhole
<1> QED
  BY <1>1, Inductive, PTL

\* A clean exit cuts only upgraded connections (main.go:95-100).
THEOREM CleanExit == Spec => []CleanExitCutsOnlyTunnels
<1>1. IInv => CleanExitCutsOnlyTunnels
  BY DEF IInv
<1> QED
  BY <1>1, Inductive, PTL

\* The process gives up its drain only on account of a request that its own
\* time-out could not have ended by then (main.go:95, reverse_proxy.go:79-91).
THEOREM KilledWithReason == Spec => []KilledForAReason
<1>1. IInv => KilledForAReason
  BY DEF IInv
<1> QED
  BY <1>1, Inductive, PTL
=============================================================================
