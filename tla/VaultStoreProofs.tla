--------------------------- MODULE VaultStoreProofs ---------------------------
(***************************************************************************)
(* VaultStore keeps its types and implements CredentialLedger, for every   *)
(* choice of the constants.  The inductive invariant adds to the types     *)
(* that a process inside a call has an operation of its own kind, and a    *)
(* request under way carries a token.                                      *)
(***************************************************************************)
EXTENDS VaultStore, TLAPS

USE VaultAssumption, NotFoundAssumption

ProcsInv ==
    /\ \A p \in Caller : pc[p] # "idle" => op[p] \in Op
    /\ pc[Renewer] # "idle" => op[Renewer] = Renew
    /\ pc[Renewer] \notin {"retry", "resent"}
    /\ \A p \in Proc : pc[p] \in {"sent", "resent", "issued"} => tok[p] \in Token

IInv == TypeOK /\ ProcsInv

LEMMA Constants ==
    /\ Interval \in Nat /\ Interval >= 1
    /\ Lease \in Nat
    /\ Renew \notin Op
<1>1. Interval \in Nat /\ Interval >= 1
  BY DEF Interval
<1>2. Lease \in Nat
  BY DEF Lease
<1>3. Renew \notin Op
  BY DEF Renew, None, Op, Operation
<1> QED
  BY <1>1, <1>2, <1>3

LEMMA InitIInv == Init => IInv
<1> SUFFICES ASSUME Init PROVE IInv
  OBVIOUS
<1>1. client \in Token /\ left \in [Token -> 0..Lease]
  <2>1. PICK t \in Token : /\ client = t
                          /\ left = [x \in Token |-> IF x = t THEN Lease ELSE 0]
    BY DEF Init
  <2>2. Lease \in 0..Lease /\ 0 \in 0..Lease
    BY Constants
  <2> QED
    BY <2>1, <2>2
<1>2. due \in 1..Interval /\ ticked \in BOOLEAN /\ up \in BOOLEAN
  <2>1. due = Interval /\ ticked = FALSE /\ up = TRUE
    BY DEF Init
  <2>2. Interval \in 1..Interval
    BY Constants
  <2> QED
    BY <2>1, <2>2
<1>3. /\ stored \in [User -> Cred \cup {NotFound}]
      /\ pc \in [Proc -> Waiting \cup {"idle", "retry"}]
      /\ op \in [Proc -> Op \cup {None, Renew}]
      /\ tok \in [Proc -> Token \cup {NotFound}]
      /\ age \in [Proc -> 0..CallTime]
      /\ late = {}
      /\ answer \in [Caller -> Cred \cup {NotFound, Failed, "ok"}]
  BY DEF Init
<1>4. ProcsInv
  BY DEF Init, ProcsInv, Proc
<1> QED
  BY <1>1, <1>2, <1>3, <1>4 DEF IInv, TypeOK

LEMMA Values ==
  ASSUME NEW o \in Op \cup {Renew}, TypeOK
  PROVE  /\ o.kind = "write" => o.cred \in Cred
         /\ o.kind = "read" => o.user \in User
  BY DEF Op, Operation, Renew, None

LEMMA Applying ==
  ASSUME TypeOK, NEW o \in Op \cup {Renew}, NEW t \in Token, Apply(o, t)
  PROVE  /\ stored' \in [User -> Cred \cup {NotFound}]
         /\ left' \in [Token -> 0..Lease]
<1>1. stored' \in [User -> Cred \cup {NotFound}]
  BY Values DEF Apply, TypeOK
<1>2. left' \in [Token -> 0..Lease]
  BY Constants DEF Apply, TypeOK
<1> QED
  BY <1>1, <1>2

\* A call that ends, and a process that goes on to another exchange.
LEMMA Finishing ==
  ASSUME IInv, NEW p \in Proc, NEW value \in Cred \cup {NotFound, Failed, "ok"},
         Finish(p, value)
  PROVE  /\ pc' \in [Proc -> Waiting \cup {"idle", "retry"}]
         /\ op' \in [Proc -> Op \cup {None, Renew}]
         /\ tok' \in [Proc -> Token \cup {NotFound}]
         /\ age' \in [Proc -> 0..CallTime]
         /\ answer' \in [Caller -> Cred \cup {NotFound, Failed, "ok"}]
         /\ ProcsInv'
  BY DEF Finish, Send, Move, IInv, TypeOK, ProcsInv, Proc

LEMMA Sending ==
  ASSUME IInv, NEW p \in Proc, NEW stage \in Waiting \cup {"retry"},
         NEW t \in Token \cup {NotFound}, Send(p, stage, t), UNCHANGED op,
         stage \in {"sent", "resent", "issued"} => t \in Token,
         p = Renewer => stage \notin {"retry", "resent"},
         pc[p] # "idle"
  PROVE  /\ pc' \in [Proc -> Waiting \cup {"idle", "retry"}]
         /\ tok' \in [Proc -> Token \cup {NotFound}]
         /\ age' \in [Proc -> 0..CallTime]
         /\ ProcsInv'
  BY DEF Send, Move, IInv, TypeOK, ProcsInv, Proc, Waiting

LEMMA IInvStep == IInv /\ [Next]_vars => IInv'
<1> SUFFICES ASSUME IInv, [Next]_vars PROVE IInv'
  OBVIOUS
<1> USE DEF ticker, procs
<1>1. ASSUME NEW p \in Caller, NEW o \in Op, Call(p, o) PROVE IInv'
  BY <1>1 DEF Call, Begin, Send, Move, IInv, TypeOK, ProcsInv, Proc, Waiting
<1>2. CASE StartRenewal
  <2>1. /\ pc' = [pc EXCEPT ![Renewer] = "sent"]
        /\ op' = [op EXCEPT ![Renewer] = Renew]
        /\ tok' = [tok EXCEPT ![Renewer] = client]
        /\ age' = [age EXCEPT ![Renewer] = 0]
    BY <1>2 DEF StartRenewal, Begin, Send, Move
  <2>2. UNCHANGED <<stored, left, up, client, late, due, answer>>
    BY <1>2 DEF StartRenewal, Begin
  <2>3. ticked' \in BOOLEAN
    BY <1>2 DEF StartRenewal
  <2>4. Renewer \in Proc /\ client \in Token
    BY DEF Proc, IInv, TypeOK
  <2>5. /\ pc' \in [Proc -> Waiting \cup {"idle", "retry"}]
        /\ op' \in [Proc -> Op \cup {None, Renew}]
        /\ tok' \in [Proc -> Token \cup {NotFound}]
        /\ age' \in [Proc -> 0..CallTime]
    BY <2>1, <2>4 DEF IInv, TypeOK, Waiting
  <2>6. ProcsInv'
    BY <2>1, <2>4 DEF IInv, TypeOK, ProcsInv, Proc
  <2> QED
    BY <2>2, <2>3, <2>4, <2>5, <2>6 DEF IInv, TypeOK
<1>3. ASSUME NEW p \in Proc, Answer(p) PROVE IInv'
  <2>1. /\ op[p] \in Op \cup {Renew} /\ tok[p] \in Token
        /\ UNCHANGED <<up, client, due, ticked, late>>
        /\ Apply(op[p], tok[p])
    BY <1>3 DEF Answer, IInv, ProcsInv, Proc
  <2>2. (IF op[p].kind = "read" THEN stored[op[p].user] ELSE "ok")
           \in Cred \cup {NotFound, Failed, "ok"}
    BY <2>1, Values DEF IInv, TypeOK
  <2>3. Finish(p, IF op[p].kind = "read" THEN stored[op[p].user] ELSE "ok")
    BY <1>3 DEF Answer
  <2>4. /\ stored' \in [User -> Cred \cup {NotFound}]
        /\ left' \in [Token -> 0..Lease]
    BY <2>1, Applying DEF IInv
  <2> QED
    BY <2>1, <2>2, <2>3, <2>4, Finishing DEF IInv, TypeOK
<1>4. ASSUME NEW p \in Proc, Deny(p) PROVE IInv'
  <2>1. UNCHANGED <<stored, left, up, client, due, ticked, late>>
    BY <1>4 DEF Deny
  <2>2. CASE Send(p, "login", NotFound) /\ UNCHANGED <<op, answer>>
    BY <1>4, <2>1, <2>2, Sending DEF Deny, Waiting, IInv, TypeOK
  <2>3. CASE Finish(p, Failure(p))
    BY <2>1, <2>3, Finishing DEF Failure, IInv, TypeOK
  <2> QED
    BY <1>4, <2>2, <2>3 DEF Deny
<1>5. ASSUME NEW p \in Proc, NEW t \in Token, Issue(p, t) PROVE IInv'
  BY <1>5, Constants DEF Issue, Move, IInv, TypeOK, ProcsInv, Proc, Waiting
<1>6. ASSUME NEW p \in Proc, SetToken(p) PROVE IInv'
  <2>1. client' \in Token /\ UNCHANGED <<stored, left, up, due, ticked, late>>
    BY <1>6 DEF SetToken, Installed, IInv, ProcsInv
  <2>2. CASE Finish(p, "ok")
    BY <2>1, <2>2, Finishing DEF IInv, TypeOK
  <2>3. CASE p \in Caller /\ Send(p, "retry", NotFound) /\ UNCHANGED <<op, answer>>
    BY <1>6, <2>1, <2>3, Sending DEF SetToken, Proc, Waiting, IInv, TypeOK
  <2> QED
    BY <1>6, <2>2, <2>3 DEF SetToken
<1>7. ASSUME NEW p \in Proc, Retry(p) PROVE IInv'
  <2>1. p # Renewer /\ client \in Token
    BY <1>7 DEF Retry, IInv, ProcsInv, TypeOK
  <2> QED
    BY <1>7, <2>1, Sending DEF Retry, Waiting, IInv, TypeOK
<1>8. ASSUME NEW p \in Proc, GiveUp(p) PROVE IInv'
  <2>1. UNCHANGED <<stored, left, up, client, due, ticked, late>>
    BY <1>8 DEF GiveUp
  <2>2. CASE Send(p, "login", NotFound) /\ UNCHANGED <<op, answer>>
    BY <1>8, <2>1, <2>2, Sending DEF GiveUp, Waiting, IInv, TypeOK
  <2>3. CASE Finish(p, Failure(p))
    BY <2>1, <2>3, Finishing DEF Failure, IInv, TypeOK
  <2> QED
    BY <1>8, <2>2, <2>3 DEF GiveUp
<1>9. ASSUME NEW p \in Proc, Detach(p) PROVE IInv'
  <2>1. [op |-> op[p], tok |-> tok[p]] \in [op : Op \cup {Renew}, tok : Token]
    BY <1>9 DEF Detach, IInv, ProcsInv, Proc
  <2> QED
    BY <1>9, <2>1 DEF Detach, IInv, TypeOK, ProcsInv
<1>10. ASSUME NEW m \in late, Arrive(m) PROVE IInv'
  <2>1. m.op \in Op \cup {Renew} /\ m.tok \in Token
    BY DEF IInv, TypeOK
  <2>2. /\ stored' \in [User -> Cred \cup {NotFound}]
        /\ left' \in [Token -> 0..Lease]
    BY <1>10, <2>1, Applying DEF Arrive, IInv, TypeOK
  <2> QED
    BY <1>10, <2>2 DEF Arrive, IInv, TypeOK, ProcsInv
<1>11. CASE GoDown
  <2>1. left' \in [Token -> 0..Lease]
    BY <1>11, Constants DEF GoDown, IInv, TypeOK
  <2> QED
    BY <1>11, <2>1 DEF GoDown, IInv, TypeOK, ProcsInv
<1>12. CASE ComeUp
  BY <1>12 DEF ComeUp, IInv, TypeOK, ProcsInv
<1>13. CASE Elapse
  <2>1. left' \in [Token -> 0..Lease]
    BY <1>13, Constants DEF Elapse, IInv, TypeOK
  <2>2. age' \in [Proc -> 0..CallTime]
    BY <1>13 DEF Elapse, IInv, TypeOK
  <2>3. due' \in 1..Interval /\ ticked' \in BOOLEAN
    BY <1>13, Constants DEF Elapse, IInv, TypeOK
  <2> QED
    BY <1>13, <2>1, <2>2, <2>3 DEF Elapse, IInv, TypeOK, ProcsInv
<1>14. CASE UNCHANGED vars
  BY <1>14 DEF vars, IInv, TypeOK, ProcsInv
<1> QED
  BY <1>1, <1>2, <1>3, <1>4, <1>5, <1>6, <1>7, <1>8, <1>9, <1>10, <1>11, <1>12,
     <1>13, <1>14 DEF Next, Exchange

\* A login that returned no token never becomes the client's, and nothing a
\* call does leaves the bounds of a lease or of an exchange
\* (credential_store.go:79-124).
THEOREM TypeCorrect == Spec => []TypeOK
<1>1. IInv => TypeOK
  BY DEF IInv
<1> QED
  BY <1>1, InitIInv, IInvStep, PTL DEF Spec

-----------------------------------------------------------------------------
(* The refinement: the ledger's calls are the running calls of the callers, *)
(* its stray writes the requests of callers that nobody waits for.          *)

LEMMA InitSimulation == Init => Ledger!Init
  BY DEF Init, Ledger!Init, Running, Strays, Proc

\* The running calls when one caller moves on inside its call, and when the
\* renewal goroutine moves.
LEMMA RunningOn ==
  ASSUME IInv, NEW p \in Proc, NEW stage \in Waiting \cup {"retry"},
         pc' = [pc EXCEPT ![p] = stage], UNCHANGED op, pc[p] # "idle"
  PROVE  UNCHANGED Running
<1>1. ASSUME NEW q \in Caller PROVE (pc'[q] = "idle") <=> (pc[q] = "idle")
  BY DEF IInv, TypeOK, Proc, Waiting
<1> QED
  BY <1>1 DEF Running

LEMMA RenewerRuns ==
  ASSUME IInv, NEW stage, NEW o, pc' = [pc EXCEPT ![Renewer] = stage],
         op' = [op EXCEPT ![Renewer] = o] \/ UNCHANGED op
  PROVE  UNCHANGED Running
<1>1. ASSUME NEW q \in Caller PROVE pc'[q] = pc[q] /\ op'[q] = op[q]
  BY DEF IInv, TypeOK, Proc
<1> QED
  BY <1>1 DEF Running

\* A call that ends.
LEMMA Ending ==
  ASSUME IInv, NEW p \in Caller, NEW value, pc[p] # "idle",
         Finish(p, value), UNCHANGED late
  PROVE  Ledger!End(p, value) /\ Running[p] = op[p]
<1>1. p \in Proc /\ op[p] \in Op /\ Running[p] = op[p]
  BY DEF IInv, ProcsInv, Proc, Running
<1>2. Running[p] # NotFound
  BY <1>1
<1>3. Running' = [Running EXCEPT ![p] = NotFound]
  <2>1. /\ pc' = [pc EXCEPT ![p] = "idle"]
        /\ op' = [op EXCEPT ![p] = None]
    BY DEF Finish, Send, Move
  <2>2. ASSUME NEW q \in Caller
        PROVE  Running'[q] = IF q = p THEN NotFound ELSE Running[q]
    BY <2>1, <1>1 DEF IInv, TypeOK, Proc, Running
  <2> QED
    BY <2>2 DEF Running
<1>4. UNCHANGED Strays
  BY DEF Strays
<1> QED
  BY <1>1, <1>2, <1>3, <1>4 DEF Ledger!End, Finish

\* The end of the renewal's exchange is none of the ledger's.
LEMMA RenewerEnds ==
  ASSUME IInv, NEW value, Finish(Renewer, value), UNCHANGED <<late, stored>>
  PROVE  UNCHANGED <<stored, Running, Strays, answer>>
<1>1. UNCHANGED Running
  BY RenewerRuns DEF Finish, Send, Move
<1>2. UNCHANGED <<Strays, answer>>
  BY DEF Finish, Strays
<1> QED
  BY <1>1, <1>2

LEMMA StepSimulation == IInv /\ [Next]_vars => [Ledger!Next]_(Ledger!vars)
<1> SUFFICES ASSUME IInv, [Next]_vars
             PROVE  Ledger!Next \/ UNCHANGED <<stored, Running, Strays, answer>>
  BY DEF Ledger!vars
<1> USE DEF ticker, procs
<1>1. ASSUME NEW p \in Caller, NEW o \in Op, Call(p, o) PROVE Ledger!Begin(p, o)
  <2>1. /\ pc[p] = "idle" /\ p \in Proc
        /\ pc' = [pc EXCEPT ![p] = "sent"]
        /\ op' = [op EXCEPT ![p] = o]
    BY <1>1 DEF Call, Begin, Send, Move, Proc
  <2>2. ASSUME NEW q \in Caller
        PROVE  Running'[q] = IF q = p THEN o ELSE Running[q]
    BY <2>1 DEF IInv, TypeOK, Proc, Running
  <2>3. Running' = [Running EXCEPT ![p] = o] /\ Running[p] = NotFound
    BY <2>1, <2>2 DEF Running
  <2>4. UNCHANGED Strays
    BY <1>1 DEF Call, Begin, Strays
  <2> QED
    BY <1>1, <2>3, <2>4 DEF Ledger!Begin, Call, Begin
<1>2. CASE StartRenewal
  <2>1. UNCHANGED Running
    BY <1>2, RenewerRuns DEF StartRenewal, Begin, Send, Move
  <2> QED
    BY <1>2, <2>1 DEF StartRenewal, Begin, Strays
<1>3. ASSUME NEW p \in Proc, Answer(p)
      PROVE  \/ p \in Caller /\ Ledger!Succeed(p)
             \/ UNCHANGED <<stored, Running, Strays, answer>>
  <2>1. /\ pc[p] # "idle" /\ UNCHANGED late
        /\ Finish(p, IF op[p].kind = "read" THEN stored[op[p].user] ELSE "ok")
        /\ Apply(op[p], tok[p])
    BY <1>3 DEF Answer
  <2>2. CASE p \in Caller
    <3>1. Running[p] = op[p] /\ Ledger!End(p, Ledger!Value(op[p]))
      BY <2>1, <2>2, Ending DEF Ledger!Value
    <3>2. stored' = Ledger!After(op[p])
      BY <2>1 DEF Apply, Ledger!After
    <3> QED
      BY <2>2, <3>1, <3>2 DEF Ledger!Succeed
  <2>3. CASE p = Renewer
    <3>1. op[p].kind = "renew"
      BY <2>1, <2>3 DEF IInv, ProcsInv, Renew, None
    <3>2. UNCHANGED stored
      BY <2>1, <3>1 DEF Apply
    <3> QED
      BY <2>1, <2>3, <3>2, RenewerEnds
  <2> QED
    BY <2>2, <2>3 DEF Proc
<1>4. ASSUME NEW p \in Proc, pc[p] # "idle", UNCHANGED <<stored, late>>,
             \/ Finish(p, Failed)
             \/ Send(p, "login", NotFound) /\ UNCHANGED <<op, answer>>
      PROVE  \/ p \in Caller /\ Ledger!Fail(p)
             \/ UNCHANGED <<stored, Running, Strays, answer>>
  <2>1. CASE Finish(p, Failed) /\ p \in Caller
    BY <1>4, <2>1, Ending DEF Ledger!Fail
  <2>2. CASE Finish(p, Failed) /\ p = Renewer
    BY <1>4, <2>2, RenewerEnds
  <2>3. CASE Send(p, "login", NotFound) /\ UNCHANGED <<op, answer>>
    <3>1. UNCHANGED Running
      BY <1>4, <2>3, RunningOn DEF Send, Move, Waiting
    <3> QED
      BY <1>4, <2>3, <3>1 DEF Strays
  <2> QED
    BY <1>4, <2>1, <2>2, <2>3 DEF Proc
<1>5. ASSUME NEW p \in Proc, Deny(p)
      PROVE  \/ p \in Caller /\ Ledger!Fail(p)
             \/ UNCHANGED <<stored, Running, Strays, answer>>
  BY <1>5, <1>4 DEF Deny, Failure
<1>6. ASSUME NEW p \in Proc, GiveUp(p)
      PROVE  \/ p \in Caller /\ Ledger!Fail(p)
             \/ UNCHANGED <<stored, Running, Strays, answer>>
  BY <1>6, <1>4 DEF GiveUp, Failure, Waiting
<1>7. ASSUME NEW p \in Proc, NEW t \in Token, Issue(p, t)
      PROVE  UNCHANGED <<stored, Running, Strays, answer>>
  <2>1. UNCHANGED Running
    BY <1>7, RunningOn DEF Issue, Move, Waiting
  <2> QED
    BY <1>7, <2>1 DEF Issue, Strays
<1>8. ASSUME NEW p \in Proc, SetToken(p)
      PROVE  UNCHANGED <<stored, Running, Strays, answer>>
  <2>1. pc[p] # "idle" /\ UNCHANGED <<stored, late>>
    BY <1>8 DEF SetToken
  <2>2. CASE p = Renewer /\ Finish(p, "ok")
    BY <2>1, <2>2, RenewerEnds
  <2>3. CASE Send(p, "retry", NotFound) /\ UNCHANGED <<op, answer>>
    <3>1. UNCHANGED Running
      BY <2>1, <2>3, RunningOn DEF Send, Move
    <3> QED
      BY <2>1, <2>3, <3>1 DEF Strays
  <2> QED
    BY <1>8, <2>2, <2>3 DEF SetToken
<1>9. ASSUME NEW p \in Proc, Retry(p)
      PROVE  UNCHANGED <<stored, Running, Strays, answer>>
  <2>1. UNCHANGED Running
    BY <1>9, RunningOn DEF Retry, Send, Move, Waiting
  <2> QED
    BY <1>9, <2>1 DEF Retry, Strays
<1>10. ASSUME NEW p \in Proc, Detach(p)
       PROVE  \/ p \in Caller /\ Ledger!Detach(p)
              \/ UNCHANGED <<stored, Running, Strays, answer>>
  <2>1. /\ pc[p] # "idle"
        /\ late' = late \cup {[op |-> op[p], tok |-> tok[p]]}
        /\ UNCHANGED <<stored, pc, op, answer>>
    BY <1>10 DEF Detach
  <2>2. UNCHANGED Running
    BY <2>1 DEF Running
  <2>3. CASE p \in Caller
    <3>1. op[p] \in Op /\ Running[p] = op[p] /\ op[p] # Renew
      BY <2>1, <2>3, Constants DEF IInv, ProcsInv, Running
    <3>2. Strays' = Strays \cup {op[p]}
      <4> DEFINE added == [op |-> op[p], tok |-> tok[p]]
      <4>1. added.op = op[p] /\ late' = late \cup {added}
        BY <2>1
      <4> HIDE DEF added
      <4>2. {x \in late' : x.op # Renew} = {x \in late : x.op # Renew} \cup {added}
        BY <4>1, <3>1
      <4>3. Strays' = {x.op : x \in {y \in late : y.op # Renew} \cup {added}}
        BY <4>2 DEF Strays
      <4> QED
        BY <4>1, <4>3 DEF Strays
    <3> QED
      BY <2>1, <2>2, <2>3, <3>1, <3>2 DEF Ledger!Detach
  <2>4. CASE p = Renewer
    <3>1. op[p] = Renew
      BY <2>1, <2>4 DEF IInv, ProcsInv
    <3>2. Strays' = Strays
      BY <2>1, <3>1 DEF Strays
    <3> QED
      BY <2>1, <2>2, <3>2
  <2> QED
    BY <2>3, <2>4 DEF Proc
<1>11. ASSUME NEW m \in late, Arrive(m)
       PROVE  \/ \E o \in Strays : Ledger!Arrive(o)
              \/ UNCHANGED <<stored, Running, Strays, answer>>
  <2>1. /\ late' = late \ {m} /\ UNCHANGED <<pc, op, answer>>
        /\ Apply(m.op, m.tok) \/ UNCHANGED stored
    BY <1>11 DEF Arrive
  <2>2. UNCHANGED Running
    BY <2>1 DEF Running
  <2>3. CASE m.op = Renew
    <3>1. UNCHANGED stored
      BY <2>1, <2>3 DEF Apply, Renew, None
    <3>2. UNCHANGED Strays
      BY <2>1, <2>3 DEF Strays
    <3> QED
      BY <2>1, <2>2, <3>1, <3>2
  <2>4. CASE m.op # Renew
    <3>1. m.op \in Strays
      BY <2>4 DEF Strays
    <3>2. Strays' \in {Strays, Strays \ {m.op}}
      BY <2>1, <2>4 DEF Strays
    <3>3. stored' \in {stored, Ledger!After(m.op)}
      BY <2>1 DEF Apply, Ledger!After
    <3>4. Ledger!Arrive(m.op)
      BY <2>1, <2>2, <3>2, <3>3 DEF Ledger!Arrive
    <3> QED
      BY <3>1, <3>4
  <2> QED
    BY <2>3, <2>4
<1>12. CASE GoDown \/ ComeUp \/ Elapse \/ UNCHANGED vars
  BY <1>12 DEF GoDown, ComeUp, Elapse, vars, Running, Strays
<1> QED
  BY <1>1, <1>2, <1>3, <1>5, <1>6, <1>7, <1>8, <1>9, <1>10, <1>11, <1>12
  DEF Next, Exchange, Ledger!Next

\* Whatever refusals, logins, lost answers and second attempts a call goes
\* through, VaultStore is a CredentialLedger: success is only told of a request
\* that took effect at the end of the call, and Vault never holds what nobody
\* asked for (credential_store.go:126-217).
THEOREM Refinement == Spec => ImplementsLedger
<1> QED
  BY InitSimulation, StepSimulation, InitIInv, IInvStep, PTL
  DEF Spec, ImplementsLedger, Ledger!Spec
-----------------------------------------------------------------------------
(* A retry is never refused, given that a lease outlasts the two exchanges  *)
(* that lie between the moment Vault issues a token and the end of a retry. *)

LeaseOutlastsRetry == Eternal \/ TTL > 2 * CallTime

\* A token that was issued no longer than some time ago, or renewed since.
Fresh(t, time) == IF Eternal THEN left[t] > 0 ELSE left[t] + time >= Lease

\* At "retry" the client's token is one that some process installed at this
\* very instant, whichever process it was.
FreshTokens ==
    \A p \in Proc :
        /\ pc[p] = "issued" => Fresh(tok[p], age[p])
        /\ pc[p] = "retry"  => Fresh(client, CallTime)
        /\ pc[p] = "resent" => Fresh(tok[p], CallTime + age[p])

RInv == IInv /\ FreshTokens

\* A step that moves one process and takes nothing from a lease.
LEMMA OthersStayFresh ==
  ASSUME IInv, IInv', FreshTokens, NEW p \in Proc,
         \A t \in Token : left'[t] >= left[t],
         \A q \in Proc \ {p} : pc'[q] = pc[q] /\ tok'[q] = tok[q] /\ age'[q] = age[q],
         client' = client \/ Fresh(client, CallTime)',
         pc'[p] = "issued" => Fresh(tok[p], age[p])',
         pc'[p] = "retry"  => Fresh(client, CallTime)',
         pc'[p] = "resent" => Fresh(tok[p], CallTime + age[p])'
  PROVE  FreshTokens'
<1>1. client \in Token /\ client' \in Token
      /\ left \in [Token -> 0..Lease] /\ left' \in [Token -> 0..Lease]
      /\ age \in [Proc -> 0..CallTime] /\ Lease \in Nat
  BY Constants DEF IInv, TypeOK
<1>2. ASSUME NEW t \in Token, NEW time \in Nat, Fresh(t, time)
      PROVE  IF Eternal THEN left'[t] > 0 ELSE left'[t] + time >= Lease
  <2>1. left[t] \in Nat /\ left'[t] \in Nat /\ left'[t] >= left[t]
    BY <1>1
  <2> QED
    BY <1>1, <1>2, <2>1 DEF Fresh
<1>3. ASSUME NEW q \in Proc \ {p}
      PROVE  /\ pc'[q] = "issued" => Fresh(tok[q], age[q])'
             /\ pc'[q] = "retry"  => Fresh(client, CallTime)'
             /\ pc'[q] = "resent" => Fresh(tok[q], CallTime + age[q])'
  <2>1. /\ pc'[q] = pc[q] /\ tok'[q] = tok[q] /\ age'[q] = age[q]
        /\ age[q] \in Nat /\ CallTime + age[q] \in Nat /\ CallTime \in Nat
    BY <1>1
  <2>2. pc[q] \in {"issued", "resent"} => tok[q] \in Token
    BY DEF IInv, ProcsInv
  <2>3. CASE pc[q] = "issued"
    BY <2>1, <2>2, <2>3, <1>2 DEF FreshTokens, Fresh
  <2>4. CASE pc[q] = "retry"
    <3>1. CASE client' = client
      BY <2>1, <2>4, <3>1, <1>1, <1>2 DEF FreshTokens, Fresh
    <3> QED
      BY <2>1, <2>4, <3>1
  <2>5. CASE pc[q] = "resent"
    BY <2>1, <2>2, <2>5, <1>2 DEF FreshTokens, Fresh
  <2> QED
    BY <2>1, <2>3, <2>4, <2>5
<1> QED
  BY <1>3 DEF FreshTokens

LEMMA FreshStep == LeaseOutlastsRetry /\ RInv /\ [Next]_vars => FreshTokens'
<1> SUFFICES ASSUME LeaseOutlastsRetry, IInv, FreshTokens, [Next]_vars
             PROVE  FreshTokens'
  BY DEF RInv
<1> USE DEF ticker, procs
<1>1. IInv'
  BY IInvStep
<1>2. /\ left \in [Token -> 0..Lease] /\ age \in [Proc -> 0..CallTime]
      /\ pc \in [Proc -> Waiting \cup {"idle", "retry"}]
      /\ tok \in [Proc -> Token \cup {NotFound}]
      /\ client \in Token /\ Lease \in Nat /\ CallTime \in Nat
  BY Constants DEF IInv, TypeOK
\* A process that moves on with its leases as they are.
<1>3. ASSUME NEW p \in Proc, NEW stage \in {"sent", "idle", "login"}, NEW t,
             Send(p, stage, t), UNCHANGED <<left, client>>
      PROVE  FreshTokens'
  <2>1. /\ pc'[p] = stage
        /\ \A q \in Proc \ {p} : pc'[q] = pc[q] /\ tok'[q] = tok[q] /\ age'[q] = age[q]
    BY <1>2, <1>3 DEF Send, Move
  <2>2. \A x \in Token : left'[x] >= left[x]
    BY <1>2, <1>3
  <2> QED
    BY <1>1, <1>3, <2>1, <2>2, OthersStayFresh
\* A process whose call ends, perhaps after a renewed lease.
<1>4. ASSUME NEW p \in Proc, NEW value, Finish(p, value), UNCHANGED client,
             \A x \in Token : left'[x] >= left[x]
      PROVE  FreshTokens'
  <2>1. /\ pc'[p] = "idle"
        /\ \A q \in Proc \ {p} : pc'[q] = pc[q] /\ tok'[q] = tok[q] /\ age'[q] = age[q]
    BY <1>2, <1>4 DEF Finish, Send, Move
  <2> QED
    BY <1>1, <1>4, <2>1, OthersStayFresh
<1>5. ASSUME NEW o, NEW t \in Token, Apply(o, t)
      PROVE  \A x \in Token : left'[x] >= left[x]
  BY <1>2, <1>5 DEF Apply
<1>6. ASSUME NEW p \in Caller, NEW o \in Op, Call(p, o) PROVE FreshTokens'
  BY <1>3, <1>6 DEF Call, Begin, Proc
<1>7. CASE StartRenewal
  BY <1>3, <1>7 DEF StartRenewal, Begin, Proc
<1>8. ASSUME NEW p \in Proc, Answer(p) PROVE FreshTokens'
  <2>1. tok[p] \in Token /\ Apply(op[p], tok[p]) /\ UNCHANGED client
    BY <1>8 DEF Answer, IInv, ProcsInv
  <2> QED
    BY <1>8, <2>1, <1>4, <1>5 DEF Answer
<1>9. ASSUME NEW p \in Proc, Deny(p) \/ GiveUp(p) PROVE FreshTokens'
  <2>1. UNCHANGED <<left, client>>
    BY <1>9 DEF Deny, GiveUp
  <2>2. \A x \in Token : left'[x] >= left[x]
    BY <1>2, <2>1
  <2>3. CASE Send(p, "login", NotFound)
    BY <1>3, <2>1, <2>3
  <2>4. CASE Finish(p, Failure(p))
    BY <1>4, <2>1, <2>2, <2>4
  <2> QED
    BY <1>9, <2>3, <2>4 DEF Deny, GiveUp
<1>10. ASSUME NEW p \in Proc, NEW t \in Token, Issue(p, t) PROVE FreshTokens'
  <2>1. /\ pc'[p] = "issued" /\ tok'[p] = t /\ left'[t] = Lease
        /\ age' = age /\ client' = client
        /\ \A q \in Proc \ {p} : pc'[q] = pc[q] /\ tok'[q] = tok[q] /\ age'[q] = age[q]
    BY <1>2, <1>10 DEF Issue, Move
  <2>2. \A x \in Token : left'[x] >= left[x]
    BY <1>2, <1>10 DEF Issue
  <2>3. Fresh(tok[p], age[p])'
    <3>1. age[p] \in Nat /\ (Eternal => Lease = 1)
      BY <1>2 DEF Lease
    <3> QED
      BY <1>2, <2>1, <3>1 DEF Fresh
  <2> QED
    BY <1>1, <2>1, <2>2, <2>3, OthersStayFresh
<1>11. ASSUME NEW p \in Proc, SetToken(p) PROVE FreshTokens'
  <2>1. /\ client' = tok[p] /\ left' = left /\ tok[p] \in Token
        /\ Fresh(tok[p], age[p]) /\ age[p] \in 0..CallTime
        /\ pc'[p] \in {"idle", "retry"}
        /\ \A q \in Proc \ {p} : pc'[q] = pc[q] /\ tok'[q] = tok[q] /\ age'[q] = age[q]
    BY <1>2, <1>11 DEF SetToken, Installed, Finish, Send, Move, FreshTokens, IInv,
       ProcsInv
  <2>2. Fresh(client, CallTime)'
    <3>1. left[tok[p]] \in Nat
      BY <1>2, <2>1
    <3> QED
      BY <1>2, <2>1, <3>1 DEF Fresh
  <2>3. \A x \in Token : left'[x] >= left[x]
    BY <1>2, <2>1
  <2> QED
    BY <1>1, <2>1, <2>2, <2>3, OthersStayFresh
<1>12. ASSUME NEW p \in Proc, Retry(p) PROVE FreshTokens'
  <2>1. /\ pc'[p] = "resent" /\ tok'[p] = client /\ age'[p] = 0
        /\ UNCHANGED <<left, client>> /\ Fresh(client, CallTime)
        /\ \A q \in Proc \ {p} : pc'[q] = pc[q] /\ tok'[q] = tok[q] /\ age'[q] = age[q]
    BY <1>2, <1>12 DEF Retry, Send, Move, FreshTokens
  <2>2. Fresh(tok[p], CallTime + age[p])'
    BY <1>2, <2>1 DEF Fresh
  <2>3. \A x \in Token : left'[x] >= left[x]
    BY <1>2, <2>1
  <2> QED
    BY <1>1, <2>1, <2>2, <2>3, OthersStayFresh
<1>13. ASSUME UNCHANGED <<client, pc, tok, age>>, \A x \in Token : left'[x] >= left[x]
       PROVE  FreshTokens'
  <2>1. Renewer \in Proc
    BY DEF Proc
  <2>2. /\ left'[client] \in Nat /\ left[client] \in Nat
        /\ left'[client] >= left[client]
        /\ tok[Renewer] \in Token => /\ left'[tok[Renewer]] \in Nat
                                     /\ left[tok[Renewer]] \in Nat
                                     /\ left'[tok[Renewer]] >= left[tok[Renewer]]
    BY <1>1, <1>2, <1>13 DEF IInv, TypeOK
  <2>3. /\ pc[Renewer] # "retry" /\ pc[Renewer] # "resent" /\ age[Renewer] \in Nat
        /\ pc[Renewer] = "issued" => tok[Renewer] \in Token
                                     /\ Fresh(tok[Renewer], age[Renewer])
    BY <1>2, <2>1 DEF IInv, ProcsInv, FreshTokens
  <2>4. pc'[Renewer] = "issued" => Fresh(tok[Renewer], age[Renewer])'
    BY <1>2, <1>13, <2>2, <2>3 DEF Fresh
  <2> QED
    BY <1>1, <1>13, <2>1, <2>3, <2>4, OthersStayFresh
<1>14. ASSUME NEW p \in Proc, Detach(p) PROVE FreshTokens'
  BY <1>2, <1>13, <1>14 DEF Detach
<1>15. ASSUME NEW m \in late, Arrive(m) PROVE FreshTokens'
  <2>1. m.tok \in Token
    BY DEF IInv, TypeOK
  <2>2. \A x \in Token : left'[x] >= left[x]
    BY <1>2, <1>5, <1>15, <2>1 DEF Arrive
  <2> QED
    BY <1>13, <1>15, <2>2 DEF Arrive
<1>16. CASE GoDown \/ ComeUp \/ UNCHANGED vars
  BY <1>2, <1>13, <1>16 DEF GoDown, ComeUp, vars
\* Time passes: a lease and an exchange grow old together, and an exchange
\* that is over with its time is not allowed to wait for more.
<1>17. CASE Elapse
  <2> SUFFICES ASSUME NEW p \in Proc
               PROVE  /\ pc'[p] = "issued" => Fresh(tok[p], age[p])'
                      /\ pc'[p] = "retry"  => Fresh(client, CallTime)'
                      /\ pc'[p] = "resent" => Fresh(tok[p], CallTime + age[p])'
    BY DEF FreshTokens
  <2>1. /\ UNCHANGED <<pc, tok, client>> /\ pc[p] # "retry"
        /\ pc[p] \in Waiting => age[p] < CallTime /\ age'[p] = age[p] + 1
        /\ age[p] \in Nat
    BY <1>2, <1>17 DEF Elapse
  <2>2. CASE pc[p] \in {"issued", "resent"}
    <3>1. pc[p] \in Waiting /\ tok[p] \in Token /\ tok[p] \in Held
      BY <2>2 DEF Waiting, IInv, ProcsInv, Held
    <3>2. left[tok[p]] \in Nat
          /\ left'[tok[p]] = IF Eternal THEN left[tok[p]]
                             ELSE IF left[tok[p]] = 0 THEN 0 ELSE left[tok[p]] - 1
      BY <1>2, <1>17, <3>1 DEF Elapse
    <3>3. CASE Eternal
      BY <2>1, <2>2, <3>2, <3>3 DEF FreshTokens, Fresh
    <3>4. CASE ~Eternal
      <4>1. Lease = TTL /\ Lease > 2 * CallTime
        BY <3>4 DEF Lease, LeaseOutlastsRetry
      <4>2. left[tok[p]] + CallTime + age[p] >= Lease
            /\ (pc[p] = "issued" => left[tok[p]] + age[p] >= Lease)
        BY <1>2, <2>1, <2>2, <3>2, <3>4 DEF FreshTokens, Fresh
      <4>3. left[tok[p]] # 0
        BY <1>2, <2>1, <3>1, <4>1, <4>2
      <4> QED
        BY <1>2, <2>1, <2>2, <3>1, <3>2, <3>4, <4>2, <4>3 DEF Fresh
    <3> QED
      BY <3>3, <3>4
  <2> QED
    BY <2>1, <2>2
<1> QED
  BY <1>6, <1>7, <1>8, <1>9, <1>10, <1>11, <1>12, <1>14, <1>15, <1>16, <1>17
  DEF Next, Exchange

\* When a lease outlasts two exchanges, the second attempt of a call always
\* carries a token that Vault accepts, although another process may have put
\* an older one in its place meanwhile (credential_store.go:84-98, 131-133,
\* 208-217).
THEOREM RetriesAreAccepted ==
  ASSUME LeaseOutlastsRetry
  PROVE  Spec => []RetryIsAccepted
<1>1. Init => RInv
  <2>1. Init => FreshTokens
    BY DEF Init, FreshTokens
  <2> QED
    BY <2>1, InitIInv DEF RInv
<1>2. RInv /\ [Next]_vars => RInv'
  BY FreshStep, IInvStep DEF RInv
<1>3. RInv => RetryIsAccepted
  <2> SUFFICES ASSUME RInv, NEW p \in Proc, pc[p] = "resent"
               PROVE  left[tok[p]] > 0
    BY DEF RetryIsAccepted
  <2>1. /\ tok[p] \in Token /\ left[tok[p]] \in Nat
        /\ age[p] \in 0..CallTime /\ Fresh(tok[p], CallTime + age[p])
    BY DEF RInv, IInv, TypeOK, ProcsInv, FreshTokens
  <2>2. ~Eternal => Lease > 2 * CallTime
    BY DEF LeaseOutlastsRetry, Lease
  <2>3. CASE Eternal
    BY <2>1, <2>3 DEF Fresh
  <2>4. CASE ~Eternal
    BY <2>1, <2>2, <2>4, Constants DEF Fresh
  <2> QED
    BY <2>3, <2>4
<1> QED
  BY <1>1, <1>2, <1>3, PTL DEF Spec
=============================================================================
