--------------------------- MODULE RedisStoreProofs ---------------------------
(***************************************************************************)
(* RedisStore keeps its types and implements SessionLedger, for every      *)
(* choice of the constants.  The inductive invariant says whose a copy of  *)
(* a session is wherever it lies, and that a key outlives the deadline of  *)
(* its session: the TTL a save starts is counted from a later moment than  *)
(* the deadline.                                                           *)
(***************************************************************************)
EXTENDS RedisStore, TLAPS

USE TTLAssumption, NotFoundAssumption, FailedAssumption

Own(id, v) ==
    /\ v \in Session
    /\ v.user = holder[id] /\ v.exp = deadline[id] /\ holder[id] # NotFound

HasRead(c) == got[c].op = "session" /\ got[c].val \in Session

Answers == [op : {"none", "session", "csrf", "state"},
            key : Sid \cup State \cup {NotFound},
            val : Session \cup Token \cup State \cup {NotFound, Failed}]

ReadsOK ==
    /\ got \in [Caller -> Answers]
    /\ \A c \in Caller : HasRead(c) =>
          got[c].key \in Sid /\ Own(got[c].key, got[c].val)

KeysInv ==
    /\ \A id \in Sid : deadline[id] <= now + SessionTTL
    /\ \A id \in Sid : sess[id] # NotFound =>
          Own(id, sess[id].val) /\ sess[id].ttl >= deadline[id]
    /\ \A id \in Sid : csrf[id] # NotFound =>
          holder[id] # NotFound /\ csrf[id].ttl >= deadline[id]
    /\ \A s \in State : oidc[s] # NotFound =>
          oidc[s].val = s /\ s \in stored /\ s \notin spent

CallsInv ==
    /\ \A c \in Caller : at[c] = "creating" =>
          arg[c] \in Sid /\ Own(arg[c], fresh[c])
    /\ \A c \in Caller : at[c] = "dropping" =>
          arg[c] \in Sid /\ holder[arg[c]] # NotFound /\ now > deadline[arg[c]]
    /\ ReadsOK

IInv == TypeOK /\ KeysInv /\ CallsInv

LEMMA InitIInv == Init => IInv
  BY DEF Init, KeysInit, IInv, TypeOK, KeysTypeOK, KeysInv, CallsInv, ReadsOK, HasRead,
         Answer, Answers

\* What an answer does to the callers' reads.
LEMMA Replying ==
  ASSUME IInv, NEW c \in Caller, NEW op, NEW key, NEW val,
         Answer(op, key, val) \in Answers, Reply(c, op, key, val),
         UNCHANGED <<holder, deadline>>,
         op = "session" /\ val \in Session => key \in Sid /\ Own(key, val)
  PROVE  ReadsOK'
  BY DEF IInv, CallsInv, ReadsOK, Reply, Answer, HasRead, Own

LEMMA IInvStep == IInv /\ [Next]_vars => IInv'
<1> SUFFICES ASSUME IInv, [Next]_vars PROVE IInv'
  OBVIOUS
<1> USE DEF IInv, TypeOK, KeysTypeOK, KeysInv, CallsInv, ReadsOK, Own, HasRead, keys,
            callVars, history
<1>1. ASSUME NEW c \in Caller, NEW id \in Sid, NEW u \in User,
             CreateStamp(c, id, u)
      PROVE  IInv'
  <2>1. /\ \A x \in Sid : sess[x] # NotFound => x # id
        /\ \A x \in Sid : csrf[x] # NotFound => x # id
        /\ \A x \in Caller : at[x] \in {"creating", "dropping"} => arg[x] # id
        /\ \A x \in Caller : HasRead(x) => got[x].key # id
    BY <1>1 DEF CreateStamp
  <2>2. NewSession(u) \in Session /\ NewSession(u).exp = now + SessionTTL
        /\ NewSession(u).user = u
    BY DEF NewSession, Session
  <2> QED
    BY <1>1, <2>1, <2>2 DEF CreateStamp
<1>2. ASSUME NEW c \in Caller, CreateSave(c) PROVE IInv'
  <2>1. sess' = sess \/ SetSession(arg[c], fresh[c])
    BY <1>2 DEF CreateSave
  <2> QED
    BY SMTT(40), <1>2, <2>1 DEF CreateSave, SetSession, Return, SessionKey, Session
<1>3. ASSUME NEW c \in Caller, NEW linked \in BOOLEAN, SaveSession(c, linked)
      PROVE  IInv'
  <2> DEFINE v == [got[c].val EXCEPT !.linked = linked]
  <2>1. Own(got[c].key, v) /\ got[c].key \in Sid
    BY <1>3 DEF SaveSession, Session
  <2> QED
    BY <1>3, <2>1 DEF SaveSession, SetSession, SessionKey, Session
<1>4. ASSUME NEW c \in Caller, NEW id \in Sid, GetSession(c, id) PROVE IInv'
  <2> DEFINE v == StoredSession(id)
  <2>1. v # NotFound => v = sess[id].val /\ sess[id] # NotFound /\ Own(id, v)
    BY DEF StoredSession, ValueOf
  <2>2. CASE /\ v # NotFound /\ Expired(v)
             /\ at' = [at EXCEPT ![c] = "dropping"]
             /\ arg' = [arg EXCEPT ![c] = id]
             /\ UNCHANGED got
    BY <1>4, <2>1, <2>2 DEF GetSession, Expired
  <2>3. ASSUME NEW w \in {v, Failed}, Reply(c, "session", id, w),
               UNCHANGED <<at, arg>>
        PROVE  IInv'
    <3>1. Answer("session", id, w) \in Answers
      BY <2>1 DEF Answer, Answers
    <3>2. w \in Session => Own(id, w)
      BY <2>1
    <3>3. UNCHANGED <<now, keys, at, arg, fresh, history>>
      BY <1>4, <2>3 DEF GetSession
    <3> HIDE DEF v
    <3>4. ReadsOK'
      BY <2>3, <3>1, <3>2, <3>3, Replying
    <3> QED
      BY <3>3, <3>4
  <2> QED
    BY <1>4, <2>2, <2>3 DEF GetSession
<1>5. ASSUME NEW c \in Caller, GetSessionDrop(c) PROVE IInv'
  <2>1. /\ Answer("session", arg[c], NotFound) \in Answers
        /\ Reply(c, "session", arg[c], NotFound)
        /\ UNCHANGED <<now, oidc, holder, deadline, known, stored, spent>>
    BY <1>5 DEF GetSessionDrop, Answer, Answers
  <2>2. ReadsOK'
    BY <2>1, Replying
  <2>3. (sess' = sess /\ csrf' = csrf) \/ DelSession(arg[c])
    BY <1>5 DEF GetSessionDrop
  <2> QED
    BY SMTT(30), <1>5, <2>1, <2>2, <2>3 DEF GetSessionDrop, DelSession, Return, Reply
<1>6. ASSUME NEW c \in Caller, NEW id \in Sid, DeleteSession(c, id) PROVE IInv'
  BY <1>6 DEF DeleteSession, DelSession
<1>7. ASSUME NEW c \in Caller, NEW t \in Token, SetCSRF(c, t) PROVE IInv'
  <2>1. csrf' = csrf \/ SetToken(got[c].key, t)
    BY <1>7 DEF SetCSRF
  <2> QED
    BY <1>7, <2>1 DEF SetCSRF, SetToken, TokenKey
<1>8. ASSUME NEW c \in Caller, NEW id \in Sid, GetCSRF(c, id) PROVE IInv'
  <2>1. PICK v \in {StoredToken(id), Failed} : Reply(c, "csrf", id, v)
    BY <1>8 DEF GetCSRF
  <2>2. Answer("csrf", id, v) \in Answers
    BY DEF StoredToken, ValueOf, TokenKey, Answer, Answers
  <2>3. UNCHANGED <<now, keys, callVars, history>>
    BY <1>8 DEF GetCSRF
  <2>4. ReadsOK'
    BY <2>1, <2>2, <2>3, Replying
  <2> QED
    BY <2>1, <2>3, <2>4 DEF Reply
<1>9. ASSUME NEW c \in Caller, NEW s \in State, TakeOIDCState(c, s) PROVE IInv'
  <2> DEFINE v == StoredState(s)
  <2>1. v # NotFound => v = s /\ oidc[s] # NotFound /\ s \in stored
    BY DEF StoredState, ValueOf
  <2>2. PICK w \in {v, Failed} : Reply(c, "state", s, w)
    BY <1>9 DEF TakeOIDCState
  <2>3. Answer("state", s, w) \in Answers
    BY <2>1 DEF Answer, Answers
  <2>4. UNCHANGED <<now, sess, csrf, callVars, known, holder, deadline, stored>>
    BY <1>9 DEF TakeOIDCState
  <2>5. ReadsOK'
    BY <2>2, <2>3, <2>4, Replying
  <2>6. \/ /\ oidc' = [oidc EXCEPT ![s] = NotFound]
           /\ spent' = IF v = NotFound THEN spent ELSE spent \cup {s}
        \/ UNCHANGED <<oidc, spent>>
    BY <1>9 DEF TakeOIDCState, GetDelState
  <2>7. /\ oidc' \in [State -> StateKey \cup {NotFound}]
        /\ spent' \subseteq stored
        /\ \A x \in State : oidc'[x] # NotFound =>
              oidc'[x].val = x /\ x \in stored /\ x \notin spent'
    BY <2>1, <2>6
  <2> QED
    BY <2>2, <2>4, <2>5, <2>7 DEF Reply
<1>12. ASSUME NEW c \in Caller, NEW s \in State, StoreOIDCState(c, s)
       PROVE  IInv'
  <2>1. s \notin spent
    BY <1>12 DEF StoreOIDCState
  <2> QED
    BY <1>12, <2>1 DEF StoreOIDCState, SetState, StateKey
<1>10. CASE Tick
  <2>1. now' = now + 1 /\ UNCHANGED <<callVars, history, got>>
    BY <1>10 DEF Tick, ClockTick
  <2>2. /\ \A id \in Sid : sess'[id] \in {sess[id], NotFound}
        /\ \A id \in Sid : csrf'[id] \in {csrf[id], NotFound}
        /\ \A s \in State : oidc'[s] \in {oidc[s], NotFound}
    BY <1>10 DEF Tick, ClockTick, Swept
  <2>3. /\ sess' \in [Sid -> SessionKey \cup {NotFound}]
        /\ csrf' \in [Sid -> TokenKey \cup {NotFound}]
        /\ oidc' \in [State -> StateKey \cup {NotFound}]
    BY <1>10 DEF Tick, ClockTick, Swept
  <2> QED
    BY <2>1, <2>2, <2>3
<1>11. CASE UNCHANGED vars
  BY <1>11 DEF vars
<1> HIDE DEF IInv, vars
<1> QED
  BY <1>1, <1>2, <1>3, <1>4, <1>5, <1>6, <1>7, <1>8, <1>9, <1>10, <1>11, <1>12
     DEF Next, Step

\* The records in Redis and in the hands of the callers keep their types
\* (store.go:17-166).
THEOREM TypeCorrect == Spec => []TypeOK
<1>1. IInv => TypeOK
  BY DEF IInv
<1> QED
  BY <1>1, InitIInv, IInvStep, PTL DEF Spec

-----------------------------------------------------------------------------
(* Refinement. *)

ledgerVars == <<now, <<holder, deadline, Live, LiveToken, Pending, spent>>, got>>

LEMMA InitSimulation == Init => Ledger!Init
  BY DEF Init, KeysInit, Ledger!Init, Live, LiveToken, Pending, LiveSession,
         StoredSession, StoredToken,
         StoredState, ValueOf, Answer, Ledger!Answer, Opened

\* The ledger's view of one session.
LEMMA Seen ==
  ASSUME IInv, NEW id \in Sid
  PROVE  /\ Live[id] = IF sess[id] = NotFound \/ now > deadline[id]
                       THEN NotFound ELSE sess[id].val.linked
         /\ LiveToken[id] = IF csrf[id] = NotFound \/ now > deadline[id]
                            THEN NotFound ELSE csrf[id].val
  BY DEF IInv, TypeOK, KeysTypeOK, KeysInv, Own, Session, SessionKey, TokenKey,
         Live, LiveToken, LiveSession, StoredSession, StoredToken, ValueOf,
         Expired, Opened

LEMMA SeenNext ==
  ASSUME IInv', NEW id \in Sid
  PROVE  /\ Live'[id] = IF sess'[id] = NotFound \/ now' > deadline'[id]
                        THEN NotFound ELSE sess'[id].val.linked
         /\ LiveToken'[id] = IF csrf'[id] = NotFound \/ now' > deadline'[id]
                             THEN NotFound ELSE csrf'[id].val
  BY DEF IInv, TypeOK, KeysTypeOK, KeysInv, Own, Session, SessionKey, TokenKey,
         Live, LiveToken, LiveSession, StoredSession, StoredToken, ValueOf,
         Expired, Opened

LEMMA Waiting ==
  ASSUME IInv PROVE Pending = {s \in State : oidc[s] # NotFound}
  BY DEF IInv, TypeOK, KeysTypeOK, StateKey, Pending, StoredState, ValueOf

\* A step that leaves these alone shows nothing of the keys.
LEMMA Unseen ==
  ASSUME UNCHANGED <<now, sess, csrf, oidc, holder, deadline>>
  PROVE  UNCHANGED <<Live, LiveToken, Pending>>
  BY DEF Live, LiveToken, Pending, LiveSession, StoredSession, StoredToken,
         StoredState, ValueOf, Expired, Opened

\* A session written back, linked or not.
LEMMA Writing ==
  ASSUME IInv, IInv', NEW id \in Sid, NEW v, Own(id, v), SetSession(id, v),
         UNCHANGED <<now, csrf, oidc, holder, deadline, spent, got>>
  PROVE  Ledger!Write(id, v.linked) \/ UNCHANGED ledgerVars
<1>1. UNCHANGED <<LiveToken, Pending>>
  BY DEF LiveToken, Pending, StoredToken, StoredState, ValueOf, Opened
<1>2. ASSUME NEW x \in Sid
      PROVE  Live'[x] = IF x = id /\ ~(now > deadline[id]) THEN v.linked
                        ELSE Live[x]
  <2>1. sess'[x] = IF x = id THEN [val |-> v, ttl |-> now + SessionTTL]
                             ELSE sess[x]
    BY DEF SetSession, IInv, TypeOK, KeysTypeOK
  <2>2. [val |-> v, ttl |-> now + SessionTTL] # NotFound
    BY DEF Own, SessionKey, IInv, TypeOK, KeysTypeOK
  <2>3. Live'[x] = IF sess'[x] = NotFound \/ now' > deadline'[x]
                   THEN NotFound ELSE sess'[x].val.linked
    BY SeenNext
  <2> QED
    BY <2>1, <2>2, <2>3, Seen
<1>3. CASE now > deadline[id]
  <2>1. \A x \in Sid : Live'[x] = Live[x]
    BY <1>2, <1>3
  <2>2. UNCHANGED Live
    BY <2>1 DEF Live
  <2> QED
    BY <1>1, <2>2 DEF ledgerVars
<1>4. CASE ~(now > deadline[id])
  <2>1. \A x \in Sid : Live'[x] = IF x = id THEN v.linked ELSE Live[x]
    BY <1>2, <1>4
  <2>2. Live' = [Live EXCEPT ![id] = v.linked]
    BY <2>1 DEF Live
  <2> QED
    BY <1>1, <1>4, <2>2 DEF Own, Ledger!Write, Ledger!Past
<1> QED
  BY <1>3, <1>4

\* A session deleted, with its token.
LEMMA Removing ==
  ASSUME IInv, IInv', NEW id \in Sid, DelSession(id),
         UNCHANGED <<now, oidc, holder, deadline, spent>>
  PROVE  /\ Live' = [Live EXCEPT ![id] = NotFound]
         /\ LiveToken' = [LiveToken EXCEPT ![id] = NotFound]
         /\ Pending' = Pending
<1>1. ASSUME NEW x \in Sid
      PROVE  /\ Live'[x] = IF x = id THEN NotFound ELSE Live[x]
             /\ LiveToken'[x] = IF x = id THEN NotFound ELSE LiveToken[x]
  <2>1. /\ sess'[x] = IF x = id THEN NotFound ELSE sess[x]
        /\ csrf'[x] = IF x = id THEN NotFound ELSE csrf[x]
    BY DEF DelSession, IInv, TypeOK, KeysTypeOK
  <2>2. /\ Live'[x] = IF sess'[x] = NotFound \/ now' > deadline'[x]
                      THEN NotFound ELSE sess'[x].val.linked
        /\ LiveToken'[x] = IF csrf'[x] = NotFound \/ now' > deadline'[x]
                           THEN NotFound ELSE csrf'[x].val
    BY SeenNext
  <2> QED
    BY <2>1, <2>2, Seen
<1>2. Pending' = Pending
  BY DEF Pending, StoredState, ValueOf
<1> QED
  BY <1>1, <1>2 DEF Live, LiveToken

\* Every step of the store is a step of the ledger or leaves it alone.
LEMMA StepSimulation ==
  IInv /\ IInv' /\ [Next]_vars => [Ledger!Next]_ledgerVars
<1> SUFFICES ASSUME IInv, IInv', [Next]_vars PROVE [Ledger!Next]_ledgerVars
  OBVIOUS
<1> USE DEF keys, callVars, history, ledgerVars, Ledger!entries, Answer, Reply,
            Ledger!Answer, Ledger!Reply
<1>1. ASSUME NEW c \in Caller, NEW id \in Sid, NEW u \in User,
             CreateStamp(c, id, u)
      PROVE  Ledger!Open(id, u)
  <2>1. ASSUME NEW x \in Sid
        PROVE  Live'[x] = Live[x] /\ LiveToken'[x] = LiveToken[x]
    <3>1. sess[id] = NotFound /\ csrf[id] = NotFound
      BY <1>1 DEF CreateStamp, IInv, KeysInv, Own
    <3> QED
      BY <1>1, <3>1, Seen, SeenNext
         DEF CreateStamp, IInv, TypeOK, KeysTypeOK
  <2>2. UNCHANGED <<Live, LiveToken, Pending>>
    BY <1>1, <2>1 DEF CreateStamp, Live, LiveToken, Pending, StoredState, ValueOf
  <2> QED
    BY <1>1, <2>2 DEF CreateStamp, NewSession, Ledger!Open
<1>2. ASSUME NEW c \in Caller, CreateSave(c) PROVE [Ledger!Next]_ledgerVars
  <2>1. /\ arg[c] \in Sid /\ Own(arg[c], fresh[c])
        /\ fresh[c].linked \in BOOLEAN
    BY <1>2 DEF CreateSave, IInv, CallsInv, Own, Session
  <2>2. UNCHANGED <<now, csrf, oidc, holder, deadline, spent, got>>
    BY <1>2 DEF CreateSave
  <2>3. CASE SetSession(arg[c], fresh[c])
    BY <2>1, <2>2, <2>3, Writing DEF Ledger!Next
  <2>4. CASE UNCHANGED sess
    BY <2>2, <2>4, Unseen
  <2> QED
    BY <1>2, <2>3, <2>4 DEF CreateSave
<1>3. ASSUME NEW c \in Caller, NEW linked \in BOOLEAN, SaveSession(c, linked)
      PROVE  [Ledger!Next]_ledgerVars
  <2> DEFINE v == [got[c].val EXCEPT !.linked = linked]
  <2>1. got[c].key \in Sid /\ Own(got[c].key, v) /\ v.linked = linked
    BY <1>3 DEF SaveSession, IInv, CallsInv, ReadsOK, HasRead, Own, Session
  <2>2. UNCHANGED <<now, csrf, oidc, holder, deadline, spent, got>>
    BY <1>3 DEF SaveSession
  <2>3. SetSession(got[c].key, v) \/ UNCHANGED sess
    BY <1>3 DEF SaveSession
  <2> HIDE DEF v
  <2>4. CASE SetSession(got[c].key, v)
    BY <2>1, <2>2, <2>4, Writing DEF Ledger!Next
  <2>5. CASE UNCHANGED sess
    BY <2>2, <2>5, Unseen
  <2> QED
    BY <2>3, <2>4, <2>5
<1>4. ASSUME NEW c \in Caller, NEW id \in Sid, GetSession(c, id)
      PROVE  [Ledger!Next]_ledgerVars
  <2> DEFINE v == StoredSession(id)
  <2>1. UNCHANGED <<now, Live, LiveToken, Pending, holder, deadline, spent>>
    BY <1>4, Unseen DEF GetSession
  <2>2. CASE UNCHANGED got
    BY <2>1, <2>2
  <2>3. CASE Reply(c, "session", id, Failed)
    BY <2>1, <2>3 DEF Ledger!Next, Ledger!ReadSession
  <2>4. CASE (v # NotFound => ~Expired(v)) /\ Reply(c, "session", id, v)
    <3>1. v = Ledger!Record(id)
      <4>1. CASE sess[id] = NotFound
        <5>1. v = NotFound /\ Live[id] = NotFound
          BY <4>1, Seen DEF StoredSession, ValueOf
        <5> QED
          BY <5>1 DEF Ledger!Record
      <4>2. CASE sess[id] # NotFound
        <5>1. v = sess[id].val /\ Own(id, v) /\ v # NotFound
          BY <4>2 DEF StoredSession, ValueOf, IInv, KeysInv, Own
        <5>2. Live[id] = v.linked /\ Live[id] # NotFound
          <6>1. ~(now > deadline[id])
            BY <2>4, <5>1 DEF Expired, Own
          <6>2. Live[id] = v.linked
            BY <4>2, <5>1, <6>1, Seen
          <6>3. v.linked \in BOOLEAN
            BY <5>1 DEF Own, Session
          <6> QED
            BY <6>2, <6>3
        <5> HIDE DEF v
        <5>3. v = [user |-> holder[id], exp |-> deadline[id],
                   linked |-> Live[id]]
          BY <5>1, <5>2 DEF Own, Session
        <5> QED
          BY <5>2, <5>3 DEF Ledger!Record
      <4> QED
        BY <4>1, <4>2
    <3> HIDE DEF v
    <3>2. Ledger!ReadSession(c, id)
      BY <2>1, <2>4, <3>1 DEF Ledger!ReadSession
    <3> QED
      BY <3>2 DEF Ledger!Next
  <2> QED
    BY <1>4, <2>2, <2>3, <2>4 DEF GetSession
<1>5. ASSUME NEW c \in Caller, GetSessionDrop(c) PROVE [Ledger!Next]_ledgerVars
  <2> DEFINE id == arg[c]
  <2>1. id \in Sid /\ now > deadline[id]
    BY <1>5 DEF GetSessionDrop, IInv, CallsInv
  <2>2. Live[id] = NotFound /\ LiveToken[id] = NotFound
    BY <2>1, Seen
  <2>3. UNCHANGED <<now, oidc, holder, deadline, spent>>
    BY <1>5 DEF GetSessionDrop
  <2>4. UNCHANGED <<Live, LiveToken, Pending>>
    <3>1. CASE DelSession(id)
      <4>1. /\ Live' = [Live EXCEPT ![id] = NotFound]
            /\ LiveToken' = [LiveToken EXCEPT ![id] = NotFound]
            /\ Pending' = Pending
        BY <2>1, <2>3, <3>1, Removing
      <4> QED
        BY <2>2, <4>1 DEF Live, LiveToken
    <3>2. CASE UNCHANGED <<sess, csrf>>
      BY <2>3, <3>2, Unseen
    <3> QED
      BY <1>5, <3>1, <3>2 DEF GetSessionDrop
  <2>5. Reply(c, "session", id, NotFound)
    BY <1>5 DEF GetSessionDrop
  <2>6. Ledger!ReadSession(c, id)
    BY <2>2, <2>3, <2>4, <2>5 DEF Ledger!ReadSession, Ledger!Record
  <2> QED
    BY <2>1, <2>6 DEF Ledger!Next
<1>6. ASSUME NEW c \in Caller, NEW id \in Sid, DeleteSession(c, id)
      PROVE  [Ledger!Next]_ledgerVars
  <2>1. UNCHANGED <<now, oidc, holder, deadline, spent, got>>
    BY <1>6 DEF DeleteSession
  <2>2. CASE DelSession(id)
    <3>1. /\ Live' = [Live EXCEPT ![id] = NotFound]
          /\ LiveToken' = [LiveToken EXCEPT ![id] = NotFound]
          /\ Pending' = Pending
      BY <2>1, <2>2, Removing
    <3>2. Ledger!Delete(id)
      BY <2>1, <3>1 DEF Ledger!Delete
    <3> QED
      BY <3>2 DEF Ledger!Next
  <2>3. CASE UNCHANGED <<sess, csrf>>
    BY <2>1, <2>3, Unseen
  <2> QED
    BY <1>6, <2>2, <2>3 DEF DeleteSession
<1>7. ASSUME NEW c \in Caller, NEW t \in Token, SetCSRF(c, t)
      PROVE  [Ledger!Next]_ledgerVars
  <2> DEFINE id == got[c].key
  <2>1. id \in Sid /\ holder[id] # NotFound
    BY <1>7 DEF SetCSRF, IInv, CallsInv, ReadsOK, HasRead, Own
  <2>2. UNCHANGED <<now, sess, oidc, holder, deadline, spent, got>>
    BY <1>7 DEF SetCSRF
  <2>3. CASE UNCHANGED csrf
    BY <2>2, <2>3, Unseen
  <2>4. CASE SetToken(id, t)
    <3>1. UNCHANGED <<Live, Pending>>
      BY <2>2 DEF Live, Pending, LiveSession, StoredSession, StoredState,
                  ValueOf, Expired
    <3>2. ASSUME NEW x \in Sid
          PROVE  LiveToken'[x] = IF x = id /\ ~(now > deadline[id]) THEN t
                                 ELSE LiveToken[x]
      <4>1. /\ csrf'[x] = IF x = id THEN [val |-> t, ttl |-> now + SessionTTL]
                                    ELSE csrf[x]
            /\ [val |-> t, ttl |-> now + SessionTTL] # NotFound
        BY <2>4 DEF SetToken, IInv, TypeOK, KeysTypeOK, TokenKey
      <4> QED
        BY <2>2, <4>1, Seen, SeenNext
    <3>3. CASE now > deadline[id]
      <4>1. \A x \in Sid : LiveToken'[x] = LiveToken[x]
        BY <3>2, <3>3
      <4>2. UNCHANGED LiveToken
        BY <4>1 DEF LiveToken
      <4> QED
        BY <2>2, <3>1, <4>2
    <3>4. CASE ~(now > deadline[id])
      <4>1. \A x \in Sid : LiveToken'[x] = IF x = id THEN t ELSE LiveToken[x]
        BY <3>2, <3>4
      <4>2. LiveToken' = [LiveToken EXCEPT ![id] = t]
        BY <4>1 DEF LiveToken
      <4>3. Ledger!WriteToken(id, t)
        BY <2>1, <2>2, <3>1, <3>4, <4>2 DEF Ledger!WriteToken, Ledger!Past
      <4> QED
        BY <2>1, <4>3 DEF Ledger!Next
    <3> QED
      BY <3>3, <3>4
  <2> QED
    BY <1>7, <2>3, <2>4 DEF SetCSRF
<1>8. ASSUME NEW c \in Caller, NEW id \in Sid, GetCSRF(c, id)
      PROVE  Ledger!ReadToken(c, id)
  <2>1. PICK v \in {StoredToken(id), Failed} : Reply(c, "csrf", id, v)
    BY <1>8 DEF GetCSRF
  <2>2. UNCHANGED <<now, Live, LiveToken, Pending, holder, deadline, spent>>
    BY <1>8, Unseen DEF GetCSRF
  <2>3. v \in Token \cup {NotFound, Failed}
    BY DEF IInv, TypeOK, KeysTypeOK, TokenKey, StoredToken, ValueOf
  <2>4. v \in Token \cup {NotFound} /\ ~(now > deadline[id])
          => v = LiveToken[id]
    BY Seen DEF StoredToken, ValueOf
  <2> QED
    BY <2>1, <2>2, <2>3, <2>4 DEF Ledger!ReadToken, Ledger!Past
<1>9. ASSUME NEW c \in Caller, NEW s \in State, StoreOIDCState(c, s)
      PROVE  [Ledger!Next]_ledgerVars
  <2>1. UNCHANGED <<now, sess, csrf, holder, deadline, spent, got>>
    BY <1>9 DEF StoreOIDCState
  <2>2. CASE UNCHANGED oidc
    BY <2>1, <2>2, Unseen
  <2>3. CASE SetState(s)
    <3>1. UNCHANGED <<Live, LiveToken>>
      BY <2>1 DEF Live, LiveToken, LiveSession, StoredSession, StoredToken,
                  ValueOf, Expired, Opened
    <3>2. Pending' = Pending \cup {s}
      BY <2>3 DEF SetState, Pending, StoredState, ValueOf, StateKey, IInv,
                  TypeOK, KeysTypeOK
    <3>3. s \notin Pending \cup spent
      BY <1>9, Waiting DEF StoreOIDCState, IInv, KeysInv, TypeOK
    <3>4. Ledger!Keep(s)
      BY <2>1, <3>1, <3>2, <3>3 DEF Ledger!Keep
    <3> QED
      BY <3>4 DEF Ledger!Next
  <2> QED
    BY <1>9, <2>2, <2>3 DEF StoreOIDCState
<1>10. ASSUME NEW c \in Caller, NEW s \in State, TakeOIDCState(c, s)
       PROVE  Ledger!Take(c, s) \/ Ledger!TakeNothing(c, s)
  <2> DEFINE v == StoredState(s)
  <2>1. UNCHANGED <<now, sess, csrf, holder, deadline>>
    BY <1>10 DEF TakeOIDCState
  <2>2. UNCHANGED <<Live, LiveToken>>
    BY <2>1 DEF Live, LiveToken, LiveSession, StoredSession, StoredToken,
                ValueOf, Expired, Opened
  <2>3. /\ v # NotFound => v = s /\ s \in Pending
        /\ v = NotFound => s \notin Pending /\ oidc[s] = NotFound
    BY DEF IInv, TypeOK, KeysTypeOK, KeysInv, Pending, StoredState, ValueOf,
           StateKey
  <2>4. CASE GetDelState(s) /\ v # NotFound
    <3>1. Pending' = Pending \ {s}
      BY <2>4 DEF GetDelState, Pending, StoredState, ValueOf, IInv, TypeOK,
                  KeysTypeOK
    <3>2. /\ spent' = spent \cup {s}
          /\ \E w \in {s, Failed} : Reply(c, "state", s, w)
      BY <1>10, <2>3, <2>4 DEF TakeOIDCState, GetDelState, IInv, TypeOK,
                               KeysTypeOK, StoredState, ValueOf
    <3> QED
      BY <2>1, <2>2, <2>3, <2>4, <3>1, <3>2 DEF Ledger!Take
  <2>5. CASE GetDelState(s) /\ v = NotFound
    <3>1. UNCHANGED oidc
      BY <2>3, <2>5 DEF GetDelState, IInv, TypeOK, KeysTypeOK
    <3>2. UNCHANGED Pending
      BY <3>1 DEF Pending, StoredState, ValueOf
    <3>3. /\ spent' = spent
          /\ \E w \in {NotFound, Failed} : Reply(c, "state", s, w)
      BY <1>10, <2>5 DEF TakeOIDCState
    <3> QED
      BY <2>1, <2>2, <2>3, <2>5, <3>2, <3>3 DEF Ledger!TakeNothing
  <2>6. CASE UNCHANGED <<oidc, spent>> /\ Reply(c, "state", s, Failed)
    <3>1. UNCHANGED Pending
      BY <2>6 DEF Pending, StoredState, ValueOf
    <3> QED
      BY <2>1, <2>2, <2>6, <3>1 DEF Ledger!TakeNothing
  <2> QED
    BY <1>10, <2>4, <2>5, <2>6 DEF TakeOIDCState
<1>11. ASSUME Tick PROVE Ledger!Tick
  <2>1. /\ now' = now + 1
        /\ UNCHANGED <<holder, deadline, spent, got>>
    BY <1>11 DEF Tick, ClockTick
  <2>2. ASSUME NEW x \in Sid
        PROVE  /\ Live'[x] = IF now' > deadline[x] THEN NotFound ELSE Live[x]
               /\ LiveToken'[x] = IF now' > deadline[x] THEN NotFound
                                                        ELSE LiveToken[x]
    <3>1. ~(now' > deadline[x]) => sess'[x] = sess[x] /\ csrf'[x] = csrf[x]
      BY <1>11 DEF Tick, ClockTick, Swept, IInv, TypeOK, KeysTypeOK, KeysInv,
                   SessionKey, TokenKey
    <3>2. ~(now' > deadline[x]) => ~(now > deadline[x])
      BY <2>1 DEF IInv, TypeOK, KeysTypeOK
    <3> QED
      BY <2>1, <3>1, <3>2, Seen, SeenNext
  <2>3. /\ Live' = [x \in Sid |-> IF now' > deadline[x] THEN NotFound
                                                        ELSE Live[x]]
        /\ LiveToken' = [x \in Sid |-> IF now' > deadline[x] THEN NotFound
                                                    ELSE LiveToken[x]]
    BY <2>2 DEF Live, LiveToken
  <2>4. Pending' \in SUBSET Pending
    BY <1>11 DEF Tick, ClockTick, Swept, Pending, StoredState, ValueOf
  <2> QED
    BY <2>1, <2>3, <2>4 DEF Ledger!Tick
<1>12. ASSUME UNCHANGED vars PROVE UNCHANGED ledgerVars
  BY <1>12, Unseen DEF vars
<1>13. CASE Tick
  BY <1>11, <1>13 DEF Ledger!Next
<1>14. ASSUME NEW c \in Caller, Step(c) PROVE [Ledger!Next]_ledgerVars
  BY <1>1, <1>2, <1>3, <1>4, <1>5, <1>6, <1>7, <1>8, <1>9, <1>10, <1>14
     DEF Step, Ledger!Next
<1> QED
  BY <1>12, <1>13, <1>14 DEF Next

\* The sliding TTLs, the late deletion of an expired session and lost answers
\* never show: whatever a handler sees of Redis, the ledger allows
\* (store.go:72-166).
THEOREM Refinement == Spec => ImplementsLedger
<1>1. Init => Ledger!Init
  BY InitSimulation
<1>2. IInv /\ IInv' /\ [Next]_vars => [Ledger!Next]_ledgerVars
  BY StepSimulation
<1>3. Spec => []IInv
  BY InitIInv, IInvStep, PTL DEF Spec
<1> QED
  BY <1>1, <1>2, <1>3, PTL
     DEF Spec, ImplementsLedger, Ledger!Spec, ledgerVars, Ledger!entries
=============================================================================
