--------------------------- MODULE MemoryStoreProofs ---------------------------
(***************************************************************************)
(* MemoryStore keeps its types and the owner of every copy of a session,   *)
(* and implements SessionLedger, for every choice of the constants.        *)
(***************************************************************************)
EXTENDS MemoryStore, TLAPS

USE ConstantsAssumption

LEMMA InitTypeOK == Init => TypeOK
  BY DEF Init, TypeOK, Answer, Answers, Idle, HasRead

LEMMA TypeOKStep == TypeOK /\ [Next]_vars => TypeOK'
<1> SUFFICES ASSUME TypeOK, [Next]_vars PROVE TypeOK'
  OBVIOUS
<1> USE DEF TypeOK, Idle, HasRead, OwnSession, Answer, Reply, maps, history
<1>1. ASSUME NEW c \in Caller, NEW id \in Sid, NEW u \in User,
             CreateStamp(c, id, u)
      PROVE  TypeOK'
  <2>1. [user |-> u, exp |-> now + SessionTTL, linked |-> FALSE] \in Session
    BY DEF Session
  <2>2. /\ \A x \in Sid : sessions[x] # NotFound => x # id
        /\ \A x \in Caller : fresh[x] # NotFound => fresh[x].id # id
        /\ \A x \in Caller : HasRead(x) => got[x].key # id
    BY <1>1 DEF CreateStamp
  <2> QED
    BY <1>1, <2>1, <2>2 DEF CreateStamp, Session
<1>2. ASSUME NEW c \in Caller, CreateSave(c) PROVE TypeOK'
  BY <1>2 DEF CreateSave
<1>3. ASSUME NEW c \in Caller, NEW linked \in BOOLEAN, SaveSession(c, linked)
      PROVE  TypeOK'
  <2>1. OwnSession(got[c].key, Saved(c, linked))
    BY <1>3 DEF SaveSession, Saved, Session
  <2> QED
    BY <1>3, <2>1 DEF SaveSession
<1>4. ASSUME NEW c \in Caller, NEW id \in Sid, GetSession(c, id) PROVE TypeOK'
  <2>1. CASE sessions[id] = NotFound \/ Expired(sessions[id])
    <3>1. [op |-> "session", key |-> id, val |-> NotFound] \in Answers
      BY DEF Answers
    <3>2. /\ got' = [got EXCEPT ![c] =
                       [op |-> "session", key |-> id, val |-> NotFound]]
          /\ sessions' = [sessions EXCEPT ![id] = NotFound]
          /\ UNCHANGED <<now, csrf, states, fresh, known, holder, deadline,
                         stored, spent>>
      BY <1>4, <2>1 DEF GetSession
    <3> QED
      BY <3>1, <3>2
  <2>2. CASE ~(sessions[id] = NotFound \/ Expired(sessions[id]))
    <3>1. OwnSession(id, sessions[id]) /\ sessions[id] \in Session
      BY <2>2
    <3>2. [op |-> "session", key |-> id, val |-> sessions[id]] \in Answers
      BY <3>1 DEF Answers
    <3>3. /\ got' = [got EXCEPT ![c] =
                       [op |-> "session", key |-> id, val |-> sessions[id]]]
          /\ UNCHANGED <<now, sessions, csrf, states, fresh, known, holder,
                         deadline, stored, spent>>
      BY <1>4, <2>2 DEF GetSession
    <3> QED
      BY <3>1, <3>2, <3>3
  <2> QED
    BY <2>1, <2>2
<1>5. ASSUME NEW c \in Caller, NEW id \in Sid, DeleteSession(c, id)
      PROVE  TypeOK'
  BY <1>5 DEF DeleteSession
<1>6. ASSUME NEW c \in Caller, NEW t \in Token, SetCSRF(c, t) PROVE TypeOK'
  BY <1>6 DEF SetCSRF
<1>7. ASSUME NEW c \in Caller, NEW id \in Sid, GetCSRF(c, id) PROVE TypeOK'
  <2>1. [op |-> "csrf", key |-> id, val |-> csrf[id]] \in Answers
    BY DEF Answers
  <2> QED
    BY <1>7, <2>1 DEF GetCSRF
<1>8. ASSUME NEW c \in Caller, NEW s \in State, StoreOIDCState(c, s)
      PROVE  TypeOK'
  BY <1>8 DEF StoreOIDCState
<1>9. ASSUME NEW c \in Caller, NEW s \in State, TakeOIDCState(c, s)
      PROVE  TypeOK'
  <2> DEFINE v == IF s \in states THEN s ELSE NotFound
  <2>1. got' = [got EXCEPT ![c] = [op |-> "state", key |-> s, val |-> v]]
    BY <1>9 DEF TakeOIDCState
  <2>2. /\ states' = states \ {s} /\ spent' \subseteq stored
        /\ states' \cap spent' = {}
    BY <1>9 DEF TakeOIDCState
  <2>3. UNCHANGED <<now, sessions, csrf, fresh, known, holder, deadline, stored>>
    BY <1>9 DEF TakeOIDCState
  <2>4. [op |-> "state", key |-> s, val |-> v] \in Answers
    BY DEF Answers
  <2>5. \A x \in Caller : HasRead(x)' => HasRead(x) /\ got'[x] = got[x]
    BY <2>1
  <2> QED
    BY <2>1, <2>2, <2>3, <2>4, <2>5
<1>10. CASE Tick
  BY <1>10 DEF Tick
<1>11. CASE UNCHANGED vars
  BY <1>11 DEF vars
<1> HIDE DEF TypeOK
<1> QED
  BY <1>1, <1>2, <1>3, <1>4, <1>5, <1>6, <1>7, <1>8, <1>9, <1>10, <1>11
     DEF Next, Step

\* No copy of a session, stored, about to be stored or held by a caller, ever
\* belongs to another user or dies at another instant than the session it was
\* created as (memory.go:30-60).
THEOREM TypeCorrect == Spec => []TypeOK
  BY InitTypeOK, TypeOKStep, PTL DEF Spec

-----------------------------------------------------------------------------
(* Refinement. *)

LEMMA InitSimulation == Init => Ledger!Init
  BY DEF Init, Ledger!Init, Live, LiveToken, Answer, Ledger!Answer, Opened

ledgerVars == <<now, <<holder, deadline, Live, LiveToken, states, spent>>, got>>

\* Every step of the store is a step of the ledger or leaves it alone.
LEMMA StepSimulation ==
  TypeOK /\ [Next]_vars => [Ledger!Next]_ledgerVars
<1> SUFFICES ASSUME TypeOK, [Next]_vars PROVE [Ledger!Next]_ledgerVars
  OBVIOUS
<1> USE DEF Idle, HasRead, Answer, Reply, maps, history, ledgerVars,
            Ledger!Answer, Ledger!Reply, Ledger!entries
<1>1. ASSUME NEW c \in Caller, NEW id \in Sid, NEW u \in User,
             CreateStamp(c, id, u)
      PROVE  Ledger!Open(id, u)
  <2>1. ASSUME NEW x \in Sid
        PROVE  Live'[x] = Live[x] /\ LiveToken'[x] = LiveToken[x]
    BY <1>1 DEF CreateStamp, TypeOK, OwnSession, Live, LiveToken, Opened, Expired
  <2>2. UNCHANGED <<Live, LiveToken>>
    BY <2>1 DEF Live, LiveToken
  <2> QED
    BY <1>1, <2>2 DEF CreateStamp, Ledger!Open
<1>2. ASSUME NEW c \in Caller, CreateSave(c)
      PROVE  \/ \E l \in BOOLEAN : Ledger!Write(fresh[c].id, l)
             \/ UNCHANGED ledgerVars
  <2> DEFINE id == fresh[c].id
  <2>1. /\ id \in Sid /\ OwnSession(id, fresh[c].sess)
        /\ fresh[c].sess # NotFound
    BY <1>2 DEF CreateSave, TypeOK, OwnSession
  <2>2. UNCHANGED LiveToken
    BY <1>2 DEF CreateSave, LiveToken, Opened
  <2>3. CASE now > deadline[id]
    <3>1. ASSUME NEW x \in Sid PROVE Live'[x] = Live[x]
      BY <1>2, <2>1, <2>3 DEF CreateSave, TypeOK, OwnSession, Live, Expired
    <3>2. UNCHANGED Live
      BY <3>1 DEF Live
    <3> QED
      BY <1>2, <2>2, <3>2 DEF CreateSave
  <2>4. CASE ~(now > deadline[id])
    <3>1. fresh[c].sess.linked \in BOOLEAN
      BY <2>1 DEF OwnSession, Session
    <3>2. ASSUME NEW x \in Sid
          PROVE  Live'[x] = IF x = id THEN fresh[c].sess.linked ELSE Live[x]
      BY <1>2, <2>1, <2>4, <3>1 DEF CreateSave, TypeOK, OwnSession, Live, Expired
    <3>3. Live' = [Live EXCEPT ![id] = fresh[c].sess.linked]
      BY <3>2 DEF Live
    <3> QED
      BY <1>2, <2>1, <2>2, <2>4, <3>1, <3>3
         DEF CreateSave, OwnSession, Ledger!Write, Ledger!Past
  <2> QED
    BY <2>3, <2>4
<1>3. ASSUME NEW c \in Caller, NEW linked \in BOOLEAN, SaveSession(c, linked)
      PROVE  Ledger!Write(got[c].key, linked) \/ UNCHANGED ledgerVars
  <2> DEFINE id == got[c].key
  <2>1. id \in Sid /\ OwnSession(id, Saved(c, linked))
    BY <1>3 DEF SaveSession, TypeOK, OwnSession, Saved, Session
  <2>2. UNCHANGED LiveToken
    BY <1>3 DEF SaveSession, LiveToken, Opened
  <2>3. Saved(c, linked) # NotFound /\ Saved(c, linked).linked = linked
    BY <1>3, <2>1 DEF SaveSession, TypeOK, OwnSession, Saved, Session
  <2>4. CASE now > deadline[id]
    <3>1. ASSUME NEW x \in Sid PROVE Live'[x] = Live[x]
      BY <1>3, <2>1, <2>3, <2>4
         DEF SaveSession, TypeOK, OwnSession, Live, Expired
    <3>2. UNCHANGED Live
      BY <3>1 DEF Live
    <3> QED
      BY <1>3, <2>2, <3>2 DEF SaveSession
  <2>5. CASE ~(now > deadline[id])
    <3>1. ASSUME NEW x \in Sid
          PROVE  Live'[x] = IF x = id THEN linked ELSE Live[x]
      BY <1>3, <2>1, <2>3, <2>5
         DEF SaveSession, TypeOK, OwnSession, Live, Expired
    <3>2. Live' = [Live EXCEPT ![id] = linked]
      BY <3>1 DEF Live
    <3> QED
      BY <1>3, <2>1, <2>2, <2>5, <3>2
         DEF SaveSession, OwnSession, Ledger!Write, Ledger!Past
  <2> QED
    BY <2>4, <2>5
<1>4. ASSUME NEW c \in Caller, NEW id \in Sid, GetSession(c, id)
      PROVE  Ledger!ReadSession(c, id)
  <2>1. UNCHANGED LiveToken
    BY <1>4 DEF GetSession, LiveToken, Opened
  <2>2. CASE sessions[id] = NotFound \/ Expired(sessions[id])
    <3>1. Live[id] = NotFound
      BY <2>2 DEF Live
    <3>2. ASSUME NEW x \in Sid PROVE Live'[x] = Live[x]
      BY <1>4, <2>2 DEF GetSession, TypeOK, Live, Expired
    <3>3. UNCHANGED Live
      BY <3>2 DEF Live
    <3> QED
      BY <1>4, <2>1, <2>2, <3>1, <3>3
         DEF GetSession, Ledger!ReadSession, Ledger!Record
  <2>3. CASE ~(sessions[id] = NotFound \/ Expired(sessions[id]))
    <3>1. UNCHANGED Live
      BY <1>4, <2>3 DEF GetSession, Live, Expired
    <3>2. OwnSession(id, sessions[id])
      BY <2>3 DEF TypeOK
    <3>3. /\ Live[id] = sessions[id].linked /\ Live[id] # NotFound
      BY <2>3, <3>2 DEF Live, OwnSession, Session
    <3>4. sessions[id] = [user |-> holder[id], exp |-> deadline[id],
                          linked |-> Live[id]]
      BY <3>2, <3>3 DEF OwnSession, Session
    <3> QED
      BY <1>4, <2>1, <2>3, <3>1, <3>3, <3>4
         DEF GetSession, Ledger!ReadSession, Ledger!Record
  <2> QED
    BY <2>2, <2>3
<1>5. ASSUME NEW c \in Caller, NEW id \in Sid, DeleteSession(c, id)
      PROVE  Ledger!Delete(id)
  <2>1. ASSUME NEW x \in Sid
        PROVE  /\ Live'[x] = IF x = id THEN NotFound ELSE Live[x]
               /\ LiveToken'[x] = IF x = id THEN NotFound ELSE LiveToken[x]
    BY <1>5 DEF DeleteSession, TypeOK, Live, LiveToken, Opened, Expired
  <2>2. /\ Live' = [Live EXCEPT ![id] = NotFound]
        /\ LiveToken' = [LiveToken EXCEPT ![id] = NotFound]
    BY <2>1 DEF Live, LiveToken
  <2> QED
    BY <1>5, <2>2 DEF DeleteSession, Ledger!Delete
<1>6. ASSUME NEW c \in Caller, NEW t \in Token, SetCSRF(c, t)
      PROVE  Ledger!WriteToken(got[c].key, t) \/ UNCHANGED ledgerVars
  <2> DEFINE id == got[c].key
  <2>1. id \in Sid /\ holder[id] # NotFound
    BY <1>6 DEF SetCSRF, TypeOK, OwnSession
  <2>2. UNCHANGED Live
    BY <1>6 DEF SetCSRF, Live, Expired
  <2>3. CASE Opened(id)
    <3>1. ASSUME NEW x \in Sid
          PROVE  LiveToken'[x] = IF x = id THEN t ELSE LiveToken[x]
      BY <1>6, <2>1, <2>3 DEF SetCSRF, TypeOK, LiveToken, Opened
    <3>2. LiveToken' = [LiveToken EXCEPT ![id] = t]
      BY <3>1 DEF LiveToken
    <3> QED
      BY <1>6, <2>1, <2>2, <2>3, <3>2
         DEF SetCSRF, TypeOK, Opened, Ledger!WriteToken, Ledger!Past
  <2>4. CASE ~Opened(id)
    <3>1. ASSUME NEW x \in Sid PROVE LiveToken'[x] = LiveToken[x]
      BY <1>6, <2>1, <2>4 DEF SetCSRF, TypeOK, LiveToken, Opened
    <3>2. UNCHANGED LiveToken
      BY <3>1 DEF LiveToken
    <3> QED
      BY <1>6, <2>2, <3>2 DEF SetCSRF
  <2> QED
    BY <2>3, <2>4
<1>7. ASSUME NEW c \in Caller, NEW id \in Sid, GetCSRF(c, id)
      PROVE  Ledger!ReadToken(c, id)
  <2>1. UNCHANGED <<Live, LiveToken>>
    BY <1>7 DEF GetCSRF, Live, LiveToken, Opened, Expired
  <2>2. /\ csrf[id] \in Token \cup {NotFound}
        /\ ~(now > deadline[id]) => csrf[id] = LiveToken[id]
    BY DEF TypeOK, LiveToken, Opened
  <2> QED
    BY <1>7, <2>1, <2>2 DEF GetCSRF, Ledger!ReadToken, Ledger!Past
<1>8. ASSUME NEW c \in Caller, NEW s \in State, StoreOIDCState(c, s)
      PROVE  Ledger!Keep(s)
  <2>1. UNCHANGED <<Live, LiveToken>>
    BY <1>8 DEF StoreOIDCState, Live, LiveToken, Opened, Expired
  <2> QED
    BY <1>8, <2>1 DEF StoreOIDCState, TypeOK, Ledger!Keep
<1>9. ASSUME NEW c \in Caller, NEW s \in State, TakeOIDCState(c, s)
      PROVE  Ledger!Take(c, s) \/ Ledger!TakeNothing(c, s)
  <2>1. UNCHANGED <<Live, LiveToken>>
    BY <1>9 DEF TakeOIDCState, Live, LiveToken, Opened, Expired
  <2>2. CASE s \in states
    BY <1>9, <2>1, <2>2 DEF TakeOIDCState, Ledger!Take
  <2>3. CASE s \notin states
    BY <1>9, <2>1, <2>3 DEF TakeOIDCState, Ledger!TakeNothing
  <2> QED
    BY <2>2, <2>3
<1>10. ASSUME Tick PROVE Ledger!Tick
  <2>1. ASSUME NEW x \in Sid
        PROVE  /\ Live'[x] = IF now' > deadline[x] THEN NotFound ELSE Live[x]
               /\ LiveToken'[x] = IF now' > deadline[x] THEN NotFound
                                                        ELSE LiveToken[x]
    BY <1>10 DEF Tick, TypeOK, OwnSession, Live, LiveToken, Opened, Expired
  <2>2. /\ Live' = [x \in Sid |-> IF now' > deadline[x] THEN NotFound
                                                        ELSE Live[x]]
        /\ LiveToken' = [x \in Sid |-> IF now' > deadline[x] THEN NotFound
                                                    ELSE LiveToken[x]]
    BY <2>1 DEF Live, LiveToken
  <2> QED
    BY <1>10, <2>2 DEF Tick, Ledger!Tick
<1>11. ASSUME UNCHANGED vars PROVE UNCHANGED ledgerVars
  BY <1>11 DEF vars, Live, LiveToken, Opened, Expired
<1>12. ASSUME NEW c \in Caller, CreateSave(c)
       PROVE  [Ledger!Next]_ledgerVars
  <2>1. fresh[c].id \in Sid
    BY <1>12 DEF CreateSave, TypeOK
  <2> QED
    BY <1>2, <1>12, <2>1 DEF Ledger!Next
<1>13. ASSUME NEW c \in Caller, NEW linked \in BOOLEAN, SaveSession(c, linked)
       PROVE  [Ledger!Next]_ledgerVars
  <2>1. got[c].key \in Sid
    BY <1>13 DEF SaveSession, TypeOK
  <2> QED
    BY <1>3, <1>13, <2>1 DEF Ledger!Next
<1>14. ASSUME NEW c \in Caller, NEW t \in Token, SetCSRF(c, t)
       PROVE  [Ledger!Next]_ledgerVars
  <2>1. got[c].key \in Sid
    BY <1>14 DEF SetCSRF, TypeOK
  <2> QED
    BY <1>6, <1>14, <2>1 DEF Ledger!Next
<1>15. CASE Tick
  BY <1>10, <1>15 DEF Ledger!Next
<1>16. ASSUME NEW c \in Caller, Step(c) PROVE [Ledger!Next]_ledgerVars
  BY <1>1, <1>4, <1>5, <1>7, <1>8, <1>9, <1>12, <1>13, <1>14, <1>16
     DEF Step, Ledger!Next
<1> QED
  BY <1>11, <1>15, <1>16 DEF Next

\* Whatever a test sees of the store, the ledger allows (memory.go:30-109).
THEOREM Refinement == Spec => ImplementsLedger
<1>1. Init => Ledger!Init
  BY InitSimulation
<1>2. TypeOK /\ [Next]_vars => [Ledger!Next]_ledgerVars
  BY StepSimulation
<1> QED
  BY <1>1, <1>2, TypeCorrect, PTL
     DEF Spec, ImplementsLedger, Ledger!Spec, ledgerVars, Ledger!entries
=============================================================================
