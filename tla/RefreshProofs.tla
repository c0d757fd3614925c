---------------------------- MODULE RefreshProofs ----------------------------
(***************************************************************************)
(* Proofs about RefreshSessions, for any number of families and calls, any *)
(* lifetimes and any clock: the chain of tokens first, then the grace      *)
(* window, the access check and the allowlist.                             *)
(***************************************************************************)
EXTENDS RefreshSessions, TLAPS

-----------------------------------------------------------------------------
(* Seconds and the clock.                                                  *)

LEMMA WholeSeconds ==
  ASSUME NEW n \in Nat
  PROVE  n \div Hz \in Nat /\ (n \div Hz) * Hz <= n
  BY TimesAssumption, Z3

LEMMA SecondsKeepOrder ==
  ASSUME NEW a \in Nat, NEW b \in Nat, a * Hz <= b * Hz
  PROVE  a <= b
  BY TimesAssumption, Z3

LEMMA SecondsAdd ==
  ASSUME NEW a \in Nat, NEW b \in Nat
  PROVE  (a + b) * Hz = a * Hz + b * Hz /\ a * Hz \in Nat /\ b * Hz \in Nat
  BY TimesAssumption, Z3

-----------------------------------------------------------------------------
(* Types.                                                                  *)

LEMMA Members ==
  /\ "free" \in Pcs /\ "sent" \in Pcs /\ "login" \in Pcs /\ "answered" \in Pcs
  /\ "entered" \in Pcs /\ "recheck" \in Pcs /\ "refuse" \in Pcs
  /\ NoAgent \in Agents /\ \A c \in Calls : AgentOf[c] \in Agents
  BY DEF Pcs, Inside, Agents

LEMMA NoneTyped ==
  ASSUME minted \in Nat
  PROVE  NoToken \in Token /\ NoRow \in Row /\ NoRequest \in Request
<1>1. NoToken \in Token
  BY DEF NoToken, Token
<1>2. NoRow \in Row
  BY <1>1 DEF NoRow, Row
<1>3. NoRequest \in Request
  BY <1>1, Members DEF NoRequest, Request
<1> QED
  BY <1>1, <1>2, <1>3

LEMMA InitType == Init => TypeOK
<1> SUFFICES ASSUME Init PROVE TypeOK
  OBVIOUS
<1>1. minted \in Nat
  BY DEF Init
<1>2. now \in Nat \ {0}
  BY TimesAssumption DEF Init
<1> QED
  BY <1>1, <1>2, NoneTyped DEF Init, TypeOK, NotLoaded

LEMMA SameTypes ==
  ASSUME minted' = minted
  PROVE  /\ Token' = Token /\ Row' = Row /\ Request' = Request
         /\ HistoryRow' = HistoryRow /\ Entry' = Entry /\ Answer' = Answer
<1>1. Token' = Token
  BY DEF Token
<1> QED
  BY <1>1 DEF Row, Request, HistoryRow, Entry, Answer

LEMMA MoreTypes ==
  ASSUME TypeOK, minted' = minted + 1
  PROVE  /\ Token \subseteq Token' /\ minted + 1 \in Token'
         /\ Row \subseteq Row' /\ Request \subseteq Request'
         /\ HistoryRow \subseteq HistoryRow' /\ Entry \subseteq Entry' /\ Answer \subseteq Answer'
<1>1. Token \subseteq Token' /\ minted + 1 \in Token'
  BY DEF TypeOK, Token
<1> QED
  BY <1>1 DEF Row, Request, HistoryRow, Entry, Answer

LEMMA CallTypes ==
  ASSUME minted \in Nat
  PROVE  /\ NoRequest \in Request
         /\ [NoRequest EXCEPT !.pc = "login"] \in Request
         /\ \A t \in Token : /\ [NoRequest EXCEPT !.pc = "sent", !.token = t] \in Request
                             /\ [NoRequest EXCEPT !.pc = "answered", !.to = t] \in Request
         /\ \A r \in Request : /\ [r EXCEPT !.pc = "refuse"] \in Request
                               /\ \A s \in Sids : [r EXCEPT !.pc = "refuse", !.sid = s] \in Request
                               /\ \A n \in Nat : [r EXCEPT !.pc = "entered", !.at = n] \in Request
<1> USE Members
<1>1. NoRequest \in Request
  BY NoneTyped
<1>2. [NoRequest EXCEPT !.pc = "login"] \in Request
  BY <1>1 DEF Request
<1>3. ASSUME NEW t \in Token PROVE [NoRequest EXCEPT !.pc = "sent", !.token = t] \in Request
  BY <1>1 DEF Request
<1>4. ASSUME NEW t \in Token PROVE [NoRequest EXCEPT !.pc = "answered", !.to = t] \in Request
  BY <1>1 DEF Request
<1>5. ASSUME NEW r \in Request PROVE [r EXCEPT !.pc = "refuse"] \in Request
  BY DEF Request
<1>6. ASSUME NEW r \in Request, NEW s \in Sids
      PROVE  [r EXCEPT !.pc = "refuse", !.sid = s] \in Request
  BY DEF Request
<1>7. ASSUME NEW r \in Request, NEW n \in Nat
      PROVE  [r EXCEPT !.pc = "entered", !.at = n] \in Request
  BY DEF Request
<1> QED
  BY <1>1, <1>2, <1>3, <1>4, <1>5, <1>6, <1>7

\* What revoked = 1 changes.
LEMMA Revoking ==
  ASSUME TypeOK, NEW S, NEW by, Revoke(S, by)
  PROVE  /\ session' \in [Sids -> Row]
         /\ cliRevokedAt' \in [Sids -> Nat]
         /\ \A s \in Sids :
              /\ session'[s].current = session[s].current /\ session'[s].prev = session[s].prev
              /\ session'[s].rotatedAt = session[s].rotatedAt /\ session'[s].cap = session[s].cap
              /\ session'[s].revoked <=> (session[s].revoked \/ s \in S)
<1>1. \A r \in Row : /\ [r EXCEPT !.revoked = TRUE] \in Row
                     /\ [r EXCEPT !.revoked = TRUE].current = r.current
                     /\ [r EXCEPT !.revoked = TRUE].prev = r.prev
                     /\ [r EXCEPT !.revoked = TRUE].rotatedAt = r.rotatedAt
                     /\ [r EXCEPT !.revoked = TRUE].cap = r.cap
                     /\ [r EXCEPT !.revoked = TRUE].revoked = TRUE
                     /\ r.revoked \in BOOLEAN
  BY DEF Row
<1>2. session \in [Sids -> Row]
  BY DEF TypeOK
<1>3. ASSUME NEW s \in Sids, s \in S PROVE session'[s] = [session[s] EXCEPT !.revoked = TRUE]
  BY <1>3 DEF Revoke
<1>4. ASSUME NEW s \in Sids, s \notin S PROVE session'[s] = session[s]
  BY <1>4 DEF Revoke
<1>5. session' \in [Sids -> Row]
  BY <1>1, <1>2 DEF Revoke
<1>6. cliRevokedAt' \in [Sids -> Nat]
  BY DEF Revoke, TypeOK
<1>7. ASSUME NEW s \in Sids
      PROVE  /\ session'[s].current = session[s].current /\ session'[s].prev = session[s].prev
             /\ session'[s].rotatedAt = session[s].rotatedAt /\ session'[s].cap = session[s].cap
             /\ session'[s].revoked <=> (session[s].revoked \/ s \in S)
  <2>1. session[s] \in Row
    BY <1>2
  <2>2. CASE s \in S
    <3>1. session'[s] = [session[s] EXCEPT !.revoked = TRUE]
      BY <1>3, <2>2
    <3>2. session'[s].revoked = TRUE
      BY <1>1, <2>1, <3>1
    <3> QED
      BY <1>1, <2>1, <2>2, <3>1, <3>2
  <2>3. CASE s \notin S
    BY <1>1, <1>4, <2>1, <2>3
  <2> QED
    BY <2>2, <2>3
<1> QED
  BY <1>5, <1>6, <1>7

LEMMA TypeStep ==
  ASSUME TypeOK, RotationOK, [Next]_vars
  PROVE  TypeOK'
<1> USE DEF server, revoked, identity
<1>0. minted \in Nat /\ call \in [Calls -> Request] /\ store \in Token
  BY DEF TypeOK
<1>a. Second \in Nat
  BY WholeSeconds DEF TypeOK, Second
<1>b. \A r \in Request : r.to \in Token /\ r.token \in Token
  BY DEF Request
<1>1. CASE Tick
  BY <1>1, SameTypes DEF Tick, TypeOK
<1>2. CASE Crash
  <2>1. call' \in [Calls -> Request]
    BY <1>0, <1>2, CallTypes DEF Crash
  <2>2. boot' \in Nat
    BY SMTT(40), <1>2 DEF Crash, TypeOK
  <2> QED
    BY <1>2, <2>1, <2>2, SameTypes DEF Crash, TypeOK, NotLoaded
<1>3. ASSUME NEW c \in Calls, Call(c) PROVE TypeOK'
  BY SMT, ZenonT(60), <1>0, <1>3, SameTypes, CallTypes DEF Call, TypeOK
<1>4. ASSUME NEW c \in Calls, Deliver(c) PROVE TypeOK'
  BY SMT, ZenonT(60), <1>0, <1>b, <1>4, SameTypes, CallTypes DEF Deliver, TypeOK
<1>5. ASSUME NEW c \in Calls, Lose(c) PROVE TypeOK'
  BY SMT, ZenonT(60), <1>0, <1>5, SameTypes, CallTypes DEF Lose, TypeOK
<1>6. ASSUME NEW c \in Calls, LookUp(c) PROVE TypeOK'
  BY <1>0, <1>6, SameTypes, CallTypes DEF LookUp, TypeOK
<1>7. ASSUME NEW c \in Calls, EnterRotate(c) PROVE TypeOK'
  <2>1. [call[c] EXCEPT !.pc = "entered", !.at = Second] \in Request
    BY <1>0, <1>a, CallTypes
  <2>2. call' = [call EXCEPT ![c] = [call[c] EXCEPT !.pc = "entered", !.at = Second]]
    BY <1>0, <1>7 DEF EnterRotate
  <2>3. call' \in [Calls -> Request]
    BY <1>0, <2>1, <2>2
  <2> QED
    BY <1>7, <2>3, SameTypes DEF EnterRotate, TypeOK
<1>8. ASSUME NEW c \in Calls, Reject(c) PROVE TypeOK'
  BY <1>0, <1>8, SameTypes, CallTypes DEF Reject, TypeOK
<1>9. ASSUME NEW c \in Calls, Recheck(c) PROVE TypeOK'
  <2>1. [key |-> call[c].token, to |-> call[c].to, agent |-> AgentOf[c], stored |-> now] \in Entry
    BY <1>0, <1>b, Members DEF Entry, TypeOK
  <2>2. cache' \subseteq Entry
    BY <1>9, <2>1 DEF Recheck, GraceStore, Unexpired, TypeOK
  <2>3. answers' \subseteq Answer
    BY <1>0, <1>b, <1>9 DEF Recheck, TypeOK, Answer
  <2>4. call' \in [Calls -> Request]
    BY <1>0, <1>b, <1>9, CallTypes DEF Recheck
  <2> QED
    BY <1>9, <2>2, <2>3, <2>4, SameTypes DEF Recheck, TypeOK
<1>10. ASSUME NEW c \in Calls, RecheckFails(c) PROVE TypeOK'
  <2>1. call' \in [Calls -> Request]
    BY <1>0, <1>10, CallTypes DEF RecheckFails
  <2>2. session' \in [Sids -> Row] /\ cliRevokedAt' \in [Sids -> Nat]
    BY SMTT(40), <1>10, Revoking DEF RecheckFails
  <2> QED
    BY SMTT(40), <1>10, <2>1, <2>2, SameTypes DEF RecheckFails, TypeOK
<1>11. ASSUME NEW c \in Calls, Refuse(c) PROVE TypeOK'
  <2>1. call[c].sid \in Sids
    BY <1>11 DEF Refuse, RotationOK
  <2> QED
    BY <1>0, <1>11, <2>1, SameTypes, CallTypes DEF Refuse, TypeOK
<1>12. ASSUME NEW c \in Calls, NEW s \in Sids, CreateSession(c, s) PROVE TypeOK'
  <2>0. minted' = minted + 1 /\ minted' \in Nat
    BY <1>0, <1>12 DEF CreateSession
  <2>1. [NoRow EXCEPT !.current = minted + 1, !.idleUntil = Second + Idle, !.cap = Second + Cap]
          \in Row'
    <3>1. NoRow \in Row'
      BY <1>0, <2>0, MoreTypes, NoneTyped
    <3>2. Second + Idle \in Nat /\ Second + Cap \in Nat
      BY <1>a, TimesAssumption
    <3> QED
      BY <2>0, <3>1, <3>2, MoreTypes DEF Row
  <2>2. session' \in [Sids -> Row']
    BY <1>12, <2>0, <2>1, MoreTypes DEF CreateSession, TypeOK
  <2>3. [key |-> minted + 1, to |-> minted + 1, agent |-> NoAgent, stored |-> now] \in Entry'
    BY <2>0, MoreTypes, Members DEF Entry, TypeOK
  <2>4. cache' \subseteq Entry'
    BY <1>12, <2>0, <2>3, MoreTypes DEF CreateSession, GraceStore, Unexpired, TypeOK
  <2>5. [NoRequest EXCEPT !.pc = "answered", !.to = minted + 1] \in Request'
    <3>1. NoRequest \in Request'
      BY <1>0, <2>0, MoreTypes, NoneTyped
    <3> QED
      BY <2>0, <3>1, MoreTypes, Members DEF Request
  <2>6. call' \in [Calls -> Request']
    BY <1>0, <1>12, <2>0, <2>5, MoreTypes DEF CreateSession
  <2> QED
    BY <1>12, <2>0, <2>2, <2>4, <2>6, MoreTypes DEF CreateSession, TypeOK
<1>13. ASSUME NEW c \in Calls, NEW s \in Sids, Exchange(c, s) PROVE TypeOK'
  <2>0. minted' = minted + 1 /\ minted' \in Nat
    BY <1>0, <1>13 DEF Exchange
  <2>1. call[c] \in Request /\ session[s] \in Row
    BY <1>0 DEF TypeOK
  <2>a. call[c].at \in Nat /\ call[c].token \in Token' /\ call[c] \in Request' /\ session[s] \in Row'
    BY <2>0, <2>1, MoreTypes DEF Request
  <2>2. [session[s] EXCEPT
           !.current = minted + 1, !.prev = call[c].token, !.rotatedAt = call[c].at,
           !.idleUntil = Earlier(call[c].at + Idle, session[s].cap)] \in Row'
    <3>1. Earlier(call[c].at + Idle, session[s].cap) \in Nat
      BY <2>1, <2>a, TimesAssumption DEF Earlier, Row
    <3> QED
      BY <2>0, <2>a, <3>1, MoreTypes DEF Row
  <2>3. session' \in [Sids -> Row']
    BY <1>13, <2>0, <2>2, MoreTypes DEF Exchange, TypeOK
  <2>4. [token |-> call[c].token, sid |-> s, to |-> minted + 1, at |-> call[c].at,
         agent |-> AgentOf[c], boot |-> boot] \in HistoryRow'
    BY <2>0, <2>a, MoreTypes, Members DEF HistoryRow, TypeOK
  <2>5. history' \subseteq HistoryRow'
    BY <1>13, <2>0, <2>4, MoreTypes DEF Exchange, TypeOK
  <2>6. [call[c] EXCEPT !.pc = "recheck", !.to = minted + 1, !.sid = s] \in Request'
    BY <2>0, <2>a, MoreTypes, Members DEF Request
  <2>7. call' \in [Calls -> Request']
    BY <1>0, <1>13, <2>0, <2>6, MoreTypes DEF Exchange
  <2> QED
    BY <1>13, <2>0, <2>3, <2>5, <2>7, MoreTypes DEF Exchange, TypeOK
<1>14. ASSUME NEW c \in Calls, NEW s \in Sids, Replay(c, s) PROVE TypeOK'
  <2>1. PICK e \in Replayable(c, s) :
          /\ call' = [call EXCEPT ![c] = [NoRequest EXCEPT !.pc = "answered", !.to = e.to]]
          /\ answers' = answers \cup {[from |-> call[c].token, to |-> e.to]}
    BY <1>14 DEF Replay
  <2>2. e \in Entry /\ e.to \in Token
    BY DEF Replayable, GraceLookup, Unexpired, TypeOK, Entry
  <2>3. call' \in [Calls -> Request]
    BY <1>0, <2>1, <2>2, CallTypes
  <2>4. answers' \subseteq Answer
    BY <1>0, <1>b, <2>1, <2>2 DEF TypeOK, Answer
  <2>5. cache' \subseteq Entry
    BY <1>14 DEF Replay, Unexpired, TypeOK
  <2> QED
    BY <1>14, <2>3, <2>4, <2>5, SameTypes DEF Replay, TypeOK
<1>15. ASSUME NEW c \in Calls, NEW s \in Sids, DetectReuse(c, s) PROVE TypeOK'
  <2>1. call' \in [Calls -> Request]
    BY <1>0, <1>15, CallTypes DEF DetectReuse
  <2>2. session' \in [Sids -> Row] /\ cliRevokedAt' \in [Sids -> Nat]
    BY <1>15, Revoking DEF DetectReuse
  <2>3. cache' \subseteq Entry
    BY <1>15 DEF DetectReuse, Unexpired, TypeOK
  <2> QED
    BY <1>15, <2>1, <2>2, <2>3, SameTypes DEF DetectReuse, TypeOK
<1>16. ASSUME NEW s \in Sids, RevokeSession(s) PROVE TypeOK'
  <2>1. session' \in [Sids -> Row] /\ cliRevokedAt' \in [Sids -> Nat]
    BY <1>16, Revoking DEF RevokeSession
  <2> QED
    BY <1>16, <2>1, SameTypes DEF RevokeSession, TypeOK
<1>17. ASSUME NEW s \in Sids, NoteRevoked(s) PROVE TypeOK'
  BY <1>0, <1>17, SameTypes DEF NoteRevoked, TypeOK
<1>18. ASSUME NEW S \in SUBSET Sids, CliRevoke(S) PROVE TypeOK'
  <2>1. session' \in [Sids -> Row] /\ cliRevokedAt' \in [Sids -> Nat]
    BY <1>18, Revoking DEF CliRevoke
  <2> QED
    BY <1>18, <2>1, SameTypes DEF CliRevoke, TypeOK
<1>19. CASE RevokeAll
  <2>1. session' \in [Sids -> Row] /\ cliRevokedAt' \in [Sids -> Nat]
    BY <1>19, Revoking DEF RevokeAll
  <2> QED
    BY <1>19, <2>1, SameTypes DEF RevokeAll, TypeOK
<1>20. CASE EndSessions
  <2>1. session' \in [Sids -> Row] /\ cliRevokedAt' \in [Sids -> Nat]
    BY <1>20, Revoking DEF EndSessions
  <2> QED
    BY <1>20, <2>1, SameTypes DEF EndSessions, TypeOK
<1>21. CASE Delist
  BY <1>0, <1>21, SameTypes DEF Delist, TypeOK
<1>22. CASE Enlist
  BY <1>0, <1>22, SameTypes DEF Enlist, TypeOK
<1>23. CASE LoadRevoked
  BY <1>0, <1>23, SameTypes DEF LoadRevoked, TypeOK
<1>24. CASE LoadFails
  BY <1>0, <1>24, SameTypes DEF LoadFails, TypeOK
<1>25. CASE UNCHANGED vars
  BY <1>0, <1>25, SameTypes DEF vars, TypeOK
<1> QED
  BY <1>1, <1>2, <1>3, <1>4, <1>5, <1>6, <1>7, <1>8, <1>9, <1>10, <1>11, <1>12, <1>13, <1>14,
     <1>15, <1>16, <1>17, <1>18, <1>19, <1>20, <1>21, <1>22, <1>23, <1>24, <1>25 DEF Next

-----------------------------------------------------------------------------
(* The lock.                                                               *)

\* A call moves from one place to another.
LEMMA LockStep ==
  ASSUME TypeOK, LockOK, [Next]_vars
  PROVE  LockOK'
<1> USE NamesAssumption DEF Inside, server, revoked, identity
<1>0. call \in [Calls -> Request] /\ lock \in Calls \cup {NoCall}
  BY DEF TypeOK
<1>a. \A c, d \in Calls : c # d => ~(call[c].pc \in Inside /\ call[d].pc \in Inside)
  BY DEF LockOK
<1>b. NoRequest.pc = "free" /\ \A t : [NoRequest EXCEPT !.pc = t].pc = t
  BY DEF NoRequest
<1>1. ASSUME NEW c \in Calls, call[c].pc \notin Inside, NEW r, call' = [call EXCEPT ![c] = r],
             r.pc \notin Inside, lock' = lock
      PROVE  LockOK'
  BY <1>0, <1>1 DEF LockOK
<1>2. ASSUME NEW c \in Calls, call[c].pc \in Inside, NEW r, call' = [call EXCEPT ![c] = r],
             r.pc \notin Inside, lock' = NoCall
      PROVE  LockOK'
  BY <1>0, <1>a, <1>2 DEF LockOK
<1>3. ASSUME NEW c \in Calls, call[c].pc \in Inside, NEW r, call' = [call EXCEPT ![c] = r],
             r.pc \in Inside, lock' = lock
      PROVE  LockOK'
  BY <1>0, <1>3 DEF LockOK
<1>4. ASSUME UNCHANGED <<call, lock>> PROVE LockOK'
  BY <1>4 DEF LockOK
<1>10. CASE Crash
  <2>1. \A c \in Calls : call'[c].pc \notin Inside
    BY <1>10, <1>b DEF Crash
  <2> QED
    BY <1>10, <2>1 DEF Crash, LockOK
<1>11. ASSUME NEW c \in Calls, Call(c) \/ Deliver(c) \/ Lose(c) \/ LookUp(c) PROVE LockOK'
  BY <1>b, <1>1, <1>11 DEF Call, Deliver, Lose, LookUp, NoRequest
<1>12. ASSUME NEW c \in Calls, EnterRotate(c) PROVE LockOK'
  BY <1>0, <1>12 DEF EnterRotate, LockOK, Request
<1>13. ASSUME NEW c \in Calls, Reject(c) \/ Recheck(c) \/ Refuse(c) PROVE LockOK'
  BY <1>b, <1>2, <1>13 DEF Reject, Recheck, Refuse, NoRequest
<1>14. ASSUME NEW c \in Calls, RecheckFails(c) PROVE LockOK'
  BY <1>0, <1>3, <1>14 DEF RecheckFails, Request
<1>15. ASSUME NEW c \in Calls, NEW s \in Sids, CreateSession(c, s) PROVE LockOK'
  BY <1>1, <1>15 DEF CreateSession, NoRequest
<1>16. ASSUME NEW c \in Calls, NEW s \in Sids, Exchange(c, s) PROVE LockOK'
  BY <1>0, <1>16 DEF Exchange, LockOK, Request
<1>17. ASSUME NEW c \in Calls, NEW s \in Sids, Replay(c, s) PROVE LockOK'
  BY <1>2, <1>17 DEF Replay, NoRequest
<1>18. ASSUME NEW c \in Calls, NEW s \in Sids, DetectReuse(c, s) PROVE LockOK'
  BY <1>0, <1>18 DEF DetectReuse, LockOK, Request
<1> QED
  BY <1>4, <1>10, <1>11, <1>12, <1>13, <1>14, <1>15, <1>16, <1>17, <1>18
  DEF Next, vars, Tick, RevokeSession, NoteRevoked, CliRevoke, RevokeAll, EndSessions, Delist,
      Enlist, LoadRevoked, LoadFails
-----------------------------------------------------------------------------
(* Tokens.                                                                 *)

\* What most steps leave alone.
SameTokens ==
  /\ minted' = minted /\ history' = history
  /\ \A s \in Sids :
       /\ session'[s].current = session[s].current /\ session'[s].prev = session[s].prev
       /\ session'[s].rotatedAt = session[s].rotatedAt /\ session'[s].cap = session[s].cap
       /\ session[s].revoked => session'[s].revoked

LEMMA Frame ==
  ASSUME TypeOK, [Next]_vars
  PROVE  SameTokens \/ \E c \in Calls, s \in Sids : CreateSession(c, s) \/ Exchange(c, s)
<1> USE DEF server, revoked, identity
<1>1. ASSUME UNCHANGED <<session, history, minted>> PROVE SameTokens
  BY <1>1 DEF SameTokens
<1>2. ASSUME NEW S, NEW by, Revoke(S, by), UNCHANGED <<history, minted>> PROVE SameTokens
  <2>1. \A s \in Sids :
              /\ session'[s].current = session[s].current /\ session'[s].prev = session[s].prev
              /\ session'[s].rotatedAt = session[s].rotatedAt /\ session'[s].cap = session[s].cap
              /\ session'[s].revoked <=> (session[s].revoked \/ s \in S)
    BY <1>2, Revoking
  <2> QED
    BY <1>2, <2>1 DEF SameTokens
<1>3. ASSUME NEW c \in Calls, Call(c) \/ Deliver(c) \/ Lose(c) \/ LookUp(c) \/ EnterRotate(c)
                              \/ Reject(c) \/ Recheck(c) \/ Refuse(c)
      PROVE  SameTokens
  BY <1>1, <1>3 DEF Call, Deliver, Lose, LookUp, EnterRotate, Reject, Recheck, Refuse
<1>4. ASSUME NEW c \in Calls, RecheckFails(c) PROVE SameTokens
  BY <1>2, <1>4 DEF RecheckFails
<1>5. ASSUME NEW c \in Calls, NEW s \in Sids, Replay(c, s) PROVE SameTokens
  BY <1>1, <1>5 DEF Replay
<1>6. ASSUME NEW c \in Calls, NEW s \in Sids, DetectReuse(c, s) PROVE SameTokens
  BY <1>2, <1>6 DEF DetectReuse
<1>7. ASSUME NEW s \in Sids, RevokeSession(s) PROVE SameTokens
  BY <1>2, <1>7 DEF RevokeSession
<1>8. ASSUME NEW S \in SUBSET Sids, CliRevoke(S) PROVE SameTokens
  BY <1>2, <1>8 DEF CliRevoke
<1>9. CASE RevokeAll
  BY <1>2, <1>9 DEF RevokeAll
<1>10. CASE EndSessions
  BY <1>2, <1>10 DEF EndSessions
<1>11. ASSUME Crash \/ Tick \/ (\E s \in Sids : NoteRevoked(s)) \/ Delist \/ Enlist
              \/ LoadRevoked \/ LoadFails \/ UNCHANGED vars
       PROVE  SameTokens
  BY <1>1, <1>11 DEF Crash, Tick, NoteRevoked, Delist, Enlist, LoadRevoked, LoadFails, vars
<1> QED
  BY <1>3, <1>4, <1>5, <1>6, <1>7, <1>8, <1>9, <1>10, <1>11 DEF Next

\* The token a step makes is like no other.
LEMMA NewToken ==
  ASSUME TypeOK
  PROVE  /\ minted + 1 # NoToken
         /\ \A s \in Sids : session[s].current # minted + 1 /\ session[s].prev # minted + 1
         /\ \A h \in history : h.token # minted + 1 /\ h.to # minted + 1 /\ h.sid \in Sids
         /\ \A e \in cache : e.key # minted + 1
         /\ \A c \in Calls : call[c].token # minted + 1
<1>1. minted \in Nat /\ minted + 1 \notin Token /\ minted + 1 # NoToken
  BY DEF TypeOK, Token, NoToken
<1>2. ASSUME NEW s \in Sids PROVE session[s].current \in Token /\ session[s].prev \in Token
  BY DEF TypeOK, Row
<1>3. ASSUME NEW h \in history PROVE h.token \in Token /\ h.to \in Token /\ h.sid \in Sids
  BY DEF TypeOK, HistoryRow
<1>4. ASSUME NEW e \in cache PROVE e.key \in Token
  BY DEF TypeOK, Entry
<1>5. ASSUME NEW c \in Calls PROVE call[c].token \in Token
  BY DEF TypeOK, Request
<1> QED
  BY <1>1, <1>2, <1>3, <1>4, <1>5

\* What CreateSession and Exchange do to the tables.
LEMMA Created ==
  ASSUME TypeOK, NEW c \in Calls, NEW s \in Sids, CreateSession(c, s)
  PROVE  /\ session'[s].current = minted + 1 /\ session'[s].prev = NoToken
         /\ \A t \in Sids \ {s} : session'[t] = session[t]
         /\ history' = history /\ ~Made(s)
<1>1. session \in [Sids -> Row]
  BY DEF TypeOK
<1> QED
  BY <1>1 DEF CreateSession, NoRow

LEMMA Exchanged ==
  ASSUME TypeOK, NEW c \in Calls, NEW s \in Sids, Exchange(c, s)
  PROVE  \E h :
         /\ h.token = call[c].token /\ h.sid = s /\ h.to = minted + 1 /\ h.at = call[c].at
         /\ h.agent = AgentOf[c] /\ h.boot = boot
         /\ history' = history \cup {h}
         /\ session'[s].current = minted + 1 /\ session'[s].prev = call[c].token
         /\ session'[s].rotatedAt = call[c].at
         /\ \A t \in Sids \ {s} : session'[t] = session[t]
         /\ Made(s) /\ session[s].current = call[c].token
<1>1. session \in [Sids -> Row]
  BY DEF TypeOK
<1> DEFINE h == [token |-> call[c].token, sid |-> s, to |-> minted + 1, at |-> call[c].at,
                 agent |-> AgentOf[c], boot |-> boot]
<1>2. history' = history \cup {h} /\ Made(s) /\ session[s].current = call[c].token
  BY DEF Exchange
<1>3. /\ session'[s].current = minted + 1 /\ session'[s].prev = call[c].token
      /\ session'[s].rotatedAt = call[c].at
  BY <1>1 DEF Exchange, Row
<1>4. \A t \in Sids \ {s} : session'[t] = session[t]
  BY <1>1 DEF Exchange
<1> WITNESS h
<1> QED
  BY <1>2, <1>3, <1>4

LEMMA TokensStep ==
  ASSUME TypeOK, TokensOK, [Next]_vars
  PROVE  TokensOK'
<1>1. CASE SameTokens
  BY <1>1, NewToken DEF SameTokens, TokensOK, Made
<1>2. ASSUME NEW c \in Calls, NEW s \in Sids, CreateSession(c, s) PROVE TokensOK'
  BY <1>2, Created, NewToken DEF TokensOK, Made
<1>3. ASSUME NEW c \in Calls, NEW s \in Sids, Exchange(c, s) PROVE TokensOK'
  <2>1. PICK g :
         /\ g.token = call[c].token /\ g.sid = s /\ g.to = minted + 1 /\ g.at = call[c].at
         /\ g.agent = AgentOf[c] /\ g.boot = boot
         /\ history' = history \cup {g}
         /\ session'[s].current = minted + 1 /\ session'[s].prev = call[c].token
         /\ session'[s].rotatedAt = call[c].at
         /\ \A t \in Sids \ {s} : session'[t] = session[t]
         /\ Made(s) /\ session[s].current = call[c].token
    BY <1>3, Exchanged
  <2>2. (\A t, u \in Sids : Made(t) /\ session[t].current = session[u].current => t = u)'
    BY <2>1, NewToken DEF TokensOK, Made
  <2>3. \A h, k \in history' : h.token = k.token => h = k
    BY <2>1 DEF TokensOK
  <2>4. (\A h \in history : h.token # NoToken /\ h.to # NoToken /\ Made(h.sid))'
    BY <2>1, NewToken DEF TokensOK, Made
  <2>5. \A h \in history', t \in Sids : h.token # session'[t].current
    BY <2>1, NewToken DEF TokensOK
  <2>6. \A t \in Sids : session'[t].prev # NoToken =>
          \E h \in history' : /\ h.token = session'[t].prev /\ h.sid = t
                              /\ h.to = session'[t].current /\ h.at = session'[t].rotatedAt
    BY <2>1 DEF TokensOK
  <2> QED
    BY <2>2, <2>3, <2>4, <2>5, <2>6 DEF TokensOK
<1> QED
  BY <1>1, <1>2, <1>3, Frame

-----------------------------------------------------------------------------
(* Rotations under way.                                                    *)

\* Who is between exchange and answer, or about to be refused, was there before or comes now.
Follows(c) ==
  /\ call'[c].pc = "recheck" =>
       /\ boot' = boot
       /\ \/ call[c].pc = "recheck" /\ call'[c] = call[c]
          \/ \E s \in Sids : Exchange(c, s)
  /\ call'[c].pc = "refuse" =>
       \/ call[c].pc = "refuse" /\ call'[c] = call[c]
       \/ RecheckFails(c)
       \/ \E s \in Sids : DetectReuse(c, s)

LEMMA CallFrame ==
  ASSUME TypeOK, [Next]_vars, NEW c \in Calls
  PROVE  Follows(c)
<1> USE DEF server, revoked, identity
<1>0. call \in [Calls -> Request] /\ call[c] \in Request
  BY DEF TypeOK
<1>1. ASSUME boot' = boot, call' = call PROVE Follows(c)
  BY <1>1 DEF Follows
<1>2. ASSUME NEW d \in Calls, NEW r, boot' = boot, call' = [call EXCEPT ![d] = r],
             r.pc \notin {"recheck", "refuse"}
      PROVE  Follows(c)
  BY <1>0, <1>2 DEF Follows
<1>b. NoRequest.pc = "free"
  BY DEF NoRequest
<1>3. CASE Crash
  BY <1>3, <1>b DEF Crash, Follows
<1>4. ASSUME NEW d \in Calls, Call(d) \/ Deliver(d) \/ Lose(d) \/ LookUp(d)
                              \/ Reject(d) \/ Recheck(d) \/ Refuse(d)
      PROVE  Follows(c)
  BY <1>b, <1>2, <1>4 DEF Call, Deliver, Lose, LookUp, Reject, Recheck, Refuse, NoRequest
<1>5. ASSUME NEW d \in Calls, EnterRotate(d) PROVE Follows(c)
  <2>1. call' = [call EXCEPT ![d] = [call[d] EXCEPT !.pc = "entered", !.at = Second]]
    BY <1>0, <1>5 DEF EnterRotate
  <2>2. [call[d] EXCEPT !.pc = "entered", !.at = Second].pc = "entered"
    BY <1>0 DEF Request
  <2> QED
    BY <1>2, <1>5, <2>1, <2>2 DEF EnterRotate
<1>6. ASSUME NEW d \in Calls, RecheckFails(d) PROVE Follows(c)
  <2>1. CASE d = c
    BY <1>0, <1>6, <2>1 DEF RecheckFails, Request, Follows
  <2>2. CASE d # c
    BY <1>0, <1>6, <2>2 DEF RecheckFails, Follows
  <2> QED
    BY <2>1, <2>2
<1>7. ASSUME NEW d \in Calls, NEW s \in Sids, CreateSession(d, s) \/ Replay(d, s)
      PROVE  Follows(c)
  <2>1. PICK t : call' = [call EXCEPT ![d] = [NoRequest EXCEPT !.pc = "answered", !.to = t]]
    BY <1>7 DEF CreateSession, Replay
  <2>2. [NoRequest EXCEPT !.pc = "answered", !.to = t].pc = "answered"
    BY DEF NoRequest
  <2>3. boot' = boot
    BY <1>7 DEF CreateSession, Replay
  <2> QED
    BY <1>2, <2>1, <2>2, <2>3
<1>8. ASSUME NEW d \in Calls, NEW s \in Sids, Exchange(d, s) PROVE Follows(c)
  <2>1. CASE d = c
    BY <1>0, <1>8, <2>1 DEF Exchange, Request, Follows
  <2>2. CASE d # c
    BY <1>0, <1>8, <2>2 DEF Exchange, Follows
  <2> QED
    BY <2>1, <2>2
<1>9. ASSUME NEW d \in Calls, NEW s \in Sids, DetectReuse(d, s) PROVE Follows(c)
  <2>1. CASE d = c
    BY <1>0, <1>9, <2>1 DEF DetectReuse, Request, Follows
  <2>2. CASE d # c
    BY <1>0, <1>9, <2>2 DEF DetectReuse, Follows
  <2> QED
    BY <2>1, <2>2
<1>10. ASSUME NEW s \in Sids, RevokeSession(s) \/ NoteRevoked(s) PROVE Follows(c)
  BY <1>1, <1>10 DEF RevokeSession, NoteRevoked
<1>12. ASSUME NEW S \in SUBSET Sids, CliRevoke(S) PROVE Follows(c)
  BY <1>1, <1>12 DEF CliRevoke
<1>13. ASSUME Tick \/ RevokeAll \/ EndSessions \/ Delist \/ Enlist \/ LoadRevoked \/ LoadFails
              \/ UNCHANGED vars
       PROVE  Follows(c)
  BY <1>1, <1>13 DEF Tick, RevokeAll, EndSessions, Delist, Enlist, LoadRevoked, LoadFails, vars
<1> QED
  BY <1>3, <1>4, <1>5, <1>6, <1>7, <1>8, <1>9, <1>10, <1>12, <1>13 DEF Next

\* The tables of a family that has been exchanged in are not made anew.
LEMMA RotationStep ==
  ASSUME ChainInvariant, [Next]_vars
  PROVE  RotationOK'
<1>0. TypeOK /\ LockOK /\ TokensOK /\ RotationOK
  BY DEF ChainInvariant
<1>1. ASSUME NEW c \in Calls, call'[c].pc = "recheck"
      PROVE  \E h \in history' :
               /\ h.token = call'[c].token /\ h.sid = call'[c].sid /\ h.to = call'[c].to
               /\ h.boot = boot' /\ h.agent = AgentOf[c]
               /\ session'[h.sid].prev = h.token /\ session'[h.sid].current = h.to
  <2>1. CASE call[c].pc = "recheck" /\ call'[c] = call[c]
    <3>1. PICK h \in history :
            /\ h.token = call[c].token /\ h.sid = call[c].sid /\ h.to = call[c].to
            /\ h.boot = boot /\ h.agent = AgentOf[c]
            /\ session[h.sid].prev = h.token /\ session[h.sid].current = h.to
      BY <1>0, <2>1 DEF RotationOK, Rotating
    <3>2. boot' = boot
      BY <1>0, <1>1, CallFrame DEF Follows
    <3>3. h.sid \in Sids /\ Made(h.sid)
      BY <1>0, NewToken DEF TokensOK
    <3>4. CASE SameTokens
      BY <2>1, <3>1, <3>2, <3>3, <3>4 DEF SameTokens
    <3>5. ASSUME NEW d \in Calls, NEW s \in Sids, CreateSession(d, s) PROVE h.sid # s
      BY <1>0, <3>3, <3>5, Created
    <3>6. ASSUME NEW d \in Calls, NEW s \in Sids, CreateSession(d, s)
          PROVE  session'[h.sid] = session[h.sid] /\ history' = history
      BY <1>0, <3>3, <3>5, <3>6, Created
    <3>7. ASSUME NEW d \in Calls, NEW s \in Sids, Exchange(d, s) PROVE FALSE
      BY <1>0, <2>1, <3>7 DEF Exchange, LockOK, Inside
    <3> QED
      BY <1>0, <2>1, <3>1, <3>2, <3>4, <3>6, <3>7, Frame
  <2>2. ASSUME NEW s \in Sids, Exchange(c, s)
        PROVE  \E h \in history' :
                 /\ h.token = call'[c].token /\ h.sid = call'[c].sid /\ h.to = call'[c].to
                 /\ h.boot = boot' /\ h.agent = AgentOf[c]
                 /\ session'[h.sid].prev = h.token /\ session'[h.sid].current = h.to
    <3>1. PICK g :
         /\ g.token = call[c].token /\ g.sid = s /\ g.to = minted + 1 /\ g.at = call[c].at
         /\ g.agent = AgentOf[c] /\ g.boot = boot
         /\ history' = history \cup {g}
         /\ session'[s].current = minted + 1 /\ session'[s].prev = call[c].token
      BY <1>0, <2>2, Exchanged
    <3>2. call'[c].token = call[c].token /\ call'[c].sid = s /\ call'[c].to = minted + 1
      <4>1. call[c] \in Request /\ call \in [Calls -> Request]
        BY <1>0 DEF TypeOK
      <4> QED
        BY <2>2, <4>1 DEF Exchange, Request
    <3> QED
      BY <2>2, <3>1, <3>2 DEF Exchange
  <2> QED
    BY <1>0, <1>1, <2>1, <2>2, CallFrame DEF Follows
<1>2. ASSUME NEW c \in Calls, call'[c].pc = "refuse"
      PROVE  /\ call'[c].sid \in Sids
             /\ session'[call'[c].sid].current # NoToken
             /\ session'[call'[c].sid].revoked
  <2>0. call[c] \in Request /\ call \in [Calls -> Request]
    BY <1>0 DEF TypeOK
  <2>1. CASE call[c].pc = "refuse" /\ call'[c] = call[c]
    <3>1. call[c].sid \in Sids /\ Made(call[c].sid) /\ session[call[c].sid].revoked
      BY <1>0, <2>1 DEF RotationOK
    <3>2. ASSUME NEW d \in Calls, NEW s \in Sids, Exchange(d, s) PROVE FALSE
      BY <1>0, <2>1, <3>2 DEF Exchange, LockOK, Inside
    <3>3. ASSUME NEW d \in Calls, NEW s \in Sids, CreateSession(d, s)
          PROVE  session'[call[c].sid] = session[call[c].sid]
      BY <1>0, <3>1, <3>3, Created
    <3> QED
      BY <1>0, <2>1, <3>1, <3>2, <3>3, Frame DEF SameTokens, Made
  <2>2. CASE RecheckFails(c)
    <3>1. PICK h \in history : h.sid = call[c].sid
      BY <1>0, <2>2 DEF RotationOK, Rotating, RecheckFails
    <3>2. call[c].sid \in Sids /\ Made(call[c].sid)
      BY <1>0, <3>1, NewToken DEF TokensOK
    <3>3. call'[c].sid = call[c].sid
      BY <2>0, <2>2 DEF RecheckFails, Request
    <3>4. /\ session'[call[c].sid].revoked
          /\ session'[call[c].sid].current = session[call[c].sid].current
      BY <1>0, <2>2, <3>2, Revoking DEF RecheckFails
    <3> QED
      BY <3>2, <3>3, <3>4 DEF Made
  <2>3. ASSUME NEW s \in Sids, DetectReuse(c, s)
        PROVE  /\ call'[c].sid \in Sids
               /\ session'[call'[c].sid].current # NoToken
               /\ session'[call'[c].sid].revoked
    <3>1. call'[c].sid = s
      BY <2>0, <2>3 DEF DetectReuse, Request
    <3>2. Made(s)
      BY <1>0, <2>3 DEF DetectReuse, HistoryOf, TokensOK
    <3>3. session'[s].revoked /\ session'[s].current = session[s].current
      BY <1>0, <2>3, Revoking DEF DetectReuse
    <3> QED
      BY <3>1, <3>2, <3>3 DEF Made
  <2> QED
    BY <1>0, <1>2, <2>1, <2>2, <2>3, CallFrame DEF Follows
<1> QED
  BY <1>1, <1>2 DEF RotationOK, Rotating, Made

-----------------------------------------------------------------------------
(* The cache and the answers.                                              *)

\* Few steps end a rotation, add to the cache or answer a refresh.
Quiet ==
  /\ \A c \in Calls : Rotating(c) => call'[c] = call[c]
  /\ cache' = cache \/ cache' = Unexpired

CacheChange ==
  /\ \/ Quiet \/ Crash
     \/ \E c \in Calls : Recheck(c) \/ RecheckFails(c)
     \/ \E c \in Calls, s \in Sids : CreateSession(c, s)
  /\ \/ answers' = answers
     \/ \E c \in Calls : Recheck(c)
     \/ \E c \in Calls, s \in Sids : Replay(c, s)

LEMMA CacheFrame ==
  ASSUME TypeOK, [Next]_vars
  PROVE  CacheChange
<1> USE DEF server, revoked, identity
<1>0. call \in [Calls -> Request]
  BY DEF TypeOK
<1>1. ASSUME call' = call, cache' = cache, answers' = answers PROVE CacheChange
  BY <1>1 DEF CacheChange, Quiet
<1>2. ASSUME NEW d \in Calls, ~Rotating(d), NEW r, call' = [call EXCEPT ![d] = r],
             cache' \in {cache, Unexpired}
      PROVE  Quiet
  BY <1>0, <1>2 DEF Quiet
<1>3. CASE Crash
  BY <1>3 DEF CacheChange, Crash
<1>4. ASSUME NEW d \in Calls, Call(d) \/ Deliver(d) \/ Lose(d) \/ LookUp(d) \/ Reject(d) \/ Refuse(d)
      PROVE  CacheChange
  BY <1>2, <1>4 DEF CacheChange, Call, Deliver, Lose, LookUp, Reject, Refuse, Rotating
<1>5. ASSUME NEW d \in Calls, EnterRotate(d) PROVE CacheChange
  BY <1>0, <1>5 DEF CacheChange, EnterRotate, Rotating, Quiet
<1>6. ASSUME NEW d \in Calls, RecheckFails(d) PROVE CacheChange
  BY <1>6 DEF CacheChange, RecheckFails
<1>7. ASSUME NEW d \in Calls, Recheck(d) PROVE CacheChange
  BY <1>7 DEF CacheChange
<1>8. ASSUME NEW d \in Calls, NEW s \in Sids, CreateSession(d, s) PROVE CacheChange
  BY <1>8 DEF CacheChange, CreateSession
<1>9. ASSUME NEW d \in Calls, NEW s \in Sids, Exchange(d, s) PROVE CacheChange
  BY <1>0, <1>9 DEF CacheChange, Exchange, Rotating, Quiet
<1>10. ASSUME NEW d \in Calls, NEW s \in Sids, Replay(d, s) PROVE CacheChange
  BY <1>0, <1>10 DEF CacheChange, Replay, Rotating, Quiet, Unexpired
<1>11. ASSUME NEW d \in Calls, NEW s \in Sids, DetectReuse(d, s) PROVE CacheChange
  BY <1>0, <1>11 DEF CacheChange, DetectReuse, Rotating, Quiet, Unexpired
<1>12. ASSUME NEW s \in Sids, RevokeSession(s) \/ NoteRevoked(s) PROVE CacheChange
  BY <1>1, <1>12 DEF RevokeSession, NoteRevoked
<1>13. ASSUME NEW S \in SUBSET Sids, CliRevoke(S) PROVE CacheChange
  BY <1>1, <1>13 DEF CliRevoke
<1>14. ASSUME Tick \/ RevokeAll \/ EndSessions \/ Delist \/ Enlist \/ LoadRevoked \/ LoadFails
              \/ UNCHANGED vars
       PROVE  CacheChange
  BY <1>1, <1>14 DEF Tick, RevokeAll, EndSessions, Delist, Enlist, LoadRevoked, LoadFails, vars
<1> QED
  BY <1>3, <1>4, <1>5, <1>6, <1>7, <1>8, <1>9, <1>10, <1>11, <1>12, <1>13, <1>14 DEF Next

\* The history row of the rotation a call has under way.
LEMMA RotationRow ==
  ASSUME ChainInvariant, NEW c \in Calls, Rotating(c), NEW h \in history, h.token = call[c].token
  PROVE  /\ h.sid = call[c].sid /\ h.to = call[c].to /\ h.boot = boot /\ h.agent = AgentOf[c]
         /\ session[h.sid].prev = h.token /\ session[h.sid].current = h.to
  BY DEF ChainInvariant, RotationOK, TokensOK

\* There is one call inside.
LEMMA OneInside ==
  ASSUME LockOK, NEW c \in Calls, NEW d \in Calls, call[c].pc \in Inside, call[d].pc \in Inside
  PROVE  c = d
  BY DEF LockOK

LEMMA CacheStep ==
  ASSUME ChainInvariant, [Next]_vars
  PROVE  CacheOK'
<1>0. TypeOK /\ LockOK /\ TokensOK /\ RotationOK /\ CacheOK
  BY DEF ChainInvariant
<1>1. CASE Quiet /\ SameTokens
  BY <1>0, <1>1, NewToken DEF CacheOK, Quiet, Unexpired, SameTokens, Rotating
<1>2. CASE Crash
  BY <1>2 DEF Crash, CacheOK
<1>3. ASSUME NEW c \in Calls, Recheck(c) PROVE CacheOK'
  <2>1. UNCHANGED <<history, session>> /\ Rotating(c)
    BY <1>3 DEF Recheck, server, Rotating
  <2>2. \E h \in history : h.token = call[c].token
    BY <1>0, <2>1 DEF RotationOK
  <2>3. ASSUME NEW e \in cache', e.key # call[c].token
        PROVE  e \in cache
    BY <1>3, <2>3 DEF Recheck, GraceStore, Unexpired
  <2>4. ASSUME NEW e \in cache', e.key = call[c].token
        PROVE  e.to = call[c].to
    BY <1>3, <2>4 DEF Recheck, GraceStore
  <2>5. ASSUME NEW e \in cache', NEW h \in history, h.token = e.key
        PROVE  h.to = e.to \/ session[h.sid].revoked
    <3>1. CASE e.key = call[c].token
      BY <2>1, <2>4, <2>5, <3>1, RotationRow
    <3>2. CASE e.key # call[c].token
      BY <1>0, <2>1, <2>3, <2>5, <3>2, OneInside DEF CacheOK, Rotating, Inside
    <3> QED
      BY <3>1, <3>2
  <2>6. \A e \in cache' : e.key # NoToken
    BY <1>0, <2>2, <2>3 DEF CacheOK, TokensOK
  <2> QED
    BY <2>1, <2>5, <2>6 DEF CacheOK
<1>4. ASSUME NEW c \in Calls, RecheckFails(c) PROVE CacheOK'
  <2>1. cache' = cache /\ history' = history /\ Rotating(c)
    BY <1>4 DEF RecheckFails, Rotating
  <2>2. \A s \in Sids : session'[s].revoked <=> (session[s].revoked \/ s = call[c].sid)
    BY <1>0, <1>4, Revoking DEF RecheckFails
  <2>3. ASSUME NEW e \in cache, NEW h \in history, h.token = e.key
        PROVE  h.to = e.to \/ session'[h.sid].revoked
    <3>1. h.sid \in Sids
      BY <1>0, NewToken
    <3>2. CASE \E d \in Calls : Rotating(d) /\ call[d].token = e.key
      <4>1. call[c].token = e.key
        BY <1>0, <2>1, <3>2, OneInside DEF Rotating, Inside
      <4>2. h.sid = call[c].sid
        BY <2>1, <2>3, <4>1, RotationRow
      <4> QED
        BY <2>2, <3>1, <4>2
    <3> QED
      BY <1>0, <2>2, <2>3, <3>1, <3>2 DEF CacheOK
  <2> QED
    BY <1>0, <2>1, <2>3 DEF CacheOK
<1>5. ASSUME NEW c \in Calls, NEW s \in Sids, CreateSession(c, s) PROVE CacheOK'
  <2>1. ASSUME NEW d \in Calls, Rotating(d) PROVE call'[d] = call[d]
    BY <1>0, <1>5, <2>1 DEF CreateSession, Rotating, TypeOK
  <2>2. history' = history /\ \A h \in history : session'[h.sid] = session[h.sid]
    BY <1>0, <1>5, Created, NewToken DEF TokensOK
  <2>3. ASSUME NEW e \in cache' PROVE e \in cache \/ e.key = minted + 1
    BY <1>5 DEF CreateSession, GraceStore, Unexpired
  <2>4. minted + 1 # NoToken /\ \A h \in history : h.token # minted + 1
    BY <1>0, NewToken
  <2> QED
    BY <1>0, <2>1, <2>2, <2>3, <2>4 DEF CacheOK, Rotating
<1>6. ASSUME NEW c \in Calls, NEW s \in Sids, Exchange(c, s) PROVE CacheOK'
  <2>1. PICK g :
         /\ g.token = call[c].token
         /\ history' = history \cup {g}
         /\ \A t \in Sids \ {s} : session'[t] = session[t]
    BY <1>0, <1>6, Exchanged
  <2>2. session'[s].revoked = session[s].revoked /\ cache' = cache
    BY <1>0, <1>6 DEF Exchange, TypeOK, Row
  <2>3. call'[c].pc = "recheck" /\ call'[c].token = call[c].token
    BY <1>0, <1>6 DEF Exchange, TypeOK, Request
  <2>4. ASSUME NEW d \in Calls PROVE ~Rotating(d)
    BY <1>0, <1>6, OneInside DEF Rotating, Inside, Exchange
  <2> QED
    BY <1>0, <2>1, <2>2, <2>3, <2>4, NewToken DEF CacheOK, Rotating
<1> QED
  BY <1>0, <1>1, <1>2, <1>3, <1>4, <1>5, <1>6, CacheFrame, Frame DEF CacheChange

LEMMA AnswersStep ==
  ASSUME ChainInvariant, [Next]_vars
  PROVE  AnswersOK'
<1>0. TypeOK /\ LockOK /\ TokensOK /\ RotationOK /\ CacheOK /\ AnswersOK
  BY DEF ChainInvariant
<1>1. history \subseteq history'
  BY <1>0, Frame, Created, Exchanged DEF SameTokens
<1>2. CASE answers' = answers
  BY <1>0, <1>1, <1>2 DEF AnswersOK
<1>3. ASSUME NEW c \in Calls, Recheck(c) PROVE AnswersOK'
  <2>1. answers' = answers \cup {[from |-> call[c].token, to |-> call[c].to]} /\ Rotating(c)
    BY <1>3 DEF Recheck, Rotating
  <2>2. \E h \in history : h.token = call[c].token /\ h.to = call[c].to
    BY <1>0, <2>1 DEF RotationOK
  <2> QED
    BY <1>0, <1>1, <2>1, <2>2 DEF AnswersOK
<1>4. ASSUME NEW c \in Calls, NEW s \in Sids, Replay(c, s) PROVE AnswersOK'
  <2>1. PICK e \in Replayable(c, s) :
          answers' = answers \cup {[from |-> call[c].token, to |-> e.to]}
    BY <1>4 DEF Replay
  <2>2. e \in cache /\ e.key = call[c].token /\ ~session[s].revoked
    BY DEF Replayable, InGrace, GraceLookup, Unexpired
  <2>3. PICK h \in history : h.token = call[c].token /\ h.sid = s
    BY <1>0, <1>4, <2>2 DEF TokensOK, CacheOK, Replay
  <2>4. ASSUME NEW d \in Calls PROVE ~Rotating(d)
    BY <1>0, <1>4, OneInside DEF Rotating, Inside, Replay
  <2>5. h.to = e.to
    BY <1>0, <2>2, <2>3, <2>4 DEF CacheOK
  <2> QED
    BY <1>0, <1>1, <2>1, <2>3, <2>5 DEF AnswersOK
<1> QED
  BY <1>0, <1>2, <1>3, <1>4, CacheFrame DEF CacheChange

-----------------------------------------------------------------------------
(* The chain of tokens.                                                    *)

LEMMA InitChain == Init => ChainInvariant
<1> SUFFICES ASSUME Init PROVE ChainInvariant
  OBVIOUS
<1>1. \A c \in Calls : call[c].pc = "free"
  BY DEF Init, NoRequest
<1>2. LockOK
  BY <1>1, NamesAssumption DEF Init, LockOK, Inside
<1>3. TokensOK
  BY DEF Init, TokensOK, Made, NoRow
<1>4. RotationOK /\ CacheOK /\ AnswersOK
  BY <1>1 DEF Init, RotationOK, Rotating, CacheOK, AnswersOK
<1> QED
  BY <1>2, <1>3, <1>4, InitType DEF ChainInvariant

LEMMA ChainStep == ChainInvariant /\ [Next]_vars => ChainInvariant'
  BY TypeStep, LockStep, TokensStep, RotationStep, CacheStep, AnswersStep DEF ChainInvariant

\* Lock, tables, rotations under way, cache and answers agree in every reachable state.
THEOREM ChainInvariance == Spec => []ChainInvariant
<1> QED
  BY InitChain, ChainStep, PTL DEF Spec

\* Types, in every reachable state.
THEOREM RefreshTypes == Spec => []TypeOK
<1>1. ChainInvariant => TypeOK
  BY DEF ChainInvariant
<1> QED
  BY <1>1, ChainInvariance, PTL

\* Every answer to a refresh token names the same successor (rotate and its grace path), for
\* any number of clients, of families and of restarts.
THEOREM FamiliesNeverFork == Spec => []NeverForked
<1>1. ChainInvariant => NeverForked
  BY DEF ChainInvariant, NeverForked, AnswersOK, TokensOK
<1> QED
  BY <1>1, ChainInvariance, PTL

-----------------------------------------------------------------------------
(* Calls and time.                                                         *)

LEMMA SecondsFloor ==
  ASSUME NEW a \in Nat, NEW n \in Nat, a * Hz <= n
  PROVE  a <= n \div Hz
  BY TimesAssumption, Z3

\* What becomes of a call's stamp, of one inside, of one about to be refused.
Moves(c) ==
  /\ call'[c].at \in {call[c].at, 0, Second}
  /\ call'[c].pc = "entered" => call'[c] = call[c] \/ EnterRotate(c)
  /\ call[c].pc = "refuse" => call'[c] = call[c] \/ Refuse(c) \/ Crash
  /\ call[c].pc = "entered" /\ call'[c].pc = "answered" => \E s \in Sids : Replay(c, s)

LEMMA MoveFrame ==
  ASSUME TypeOK, [Next]_vars, NEW c \in Calls
  PROVE  Moves(c)
<1> USE DEF server, revoked, identity
<1>0. call \in [Calls -> Request] /\ call[c] \in Request
  BY DEF TypeOK
<1>1. ASSUME call'[c] = call[c] PROVE Moves(c)
  BY <1>1 DEF Moves
<1>2. ASSUME NEW d \in Calls, NEW r, call' = [call EXCEPT ![d] = r], call[d].pc # "refuse",
             r.pc # "entered", r.at \in {call[d].at, 0, Second},
             call[d].pc # "entered" \/ r.pc # "answered"
      PROVE  Moves(c)
  BY <1>0, <1>2 DEF Moves
<1>b. /\ NoRequest.pc = "free" /\ NoRequest.at = 0
      /\ [NoRequest EXCEPT !.pc = "login"].pc = "login" /\ [NoRequest EXCEPT !.pc = "login"].at = 0
      /\ \A t : /\ [NoRequest EXCEPT !.pc = "sent", !.token = t].pc = "sent"
                /\ [NoRequest EXCEPT !.pc = "sent", !.token = t].at = 0
                /\ [NoRequest EXCEPT !.pc = "answered", !.to = t].pc = "answered"
                /\ [NoRequest EXCEPT !.pc = "answered", !.to = t].at = 0
  BY DEF NoRequest
<1>3. CASE Crash
  BY <1>3, <1>b DEF Crash, Moves
<1>4. ASSUME NEW d \in Calls, Call(d) \/ Deliver(d) \/ Lose(d) \/ LookUp(d) \/ Reject(d) \/ Recheck(d)
      PROVE  Moves(c)
  <2>1. CASE Call(d)
    <3>1. /\ call' = [call EXCEPT ![d] = [NoRequest EXCEPT !.pc = "sent", !.token = store]]
          /\ call[d].pc = "free"
      BY <2>1 DEF Call
    <3> QED
      BY SMT, ZenonT(60), <1>b, <1>2, <3>1
  <2>2. CASE LookUp(d)
    <3>1. call' = [call EXCEPT ![d] = [NoRequest EXCEPT !.pc = "login"]] /\ call[d].pc = "free"
      BY <2>2 DEF LookUp
    <3> QED
      BY <1>b, <1>2, <3>1
  <2>3. CASE Reject(d) \/ Deliver(d) \/ Lose(d)
    <3>1. call' = [call EXCEPT ![d] = NoRequest] /\ call[d].pc # "refuse"
      BY <2>3 DEF Reject, Deliver, Lose
    <3> QED
      BY <1>b, <1>2, <3>1
  <2>4. CASE Recheck(d)
    <3>1. /\ call' = [call EXCEPT ![d] = [NoRequest EXCEPT !.pc = "answered", !.to = call[d].to]]
          /\ call[d].pc = "recheck"
      BY <2>4 DEF Recheck
    <3>2. CASE d = c
      BY <1>0, <1>b, <3>1, <3>2 DEF Moves
    <3>3. CASE d # c
      BY <1>0, <1>1, <3>1, <3>3
    <3> QED
      BY <3>2, <3>3
  <2> QED
    BY <1>4, <2>1, <2>2, <2>3, <2>4
<1>5. ASSUME NEW d \in Calls, EnterRotate(d) PROVE Moves(c)
  <2>2. CASE d = c
    <3>1. call'[c] = [call[c] EXCEPT !.pc = "entered", !.at = Second] /\ call[c].pc = "sent"
      BY <1>0, <1>5, <2>2 DEF EnterRotate
    <3>2. call'[c].pc = "entered" /\ call'[c].at = Second
      BY <1>0, <3>1 DEF Request
    <3> QED
      BY <1>5, <2>2, <3>1, <3>2 DEF Moves
  <2>3. CASE d # c
    BY <1>0, <1>1, <1>5, <2>3 DEF EnterRotate
  <2> QED
    BY <2>2, <2>3
<1>6. ASSUME NEW d \in Calls, RecheckFails(d) PROVE Moves(c)
  BY <1>0, <1>6 DEF RecheckFails, Moves, Request
<1>7. ASSUME NEW d \in Calls, Refuse(d) PROVE Moves(c)
  <2>1. CASE d = c
    BY <1>0, <1>7, <1>b, <2>1 DEF Refuse, Moves
  <2>2. CASE d # c
    BY <1>0, <1>1, <1>7, <2>2 DEF Refuse
  <2> QED
    BY <2>1, <2>2
<1>8. ASSUME NEW d \in Calls, NEW s \in Sids, CreateSession(d, s) PROVE Moves(c)
  <2>1. /\ call' = [call EXCEPT ![d] = [NoRequest EXCEPT !.pc = "answered", !.to = minted + 1]]
        /\ call[d].pc = "login"
    BY <1>8 DEF CreateSession
  <2> QED
    BY SMT, ZenonT(60), <1>b, <1>2, <2>1
<1>9. ASSUME NEW d \in Calls, NEW s \in Sids, Exchange(d, s) PROVE Moves(c)
  BY <1>0, <1>9 DEF Exchange, Moves, Request
<1>10. ASSUME NEW d \in Calls, NEW s \in Sids, Replay(d, s) PROVE Moves(c)
  <2>1. PICK t : call' = [call EXCEPT ![d] = [NoRequest EXCEPT !.pc = "answered", !.to = t]]
    BY <1>10 DEF Replay
  <2>2. call[d].pc = "entered"
    BY <1>10 DEF Replay
  <2> QED
    BY <1>0, <1>10, <2>1, <2>2 DEF Moves, NoRequest
<1>11. ASSUME NEW d \in Calls, NEW s \in Sids, DetectReuse(d, s) PROVE Moves(c)
  BY <1>0, <1>11 DEF DetectReuse, Moves, Request
<1>12. ASSUME NEW s \in Sids, RevokeSession(s) \/ NoteRevoked(s) PROVE Moves(c)
  BY <1>1, <1>12 DEF RevokeSession, NoteRevoked
<1>13. ASSUME NEW S \in SUBSET Sids, CliRevoke(S) PROVE Moves(c)
  BY <1>1, <1>13 DEF CliRevoke
<1>14. ASSUME Tick \/ RevokeAll \/ EndSessions \/ Delist \/ Enlist \/ LoadRevoked \/ LoadFails
              \/ UNCHANGED vars
       PROVE  Moves(c)
  BY <1>1, <1>14 DEF Tick, RevokeAll, EndSessions, Delist, Enlist, LoadRevoked, LoadFails, vars
<1> QED
  BY <1>3, <1>4, <1>5, <1>6, <1>7, <1>8, <1>9, <1>10, <1>11, <1>12, <1>13, <1>14 DEF Next

\* Time, restarts and loads only move on.
Onward ==
  /\ now' \in Nat /\ now <= now'
  /\ boot' = boot \/ Crash
  /\ boot <= boot'
  /\ loadedAt' \in {loadedAt, now, NotLoaded}

LEMMA TimeFrame ==
  ASSUME TypeOK, [Next]_vars
  PROVE  Onward
<1> USE DEF server, revoked, identity
<1>0. now \in Nat /\ boot \in Nat
  BY DEF TypeOK
<1>1. ASSUME UNCHANGED <<now, boot, loadedAt>> PROVE Onward
  BY <1>0, <1>1 DEF Onward
<1>2. CASE Tick
  BY <1>0, <1>2 DEF Tick, Onward
<1>3. CASE Crash
  BY <1>0, <1>3 DEF Crash, Onward
<1>4. CASE LoadRevoked \/ LoadFails
  BY <1>0, <1>4 DEF LoadRevoked, LoadFails, Onward
<1>5. ASSUME NEW d \in Calls, Call(d) \/ Deliver(d) \/ Lose(d) \/ LookUp(d) \/ EnterRotate(d)
                              \/ Reject(d) \/ Recheck(d) \/ RecheckFails(d) \/ Refuse(d)
      PROVE  Onward
  BY <1>1, <1>5 DEF Call, Deliver, Lose, LookUp, EnterRotate, Reject, Recheck, RecheckFails, Refuse
<1>6. ASSUME NEW d \in Calls, NEW s \in Sids,
             CreateSession(d, s) \/ Exchange(d, s) \/ Replay(d, s) \/ DetectReuse(d, s)
      PROVE  Onward
  BY <1>1, <1>6 DEF CreateSession, Exchange, Replay, DetectReuse
<1>7. ASSUME NEW s \in Sids, RevokeSession(s) \/ NoteRevoked(s) PROVE Onward
  BY <1>1, <1>7 DEF RevokeSession, NoteRevoked
<1>8. ASSUME NEW S \in SUBSET Sids, CliRevoke(S) PROVE Onward
  BY <1>1, <1>8 DEF CliRevoke
<1>9. ASSUME RevokeAll \/ EndSessions \/ Delist \/ Enlist \/ UNCHANGED vars PROVE Onward
  BY <1>1, <1>9 DEF RevokeAll, EndSessions, Delist, Enlist, vars
<1> QED
  BY <1>2, <1>3, <1>4, <1>5, <1>6, <1>7, <1>8, <1>9 DEF Next

LEMMA StampsStep ==
  ASSUME ChainInvariant, StampsOK, [Next]_vars
  PROVE  StampsOK'
<1>0. TypeOK /\ LockOK /\ TokensOK /\ now \in Nat /\ boot \in Nat /\ Hz \in Nat
  BY TimesAssumption DEF ChainInvariant, TypeOK
<1>1. now' \in Nat /\ now <= now' /\ boot' \in Nat /\ boot <= boot' /\ loadedAt' \in {loadedAt, now, NotLoaded}
  BY <1>0, TimeFrame, TypeStep DEF Onward, TypeOK, ChainInvariant
<1>2. Second \in Nat /\ Second * Hz <= now
  BY <1>0, WholeSeconds DEF Second
<1>3. ASSUME NEW n \in Nat, n * Hz <= now PROVE n * Hz <= now'
  <2>1. n * Hz \in Nat
    BY <1>0, SecondsAdd
  <2> QED
    BY <1>0, <1>1, <1>3, <2>1
<1>4. ASSUME NEW c \in Calls
      PROVE  call[c].at \in Nat /\ call[c].at * Hz <= now /\ call'[c].at \in {call[c].at, 0, Second}
    BY <1>0, MoveFrame DEF StampsOK, TypeOK, Request, Moves
<1>5. 0 * Hz <= now
  BY <1>0
<1>6. ASSUME NEW c \in Calls PROVE call'[c].at * Hz <= now'
  BY <1>2, <1>3, <1>4, <1>5
<1>7. ASSUME NEW s \in Sids
      PROVE  session[s].rotatedAt \in Nat /\ session[s].rotatedAt * Hz <= now
  BY <1>0 DEF StampsOK, TypeOK, Row
<1>8. ASSUME NEW s \in Sids, session'[s].rotatedAt # session[s].rotatedAt
      PROVE  \/ session'[s].rotatedAt = 0
             \/ \E c \in Calls : Exchange(c, s) /\ session'[s].rotatedAt = call[c].at
  <2>1. ASSUME NEW c \in Calls, NEW t \in Sids, CreateSession(c, t)
        PROVE  session'[s].rotatedAt \in {session[s].rotatedAt, 0}
    BY <1>0, <2>1 DEF CreateSession, NoRow, TypeOK
  <2>2. ASSUME NEW c \in Calls, NEW t \in Sids, Exchange(c, t)
        PROVE  t = s /\ session'[s].rotatedAt = call[c].at
    BY <1>0, <1>8, <2>2, Exchanged
  <2> QED
    BY <1>0, <1>8, <2>1, <2>2, Frame DEF SameTokens
<1>9. ASSUME NEW s \in Sids PROVE session'[s].rotatedAt * Hz <= now'
  BY <1>3, <1>4, <1>5, <1>7, <1>8
<1>10. ASSUME NEW h \in history' PROVE h.at * Hz <= now' /\ h.boot <= boot'
  <2>1. ASSUME h \in history PROVE h.at * Hz <= now' /\ h.boot <= boot'
    BY <1>0, <1>1, <1>3, <2>1 DEF StampsOK, TypeOK, HistoryRow
  <2>2. ASSUME NEW c \in Calls, NEW s \in Sids, Exchange(c, s), h \notin history
        PROVE  h.at = call[c].at /\ h.boot = boot
    BY <1>0, <2>2, Exchanged
  <2>3. h \in history \/ \E c \in Calls, s \in Sids : Exchange(c, s)
    BY <1>0, Frame, Created DEF SameTokens
  <2> QED
    BY <1>0, <1>1, <1>3, <1>4, <2>1, <2>2, <2>3
<1>11. ASSUME NEW s \in Sids, NEW c \in Calls, call'[c].pc = "entered"
       PROVE  session'[s].rotatedAt <= call'[c].at
  <2>1. ASSUME EnterRotate(c) PROVE session'[s].rotatedAt <= call'[c].at
    <3>1. call'[c].at = Second /\ session' = session
      BY <1>0, <2>1 DEF EnterRotate, server, TypeOK
    <3> QED
      BY <1>0, <1>7, <3>1, SecondsFloor DEF Second
  <2>2. ASSUME call'[c] = call[c] PROVE session'[s].rotatedAt <= call'[c].at
    <3>1. session[s].rotatedAt <= call[c].at
      BY <1>11, <2>2 DEF StampsOK
    <3>2. ASSUME NEW d \in Calls, Exchange(d, s) PROVE FALSE
      <4>1. d = c
        BY <1>0, <1>11, <2>2, <3>2, OneInside DEF Exchange, Inside
      <4> QED
        BY <1>0, <1>11, <3>2, <4>1 DEF Exchange, TypeOK, Request
    <3> QED
      BY <1>4, <1>7, <1>8, <2>2, <3>1, <3>2
  <2> QED
    BY <1>0, <1>11, <2>1, <2>2, MoveFrame DEF Moves
<1>12. loadedAt' <= now'
  BY <1>0, <1>1 DEF StampsOK, TypeOK, NotLoaded
<1> QED
  BY <1>6, <1>9, <1>10, <1>11, <1>12 DEF StampsOK

-----------------------------------------------------------------------------
(* The window.                                                             *)

\* A cache entry of a rotation that is in its window is not pruned.
LEMMA Kept ==
  ASSUME TypeOK, NEW h \in history, now <= (h.at + Grace) * Hz,
         NEW e \in cache, h.at * Hz <= e.stored
  PROVE  e \in Unexpired
<1>1. h.at \in Nat /\ e.stored \in Nat /\ now \in Nat /\ Grace \in Nat
  BY TimesAssumption DEF TypeOK, HistoryRow, Entry
<1>2. (h.at + Grace) * Hz = h.at * Hz + Grace * Hz /\ h.at * Hz \in Nat /\ Grace * Hz \in Nat
  BY <1>1, SecondsAdd
<1> QED
  BY <1>1, <1>2 DEF Unexpired

LEMMA WindowStep ==
  ASSUME ChainInvariant, StampsOK, WindowOK, [Next]_vars
  PROVE  WindowOK'
<1>0. TypeOK /\ LockOK /\ TokensOK /\ RotationOK
  BY DEF ChainInvariant
<1>1. Onward
  BY <1>0, TimeFrame
<1> SUFFICES ASSUME NEW h \in history', h.boot = boot', session'[h.sid].prev = h.token,
                    ~session'[h.sid].revoked, now' <= (h.at + Grace) * Hz
             PROVE  \/ \E c \in Calls : call'[c].pc = "recheck" /\ call'[c].token = h.token
                    \/ \E e \in cache' : e.key = h.token /\ e.agent = h.agent /\ h.at * Hz <= e.stored
  BY DEF WindowOK, Rotating
<1> DEFINE Goal == \/ \E c \in Calls : call'[c].pc = "recheck" /\ call'[c].token = h.token
                   \/ \E e \in cache' : e.key = h.token /\ e.agent = h.agent /\ h.at * Hz <= e.stored
<1>2. ASSUME NEW c \in Calls, NEW s \in Sids, Exchange(c, s), h \notin history PROVE Goal
  <2>1. h.token = call[c].token
    BY <1>0, <1>2, Exchanged
  <2>2. call'[c].pc = "recheck" /\ call'[c].token = call[c].token
    BY <1>0, <1>2 DEF Exchange, TypeOK, Request
  <2> QED
    BY <2>1, <2>2
<1>3. h \in history \/ \E c \in Calls, s \in Sids : Exchange(c, s)
  BY <1>0, Frame, Created DEF SameTokens
<1>4. ASSUME h \in history PROVE Goal
  <2>1. h.sid \in Sids /\ Made(h.sid) /\ h.token # session[h.sid].current /\ h.token # NoToken
    BY <1>0, <1>4, NewToken DEF TokensOK
  <2>2. session[h.sid].prev = h.token /\ ~session[h.sid].revoked
    <3>1. CASE SameTokens
      BY <2>1, <3>1 DEF SameTokens
    <3>2. ASSUME NEW c \in Calls, NEW s \in Sids, CreateSession(c, s)
          PROVE  session'[h.sid] = session[h.sid]
      BY <1>0, <2>1, <3>2, Created
    <3>3. ASSUME NEW c \in Calls, NEW s \in Sids, Exchange(c, s)
          PROVE  session'[h.sid] = session[h.sid]
      BY <1>0, <2>1, <3>3, Exchanged
    <3> QED
      BY <1>0, <3>1, <3>2, <3>3, Frame
  <2>3. ~Crash /\ boot' = boot /\ now <= (h.at + Grace) * Hz
    <3>1. ~Crash
      BY <1>0, <1>4 DEF Crash, StampsOK, TypeOK, HistoryRow
    <3>2. (h.at + Grace) * Hz \in Nat /\ now \in Nat /\ now' \in Nat /\ now <= now'
      BY <1>0, <1>1, <1>4, SecondsAdd, TimesAssumption DEF TypeOK, HistoryRow, Onward
    <3> QED
      BY <1>1, <3>1, <3>2 DEF Onward
  <2>4. \/ \E c \in Calls : Rotating(c) /\ call[c].token = h.token
        \/ \E e \in cache : e.key = h.token /\ e.agent = h.agent /\ h.at * Hz <= e.stored
    BY <1>4, <2>2, <2>3 DEF WindowOK
  <2>5. \A e \in cache : h.at * Hz <= e.stored => e \in Unexpired
    BY <1>0, <1>4, <2>3, Kept
  <2>6. ASSUME NEW c \in Calls, Recheck(c), call[c].token = h.token PROVE Goal
    <3>1. h.agent = AgentOf[c]
      BY <1>4, <2>6, RotationRow DEF Recheck, Rotating
    <3>2. [key |-> call[c].token, to |-> call[c].to, agent |-> AgentOf[c], stored |-> now] \in cache'
      BY <2>6 DEF Recheck, GraceStore
    <3> QED
      BY <1>4, <2>6, <3>1, <3>2 DEF StampsOK
  <2>7. ASSUME NEW c \in Calls, Recheck(c), call[c].token # h.token PROVE Goal
    BY <1>0, <2>4, <2>5, <2>7, OneInside DEF Recheck, GraceStore, Rotating, Inside
  <2>8. ASSUME NEW c \in Calls, RecheckFails(c) PROVE Goal
    <3>1. call[c].token # h.token
      <4>1. SUFFICES ASSUME call[c].token = h.token PROVE FALSE
        OBVIOUS
      <4>2. h.sid = call[c].sid
        BY <1>4, <2>8, <4>1, RotationRow DEF RecheckFails, Rotating
      <4> QED
        BY <1>0, <2>1, <2>8, <4>2, Revoking DEF RecheckFails
    <3> QED
      BY <1>0, <2>4, <2>8, <3>1, OneInside DEF RecheckFails, Rotating, Inside
  <2>9. ASSUME NEW c \in Calls, NEW s \in Sids, CreateSession(c, s) PROVE Goal
    <3>1. \A d \in Calls : Rotating(d) => call'[d] = call[d]
      BY <1>0, <2>9 DEF CreateSession, Rotating, TypeOK
    <3>2. \A e \in cache : e.key = h.token /\ h.at * Hz <= e.stored => e \in cache'
      BY <1>0, <1>4, <2>5, <2>9, NewToken DEF CreateSession, GraceStore
    <3> QED
      BY <2>4, <3>1, <3>2 DEF Rotating
  <2>10. CASE Quiet
    BY <2>4, <2>5, <2>10 DEF Quiet, Rotating
  <2> QED
    BY <1>0, <2>3, <2>6, <2>7, <2>8, <2>9, <2>10, CacheFrame DEF CacheChange
<1> QED
  BY <1>2, <1>3, <1>4

\* A client that presents the token consumed last is forgiven, in every such step.
LEMMA RetryStep ==
  ASSUME ChainInvariant, StampsOK, WindowOK, [Next]_vars, NEW c \in Calls,
         call[c].pc = "entered", call'[c].pc = "refuse", NEW h \in history, h.token = call[c].token,
         session[h.sid].prev = h.token, ~session[h.sid].revoked, call[c].at < session[h.sid].cap,
         h.agent = AgentOf[c], h.boot = boot, Grace > 0, now <= (h.at + Grace) * Hz
  PROVE  FALSE
<1>0. TypeOK /\ LockOK /\ TokensOK
  BY DEF ChainInvariant
<1>1. PICK s \in Sids : DetectReuse(c, s)
  BY <1>0, CallFrame DEF Follows, RecheckFails
<1>2. h.sid = s
  BY <1>0, <1>1 DEF DetectReuse, HistoryOf, TokensOK
<1>3. session[s].rotatedAt = h.at
  BY <1>0, <1>2 DEF TokensOK
<1>4. session[s].rotatedAt <= call[c].at /\ call[c].at * Hz <= now
  BY DEF StampsOK
<1>5. call[c].at <= h.at + Grace
  <2>1. /\ call[c].at \in Nat /\ h.at + Grace \in Nat /\ now \in Nat
        /\ call[c].at * Hz \in Nat /\ (h.at + Grace) * Hz \in Nat
    <3>1. call[c].at \in Nat /\ h.at + Grace \in Nat /\ now \in Nat
      BY <1>0, TimesAssumption DEF TypeOK, Request, HistoryRow
    <3> QED
      BY <3>1, SecondsAdd
  <2>2. call[c].at * Hz <= (h.at + Grace) * Hz
    BY <1>4, <2>1
  <2> QED
    BY <2>1, <2>2, SecondsKeepOrder
<1>6. InGrace(s, call[c].at)
  <2>1. call[c].at \in Nat /\ h.at \in Nat /\ Grace \in Nat
    BY <1>0, TimesAssumption DEF TypeOK, Request, HistoryRow
  <2> QED
    BY <1>2, <1>3, <1>4, <1>5, <2>1 DEF InGrace
<1>7. \A d \in Calls : ~Rotating(d)
  BY <1>0, OneInside DEF Rotating, Inside
<1>8. PICK e \in cache : e.key = h.token /\ e.agent = h.agent /\ h.at * Hz <= e.stored
  BY <1>7 DEF WindowOK
<1>9. e \in Unexpired
  BY <1>0, <1>8, Kept
<1>10. Replayable(c, s) # {}
  BY <1>6, <1>8, <1>9 DEF Replayable, GraceLookup
<1> QED
  BY <1>1, <1>2, <1>10 DEF DetectReuse

\* A consumed token is answered in its window.
LEMMA ReplayInTime ==
  ASSUME ChainInvariant, [Next]_vars, NEW c \in Calls,
         call[c].pc = "entered", call'[c].pc = "answered", NEW h \in history, h.token = call[c].token
  PROVE  call[c].at <= h.at + Grace
<1>0. TypeOK /\ TokensOK /\ CacheOK
  BY DEF ChainInvariant
<1>1. PICK s \in Sids : Replay(c, s)
  BY <1>0, MoveFrame DEF Moves
<1>2. PICK e \in Replayable(c, s) : TRUE
  BY <1>1 DEF Replay
<1>3. e \in cache /\ e.key = call[c].token /\ call[c].at - session[s].rotatedAt <= Grace
  BY <1>2 DEF Replayable, InGrace, GraceLookup, Unexpired
<1>4. session[s].rotatedAt = h.at
  BY <1>0, <1>1, <1>3 DEF CacheOK, TokensOK, Replay
<1>5. call[c].at \in Nat /\ h.at \in Nat /\ Grace \in Nat
  BY <1>0, TimesAssumption DEF TypeOK, Request, HistoryRow
<1> QED
  BY <1>3, <1>4, <1>5

-----------------------------------------------------------------------------
(* Revocation.                                                             *)

\* What a step may do to the revoked families: nothing, with the notes still to come; ...
LEMMA RevokedStay ==
  ASSUME RevokedOK,
         \A s \in Sids : /\ session'[s].revoked = session[s].revoked
                         /\ session[s].revoked => session'[s].current = session[s].current
                                                  \/ session'[s].current # NoToken,
         cliRevokedAt' = cliRevokedAt, UNCHANGED <<loadedAt, loadFailed>>, noted \subseteq noted',
         unnoted \subseteq unnoted' \cup noted',
         \A c \in Calls : call[c].pc = "refuse" => call'[c] = call[c] \/ call[c].sid \in noted'
  PROVE  RevokedOK'
<1>1. \A s \in Sids : Pending(s) => Pending(s)' \/ s \in noted'
  BY DEF Pending
<1>2. \A s \in Sids : IF session'[s].revoked THEN session'[s].current # NoToken ELSE cliRevokedAt'[s] = 0
  BY DEF RevokedOK, Made
<1>3. ASSUME NEW s \in Sids, session'[s].revoked, s \notin noted', loadedAt' # NotLoaded,
             ~loadFailed'
      PROVE  IF cliRevokedAt'[s] = 0 THEN Pending(s)' ELSE loadedAt' <= cliRevokedAt'[s]
  BY <1>1, <1>3 DEF RevokedOK
<1> QED
  BY <1>2, <1>3 DEF RevokedOK, Made

\* ... a handler revokes families that it or another is about to note; ...
LEMMA RevokedByServer ==
  ASSUME TypeOK, RevokedOK, NEW S \in SUBSET Sids, Revoke(S, "server"), \A s \in S : Made(s),
         UNCHANGED <<noted, loadedAt, loadFailed>>,
         \A s \in Sids : Pending(s) \/ (s \in S /\ ~session[s].revoked) => Pending(s)'
  PROVE  RevokedOK'
<1>1. \A s \in Sids : /\ session'[s].revoked <=> (session[s].revoked \/ s \in S)
                      /\ session'[s].current = session[s].current
  BY Revoking
<1>2. cliRevokedAt' = cliRevokedAt
  <2>1. cliRevokedAt' = [s \in Sids |-> cliRevokedAt[s]]
    BY DEF Revoke
  <2> QED
    BY <2>1 DEF TypeOK
<1>3. \A s \in Sids : IF session'[s].revoked THEN session'[s].current # NoToken ELSE cliRevokedAt'[s] = 0
  BY <1>1, <1>2 DEF RevokedOK, Made
<1>4. ASSUME NEW s \in Sids, session'[s].revoked, s \notin noted', loadedAt' # NotLoaded,
             ~loadFailed'
      PROVE  IF cliRevokedAt'[s] = 0 THEN Pending(s)' ELSE loadedAt' <= cliRevokedAt'[s]
  BY <1>1, <1>2, <1>4 DEF RevokedOK
<1> QED
  BY <1>3, <1>4 DEF RevokedOK, Made

\* ... another process revokes live families.
LEMMA RevokedByOthers ==
  ASSUME TypeOK, StampsOK, RevokedOK, NEW S \in SUBSET Live, Revoke(S, "cli"),
         UNCHANGED <<noted, loadedAt, loadFailed, unnoted, call>>
  PROVE  RevokedOK'
<1>1. \A s \in Sids : /\ session'[s].revoked <=> (session[s].revoked \/ s \in S)
                      /\ session'[s].current = session[s].current
  BY Revoking
<1>2. \A s \in Sids : s \in S => Made(s) /\ ~session[s].revoked
  BY DEF Live
<1>3. \A s \in Sids : cliRevokedAt'[s] = IF s \in S THEN now ELSE cliRevokedAt[s]
  BY <1>2 DEF Revoke
<1>4. now # 0 /\ loadedAt <= now
  BY DEF TypeOK, StampsOK
<1>5. \A s \in Sids : IF session'[s].revoked THEN session'[s].current # NoToken ELSE cliRevokedAt'[s] = 0
  BY <1>1, <1>2, <1>3 DEF RevokedOK, Made
<1>6. \A s \in Sids : Pending(s)' <=> Pending(s)
  BY DEF Pending
<1>7. ASSUME NEW s \in Sids, session'[s].revoked, s \notin noted', loadedAt' # NotLoaded,
             ~loadFailed'
      PROVE  IF cliRevokedAt'[s] = 0 THEN Pending(s)' ELSE loadedAt' <= cliRevokedAt'[s]
  BY <1>1, <1>3, <1>4, <1>6, <1>7 DEF RevokedOK
<1> QED
  BY <1>5, <1>7 DEF RevokedOK, Made

LEMMA RevokedStep ==
  ASSUME ChainInvariant, StampsOK, RevokedOK, [Next]_vars
  PROVE  RevokedOK'
<1> USE DEF server, revoked, identity
<1>0. TypeOK /\ LockOK /\ TokensOK /\ RotationOK /\ call \in [Calls -> Request]
  BY DEF ChainInvariant, TypeOK
<1>1. ASSUME UNCHANGED <<session, cliRevokedAt, loadedAt, loadFailed, noted, unnoted>>,
             \A c \in Calls : call[c].pc = "refuse" => call'[c] = call[c]
      PROVE  RevokedOK'
  BY <1>1, RevokedStay
<1>2. ASSUME ~Crash, \A c \in Calls : ~Refuse(c)
      PROVE  \A c \in Calls : call[c].pc = "refuse" => call'[c] = call[c]
  BY <1>0, <1>2, MoveFrame DEF Moves
<1>3. CASE Crash
  <2>1. loadedAt' = NotLoaded /\ session' = session /\ cliRevokedAt' = cliRevokedAt
    BY <1>3 DEF Crash
  <2> QED
    BY <2>1 DEF RevokedOK, Made
<1>4. ASSUME NEW c \in Calls, Call(c) \/ Deliver(c) \/ Lose(c) \/ LookUp(c) \/ EnterRotate(c)
                              \/ Reject(c) \/ Recheck(c)
      PROVE  RevokedOK'
  <2>1. UNCHANGED <<session, cliRevokedAt, loadedAt, loadFailed, noted, unnoted>>
    BY <1>4 DEF Call, Deliver, Lose, LookUp, EnterRotate, Reject, Recheck
  <2>2. call[c].pc # "refuse" /\ \A d \in Calls : d # c => call'[d] = call[d]
    BY <1>0, <1>4 DEF Call, Deliver, Lose, LookUp, EnterRotate, Reject, Recheck
  <2> QED
    BY <1>1, <2>1, <2>2
<1>5. ASSUME NEW c \in Calls, Refuse(c) PROVE RevokedOK'
  <2>1. \A d \in Calls : d # c => call'[d] = call[d]
    BY <1>0, <1>5 DEF Refuse
  <2> QED
    BY <1>5, <2>1, RevokedStay DEF Refuse
<1>6. ASSUME NEW c \in Calls, RecheckFails(c) PROVE RevokedOK'
  <2>1. call[c].sid \in Sids /\ Made(call[c].sid)
    BY <1>0, <1>6, NewToken DEF RecheckFails, RotationOK, Rotating, TokensOK
  <2>2. /\ call'[c].pc = "refuse" /\ call'[c].sid = call[c].sid /\ call[c].pc = "recheck"
        /\ \A d \in Calls : d # c => call'[d] = call[d]
    BY <1>0, <1>6 DEF RecheckFails, Request
  <2>3. unnoted' = unnoted
    BY <1>6 DEF RecheckFails
  <2>4. \A s \in Sids : Pending(s) \/ s = call[c].sid => Pending(s)'
    BY <2>2, <2>3 DEF Pending
  <2> QED
    BY <1>0, <1>6, <2>1, <2>4, RevokedByServer DEF RecheckFails
<1>7. ASSUME NEW c \in Calls, NEW t \in Sids, DetectReuse(c, t) PROVE RevokedOK'
  <2>1. Made(t)
    BY <1>0, <1>7 DEF DetectReuse, HistoryOf, TokensOK
  <2>2. /\ call'[c].pc = "refuse" /\ call'[c].sid = t /\ call[c].pc = "entered"
        /\ \A d \in Calls : d # c => call'[d] = call[d]
    BY <1>0, <1>7 DEF DetectReuse, Request
  <2>3. unnoted' = unnoted
    BY <1>7 DEF DetectReuse
  <2>4. \A s \in Sids : Pending(s) \/ s = t => Pending(s)'
    BY <2>2, <2>3 DEF Pending
  <2> QED
    BY <1>0, <1>7, <2>1, <2>4, RevokedByServer DEF DetectReuse
<1>8. ASSUME NEW c \in Calls, NEW t \in Sids, CreateSession(c, t) PROVE RevokedOK'
  <2>1. session'[t].revoked = FALSE /\ session[t].revoked = FALSE
    BY <1>0, <1>8 DEF CreateSession, NoRow, TypeOK, RevokedOK, Row
  <2>2. \A s \in Sids : s # t => session'[s] = session[s]
    BY <1>0, <1>8, Created
  <2>3. UNCHANGED <<cliRevokedAt, loadedAt, loadFailed, noted, unnoted>>
    BY <1>8 DEF CreateSession
  <2>4. call[c].pc # "refuse" /\ \A d \in Calls : d # c => call'[d] = call[d]
    BY <1>0, <1>8 DEF CreateSession
  <2> QED
    BY <2>1, <2>2, <2>3, <2>4, RevokedStay
<1>9. ASSUME NEW c \in Calls, NEW t \in Sids, Exchange(c, t) PROVE RevokedOK'
  <2>1. session'[t].revoked = session[t].revoked
    BY <1>0, <1>9 DEF Exchange, TypeOK, Row
  <2>2. session'[t].current # NoToken /\ \A s \in Sids : s # t => session'[s] = session[s]
    BY <1>0, <1>9, Exchanged, NewToken
  <2>3. UNCHANGED <<cliRevokedAt, loadedAt, loadFailed, noted, unnoted>>
    BY <1>9 DEF Exchange
  <2>4. call[c].pc # "refuse" /\ \A d \in Calls : d # c => call'[d] = call[d]
    BY <1>0, <1>9 DEF Exchange
  <2> QED
    BY <2>1, <2>2, <2>3, <2>4, RevokedStay
<1>10. ASSUME NEW c \in Calls, NEW t \in Sids, Replay(c, t) PROVE RevokedOK'
  <2>1. call[c].pc # "refuse" /\ \A d \in Calls : d # c => call'[d] = call[d]
    BY <1>0, <1>10 DEF Replay
  <2> QED
    BY <1>1, <1>10, <2>1 DEF Replay
<1>11. ASSUME NEW t \in Sids, RevokeSession(t) PROVE RevokedOK'
  <2>1. \A s \in Sids : Pending(s) \/ s = t => Pending(s)'
    BY <1>11 DEF Pending, RevokeSession
  <2> QED
    BY <1>0, <1>11, <2>1, RevokedByServer DEF RevokeSession, Live
<1>12. CASE RevokeAll
  <2>1. \A s \in Sids : Pending(s) \/ s \in Live => Pending(s)'
    BY <1>12 DEF Pending, RevokeAll, Live
  <2>2. Live \in SUBSET Sids /\ \A s \in Live : Made(s)
    BY DEF Live
  <2> QED
    BY <1>0, <1>12, <2>1, <2>2, RevokedByServer DEF RevokeAll
<1>13. ASSUME NEW s \in Sids, NoteRevoked(s) PROVE RevokedOK'
  BY <1>13, RevokedStay DEF NoteRevoked
<1>14. ASSUME NEW S \in SUBSET Sids, CliRevoke(S) PROVE RevokedOK'
  BY <1>0, <1>14, RevokedByOthers DEF CliRevoke
<1>15. CASE EndSessions
  BY <1>0, <1>15, RevokedByOthers DEF EndSessions
<1>16. CASE LoadRevoked
  <2>1. \A s \in Sids : session'[s].revoked => s \in noted'
    BY <1>16 DEF LoadRevoked
  <2> QED
    BY <1>16, <2>1 DEF RevokedOK, Made, LoadRevoked
<1>17. CASE LoadFails
  BY <1>17 DEF RevokedOK, Made, LoadFails
<1>18. ASSUME Tick \/ Delist \/ Enlist \/ UNCHANGED vars PROVE RevokedOK'
  BY <1>1, <1>18 DEF Tick, Delist, Enlist, vars
<1> QED
  BY <1>3, <1>4, <1>5, <1>6, <1>7, <1>8, <1>9, <1>10, <1>11, <1>12, <1>13, <1>14, <1>15, <1>16,
     <1>17, <1>18 DEF Next

-----------------------------------------------------------------------------
(* The allowlist.                                                          *)

LEMMA ReplaysStep ==
  ASSUME TypeOK, ReplaysOK, [Next]_vars
  PROVE  ReplaysOK'
<1>1. ASSUME NEW c \in Calls, Recheck(c) PROVE ReplaysOK'
  <2>1. answers' = answers \cup {[from |-> call[c].token, to |-> call[c].to]}
    BY <1>1 DEF Recheck
  <2>2. ASSUME NEW e \in cache'
        PROVE  e \in cache \/ (e.key = call[c].token /\ e.to = call[c].to)
    BY <1>1 DEF Recheck, GraceStore, Unexpired
  <2>3. \E a \in answers' : a.from = call[c].token /\ a.to = call[c].to
    <3>1. [from |-> call[c].token, to |-> call[c].to] \in answers'
      BY <2>1
    <3> WITNESS [from |-> call[c].token, to |-> call[c].to] \in answers'
    <3> QED
      OBVIOUS
  <2>4. ASSUME NEW e \in cache', e.key # e.to
        PROVE  \E a \in answers' : a.from = e.key /\ a.to = e.to
    BY <2>1, <2>2, <2>3, <2>4 DEF ReplaysOK
  <2> QED
    BY <2>4 DEF ReplaysOK
<1>2. ASSUME NEW c \in Calls, NEW s \in Sids, CreateSession(c, s) PROVE ReplaysOK'
  BY <1>2 DEF CreateSession, GraceStore, Unexpired, ReplaysOK
<1>3. ASSUME NEW c \in Calls, RecheckFails(c) PROVE ReplaysOK'
  BY <1>3 DEF RecheckFails, ReplaysOK
<1>4. CASE Crash
  BY <1>4 DEF Crash, ReplaysOK
<1>5. CASE Quiet
  <2>1. answers \subseteq answers'
    BY <1>5, CacheFrame DEF CacheChange, Recheck, Replay
  <2> QED
    BY <1>5, <2>1 DEF Quiet, Unexpired, ReplaysOK
<1> QED
  BY <1>1, <1>2, <1>3, <1>4, <1>5, CacheFrame DEF CacheChange

\* Off the list, and with no removal under way: it was so before, or the removal ends now.
StaysOut == ~listed' /\ ~delisting' => (~listed /\ ~delisting) \/ EndSessions

LEMMA ListFrame ==
  ASSUME [Next]_vars
  PROVE  StaysOut
<1> USE DEF identity
<1>1. ASSUME UNCHANGED <<listed, delisting>> PROVE StaysOut
  BY <1>1 DEF StaysOut
<1>2. ASSUME NEW d \in Calls, Call(d) \/ Deliver(d) \/ Lose(d) \/ LookUp(d) \/ EnterRotate(d)
                              \/ Reject(d) \/ Recheck(d) \/ RecheckFails(d) \/ Refuse(d)
      PROVE  StaysOut
  BY <1>1, <1>2 DEF Call, Deliver, Lose, LookUp, EnterRotate, Reject, Recheck, RecheckFails, Refuse
<1>3. ASSUME NEW d \in Calls, NEW s \in Sids,
             CreateSession(d, s) \/ Exchange(d, s) \/ Replay(d, s) \/ DetectReuse(d, s)
      PROVE  StaysOut
  BY <1>1, <1>3 DEF CreateSession, Exchange, Replay, DetectReuse
<1>4. ASSUME NEW s \in Sids, RevokeSession(s) \/ NoteRevoked(s) PROVE StaysOut
  BY <1>1, <1>4 DEF RevokeSession, NoteRevoked
<1>5. ASSUME NEW S \in SUBSET Sids, CliRevoke(S) PROVE StaysOut
  BY <1>1, <1>5 DEF CliRevoke
<1>6. ASSUME Tick \/ Crash \/ RevokeAll \/ LoadRevoked \/ LoadFails \/ UNCHANGED vars
      PROVE  StaysOut
  BY <1>1, <1>6 DEF Tick, Crash, RevokeAll, LoadRevoked, LoadFails, vars
<1>7. ASSUME Delist \/ Enlist \/ EndSessions PROVE StaysOut
  BY <1>7 DEF Delist, Enlist, StaysOut
<1> QED
  BY <1>2, <1>3, <1>4, <1>5, <1>6, <1>7 DEF Next

LEMMA DelistedStep ==
  ASSUME ChainInvariant, ReplaysOK, DelistedIsOut, [Next]_vars
  PROVE  DelistedIsOut'
<1> SUFFICES ASSUME ~listed', ~delisting', NEW a \in answers', NEW s \in Sids,
                    a.to = session'[s].current
             PROVE  session'[s].revoked
  BY DEF DelistedIsOut
<1>0. TypeOK /\ TokensOK /\ CacheOK /\ AnswersOK
  BY DEF ChainInvariant
<1>1. \A b \in answers : b.to # NoToken /\ b.to # minted + 1
  BY <1>0, NewToken DEF AnswersOK, TokensOK
<1>2. CASE EndSessions
  <2>1. answers' = answers /\ session'[s].current = session[s].current
    BY <1>0, <1>2, Revoking DEF EndSessions
  <2>2. s \in Live \/ session[s].revoked
    BY <1>1, <2>1 DEF Live, Made
  <2> QED
    BY <1>0, <1>2, <2>2, Revoking DEF EndSessions
<1>3. CASE ~listed /\ ~delisting
  <2>1. \A b \in answers : b.to = session[s].current => session[s].revoked
    BY <1>3 DEF DelistedIsOut
  <2>2. ASSUME NEW c \in Calls, NEW t \in Sids, CreateSession(c, t) \/ Exchange(c, t)
        PROVE  session'[s].revoked
    <3>1. answers' = answers
      BY <2>2 DEF CreateSession, Exchange
    <3>2. session'[t].current = minted + 1 /\ (s # t => session'[s] = session[s])
      BY <1>0, <2>2, Created, Exchanged
    <3> QED
      BY <1>1, <2>1, <3>1, <3>2
  <2>3. CASE SameTokens
    <3>1. session'[s].current = session[s].current /\ (session[s].revoked => session'[s].revoked)
      BY <2>3 DEF SameTokens
    <3>2. CASE a \in answers
      BY <2>1, <3>1, <3>2
    <3>3. ASSUME NEW c \in Calls, NEW t \in Sids, Replay(c, t) PROVE session[s].revoked
      <4>1. PICK e \in Replayable(c, t) :
              answers' = answers \cup {[from |-> call[c].token, to |-> e.to]}
        BY <3>3 DEF Replay
      <4>2. e \in cache /\ e.key = call[c].token /\ call[c].token = session[t].prev
        BY <3>3 DEF Replayable, GraceLookup, Unexpired, Replay
      <4>3. e.key # session[s].current
        BY <1>0, <4>2 DEF CacheOK, TokensOK
      <4>4. CASE a \notin answers
        <5>1. a.to = e.to
          BY <4>1, <4>4
        <5> QED
          BY <2>1, <3>1, <4>2, <4>3, <5>1 DEF ReplaysOK
      <4> QED
        BY <2>1, <3>1, <4>4
    <3>4. ASSUME NEW c \in Calls, Recheck(c) PROVE FALSE
      BY <1>3, <3>4 DEF Recheck
    <3> QED
      BY <1>0, <3>1, <3>2, <3>3, <3>4, CacheFrame DEF CacheChange
  <2> QED
    BY <1>0, <2>2, <2>3, Frame
<1> QED
  BY <1>2, <1>3, ListFrame DEF StaysOut

-----------------------------------------------------------------------------
(* The invariant.                                                          *)

LEMMA InitRefresh == Init => RefreshInvariant
<1> SUFFICES ASSUME Init PROVE RefreshInvariant
  OBVIOUS
<1>1. \A c \in Calls : call[c].pc = "free" /\ call[c].at = 0
  BY DEF Init, NoRequest
<1>2. now \in Nat /\ 0 * Hz <= now
  BY TimesAssumption, SecondsAdd DEF Init
<1>3. StampsOK
  BY <1>1, <1>2 DEF Init, StampsOK, NoRow, NotLoaded
<1>4. WindowOK /\ ReplaysOK /\ DelistedIsOut
  BY DEF Init, WindowOK, ReplaysOK, DelistedIsOut
<1>5. RevokedOK
  BY DEF Init, RevokedOK, NoRow
<1> QED
  BY <1>3, <1>4, <1>5, InitChain DEF RefreshInvariant

LEMMA RefreshStep == RefreshInvariant /\ [Next]_vars => RefreshInvariant'
<1> SUFFICES ASSUME RefreshInvariant, [Next]_vars PROVE RefreshInvariant'
  OBVIOUS
<1>1. ChainInvariant /\ StampsOK /\ WindowOK /\ RevokedOK /\ ReplaysOK /\ DelistedIsOut /\ TypeOK
  BY DEF RefreshInvariant, ChainInvariant
<1> QED
  BY <1>1, ChainStep, StampsStep, WindowStep, RevokedStep, ReplaysStep, DelistedStep
  DEF RefreshInvariant

\* The tables, the cache, the clock, the allowlist and the calls under way agree, however many
\* clients refresh and log in, whatever is revoked and wherever the server stops.
THEOREM RefreshInvariance == Spec => []RefreshInvariant
<1> QED
  BY InitRefresh, RefreshStep, PTL DEF Spec

\* A removed identity's refresh tokens are out, be the removal before, during or after a refresh.
THEOREM RemovalIsFinal == Spec => []DelistedIsOut
<1>1. RefreshInvariant => DelistedIsOut
  BY DEF RefreshInvariant
<1> QED
  BY <1>1, RefreshInvariance, PTL

\* The access check learns of every revocation, by whichever process, within Reload.
THEOREM RevocationsAreSeen == Spec => []RevocationIsSeen
<1>1. ASSUME RefreshInvariant PROVE RevocationIsSeen
  <2>1. TypeOK /\ StampsOK /\ RevokedOK
    BY <1>1 DEF RefreshInvariant, ChainInvariant
  <2> SUFFICES ASSUME NEW s \in Sids, session[s].revoked, ~IsSidRevoked(s), ~loadFailed
               PROVE  IF cliRevokedAt[s] = 0 THEN Pending(s)
                      ELSE now - cliRevokedAt[s] < Reload * Hz
    BY DEF RevocationIsSeen
  <2>2. s \notin noted /\ loadedAt # NotLoaded /\ now - loadedAt < Reload * Hz
    BY DEF IsSidRevoked, Fresh
  <2>3. now \in Nat /\ loadedAt \in Nat /\ cliRevokedAt[s] \in Nat /\ Reload * Hz \in Nat
    BY <2>1, TimesAssumption, SecondsAdd DEF TypeOK
  <2>4. IF cliRevokedAt[s] = 0 THEN Pending(s) ELSE loadedAt <= cliRevokedAt[s]
    BY <2>1, <2>2 DEF RevokedOK
  <2> QED
    BY <2>2, <2>3, <2>4
<1> QED
  BY <1>1, RefreshInvariance, PTL

\* A consumed token is answered only in its window.
THEOREM ReplaysEnd == Spec => ReplaysEndOnTime
<1>1. RefreshInvariant /\ [Next]_vars =>
        [\A c \in Calls : call[c].pc = "entered" /\ call'[c].pc = "answered" =>
           \A h \in HistoryOf(call[c].token) : call[c].at <= h.at + Grace]_vars
  BY ReplayInTime DEF RefreshInvariant, HistoryOf
<1> QED
  BY <1>1, RefreshInvariance, PTL DEF Spec, ReplaysEndOnTime

\* A client that presents the token consumed last again in its window does not end its family.
THEOREM RetriesAreForgiven == Spec => RetryIsForgiven
<1>1. RefreshInvariant /\ [Next]_vars =>
        [\A c \in Calls : call[c].pc = "entered" /\ call'[c].pc = "refuse" =>
           \A h \in HistoryOf(call[c].token) :
             ~ /\ session[h.sid].prev = h.token /\ ~session[h.sid].revoked
               /\ call[c].at < session[h.sid].cap
               /\ h.agent = AgentOf[c] /\ h.boot = boot
               /\ Grace > 0 /\ now <= (h.at + Grace) * Hz]_vars
  BY RetryStep DEF RefreshInvariant, HistoryOf
<1> QED
  BY <1>1, RefreshInvariance, PTL DEF Spec, RetryIsForgiven
-----------------------------------------------------------------------------
(* The tables implement the line of tokens.                                *)

Heads == [s \in Sids |-> session[s].current]
Links == {[of |-> h.sid, from |-> h.token, to |-> h.to] : h \in history}
Over == {s \in Sids : session[s].revoked}

\* A token that is made is in no line yet.
LEMMA FreshHead ==
  ASSUME TypeOK, NEW s \in Sids, session'[s].current = minted + 1,
         \A t \in Sids \ {s} : session'[t] = session[t]
  PROVE  Chain!NewHead(s)
<1>1. /\ minted + 1 # NoToken
      /\ \A t \in Sids : Heads[t] # minted + 1
      /\ \A k \in Links : k.from # minted + 1 /\ k.to # minted + 1
  BY NewToken DEF Heads, Links
<1>2. Heads'[s] = minted + 1
  BY DEF Heads
<1>3. Heads' = [Heads EXCEPT ![s] = Heads'[s]]
  BY DEF Heads
<1> QED
  BY <1>1, <1>2, <1>3 DEF Chain!NewHead, Chain!Had, Heads, Links

\* create_session begins a line, ...
LEMMA LoginMaps ==
  ASSUME TypeOK, RevokedOK, NEW c \in Calls, NEW s \in Sids, CreateSession(c, s)
  PROVE  Chain!Begin(s)
<1>1. session \in [Sids -> Row] /\ ~session[s].revoked
  BY DEF TypeOK, CreateSession, RevokedOK
<1>2. ~session'[s].revoked
  BY <1>1 DEF CreateSession, NoRow
<1>3. Over' = Over
  BY <1>1, <1>2, Created DEF Over
<1>4. Chain!NewHead(s) /\ history' = history /\ session[s].current = NoToken
  BY Created, FreshHead DEF Made
<1>5. answers' = answers
  BY DEF CreateSession
<1> QED
  BY <1>3, <1>4, <1>5 DEF Chain!Begin, Over

\* ... an exchange goes on with it, ...
LEMMA ExchangeMaps ==
  ASSUME TypeOK, NEW c \in Calls, NEW s \in Sids, Exchange(c, s)
  PROVE  Chain!Extend(s)
<1>1. session \in [Sids -> Row] /\ ~session[s].revoked /\ answers' = answers
  BY DEF TypeOK, Exchange, Usable
<1>2. PICK g :
         /\ g.token = call[c].token /\ g.sid = s /\ g.to = minted + 1
         /\ history' = history \cup {g}
         /\ session'[s].current = minted + 1
         /\ \A t \in Sids \ {s} : session'[t] = session[t]
         /\ Made(s) /\ session[s].current = call[c].token
  BY Exchanged
<1>3. session'[s].revoked = session[s].revoked
  BY <1>1 DEF Exchange
<1>4. Over' = Over /\ s \notin Over
  BY <1>1, <1>2, <1>3 DEF Over
<1>5. Links' = Links \cup {[of |-> s, from |-> Heads[s], to |-> Heads'[s]]}
  BY <1>2 DEF Links, Heads
<1>6. Chain!NewHead(s) /\ Heads[s] # NoToken
  BY <1>2, FreshHead DEF Heads, Made
<1> QED
  BY <1>1, <1>4, <1>5, <1>6 DEF Chain!Extend, Over, Links, Heads

\* ... an answer names its end, ...
LEMMA AnswerMaps ==
  ASSUME ChainInvariant, NEW c \in Calls, Recheck(c) \/ \E s \in Sids : Replay(c, s)
  PROVE  \E s \in Sids : Chain!Tell(s)
<1>0. TypeOK /\ LockOK /\ TokensOK /\ RotationOK /\ CacheOK
  BY DEF ChainInvariant
<1>1. session' = session /\ history' = history
  BY DEF Recheck, Replay, server
<1>2. ASSUME NEW h \in history, h.to = session[h.sid].current,
             answers' = answers \cup {[from |-> h.token, to |-> h.to]}
      PROVE  \E s \in Sids : Chain!Tell(s)
  <2> DEFINE k == [of |-> h.sid, from |-> h.token, to |-> h.to]
  <2>1. h.sid \in Sids /\ k \in Links /\ k.of = h.sid /\ k.to = Heads[h.sid]
    BY <1>0, <1>2 DEF TypeOK, HistoryRow, Links, Heads
  <2>2. answers' = answers \cup {[from |-> k.from, to |-> k.to]}
    BY <1>2
  <2>3. Heads' = Heads /\ Links' = Links /\ Over' = Over
    BY <1>1 DEF Heads, Links, Over
  <2>4. Chain!Tell(h.sid)
    BY <2>1, <2>2, <2>3 DEF Chain!Tell, Heads, Links, Over
  <2> QED
    BY <2>1, <2>4
<1>3. CASE Recheck(c)
  <2>1. answers' = answers \cup {[from |-> call[c].token, to |-> call[c].to]} /\ Rotating(c)
    BY <1>3 DEF Recheck, Rotating
  <2>2. PICK h \in history : /\ h.token = call[c].token /\ h.to = call[c].to
                             /\ session[h.sid].current = h.to
    BY <1>0, <2>1 DEF RotationOK
  <2> QED
    BY <1>2, <2>1, <2>2
<1>4. ASSUME NEW s \in Sids, Replay(c, s) PROVE \E t \in Sids : Chain!Tell(t)
  <2>1. PICK e \in Replayable(c, s) :
          answers' = answers \cup {[from |-> call[c].token, to |-> e.to]}
    BY <1>4 DEF Replay
  <2>2. e \in cache /\ e.key = call[c].token /\ ~session[s].revoked
    BY DEF Replayable, InGrace, GraceLookup, Unexpired
  <2>a. session[s].prev = call[c].token /\ session[s].prev # NoToken
    BY <1>0, <1>4, <2>2 DEF CacheOK, Replay
  <2>3. PICK h \in history : h.token = call[c].token /\ h.sid = s /\ h.to = session[s].current
    BY <1>0, <2>a DEF TokensOK
  <2>4. ASSUME NEW d \in Calls PROVE ~Rotating(d)
    BY <1>0, <1>4, OneInside DEF Rotating, Inside, Replay
  <2>5. h.to = e.to
    BY <1>0, <2>2, <2>3, <2>4 DEF CacheOK
  <2> QED
    BY <1>2, <2>1, <2>3, <2>5
<1> QED
  BY <1>3, <1>4

\* ... and whatever revokes ends lines.
LEMMA OtherMaps ==
  ASSUME SameTokens, answers' = answers
  PROVE  \E F \in SUBSET Sids : Chain!End(F)
<1> DEFINE F == {s \in Sids : session'[s].revoked}
<1>1. Heads' = Heads /\ Links' = Links /\ answers' = answers
  BY DEF SameTokens, Heads, Links
<1>2. Over' = Over \cup F
  BY DEF SameTokens, Over
<1>3. \E G \in SUBSET Sids : Heads' = Heads /\ Links' = Links /\ answers' = answers
                                /\ Over' = Over \cup G
  BY <1>1, <1>2
<1> QED
  BY <1>3 DEF Chain!End, Heads, Links, Over

\* Whatever calls, processes, restarts and lifetimes there are: a family's tokens are one line,
\* clients are only told its end, and nothing is added to it once it is revoked.
THEOREM RefreshImplementsTokenChain == Spec => ImplementsTokenChain
<1>1. Init => Chain!Init
  <2> SUFFICES ASSUME Init PROVE Chain!Init
    OBVIOUS
  <2>1. Heads = [f \in Sids |-> NoToken] /\ Links = {} /\ answers = {} /\ Over = {}
    BY DEF Init, Heads, Links, Over, NoRow
  <2> QED
    BY <2>1 DEF Chain!Init, Heads, Links, Over
<1>2. RefreshInvariant /\ [Next]_vars => [Chain!Next]_(Chain!vars)
  <2> SUFFICES ASSUME RefreshInvariant, [Next]_vars PROVE Chain!Next
    OBVIOUS
  <2>1. ChainInvariant /\ TypeOK /\ RevokedOK
    BY DEF RefreshInvariant, ChainInvariant
  <2>2. ASSUME NEW c \in Calls, NEW s \in Sids, CreateSession(c, s) \/ Exchange(c, s)
        PROVE  Chain!Next
    BY <2>1, <2>2, LoginMaps, ExchangeMaps DEF Chain!Next
  <2>3. ASSUME NEW c \in Calls, Recheck(c) \/ \E s \in Sids : Replay(c, s)
        PROVE  Chain!Next
    BY <2>1, <2>3, AnswerMaps DEF Chain!Next
  <2>4. CASE SameTokens /\ answers' = answers
    BY <2>4, OtherMaps DEF Chain!Next
  <2> QED
    BY <2>1, <2>2, <2>3, <2>4, Frame, CacheFrame DEF CacheChange
<1> QED
  BY <1>1, <1>2, RefreshInvariance, PTL DEF Spec, ImplementsTokenChain, Chain!Spec
=============================================================================
