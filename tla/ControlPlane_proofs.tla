------------------------- MODULE ControlPlane_proofs -------------------------
(***************************************************************************)
(* What is proved of ControlPlane for every number of sessions, grants,    *)
(* sockets, links and every capacity and time-to-live.                     *)
(***************************************************************************)
EXTENDS ControlPlane, FiniteSetTheorems, TLAPS

-----------------------------------------------------------------------------
(* Type correctness.                                                       *)

\* The stops queued for a finite set of sessions are a sequence of messages.
LEMMA StopOrdersType ==
    ASSUME NEW S \in SUBSET Sessions, NEW stops \in StopOrders(S)
    PROVE  stops \in Seq(Messages)
<1> DEFINE T == {StopFor(s) : s \in S}
           f == [s \in S |-> StopFor(s)]
<1>1. IsFiniteSet(S)
  BY FS_Subset, SessionsAssumption
<1>2. f \in Surjection(S, T)
  BY DEF Surjection
<1>3. Cardinality(T) \in Nat
  BY <1>1, <1>2, FS_Surjection, FS_CardinalityType
<1>4. T \subseteq Messages
  BY DEF StopFor, Messages
<1>5. stops \in [1 .. Cardinality(T) -> T]
  BY DEF StopOrders, SetToSeqs
<1>6. stops \in [1 .. Cardinality(T) -> Messages]
  BY <1>4, <1>5
<1> HIDE DEF T
<1> QED
  BY <1>3, <1>6

\* TellBridge keeps the channels of the links sequences of messages.
LEMMA TellBridgeType ==
    ASSUME toBridge \in [Links -> Seq(Messages)], NEW messages \in Seq(Messages),
           TellBridge(messages)
    PROVE  toBridge' \in [Links -> Seq(Messages)]
BY DEF TellBridge

\* Every step of the control plane keeps every variable in its range.
LEMMA TypeStep == TypeOK /\ [Next]_vars => TypeOK'
<1> SUFFICES ASSUME TypeOK, [Next]_vars PROVE TypeOK'
  OBVIOUS
<1> USE NumbersAssumption DEF TypeOK, SessionStates, ActiveStates
<1>1. CASE Tick
  BY <1>1 DEF Tick, sessionVars, grantVars, bridgeVars, clientVars
<1>2. CASE SessionReaper
  <2>1. PICK stops \in StopOrders(Expired) : TellBridge(stops)
    BY <1>2 DEF SessionReaper
  <2>2. toBridge' \in [Links -> Seq(Messages)]
    BY <2>1, StopOrdersType, TellBridgeType DEF Expired, Active
  <2> QED
    BY <1>2, <2>2 DEF SessionReaper, DismissClients, Expired, Active
<1>3. ASSUME NEW g \in Grants, IssueBrowserGrant(g) PROVE TypeOK'
  BY <1>3 DEF IssueBrowserGrant, clockVars, sessionVars, bridgeVars, clientVars
<1>4. ASSUME NEW g \in Grants, RefuseStaleGrant(g) PROVE TypeOK'
  BY <1>4 DEF RefuseStaleGrant, ConsumeGrant, clockVars, sessionVars, bridgeVars, clientVars
<1>5. ASSUME NEW s \in Sessions, NEW buyer \in Grants \cup {None}, CreateSession(s, buyer)
      PROVE  TypeOK'
  <2>1. <<[type |-> "session.start", session |-> s]>> \in Seq(Messages)
    BY DEF Messages
  <2>2. toBridge' \in [Links -> Seq(Messages)]
    BY <1>5, <2>1, TellBridgeType DEF CreateSession
  <2>3. grants' \in SUBSET Grants /\ grantExpiresAt' \in [Grants -> Nat]
    BY <1>5 DEF CreateSession, Pay, ConsumeGrant, grantVars
  <2> QED
    BY <1>5, <2>2, <2>3 DEF CreateSession, clockVars, clientVars
<1>6. ASSUME NEW s \in Sessions, DeleteSession(s) PROVE TypeOK'
  <2>1. <<StopFor(s)>> \in Seq(Messages)
    BY DEF Messages, StopFor
  <2>2. toBridge' \in [Links -> Seq(Messages)]
    BY <1>6, <2>1, TellBridgeType DEF DeleteSession
  <2> QED
    BY <1>6, <2>2 DEF DeleteSession, Close, DismissClients, clockVars, grantVars
<1>7. ASSUME NEW s \in Sessions, ForwardCommand(s) PROVE TypeOK'
  <2>1. <<[type |-> "command", session |-> s]>> \in Seq(Messages)
    BY DEF Messages
  <2>2. toBridge' \in [Links -> Seq(Messages)]
    BY <1>7, <2>1, TellBridgeType DEF ForwardCommand
  <2> QED
    BY <1>7, <2>2 DEF ForwardCommand, clockVars, sessionVars, grantVars, clientVars
<1>8. ASSUME NEW l \in Links, BridgeSocketOpen(l) PROVE TypeOK'
  BY <1>8 DEF BridgeSocketOpen, clockVars, sessionVars, grantVars, clientVars
<1>9. ASSUME NEW l \in Links, BridgeSocketSend(l) PROVE TypeOK'
  BY <1>9 DEF BridgeSocketSend, clockVars, sessionVars, grantVars, clientVars
<1>10. ASSUME NEW l \in Links, BridgeSocketBreak(l) PROVE TypeOK'
  BY <1>10 DEF BridgeSocketBreak, clockVars, sessionVars, grantVars, clientVars
<1>11. ASSUME NEW l \in Links, BridgeSocketCleanup(l) PROVE TypeOK'
  BY <1>11 DEF DisconnectedCurrent, BridgeSocketCleanup, Close, DismissClients, Active,
              clockVars, grantVars, clientVars
<1>12. ASSUME NEW l \in Links, NEW s \in Sessions, NEW event \in BridgeEvents,
              HandleBridgeEvent(l, s, event)
       PROVE  TypeOK'
  <2>1. state' \in [Sessions -> SessionStates] /\ closedOnce' \in SUBSET Sessions
        /\ farewell' \in SUBSET Sockets
    <3>1. CASE event = "session.ready"
      BY <1>12, <3>1 DEF HandleBridgeEvent
    <3>2. CASE event = "asr.error"
      BY <1>12, <3>2 DEF HandleBridgeEvent
    <3>3. CASE event = "session.closed"
      BY <1>12, <3>3 DEF HandleBridgeEvent, Close
    <3> QED
      BY <3>1, <3>2, <3>3 DEF BridgeEvents
  <2> QED
    BY <1>12, <2>1 DEF HandleBridgeEvent, clockVars, grantVars, bridgeVars
<1>13. ASSUME NEW k \in Sockets, NEW s \in Sessions, ClientWs(k, s) PROVE TypeOK'
  BY <1>13 DEF ClientWs, clockVars, sessionVars, grantVars, bridgeVars
<1>14. ASSUME NEW k \in Sockets, ClientSocketOpen(k) PROVE TypeOK'
  BY <1>14 DEF ClientSocketOpen, clockVars, sessionVars, grantVars, bridgeVars
<1>15. ASSUME NEW k \in Sockets, ClientSocketBreak(k) PROVE TypeOK'
  BY <1>15 DEF ClientSocketBreak, clockVars, sessionVars, grantVars, bridgeVars
<1>16. ASSUME NEW k \in Sockets, ClientSocketCleanup(k) PROVE TypeOK'
  <2> DEFINE s == sockSession[k]
  <2>1. CASE s \in Active
    <3>1. <<StopFor(s)>> \in Seq(Messages)
      BY <2>1 DEF Active, Messages, StopFor
    <3>2. toBridge' \in [Links -> Seq(Messages)]
      BY <1>16, <2>1, <3>1, TellBridgeType DEF ClientSocketCleanup
    <3> QED
      BY <1>16, <2>1, <3>2 DEF ClientSocketCleanup, Close, Active, clockVars, grantVars
  <2>2. CASE s \notin Active
    BY <1>16, <2>2 DEF ClientSocketCleanup, clockVars, grantVars
  <2> QED
    BY <2>1, <2>2
<1>17. CASE UNCHANGED vars
  BY <1>17 DEF vars, clockVars, sessionVars, grantVars, bridgeVars, clientVars
<1> QED
  BY <1>1, <1>2, <1>3, <1>4, <1>5, <1>6, <1>7, <1>8, <1>9, <1>10, <1>11, <1>12, <1>13,
     <1>14, <1>15, <1>16, <1>17 DEF Next, Request, BridgeSocket, ClientSocket

\* Every variable of the control plane stays in its range.
THEOREM TypeCorrect == Spec => []TypeOK
<1>1. Init => TypeOK
  BY DEF Init, TypeOK, SessionStates, ActiveStates
<1> QED
  BY <1>1, TypeStep, PTL DEF Spec

-----------------------------------------------------------------------------
(* Sessions on their first life.                                           *)

\* A session enters its first life by create_session and by nothing else; all
\* other steps keep the expiry of the sessions on theirs.
LEMMA FreshStep ==
    ASSUME TypeOK, ClosedIsRemembered, [Next]_vars
    PROVE  \/ /\ Fresh' \subseteq Fresh
              /\ expiresAt' = expiresAt
           \/ \E s \in Sessions, buyer \in Grants \cup {None} : CreateSession(s, buyer)
<1> USE DEF Fresh, Active, ActiveStates
<1> DEFINE Done == Fresh' \subseteq Fresh /\ expiresAt' = expiresAt
<1>1. ASSUME NEW s \in Sessions, DeleteSession(s) PROVE Done
  BY <1>1 DEF DeleteSession, Close, TypeOK
<1>2. ASSUME NEW l \in Links, BridgeSocketCleanup(l) PROVE Done
  BY <1>2 DEF DisconnectedCurrent, BridgeSocketCleanup, Close, TypeOK
<1>3. ASSUME NEW l \in Links, NEW s \in Sessions, NEW event \in BridgeEvents,
             HandleBridgeEvent(l, s, event)
      PROVE  Done
  <2>1. CASE event \in {"session.ready", "asr.error"}
    <3>1. s \in Known /\ closedOnce' = closedOnce /\ expiresAt' = expiresAt
      BY <1>3, <2>1 DEF HandleBridgeEvent
    <3>2. \A t \in Sessions : t # s => state'[t] = state[t]
      BY <1>3, <2>1 DEF HandleBridgeEvent, TypeOK
    <3>3. s \in Active \/ s \in closedOnce
      BY <3>1 DEF Known, ClosedIsRemembered
    <3> QED
      BY <3>1, <3>2, <3>3
  <2>2. CASE event = "session.closed"
    BY <1>3, <2>2 DEF HandleBridgeEvent, Close, TypeOK
  <2> QED
    BY <2>1, <2>2 DEF BridgeEvents
<1>4. ASSUME NEW k \in Sockets, ClientSocketCleanup(k) PROVE Done
  BY <1>4 DEF ClientSocketCleanup, Close, TypeOK
<1>5. ASSUME SessionReaper PROVE Done
  BY <1>5 DEF SessionReaper, TypeOK
<1>6. ASSUME UNCHANGED sessionVars PROVE Done
  BY <1>6 DEF sessionVars
<1>7. UNCHANGED sessionVars \/ SessionReaper
      \/ (\E s \in Sessions : DeleteSession(s)
             \/ \E buyer \in Grants \cup {None} : CreateSession(s, buyer))
      \/ (\E l \in Links : BridgeSocketCleanup(l)
             \/ \E s \in Sessions, event \in BridgeEvents : HandleBridgeEvent(l, s, event))
      \/ (\E k \in Sockets : ClientSocketCleanup(k))
  BY DEF Next, Request, BridgeSocket, ClientSocket, vars, Tick, IssueBrowserGrant,
         RefuseStaleGrant, ForwardCommand, BridgeSocketOpen, BridgeSocketSend,
         BridgeSocketBreak, ClientWs, ClientSocketOpen, ClientSocketBreak
<1> QED
  BY <1>1, <1>2, <1>3, <1>4, <1>5, <1>6, <1>7

LEMMA FreshFinite ==
    /\ IsFiniteSet(Fresh) /\ IsFiniteSet(Active)
    /\ Cardinality(Fresh) \in Nat /\ Cardinality(Active) \in Nat
    /\ Cardinality(Fresh) <= Cardinality(Active)
<1>1. IsFiniteSet(Active)
  BY FS_Subset, SessionsAssumption DEF Active
<1> QED
  BY <1>1, FS_Subset, FS_CardinalityType DEF Fresh

\* The capacity check and the insert are one step, so the sessions on their
\* first life stay within the capacity.
LEMMA AdmissionStep ==
    ASSUME TypeOK, ClosedIsRemembered, AdmissionBound, [Next]_vars
    PROVE  AdmissionBound'
<1>1. CASE Fresh' \subseteq Fresh
  <2>1. Cardinality(Fresh') <= Cardinality(Fresh) /\ IsFiniteSet(Fresh')
    BY <1>1, FreshFinite, FS_Subset
  <2>2. Cardinality(Fresh') \in Nat
    BY <2>1, FS_CardinalityType
  <2> QED
    BY <2>1, <2>2, FreshFinite, NumbersAssumption DEF AdmissionBound
<1>2. ASSUME NEW s \in Sessions, NEW buyer \in Grants \cup {None}, CreateSession(s, buyer)
      PROVE  AdmissionBound'
  <2>1. Fresh' \subseteq Fresh \cup {s}
    BY <1>2 DEF CreateSession, Fresh, Active, TypeOK
  <2>2. IsFiniteSet(Fresh \cup {s})
        /\ Cardinality(Fresh \cup {s}) \in {Cardinality(Fresh), Cardinality(Fresh) + 1}
    <3> DEFINE F == Fresh
    <3>1. IsFiniteSet(F)
      BY FreshFinite
    <3> HIDE DEF F
    <3>2. IsFiniteSet(F \cup {s})
          /\ Cardinality(F \cup {s}) \in {Cardinality(F), Cardinality(F) + 1}
      BY <3>1, FS_AddElement
    <3> QED
      BY <3>2 DEF F
  <2>3. Cardinality(Fresh') \in Nat /\ Cardinality(Fresh') <= Cardinality(Fresh \cup {s})
    BY <2>1, <2>2, FS_Subset, FS_CardinalityType
  <2>4. Cardinality(Active) < SessionCapacity
    BY <1>2 DEF CreateSession, HasRoom
  <2> QED
    BY <2>2, <2>3, <2>4, FreshFinite, NumbersAssumption DEF AdmissionBound
<1> QED
  BY <1>1, <1>2, FreshStep

\* A closed session stays marked as closed: the only way out of "closed" is
\* the event of a bridge or the reaper.
LEMMA ClosedStep ==
    ASSUME TypeOK, ClosedIsRemembered, [Next]_vars
    PROVE  ClosedIsRemembered'
<1> USE DEF ClosedIsRemembered, TypeOK
<1>1. ASSUME NEW s \in Sessions, DeleteSession(s) PROVE ClosedIsRemembered'
  BY <1>1 DEF DeleteSession, Close
<1>2. ASSUME NEW l \in Links, BridgeSocketCleanup(l) PROVE ClosedIsRemembered'
  BY <1>2 DEF DisconnectedCurrent, BridgeSocketCleanup, Close
<1>3. ASSUME NEW l \in Links, NEW s \in Sessions, NEW event \in BridgeEvents,
             HandleBridgeEvent(l, s, event)
      PROVE  ClosedIsRemembered'
  <2>1. CASE event = "session.ready"
    BY <1>3, <2>1 DEF HandleBridgeEvent
  <2>2. CASE event = "asr.error"
    BY <1>3, <2>2 DEF HandleBridgeEvent
  <2>3. CASE event = "session.closed"
    BY <1>3, <2>3 DEF HandleBridgeEvent, Close
  <2> QED
    BY <2>1, <2>2, <2>3 DEF BridgeEvents
<1>4. ASSUME NEW k \in Sockets, ClientSocketCleanup(k) PROVE ClosedIsRemembered'
  BY <1>4 DEF ClientSocketCleanup, Close
<1>5. ASSUME SessionReaper PROVE ClosedIsRemembered'
  BY <1>5 DEF SessionReaper, Forgettable, Known, Expired, Active
<1>6. ASSUME NEW s \in Sessions, NEW buyer \in Grants \cup {None}, CreateSession(s, buyer)
      PROVE  ClosedIsRemembered'
  BY <1>6 DEF CreateSession
<1>7. ASSUME UNCHANGED sessionVars PROVE ClosedIsRemembered'
  BY <1>7 DEF sessionVars
<1> QED
  BY <1>1, <1>2, <1>3, <1>4, <1>5, <1>6, <1>7
  DEF Next, Request, BridgeSocket, ClientSocket, vars, Tick, IssueBrowserGrant,
      RefuseStaleGrant, ForwardCommand, BridgeSocketOpen, BridgeSocketSend,
      BridgeSocketBreak, ClientWs, ClientSocketOpen, ClientSocketBreak

\* The registration is dropped only by the cleanup that also closes every session.
LEMMA OfflineStep ==
    ASSUME TypeOK, ClosedIsRemembered, OfflineReleasesAll, [Next]_vars
    PROVE  OfflineReleasesAll'
<1>1. CASE bridge' = bridge
  <2>1. ASSUME NEW s \in Sessions, NEW buyer \in Grants \cup {None}, CreateSession(s, buyer)
        PROVE  bridge # None
    BY <2>1 DEF CreateSession, HasRoom
  <2> QED
    BY <1>1, <2>1, FreshStep DEF OfflineReleasesAll
<1>2. CASE bridge' # bridge
  <2>1. ASSUME NEW l \in Links, BridgeSocketOpen(l) PROVE bridge' # None
    BY <2>1, LinksAssumption DEF BridgeSocketOpen
  <2>2. ASSUME NEW l \in Links, BridgeSocketCleanup(l) PROVE Fresh' = {}
    BY <1>2, <2>2 DEF DisconnectedCurrent, BridgeSocketCleanup, Close, Fresh, Active,
                       ActiveStates, TypeOK
  <2>3. \E l \in Links : BridgeSocketOpen(l) \/ BridgeSocketCleanup(l)
    BY <1>2 DEF Next, Request, BridgeSocket, ClientSocket, vars, bridgeVars, Tick,
         SessionReaper, IssueBrowserGrant, RefuseStaleGrant, CreateSession, DeleteSession,
         ForwardCommand, BridgeSocketSend, BridgeSocketBreak, HandleBridgeEvent, ClientWs,
         ClientSocketOpen, ClientSocketBreak, ClientSocketCleanup
  <2> QED
    BY <2>1, <2>2, <2>3 DEF OfflineReleasesAll
<1> QED
  BY <1>1, <1>2

\* Time stops until the reaper has run, and the reaper leaves no session that
\* expired.
LEMMA ReaperStep ==
    ASSUME TypeOK, ClosedIsRemembered, ReaperOnTime, [Next]_vars
    PROVE  ReaperOnTime'
<1> USE NumbersAssumption DEF TypeOK, ReaperOnTime
<1>1. CASE Tick
  BY <1>1 DEF Tick, sessionVars, Fresh, Active
<1>2. CASE SessionReaper
  <2>1. lastReap' = now' /\ now' = now /\ expiresAt' = expiresAt
    BY <1>2 DEF SessionReaper
  <2>2. \A s \in Fresh' : s \in Active /\ s \notin Expired
    BY <1>2 DEF SessionReaper, Fresh, Active, ActiveStates, Expired
  <2>3. \A s \in Fresh' : ~(expiresAt[s] <= now)
    BY <2>2 DEF Expired
  <2>4. \A s \in Fresh' : expiresAt[s] \in Nat
    BY DEF Fresh, Active
  <2> QED
    BY <2>1, <2>3, <2>4
<1>3. ASSUME NEW s \in Sessions, NEW buyer \in Grants \cup {None}, CreateSession(s, buyer)
      PROVE  ReaperOnTime'
  BY <1>3 DEF CreateSession, clockVars, Fresh, Active
<1>4. CASE Fresh' \subseteq Fresh /\ expiresAt' = expiresAt /\ UNCHANGED clockVars
  BY <1>4 DEF clockVars
<1>5. Tick \/ SessionReaper \/ UNCHANGED clockVars
  BY DEF Next, Request, BridgeSocket, ClientSocket, vars, IssueBrowserGrant,
         RefuseStaleGrant, CreateSession, DeleteSession, ForwardCommand, BridgeSocketOpen,
         BridgeSocketSend, BridgeSocketBreak, BridgeSocketCleanup, HandleBridgeEvent,
         ClientWs, ClientSocketOpen, ClientSocketBreak, ClientSocketCleanup
<1> QED
  BY <1>1, <1>2, <1>3, <1>4, <1>5, FreshStep

-----------------------------------------------------------------------------
(* Grants.                                                                 *)

\* A grant is spent by removing it from the store, so it pays once; it cannot
\* be issued again, since its expiry says that it was.
LEMMA GrantStep ==
    ASSUME TypeOK, GrantsAccounted, GrantSpentOnce, [Next]_vars
    PROVE  GrantsAccounted' /\ GrantSpentOnce'
<1> USE GrantsAssumption DEF TypeOK, GrantsAccounted, GrantSpentOnce
<1>1. ASSUME NEW g \in Grants, IssueBrowserGrant(g)
      PROVE  GrantsAccounted' /\ GrantSpentOnce'
  BY <1>1, NumbersAssumption DEF IssueBrowserGrant, sessionVars
<1>2. ASSUME NEW g \in Grants, RefuseStaleGrant(g)
      PROVE  GrantsAccounted' /\ GrantSpentOnce'
  BY <1>2 DEF RefuseStaleGrant, ConsumeGrant, sessionVars
<1>3. ASSUME NEW s \in Sessions, NEW buyer \in Grants \cup {None}, CreateSession(s, buyer)
      PROVE  GrantsAccounted' /\ GrantSpentOnce'
  <2>1. owner' = [owner EXCEPT ![s] = buyer] /\ Pay(buyer)
    BY <1>3 DEF CreateSession
  <2>2. CASE buyer = None
    BY <2>1, <2>2 DEF Pay, grantVars
  <2>3. CASE buyer # None
    <3>1. buyer \in grants /\ grants' = grants \ {buyer} /\ grantExpiresAt' = grantExpiresAt
      BY <2>1, <2>3 DEF Pay, ConsumeGrant
    <3> QED
      BY <2>1, <2>3, <3>1
  <2> QED
    BY <2>2, <2>3
<1>4. ASSUME SessionReaper PROVE GrantsAccounted' /\ GrantSpentOnce'
  BY <1>4 DEF SessionReaper
<1>5. ASSUME UNCHANGED <<owner, grantVars>> PROVE GrantsAccounted' /\ GrantSpentOnce'
  BY <1>5 DEF grantVars
<1> QED
  BY <1>1, <1>2, <1>3, <1>4, <1>5
  DEF Next, Request, BridgeSocket, ClientSocket, vars, sessionVars, Tick, DeleteSession,
      ForwardCommand, BridgeSocketOpen, BridgeSocketSend, BridgeSocketBreak,
      BridgeSocketCleanup, HandleBridgeEvent, ClientWs, ClientSocketOpen,
      ClientSocketBreak, ClientSocketCleanup

-----------------------------------------------------------------------------
(* Links and sockets.                                                      *)

\* A link registers itself when it opens and is deregistered only by its own
\* cleanup or by a later link.
LEMMA LinkStep ==
    ASSUME TypeOK, RegisteredLinksLive, LinksInOrder, LatestBridgeRegistered, [Next]_vars
    PROVE  /\ bridge' # None => linkTask'[bridge'] \in {"serving", "leaving"}
           /\ LinksInOrder' /\ LatestBridgeRegistered'
<1> USE LinksAssumption DEF TypeOK, RegisteredLinksLive, LinksInOrder, LatestBridgeRegistered, Links
<1> DEFINE Done == /\ bridge' # None => linkTask'[bridge'] \in {"serving", "leaving"}
                   /\ LinksInOrder' /\ LatestBridgeRegistered'
<1>1. ASSUME NEW l \in Links, BridgeSocketOpen(l) PROVE Done
  BY <1>1 DEF BridgeSocketOpen
<1>2. ASSUME NEW l \in Links, BridgeSocketBreak(l) PROVE Done
  BY <1>2 DEF BridgeSocketBreak
<1>3. ASSUME NEW l \in Links, BridgeSocketCleanup(l) PROVE Done
  BY <1>3 DEF DisconnectedCurrent, BridgeSocketCleanup
<1>4. ASSUME UNCHANGED <<bridge, linkTask>> PROVE Done
  BY <1>4
<1> QED
  BY <1>1, <1>2, <1>3, <1>4
  DEF Next, Request, BridgeSocket, ClientSocket, vars, bridgeVars, Tick, SessionReaper,
      IssueBrowserGrant, RefuseStaleGrant, CreateSession, DeleteSession, ForwardCommand,
      BridgeSocketSend, HandleBridgeEvent, ClientWs, ClientSocketOpen,
      ClientSocketBreak, ClientSocketCleanup

ClientLinksLive ==
    \A s \in Sessions : clients[s] # None =>
        /\ sockTask[clients[s]] \in {"serving", "leaving"}
        /\ sockSession[clients[s]] = s

\* A socket is registered for its own session only, from the moment it serves
\* until its cleanup at the latest.
LEMMA ClientStep ==
    ASSUME TypeOK, ClientLinksLive, [Next]_vars
    PROVE  ClientLinksLive'
<1> USE SocketsAssumption DEF TypeOK, ClientLinksLive
<1>1. ASSUME NEW k \in Sockets, NEW s \in Sessions, ClientWs(k, s) PROVE ClientLinksLive'
  BY <1>1 DEF ClientWs
<1>2. ASSUME NEW k \in Sockets, ClientSocketOpen(k) PROVE ClientLinksLive'
  <2>1. CASE sockSession[k] \in Active
    <3>1. /\ clients' = [clients EXCEPT ![sockSession[k]] = k]
          /\ sockTask' = [sockTask EXCEPT ![k] = "serving"]
          /\ sockSession' = sockSession
      BY <1>2, <2>1 DEF ClientSocketOpen
    <3> QED
      BY <3>1
  <2>2. CASE sockSession[k] \notin Active
    <3>1. /\ clients' = clients /\ sockSession' = sockSession
          /\ sockTask' = [sockTask EXCEPT ![k] = "done"]
          /\ sockTask[k] = "upgrading"
      BY <1>2, <2>2 DEF ClientSocketOpen
    <3> QED
      BY <3>1
  <2> QED
    BY <2>1, <2>2
<1>3. ASSUME NEW k \in Sockets, ClientSocketBreak(k) PROVE ClientLinksLive'
  <2>1. /\ sockTask[k] = "serving" => sockTask'[k] = "leaving"
        /\ sockTask[k] \in {"upgrading", "serving"}
        /\ \A j \in Sockets : j # k => sockTask'[j] = sockTask[j]
        /\ clients' = clients /\ sockSession' = sockSession
    BY <1>3 DEF ClientSocketBreak
  <2> SUFFICES ASSUME NEW s \in Sessions, clients[s] # None
               PROVE  /\ sockTask'[clients[s]] \in {"serving", "leaving"}
                      /\ sockSession[clients[s]] = s
    BY <2>1
  <2>2. clients[s] \in Sockets /\ sockTask[clients[s]] \in {"serving", "leaving"}
    OBVIOUS
  <2>3. CASE clients[s] = k
    BY <2>1, <2>2, <2>3
  <2>4. CASE clients[s] # k
    BY <2>1, <2>2, <2>4
  <2> QED
    BY <2>3, <2>4
<1>4. ASSUME NEW k \in Sockets, ClientSocketCleanup(k) PROVE ClientLinksLive'
  BY <1>4 DEF ClientSocketCleanup
<1>5. ASSUME NEW C \in SUBSET Sessions, DismissClients(C) PROVE ClientLinksLive'
  BY <1>5 DEF DismissClients
<1>6. ASSUME UNCHANGED <<clients, sockTask, sockSession>> PROVE ClientLinksLive'
  BY <1>6
<1>7. ASSUME NEW l \in Links, BridgeSocketCleanup(l) PROVE ClientLinksLive'
  BY <1>5, <1>6, <1>7 DEF DisconnectedCurrent, BridgeSocketCleanup, Active, clientVars
<1>8. ASSUME NEW s \in Sessions, DeleteSession(s) PROVE ClientLinksLive'
  BY <1>5, <1>8 DEF DeleteSession
<1>9. ASSUME SessionReaper PROVE ClientLinksLive'
  BY <1>5, <1>9 DEF SessionReaper, Expired, Active
<1> QED
  BY <1>1, <1>2, <1>3, <1>4, <1>6, <1>7, <1>8, <1>9
  DEF Next, Request, BridgeSocket, ClientSocket, vars, clientVars, Tick,
      IssueBrowserGrant, RefuseStaleGrant, CreateSession, ForwardCommand,
      BridgeSocketOpen, BridgeSocketSend, BridgeSocketBreak, HandleBridgeEvent

-----------------------------------------------------------------------------
(* The theorems.                                                           *)

LEMMA IndInvInit == Init => IndInv
<1> SUFFICES ASSUME Init PROVE IndInv
  OBVIOUS
<1>1. Fresh = {}
  BY DEF Init, Fresh, Active, ActiveStates
<1>2. AdmissionBound
  BY <1>1, FS_EmptySet, NumbersAssumption DEF AdmissionBound
<1>3. TypeOK
  BY DEF Init, TypeOK, SessionStates, ActiveStates
<1> QED
  BY <1>1, <1>2, <1>3, NumbersAssumption
  DEF Init, IndInv, RegisteredLinksLive, LinksInOrder, LatestBridgeRegistered,
      GrantsAccounted, GrantSpentOnce, ClosedIsRemembered, ReaperOnTime, OfflineReleasesAll

LEMMA IndInvStep == IndInv /\ [Next]_vars => IndInv'
<1> SUFFICES ASSUME IndInv, [Next]_vars PROVE IndInv'
  OBVIOUS
<1>1. TypeOK'
  BY TypeStep DEF IndInv
<1>2. RegisteredLinksLive' /\ LinksInOrder' /\ LatestBridgeRegistered'
  BY LinkStep, ClientStep DEF IndInv, RegisteredLinksLive, ClientLinksLive
<1>3. GrantsAccounted' /\ GrantSpentOnce'
  BY GrantStep DEF IndInv
<1>4. ClosedIsRemembered' /\ ReaperOnTime'
  BY ClosedStep, ReaperStep DEF IndInv
<1>5. AdmissionBound' /\ OfflineReleasesAll'
  BY AdmissionStep, OfflineStep DEF IndInv
<1> QED
  BY <1>1, <1>2, <1>3, <1>4, <1>5 DEF IndInv

THEOREM IndInvCorrect == Spec => []IndInv
BY IndInvInit, IndInvStep, PTL DEF Spec

\* One browser grant buys at most one session, for any number of grants,
\* sessions and requests racing for them.
THEOREM GrantsAreSpentOnce == Spec => []GrantSpentOnce
<1>1. IndInv => GrantSpentOnce
  BY DEF IndInv
<1> QED
  BY <1>1, IndInvCorrect, PTL

\* Never more than SESSION_CAPACITY sessions are on their first life.
THEOREM AdmissionIsBounded == Spec => []AdmissionBound
<1>1. IndInv => AdmissionBound
  BY DEF IndInv
<1> QED
  BY <1>1, IndInvCorrect, PTL

\* No session on its first life survives the loss of the registered bridge.
THEOREM OfflineReleases == Spec => []OfflineReleasesAll
<1>1. IndInv => OfflineReleasesAll
  BY DEF IndInv
<1> QED
  BY <1>1, IndInvCorrect, PTL

\* What is registered can be sent to.
THEOREM LinksAreLive == Spec => []RegisteredLinksLive
<1>1. IndInv => RegisteredLinksLive
  BY DEF IndInv
<1> QED
  BY <1>1, IndInvCorrect, PTL

\* The newest connection of a bridge is the one registered for as long as its
\* task runs, however many earlier ones have yet to clean up.
THEOREM LatestLinkIsRegistered == Spec => []LatestBridgeRegistered
<1>1. IndInv => LatestBridgeRegistered
  BY DEF IndInv
<1> QED
  BY <1>1, IndInvCorrect, PTL

\* A session on its first life ends within one period of the reaper after its
\* expiry.
THEOREM SessionsExpire == Spec => []NoOverstay
<1>1. IndInv => NoOverstay
  <2> SUFFICES ASSUME IndInv, NEW s \in Fresh PROVE now < expiresAt[s] + ReapEvery
    BY DEF NoOverstay
  <2>1. expiresAt[s] \in Nat /\ now \in Nat /\ lastReap \in Nat
    BY DEF IndInv, TypeOK, Fresh, Active
  <2> QED
    BY <2>1, NumbersAssumption DEF IndInv, ReaperOnTime
<1> QED
  BY <1>1, IndInvCorrect, PTL

\* An unexpired grant leaves the store only to pay for a session.
THEOREM GrantsAreNotWasted == Spec => GrantNotWasted
<1> DEFINE Kept == \A g \in grants \ grants' :
               grantExpiresAt[g] > now => \E s \in Active' \ Active : owner'[s] = g
<1>1. IndInv /\ [Next]_vars => [Kept]_vars
  <2> SUFFICES ASSUME IndInv, [Next]_vars PROVE Kept
    OBVIOUS
  <2> USE DEF IndInv, TypeOK
  <2>1. ASSUME NEW g \in Grants, RefuseStaleGrant(g) PROVE Kept
    BY <2>1 DEF RefuseStaleGrant, ConsumeGrant, GrantValid
  <2>2. ASSUME NEW s \in Sessions, NEW buyer \in Grants \cup {None}, CreateSession(s, buyer)
        PROVE  Kept
    <3>1. s \in Active' \ Active /\ owner'[s] = buyer
      BY <2>2 DEF CreateSession, Active, ActiveStates
    <3>2. grants \ grants' \subseteq {buyer}
      BY <2>2 DEF CreateSession, Pay, ConsumeGrant, grantVars
    <3> QED
      BY <3>1, <3>2
  <2>3. ASSUME SessionReaper PROVE Kept
    BY <2>3 DEF SessionReaper
  <2>4. ASSUME grants \subseteq grants' PROVE Kept
    BY <2>4
  <2> QED
    BY <2>1, <2>2, <2>3, <2>4
    DEF Next, Request, BridgeSocket, ClientSocket, vars, grantVars, Tick,
        IssueBrowserGrant, DeleteSession, ForwardCommand, BridgeSocketOpen,
        BridgeSocketSend, BridgeSocketBreak, BridgeSocketCleanup, HandleBridgeEvent,
        ClientWs, ClientSocketOpen, ClientSocketBreak, ClientSocketCleanup
<1> QED
  BY <1>1, IndInvCorrect, PTL DEF Spec, GrantNotWasted

\* A registered client is told when its session is closed, whoever closes it,
\* save the cleanup of an event socket of that session.
THEOREM ClientsAreTold == Spec => ClientToldWhenCut
<1> DEFINE Told == \A s \in Active \ Active' :
               \/ clients[s] = None
               \/ clients[s] \in farewell'
               \/ \E k \in Sockets : sockSession[k] = s /\ sockTask[k] # sockTask'[k]
<1>1. TypeOK /\ [Next]_vars => [Told]_vars
  <2> SUFFICES ASSUME TypeOK, [Next]_vars PROVE Told
    OBVIOUS
  <2> USE DEF TypeOK
  <2>1. ASSUME NEW C \in SUBSET Sessions, Active \ Active' \subseteq C, DismissClients(C)
        PROVE  Told
    BY <2>1 DEF DismissClients, Active
  <2>2. ASSUME NEW C \in SUBSET Sessions, Close(C) PROVE Active \ Active' \subseteq C
    BY <2>2 DEF Close, Active
  <2>3. ASSUME NEW s \in Sessions, DeleteSession(s) PROVE Told
    BY <2>1, <2>2, <2>3 DEF DeleteSession
  <2>4. ASSUME NEW l \in Links, BridgeSocketCleanup(l) PROVE Told
    <3>1. CASE DisconnectedCurrent(l)
      BY <2>1, <2>4, <3>1 DEF BridgeSocketCleanup, Active
    <3>2. CASE ~DisconnectedCurrent(l)
      BY <2>4, <3>2 DEF BridgeSocketCleanup, Active
    <3> QED
      BY <3>1, <3>2
  <2>5. ASSUME NEW l \in Links, NEW s \in Sessions, NEW event \in BridgeEvents,
               HandleBridgeEvent(l, s, event)
        PROVE  Told
    <3>1. CASE event = "session.closed"
      <4>1. Close({s}) /\ farewell' = farewell \cup ({clients[s]} \ {None})
        BY <2>5, <3>1 DEF HandleBridgeEvent
      <4>2. Active \ Active' \subseteq {s}
        BY <2>2, <4>1
      <4> QED
        BY <4>1, <4>2
    <3>2. CASE event \in {"session.ready", "asr.error"}
      <4>1. Active \subseteq Active'
        BY <2>5, <3>2 DEF HandleBridgeEvent, Active, ActiveStates
      <4> QED
        BY <4>1
    <3> QED
      BY <3>1, <3>2 DEF BridgeEvents
  <2>6. ASSUME NEW k \in Sockets, ClientSocketCleanup(k) PROVE Told
    <3>1. sockTask[k] # sockTask'[k]
      BY <2>6 DEF ClientSocketCleanup
    <3>2. CASE sockSession[k] \in Active
      <4>1. Active \ Active' \subseteq {sockSession[k]}
        BY <2>2, <2>6, <3>2 DEF ClientSocketCleanup, Active
      <4> QED
        BY <3>1, <4>1
    <3>3. CASE sockSession[k] \notin Active
      BY <2>6, <3>3 DEF ClientSocketCleanup, Active
    <3> QED
      BY <3>2, <3>3
  <2>7. ASSUME SessionReaper PROVE Told
    <3>1. Active \ Active' \subseteq Expired
      BY <2>7 DEF SessionReaper, Forgettable, Expired, Active, Known
    <3> QED
      BY <2>1, <2>7, <3>1 DEF SessionReaper, Expired, Active
  <2>8. ASSUME NEW s \in Sessions, NEW buyer \in Grants \cup {None}, CreateSession(s, buyer)
        PROVE  Told
    <3>1. Active \subseteq Active'
      BY <2>8 DEF CreateSession, Active, ActiveStates
    <3> QED
      BY <3>1
  <2>9. ASSUME state' = state PROVE Told
    BY <2>9 DEF Active
  <2> QED
    BY <2>3, <2>4, <2>5, <2>6, <2>7, <2>8, <2>9
    DEF Next, Request, BridgeSocket, ClientSocket, vars, sessionVars, Tick,
        IssueBrowserGrant, RefuseStaleGrant, ForwardCommand, BridgeSocketOpen,
        BridgeSocketSend, BridgeSocketBreak, ClientWs, ClientSocketOpen, ClientSocketBreak
<1> QED
  BY <1>1, TypeCorrect, PTL DEF Spec, ClientToldWhenCut

-----------------------------------------------------------------------------
(* The control plane implements the session service.                       *)

\* The phase of a session before and after a step.
LEMMA PhaseOf ==
    ASSUME state \in [Sessions -> SessionStates], NEW s \in Sessions
    PROVE  /\ state[s] \in ActiveStates  => s \in Active /\ Phase(s) = "open"
           /\ state[s] = "unallocated"   => s \notin Active /\ Phase(s) = "new"
           /\ state[s] = "closed"        => s \notin Active /\ Phase(s) = "closed"
           /\ state[s] = "forgotten"     => s \notin Active /\ Phase(s) = "gone"
           /\ state'[s] \in ActiveStates => Phase(s)' = "open"
           /\ state'[s] = "closed"       => Phase(s)' = "closed"
           /\ state'[s] = "forgotten"    => Phase(s)' = "gone"
           /\ state'[s] = state[s]       => Phase(s)' = Phase(s)
<1>1. /\ state[s] \in ActiveStates  => s \in Active /\ Phase(s) = "open"
      /\ state[s] = "unallocated"   => s \notin Active /\ Phase(s) = "new"
      /\ state[s] = "closed"        => s \notin Active /\ Phase(s) = "closed"
      /\ state[s] = "forgotten"     => s \notin Active /\ Phase(s) = "gone"
  BY DEF Phase, Active, ActiveStates
<1>2. /\ state'[s] \in ActiveStates => Phase(s)' = "open"
      /\ state'[s] = "closed"       => Phase(s)' = "closed"
      /\ state'[s] = "forgotten"    => Phase(s)' = "gone"
  BY DEF Phase, Active, ActiveStates
<1>3. state'[s] = "unallocated" => Phase(s)' = "new"
  BY DEF Phase, Active, ActiveStates
<1>4. state[s] \in ActiveStates \cup {"unallocated", "closed", "forgotten"}
  BY DEF SessionStates
<1>5. state'[s] = state[s] => Phase(s)' = Phase(s)
  BY <1>1, <1>2, <1>3, <1>4
<1> QED
  BY <1>1, <1>2, <1>5

LEMMA OpenIsActive ==
    ASSUME TypeOK
    PROVE  /\ Service!In("open") = Active
           /\ Service!In("closed") = Known \ Active
BY PhaseOf DEF Service!In, TypeOK, SessionStates, Known, Active

\* Closing sessions of the map and forgetting closed ones is a Sweep.
LEMMA SweepStep ==
    ASSUME TypeOK, NEW C \in SUBSET Active, NEW F \in SUBSET Known,
           F \cap Active \subseteq C, owner' = owner,
           state' = [s \in Sessions |-> IF s \in F THEN "forgotten"
                                        ELSE IF s \in C THEN "closed" ELSE state[s]]
    PROVE  Service!Next
<1>1. \A s \in Sessions : Phase(s)' = IF s \in F THEN "gone"
                                      ELSE IF s \in C THEN "closed" ELSE Phase(s)
  BY PhaseOf DEF TypeOK
<1>2. Service!Sweep(C, F)
  BY <1>1 DEF Service!Sweep
<1>3. F \in SUBSET (Service!In("open") \cup Service!In("closed"))
  BY OpenIsActive DEF Known
<1> QED
  BY <1>2, <1>3, OpenIsActive DEF Service!Next

\* A step of the control plane is a step of the service, or invisible to it.
LEMMA ServiceStep ==
    ASSUME IndInv, [Next]_vars
    PROVE  Service!Next \/ UNCHANGED <<[s \in Sessions |-> Phase(s)], owner>>
<1> DEFINE Stutter == UNCHANGED <<[s \in Sessions |-> Phase(s)], owner>>
<1> USE DEF IndInv
<1>1. ASSUME state' = state, owner' = owner PROVE Stutter
  BY <1>1, PhaseOf DEF TypeOK
<1>2. ASSUME NEW s \in Sessions, NEW buyer \in Grants \cup {None}, CreateSession(s, buyer)
      PROVE  Service!Next
  <2>1. /\ state[s] = "unallocated" /\ owner' = [owner EXCEPT ![s] = buyer]
        /\ Cardinality(Active) < SessionCapacity
        /\ \A t \in Sessions : state'[t] = IF t = s THEN "starting" ELSE state[t]
    BY <1>2 DEF CreateSession, HasRoom, TypeOK
  <2>2. \A t \in Sessions : Phase(t)' = IF t = s THEN "open" ELSE Phase(t)
    BY <2>1, PhaseOf DEF ActiveStates, TypeOK
  <2>3. buyer # None => \A t \in Sessions : owner[t] # buyer
    BY <1>2 DEF CreateSession, Pay, ConsumeGrant, GrantSpentOnce
  <2>4. Service!Cardinality(Service!In("open")) < SessionCapacity
    <3>1. \A S : Service!Cardinality(S) = Cardinality(S)
      BY DEF Service!Cardinality, Cardinality
    <3> QED
      BY <2>1, <3>1, OpenIsActive
  <2>5. Service!Open(s, buyer)
    <3>1. Phase(s) = "new"
      BY <2>1, PhaseOf DEF TypeOK
    <3>2. [t \in Sessions |-> Phase(t)]' =
              [[t \in Sessions |-> Phase(t)] EXCEPT ![s] = "open"]
      BY <2>2
    <3>3. [t \in Sessions |-> Phase(t)][s] = "new"
      BY <3>1
    <3> QED
      BY <2>1, <2>3, <2>4, <3>2, <3>3 DEF Service!Open
  <2> QED
    BY <2>5 DEF Service!Next
<1>3. ASSUME NEW C \in SUBSET Known, Close(C), owner' = owner PROVE Service!Next
  <2>1. state' = [s \in Sessions |-> IF s \in C \cap Active THEN "closed" ELSE state[s]]
    BY <1>3 DEF Close, Known
  <2>2. state' = [s \in Sessions |-> IF s \in {} THEN "forgotten"
                         ELSE IF s \in C \cap Active THEN "closed" ELSE state[s]]
    BY <2>1
  <2>3. C \cap Active \in SUBSET Active /\ {} \in SUBSET Known
        /\ {} \cap Active \subseteq C \cap Active
    OBVIOUS
  <2> QED
    BY <1>3, <2>2, <2>3, SweepStep
<1>4. ASSUME NEW s \in Sessions, DeleteSession(s) PROVE Service!Next
  BY <1>3, <1>4 DEF DeleteSession
<1>5. ASSUME NEW l \in Links, BridgeSocketCleanup(l) PROVE Service!Next \/ Stutter
  BY <1>1, <1>3, <1>5 DEF DisconnectedCurrent, BridgeSocketCleanup, Known
<1>6. ASSUME NEW l \in Links, NEW s \in Sessions, NEW event \in BridgeEvents,
             HandleBridgeEvent(l, s, event)
      PROVE  Service!Next \/ Stutter
  <2>1. CASE event = "session.closed"
    BY <1>3, <1>6, <2>1 DEF HandleBridgeEvent
  <2>2. CASE event # "session.closed"
    <3>1. /\ s \in Known /\ owner' = owner
          /\ state'[s] \in ActiveStates
          /\ \A t \in Sessions \ {s} : state'[t] = state[t]
      BY <1>6, <2>2 DEF HandleBridgeEvent, BridgeEvents, TypeOK, ActiveStates
    <3>2. \A t \in Sessions : Phase(t)' = IF t = s THEN "open" ELSE Phase(t)
      BY <3>1, PhaseOf DEF TypeOK
    <3>3. CASE s \in Active
      <4>1. Phase(s) = "open"
        BY <3>3 DEF Phase
      <4>2. \A t \in Sessions : Phase(t)' = Phase(t)
        BY <3>2, <4>1
      <4> QED
        BY <3>1, <4>2
    <3>4. CASE s \notin Active
      <4>1. Phase(s) = "closed"
        BY <3>1, <3>4, PhaseOf DEF Known, TypeOK
      <4>2. Service!Reopen(s)
        BY <3>1, <3>2, <4>1 DEF Service!Reopen
      <4> QED
        BY <4>2 DEF Service!Next
    <3> QED
      BY <3>3, <3>4
  <2> QED
    BY <2>1, <2>2
<1>7. ASSUME NEW k \in Sockets, ClientSocketCleanup(k) PROVE Service!Next \/ Stutter
  BY <1>1, <1>3, <1>7 DEF ClientSocketCleanup, Known
<1>8. ASSUME SessionReaper PROVE Service!Next
  <2>1. Forgettable \subseteq Known /\ Expired \subseteq Active
        /\ Forgettable \cap Active \subseteq Expired
    BY DEF Forgettable, Expired, Known
  <2> QED
    BY <1>8, <2>1, SweepStep DEF SessionReaper
<1> QED
  BY <1>1, <1>2, <1>4, <1>5, <1>6, <1>7, <1>8
  DEF Next, Request, BridgeSocket, ClientSocket, vars, sessionVars, Tick,
      IssueBrowserGrant, RefuseStaleGrant, ForwardCommand, BridgeSocketOpen,
      BridgeSocketSend, BridgeSocketBreak, ClientWs, ClientSocketOpen, ClientSocketBreak

\* The detailed control plane implements the abstract session service.
THEOREM ServiceIsImplemented == Spec => ImplementsService
<1>1. Init => Service!Init
  <2> SUFFICES ASSUME Init PROVE Service!Init
    OBVIOUS
  <2>1. \A s \in Sessions : Phase(s) = "new"
    BY PhaseOf DEF Init, SessionStates
  <2> QED
    BY <2>1 DEF Init, Service!Init
<1>2. IndInv /\ [Next]_vars => [Service!Next]_<<[s \in Sessions |-> Phase(s)], owner>>
  BY ServiceStep
<1> QED
  BY <1>1, <1>2, IndInvCorrect, PTL DEF Spec, ImplementsService, Service!Spec
=============================================================================
