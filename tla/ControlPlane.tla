---------------------------- MODULE ControlPlane ----------------------------
(***************************************************************************)
(* The registry of the control plane (control-plane/src/main.rs): the      *)
(* struct Inner behind one async mutex, and every handler and task that    *)
(* locks it.  Each critical section of the code is one action; where a     *)
(* handler takes the lock twice, with other handlers running in between,   *)
(* it is two actions.                                                      *)
(*                                                                         *)
(* The bridge is an environment here: any event about any session may      *)
(* arrive on any link that is still served.  Module System replaces that   *)
(* environment by the real bridge process.                                 *)
(***************************************************************************)
EXTENDS Naturals, Sequences, FiniteSets, SequencesExt

CONSTANTS
    Sessions,         \* session ids; every id is drawn fresh (Uuid::new_v4)
    Grants,           \* browser grants, one-time bearer tokens
    MaxLinks,         \* bridge connections over the life of the server (bound)
    Sockets,          \* browser event sockets over the life of the server (bound)
    None,             \* Option::None; as a session's owner, "the operator"
    SessionCapacity,  \* SESSION_CAPACITY
    SessionTtl,       \* SESSION_TTL_SECONDS
    GrantTtl,         \* BROWSER_GRANT_TTL_SECONDS
    ReapEvery,        \* the period of the reaper, 15 s in the code
    RetainFor,        \* how long a closed session is remembered past its expiry, 60 s
    Horizon,          \* bound on the clock
    QueueBound        \* bound on the messages waiting on a link when a request adds one

Links == 1 .. MaxLinks

ASSUME SessionsAssumption == IsFiniteSet(Sessions) /\ None \notin Sessions
ASSUME GrantsAssumption   == None \notin Grants
ASSUME SocketsAssumption  == None \notin Sockets
ASSUME LinksAssumption    == MaxLinks \in Nat /\ None \notin Links
ASSUME NumbersAssumption  ==
    /\ SessionCapacity \in Nat \ {0}
    /\ SessionTtl \in Nat \ {0}
    /\ GrantTtl \in Nat \ {0}
    /\ ReapEvery \in Nat \ {0}
    /\ RetainFor \in Nat
    /\ Horizon \in Nat
    /\ QueueBound \in Nat

VARIABLES
    now,             \* unix_ms()
    lastReap,        \* when the reaper last ran
    state,           \* Session.state; "unallocated" and "forgotten" are ids not in the map
    expiresAt,       \* Session.expires_at_ms
    owner,           \* the grant a session was bought with, None for the operator
    grants,          \* Inner.browser_grants: the grants held in the store
    grantExpiresAt,  \* BrowserGrant.expires_at_ms, 0 before the grant is issued
    bridge,          \* Inner.bridge: the registered link or None
    linkTask,        \* where the bridge_socket task of a link is
    toBridge,        \* the unbounded channel of a link
    clients,         \* Inner.clients: the socket registered for a session or None
    sockTask,        \* where the client_ws/client_socket task of a socket is
    sockSession,     \* the session a socket was opened for
    farewell,        \* history: sockets sent session.closed or session.expired
    closedOnce,      \* history: sessions that have been closed at least once
    startedOn        \* history: the link whose channel got session.start

clockVars   == <<now, lastReap>>
sessionVars == <<state, expiresAt, owner, closedOnce, startedOn>>
grantVars   == <<grants, grantExpiresAt>>
bridgeVars  == <<bridge, linkTask, toBridge>>
clientVars  == <<clients, sockTask, sockSession, farewell>>
vars == <<clockVars, sessionVars, grantVars, bridgeVars, clientVars>>

ActiveStates  == {"starting", "ready", "error"}
SessionStates == ActiveStates \cup {"unallocated", "closed", "forgotten"}
BridgeEvents  == {"session.ready", "asr.error", "session.closed"}

\* "command" stands for utterance.commit and tts.speak, which are forwarded alike.
Messages ==
    [type: {"session.start", "session.stop", "command"}, session: Sessions]

Active == {s \in Sessions : state[s] \in ActiveStates}
Known  == Active \cup {s \in Sessions : state[s] = "closed"}

-----------------------------------------------------------------------------
(* What the critical sections are made of.                                 *)

StopFor(s) == [type |-> "session.stop", session |-> s]

\* Mutant: the stops of the swept sessions are forgotten.
StopOrdersForgotten(S) == {<<>>}

\* A HashMap is swept in no particular order, so the stops go out in any.
StopOrders(S) == SetToSeqs({StopFor(s) : s \in S})

\* send_json on the registered link, if there is one.
TellBridge(messages) ==
    toBridge' = [l \in Links |-> IF l = bridge THEN toBridge[l] \o messages
                                 ELSE toBridge[l]]

\* Mutant: a state that no other part of the code knows.
CloseAsStopped(C) ==
    /\ state' = [s \in Sessions |-> IF s \in C THEN "stopped" ELSE state[s]]
    /\ closedOnce' = closedOnce \cup C

\* Mutant: sessions still starting are left out.
CloseReady(C) ==
    LET R == {s \in C : state[s] = "ready"} IN
    /\ state' = [s \in Sessions |-> IF s \in R THEN "closed" ELSE state[s]]
    /\ closedOnce' = closedOnce \cup R

\* state = "closed" for the sessions of C.
Close(C) ==
    /\ state' = [s \in Sessions |-> IF s \in C THEN "closed" ELSE state[s]]
    /\ closedOnce' = closedOnce \cup C

\* Mutant: the clients are removed without a word.
DropClients(C) ==
    /\ clients' = [s \in Sessions |-> IF s \in C THEN None ELSE clients[s]]
    /\ UNCHANGED <<sockTask, sockSession, farewell>>

\* clients.remove for the sessions of C, each with a last message.
DismissClients(C) ==
    /\ clients' = [s \in Sessions |-> IF s \in C THEN None ELSE clients[s]]
    /\ farewell' = farewell \cup {k \in Sockets : \E s \in C : clients[s] = k}
    /\ UNCHANGED <<sockTask, sockSession>>

\* A request that adds a message to the channel of the link (bound).
RoomOnLink == bridge # None => Len(toBridge[bridge]) < QueueBound

-----------------------------------------------------------------------------
Init ==
    /\ now = 0
    /\ lastReap = 0
    /\ state = [s \in Sessions |-> "unallocated"]
    /\ expiresAt = [s \in Sessions |-> 0]
    /\ owner = [s \in Sessions |-> None]
    /\ grants = {}
    /\ grantExpiresAt = [g \in Grants |-> 0]
    /\ bridge = None
    /\ linkTask = [l \in Links |-> "unused"]
    /\ toBridge = [l \in Links |-> <<>>]
    /\ clients = [s \in Sessions |-> None]
    /\ sockTask = [k \in Sockets |-> "unused"]
    /\ sockSession = [k \in Sockets |-> None]
    /\ farewell = {}
    /\ closedOnce = {}
    /\ startedOn = [s \in Sessions |-> None]

\* Time passes, never beyond the instant the reaper is due.
Tick ==
    /\ now < Horizon
    /\ now < lastReap + ReapEvery
    /\ now' = now + 1
    /\ UNCHANGED <<lastReap, sessionVars, grantVars, bridgeVars, clientVars>>

-----------------------------------------------------------------------------
(* HTTP requests.                                                          *)

\* create_browser_grant; the token is random, so it is one never seen.
IssueBrowserGrant(g) ==
    /\ grantExpiresAt[g] = 0
    /\ now + GrantTtl <= Horizon
    /\ grants' = grants \cup {g}
    /\ grantExpiresAt' = [grantExpiresAt EXCEPT ![g] = now + GrantTtl]
    /\ UNCHANGED <<clockVars, sessionVars, bridgeVars, clientVars>>

\* Mutant: off by one.
HasRoomOffByOne == bridge # None /\ Cardinality(Active) <= SessionCapacity

\* What create_session checks before it touches the grant.
HasRoom == bridge # None /\ Cardinality(Active) < SessionCapacity

\* Mutant: the grant is looked up, not removed.
ConsumeGrantByLookup(g) == g \in grants /\ UNCHANGED grantVars

\* consume_browser_grant: the grant leaves the store, valid or not.
ConsumeGrant(g) ==
    /\ g \in grants
    /\ grants' = grants \ {g}
    /\ UNCHANGED grantExpiresAt

GrantValid(g) == grantExpiresAt[g] >= now

\* Payment for a session: the operator needs no grant (buyer = None).
Pay(buyer) ==
    IF buyer = None THEN UNCHANGED grantVars
    ELSE ConsumeGrant(buyer) /\ GrantValid(buyer)

\* create_session, answered 201: one critical section from the capacity
\* check to the insert.
CreateSession(s, buyer) ==
    /\ HasRoom
    /\ state[s] = "unallocated"
    /\ Pay(buyer)
    /\ RoomOnLink
    /\ now + SessionTtl + RetainFor + ReapEvery <= Horizon
    /\ state' = [state EXCEPT ![s] = "starting"]
    /\ expiresAt' = [expiresAt EXCEPT ![s] = now + SessionTtl]
    /\ owner' = [owner EXCEPT ![s] = buyer]
    /\ startedOn' = [startedOn EXCEPT ![s] = bridge]
    /\ TellBridge(<<[type |-> "session.start", session |-> s]>>)
    /\ UNCHANGED <<clockVars, closedOnce, bridge, linkTask, clientVars>>

\* Mutant: the grant is consumed before bridge and capacity are checked.
RefuseAfterConsuming(g) ==
    /\ ConsumeGrant(g)
    /\ ~HasRoom \/ ~GrantValid(g)
    /\ UNCHANGED <<clockVars, sessionVars, bridgeVars, clientVars>>

\* create_session, answered 401 invalid_browser_grant: the stale grant is gone.
RefuseStaleGrant(g) ==
    /\ HasRoom
    /\ ConsumeGrant(g)
    /\ ~GrantValid(g)
    /\ UNCHANGED <<clockVars, sessionVars, bridgeVars, clientVars>>

\* delete_session: any session still in the map, closed or not.
DeleteSession(s) ==
    /\ s \in Known
    /\ RoomOnLink
    /\ Close({s})
    /\ TellBridge(<<StopFor(s)>>)
    /\ DismissClients({s})
    /\ UNCHANGED <<clockVars, expiresAt, owner, startedOn, grantVars, bridge, linkTask>>

\* forward_session_command and the end of speak_text.
ForwardCommand(s) ==
    /\ s \in Known
    /\ bridge # None
    /\ RoomOnLink
    /\ TellBridge(<<[type |-> "command", session |-> s]>>)
    /\ UNCHANGED <<clockVars, sessionVars, grantVars, bridge, linkTask, clientVars>>

-----------------------------------------------------------------------------
(* The task of a bridge connection.                                        *)

\* bridge_socket up to its loop: the new link replaces the registered one,
\* whose sender is dropped and whose channel therefore ends once drained.
\* Connections are numbered in the order they are made.
BridgeSocketOpen(l) ==
    /\ linkTask[l] = "unused"
    /\ \A m \in Links : m < l => linkTask[m] # "unused"
    /\ bridge' = l
    /\ linkTask' = [linkTask EXCEPT ![l] = "serving"]
    /\ UNCHANGED <<clockVars, sessionVars, grantVars, toBridge, clientVars>>

\* rx.recv() then socket.send(): one message goes out.
BridgeSocketSend(l) ==
    /\ linkTask[l] = "serving"
    /\ toBridge[l] # <<>>
    /\ toBridge' = [toBridge EXCEPT ![l] = Tail(@)]
    /\ UNCHANGED <<clockVars, sessionVars, grantVars, bridge, linkTask, clientVars>>

\* Mutant: a second copy of the sender keeps a replaced link alive.
BridgeSocketBreakCurrent(l) ==
    /\ linkTask[l] = "serving" /\ bridge = l
    /\ linkTask' = [linkTask EXCEPT ![l] = "leaving"]
    /\ UNCHANGED <<clockVars, sessionVars, grantVars, bridge, toBridge, clientVars>>

\* The loop of bridge_socket ends: a close frame, a failed send or receive,
\* or the channel of a replaced link running dry.  The lock is not taken yet.
BridgeSocketBreak(l) ==
    /\ linkTask[l] = "serving"
    /\ linkTask' = [linkTask EXCEPT ![l] = "leaving"]
    /\ UNCHANGED <<clockVars, sessionVars, grantVars, bridge, toBridge, clientVars>>

\* Mutant: any link that ends takes the registration with it.
DisconnectedAny(l) == bridge # None

\* Mutant: the registration goes only when there are sessions to release.
DisconnectedBusy(l) == bridge = l /\ Active # {}

DisconnectedCurrent(l) == bridge = l

\* bridge_socket after its loop.
BridgeSocketCleanup(l) ==
    /\ linkTask[l] = "leaving"
    /\ linkTask' = [linkTask EXCEPT ![l] = "done"]
    /\ toBridge' = [toBridge EXCEPT ![l] = <<>>]
    /\ IF DisconnectedCurrent(l)
       THEN bridge' = None /\ Close(Active) /\ DismissClients(Active)
       ELSE UNCHANGED <<bridge, state, closedOnce, clientVars>>
    /\ UNCHANGED <<clockVars, expiresAt, owner, startedOn, grantVars>>

\* handle_bridge_event for the events that change the registry, on any link
\* still served and whatever the state of the session.  The event is relayed
\* to the client; session.closed leaves the client registered.
HandleBridgeEvent(l, s, event) ==
    /\ linkTask[l] = "serving"
    /\ s \in Known
    /\ CASE event = "session.ready"  -> /\ state' = [state EXCEPT ![s] = "ready"]
                                        /\ UNCHANGED <<closedOnce, farewell>>
         [] event = "asr.error"      -> /\ state' = [state EXCEPT ![s] = "error"]
                                        /\ UNCHANGED <<closedOnce, farewell>>
         [] event = "session.closed" -> /\ Close({s})
                                        /\ farewell' = farewell \cup ({clients[s]} \ {None})
    /\ UNCHANGED <<clockVars, expiresAt, owner, startedOn, grantVars, bridgeVars,
                   clients, sockTask, sockSession>>

-----------------------------------------------------------------------------
(* The task of a browser event socket.                                     *)

\* client_ws: the ticket is checked, the lock released, the upgrade begins.
ClientWs(k, s) ==
    /\ sockTask[k] = "unused"
    /\ s \in Active
    /\ sockTask' = [sockTask EXCEPT ![k] = "upgrading"]
    /\ sockSession' = [sockSession EXCEPT ![k] = s]
    /\ UNCHANGED <<clockVars, sessionVars, grantVars, bridgeVars, clients, farewell>>

\* client_socket up to its loop: the session is looked up again, and the new
\* socket silently replaces the one registered before.
ClientSocketOpen(k) ==
    /\ sockTask[k] = "upgrading"
    /\ IF sockSession[k] \in Active
       THEN /\ sockTask' = [sockTask EXCEPT ![k] = "serving"]
            /\ clients' = [clients EXCEPT ![sockSession[k]] = k]
       ELSE /\ sockTask' = [sockTask EXCEPT ![k] = "done"]
            /\ UNCHANGED clients
    /\ UNCHANGED <<clockVars, sessionVars, grantVars, bridgeVars, sockSession, farewell>>

\* The loop of client_socket ends, or the upgrade fails.
ClientSocketBreak(k) ==
    /\ sockTask[k] \in {"upgrading", "serving"}
    /\ sockTask' = [sockTask EXCEPT ![k] = IF @ = "serving" THEN "leaving" ELSE "done"]
    /\ UNCHANGED <<clockVars, sessionVars, grantVars, bridgeVars, clients, sockSession, farewell>>

\* client_socket after its loop: it deregisters only itself, but it closes the
\* session even when another socket has taken its place.
ClientSocketCleanup(k) ==
    LET s == sockSession[k] IN
    /\ sockTask[k] = "leaving"
    /\ sockTask' = [sockTask EXCEPT ![k] = "done"]
    /\ clients' = IF clients[s] = k THEN [clients EXCEPT ![s] = None] ELSE clients
    /\ IF s \in Active
       THEN Close({s}) /\ TellBridge(<<StopFor(s)>>)
       ELSE UNCHANGED <<state, closedOnce, toBridge>>
    /\ UNCHANGED <<clockVars, expiresAt, owner, startedOn, grantVars, bridge, linkTask,
                   sockSession, farewell>>

-----------------------------------------------------------------------------
(* The reaper.                                                             *)

\* Mutant: off by one at the instant of the expiry.
ExpiredStrictly == {s \in Active : expiresAt[s] < now}

Expired == {s \in Active : expiresAt[s] <= now}

\* Mutant: a session with a client registered is retained.
ForgettableUnwatched ==
    {s \in Expired \cup (Known \ Active) : clients[s] = None /\ expiresAt[s] + RetainFor <= now}

\* The closed sessions the reaper no longer retains, those it just closed included.
Forgettable ==
    {s \in Expired \cup (Known \ Active) : expiresAt[s] + RetainFor <= now}

SessionReaper ==
    /\ now = lastReap + ReapEvery
    /\ lastReap' = now
    /\ state' = [s \in Sessions |-> IF s \in Forgettable THEN "forgotten"
                                    ELSE IF s \in Expired THEN "closed" ELSE state[s]]
    /\ closedOnce' = closedOnce \cup Expired
    /\ \E stops \in StopOrders(Expired) : TellBridge(stops)
    /\ DismissClients(Expired)
    /\ grants' = {g \in grants : grantExpiresAt[g] > now}
    /\ UNCHANGED <<now, expiresAt, owner, startedOn, grantExpiresAt, bridge, linkTask>>

-----------------------------------------------------------------------------
Request ==
    \/ \E g \in Grants : IssueBrowserGrant(g) \/ RefuseStaleGrant(g)
    \/ \E s \in Sessions :
          \/ \E buyer \in Grants \cup {None} : CreateSession(s, buyer)
          \/ DeleteSession(s)
          \/ ForwardCommand(s)

BridgeSocket ==
    \E l \in Links :
       \/ BridgeSocketOpen(l)
       \/ BridgeSocketSend(l)
       \/ BridgeSocketBreak(l)
       \/ BridgeSocketCleanup(l)
       \/ \E s \in Sessions, event \in BridgeEvents : HandleBridgeEvent(l, s, event)

ClientSocket ==
    \E k \in Sockets :
       \/ \E s \in Sessions : ClientWs(k, s)
       \/ ClientSocketOpen(k)
       \/ ClientSocketBreak(k)
       \/ ClientSocketCleanup(k)

Next == Tick \/ SessionReaper \/ Request \/ BridgeSocket \/ ClientSocket

Spec == Init /\ [][Next]_vars

\* A link that was replaced has lost its sender: once its channel is drained,
\* recv() returns None and its loop must end.
ReplacedLinkStep(l) ==
    bridge # l /\ (BridgeSocketSend(l) \/ (toBridge[l] = <<>> /\ BridgeSocketBreak(l)))

\* The timer fires, time passes, and a task that left its loop gets the lock
\* (tokio's mutex is fair).  Nothing is assumed of browsers, of the operator,
\* or of the bridge on a healthy link.
Fairness ==
    /\ WF_vars(Tick)
    /\ WF_vars(SessionReaper)
    /\ \A l \in Links : WF_vars(ReplacedLinkStep(l)) /\ WF_vars(BridgeSocketCleanup(l))
    /\ \A k \in Sockets : WF_vars(ClientSocketCleanup(k))

FairSpec == Spec /\ Fairness

-----------------------------------------------------------------------------
(* Properties.                                                             *)

Fresh == Active \ closedOnce

\* Every variable stays in its range.
TypeOK ==
    /\ now \in Nat /\ lastReap \in Nat
    /\ state \in [Sessions -> SessionStates]
    /\ expiresAt \in [Sessions -> Nat]
    /\ owner \in [Sessions -> Grants \cup {None}]
    /\ grants \in SUBSET Grants
    /\ grantExpiresAt \in [Grants -> Nat]
    /\ bridge \in Links \cup {None}
    /\ linkTask \in [Links -> {"unused", "serving", "leaving", "done"}]
    /\ toBridge \in [Links -> Seq(Messages)]
    /\ clients \in [Sessions -> Sockets \cup {None}]
    /\ sockTask \in [Sockets -> {"unused", "upgrading", "serving", "leaving", "done"}]
    /\ sockSession \in [Sockets -> Sessions \cup {None}]
    /\ farewell \in SUBSET Sockets
    /\ closedOnce \in SUBSET Sessions
    /\ startedOn \in [Sessions -> Links \cup {None}]

\* A registered link or socket still has its task, hence its receiver: no
\* send_json on a registered link ever fails, so the branch of create_session
\* that drops the bridge after a failed send is never taken.
RegisteredLinksLive ==
    /\ bridge # None => linkTask[bridge] \in {"serving", "leaving"}
    /\ \A s \in Sessions : clients[s] # None =>
          /\ sockTask[clients[s]] \in {"serving", "leaving"}
          /\ sockSession[clients[s]] = s

\* The bridge that connected last is the one registered for as long as its
\* task runs, however late the tasks of earlier connections clean up.
LatestBridgeRegistered ==
    \A l \in Links :
        /\ linkTask[l] \in {"serving", "leaving"}
        /\ \A m \in Links : m > l => linkTask[m] = "unused"
        => bridge = l

\* One grant buys one session: no two sessions of the server's life were
\* paid for with the same grant, and a grant that paid is not in the store.
GrantSpentOnce ==
    \A s, t \in Sessions : owner[s] # None =>
        /\ owner[s] \notin grants
        /\ owner[s] = owner[t] => s = t

\* SESSION_CAPACITY bounds the sessions running on their first life, whatever
\* the interleaving of requests, disconnects, expiries and bridge events.
\* (Sessions revived by a late event of the bridge come on top of it.)
AdmissionBound == Cardinality(Fresh) <= SessionCapacity

\* While no bridge is registered every session has been released: none is
\* left running that was never closed.
OfflineReleasesAll == bridge = None => Fresh = {}

\* A session on its first life ends by its expiry, give or take one period of
\* the reaper.
NoOverstay == \A s \in Fresh : now < expiresAt[s] + ReapEvery

\* The inductive invariant: what the safety properties above rest on.

\* Links are used in the order they are numbered.
LinksInOrder ==
    \A l, m \in Links : m < l /\ linkTask[l] # "unused" => linkTask[m] # "unused"

\* A closed session is remembered as such, also after it is forgotten.
ClosedIsRemembered ==
    \A s \in Sessions : state[s] \in {"closed", "forgotten"} => s \in closedOnce

\* A grant in the store, or spent on a session, was issued.
GrantsAccounted ==
    /\ \A g \in grants : grantExpiresAt[g] # 0
    /\ \A s \in Sessions : owner[s] # None => grantExpiresAt[owner[s]] # 0

\* The clock never runs past the reaper, which leaves no expired session.
ReaperOnTime ==
    /\ lastReap <= now /\ now <= lastReap + ReapEvery
    /\ \A s \in Fresh : lastReap < expiresAt[s]

IndInv ==
    /\ TypeOK
    /\ RegisteredLinksLive
    /\ LinksInOrder /\ LatestBridgeRegistered
    /\ GrantsAccounted /\ GrantSpentOnce
    /\ ClosedIsRemembered /\ ReaperOnTime
    /\ AdmissionBound /\ OfflineReleasesAll

\* A grant that has not expired leaves the store only to pay for a session:
\* an offline or full service does not cost the caller its grant.
GrantNotWasted ==
    [][\A g \in grants \ grants' :
          grantExpiresAt[g] > now => \E s \in Active' \ Active : owner'[s] = g]_vars

\* A client registered for a session that is closed is told so, unless the
\* session dies with an event socket of its own.
ClientToldWhenCut ==
    [][\A s \in Active \ Active' :
          \/ clients[s] = None
          \/ clients[s] \in farewell'
          \/ \E k \in Sockets : sockSession[k] = s /\ sockTask[k] # sockTask'[k]]_vars

\* Every session in the map is eventually dropped from it, even if no client,
\* no operator and no bridge ever speaks again.
SessionsForgotten == \A s \in Sessions : s \in Known ~> state[s] = "forgotten"

\* A link that another bridge connection replaced ends by itself.
ReplacedLinksEnd ==
    \A l \in Links : (linkTask[l] = "serving" /\ bridge # l) ~> linkTask[l] = "done"

\* docs/PROTOCOL.md: "Bridge or browser event-socket disconnect releases the
\* affected sessions."  The code does not keep this for a replaced link.
DisconnectReleases ==
    \A s \in Active : startedOn[s] # None => linkTask[startedOn[s]] # "done"

\* The refinement: Session.state seen as the phase of an abstract session.
Phase(s) == IF s \in Active THEN "open"
            ELSE CASE state[s] = "unallocated" -> "new"
                   [] state[s] = "closed"      -> "closed"
                   [] state[s] = "forgotten"   -> "gone"

Service == INSTANCE SessionService WITH
    phase <- [s \in Sessions |-> Phase(s)], buyer <- owner

\* The control plane implements the session service it promises.
ImplementsService == Service!Spec
=============================================================================
