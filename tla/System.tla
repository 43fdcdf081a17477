------------------------------- MODULE System -------------------------------
(***************************************************************************)
(* The control plane and the bridge process together, joined by the        *)
(* WebSocket: what the task of a link sends arrives in the inbox of the    *)
(* bridge, what the bridge emits is taken by the task, both in order and   *)
(* only while the connection is up.  The two ends notice the loss of a     *)
(* connection at different times, so the bridge may be back on a new link  *)
(* while the control plane still serves the old one.                       *)
(***************************************************************************)
EXTENDS ControlPlane

CONSTANTS
    MaxSessions,  \* BRIDGE_MAX_SESSIONS
    WireBound     \* bound on the messages under way to the bridge

ASSUME SystemAssumption == MaxSessions \in Nat \ {0} /\ WireBound \in Nat

VARIABLES phase, link, up, held, failed, job, todo, stray, inbox, outbox

App == INSTANCE BridgeApp

appVars == <<phase, link, up, held, failed, job, todo, stray, inbox, outbox>>
sysVars == <<vars, appVars>>

SysInit == Init /\ App!AppInit

\* The upgrade of a connection: bridge_socket starts and the bridge receives.
Connected(l) == BridgeSocketOpen(l) /\ App!Connect(l)

\* A message goes from the channel of a link onto the wire; a full wire
\* (WireBound) holds it back.
Send(l) ==
    /\ BridgeSocketSend(l)
    /\ up[l] => Len(inbox[l]) < WireBound
    /\ App!Deliver(l, Head(toBridge[l]))

\* The next event of a link reaches handle_bridge_event, which ignores it
\* when the session is not in the map.
Receive(l) ==
    /\ App!Take(l)
    /\ LET event == Head(outbox[l]) IN
       IF event.session \in Known
       THEN HandleBridgeEvent(l, event.session, event.type)
       ELSE linkTask[l] = "serving" /\ UNCHANGED vars

\* The task of a link leaves its loop because the connection is gone or
\* because its channel has ended; either way the connection is gone after.
Break(l) ==
    /\ BridgeSocketBreak(l)
    /\ ~up[l] \/ (bridge # l /\ toBridge[l] = <<>>)
    /\ up' = [up EXCEPT ![l] = FALSE]
    /\ UNCHANGED <<phase, link, held, failed, job, todo, stray, inbox, outbox>>

Server ==
    /\ \/ Tick \/ SessionReaper \/ Request \/ ClientSocket
       \/ \E l \in Links : BridgeSocketCleanup(l)
    /\ UNCHANGED appVars

Wire == \E l \in Links : Connected(l) \/ Send(l) \/ Receive(l) \/ Break(l)

Bridge ==
    /\ App!AppStep \/ App!Crash \/ App!Restart \/ \E l \in Links : App!LinkDown(l)
    /\ UNCHANGED vars

SysNext == Server \/ Wire \/ Bridge

SysSpec == SysInit /\ [][SysNext]_sysVars

\* Awaits return, the wire moves, and the bridge learns by its pings that a
\* connection is gone.  When the control plane does is left open.
SysFairness ==
    /\ WF_sysVars(App!HandleMessage /\ UNCHANGED vars)
    /\ WF_sysVars(App!Run /\ UNCHANGED vars)
    /\ \A l \in Links : WF_sysVars(Send(l)) /\ WF_sysVars(Receive(l))

SysFairSpec == SysSpec /\ SysFairness

-----------------------------------------------------------------------------
(* Properties.                                                             *)

Connection == phase = "receiving" /\ up[link]
OnTheWay(message) ==
    \E i \in 1 .. Len(toBridge[link]) : toBridge[link][i] = message
Arrived(message) ==
    \E i \in 1 .. Len(inbox[link]) : inbox[link][i] = message
Reported(event) ==
    \E i \in 1 .. Len(outbox[link]) : outbox[link][i] = event

\* A bridge whose BRIDGE_MAX_SESSIONS is at least SESSION_CAPACITY never turns
\* a session away: the stop that freed a slot always arrives before the start
\* that takes it.
BridgeNeverRejects ==
    MaxSessions >= SessionCapacity /\ phase = "receiving" /\ job = App!Idle /\ inbox[link] # <<>>
    /\ Head(inbox[link]).type = "session.start"
    => Cardinality(held) < MaxSessions

\* A session the bridge holds although the control plane has closed or
\* forgotten it has a session.stop on its way, on the same connection.
OrphansAreStopped ==
    Connection => \A s \in held \ Active : OnTheWay(StopFor(s)) \/ Arrived(StopFor(s))

\* A session shown as ready is really held by the bridge, or the bridge has
\* ended it and the report is on its way; only the loss of the connection
\* makes an exception.
ReadyMeansHeld ==
    Connection => \A s \in Sessions :
        state[s] = "ready" /\ startedOn[s] = link =>
            \/ s \in held
            \/ job = App!Busy("stopping", s)
            \/ Reported([type |-> "session.closed", session |-> s])

\* Once the bridge has reported a session closed it reports nothing more
\* about it: no late failure can revive the session.
QuietAfterClosed ==
    \A l \in Links, s \in Sessions : \A i, j \in 1 .. Len(outbox[l]) :
        i < j /\ outbox[l][i] = [type |-> "session.closed", session |-> s]
        => outbox[l][j].session # s

\* Every session the bridge still holds after it was closed is given up, unless
\* the bridge is stuck for ever in the stop() of a session whose worker died.
OrphansGoAway ==
    \A s \in Sessions :
        (s \in held /\ s \notin Active)
        ~> (s \notin held \/ s \in Active \/ (job.step = "stuck" /\ job.session \in failed))

\* docs/PROTOCOL.md: "Concurrency is bounded by `SESSION_CAPACITY` on the
\* control plane".  A late event of the bridge breaks it.
CapacityBound == Cardinality(Active) <= SessionCapacity
=============================================================================
