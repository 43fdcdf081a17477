------------------------------ MODULE Shutdown ------------------------------
(***************************************************************************)
(* The end of the bridge process (BridgeApp and async_main in              *)
(* bridge/main.py).  A signal starts a task that stops every session,      *)
(* closes the connection and releases the RTC service, while the main task *)
(* goes on handling messages until its connection ends; then the main task *)
(* does the same once more, and the event loop cuts off what still runs.   *)
(*                                                                         *)
(* Sessions are healthy and started once.  Module BridgeApp has those that *)
(* are started again, that fail, and the capacity.                         *)
(***************************************************************************)
EXTENDS Naturals

CONSTANTS
    Sessions,  \* session ids
    Signals,   \* the tasks that signals start, one each
    Main,      \* the task of async_main
    None

ASSUME ShutdownAssumption == Main \notin Signals /\ None \notin Sessions

Tasks == Signals \cup {Main}

VARIABLES
    at,        \* where each task is
    todo,      \* sessions that stop_all_sessions of a task has yet to look at
    cur,       \* the session whose stop() a task awaits
    stopping,  \* BridgeApp.stopping
    up,        \* the connection, made or not, is usable
    held,      \* BridgeApp.sessions
    life,      \* of each session
    early,     \* sessions whose stop() ran before their start() was through
    stops,     \* calls of stop(), by session
    service,   \* "up", or "released": the RTC service of the process
    lost,      \* a connection was lost, not closed
    missed,    \* a stop() found no WebSocket because one was being connected
    due,       \* sessions that the task of a signal took out to stop them
    pulled     \* sessions from under which the service was released

sweepVars == <<todo, cur>>
sessionVars == <<held, life, early, stops>>
historyVars == <<lost, missed, due, pulled>>
vars == <<at, sweepVars, stopping, up, sessionVars, service, historyVars>>

Init ==
    /\ at = [t \in Tasks |-> IF t = Main THEN "connecting" ELSE "off"]
    /\ todo = [t \in Tasks |-> {}] /\ cur = [t \in Tasks |-> None]
    /\ stopping = FALSE /\ up = FALSE
    /\ held = {} /\ life = [s \in Sessions |-> "new"]
    /\ early = {} /\ stops = [s \in Sessions |-> 0]
    /\ service = "up"
    /\ lost = FALSE /\ missed = FALSE /\ due = {} /\ pulled = {}

Move(t, to) == at' = [at EXCEPT ![t] = to]

Running == {s \in Sessions : life[s] = "running"}

\* self.websocket is set while main receives, and while it handles a message.
Connected == at[Main] \in {"receiving", "starting", "stopping"}

Exited == at[Main] = "exited"

-----------------------------------------------------------------------------
(* stop_session and stop_all_sessions, in whatever task.                   *)

\* Mutant: the session stays in the map.
LeaveIn(t, s) ==
    /\ cur' = [cur EXCEPT ![t] = s]
    /\ stops' = [stops EXCEPT ![s] = @ + 1]
    /\ early' = IF life[s] = "starting" THEN early \cup {s} ELSE early
    /\ UNCHANGED held

\* It leaves the map at once; the await of its stop() follows.
TakeOut(t, s) ==
    /\ held' = held \ {s}
    /\ cur' = [cur EXCEPT ![t] = s]
    /\ stops' = [stops EXCEPT ![s] = @ + 1]
    /\ early' = IF life[s] = "starting" THEN early \cup {s} ELSE early

Sweeping(t) == at[t] \in {"sweeping", "clearing", "ending"}

\* Mutant: stop() runs as a task of its own.
SweepUnawaited(t, s) ==
    /\ Sweeping(t) /\ s \in todo[t]
    /\ todo' = [todo EXCEPT ![t] = @ \ {s}]
    /\ held' = held \ {s}
    /\ UNCHANGED <<at, cur, stopping, up, life, early, stops, service, historyVars>>

Sweep(t, s) ==
    /\ Sweeping(t) /\ cur[t] = None /\ s \in todo[t]
    /\ todo' = [todo EXCEPT ![t] = @ \ {s}]
    /\ IF s \in held THEN TakeOut(t, s) ELSE UNCHANGED <<cur, held, stops, early>>
    /\ due' = IF s \in held /\ t \in Signals THEN due \cup {s} ELSE due
    /\ UNCHANGED <<at, stopping, up, life, service, lost, missed, pulled>>

\* What stop() leaves of a session that was not through with start() is not
\* followed: its start may still succeed.
StopReturns(t) ==
    /\ cur[t] # None
    /\ cur' = [cur EXCEPT ![t] = None]
    /\ life' = IF cur[t] \in early THEN life ELSE [life EXCEPT ![cur[t]] = "stopped"]
    /\ at' = IF at[t] = "stopping" THEN [at EXCEPT ![t] = "receiving"] ELSE at
    /\ UNCHANGED <<todo, stopping, up, held, early, stops, service, historyVars>>

Swept(t) == Sweeping(t) /\ todo[t] = {} /\ cur[t] = None

Release == service' = "released" /\ pulled' = pulled \cup Running

-----------------------------------------------------------------------------
(* stop() in the task that a signal starts.                                *)

Signal(t) ==
    /\ at[t] = "off" /\ ~Exited
    /\ stopping' = TRUE
    /\ Move(t, "sweeping")
    /\ todo' = [todo EXCEPT ![t] = held]
    /\ UNCHANGED <<cur, up, sessionVars, service, historyVars>>

\* Mutant: the service is released, and then the connection closed.
ReleaseThenClose(t) ==
    /\ at[t] = "sweeping"
    /\ Move(t, "closing") /\ Release /\ up' = FALSE
    /\ UNCHANGED <<sweepVars, stopping, sessionVars, lost, missed, due>>

\* The connection is closed if there is one.
Close(t) ==
    /\ Swept(t) /\ t \in Signals
    /\ IF Connected
       THEN Move(t, "closing") /\ up' = FALSE /\ UNCHANGED <<service, missed, pulled>>
       ELSE /\ Move(t, "done") /\ Release
            /\ missed' = (missed \/ at[Main] = "connecting")
            /\ UNCHANGED up
    /\ UNCHANGED <<sweepVars, stopping, sessionVars, lost, due>>

Closed(t) ==
    /\ at[t] = "closing"
    /\ Move(t, "done") /\ Release
    /\ UNCHANGED <<sweepVars, stopping, up, sessionVars, lost, missed, due>>

-----------------------------------------------------------------------------
(* run() in the main task.                                                 *)

Connect ==
    /\ at[Main] = "connecting"
    /\ \/ Move(Main, "receiving") /\ up' = TRUE
       \/ Move(Main, "clearing") /\ UNCHANGED up
    /\ UNCHANGED <<sweepVars, stopping, sessionVars, service, historyVars>>

Lose ==
    /\ up
    /\ up' = FALSE /\ lost' = TRUE
    /\ UNCHANGED <<at, sweepVars, stopping, sessionVars, service, missed, due, pulled>>

HandleStart(s) ==
    /\ at[Main] = "receiving" /\ life[s] = "new"
    /\ Move(Main, "starting")
    /\ held' = held \cup {s}
    /\ life' = [life EXCEPT ![s] = "starting"]
    /\ UNCHANGED <<sweepVars, stopping, up, early, stops, service, historyVars>>

StartReturns(s) ==
    /\ at[Main] = "starting" /\ life[s] = "starting"
    /\ Move(Main, "receiving")
    /\ life' = [life EXCEPT ![s] = "running"]
    /\ UNCHANGED <<sweepVars, stopping, up, held, early, stops, service, historyVars>>

\* The failure is reported and the session stopped, unless that was done
\* meanwhile; when it cannot be reported, the session stays in the map.
StartFails(s) ==
    /\ at[Main] = "starting" /\ life[s] = "starting"
    /\ life' = [life EXCEPT ![s] = "failed"]
    /\ IF up /\ s \in held
       THEN Move(Main, "stopping") /\ TakeOut(Main, s)
       ELSE Move(Main, "receiving") /\ UNCHANGED <<cur, held, early, stops>>
    /\ UNCHANGED <<todo, stopping, up, service, historyVars>>

HandleStop(s) ==
    /\ at[Main] = "receiving" /\ s \in held
    /\ Move(Main, "stopping") /\ TakeOut(Main, s)
    /\ UNCHANGED <<todo, stopping, up, life, service, historyVars>>

\* The connection has ended: the finally of run().
Leave ==
    /\ at[Main] = "receiving" /\ ~up
    /\ Move(Main, "clearing")
    /\ todo' = [todo EXCEPT ![Main] = held]
    /\ UNCHANGED <<cur, stopping, up, sessionVars, service, historyVars>>

\* Mutant: the loop is not ended by stopping.
BackOff ==
    /\ at[Main] = "backoff" \/ (Swept(Main) /\ at[Main] = "clearing")
    /\ Move(Main, IF at[Main] = "clearing" THEN "backoff" ELSE "connecting")
    /\ UNCHANGED <<sweepVars, stopping, up, sessionVars, service, historyVars>>

\* The loop ends when stopping is set, before the backoff or after it; then
\* async_main calls stop().
Again ==
    /\ at[Main] = "backoff" \/ (Swept(Main) /\ at[Main] = "clearing")
    /\ IF stopping THEN Move(Main, "ending") /\ todo' = [todo EXCEPT ![Main] = held]
       ELSE /\ Move(Main, IF at[Main] = "clearing" THEN "backoff" ELSE "connecting")
            /\ UNCHANGED todo
    /\ UNCHANGED <<cur, stopping, up, sessionVars, service, historyVars>>

\* asyncio.run cancels the tasks that are not done.
Exit ==
    /\ at[Main] = "ending" /\ Swept(Main)
    /\ at' = [t \in Tasks |-> IF t = Main THEN "exited"
                              ELSE IF at[t] \in {"off", "done"} THEN at[t] ELSE "cut"]
    /\ Release
    /\ UNCHANGED <<sweepVars, stopping, up, sessionVars, lost, missed, due>>

-----------------------------------------------------------------------------
Step(t) ==
    \/ \E s \in Sessions : Sweep(t, s)
    \/ at[t] # "cut" /\ StopReturns(t)
    \/ t \in Signals /\ (Close(t) \/ Closed(t))

Handle == \E s \in Sessions : HandleStart(s) \/ StartReturns(s) \/ StartFails(s) \/ HandleStop(s)

MainStep == Step(Main) \/ Connect \/ Leave \/ Again \/ Exit
            \/ \E s \in Sessions : StartReturns(s) \/ StartFails(s)

Next == \/ \E t \in Signals : Signal(t) \/ Step(t)
        \/ MainStep \/ Handle \/ Lose

\* Every await ends: the connection attempt, start() and stop() of a session,
\* and the closing handshake, by their timeouts.
FairSpec == Init /\ [][Next]_vars /\ WF_vars(MainStep) /\ \A t \in Signals : WF_vars(Step(t))

Spec == Init /\ [][Next]_vars

-----------------------------------------------------------------------------
(* Properties.                                                             *)

\* Every variable stays in its range; only the main task ends the process.
TypeOK ==
    /\ DOMAIN at = Tasks
    /\ at[Main] \in {"connecting", "receiving", "starting", "stopping", "clearing", "backoff",
                     "ending", "exited"}
    /\ \A t \in Signals : at[t] \in {"off", "sweeping", "closing", "done", "cut"}
    /\ todo \in [Tasks -> SUBSET Sessions] /\ cur \in [Tasks -> Sessions \cup {None}]
    /\ stopping \in BOOLEAN /\ up \in BOOLEAN
    /\ held \subseteq Sessions /\ early \subseteq Sessions
    /\ life \in [Sessions -> {"new", "starting", "running", "failed", "stopped"}]
    /\ stops \in [Sessions -> Nat]
    /\ service \in {"up", "released"}
    /\ lost \in BOOLEAN /\ missed \in BOOLEAN
    /\ due \subseteq Sessions /\ pulled \subseteq Sessions

\* However many tasks stop sessions at once, each session is stopped once:
\* its ASR client, its room and its worker are not closed twice.
StoppedOnce == \A s \in Sessions : stops[s] <= 1

\* The process does not end under a running session, save one whose stop() was
\* called before its start() was through, and one that the task of a signal
\* was still stopping when the main task was done.
NothingLeftRunning ==
    Exited => \A s \in Running : s \in early \/ \E t \in Signals : at[t] = "cut" /\ cur[t] = s

\* At most one signal has come.
OneSignal == \A t, u \in Signals : at[t] # "off" /\ at[u] # "off" => t = u

\* With one signal, and a connection that lasts until it is closed, the RTC
\* service is not released under a session that the task of the signal stops,
\* unless it had not started.  (A second signal finds no session left and does
\* not wait for the first; a connection that is lost sends the main task past
\* the task of the signal.)
ServiceLast == OneSignal /\ ~lost => pulled \cap due \subseteq early

\* A signal ends the process.  One thing can prevent it: the connection was
\* being made when the task of the signal looked for one to close.
SignalEnds == stopping ~> (Exited \/ (missed /\ up))
=============================================================================
