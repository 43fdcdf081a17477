------------------------------ MODULE BridgeApp ------------------------------
(***************************************************************************)
(* The bridge process (class BridgeApp of bridge/bridge/main.py): one      *)
(* WebSocket to the control plane at a time, one loop that handles the     *)
(* control messages strictly one after the other, and the sessions it      *)
(* holds, each with a worker that reports on its own.  An await inside the *)
(* handling of a message is a point where the workers, the network and the *)
(* control plane move on: it ends one action and begins the next.          *)
(*                                                                         *)
(* The control plane is an environment here: any message may arrive.       *)
(***************************************************************************)
EXTENDS Naturals, Sequences, FiniteSets

CONSTANTS
    Sessions,     \* session ids
    MaxLinks,     \* connections over the life of the bridge (bound); AppNext has
                  \* the control plane silent on the last of them
    MaxSessions,  \* BRIDGE_MAX_SESSIONS
    WireBound,    \* bound on the messages under way in each direction of a link
    None

Links == 1 .. MaxLinks

ASSUME BridgeAssumption ==
    /\ IsFiniteSet(Sessions) /\ None \notin Sessions
    /\ MaxLinks \in Nat /\ MaxSessions \in Nat \ {0} /\ WireBound \in Nat

VARIABLES
    phase,   \* of run(): "connecting", "receiving", "clearing" (its finally); "ending"
             \* once it was left (the finally of async_main), then "dead"
    link,    \* the connection last made, 0 before the first
    up,      \* whether a connection still carries messages
    held,    \* BridgeApp.sessions
    failed,  \* sessions whose worker task died of an exception
    job,     \* the await that the loop is suspended in, and for which session
    todo,    \* what stop_all_sessions has yet to stop of the list it took
    stray,   \* sessions whose stop() was left by an exception, before it could
             \* cancel a partial result that may be under way
    inbox,   \* messages on their way to the bridge, per link
    outbox   \* events on their way to the control plane, per link

sweepVars == <<todo, stray>>
appVars == <<phase, link, up, held, failed, job, sweepVars, inbox, outbox>>

Idle == [step |-> "idle", session |-> None]
Busy(step, s) == [step |-> step, session |-> s]

AppMessages ==
    [type: {"session.start", "session.stop", "command"}, session: Sessions]
AppEvents ==
    [type: {"session.ready", "asr.error", "session.closed"}, session: Sessions]

\* emit: what is sent on a connection that is gone is lost.
Emit(type, s) ==
    outbox' = IF up[link] THEN [outbox EXCEPT ![link] = Append(@, [type |-> type, session |-> s])]
              ELSE outbox

\* Mutant: a task that was cancelled but not awaited reports later.
WorkingAfterStop(s) == job # Busy("starting", s)

\* A worker, hence a source of ASR failures: the session has been started and
\* its stop() has not returned.
Working(s) ==
    \/ s \in held /\ job # Busy("starting", s)
    \/ job.step \in {"stopping", "replacing"} /\ job.session = s

AppInit ==
    /\ phase = "connecting"
    /\ link = 0
    /\ up = [l \in Links |-> FALSE]
    /\ held = {}
    /\ failed = {}
    /\ job = Idle
    /\ todo = {}
    /\ stray = {}
    /\ inbox = [l \in Links |-> <<>>]
    /\ outbox = [l \in Links |-> <<>>]

-----------------------------------------------------------------------------
(* run(): connect, receive until the connection is lost, clear, again.     *)

Connect(l) ==
    /\ phase = "connecting"
    /\ l = link + 1
    /\ link' = l
    /\ up' = [up EXCEPT ![l] = TRUE]
    /\ phase' = "receiving"
    /\ UNCHANGED <<held, failed, job, inbox, outbox, sweepVars>>

\* The receiving loop learns that its connection is gone.  Messages received
\* before that may have been handled, or are dropped with the connection.
Lose ==
    /\ phase = "receiving"
    /\ job = Idle
    /\ ~up[link]
    /\ phase' = "clearing"
    /\ todo' = held
    /\ inbox' = [inbox EXCEPT ![link] = <<>>]
    /\ UNCHANGED <<link, up, held, failed, job, stray, outbox>>

\* stop_all_sessions in the finally of run(), or in the stop() that async_main
\* ends with: the list of the sessions held is taken once and stopped one after
\* the other, unreported; one that has left the map meanwhile is passed over.
ClearOne(s) ==
    /\ phase \in {"clearing", "ending"}
    /\ job = Idle
    /\ s \in todo
    /\ todo' = todo \ {s}
    /\ held' = held \ {s}
    /\ job' = IF s \in held THEN Busy("clearing", s) ELSE Idle
    /\ UNCHANGED <<phase, link, up, failed, stray, inbox, outbox>>

ClearedOne ==
    /\ job.step = "clearing"
    /\ job.session \notin failed
    /\ job' = Idle
    /\ UNCHANGED <<phase, link, up, held, failed, inbox, outbox, sweepVars>>

\* Mutant: a phase of its own that the loop does not know.
ReconnectLater ==
    /\ phase = "clearing" /\ job = Idle /\ todo = {}
    /\ phase' = "backoff"
    /\ UNCHANGED <<link, up, held, failed, job, inbox, outbox, sweepVars>>

\* stop_all_sessions has come to the end of its list, and the backoff is over.
Reconnect ==
    /\ phase = "clearing"
    /\ job = Idle
    /\ todo = {}
    /\ phase' = "connecting"
    /\ UNCHANGED <<link, up, held, failed, job, inbox, outbox, sweepVars>>

\* The process ends with all it holds.
Die ==
    /\ phase' = "dead"
    /\ up' = [l \in Links |-> FALSE]
    /\ held' = {}
    /\ failed' = {}
    /\ job' = Idle
    /\ todo' = {}
    /\ stray' = {}
    /\ inbox' = [l \in Links |-> <<>>]
    /\ UNCHANGED <<link, outbox>>

\* The process is killed, at any point.
Crash == phase # "dead" /\ Die

\* async_main has stopped what was left, and the exception ends the process.
End ==
    /\ phase = "ending"
    /\ job = Idle
    /\ todo = {}
    /\ Die

\* A new process is started.
Restart ==
    /\ phase = "dead"
    /\ phase' = "connecting"
    /\ UNCHANGED <<link, up, held, failed, job, inbox, outbox, sweepVars>>

-----------------------------------------------------------------------------
(* handle(): one message at a time.                                        *)

Receiving(type, s) ==
    /\ phase = "receiving"
    /\ job = Idle
    /\ inbox[link] # <<>>
    /\ Head(inbox[link]) = [type |-> type, session |-> s]
    /\ inbox' = [inbox EXCEPT ![link] = Tail(@)]

\* Mutant: off by one.
AdmitOneMore(s, others) ==
    IF Cardinality(others) > MaxSessions
    THEN held' = others /\ job' = Idle /\ Emit("asr.error", s)
    ELSE held' = others \cup {s} /\ job' = Busy("starting", s) /\ UNCHANGED outbox

\* The capacity check of session.start, then the first await of start().
Admit(s, others) ==
    IF Cardinality(others) >= MaxSessions
    THEN held' = others /\ job' = Idle /\ Emit("asr.error", s)
    ELSE held' = others \cup {s} /\ job' = Busy("starting", s) /\ UNCHANGED outbox

\* session.start; a session already held is stopped first, silently.
HandleStart(s) ==
    /\ Receiving("session.start", s)
    /\ IF s \in held
       THEN held' = held \ {s} /\ job' = Busy("replacing", s) /\ UNCHANGED outbox
       ELSE Admit(s, held)
    /\ UNCHANGED <<phase, link, up, failed, sweepVars>>

Replaced(s) ==
    /\ job = Busy("replacing", s)
    /\ s \notin failed
    /\ Admit(s, held)
    /\ UNCHANGED <<phase, link, up, failed, inbox, sweepVars>>

Started(s) ==
    /\ job = Busy("starting", s)
    /\ job' = Idle
    /\ Emit("session.ready", s)
    /\ UNCHANGED <<phase, link, up, held, failed, inbox, sweepVars>>

\* start() raised: the error is reported and the session stopped, silently.
StartFailed(s) ==
    /\ job = Busy("starting", s)
    /\ held' = held \ {s}
    /\ job' = Busy("aborting", s)
    /\ Emit("asr.error", s)
    /\ UNCHANGED <<phase, link, up, failed, inbox, sweepVars>>

\* start() raised, or the report that it succeeded did, and the report of that
\* error raised as well: handle() is left and the session stays in the map.
StartFailedUnreported(s) ==
    /\ job = Busy("starting", s)
    /\ ~up[link]
    /\ job' = Idle
    /\ UNCHANGED <<phase, link, up, held, failed, inbox, outbox, sweepVars>>

Aborted(s) ==
    /\ job = Busy("aborting", s)
    /\ job' = Idle
    /\ UNCHANGED <<phase, link, up, held, failed, inbox, outbox, sweepVars>>

\* session.stop: the session leaves the map at once, is stopped, then reported
\* closed; a session that is not held is not reported.
HandleStop(s) ==
    /\ Receiving("session.stop", s)
    /\ IF s \in held
       THEN held' = held \ {s} /\ job' = Busy("stopping", s)
       ELSE UNCHANGED <<held, job>>
    /\ UNCHANGED <<phase, link, up, failed, outbox, sweepVars>>

\* Mutant: the end of the session is not reported.
StoppedSilently(s) ==
    /\ job = Busy("stopping", s)
    /\ s \notin failed
    /\ job' = Idle
    /\ UNCHANGED <<phase, link, up, held, failed, inbox, outbox, sweepVars>>

Stopped(s) ==
    /\ job = Busy("stopping", s)
    /\ s \notin failed
    /\ job' = Idle
    /\ Emit("session.closed", s)
    /\ UNCHANGED <<phase, link, up, held, failed, inbox, sweepVars>>

\* utterance.commit and tts.speak; a session that is not held is ignored.
HandleCommand(s) ==
    /\ Receiving("command", s)
    /\ job' = IF s \in held THEN Busy("commanding", s) ELSE Idle
    /\ UNCHANGED <<phase, link, up, held, failed, outbox, sweepVars>>

Commanded(s) ==
    /\ job = Busy("commanding", s)
    /\ job' = Idle
    /\ UNCHANGED <<phase, link, up, held, failed, inbox, outbox, sweepVars>>

\* _transcribe fails, in the worker or in a commit, and says so.  Results and
\* playback events change nothing in the registry and are left out.
AsrFailed(s) ==
    /\ phase = "receiving"
    /\ Working(s)
    /\ up[link]
    /\ Len(outbox[link]) < WireBound
    /\ Emit("asr.error", s)
    /\ UNCHANGED <<phase, link, up, held, failed, job, inbox, sweepVars>>

\* emit raises inside a worker when its connection has been closed and the
\* loop has not noticed yet: the worker task ends with that exception.
WorkerDies(s) ==
    /\ phase = "receiving"
    /\ Working(s)
    /\ ~up[link]
    /\ failed' = failed \cup {s}
    /\ UNCHANGED <<phase, link, up, held, job, inbox, outbox, sweepVars>>

\* Mutant: an exception out of stop() ends the clearing, and the run goes on.
StopRaisesUnnoticed(s) ==
    /\ job.step \in {"stopping", "replacing", "clearing"} /\ job.session = s
    /\ s \in failed
    /\ job' = Idle
    /\ failed' = failed \ {s}
    /\ todo' = {}
    /\ stray' = stray \cup {s}
    /\ IF job.step = "stopping" THEN Emit("session.closed", s) ELSE UNCHANGED outbox
    /\ UNCHANGED <<phase, link, up, held, inbox>>

\* RealSession.stop() awaits its worker.  When that died, the exception comes
\* out of stop(), past what follows there, so that a partial result under way
\* goes on, and past the report of stop_session: handle() is left and its
\* caller goes on.  In the finally of run() it leaves stop_all_sessions and
\* ends the run; the stop() of async_main, which comes after, takes the list of
\* what is left, and there it ends the process.
StopRaises(s) ==
    /\ job.step \in {"stopping", "replacing", "clearing"} /\ job.session = s
    /\ s \in failed
    /\ IF phase = "ending" THEN Die
       ELSE /\ phase' = IF job.step = "clearing" THEN "ending" ELSE phase
            /\ todo' = IF job.step = "clearing" THEN held ELSE todo
            /\ job' = Idle
            /\ failed' = failed \ {s}
            /\ stray' = stray \cup {s}
            /\ IF job.step = "stopping" THEN Emit("session.closed", s) ELSE UNCHANGED outbox
            /\ UNCHANGED <<link, up, held, inbox>>

\* The partial result that such a stop() left alone fails: its report goes out
\* on whatever connection there is by then.
StrayFails(s) ==
    /\ phase = "receiving"
    /\ s \in stray
    /\ up[link]
    /\ Len(outbox[link]) < WireBound
    /\ Emit("asr.error", s)
    /\ stray' = stray \ {s}
    /\ UNCHANGED <<phase, link, up, held, failed, job, todo, inbox>>

\* Mutant: the queue of a healthy session blocks stop() as well.
StopHangsAnyway(s) ==
    /\ job.step \in {"stopping", "replacing", "clearing"} /\ job.session = s
    /\ job' = Busy("stuck", s)
    /\ UNCHANGED <<phase, link, up, held, failed, inbox, outbox, sweepVars>>

\* Before that, stop() puts None on the audio queue: if the queue filled up
\* after the worker died, the put never returns.
StopHangs(s) ==
    /\ job.step \in {"stopping", "replacing", "clearing"} /\ job.session = s
    /\ s \in failed
    /\ job' = Busy("stuck", s)
    /\ UNCHANGED <<phase, link, up, held, failed, inbox, outbox, sweepVars>>

-----------------------------------------------------------------------------
(* The network and, in this module alone, the control plane.               *)

LinkDown(l) ==
    /\ up[l]
    /\ up' = [up EXCEPT ![l] = FALSE]
    /\ UNCHANGED <<phase, link, held, failed, job, inbox, outbox, sweepVars>>

\* A message that control plane sent on a link: lost when the link is gone.
Deliver(l, message) ==
    /\ inbox' = IF up[l] THEN [inbox EXCEPT ![l] = Append(@, message)] ELSE inbox
    /\ UNCHANGED <<phase, link, up, held, failed, job, outbox, sweepVars>>

\* The control plane takes the next event from a link.
Take(l) ==
    /\ outbox[l] # <<>>
    /\ outbox' = [outbox EXCEPT ![l] = Tail(@)]
    /\ UNCHANGED <<phase, link, up, held, failed, job, inbox, sweepVars>>

HandleMessage ==
    \E s \in Sessions :
        \/ HandleStart(s) \/ Replaced(s)
        \/ Started(s) \/ StartFailed(s) \/ StartFailedUnreported(s) \/ Aborted(s)
        \/ HandleStop(s) \/ Stopped(s)
        \/ HandleCommand(s) \/ Commanded(s)
        \/ StopRaises(s) \/ StopHangs(s)

Run ==
    \/ Lose
    \/ \E s \in Sessions : ClearOne(s)
    \/ ClearedOne
    \/ Reconnect
    \/ End

\* What the bridge does by itself, connecting and dying left aside.
AppStep ==
    \/ HandleMessage \/ Run
    \/ \E s \in Sessions : AsrFailed(s) \/ WorkerDies(s) \/ StrayFails(s)

AppNext ==
    \/ AppStep \/ Crash \/ Restart
    \/ \E l \in Links :
          \/ Connect(l) \/ LinkDown(l) \/ Take(l)
          \/ \E message \in AppMessages :
                /\ l < MaxLinks
                /\ up[l] /\ Len(inbox[l]) + Len(outbox[l]) < WireBound
                /\ Deliver(l, message)

AppSpec == AppInit /\ [][AppNext]_appVars

\* The awaits of the loop return: the ASR and TTS clients have timeouts, and
\* the RTC SDKs are trusted to answer.  The loop notices a lost connection
\* (ping_timeout), and the backoff ends.
AppFairSpec == AppSpec /\ WF_appVars(HandleMessage) /\ WF_appVars(Run)

-----------------------------------------------------------------------------
(* Properties.                                                             *)

\* Every variable stays in its range.
AppTypeOK ==
    /\ phase \in {"connecting", "receiving", "clearing", "ending", "dead"}
    /\ link \in 0 .. MaxLinks
    /\ up \in [Links -> BOOLEAN]
    /\ held \in SUBSET Sessions
    /\ failed \in SUBSET Sessions
    /\ job \in [step: {"idle", "starting", "aborting", "replacing", "stopping",
                       "commanding", "clearing", "stuck"},
                session: Sessions \cup {None}]
    /\ todo \in SUBSET Sessions
    /\ stray \in SUBSET Sessions
    /\ inbox \in [Links -> Seq(AppMessages)]
    /\ outbox \in [Links -> Seq(AppEvents)]

\* BRIDGE_MAX_SESSIONS bounds the sessions held, those still starting
\* included, also when a start replaces a session of the same id.
HeldWithinLimit == Cardinality(held) <= MaxSessions

\* No session outlives the connection it was started on: when the bridge
\* connects again it holds nothing, although stop_all_sessions works from a list
\* it took before its awaits, and any stop() in it may raise.  (A partial result
\* that such a stop() left under way is not held, and does outlive it.)
EmptyHandedReconnect == phase = "connecting" => held = {}

\* The loss of the connection is not the end of the run: the message being
\* handled ends, every session is stopped, and the bridge connects again or
\* dies.  One thing alone can prevent it: a stop() stuck on the audio queue of
\* a session whose worker died when its report could not be sent.
LossIsCleared ==
    (phase = "receiving" /\ ~up[link])
    ~> (phase \in {"connecting", "dead"} \/ (job.step = "stuck" /\ job.session \in failed))
=============================================================================
