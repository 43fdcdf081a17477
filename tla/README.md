# TLA+ for agora-sensevoice-demo

A browser speaks into an RTC channel, a bridge in the LAN receives the audio and
has it transcribed, and a small control plane on a public host joins the two: it
allocates sessions, starts and stops them on the bridge over one WebSocket, and
relays the results to the browser over another.  This directory models that
machinery, checks it with TLC on small instances and proves with TLAPS, for
every value of the constants, all of its safety properties.

    tlc -workers 2 -config ControlPlaneLinks.cfg MCControlPlane
    tlapm ControlPlane_proofs.tla

`PROJECT.json` lists the runs, the mutants, the source lines behind each
definition, the hazards and the theorems.

## The system

| Part | Source | State | Operations |
|---|---|---|---|
| Session registry | `control-plane/src/main.rs` | `Inner` behind one async mutex: sessions, browser grants, the bridge link, a client link per session | grant, create, delete, commit, speak; the tasks of bridge and client sockets; bridge events; the reaper |
| Delivery ACKs | `main.rs` 1367-1433 | `pending_deliveries` of one client socket | result sent, ACK received |
| Configuration, authorization, tokens | `main.rs`, `agora_token.rs`, `livekit_token.rs` | none | validate, compare, sign |
| Bridge process | `bridge/bridge/main.py`, `BridgeApp` | one connection, a map of sessions | run, handle, emit, stop |
| Recognition | `main.py`, `RealSession` | audio queue of 500, worker, partial task, sequence number | audio frame, segment, transcribe, commit, stop |
| Playback | `main.py`, `RealSession.speak` | TTS task, prebuffer | speak (barge-in), produce, pace |
| Segmenter | `bridge/bridge/segmenter.py` | pre-roll, utterance, silence | feed, commit, reset |
| RTC receivers | `agora_receiver.py`, `livekit_receiver.py` | SDK connection, push queue, shared Agora service | start, push, clear, stop |
| ASR and TTS clients | `sensevoice.py`, `tts.py` | HTTP client, upsampler carry | transcribe, stream |
| Browser | `control-plane/static/app.js` | `runtime`: session, socket, RTC client, microphone | start, join, stop, cleanupLocal, server events |
| Tools, scripts, deployment | `bridge/*.py`, `*.sh`, `deploy/` | none | none |

How they interact: HTTP requests and WebSocket tasks of the control plane share
`Inner`.  The bridge link and each client link are unbounded channels drained by
the task of their socket.  The bridge handles control messages strictly one after
the other, while the workers of its sessions emit events on their own.

What makes it hard, and what correct means:

* **Registry.**  The handlers interleave at every lock; a socket task ends long
  before its cleanup gets the lock; a session closed here goes on in the bridge
  for a while, and its late reports still arrive.  Correct: capacity, one session
  per grant, no session beyond its expiry, nothing registered that is dead,
  release of the sessions of a bridge that left, clients told.
* **Bridge.**  Every `await` in a handler lets workers, losses of the connection
  and failures in.  Correct: its own capacity, no session that outlives its
  connection, a lost connection is always cleared.
* **Both.**  The ends disagree about which connection lives and which session
  runs.  Correct: orphans have their stop under way and go away; the bridge
  never turns a session away; nothing follows the report that a session closed.
* **Recognition and segmenter.**  Three tasks report through one lock; a partial
  may be cancelled anywhere; `stop()` puts its mark behind a queue that may be
  full.  Correct: no audio lost or doubled, a final is the last word on its
  utterance, results in the order of their numbers, nothing after the end.
* **Playback.**  Barge-in and stop at any await, a stream that stalls, ends or
  fails anywhere.  Correct: what is reported is what was played, one speech at a
  time, silence after the stop, no waiting for ever.
* **Credentials.**  Correct: what is accepted at start-up suffices for every later
  token.
* **Shutdown.**  The task of a signal beside the main task.  Correct: every
  session is stopped once, none is left, the process ends.
* **Browser.**  Asynchronous functions over one global record; not modelled, see
  the end of this page.

## Modules

| Module | What it models |
|---|---|
| `SessionService` | abstract: a session is new, open, closed or gone; opened below the capacity with an unused grant |
| `ControlPlane` | the registry; one action per critical section; the bridge is an environment that may report anything on a served link |
| `BridgeApp` | the bridge process; one action between two awaits; the control plane is an environment that may send anything |
| `System` | `ControlPlane` extended with an instance of `BridgeApp` (`App`), joined by the wire |
| `Shutdown` | the tasks of `BridgeApp` that end the process: signal handlers beside `run()` |
| `Utterances` | abstract: utterances are opened one at a time, numbered upwards, and end in one final |
| `Segmenter` | `PcmSegmenter`, frame by frame; implements `Utterances` |
| `Recognition` | the tasks of `RealSession` that recognize, over a segmenter that does whatever `Utterances` allows |
| `Playout` | the tasks of `RealSession` that speak, with the upsampler, the push queue of the LiveKit receiver, and that of Agora, which may refuse a frame |
| `Credentials` | `Config::validate`, the token builders, and the sessions whose tokens they issue |
| `MC*` | small instances of each, with symmetry or settings where they need any |
| `*_proofs` | theorems about the eight detailed modules, and their proofs |

`System` composes `ControlPlane` and `BridgeApp`; `Recognition` uses `Utterances`,
which `Segmenter` implements, so what holds in `Recognition` holds with the real
segmenter.  The other modules look closer at one part that the composition treats
as a whole.

### ControlPlane and SessionService

`state[s]` is `Session.state`, with `unallocated` and `forgotten` for ids not in
the map; `bridge`, `clients`, `grants` are the fields of `Inner`; `toBridge[l]` is
the channel of a link.  `linkTask` and `sockTask` say where the task of a socket
is: a task that left its loop (`leaving`) but has no lock yet is still registered.
`BridgeSocketOpen/Send/Break/Cleanup` are the parts of `bridge_socket`,
`HandleBridgeEvent` is what its loop does with a message; `ClientWs` and
`ClientSocketOpen/Break/Cleanup` are `client_ws` and `client_socket`, which check
the session twice under two locks.  `SessionReaper` is one round of the reaper.
`farewell`, `closedOnce`, `startedOn` are history: no action reads them.

Left out: tickets, cookies, response bodies; the relay of `asr.partial`,
`asr.final`, `tts.*` and `trace.update`, which changes nothing in the registry.
`utterance.commit` and `tts.speak` are one message, `command`.  The branch of
`create_session` that drops the bridge after a failed send cannot be taken:
`RegisteredLinksLive` shows that the receiver of a registered link exists.

A session can be made active again by a late event (see Findings), so the bound
on admission, the release on going offline and the expiry are stated of `Fresh`
sessions, those never closed before.  What is true of all of them is what
`ImplementsService` says: they are open sessions that `Reopen` brought back.

### BridgeApp

`phase` is where `run()` is, `job` the await its loop is suspended in (`starting`,
`replacing`, `stopping`, ...), `held` is `BridgeApp.sessions`.  `failed` are the
sessions whose worker died because a report could not be sent; `stop()` of such
a session raises (`StopRaises`) or, if the audio queue filled up meanwhile, never
returns (`StopHangs`, `job.step = "stuck"`).

`todo` is the rest of the list that `stop_all_sessions` took before its first await:
`Lose` takes it, `ClearOne` works on it, and `Reconnect` asks only whether it is at
its end.  That nothing is held by then is `EmptyHandedReconnect`.  An exception out of
one `stop()` leaves the list in the middle, and with it the reconnect loop: the `stop()`
of `async_main` takes a new list of what is left (`ending`), and the process dies.
`Crash` kills it at any point; `Restart` is the supervisor.

The same exception passes the lines of `RealSession.stop()` that cancel a partial
result.  `stray` are the sessions where one may be under way still; `StrayFails` is its
report of an error, on whatever connection there is by then.  It is the one thing that
outlives the connection of its session.

### System

`Send` joins `BridgeSocketSend` to the delivery of the message, `Receive` joins
the taking of an event to `HandleBridgeEvent`, `Connected` the two ends of a new
connection.  `LinkDown` takes a connection away; the bridge notices by `Lose` and
the control plane by `Break`, in either order and at any distance, so that the
bridge may be back on link 2 while link 1 is still served.  There is one bridge
process here; `ControlPlane` alone allows any number.

### Shutdown

`at[t]` is where the main task and the task of each signal are, `cur[t]` the
session whose `stop()` task `t` awaits.  `Sweep`/`StopReturns` are the loop of
`stop_all_sessions`, `Close`/`Closed` the rest of `stop()`, `Again` the two tests of
`stopping` in `run()`, `Exit` the end of `asyncio.run`, which cuts off what still
runs.  `Connected` tells when `self.websocket` is set.  Sessions are healthy here;
`BridgeApp` has those that are not.

### Segmenter and Utterances

A frame is its position in the stream, with a duration, a voice flag and the
time at which it begins; the buffers hold positions, so that a lost, moved or doubled
frame shows.  `preRollMs` and `utteranceMs` are the counters of the code
(`_pre_roll_duration_ms`, `_utterance_ms`), not computed from the buffers: that they
say how long the buffers last is part of what is proved.  The loop of
`_push_pre_roll` removes the frames from which on the rest is too long; as the
frames of a buffer follow each other, what has gone before the k-th is the time from
the first to the k-th.  The assumption `PreRollAssumption` is what the defaults
satisfy: a pre-roll of 240 ms holds the 140 ms of speech that open an utterance and a
frame more.  `reset` is
part of `Finish`.

### Recognition

`job[t]` is what the worker, the message loop and the partial task are doing: at
the ASR request, in line for `send_lock`, or with their message written and not
yet drained.  `lock` is the holder and the line (`asyncio.Lock` is fair).
`Emit`, `Granted`, `Written` are the parts of `emit` between its awaits;
`CancelPartial` takes the partial out wherever it is.  `sent` is history.

### Playout

`player[s]` is the await of `_speak` for speech `s`, `stream[s]` the task `produce`
and its stream.  `Pending(s)` is the buffer between them, in samples; the bytes a
chunk leaves over are not modelled, nor is the 20 ms pace: a pause is just an
interleaving.  `queue`, `inHand` are `_push_queue` and the frame that `_send_loop`
captures.

`provider` says whose receiver it is.  The one of LiveKit takes every frame, at the
cost of the oldest in its queue.  That of Agora has no queue of its own, and may
refuse a frame (`PushPcm`; `refused` is history): in the middle of a speech that ends
the loop, with audio pending and the stream perhaps open, and the speech is reported
finished; at its padded tail nobody looks (see Findings).

### Credentials

The settings that credentials depend on are spelled out, all others are
`othersSound`.  `Boot` refuses what `validate` refuses.  A token is what a service
reads in it: from when and until when.  `state = "failed"`
is the answer 500 after the grant was spent.

## Runs

| Run | Shows |
|---|---|
| `ControlPlaneAdmission` | `TypeOK`, `GrantSpentOnce`, `AdmissionBound`, `NoOverstay`, `GrantNotWasted`, and the refinement `ImplementsService`: two sessions, one slot, one grant, one link, one event socket and a clock that passes a whole life |
| `ControlPlaneLinks` | `LatestBridgeRegistered`, `OfflineReleasesAll`, `RegisteredLinksLive`, `ClientToldWhenCut`; and, under fairness, `SessionsForgotten`, `ReplacedLinksEnd`: two connections and two event sockets of one session |
| `ControlPlaneReplacedLink` | violates `DisconnectReleases` (finding 2) |
| `BridgeAppSafety` | `AppTypeOK`, `HeldWithinLimit`, `EmptyHandedReconnect`; and, under fairness, `LossIsCleared`: three sessions for two places, so that a `stop()` that raises leaves others behind it in the list |
| `SystemOrder` | `BridgeNeverRejects`, `QuietAfterClosed` with two sessions through one slot |
| `SystemReconnect` | `OrphansAreStopped`, `ReadyMeansHeld`; and, under fairness, `OrphansGoAway`: two connections and a session that is deleted or expires |
| `SystemCapacity` | violates `CapacityBound` (finding 1) |
| `ShutdownSignals` | `StoppedOnce`, `NothingLeftRunning`, `ServiceLast`; and, under fairness, `SignalEnds`: two signals and two sessions |
| `SegmenterStream` | `InOrderWithoutGaps`, `SpeechKept` and the refinement `ImplementsUtterances` for every stream of eight frames |
| `RecognitionResults` | `FinalIsLast`, `SequenceInOrder`, `FinalsInOrder`, `ClosedIsLast`; and, under fairness, `StopEnds` |
| `PlayoutSpeech` | `ReportsAreTrue`, `BargeInSilences`, `OneAtATime`, `StopSilences`; and, under fairness, `SpeechEnds`: two speeches, through either receiver |
| `CredentialsIssued` | `GrantBuysSession`, `TokensCoverSession` for every combination of settings on both sides of every limit, and for the shortest tokens accepted |

Some properties exempt what the code does not do, and say so where they are
stated: a final that a commit has cut may follow the next one (`FinalsInOrder`); a
`trace.update` may carry the number of a later result (`SequenceInOrder`); a speech
of which Agora refused a frame is reported finished (`ReportsAreTrue`); a session
whose `start()` was under way when the process was told to stop, or a second signal,
escapes the order of `Shutdown` (`NothingLeftRunning`, `ServiceLast`), and a connection
made while the signal looked for one keeps the process alive (`SignalEnds`); the
`stop()` of a session whose worker died never returns when its queue is full
(`LossIsCleared`, `OrphansGoAway`).

The type invariants of `Segmenter`, `Recognition`, `Playout`, `Shutdown` and `Credentials`
are properties of no run; they are proved, as parts of the inductive invariants.

Runs with `CHECK_DEADLOCK FALSE` are those of systems that may rightly rest: a
server whose clock has reached `Horizon` and that nobody asks anything, a stream
that has ended, a session or a process that was stopped.

**Bounds.**  `Horizon` bounds the clock; a session is created only if it can live
and be forgotten before it, so no expiry is cut off.  Time is in units, the
periods are one or two of them: what matters is their order and their ties.
`MaxLinks` and `Sockets` bound the connections ever made: two are a replacement, and
a cleanup that comes after it; `LatestLinkIsRegistered` is proved for any number.
`ControlPlaneLinks` needs one life of one session only, hence its short `Horizon` and
no retention; the longer clocks are in `ControlPlaneAdmission`.
`QueueBound` holds back requests, never
the cleanup or the reaper, while that many messages wait on a link.  `WireBound`
bounds what is on the wire.  The composed runs have no event sockets: what the
close of one does to a session, a deletion does too, and the theorems are about any
number of them.  Two sessions and one slot are the smallest
competition; the properties of one session use one.  `BridgeAppSafety` has three
sessions for two places: two are held at once, so that the `stop()` of one can keep
the other from being cleared, and a third is turned away.  On the last
of its connections the control plane sends nothing: the first is there to be lost and
cleared, the second for what a stray partial reports on a later one.  `SystemReconnect`
has room for one session only: there a stuck `stop()` harms nobody else, and the
exception that `OrphansGoAway` makes for it is exercised by `LossIsCleared`.
Symmetry is used only for
runs without liveness: sessions, grants and sockets are interchangeable, links are
not.  (`ImplementsService` is a safety property.)

In the later modules: `SegmenterStream` has frames of two durations, and limits
small enough that eight frames hold two utterances, a cut at the maximum and one
by silence.  `RecognitionResults` has a queue of two and five frames, so that the
queue overflows and two utterances are under way at once; two commits cut both.
`PlayoutSpeech` scales a frame down to two samples (even, as 960 is: `ReportsAreTrue`
rests on that parity) and the pre-buffer to two frames, with a push queue of
three that overflows.  `CredentialsIssued` has ticks of less than a second, so that
truncation shows, and a clock that passes a session and a late reaper.
`ShutdownSignals` has one session to be held by each of two tasks at once.

**Fairness.**  `ControlPlane`: time passes, the interval of the reaper fires, a
task that left its loop gets the lock (tokio's mutex is fair), a replaced link
drains its channel, whose sender is gone.  Nothing is assumed of browsers,
operators or a healthy link.  The reaper is timely: the clock does not pass the
next round (`Tick`), which ignores the wait for the lock.  `BridgeApp`: the awaits
of the loop return - ASR and TTS requests have timeouts (30 s, 120 s), the RTC
SDKs are trusted to answer - and the loop notices a lost connection (pings every
20 s).  `System` adds that the wire moves; when the control plane notices a lost
connection is left open.  A restart of the bridge is not assumed.
`Recognition`: the event loop runs the tasks that can run, ASR requests end and
writes drain; nobody has to speak, commit or stop.  `Playout`: the same, and the TTS
service streams on, ends or is timed out.  `Shutdown`: every await ends, by its
timeout, but nobody need send a signal or a message.

## Proofs

Every safety property that a passing run checks, whether of states, of steps or a
refinement, is also a theorem, for every value of the constants that satisfies the
assumptions stated with them.  Few of these properties are inductive: each module
has an invariant that says where the thing at stake is (a session, a frame, a
number, a stop under way), and one lemma per part of it.

| Module | Inductive invariant | Theorems |
|---|---|---|
| `ControlPlane_proofs` | `IndInv` | `TypeCorrect`, `AdmissionIsBounded`, `GrantsAreSpentOnce`, `OfflineReleases`, `LinksAreLive`, `LatestLinkIsRegistered`, `SessionsExpire`, `GrantsAreNotWasted`, `ClientsAreTold`, `ServiceIsImplemented` |
| `BridgeApp_proofs` | `AppTypeOK`, `SweepInPlace` | `BridgeTypeCorrect`, `HeldIsBounded`, `ReconnectsEmptyHanded` |
| `System_proofs` | `SysInv` | `RegistryIsImplemented`, `ClosedStaysQuiet`, `OrphansAreAccounted`, `ReadyIsHeld`, `NeverRejects` |
| `Shutdown_proofs` | `IndInv` | `SessionsAreStoppedOnce`, `NothingIsLeftRunning`, `ServiceIsLast` |
| `Segmenter_proofs` | `IndInv`, `IndexInv` | `SegmenterTypeCorrect`, `FramesInOrder`, `SpeechIsKept`, `UtterancesAreImplemented` |
| `Recognition_proofs` | `IndInv` | `RecognitionTypeCorrect`, `FinalsAreLast`, `NumbersAreInOrder`, `FinalsAreInOrder`, `ClosingIsLast` |
| `Playout_proofs` | `IndInv` | `TrueReports`, `BargeInIsSilent`, `SpeechesInOrder`, `StoppedIsSilent` |
| `Credentials_proofs` | `CredInv` | `GrantsBuySessions`, `TokensCoverSessions` |

**ControlPlane**, for any number of sessions, grants, links and sockets and any
periods.  `AdmissionBound` needs `ClosedIsRemembered` (a closed session that is made
active again is not `Fresh`) and the finiteness of `Sessions`; `GrantSpentOnce` needs
`GrantsAccounted` (a token is never issued twice); `LatestBridgeRegistered` needs
`LinksInOrder`; `NoOverstay` follows from `ReaperOnTime` (no fresh session expired before
the last round, and the clock is at most a period past it).  `GrantsAreNotWasted` and
`ClientsAreTold` are action properties and need the type invariant only.
`ServiceIsImplemented`: initial states map to initial states of `SessionService`, every
step to a step of it or a stutter; creation uses `GrantSpentOnce` and the capacity
check, the reaper is a `Sweep` that closes and forgets at once.

**BridgeApp**, for any control plane.  The type invariant ties `job` to `phase`, which
is what an await may find changed and what it may not; the bound on `held` is by
cardinality.  `ReconnectsEmptyHanded` rests on the loop invariant of the clearing,
`SweepInPlace`: between its steps the rest of the list is exactly what is still held,
since nothing is admitted then, and a `stop()` that raises is followed by a new list.  The bound on the wire is no part of the argument: the lemmas are about
`AppMove`, which has none, and serve `System` as well.

**System**, for any number of sessions and connections and any length of the wire.
`RegistryIsImplemented`: every behaviour of the two processes together is a behaviour
of `ControlPlane`, so all theorems about the registry hold of the system; it rests on
`EventsTyped`, that the bridge emits only what the registry knows.  For the rest, `SysInv`
speaks of the messages *pending* for a connection, whether still on the link or in
the inbox, and of the events under way, by their places:
`LinksAgree` and `JobInPlace` (which connection the bridge serves, and which session
its job is about), `FreshIds` and `StartedHere` (an id is started once, by the link it
was created on, and what is reported of it goes out there, save the error of a stray
partial, which comes later), `StraysInPlace` (a session that may have such a partial was
started, and is handled no more), `Unstarted` and `StartsInOrder` (the stop of a session comes behind its
start), `ClosedQuiet` (nothing of a session behind its `session.closed`),
`OrphansAccounted` (a session that the bridge has or will have, and the registry has
given up, has its stop pending), `ReadyAccounted` (for a session ready in the registry
the bridge has it, or the event that ends it is under way), `RoomKept` (ahead of a
start the bridge has room: what it holds is active in the registry, and counted
by its capacity check, or about to be stopped).  Every step is first shown to be one of a
few moves (`Releases`, `Creates`, `Connects`, `Receives`, `Cuts`, `TakesStart`, `TakesStop`,
`TakesCommand`, `Reports`, `Strays`, `GoesOn`), and every part of `SysInv` has a lemma over the moves.
`BridgeNeverRejects` is about a bridge whose `MaxSessions` is at least `SessionCapacity`.

**Shutdown**, for any number of signals and sessions.  `StopsCounted` follows each session
from the map into the hands of one task; `RunningAccounted` and `DueAccounted` say who
stops what still runs; `LastSweep` that the last sweep of the main task has all that
is left to do; `ConnectionKept` and `ReleasedLast` carry `ServiceLast`.

**Segmenter**, for any stream and any commits, given that the thresholds satisfy
`NumbersAssumption` and `PreRollAssumption`.  `BuffersInPlace`: a buffer holds the last
frames of the stream, and lasts as long as its counter says.  `FinalsBehind`: what was
reported precedes what is buffered.  Both make `FramesInOrder`.  `CandidateHeld`: the
candidate is the run of voice at the end of the stream, begun after a frame at
which no lost voice goes on, and is in the buffer whole; here `PreRollAssumption` is
needed, for the step that makes the candidate an utterance.  With it, `RunsAreShort`
is inductive, since only the candidate can grow.  `UtterancesAreImplemented` needs
neither: an utterance has a number exactly while it is active (`IndexInv`).

**Recognition**, for any length of the queue and any segmenter that keeps the promise
of `Utterances`.  `InFlight` finds a result between its request and the line at the lock:
`DueInPlace` and `OneFinal` say which results may be there, `NumbersInLine` that the numbers
drawn are in the order of the line and behind all that were written, `TracesFollow`
that a trace is about a result that went out, `StopInPlace` how far the stop has come.

**Playout**, for any speeches, an even frame and any queue (`PlayoutAssumption`).
`SamplesAccounted` is the heart: the player takes no more than the upsampler made, and
whole frames, an even number of samples, until the tail.  The upsampler makes an
odd number (`2 * n - 1` of `n`), so something is always pending when a stream ends,
and a speech that was played is never taken for one without audio.
`RefusedInPlace` tells a player that was refused a frame from one at the end of its
stream: it goes to its end at once, and reports no error.
`ReportsInPlace` says where a player is after what it reported, and
`QueueAccounted` whose frames the push queue may hold.

**Credentials**, for any set of configurations and any length of a second in ticks
(`EnvironmentsAssumption`, `SecondAssumption`).  `GrantsBuySessions` is arithmetic over the
limits of `Validate`; `TokensCoverSessions` is about truncation to whole seconds and a reaper
that is at most a period late, as in `ControlPlane`.

Only model-checked: the liveness properties (`SessionsForgotten`, `ReplacedLinksEnd`,
`LossIsCleared`, `OrphansGoAway`, `SignalEnds`, `StopEnds`, `SpeechEnds`), which TLAPS cannot
prove; they hold under the fairness stated above.

## Findings

1. **More sessions than `SESSION_CAPACITY`** (`SystemCapacity`).  A session is
   deleted while its `session.ready` is on the wire.  `handle_bridge_event`
   (`main.rs:1252`) makes it active again, after its slot has been given away:
   until the bridge reports it closed there is one session too many, and a
   request may be refused with `session_busy` though nobody uses the slot.  When
   the start failed there is no such report, and the session stays in state
   `error` until it expires.  `docs/PROTOCOL.md:96`: "Concurrency is bounded by
   `SESSION_CAPACITY` on the control plane".
2. **A replaced bridge link releases nothing** (`ControlPlaneReplacedLink`).  If
   the bridge is back before its old connection is noticed lost, the cleanup of
   the old one finds itself not registered (`main.rs:1194`) and leaves its
   sessions active until they expire, though the bridge stopped them when it lost
   the connection.  `docs/PROTOCOL.md:98`: "Bridge or browser event-socket
   disconnect releases the affected sessions."

Read in the code while modelling it, and shown by no run of its own:

* A speech that was refused is reported finished.  When the Agora receiver refuses a
  frame (`agora_receiver.py:203-211`), `_speak` leaves its loop (`bridge/main.py:336`) as
  if the speech were over: it drops what is pending and still to come, logs "tts playout
  complete" and reports `tts.finished`, at which the page shows that reading is complete
  (`app.js:473`).  A refused tail (`main.py:316`) is not noticed at all.
  `docs/PROTOCOL.md:15` has the bridge "synthesize" the text "and play it into the
  session's RTC channel"; `tts.error` (`docs/PROTOCOL.md:65`) is there for what goes
  wrong.  `Playout` models it, and `ReportsAreTrue` exempts it: without that clause
  `PlayoutSpeech` runs into it.
* The Agora token of the bridge is one of a `Subscriber` (`main.rs:781`), without the
  privilege to publish audio (`agora_token.rs:106`), while `docs/PROTOCOL.md:69-71` has
  the bridge publish speech into the channel.  Whether Agora enforces the privilege
  depends on the settings of the project.
* At 2048 results without acknowledgement all are forgotten (`main.rs:1379`), and
  later acknowledgements of them are not answered as `docs/PROTOCOL.md:79` says.
* The number in a `trace.update` is read again after the result was sent
  (`bridge/main.py:186`), so that it may be that of a later result;
  `docs/PROTOCOL.md:60-61` shows both with the same number.  `Recognition` does model it:
  it is why the second clause of `SequenceInOrder` says `<=`, and so does not catch it.

## Not modelled

* `MockSession`: a fixed script for the demo mode.
* HTTP: headers, cookies, tickets, the comparison of secrets, rendering of errors.
  No state beyond what `ControlPlane` has.
* The packing and signing of tokens: pure, and tested against vectors.
* The ASR and TTS clients: I/O and parsing.  Their outcomes, a late answer included,
  are inputs of `Recognition` and `Playout`.  Which ASR instance a session gets
  (round-robin) changes no state that a property is about.
* The RTC SDKs, and what the Agora receiver does with them, but for the shared
  service and the refusal of a frame: the buffer inside the SDK is its own.  The sentinel
  that the `stop()` of the LiveKit receiver puts on its queue, or drops when it is full,
  just before it cancels the sender.
* The acknowledgements of one event socket (`pending_deliveries`): local to its task,
  they decide only whether a `trace.update` about a latency is sent.  `ControlPlane`
  has the life of that task.
* The browser client.  Its part in the protocol - any request, any order of event
  sockets opened and lost - is the environment of `ControlPlane`.  What its
  asynchronous functions do to each other over the global record `runtime` stays in the
  page; three of these races are listed as hazards without a property.
* Deployment, scripts, trace tools.

The control plane keeps its state in memory, so its own crash is a new `Init`.

## Plan

The components that carry the core logic are modelled, and every safety property of
them is proved.  What could be added:

1. Tidier proofs: `System_proofs` and `Recognition_proofs` treat sequences (appending to
   one, removing from the front or the middle) in lemmas of their own, which could
   become one set that both cite.
2. Properties across components that the present ones only imply, such as the
   composition of `Segmenter` with `Recognition`: no lost speech from the frame to the
   final, as far as the audio queue did not overflow.
3. The browser client: a module of its own, its races first.

Liveness stays with TLC.  So does everything that `RECURSIVE` would be needed for;
the modules have none.
