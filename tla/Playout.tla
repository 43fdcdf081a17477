------------------------------ MODULE Playout ------------------------------
(***************************************************************************)
(* Speech playback in one session of the bridge: RealSession.speak, _speak *)
(* and the beginning of stop (bridge/main.py), the upsampler (tts.py), the *)
(* push queue of the LiveKit receiver (livekit_receiver.py), and the       *)
(* Agora receiver (agora_receiver.py), which may refuse a frame.           *)
(*                                                                         *)
(* A request to speak starts a player, which starts a producer.  The       *)
(* producer upsamples what the TTS service streams; the player waits for a *)
(* pre-buffer, then pushes a frame every 20 ms, and waits again when it    *)
(* runs dry.  A new request cancels the player before it starts another.   *)
(*                                                                         *)
(* Audio is counted in samples; a frame in the push queue is the number of *)
(* the speech it belongs to.  The buffer of the Agora SDK is its own: all  *)
(* that is seen of a frame is whether it was taken.  The room stays up     *)
(* until the session stops, and so does the connection to the control      *)
(* plane: every report can be sent.                                        *)
(***************************************************************************)
EXTENDS Naturals, Sequences

CONSTANTS
    MaxSpeeches,   \* bound on the requests to speak
    MaxSamples,    \* bound on the samples the TTS service streams for one
    FrameSamples,  \* samples in the 20 ms the player pushes, 960
    Prebuffer,     \* pushes buffered before playing starts, 5
    PushMax        \* the push queue, in frames of 10 ms, 200

Speeches == 1 .. MaxSpeeches

ASSUME PlayoutAssumption ==
    /\ MaxSpeeches \in Nat /\ MaxSamples \in Nat
    /\ FrameSamples \in Nat /\ \E n \in 1 .. FrameSamples : FrameSamples = 2 * n
    /\ Prebuffer \in Nat \ {0} /\ PushMax \in Nat \ {0}

VARIABLES
    loop,     \* the message loop: "idle", "barging", "stopping", "stopped"
    player,   \* the task of _speak, by speech
    stream,   \* produce and the stream it reads, by speech
    fed,      \* samples streamed by the TTS service, by speech
    taken,    \* samples the player took from pending, by speech
    refused,  \* speeches of which push_pcm refused a frame (history)
    provider, \* whose receiver it is, "livekit" or "agora"
    queue,    \* _push_queue
    inHand,   \* the frame that _send_loop is capturing, 0 when there is none
    room,     \* the receiver is connected
    events    \* what was reported, in order

bufferVars == <<fed, taken, refused>>
receiverVars == <<provider, queue, inHand, room>>
vars == <<loop, player, stream, bufferVars, receiverVars, events>>

None == [s \in Speeches |-> 0]

Init ==
    /\ loop = "idle"
    /\ player = [s \in Speeches |-> "new"] /\ stream = [s \in Speeches |-> "off"]
    /\ fed = None /\ taken = None /\ refused = {}
    /\ provider \in {"livekit", "agora"}
    /\ queue = <<>> /\ inHand = 0 /\ room = TRUE
    /\ events = <<>>

\* Mutant: the first sample, too, is doubled.
UpsampledEvenly(n) == 2 * n

\* PcmUpsampler2x puts a midpoint before every sample but the first: what it
\* returns for a whole speech is never a whole number of frames.
Upsampled(n) == IF n = 0 THEN 0 ELSE 2 * n - 1

Pending(s) == Upsampled(fed[s]) - taken[s]

StreamDone(s) == stream[s] \in {"done", "failed"}

Live(s) == player[s] \notin {"new", "done"}

SomeLive == \E s \in Speeches : Live(s)

\* A request to speak is the next speech.
Requested(s) == player[s] = "new" /\ \A r \in 1 .. s - 1 : player[r] # "new"

Report(type, s) == events' = Append(events, [type |-> type, speech |-> s])

\* A task that is cancelled outside the try of _speak just ends: before it,
\* reporting tts.started, and after it, reporting tts.error.
Cancelled(s) ==
    IF ~Live(s) THEN player[s]
    ELSE IF player[s] \in {"starting", "failing"} THEN "leaving" ELSE "unwinding"

Cancel == player' = [s \in Speeches |-> Cancelled(s)]

\* Mutant: the frames pushed are left to play out.
ClearNothing == UNCHANGED queue

\* clear_audio_buffer drops what is queued, not what is being captured.
ClearAudioBuffer == queue' = <<>>

-----------------------------------------------------------------------------
(* The message loop.                                                       *)

\* Mutant: the player under way is left to end by itself.
SpeakOver ==
    /\ loop = "idle"
    /\ \E s \in Speeches :
          /\ Requested(s)
          /\ player' = [r \in Speeches |-> IF r = s THEN "starting" ELSE player[r]]
    /\ UNCHANGED <<loop, stream, bufferVars, receiverVars, events>>

\* speak: barge-in cancels the player under way and waits for it.
Speak ==
    /\ loop = "idle"
    /\ \E s \in Speeches :
          /\ Requested(s)
          /\ IF SomeLive
             THEN loop' = "barging" /\ Cancel
             ELSE player' = [player EXCEPT ![s] = "starting"] /\ UNCHANGED loop
    /\ UNCHANGED <<stream, bufferVars, receiverVars, events>>

\* The player under way has ended: its frames go, and the next one starts.
Barge ==
    /\ loop = "barging" /\ ~SomeLive
    /\ loop' = "idle"
    /\ ClearAudioBuffer
    /\ \E s \in Speeches : Requested(s) /\ player' = [player EXCEPT ![s] = "starting"]
    /\ UNCHANGED <<stream, bufferVars, provider, inHand, room, events>>

\* stop of the session.
Stop ==
    /\ loop = "idle"
    /\ loop' = "stopping"
    /\ Cancel
    /\ UNCHANGED <<stream, bufferVars, receiverVars, events>>

\* Mutant: the player is cancelled and not waited for.
StopReceiverAtOnce ==
    /\ loop = "stopping"
    /\ loop' = "stopped"
    /\ ClearAudioBuffer
    /\ inHand' = 0 /\ room' = FALSE
    /\ UNCHANGED <<player, stream, bufferVars, provider, events>>

\* receiver.stop: the sender is cancelled, then the room is left.
StopReceiver ==
    /\ loop = "stopping" /\ ~SomeLive
    /\ loop' = "stopped"
    /\ ClearAudioBuffer
    /\ inHand' = 0 /\ room' = FALSE
    /\ UNCHANGED <<player, stream, bufferVars, provider, events>>

-----------------------------------------------------------------------------
(* The TTS service, as far as produce sees it.                             *)

Produce(s) ==
    /\ stream[s] = "open" /\ fed[s] < MaxSamples
    /\ fed' = [fed EXCEPT ![s] = @ + 1]
    /\ UNCHANGED <<loop, player, stream, taken, refused, receiverVars, events>>

\* It ends the stream, or fails: by an error, or by the timeout of the client.
StreamEnds(s) ==
    /\ stream[s] = "open"
    /\ \E end \in {"done", "failed"} : stream' = [stream EXCEPT ![s] = end]
    /\ UNCHANGED <<loop, player, bufferVars, receiverVars, events>>

-----------------------------------------------------------------------------
(* The player.  It awaits between any two of these actions.                *)

Started(s) ==
    /\ player[s] = "starting"
    /\ player' = [player EXCEPT ![s] = "buffering"]
    /\ stream' = [stream EXCEPT ![s] = "open"]
    /\ Report("tts.started", s)
    /\ UNCHANGED <<loop, bufferVars, receiverVars>>

\* Mutant: only a full pre-buffer starts playing.
BufferedFully(s) == Pending(s) >= Prebuffer * FrameSamples

Buffered(s) == Pending(s) >= Prebuffer * FrameSamples \/ stream[s] = "done"

Resume(s) ==
    /\ player[s] = "buffering" /\ Buffered(s) /\ Pending(s) > 0
    /\ player' = [player EXCEPT ![s] = "playing"]
    /\ UNCHANGED <<loop, stream, bufferVars, receiverVars, events>>

\* "TTS returned no audio".
NoAudio(s) ==
    /\ player[s] = "buffering" /\ stream[s] = "done" /\ Pending(s) = 0
    /\ player' = [player EXCEPT ![s] = "failing"]
    /\ UNCHANGED <<loop, stream, bufferVars, receiverVars, events>>

\* Two frames of 10 ms are queued; a full queue loses its oldest for each.
Push(s) ==
    LET all == queue \o <<s, s>>
    IN  queue' = SubSeq(all, IF Len(all) > PushMax THEN Len(all) - PushMax + 1 ELSE 1, Len(all))

\* push_pcm: the LiveKit receiver takes every frame, Agora may refuse one.
PushPcm(s, accepted) ==
    /\ IF provider = "livekit" THEN accepted /\ Push(s) ELSE UNCHANGED queue
    /\ refused' = IF accepted THEN refused ELSE refused \cup {s}

Take(s, n) == taken' = [taken EXCEPT ![s] = @ + n]

\* A refused frame is the last one, whatever is still to come.
PushFrame(s) ==
    /\ player[s] = "playing" /\ Pending(s) >= FrameSamples
    /\ Take(s, FrameSamples)
    /\ \E accepted \in BOOLEAN :
          /\ PushPcm(s, accepted)
          /\ player' = IF accepted THEN player ELSE [player EXCEPT ![s] = "draining"]
    /\ UNCHANGED <<loop, stream, fed, provider, inHand, room, events>>

\* The remainder is padded to a frame; whether that is taken is not looked at.
PushTail(s) ==
    /\ player[s] = "playing" /\ Pending(s) < FrameSamples /\ stream[s] = "done"
    /\ IF Pending(s) > 0
       THEN Take(s, Pending(s)) /\ \E accepted \in BOOLEAN : PushPcm(s, accepted)
       ELSE UNCHANGED <<taken, refused, queue>>
    /\ player' = [player EXCEPT ![s] = "draining"]
    /\ UNCHANGED <<loop, stream, fed, provider, inHand, room, events>>

\* The buffer ran dry while the service still streams.
Starve(s) ==
    /\ player[s] = "playing" /\ Pending(s) < FrameSamples /\ stream[s] = "open"
    /\ player' = [player EXCEPT ![s] = "buffering"]
    /\ UNCHANGED <<loop, stream, bufferVars, receiverVars, events>>

\* The error of the stream is raised before anything else is played.
Fail(s) ==
    /\ player[s] \in {"buffering", "playing"} /\ stream[s] = "failed"
    /\ player' = [player EXCEPT ![s] = "failing"]
    /\ UNCHANGED <<loop, stream, bufferVars, receiverVars, events>>

\* What the finally of _speak does.
CancelProducer(s) == stream' = [stream EXCEPT ![s] = IF @ = "open" THEN "cancelled" ELSE @]

Drained(s) ==
    /\ player[s] = "draining"
    /\ player' = [player EXCEPT ![s] = "finishing"]
    /\ Report("tts.finished", s)
    /\ UNCHANGED <<loop, stream, bufferVars, receiverVars>>

\* A producer still reading, after a refused frame, is cancelled.
Finished(s) ==
    /\ player[s] = "finishing"
    /\ player' = [player EXCEPT ![s] = "done"]
    /\ CancelProducer(s)
    /\ UNCHANGED <<loop, bufferVars, receiverVars, events>>

ReportError(s) ==
    /\ player[s] = "failing"
    /\ player' = [player EXCEPT ![s] = "done"]
    /\ Report("tts.error", s)
    /\ UNCHANGED <<loop, stream, bufferVars, receiverVars>>

Leave(s) ==
    /\ player[s] = "leaving"
    /\ player' = [player EXCEPT ![s] = "done"]
    /\ UNCHANGED <<loop, stream, bufferVars, receiverVars, events>>

\* Cancelled inside the try: the producer is cancelled, the frames go.
Unwind(s) ==
    /\ player[s] = "unwinding"
    /\ player' = [player EXCEPT ![s] = "done"]
    /\ CancelProducer(s)
    /\ ClearAudioBuffer
    /\ UNCHANGED <<loop, bufferVars, provider, inHand, room, events>>

-----------------------------------------------------------------------------
(* _send_loop.                                                             *)

SenderTakes ==
    /\ room /\ inHand = 0 /\ queue # <<>>
    /\ inHand' = Head(queue) /\ queue' = Tail(queue)
    /\ UNCHANGED <<loop, player, stream, bufferVars, provider, room, events>>

Captured ==
    /\ inHand # 0
    /\ inHand' = 0
    /\ UNCHANGED <<loop, player, stream, bufferVars, provider, queue, room, events>>

-----------------------------------------------------------------------------
Play(s) ==
    \/ Started(s) \/ Resume(s) \/ NoAudio(s) \/ PushFrame(s) \/ PushTail(s) \/ Starve(s)
    \/ Fail(s) \/ Drained(s) \/ Finished(s) \/ ReportError(s) \/ Leave(s) \/ Unwind(s)

Next ==
    \/ Speak \/ Barge \/ Stop \/ StopReceiver
    \/ \E s \in Speeches : Produce(s) \/ StreamEnds(s) \/ Play(s)
    \/ SenderTakes \/ Captured

\* The tasks run when they can; the service streams on or is timed out.
Fairness ==
    /\ \A s \in Speeches : WF_vars(Play(s)) /\ WF_vars(Produce(s) \/ StreamEnds(s))
    /\ WF_vars(Barge) /\ WF_vars(StopReceiver)

Spec == Init /\ [][Next]_vars
FairSpec == Spec /\ Fairness

-----------------------------------------------------------------------------
(* Properties.                                                             *)

Event == [type : {"tts.started", "tts.finished", "tts.error"}, speech : Speeches]

\* Every variable stays in its range, and the push queue within its limit.
TypeOK ==
    /\ loop \in {"idle", "barging", "stopping", "stopped"}
    /\ player \in [Speeches -> {"new", "starting", "buffering", "playing", "draining",
                                "finishing", "failing", "leaving", "unwinding", "done"}]
    /\ stream \in [Speeches -> {"off", "open", "done", "failed", "cancelled"}]
    /\ fed \in [Speeches -> 0 .. MaxSamples] /\ taken \in [Speeches -> Nat]
    /\ refused \in SUBSET Speeches /\ provider \in {"livekit", "agora"}
    /\ queue \in Seq(Speeches) /\ Len(queue) <= PushMax
    /\ inHand \in Speeches \cup {0} /\ room \in BOOLEAN
    /\ events \in Seq(Event)

Reported(type) ==
    {s \in Speeches : \E i \in DOMAIN events : events[i] = [type |-> type, speech |-> s]}

\* What is reported of a speech is what happened to it.  tts.finished: it was
\* streamed to its end and pushed to the last sample, through starvation and
\* resumption, unless Agora refused a frame: such a speech the code reports finished,
\* whatever it has left out.  tts.error: its stream failed or had
\* no audio; a player that has played all there was when its stream ends has not
\* failed, nor has one whose frame was refused.  A player starves with nothing left
\* to play only while more is to come, for what is pending at the end of a stream
\* is never a whole number of frames.
ReportsAreTrue ==
    /\ \A s \in Reported("tts.finished") :
          /\ fed[s] > 0
          /\ (stream[s] = "done" /\ Pending(s) = 0) \/ (provider = "agora" /\ s \in refused)
    /\ \A s \in Reported("tts.error") :
          s \notin refused /\ (stream[s] = "failed" \/ fed[s] = 0)

\* Barge-in: when a speech is started over an earlier one, nothing of the
\* earlier one is queued any more (a frame being captured still plays).
BargeInSilences ==
    \A s, r \in Speeches :
        r < s /\ Live(s) /\ r \notin Reported("tts.finished") /\ r \notin Reported("tts.error")
            => \A i \in DOMAIN queue : queue[i] # r

\* The speeches are reported one after another: once one is started, nothing
\* is reported of an earlier one.
OneAtATime ==
    \A i, j \in DOMAIN events : i < j => events[i].speech <= events[j].speech

\* A session that has stopped is silent: no player runs, no stream is read,
\* and nothing is queued or captured.
StopSilences ==
    loop = "stopped" =>
        /\ ~SomeLive /\ queue = <<>> /\ inHand = 0
        /\ \A s \in Speeches : stream[s] # "open"

\* Every speech that starts ends, finished, failed or cancelled: the player is
\* never left waiting for audio that does not come.
SpeechEnds == \A s \in Speeches : Live(s) ~> ~Live(s)
=============================================================================
