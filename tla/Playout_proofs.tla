--------------------------- MODULE Playout_proofs ---------------------------
(***************************************************************************)
(* What is proved of Playout for any number of speeches, any length of     *)
(* them, any frame of an even number of samples and any push queue.        *)
(***************************************************************************)
EXTENDS Playout, Integers, TLAPS

-----------------------------------------------------------------------------
(* The inductive invariant.                                                *)

\* Speeches are requested one after another, and only the last one is live.
OneAfterAnother ==
    \A r, s \in Speeches : r < s /\ (player[r] = "new" \/ Live(r)) => player[s] = "new"

\* The stream of a speech, by what its player does: it is open only until the
\* player is done, and has ended for a player that fails.
StreamInPlace ==
    \A s \in Speeches :
        /\ player[s] \in {"new", "starting"} => stream[s] = "off"
        /\ stream[s] = "open" =>
              player[s] \in {"buffering", "playing", "draining", "finishing", "unwinding"}
        /\ player[s] = "failing" => stream[s] \in {"done", "failed"}

\* The player takes no more than there is, and whole frames before the tail;
\* it plays only when there was something, drains when nothing is left or a frame
\* was refused, and fails only when the stream did or had nothing.
Even(n) == \E k \in Nat : n = 2 * k

Accounted(s) ==
    /\ taken[s] <= Upsampled(fed[s])
    /\ player[s] \in {"new", "starting", "buffering", "playing"} => Even(taken[s])
    /\ player[s] \in {"playing", "draining", "finishing"} => fed[s] > 0
    /\ player[s] \in {"draining", "finishing"} =>
          (stream[s] = "done" /\ Pending(s) = 0) \/ s \in refused
    /\ player[s] = "failing" => stream[s] = "failed" \/ fed[s] = 0

SamplesAccounted == \A s \in Speeches : Accounted(s)

\* Only Agora refuses a frame, and the player only drains after it.
RefusedInPlace ==
    \A s \in refused :
        provider = "agora" /\ player[s] \in {"draining", "finishing", "unwinding", "done"}

\* Where a player is after what it reported.
ReportsInPlace ==
    \A s \in Speeches :
        /\ s \in Reported("tts.finished") => player[s] \in {"finishing", "unwinding", "done"}
        /\ player[s] = "finishing" => s \in Reported("tts.finished")
        /\ s \in Reported("tts.error") => player[s] = "done"

NoneReportedNew == \A i \in DOMAIN events : player[events[i].speech] # "new"

\* Players are cancelled by the message loop alone, which then waits for them;
\* after a stop the room is gone.
LoopInPlace ==
    /\ loop = "idle" => \A s \in Speeches : player[s] \notin {"leaving", "unwinding"}
    /\ loop = "stopped" => ~room

\* While the message loop is idle, whose frames are queued is live or reported
\* how it ended.
Ended(s) == s \in Reported("tts.finished") \/ s \in Reported("tts.error")

QueueAccounted ==
    loop = "idle" => \A i \in DOMAIN queue : Live(queue[i]) \/ Ended(queue[i])

\* All of it.
IndInv ==
    /\ TypeOK
    /\ OneAfterAnother /\ StreamInPlace /\ SamplesAccounted /\ RefusedInPlace
    /\ ReportsInPlace /\ NoneReportedNew /\ LoopInPlace /\ QueueAccounted
    /\ ReportsAreTrue /\ BargeInSilences /\ OneAtATime /\ StopSilences

-----------------------------------------------------------------------------
(* What the helpers do.                                                    *)

\* The constants, as far as the proofs need them.
LEMMA Constants ==
    /\ MaxSpeeches \in Nat /\ MaxSamples \in Nat /\ PushMax \in Nat \ {0}
    /\ FrameSamples \in Nat /\ \E n \in Nat \ {0} : FrameSamples = 2 * n
BY PlayoutAssumption

LEMMA Counted ==
    ASSUME TypeOK, NEW s \in Speeches
    PROVE  /\ fed[s] \in Nat /\ taken[s] \in Nat
           /\ Upsampled(fed[s]) \in Nat /\ Pending(s) \in Int
<1>1. fed[s] \in Nat /\ taken[s] \in Nat
  BY Constants DEF TypeOK
<1>2. \A n \in Nat : Upsampled(n) \in Nat
  BY DEF Upsampled
<1>3. Upsampled(fed[s]) \in Nat
  BY <1>1, <1>2
<1> QED BY <1>1, <1>3 DEF Pending

\* The upsampler never returns a whole number of frames.
LEMMA UpsampledIsOdd ==
    ASSUME NEW n \in Nat
    PROVE  /\ Upsampled(n) \in Nat /\ Upsampled(n + 1) \in Nat /\ Upsampled(n + 1) >= Upsampled(n)
           /\ Upsampled(n) > 0 => n > 0
           /\ Even(Upsampled(n)) => n = 0
BY DEF Upsampled, Even

LEMMA FramesAreEven == ASSUME NEW n \in Nat, Even(n) PROVE Even(n + FrameSamples)
<1>1. PICK k \in Nat : n = 2 * k
  BY DEF Even
<1>2. PICK m \in Nat : FrameSamples = 2 * m
  BY Constants
<1>3. n + FrameSamples = 2 * (k + m) /\ k + m \in Nat
  BY <1>1, <1>2
<1> QED BY <1>3 DEF Even

LEMMA EventsOfSpeeches ==
    ASSUME TypeOK
    PROVE  \A i \in DOMAIN events :
              events[i].speech \in Speeches /\ i \in Nat /\ i < Len(events) + 1
<1> SUFFICES ASSUME NEW i \in DOMAIN events
             PROVE  events[i].speech \in Speeches /\ i \in Nat /\ i < Len(events) + 1
  OBVIOUS
<1>1. events \in Seq(Event)
  BY DEF TypeOK
<1>2. events[i] \in Event /\ i \in 1 .. Len(events) /\ Len(events) \in Nat
  BY <1>1
<1>3. events[i].speech \in Speeches
  BY <1>2 DEF Event
<1> QED BY <1>2, <1>3

LEMMA EmptyQueue == <<>> \in Seq(Speeches) /\ Len(<<>>) = 0 /\ DOMAIN <<>> = {}
OBVIOUS

\* As long as nothing is reported, the same speeches have been.
LEMMA ReportedKept == ASSUME events' = events PROVE \A x : Reported(x)' = Reported(x)
BY DEF Reported

\* Report appends one event, about one speech.
LEMMA ReportAppends ==
    ASSUME NEW type \in {"tts.started", "tts.finished", "tts.error"}, NEW s \in Speeches,
           events \in Seq(Event), Report(type, s)
    PROVE  /\ events' \in Seq(Event)
           /\ \A i \in DOMAIN events' :
                 \/ i = Len(events) + 1 /\ events'[i].speech = s
                 \/ i \in DOMAIN events /\ events'[i] = events[i]
<1> DEFINE e == [type |-> type, speech |-> s]
<1>1. e \in Event /\ events' = Append(events, e)
  BY DEF Event, Report
<1>2. e.speech = s
  OBVIOUS
<1> HIDE DEF e
<1>3. events' \in Seq(Event)
  BY <1>1
<1>4. ASSUME NEW i \in DOMAIN events'
      PROVE  \/ i = Len(events) + 1 /\ events'[i].speech = s
             \/ i \in DOMAIN events /\ events'[i] = events[i]
  <2>1. \/ i = Len(events) + 1 /\ events'[i] = e
        \/ i \in DOMAIN events /\ events'[i] = events[i]
    BY <1>1
  <2> QED BY <1>2, <2>1
<1> QED BY <1>3, <1>4

\* So it adds one speech to those of which that was reported.
LEMMA ReportAdds ==
    ASSUME NEW type \in {"tts.started", "tts.finished", "tts.error"}, NEW s \in Speeches,
           events \in Seq(Event), Report(type, s), NEW x, NEW r
    PROVE  r \in Reported(x)' <=> r \in Reported(x) \/ (x = type /\ r = s)
<1> DEFINE e == [type |-> type, speech |-> s]
<1>1. e \in Event /\ events' = Append(events, e)
  BY DEF Event, Report
<1>2. e = [type |-> x, speech |-> r] <=> x = type /\ r = s
  OBVIOUS
<1> HIDE DEF e
<1>3. /\ DOMAIN events' = DOMAIN events \cup {Len(events) + 1}
      /\ \A i \in DOMAIN events : i # Len(events) + 1 /\ events'[i] = events[i]
      /\ events'[Len(events) + 1] = e
  BY <1>1
<1> QED BY <1>2, <1>3 DEF Reported

\* Push queues frames of one speech only, and loses those that are too many.
LEMMA PushQueues ==
    ASSUME NEW s \in Speeches, queue \in Seq(Speeches), Push(s)
    PROVE  /\ queue' \in Seq(Speeches) /\ Len(queue') <= PushMax
           /\ \A i \in DOMAIN queue' : queue'[i] = s \/ \E j \in DOMAIN queue : queue'[i] = queue[j]
<1> USE Constants
<1> DEFINE all == queue \o <<s, s>>
           m == IF Len(all) > PushMax THEN Len(all) - PushMax + 1 ELSE 1
<1>1. /\ all \in Seq(Speeches) /\ Len(all) = Len(queue) + 2
      /\ \A i \in 1 .. Len(all) : all[i] = s \/ \E j \in DOMAIN queue : all[i] = queue[j]
  OBVIOUS
<1>2. queue' = SubSeq(all, m, Len(all))
  BY DEF Push
<1> HIDE DEF all
<1>3. m \in Int /\ 1 <= m /\ m <= Len(all) + 1 /\ Len(all) - m + 1 <= PushMax
  BY <1>1
<1> HIDE DEF m
<1> QED BY <1>1, <1>2, <1>3

\* So does push_pcm, and a frame that is not taken is Agora's to refuse.
LEMMA PcmQueues ==
    ASSUME TypeOK, NEW s \in Speeches, NEW accepted \in BOOLEAN, PushPcm(s, accepted)
    PROVE  /\ queue' \in Seq(Speeches) /\ Len(queue') <= PushMax
           /\ \A i \in DOMAIN queue' : queue'[i] = s \/ \E j \in DOMAIN queue : queue'[i] = queue[j]
           /\ \/ accepted /\ refused' = refused
              \/ ~accepted /\ refused' = refused \cup {s} /\ provider = "agora"
<1>1. queue \in Seq(Speeches) /\ Len(queue) <= PushMax
  BY DEF TypeOK
<1>2. \/ accepted /\ refused' = refused
      \/ ~accepted /\ refused' = refused \cup {s} /\ provider = "agora"
  BY DEF PushPcm, TypeOK
<1>3. CASE Push(s)
  <2>1. /\ queue' \in Seq(Speeches) /\ Len(queue') <= PushMax
        /\ \A i \in DOMAIN queue' : queue'[i] = s \/ \E j \in DOMAIN queue : queue'[i] = queue[j]
    BY <1>1, <1>3, PushQueues
  <2> QED BY <1>2, <2>1
<1>4. CASE queue' = queue
  BY <1>1, <1>2, <1>4
<1> QED BY <1>3, <1>4 DEF PushPcm

\* A frame moves the player only when it is refused.
LEMMA FramePushed ==
    ASSUME TypeOK, NEW s \in Speeches, PushFrame(s)
    PROVE  /\ player[s] = "playing" /\ Pending(s) >= FrameSamples
           /\ taken'[s] = taken[s] + FrameSamples
           /\ player'[s] = "playing" \/ (player'[s] = "draining" /\ s \in refused')
           /\ s \in refused' => s \in refused \/ (provider = "agora" /\ player'[s] = "draining")
           /\ \A r \in Speeches : r # s =>
                 player'[r] = player[r] /\ taken'[r] = taken[r] /\ (r \in refused' <=> r \in refused)
           /\ UNCHANGED <<loop, stream, fed, provider, inHand, room, events>>
<1>1. PICK accepted \in BOOLEAN :
         /\ PushPcm(s, accepted)
         /\ player' = IF accepted THEN player ELSE [player EXCEPT ![s] = "draining"]
  BY DEF PushFrame
<1>2. /\ player[s] = "playing" /\ Pending(s) >= FrameSamples
      /\ taken' = [taken EXCEPT ![s] = taken[s] + FrameSamples]
      /\ UNCHANGED <<loop, stream, fed, provider, inHand, room, events>>
  BY DEF PushFrame, Take
<1>3. \/ accepted /\ refused' = refused
      \/ ~accepted /\ refused' = refused \cup {s} /\ provider = "agora"
  BY <1>1, PcmQueues
<1>4. taken'[s] = taken[s] + FrameSamples /\ \A r \in Speeches : r # s => taken'[r] = taken[r]
  BY <1>2 DEF TypeOK
<1>5. \/ accepted /\ player'[s] = "playing"
      \/ ~accepted /\ player'[s] = "draining"
  BY <1>1, <1>2 DEF TypeOK
<1>6. \A r \in Speeches : r # s => player'[r] = player[r]
  BY <1>1, <1>2 DEF TypeOK
<1> QED BY <1>2, <1>3, <1>4, <1>5, <1>6

\* The tail is taken from what is pending whether or not it is refused.
LEMMA TailPushed ==
    ASSUME TypeOK, NEW s \in Speeches, PushTail(s)
    PROVE  /\ player[s] = "playing" /\ stream[s] = "done" /\ player'[s] = "draining"
           /\ taken'[s] = IF Pending(s) > 0 THEN taken[s] + Pending(s) ELSE taken[s]
           /\ s \in refused' => s \in refused \/ provider = "agora"
           /\ \A r \in Speeches : r # s =>
                 player'[r] = player[r] /\ taken'[r] = taken[r] /\ (r \in refused' <=> r \in refused)
           /\ UNCHANGED <<loop, stream, fed, provider, inHand, room, events>>
<1>1. /\ player[s] = "playing" /\ stream[s] = "done"
      /\ UNCHANGED <<loop, stream, fed, provider, inHand, room, events>>
  BY DEF PushTail
<1>2. player'[s] = "draining" /\ \A r \in Speeches : r # s => player'[r] = player[r]
  BY DEF PushTail, TypeOK
<1>3. CASE Pending(s) > 0
  <2>1. PICK accepted \in BOOLEAN : PushPcm(s, accepted)
    BY <1>3 DEF PushTail
  <2>2. taken'[s] = taken[s] + Pending(s) /\ \A r \in Speeches : r # s => taken'[r] = taken[r]
    BY <1>3 DEF PushTail, Take, TypeOK
  <2>3. refused' = refused \/ (refused' = refused \cup {s} /\ provider = "agora")
    BY <2>1, PcmQueues
  <2> QED BY <1>1, <1>2, <1>3, <2>2, <2>3
<1>4. CASE ~(Pending(s) > 0)
  <2>1. taken' = taken /\ refused' = refused
    BY <1>4 DEF PushTail
  <2> QED BY <1>1, <1>2, <1>4, <2>1
<1> QED BY <1>3, <1>4

\* Either queues frames of its speech only.
LEMMA PlayerQueues ==
    ASSUME TypeOK, NEW s \in Speeches, PushFrame(s) \/ PushTail(s)
    PROVE  /\ queue' \in Seq(Speeches) /\ Len(queue') <= PushMax
           /\ \A i \in DOMAIN queue' : queue'[i] = s \/ \E j \in DOMAIN queue : queue'[i] = queue[j]
<1>1. CASE queue' = queue
  BY <1>1 DEF TypeOK
<1>2. CASE \E accepted \in BOOLEAN : PushPcm(s, accepted)
  BY <1>2, PcmQueues
<1>3. queue' = queue \/ \E accepted \in BOOLEAN : PushPcm(s, accepted)
  BY DEF PushFrame, PushTail
<1> QED BY <1>1, <1>2, <1>3

\* And leaves every variable in its range.
LEMMA PlayerTyped ==
    ASSUME TypeOK, NEW s \in Speeches, PushFrame(s) \/ PushTail(s)
    PROVE  TypeOK'
<1>1. player' = player \/ player' = [player EXCEPT ![s] = "draining"]
  BY DEF PushFrame, PushTail
<1>2. player' \in [Speeches -> {"new", "starting", "buffering", "playing", "draining",
                               "finishing", "failing", "leaving", "unwinding", "done"}]
  BY <1>1 DEF TypeOK
<1>3. taken' \in [Speeches -> Nat]
  <2>1. taken' = taken \/ \E n \in Nat : taken' = [taken EXCEPT ![s] = n]
    <3>1. PushFrame(s) => taken' = [taken EXCEPT ![s] = taken[s] + FrameSamples]
      BY DEF PushFrame, Take
    <3>2. PushTail(s) => taken' = taken \/ (Pending(s) > 0 /\ taken' = [taken EXCEPT ![s] = taken[s] + Pending(s)])
      BY DEF PushTail, Take
    <3>3. taken[s] + FrameSamples \in Nat /\ (Pending(s) > 0 => taken[s] + Pending(s) \in Nat)
      BY Constants, Counted
    <3> QED BY <3>1, <3>2, <3>3
  <2> QED BY <2>1 DEF TypeOK
<1>4. refused' \in SUBSET Speeches
  <2>1. refused' \in {refused, refused \cup {s}}
    BY DEF PushFrame, PushTail, PushPcm
  <2> QED BY <2>1 DEF TypeOK
<1>5. UNCHANGED <<loop, stream, fed, provider, inHand, room, events>>
  BY DEF PushFrame, PushTail
<1>6. queue' \in Seq(Speeches) /\ Len(queue') <= PushMax
  BY PlayerQueues
<1> QED BY <1>2, <1>3, <1>4, <1>5, <1>6 DEF TypeOK

LEMMA SenderDequeues ==
    ASSUME queue \in Seq(Speeches), Len(queue) <= PushMax, SenderTakes
    PROVE  /\ queue' \in Seq(Speeches) /\ Len(queue') <= PushMax /\ inHand' \in Speeches
           /\ \A i \in DOMAIN queue' : \E j \in DOMAIN queue : queue'[i] = queue[j]
<1>1. queue # <<>> /\ queue' = Tail(queue) /\ inHand' = Head(queue)
  BY DEF SenderTakes
<1>2. /\ queue' \in Seq(Speeches) /\ Len(queue') = Len(queue) - 1 /\ inHand' \in Speeches
      /\ \A i \in DOMAIN queue' : i + 1 \in DOMAIN queue /\ queue'[i] = queue[i + 1]
  BY <1>1
<1> QED BY <1>2, Constants

\* The next speech is started when none is live.
LEMMA NextStarts ==
    ASSUME TypeOK, OneAfterAnother, ~SomeLive, NEW s \in Speeches, Requested(s),
           player' = [player EXCEPT ![s] = "starting"]
    PROVE  OneAfterAnother'
<1> SUFFICES ASSUME NEW r \in Speeches, NEW q \in Speeches, r < q, (player[r] = "new" \/ Live(r))'
             PROVE  player'[q] = "new"
  BY DEF OneAfterAnother
<1>1. r \in Int /\ q \in Int /\ s \in Int /\ (r < s => r \in 1 .. s - 1)
  BY Constants DEF Speeches
<1>2. ~Live(r) /\ player[s] = "new" /\ (r < s => player[r] # "new")
  BY <1>1 DEF SomeLive, Requested
<1>3. ~(r < s)
  BY <1>1, <1>2 DEF Live, TypeOK
<1>4. player[r] = "new" /\ s < q
  BY <1>1, <1>2, <1>3 DEF Live, TypeOK
<1>5. player[q] = "new"
  BY <1>4 DEF OneAfterAnother
<1> QED BY <1>1, <1>4, <1>5 DEF TypeOK

\* What the live speech reports comes in order.
LEMMA ReportsInOrder ==
    ASSUME TypeOK, OneAfterAnother, NoneReportedNew, OneAtATime,
           NEW type \in {"tts.started", "tts.finished", "tts.error"}, NEW s \in Speeches,
           Live(s), Report(type, s)
    PROVE  OneAtATime'
<1>1. \A r \in Speeches : r \in Int /\ (s < r => player[r] = "new")
  BY Constants DEF OneAfterAnother, Speeches
<1>2. ASSUME NEW i \in DOMAIN events PROVE events[i].speech <= s
  <2>1. events[i].speech \in Speeches /\ player[events[i].speech] # "new"
    BY EventsOfSpeeches DEF NoneReportedNew
  <2> QED BY <1>1, <2>1
<1>3. \A i \in DOMAIN events' :
         \/ i = Len(events) + 1 /\ events'[i].speech = s
         \/ i \in DOMAIN events /\ events'[i] = events[i]
  <2>1. events \in Seq(Event)
    BY DEF TypeOK
  <2> QED BY <2>1, ReportAppends
<1>4. SUFFICES ASSUME NEW i \in DOMAIN events', NEW j \in DOMAIN events', i < j
               PROVE  events'[i].speech <= events'[j].speech
  BY DEF OneAtATime
<1>5. i \in DOMAIN events /\ events'[i] = events[i]
  <2>1. CASE i = Len(events) + 1
    <3>1. Len(events) \in Nat /\ \A k \in DOMAIN events : k \in Nat /\ k < Len(events) + 1
      BY EventsOfSpeeches DEF TypeOK
    <3>2. j = Len(events) + 1 \/ j \in DOMAIN events
      BY <1>3
    <3> QED BY <1>4, <2>1, <3>1, <3>2
  <2>2. CASE i # Len(events) + 1
    BY <1>3, <2>2
  <2> QED BY <2>1, <2>2
<1>6. CASE j = Len(events) + 1 /\ events'[j].speech = s
  BY <1>2, <1>5, <1>6
<1>7. CASE j \in DOMAIN events /\ events'[j] = events[j]
  BY <1>4, <1>5, <1>7 DEF OneAtATime
<1> QED BY <1>3, <1>6, <1>7

\* A step that reports nothing, and moves the audio of a speech of which nothing
\* untrue was reported, keeps the reports true.
LEMMA ReportsStayTrue ==
    ASSUME ReportsAreTrue, NEW s \in Speeches,
           \A x : Reported(x)' = Reported(x),
           s \notin Reported("tts.error"),
           s \in Reported("tts.finished") => fed'[s] > 0 /\ provider = "agora" /\ s \in refused',
           provider' = provider,
           \A r \in Speeches : r # s => /\ fed'[r] = fed[r] /\ taken'[r] = taken[r]
                                       /\ stream'[r] = stream[r]
                                       /\ (r \in refused' <=> r \in refused)
    PROVE  ReportsAreTrue'
<1>1. ASSUME NEW r \in Reported("tts.finished")'
      PROVE  /\ fed'[r] > 0
             /\ (stream'[r] = "done" /\ Pending(r)' = 0) \/ (provider' = "agora" /\ r \in refused')
  <2>1. r \in Speeches /\ r \in Reported("tts.finished")
    BY DEF Reported
  <2>2. CASE r = s
    BY <2>1, <2>2
  <2>3. CASE r # s
    <3>1. Pending(r)' = Pending(r)
      BY <2>1, <2>3 DEF Pending
    <3> QED BY <2>1, <2>3, <3>1 DEF ReportsAreTrue
  <2> QED BY <2>2, <2>3
<1>2. ASSUME NEW r \in Reported("tts.error")'
      PROVE  r \notin refused' /\ (stream'[r] = "failed" \/ fed'[r] = 0)
  <2>1. r \in Speeches /\ r \in Reported("tts.error") /\ r # s
    BY DEF Reported
  <2> QED BY <2>1 DEF ReportsAreTrue
<1> QED BY <1>1, <1>2 DEF ReportsAreTrue

-----------------------------------------------------------------------------
(* Every step preserves the invariant: one lemma for each conjunct.        *)

LEMMA TypeStep == ASSUME IndInv, [Next]_vars PROVE TypeOK'
<1> USE Constants DEF IndInv, TypeOK, Live, bufferVars, receiverVars, StreamDone, TypeOK
<1>1. CASE Speak
  BY <1>1 DEF Speak, Cancel, Cancelled, SomeLive, Requested
<1>2. CASE Barge
  BY <1>2, EmptyQueue DEF Barge, ClearAudioBuffer, SomeLive, Requested
<1>3. CASE Stop
  BY <1>3 DEF Stop, Cancel, Cancelled
<1>4. CASE StopReceiver
  <2>1. loop' \in {"idle", "barging", "stopping", "stopped"} /\ room' \in BOOLEAN
    BY <1>4 DEF StopReceiver
  <2>2. queue' = <<>> /\ inHand' = 0 /\ UNCHANGED <<player, stream, bufferVars, provider, events>>
    BY <1>4 DEF StopReceiver, ClearAudioBuffer
  <2> QED BY <2>1, <2>2, EmptyQueue
<1>5. ASSUME NEW s \in Speeches, Produce(s) PROVE TypeOK'
  BY <1>5 DEF Produce
<1>6. ASSUME NEW s \in Speeches, StreamEnds(s) PROVE TypeOK'
  BY <1>6 DEF StreamEnds
<1>7. ASSUME NEW s \in Speeches, Started(s) PROVE TypeOK'
  BY <1>7, ReportAppends DEF Started
<1>8. ASSUME NEW s \in Speeches, Resume(s) PROVE TypeOK'
  BY <1>8 DEF Resume
<1>9. ASSUME NEW s \in Speeches, NoAudio(s) PROVE TypeOK'
  BY <1>9 DEF NoAudio
<1>10. ASSUME NEW s \in Speeches, PushFrame(s) \/ PushTail(s) PROVE TypeOK'
  BY <1>10, PlayerTyped
<1>11. ASSUME NEW s \in Speeches, Starve(s) PROVE TypeOK'
  BY <1>11 DEF Starve
<1>12. ASSUME NEW s \in Speeches, Fail(s) PROVE TypeOK'
  BY <1>12 DEF Fail
<1>13. ASSUME NEW s \in Speeches, Drained(s) PROVE TypeOK'
  BY <1>13, ReportAppends DEF Drained
<1>14. ASSUME NEW s \in Speeches, Finished(s) PROVE TypeOK'
  BY <1>14 DEF Finished, CancelProducer
<1>15. ASSUME NEW s \in Speeches, ReportError(s) PROVE TypeOK'
  BY <1>15, ReportAppends DEF ReportError
<1>16. ASSUME NEW s \in Speeches, Leave(s) PROVE TypeOK'
  BY <1>16 DEF Leave
<1>17. ASSUME NEW s \in Speeches, Unwind(s) PROVE TypeOK'
  BY <1>17, EmptyQueue DEF Unwind, CancelProducer, ClearAudioBuffer
<1>18. CASE SenderTakes
  BY <1>18, SenderDequeues DEF SenderTakes
<1>19. CASE Captured
  BY <1>19 DEF Captured
<1>20. CASE UNCHANGED vars
  BY <1>20 DEF vars
<1> QED
  BY <1>1, <1>2, <1>3, <1>4, <1>5, <1>6, <1>7, <1>8, <1>9, <1>10, <1>11, <1>12, <1>13,
     <1>14, <1>15, <1>16, <1>17, <1>18, <1>19, <1>20
  DEF Next, Play, vars

LEMMA OneAfterAnotherStep == ASSUME IndInv, TypeOK', [Next]_vars PROVE OneAfterAnother'
<1> USE DEF IndInv, TypeOK, Live, bufferVars, receiverVars, OneAfterAnother
<1>1. CASE Speak
  <2>1. CASE ~SomeLive
    BY <1>1, <2>1, NextStarts DEF Speak
  <2>2. CASE SomeLive
    BY <1>1, <2>2 DEF Speak, Cancel, Cancelled
  <2> QED BY <2>1, <2>2
<1>2. CASE Barge
  BY <1>2, NextStarts DEF Barge
<1>3. CASE Stop
  BY <1>3 DEF Stop, Cancel, Cancelled
<1>4. ASSUME NEW s \in Speeches, Started(s) PROVE OneAfterAnother'
  BY <1>4 DEF Started
<1>5. ASSUME NEW s \in Speeches, Resume(s) PROVE OneAfterAnother'
  BY <1>5 DEF Resume
<1>6. ASSUME NEW s \in Speeches, NoAudio(s) PROVE OneAfterAnother'
  BY <1>6 DEF NoAudio
<1>7. ASSUME NEW s \in Speeches, PushTail(s) PROVE OneAfterAnother'
  BY <1>7, TailPushed
<1>8. ASSUME NEW s \in Speeches, Starve(s) PROVE OneAfterAnother'
  BY <1>8 DEF Starve
<1>9. ASSUME NEW s \in Speeches, Fail(s) PROVE OneAfterAnother'
  BY <1>9 DEF Fail
<1>10. ASSUME NEW s \in Speeches, Drained(s) PROVE OneAfterAnother'
  BY <1>10 DEF Drained
<1>11. ASSUME NEW s \in Speeches, Finished(s) PROVE OneAfterAnother'
  BY <1>11 DEF Finished
<1>12. ASSUME NEW s \in Speeches, ReportError(s) PROVE OneAfterAnother'
  BY <1>12 DEF ReportError
<1>13. ASSUME NEW s \in Speeches, Leave(s) PROVE OneAfterAnother'
  BY <1>13 DEF Leave
<1>14. ASSUME NEW s \in Speeches, Unwind(s) PROVE OneAfterAnother'
  BY <1>14 DEF Unwind, ClearAudioBuffer
<1>15. CASE UNCHANGED player
  BY <1>15
<1>16. ASSUME NEW s \in Speeches, PushFrame(s) PROVE OneAfterAnother'
  BY <1>16, FramePushed
<1> QED
  BY <1>1, <1>2, <1>3, <1>4, <1>5, <1>6, <1>7, <1>8, <1>9, <1>10, <1>11, <1>12, <1>13, <1>14,
     <1>15, <1>16
  DEF Next, Play, StopReceiver, Produce, StreamEnds, SenderTakes, Captured, vars

LEMMA StreamInPlaceStep == ASSUME IndInv, TypeOK', [Next]_vars PROVE StreamInPlace'
<1> USE DEF IndInv, TypeOK, Live, bufferVars, receiverVars, StreamInPlace
<1>1. CASE Speak
  BY <1>1 DEF Speak, Cancel, Cancelled, SomeLive, Requested
<1>2. CASE Barge
  BY <1>2 DEF Barge, ClearAudioBuffer, SomeLive, Requested
<1>3. CASE Stop
  BY <1>3 DEF Stop, Cancel, Cancelled
<1>4. ASSUME NEW s \in Speeches, StreamEnds(s) PROVE StreamInPlace'
  BY <1>4 DEF StreamEnds
<1>5. ASSUME NEW s \in Speeches, Started(s) PROVE StreamInPlace'
  BY <1>5 DEF Started
<1>6. ASSUME NEW s \in Speeches, Resume(s) PROVE StreamInPlace'
  BY <1>6 DEF Resume
<1>7. ASSUME NEW s \in Speeches, NoAudio(s) PROVE StreamInPlace'
  BY <1>7 DEF NoAudio
<1>8. ASSUME NEW s \in Speeches, PushTail(s) PROVE StreamInPlace'
  BY <1>8, TailPushed
<1>9. ASSUME NEW s \in Speeches, Starve(s) PROVE StreamInPlace'
  BY <1>9 DEF Starve
<1>10. ASSUME NEW s \in Speeches, Fail(s) PROVE StreamInPlace'
  BY <1>10 DEF Fail
<1>11. ASSUME NEW s \in Speeches, Drained(s) PROVE StreamInPlace'
  BY <1>11 DEF Drained
<1>12. ASSUME NEW s \in Speeches, Finished(s) PROVE StreamInPlace'
  BY <1>12 DEF Finished, CancelProducer
<1>13. ASSUME NEW s \in Speeches, ReportError(s) PROVE StreamInPlace'
  BY <1>13 DEF ReportError
<1>14. ASSUME NEW s \in Speeches, Leave(s) PROVE StreamInPlace'
  BY <1>14 DEF Leave
<1>15. ASSUME NEW s \in Speeches, Unwind(s) PROVE StreamInPlace'
  BY <1>15 DEF Unwind, CancelProducer, ClearAudioBuffer
<1>16. CASE UNCHANGED <<player, stream>>
  BY <1>16
<1>17. ASSUME NEW s \in Speeches, PushFrame(s) PROVE StreamInPlace'
  BY <1>17, FramePushed
<1> QED
  BY <1>1, <1>2, <1>3, <1>4, <1>5, <1>6, <1>7, <1>8, <1>9, <1>10, <1>11, <1>12, <1>13, <1>14,
     <1>15, <1>16, <1>17
  DEF Next, Play, StopReceiver, Produce, SenderTakes, Captured, vars

LEMMA SamplesAccountedStep == ASSUME IndInv, TypeOK', [Next]_vars PROVE SamplesAccounted'
<1> USE DEF IndInv, TypeOK, Live, bufferVars, receiverVars, Pending, Accounted, SamplesAccounted
<1>1. CASE Speak
  <2>1. CASE SomeLive
    BY <1>1, <2>1 DEF Speak, Cancel, Cancelled
  <2>2. CASE ~SomeLive
    BY <1>1, <2>2 DEF Speak, Requested
  <2> QED BY <2>1, <2>2
<1>2. CASE Barge
  BY <1>2, Counted DEF Barge, ClearAudioBuffer, SomeLive, Requested
<1>3. CASE Stop
  BY <1>3, Counted DEF Stop, Cancel, Cancelled
<1>4. ASSUME NEW s \in Speeches, Produce(s) PROVE SamplesAccounted'
  <2> SUFFICES ASSUME NEW r \in Speeches PROVE Accounted(r)'
    OBVIOUS
  <2>1. CASE r # s
    BY <1>4, <2>1 DEF Produce
  <2>2. CASE r = s
    <3>1. fed'[s] = fed[s] + 1 /\ taken' = taken /\ player' = player /\ stream[s] = "open"
      BY <1>4 DEF Produce
    <3>2. fed[s] \in Nat /\ taken[s] \in Nat /\ fed'[s] > 0
      BY <3>1, Counted
    <3>3. taken[s] <= Upsampled(fed'[s])
      <4>1. Upsampled(fed[s] + 1) >= Upsampled(fed[s]) /\ Upsampled(fed[s]) \in Nat
        BY <3>2, UpsampledIsOdd
      <4>2. Upsampled(fed[s] + 1) \in Nat
        BY <3>2, UpsampledIsOdd
      <4> QED BY <3>1, <3>2, <4>1, <4>2
    <3> QED BY <1>4, <2>2, <3>1, <3>2, <3>3 DEF StreamInPlace, Produce
  <2> QED BY <2>1, <2>2
<1>5. ASSUME NEW s \in Speeches, StreamEnds(s) PROVE SamplesAccounted'
  BY <1>5, Counted DEF StreamEnds
<1>6. ASSUME NEW s \in Speeches, Started(s) PROVE SamplesAccounted'
  BY <1>6, Counted DEF Started
<1>7. ASSUME NEW s \in Speeches, Resume(s) PROVE SamplesAccounted'
  <2> SUFFICES ASSUME NEW r \in Speeches PROVE Accounted(r)'
    OBVIOUS
  <2>1. CASE r # s
    BY <1>7, <2>1 DEF Resume
  <2>2. CASE r = s
    <3>1. fed[s] > 0
      <4>1. fed[s] \in Nat /\ taken[s] \in Nat /\ Upsampled(fed[s]) \in Nat
        BY Counted
      <4>2. Upsampled(fed[s]) > 0
        BY <1>7, <4>1 DEF Resume
      <4> QED BY <4>1, <4>2, UpsampledIsOdd
    <3> QED BY <1>7, <2>2, <3>1 DEF Resume
  <2> QED BY <2>1, <2>2
<1>8. ASSUME NEW s \in Speeches, NoAudio(s) PROVE SamplesAccounted'
  <2> SUFFICES ASSUME NEW r \in Speeches PROVE Accounted(r)'
    OBVIOUS
  <2>1. CASE r # s
    BY <1>8, <2>1 DEF NoAudio
  <2>2. CASE r = s
    <3>1. taken[s] = Upsampled(fed[s])
      BY <1>8, Counted DEF NoAudio
    <3>2. fed[s] = 0
      BY <1>8, <3>1, Counted, UpsampledIsOdd DEF NoAudio
    <3> QED BY <1>8, <2>2, <3>2 DEF NoAudio
  <2> QED BY <2>1, <2>2
<1>9. ASSUME NEW s \in Speeches, PushFrame(s) PROVE SamplesAccounted'
  <2> SUFFICES ASSUME NEW r \in Speeches PROVE Accounted(r)'
    OBVIOUS
  <2>1. CASE r # s
    BY SMTT(20), <1>9, <2>1, FramePushed
  <2>2. CASE r = s
    <3>1. /\ taken'[s] = taken[s] + FrameSamples /\ fed' = fed /\ stream' = stream
          /\ player'[s] = "playing" \/ (player'[s] = "draining" /\ s \in refused')
          /\ player[s] = "playing" /\ fed[s] > 0
      BY <1>9, FramePushed
    <3>2. Even(taken'[s])
      BY <3>1, Counted, FramesAreEven
    <3>3. taken'[s] <= Upsampled(fed[s])
      <4>1. taken[s] \in Nat /\ Upsampled(fed[s]) \in Nat /\ FrameSamples \in Nat
        BY Counted, Constants
      <4>2. Upsampled(fed[s]) - taken[s] >= FrameSamples
        BY <1>9, FramePushed
      <4> QED BY <3>1, <4>1, <4>2
    <3> QED BY <2>2, <3>1, <3>2, <3>3
  <2> QED BY <2>1, <2>2
<1>10. ASSUME NEW s \in Speeches, PushTail(s) PROVE SamplesAccounted'
  <2> SUFFICES ASSUME NEW r \in Speeches PROVE Accounted(r)'
    OBVIOUS
  <2>1. CASE r # s
    BY <1>10, <2>1, TailPushed
  <2>2. CASE r = s
    <3>1. /\ player'[s] = "draining" /\ fed' = fed /\ fed[s] > 0
          /\ stream' = stream /\ stream[s] = "done"
      BY <1>10, TailPushed
    <3>2. taken'[s] = Upsampled(fed[s])
      <4>1. taken[s] \in Nat /\ Upsampled(fed[s]) \in Nat /\ taken[s] <= Upsampled(fed[s])
        BY Counted DEF SamplesAccounted, Accounted
      <4>2. taken'[s] = IF Pending(s) > 0 THEN taken[s] + Pending(s) ELSE taken[s]
        BY <1>10, TailPushed
      <4>3. Pending(s) = Upsampled(fed[s]) - taken[s]
        BY DEF Pending
      <4> DEFINE a == Upsampled(fed[s])
                 b == taken[s]
                 c == taken'[s]
      <4>4. c = IF a - b > 0 THEN b + (a - b) ELSE b
        BY <4>2, <4>3
      <4>5. a \in Nat /\ b \in Nat /\ b <= a
        BY <4>1
      <4> HIDE DEF a, b, c
      <4>6. c = a
        BY <4>4, <4>5
      <4> QED BY <4>6 DEF a, c
    <3>3. Upsampled(fed[s]) \in Nat
      BY Counted
    <3> QED BY <2>2, <3>1, <3>2, <3>3
  <2> QED BY <2>1, <2>2
<1>11. ASSUME NEW s \in Speeches, Starve(s) PROVE SamplesAccounted'
  BY <1>11, Counted DEF Starve
<1>12. ASSUME NEW s \in Speeches, Fail(s) PROVE SamplesAccounted'
  BY <1>12, Counted DEF Fail
<1>13. ASSUME NEW s \in Speeches, Drained(s) PROVE SamplesAccounted'
  BY <1>13, Counted DEF Drained
<1>14. ASSUME NEW s \in Speeches, Finished(s) PROVE SamplesAccounted'
  BY <1>14, Counted DEF Finished, CancelProducer
<1>15. ASSUME NEW s \in Speeches, ReportError(s) PROVE SamplesAccounted'
  BY <1>15, Counted DEF ReportError
<1>16. ASSUME NEW s \in Speeches, Leave(s) PROVE SamplesAccounted'
  BY <1>16, Counted DEF Leave
<1>17. ASSUME NEW s \in Speeches, Unwind(s) PROVE SamplesAccounted'
  BY <1>17, Counted DEF Unwind, CancelProducer, ClearAudioBuffer
<1>18. CASE UNCHANGED <<player, stream, fed, taken, refused>>
  BY <1>18
<1> QED
  BY <1>1, <1>2, <1>3, <1>4, <1>5, <1>6, <1>7, <1>8, <1>9, <1>10, <1>11, <1>12, <1>13, <1>14,
     <1>15, <1>16, <1>17, <1>18
  DEF Next, Play, StopReceiver, SenderTakes, Captured, vars

LEMMA RefusedInPlaceStep == ASSUME IndInv, TypeOK', [Next]_vars PROVE RefusedInPlace'
<1> USE DEF IndInv, TypeOK, Live, bufferVars, receiverVars, RefusedInPlace
<1>1. CASE Speak
  BY <1>1 DEF Speak, Cancel, Cancelled, SomeLive, Requested
<1>2. CASE Barge
  BY <1>2 DEF Barge, ClearAudioBuffer, SomeLive, Requested
<1>3. CASE Stop
  BY <1>3 DEF Stop, Cancel, Cancelled
<1>4. ASSUME NEW s \in Speeches, PushFrame(s) PROVE RefusedInPlace'
  BY <1>4, FramePushed
<1>5. ASSUME NEW s \in Speeches, PushTail(s) PROVE RefusedInPlace'
  BY <1>5, TailPushed
<1>6. ASSUME NEW s \in Speeches, Started(s) PROVE RefusedInPlace'
  BY <1>6 DEF Started
<1>7. ASSUME NEW s \in Speeches, Resume(s) PROVE RefusedInPlace'
  BY <1>7 DEF Resume
<1>8. ASSUME NEW s \in Speeches, NoAudio(s) PROVE RefusedInPlace'
  BY <1>8 DEF NoAudio
<1>9. ASSUME NEW s \in Speeches, Starve(s) PROVE RefusedInPlace'
  BY <1>9 DEF Starve
<1>10. ASSUME NEW s \in Speeches, Fail(s) PROVE RefusedInPlace'
  BY <1>10 DEF Fail
<1>11. ASSUME NEW s \in Speeches, Drained(s) PROVE RefusedInPlace'
  BY <1>11 DEF Drained
<1>12. ASSUME NEW s \in Speeches, Finished(s) PROVE RefusedInPlace'
  BY <1>12 DEF Finished
<1>13. ASSUME NEW s \in Speeches, ReportError(s) PROVE RefusedInPlace'
  BY <1>13 DEF ReportError
<1>14. ASSUME NEW s \in Speeches, Leave(s) PROVE RefusedInPlace'
  BY <1>14 DEF Leave
<1>15. ASSUME NEW s \in Speeches, Unwind(s) PROVE RefusedInPlace'
  BY <1>15 DEF Unwind
<1>16. CASE UNCHANGED <<player, refused, provider>>
  BY <1>16
<1> QED
  BY <1>1, <1>2, <1>3, <1>4, <1>5, <1>6, <1>7, <1>8, <1>9, <1>10, <1>11, <1>12, <1>13, <1>14,
     <1>15, <1>16
  DEF Next, Play, StopReceiver, Produce, StreamEnds, SenderTakes, Captured, vars

LEMMA ReportsInPlaceStep == ASSUME IndInv, TypeOK', [Next]_vars PROVE ReportsInPlace'
<1> USE DEF IndInv, TypeOK, Live, bufferVars, receiverVars, ReportsInPlace
<1>1. CASE Speak
  BY <1>1, ReportedKept DEF Speak, Cancel, Cancelled, SomeLive, Requested
<1>2. CASE Barge
  BY <1>2, ReportedKept DEF Barge, ClearAudioBuffer, SomeLive, Requested
<1>3. CASE Stop
  BY <1>3, ReportedKept DEF Stop, Cancel, Cancelled
<1>4. ASSUME NEW s \in Speeches, Started(s) PROVE ReportsInPlace'
  <2>1. \A r : r \in Reported("tts.finished")' <=> r \in Reported("tts.finished")
    BY <1>4, ReportAdds DEF Started
  <2>2. \A r : r \in Reported("tts.error")' <=> r \in Reported("tts.error")
    BY <1>4, ReportAdds DEF Started
  <2> QED BY <1>4, <2>1, <2>2 DEF Started
<1>5. ASSUME NEW s \in Speeches, Resume(s) PROVE ReportsInPlace'
  BY <1>5, ReportedKept DEF Resume
<1>6. ASSUME NEW s \in Speeches, NoAudio(s) PROVE ReportsInPlace'
  BY <1>6, ReportedKept DEF NoAudio
<1>7. ASSUME NEW s \in Speeches, PushTail(s) PROVE ReportsInPlace'
  BY <1>7, ReportedKept, TailPushed
<1>8. ASSUME NEW s \in Speeches, Starve(s) PROVE ReportsInPlace'
  BY <1>8, ReportedKept DEF Starve
<1>9. ASSUME NEW s \in Speeches, Fail(s) PROVE ReportsInPlace'
  BY <1>9, ReportedKept DEF Fail
<1>10. ASSUME NEW s \in Speeches, Drained(s) PROVE ReportsInPlace'
  <2>1. \A r : r \in Reported("tts.finished")' <=> r \in Reported("tts.finished") \/ r = s
    BY <1>10, ReportAdds DEF Drained
  <2>2. \A r : r \in Reported("tts.error")' <=> r \in Reported("tts.error")
    BY <1>10, ReportAdds DEF Drained
  <2> QED BY <1>10, <2>1, <2>2 DEF Drained
<1>11. ASSUME NEW s \in Speeches, Finished(s) PROVE ReportsInPlace'
  BY <1>11, ReportedKept DEF Finished
<1>12. ASSUME NEW s \in Speeches, ReportError(s) PROVE ReportsInPlace'
  <2>1. \A r : r \in Reported("tts.finished")' <=> r \in Reported("tts.finished")
    BY <1>12, ReportAdds DEF ReportError
  <2>2. \A r : r \in Reported("tts.error")' <=> r \in Reported("tts.error") \/ r = s
    BY <1>12, ReportAdds DEF ReportError
  <2> QED BY <1>12, <2>1, <2>2 DEF ReportError
<1>13. ASSUME NEW s \in Speeches, Leave(s) PROVE ReportsInPlace'
  BY <1>13, ReportedKept DEF Leave
<1>14. ASSUME NEW s \in Speeches, Unwind(s) PROVE ReportsInPlace'
  BY <1>14, ReportedKept DEF Unwind, ClearAudioBuffer
<1>15. CASE UNCHANGED <<player, events>>
  <2>1. \A x : Reported(x)' = Reported(x)
    BY <1>15, ReportedKept
  <2> QED BY <1>15, <2>1
<1>16. ASSUME NEW s \in Speeches, PushFrame(s) PROVE ReportsInPlace'
  BY SMTT(20), <1>16, ReportedKept, FramePushed
<1> QED
  BY <1>1, <1>2, <1>3, <1>4, <1>5, <1>6, <1>7, <1>8, <1>9, <1>10, <1>11, <1>12, <1>13, <1>14,
     <1>15, <1>16
  DEF Next, Play, StopReceiver, Produce, StreamEnds, SenderTakes, Captured, vars

LEMMA NoneReportedNewStep == ASSUME IndInv, TypeOK', [Next]_vars PROVE NoneReportedNew'
<1> USE DEF IndInv, TypeOK, Live, bufferVars, receiverVars, NoneReportedNew
<1>1. CASE Speak
  <2>1. events' = events
    BY <1>1 DEF Speak
  <2>2. \A r \in Speeches : player[r] # "new" => player'[r] # "new"
    BY <1>1 DEF Speak, Cancel, Cancelled, Requested
  <2> QED BY <2>1, <2>2, EventsOfSpeeches
<1>2. CASE Barge
  BY <1>2, EventsOfSpeeches DEF Barge, ClearAudioBuffer, SomeLive, Requested
<1>3. CASE Stop
  BY <1>3, EventsOfSpeeches DEF Stop, Cancel, Cancelled
<1>4. ASSUME NEW s \in Speeches, Started(s) PROVE NoneReportedNew'
  <2>1. \A i \in DOMAIN events' :
           events'[i].speech = s \/ (i \in DOMAIN events /\ events'[i] = events[i])
    BY <1>4, ReportAppends DEF Started
  <2>2. \A r \in Speeches : player[r] # "new" => player'[r] # "new"
    BY <1>4 DEF Started
  <2>3. player'[s] # "new"
    BY <1>4 DEF Started
  <2> QED BY <2>1, <2>2, <2>3, EventsOfSpeeches
<1>5. ASSUME NEW s \in Speeches, Resume(s) PROVE NoneReportedNew'
  BY <1>5, EventsOfSpeeches DEF Resume
<1>6. ASSUME NEW s \in Speeches, NoAudio(s) PROVE NoneReportedNew'
  BY <1>6, EventsOfSpeeches DEF NoAudio
<1>7. ASSUME NEW s \in Speeches, PushTail(s) PROVE NoneReportedNew'
  BY SMTT(20), <1>7, EventsOfSpeeches, TailPushed
<1>8. ASSUME NEW s \in Speeches, Starve(s) PROVE NoneReportedNew'
  BY <1>8, EventsOfSpeeches DEF Starve
<1>9. ASSUME NEW s \in Speeches, Fail(s) PROVE NoneReportedNew'
  BY <1>9, EventsOfSpeeches DEF Fail
<1>10. ASSUME NEW s \in Speeches, Drained(s) PROVE NoneReportedNew'
  <2>1. \A i \in DOMAIN events' :
           events'[i].speech = s \/ (i \in DOMAIN events /\ events'[i] = events[i])
    BY <1>10, ReportAppends DEF Drained
  <2>2. \A r \in Speeches : player[r] # "new" => player'[r] # "new"
    BY <1>10 DEF Drained
  <2>3. player'[s] # "new"
    BY <1>10 DEF Drained
  <2> QED BY <2>1, <2>2, <2>3, EventsOfSpeeches
<1>11. ASSUME NEW s \in Speeches, Finished(s) PROVE NoneReportedNew'
  BY <1>11, EventsOfSpeeches DEF Finished
<1>12. ASSUME NEW s \in Speeches, ReportError(s) PROVE NoneReportedNew'
  <2>1. \A i \in DOMAIN events' :
           events'[i].speech = s \/ (i \in DOMAIN events /\ events'[i] = events[i])
    BY <1>12, ReportAppends DEF ReportError
  <2>2. \A r \in Speeches : player[r] # "new" => player'[r] # "new"
    BY <1>12 DEF ReportError
  <2>3. player'[s] # "new"
    BY <1>12 DEF ReportError
  <2> QED BY <2>1, <2>2, <2>3, EventsOfSpeeches
<1>13. ASSUME NEW s \in Speeches, Leave(s) PROVE NoneReportedNew'
  BY <1>13, EventsOfSpeeches DEF Leave
<1>14. ASSUME NEW s \in Speeches, Unwind(s) PROVE NoneReportedNew'
  BY <1>14, EventsOfSpeeches DEF Unwind, ClearAudioBuffer
<1>15. CASE UNCHANGED <<player, events>>
  BY <1>15
<1>16. ASSUME NEW s \in Speeches, PushFrame(s) PROVE NoneReportedNew'
  BY <1>16, EventsOfSpeeches, FramePushed
<1> QED
  BY <1>1, <1>2, <1>3, <1>4, <1>5, <1>6, <1>7, <1>8, <1>9, <1>10, <1>11, <1>12, <1>13, <1>14,
     <1>15, <1>16
  DEF Next, Play, StopReceiver, Produce, StreamEnds, SenderTakes, Captured, vars

LEMMA LoopInPlaceStep == ASSUME IndInv, TypeOK', [Next]_vars PROVE LoopInPlace'
<1> USE DEF IndInv, TypeOK, Live, bufferVars, receiverVars, LoopInPlace
<1>1. CASE Speak
  BY <1>1 DEF Speak, Cancel, Cancelled, SomeLive, Requested
<1>2. CASE Barge
  BY <1>2 DEF Barge, ClearAudioBuffer, SomeLive, Requested
<1>3. CASE Stop
  BY <1>3 DEF Stop, Cancel, Cancelled
<1>4. CASE StopReceiver
  BY <1>4 DEF StopReceiver, ClearAudioBuffer, SomeLive
<1>5. ASSUME NEW s \in Speeches, Started(s) PROVE LoopInPlace'
  BY <1>5 DEF Started
<1>6. ASSUME NEW s \in Speeches, Resume(s) PROVE LoopInPlace'
  BY <1>6 DEF Resume
<1>7. ASSUME NEW s \in Speeches, NoAudio(s) PROVE LoopInPlace'
  BY <1>7 DEF NoAudio
<1>8. ASSUME NEW s \in Speeches, PushTail(s) PROVE LoopInPlace'
  BY <1>8, TailPushed
<1>9. ASSUME NEW s \in Speeches, Starve(s) PROVE LoopInPlace'
  BY <1>9 DEF Starve
<1>10. ASSUME NEW s \in Speeches, Fail(s) PROVE LoopInPlace'
  BY <1>10 DEF Fail
<1>11. ASSUME NEW s \in Speeches, Drained(s) PROVE LoopInPlace'
  BY <1>11 DEF Drained
<1>12. ASSUME NEW s \in Speeches, Finished(s) PROVE LoopInPlace'
  BY <1>12 DEF Finished
<1>13. ASSUME NEW s \in Speeches, ReportError(s) PROVE LoopInPlace'
  BY <1>13 DEF ReportError
<1>14. ASSUME NEW s \in Speeches, Leave(s) PROVE LoopInPlace'
  BY <1>14 DEF Leave
<1>15. ASSUME NEW s \in Speeches, Unwind(s) PROVE LoopInPlace'
  BY <1>15 DEF Unwind, ClearAudioBuffer
<1>16. CASE UNCHANGED <<loop, player, room>>
  BY <1>16
<1>17. ASSUME NEW s \in Speeches, PushFrame(s) PROVE LoopInPlace'
  BY <1>17, FramePushed
<1> QED
  BY <1>1, <1>2, <1>3, <1>4, <1>5, <1>6, <1>7, <1>8, <1>9, <1>10, <1>11, <1>12, <1>13, <1>14,
     <1>15, <1>16, <1>17
  DEF Next, Play, Produce, StreamEnds, SenderTakes, Captured, vars

LEMMA QueueAccountedStep == ASSUME IndInv, TypeOK', [Next]_vars PROVE QueueAccounted'
<1> USE DEF IndInv, TypeOK, Live, bufferVars, receiverVars, Ended, ReportsInPlace, LoopInPlace,
        QueueAccounted
<1>1. CASE Speak
  BY <1>1, ReportedKept DEF Speak, Cancel, Cancelled, SomeLive, Requested
<1>2. CASE Barge
  BY <1>2, EmptyQueue, ReportedKept DEF Barge, ClearAudioBuffer, SomeLive, Requested
<1>3. CASE Stop
  BY <1>3, ReportedKept DEF Stop, Cancel, Cancelled
<1>4. CASE StopReceiver
  BY <1>4, EmptyQueue, ReportedKept DEF StopReceiver, ClearAudioBuffer, SomeLive
<1>5. ASSUME NEW s \in Speeches, Started(s) PROVE QueueAccounted'
  <2>1. \A r : r \in Reported("tts.finished")' <=> r \in Reported("tts.finished")
    BY <1>5, ReportAdds DEF Started
  <2>2. \A r : r \in Reported("tts.error")' <=> r \in Reported("tts.error")
    BY <1>5, ReportAdds DEF Started
  <2> QED BY <1>5, <2>1, <2>2 DEF Started
<1>6. ASSUME NEW s \in Speeches, Resume(s) PROVE QueueAccounted'
  BY <1>6, ReportedKept DEF Resume
<1>7. ASSUME NEW s \in Speeches, NoAudio(s) PROVE QueueAccounted'
  BY <1>7, ReportedKept DEF NoAudio
<1>8. ASSUME NEW s \in Speeches, PushFrame(s) PROVE QueueAccounted'
  <2>1. /\ loop' = loop /\ player[s] = "playing" /\ Live(s)' /\ \A r : Ended(r)' <=> Ended(r)
        /\ \A r \in Speeches : Live(r) => Live(r)'
    BY <1>8, FramePushed, ReportedKept
  <2>2. \A i \in DOMAIN queue' : queue'[i] = s \/ \E j \in DOMAIN queue : queue'[i] = queue[j]
    BY <1>8, PlayerQueues
  <2>3. ASSUME loop' = "idle", NEW i \in DOMAIN queue'
        PROVE  (Live(queue[i]) \/ Ended(queue[i]))'
    <3>1. CASE queue'[i] = s
      BY <2>1, <3>1
    <3>2. ASSUME NEW j \in DOMAIN queue, queue'[i] = queue[j]
          PROVE  (Live(queue[i]) \/ Ended(queue[i]))'
      <4>1. (Live(queue[j]) \/ Ended(queue[j])) /\ queue[j] \in Speeches
        BY <2>1, <2>3
      <4> QED BY <2>1, <3>2, <4>1
    <3> QED BY <2>2, <2>3, <3>1, <3>2
  <2> QED BY <2>3
<1>9. ASSUME NEW s \in Speeches, PushTail(s) PROVE QueueAccounted'
  <2>1. /\ loop' = loop /\ player[s] = "playing" /\ Live(s)' /\ \A r : Ended(r)' <=> Ended(r)
        /\ \A r \in Speeches : Live(r) => Live(r)'
    BY <1>9, TailPushed, ReportedKept
  <2>2. \A i \in DOMAIN queue' : queue'[i] = s \/ \E j \in DOMAIN queue : queue'[i] = queue[j]
    BY <1>9, PlayerQueues
  <2>3. ASSUME loop' = "idle", NEW i \in DOMAIN queue'
        PROVE  (Live(queue[i]) \/ Ended(queue[i]))'
    <3>1. CASE queue'[i] = s
      BY <2>1, <3>1
    <3>2. ASSUME NEW j \in DOMAIN queue, queue'[i] = queue[j]
          PROVE  (Live(queue[i]) \/ Ended(queue[i]))'
      <4>1. (Live(queue[j]) \/ Ended(queue[j])) /\ queue[j] \in Speeches
        BY <2>1, <2>3
      <4> QED BY <2>1, <3>2, <4>1
    <3> QED BY <2>2, <2>3, <3>1, <3>2
  <2> QED BY <2>3
<1>10. ASSUME NEW s \in Speeches, Starve(s) PROVE QueueAccounted'
  BY <1>10, ReportedKept DEF Starve
<1>11. ASSUME NEW s \in Speeches, Fail(s) PROVE QueueAccounted'
  BY <1>11, ReportedKept DEF Fail
<1>12. ASSUME NEW s \in Speeches, Drained(s) PROVE QueueAccounted'
  <2>1. \A r : r \in Reported("tts.finished")' <=> r \in Reported("tts.finished") \/ r = s
    BY <1>12, ReportAdds DEF Drained
  <2>2. \A r : r \in Reported("tts.error")' <=> r \in Reported("tts.error")
    BY <1>12, ReportAdds DEF Drained
  <2> QED BY <1>12, <2>1, <2>2 DEF Drained
<1>13. ASSUME NEW s \in Speeches, Finished(s) PROVE QueueAccounted'
  BY <1>13, ReportedKept DEF Finished
<1>14. ASSUME NEW s \in Speeches, ReportError(s) PROVE QueueAccounted'
  <2>1. \A r : r \in Reported("tts.finished")' <=> r \in Reported("tts.finished")
    BY <1>14, ReportAdds DEF ReportError
  <2>2. \A r : r \in Reported("tts.error")' <=> r \in Reported("tts.error") \/ r = s
    BY <1>14, ReportAdds DEF ReportError
  <2> QED BY <1>14, <2>1, <2>2 DEF ReportError
<1>15. ASSUME NEW s \in Speeches, Leave(s) PROVE QueueAccounted'
  BY <1>15, ReportedKept DEF Leave
<1>16. ASSUME NEW s \in Speeches, Unwind(s) PROVE QueueAccounted'
  BY <1>16, EmptyQueue, ReportedKept DEF Unwind, ClearAudioBuffer
<1>17. CASE SenderTakes
  BY <1>17, SenderDequeues, ReportedKept DEF SenderTakes
<1>18. CASE UNCHANGED <<loop, player, queue, events>>
  BY <1>18, ReportedKept
<1> QED
  BY <1>1, <1>2, <1>3, <1>4, <1>5, <1>6, <1>7, <1>8, <1>9, <1>10, <1>11, <1>12, <1>13, <1>14,
     <1>15, <1>16, <1>17, <1>18
  DEF Next, Play, Produce, StreamEnds, Captured, vars

LEMMA AudioMoves ==
    ASSUME IndInv, NEW s \in Speeches, Produce(s) \/ PushFrame(s) \/ PushTail(s)
    PROVE  ReportsAreTrue'
<1>1. TypeOK /\ ReportsAreTrue
  BY DEF IndInv
<1>2. \A x : Reported(x)' = Reported(x)
  <2>1. events' = events
    BY DEF Produce, PushFrame, PushTail
  <2> QED BY <2>1, ReportedKept
<1>3. CASE Produce(s)
  <2>1. s \notin Reported("tts.error")
    BY <1>3 DEF Produce, IndInv, ReportsInPlace, StreamInPlace
  <2>2. s \in Reported("tts.finished") => provider = "agora" /\ s \in refused
    BY <1>1, <1>3 DEF Produce, ReportsAreTrue
  <2>3. /\ \A r \in Speeches : r # s => fed'[r] = fed[r]
        /\ fed'[s] > 0 /\ stream' = stream /\ taken' = taken
        /\ refused' = refused /\ provider' = provider
    BY <1>1, <1>3, Counted DEF Produce, TypeOK, bufferVars, receiverVars
  <2>4. /\ s \in Reported("tts.finished") => fed'[s] > 0 /\ provider = "agora" /\ s \in refused'
        /\ \A r \in Speeches : r # s => /\ fed'[r] = fed[r] /\ taken'[r] = taken[r]
                                       /\ stream'[r] = stream[r]
                                       /\ (r \in refused' <=> r \in refused)
    BY <2>2, <2>3
  <2> QED BY <1>1, <1>2, <2>1, <2>3, <2>4, ReportsStayTrue
<1>4. CASE PushFrame(s) \/ PushTail(s)
  <2>1. player[s] = "playing" /\ UNCHANGED <<stream, fed, provider>>
    BY <1>4 DEF PushFrame, PushTail
  <2>2. s \notin Reported("tts.finished") /\ s \notin Reported("tts.error")
    BY <2>1 DEF IndInv, ReportsInPlace
  <2>3. \A r \in Speeches : r # s => taken'[r] = taken[r] /\ (r \in refused' <=> r \in refused)
    BY <1>1, <1>4, FramePushed, TailPushed
  <2> QED BY <1>1, <1>2, <2>1, <2>2, <2>3, ReportsStayTrue
<1> QED BY <1>3, <1>4

LEMMA ReportsAreTrueStep == ASSUME IndInv, TypeOK', [Next]_vars PROVE ReportsAreTrue'
<1> USE DEF IndInv, TypeOK, Live, bufferVars, receiverVars, Pending, ReportsInPlace, StreamInPlace,
        RefusedInPlace, ReportsAreTrue
<1>1. CASE Speak
  BY <1>1, ReportedKept DEF Speak, Cancel, Cancelled, SomeLive, Requested
<1>2. CASE Barge
  BY <1>2, ReportedKept DEF Barge, ClearAudioBuffer, SomeLive, Requested
<1>3. CASE Stop
  BY <1>3, ReportedKept DEF Stop, Cancel, Cancelled
<1>4. ASSUME NEW s \in Speeches, Produce(s) PROVE ReportsAreTrue'
  BY <1>4, AudioMoves
<1>5. ASSUME NEW s \in Speeches, StreamEnds(s) PROVE ReportsAreTrue'
  BY <1>5, ReportedKept DEF StreamEnds, Reported
<1>6. ASSUME NEW s \in Speeches, Started(s) PROVE ReportsAreTrue'
  <2>1. \A r : r \in Reported("tts.finished")' <=> r \in Reported("tts.finished")
    BY <1>6, ReportAdds DEF Started
  <2>2. \A r : r \in Reported("tts.error")' <=> r \in Reported("tts.error")
    BY <1>6, ReportAdds DEF Started
  <2> QED BY <1>6, <2>1, <2>2 DEF Started, SamplesAccounted, Accounted
<1>7. ASSUME NEW s \in Speeches, Resume(s) PROVE ReportsAreTrue'
  BY <1>7, ReportedKept DEF Resume
<1>8. ASSUME NEW s \in Speeches, NoAudio(s) PROVE ReportsAreTrue'
  BY <1>8, ReportedKept DEF NoAudio
<1>9. ASSUME NEW s \in Speeches, PushFrame(s) PROVE ReportsAreTrue'
  BY <1>9, AudioMoves
<1>10. ASSUME NEW s \in Speeches, PushTail(s) PROVE ReportsAreTrue'
  BY <1>10, AudioMoves
<1>11. ASSUME NEW s \in Speeches, Starve(s) PROVE ReportsAreTrue'
  BY <1>11, ReportedKept DEF Starve
<1>12. ASSUME NEW s \in Speeches, Fail(s) PROVE ReportsAreTrue'
  BY <1>12, ReportedKept DEF Fail
<1>13. ASSUME NEW s \in Speeches, Drained(s) PROVE ReportsAreTrue'
  <2>1. \A r : r \in Reported("tts.finished")' <=> r \in Reported("tts.finished") \/ r = s
    BY <1>13, ReportAdds DEF Drained
  <2>2. \A r : r \in Reported("tts.error")' <=> r \in Reported("tts.error")
    BY <1>13, ReportAdds DEF Drained
  <2>3. fed[s] > 0 /\ ((stream[s] = "done" /\ Pending(s) = 0) \/ (provider = "agora" /\ s \in refused))
    BY <1>13 DEF Drained, SamplesAccounted, Accounted
  <2>4. UNCHANGED <<stream, fed, taken, refused, provider>>
    BY <1>13 DEF Drained
  <2> QED BY <2>1, <2>2, <2>3, <2>4
<1>14. ASSUME NEW s \in Speeches, Finished(s) PROVE ReportsAreTrue'
  BY <1>14, ReportedKept DEF Finished, CancelProducer
<1>15. ASSUME NEW s \in Speeches, ReportError(s) PROVE ReportsAreTrue'
  <2>1. \A r : r \in Reported("tts.finished")' <=> r \in Reported("tts.finished")
    BY <1>15, ReportAdds DEF ReportError
  <2>2. \A r : r \in Reported("tts.error")' <=> r \in Reported("tts.error") \/ r = s
    BY <1>15, ReportAdds DEF ReportError
  <2> QED BY <1>15, <2>1, <2>2 DEF ReportError, SamplesAccounted, Accounted
<1>16. ASSUME NEW s \in Speeches, Leave(s) PROVE ReportsAreTrue'
  BY <1>16, ReportedKept DEF Leave
<1>17. ASSUME NEW s \in Speeches, Unwind(s) PROVE ReportsAreTrue'
  BY <1>17, ReportedKept DEF Unwind, CancelProducer, ClearAudioBuffer
<1>18. CASE UNCHANGED <<player, stream, fed, taken, refused, provider, events>>
  BY <1>18, ReportedKept
<1> QED
  BY <1>1, <1>2, <1>3, <1>4, <1>5, <1>6, <1>7, <1>8, <1>9, <1>10, <1>11, <1>12, <1>13, <1>14,
     <1>15, <1>16, <1>17, <1>18
  DEF Next, Play, StopReceiver, SenderTakes, Captured, vars

LEMMA StopSilencesStep == ASSUME IndInv, TypeOK', [Next]_vars PROVE StopSilences'
<1> USE DEF IndInv, TypeOK, Live, bufferVars, receiverVars, SomeLive, StreamInPlace, LoopInPlace,
        StopSilences
<1>1. CASE Speak
  BY <1>1 DEF Speak, Cancel, Cancelled, SomeLive, Requested
<1>2. CASE Barge
  BY <1>2, EmptyQueue DEF Barge, ClearAudioBuffer, SomeLive, Requested
<1>3. CASE Stop
  BY <1>3 DEF Stop, Cancel, Cancelled
<1>4. CASE StopReceiver
  BY <1>4, EmptyQueue DEF StopReceiver, ClearAudioBuffer, SomeLive
<1>5. ASSUME NEW s \in Speeches, StreamEnds(s) PROVE StopSilences'
  BY <1>5 DEF StreamEnds
<1>6. ASSUME NEW s \in Speeches, Started(s) PROVE StopSilences'
  BY <1>6 DEF Started
<1>7. ASSUME NEW s \in Speeches, Resume(s) PROVE StopSilences'
  BY <1>7 DEF Resume
<1>8. ASSUME NEW s \in Speeches, NoAudio(s) PROVE StopSilences'
  BY <1>8 DEF NoAudio
<1>9. ASSUME NEW s \in Speeches, PushFrame(s) PROVE StopSilences'
  BY <1>9, FramePushed
<1>10. ASSUME NEW s \in Speeches, PushTail(s) PROVE StopSilences'
  BY <1>10, TailPushed
<1>11. ASSUME NEW s \in Speeches, Starve(s) PROVE StopSilences'
  BY <1>11 DEF Starve
<1>12. ASSUME NEW s \in Speeches, Fail(s) PROVE StopSilences'
  BY <1>12 DEF Fail
<1>13. ASSUME NEW s \in Speeches, Drained(s) PROVE StopSilences'
  BY <1>13 DEF Drained
<1>14. ASSUME NEW s \in Speeches, Finished(s) PROVE StopSilences'
  BY <1>14 DEF Finished, CancelProducer
<1>15. ASSUME NEW s \in Speeches, ReportError(s) PROVE StopSilences'
  BY <1>15 DEF ReportError
<1>16. ASSUME NEW s \in Speeches, Leave(s) PROVE StopSilences'
  BY <1>16 DEF Leave
<1>17. ASSUME NEW s \in Speeches, Unwind(s) PROVE StopSilences'
  BY <1>17, EmptyQueue DEF Unwind, CancelProducer, ClearAudioBuffer
<1>18. CASE SenderTakes
  BY <1>18, SenderDequeues DEF SenderTakes
<1>19. CASE Captured
  BY <1>19 DEF Captured
<1>20. CASE UNCHANGED <<loop, player, stream, queue, inHand, room>>
  BY <1>20
<1> QED
  BY <1>1, <1>2, <1>3, <1>4, <1>5, <1>6, <1>7, <1>8, <1>9, <1>10, <1>11, <1>12, <1>13, <1>14,
     <1>15, <1>16, <1>17, <1>18, <1>19, <1>20
  DEF Next, Play, Produce, vars

LEMMA BargeInSilencesStep == ASSUME IndInv, TypeOK', [Next]_vars PROVE BargeInSilences'
<1> USE DEF IndInv, TypeOK, Live, bufferVars, receiverVars, Ended, ReportsInPlace, LoopInPlace,
        QueueAccounted, BargeInSilences
<1>1. CASE Speak
  <2>1. queue' = queue /\ \A r : Ended(r)' <=> Ended(r)
    BY <1>1, ReportedKept DEF Speak
  <2>2. CASE SomeLive
    <3>1. \A r \in Speeches : Live(r)' => Live(r)
      BY <1>1, <2>2 DEF Speak, Cancel, Cancelled
    <3> QED BY <2>1, <3>1
  <2>3. CASE ~SomeLive
    <3>1. \A i \in DOMAIN queue : Ended(queue[i])
      BY <1>1, <2>3 DEF Speak, SomeLive
    <3> QED BY <2>1, <3>1
  <2> QED BY <2>2, <2>3
<1>2. CASE Barge
  BY <1>2, EmptyQueue, ReportedKept DEF Barge, ClearAudioBuffer, SomeLive, Requested
<1>3. CASE Stop
  BY <1>3, ReportedKept DEF Stop, Cancel, Cancelled
<1>4. CASE StopReceiver
  BY <1>4, EmptyQueue, ReportedKept DEF StopReceiver, ClearAudioBuffer, SomeLive
<1>5. ASSUME NEW s \in Speeches, Started(s) PROVE BargeInSilences'
  <2>1. \A r : r \in Reported("tts.finished")' <=> r \in Reported("tts.finished")
    BY <1>5, ReportAdds DEF Started
  <2>2. \A r : r \in Reported("tts.error")' <=> r \in Reported("tts.error")
    BY <1>5, ReportAdds DEF Started
  <2> QED BY <1>5, <2>1, <2>2 DEF Started
<1>6. ASSUME NEW s \in Speeches, Resume(s) PROVE BargeInSilences'
  BY <1>6, ReportedKept DEF Resume
<1>7. ASSUME NEW s \in Speeches, NoAudio(s) PROVE BargeInSilences'
  BY <1>7, ReportedKept DEF NoAudio
<1>8. ASSUME NEW s \in Speeches, PushFrame(s) PROVE BargeInSilences'
  <2>1. /\ Live(s) /\ \A r \in Speeches : Live(r)' <=> Live(r)
        /\ \A r : Ended(r)' <=> Ended(r)
    BY SMTT(20), <1>8, FramePushed, ReportedKept
  <2>2. \A i \in DOMAIN queue' : queue'[i] = s \/ \E j \in DOMAIN queue : queue'[i] = queue[j]
    BY <1>8, PlayerQueues
  <2>3. \A r \in Speeches : s < r => ~Live(r)
    BY <2>1 DEF OneAfterAnother
  <2> SUFFICES ASSUME NEW r \in Speeches, NEW q \in Speeches, r < q, Live(q), ~Ended(r),
                      NEW i \in DOMAIN queue'
               PROVE  queue'[i] # r
    BY <2>1
  <2>4. \A j \in DOMAIN queue : queue[j] # r
    OBVIOUS
  <2>5. CASE queue'[i] = s
    BY <2>3, <2>5
  <2>6. CASE \E j \in DOMAIN queue : queue'[i] = queue[j]
    BY <2>4, <2>6
  <2> QED BY <2>2, <2>5, <2>6
<1>9. ASSUME NEW s \in Speeches, PushTail(s) PROVE BargeInSilences'
  <2>1. /\ Live(s) /\ \A r \in Speeches : Live(r)' <=> Live(r)
        /\ \A r : Ended(r)' <=> Ended(r)
    BY SMTT(20), <1>9, TailPushed, ReportedKept
  <2>2. \A i \in DOMAIN queue' : queue'[i] = s \/ \E j \in DOMAIN queue : queue'[i] = queue[j]
    BY <1>9, PlayerQueues
  <2>3. \A r \in Speeches : s < r => ~Live(r)
    BY <2>1 DEF OneAfterAnother
  <2> SUFFICES ASSUME NEW r \in Speeches, NEW q \in Speeches, r < q, Live(q), ~Ended(r),
                      NEW i \in DOMAIN queue'
               PROVE  queue'[i] # r
    BY <2>1
  <2>4. \A j \in DOMAIN queue : queue[j] # r
    OBVIOUS
  <2>5. CASE queue'[i] = s
    BY <2>3, <2>5
  <2>6. CASE \E j \in DOMAIN queue : queue'[i] = queue[j]
    BY <2>4, <2>6
  <2> QED BY <2>2, <2>5, <2>6
<1>10. ASSUME NEW s \in Speeches, Starve(s) PROVE BargeInSilences'
  BY <1>10, ReportedKept DEF Starve
<1>11. ASSUME NEW s \in Speeches, Fail(s) PROVE BargeInSilences'
  BY <1>11, ReportedKept DEF Fail
<1>12. ASSUME NEW s \in Speeches, Drained(s) PROVE BargeInSilences'
  <2>1. \A r : r \in Reported("tts.finished")' <=> r \in Reported("tts.finished") \/ r = s
    BY <1>12, ReportAdds DEF Drained
  <2>2. \A r : r \in Reported("tts.error")' <=> r \in Reported("tts.error")
    BY <1>12, ReportAdds DEF Drained
  <2> QED BY <1>12, <2>1, <2>2 DEF Drained
<1>13. ASSUME NEW s \in Speeches, Finished(s) PROVE BargeInSilences'
  BY <1>13, ReportedKept DEF Finished
<1>14. ASSUME NEW s \in Speeches, ReportError(s) PROVE BargeInSilences'
  <2>1. \A r : r \in Reported("tts.finished")' <=> r \in Reported("tts.finished")
    BY <1>14, ReportAdds DEF ReportError
  <2>2. \A r : r \in Reported("tts.error")' <=> r \in Reported("tts.error") \/ r = s
    BY <1>14, ReportAdds DEF ReportError
  <2> QED BY <1>14, <2>1, <2>2 DEF ReportError
<1>15. ASSUME NEW s \in Speeches, Leave(s) PROVE BargeInSilences'
  BY <1>15, ReportedKept DEF Leave
<1>16. ASSUME NEW s \in Speeches, Unwind(s) PROVE BargeInSilences'
  BY <1>16, EmptyQueue, ReportedKept DEF Unwind, ClearAudioBuffer
<1>17. CASE SenderTakes
  <2>1. \A i \in DOMAIN queue' : \E j \in DOMAIN queue : queue'[i] = queue[j]
    BY <1>17, SenderDequeues
  <2>2. UNCHANGED <<player, events>>
    BY <1>17 DEF SenderTakes
  <2>3. \A x : Reported(x)' = Reported(x)
    BY <2>2, ReportedKept
  <2> QED BY <2>1, <2>2, <2>3
<1>18. CASE UNCHANGED <<player, queue, events>>
  BY <1>18, ReportedKept
<1> QED
  BY <1>1, <1>2, <1>3, <1>4, <1>5, <1>6, <1>7, <1>8, <1>9, <1>10, <1>11, <1>12, <1>13, <1>14,
     <1>15, <1>16, <1>17, <1>18
  DEF Next, Play, Produce, StreamEnds, Captured, vars

LEMMA OneAtATimeStep == ASSUME IndInv, TypeOK', [Next]_vars PROVE OneAtATime'
<1> USE DEF IndInv, TypeOK, Live, bufferVars, receiverVars, OneAtATime
<1>1. ASSUME NEW s \in Speeches, Started(s) PROVE OneAtATime'
  BY <1>1, ReportsInOrder DEF Started
<1>2. ASSUME NEW s \in Speeches, Drained(s) PROVE OneAtATime'
  BY <1>2, ReportsInOrder DEF Drained
<1>3. ASSUME NEW s \in Speeches, ReportError(s) PROVE OneAtATime'
  BY <1>3, ReportsInOrder DEF ReportError
<1>4. CASE UNCHANGED events
  BY <1>4
<1> QED
  BY <1>1, <1>2, <1>3, <1>4
  DEF Next, Play, Speak, Barge, Stop, StopReceiver, Produce, StreamEnds, Resume, NoAudio,
      PushFrame, PushTail, Starve, Fail, Finished, Leave, Unwind, SenderTakes, Captured, vars

-----------------------------------------------------------------------------
(* The theorems.                                                           *)

LEMMA IndInit == ASSUME Init PROVE IndInv
<1> USE DEF Init, None
<1>1. events = <<>> /\ DOMAIN events = {} /\ events \in Seq(Event)
  OBVIOUS
<1>2. TypeOK
  BY <1>1, Constants, EmptyQueue DEF TypeOK
<1>3. OneAfterAnother /\ StreamInPlace /\ RefusedInPlace /\ LoopInPlace
  BY DEF OneAfterAnother, StreamInPlace, RefusedInPlace, LoopInPlace
<1>4. SamplesAccounted
  <2>1. Upsampled(0) = 0 /\ Even(0)
    BY DEF Upsampled, Even
  <2> QED BY <2>1 DEF SamplesAccounted, Accounted
<1>5. \A x : Reported(x) = {}
  BY <1>1 DEF Reported
<1>6. ReportsInPlace /\ NoneReportedNew /\ ReportsAreTrue /\ OneAtATime
  BY <1>1, <1>5 DEF ReportsInPlace, NoneReportedNew, ReportsAreTrue, OneAtATime
<1>7. QueueAccounted /\ BargeInSilences /\ StopSilences
  BY EmptyQueue DEF QueueAccounted, BargeInSilences, StopSilences
<1> QED BY <1>2, <1>3, <1>4, <1>6, <1>7 DEF IndInv

\* The invariant holds of every reachable state.
THEOREM PlayoutInvCorrect == Spec => []IndInv
<1>1. Init => IndInv
  BY IndInit
<1>2. IndInv /\ [Next]_vars => IndInv'
  BY TypeStep, OneAfterAnotherStep, StreamInPlaceStep, SamplesAccountedStep, RefusedInPlaceStep,
     ReportsInPlaceStep, NoneReportedNewStep, LoopInPlaceStep, QueueAccountedStep, ReportsAreTrueStep,
     BargeInSilencesStep, OneAtATimeStep, StopSilencesStep DEF IndInv
<1> QED BY <1>1, <1>2, PTL DEF Spec

\* What is reported of a speech is what happened to it, whatever the length of
\* the speech, of the pre-buffer and of the (even) frame: finished means pushed to
\* the last sample, unless Agora refused a frame of it.
THEOREM TrueReports == Spec => []ReportsAreTrue
<1>1. IndInv => ReportsAreTrue
  BY DEF IndInv
<1> QED BY <1>1, PlayoutInvCorrect, PTL

\* Barge-in leaves nothing of an earlier speech in the queue.
THEOREM BargeInIsSilent == Spec => []BargeInSilences
<1>1. IndInv => BargeInSilences
  BY DEF IndInv
<1> QED BY <1>1, PlayoutInvCorrect, PTL

\* Speeches are reported one after another.
THEOREM SpeechesInOrder == Spec => []OneAtATime
<1>1. IndInv => OneAtATime
  BY DEF IndInv
<1> QED BY <1>1, PlayoutInvCorrect, PTL

\* A session that has stopped is silent.
THEOREM StoppedIsSilent == Spec => []StopSilences
<1>1. IndInv => StopSilences
  BY DEF IndInv
<1> QED BY <1>1, PlayoutInvCorrect, PTL
=============================================================================
