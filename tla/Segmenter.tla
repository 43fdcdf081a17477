----------------------------- MODULE Segmenter -----------------------------
(***************************************************************************)
(* The PCM segmenter (bridge/bridge/segmenter.py): frames of audio come    *)
(* in, utterances go out.  A pre-roll of recent frames is kept so that the *)
(* beginning of speech, noticed late, is not lost; silence, a maximum      *)
(* length or a manual commit ends an utterance.                            *)
(*                                                                         *)
(* A frame is a number, its position in the stream; frames holds what the  *)
(* stream has brought, preRoll and utterance the frames in the two buffers *)
(* and preRollMs and utteranceMs how long they last, by the count the code *)
(* keeps.                                                                  *)
(***************************************************************************)
EXTENDS Integers, Sequences, SequencesExt

CONSTANTS
    FrameMs,          \* the durations a frame may have
    PreRoll,          \* pre_roll_ms, 240
    SpeechStart,      \* speech_start_ms, 140
    SpeechEnd,        \* speech_end_ms, 650
    PartialInterval,  \* partial_interval_ms, 1100
    MaxUtterance,     \* max_utterance_ms, 15000
    MaxFrames         \* bound on the stream

ASSUME NumbersAssumption ==
    /\ FrameMs \subseteq Nat \ {0}
    /\ {PreRoll, SpeechStart, SpeechEnd, PartialInterval, MaxUtterance, MaxFrames} \subseteq Nat
    /\ SpeechStart > 0 /\ SpeechEnd > 0 /\ PreRoll < MaxUtterance

\* The pre-roll holds the speech that starts an utterance: SpeechStart ms and
\* at most a frame more.  With the defaults, frames of up to 100 ms; RTC
\* frames have 10 or 20.
ASSUME PreRollAssumption == \A ms \in FrameMs : SpeechStart + ms <= PreRoll + 1

VARIABLES
    frames,       \* the stream so far: duration, voice and place of each frame
    active,       \* _active
    preRoll,      \* _pre_roll
    preRollMs,    \* _pre_roll_duration_ms
    candidateMs,  \* _speech_candidate_ms
    startedAt,    \* the frame of _speech_candidate_started_ns, then of _speech_started_ns
    silenceMs,    \* _silence_ms
    utterance,    \* _utterance
    utteranceMs,  \* _utterance_ms
    partialMs,    \* _last_partial_ms
    index,        \* _utterance_index
    nextIndex,    \* _next_utterance_index
    event,        \* what the last call returned
    finals        \* the frames of every final so far

vars == <<frames, active, preRoll, preRollMs, candidateMs, startedAt, silenceMs, utterance,
          utteranceMs, partialMs, index, nextIndex, event, finals>>

Utt == INSTANCE Utterances WITH open <- index, count <- nextIndex - 1

\* A frame lasts ms, and begins when the stream has lasted at.
Frame == [ms : FrameMs, voiced : BOOLEAN, at : Nat]

Until(frame) == frame.at + frame.ms

\* How long the stream has lasted.
Elapsed == IF frames = <<>> THEN 0 ELSE Until(Last(frames))

Init ==
    /\ frames = <<>> /\ active = FALSE /\ preRoll = <<>> /\ preRollMs = 0
    /\ candidateMs = 0 /\ startedAt = 0 /\ silenceMs = 0
    /\ utterance = <<>> /\ utteranceMs = 0 /\ partialMs = 0
    /\ index = 0 /\ nextIndex = 1
    /\ event = Utt!Nothing /\ finals = <<>>

\* Mutant: a buffer of just the right length is cut as well.
PushPreRollShort(stream, n) ==
    LET grown == Append(preRoll, n)
        longMs == preRollMs + stream[n].ms
        Gone(k) == stream[grown[k]].at - stream[grown[1]].at
        removed == Cardinality({k \in DOMAIN grown : longMs - Gone(k) >= PreRoll})
    IN [buffer |-> SubSeq(grown, removed + 1, Len(grown)),
        ms |-> longMs - (IF removed = 0 THEN 0
                         ELSE Gone(removed) + stream[grown[removed]].ms)]

\* _push_pre_roll: frames are removed from the front for as long as the rest,
\* when those before have gone, is too long.  The frames of a buffer follow
\* each other in the stream: what has gone lasted from the first to the k-th.
PushPreRoll(stream, n) ==
    LET grown == Append(preRoll, n)
        longMs == preRollMs + stream[n].ms
        Gone(k) == stream[grown[k]].at - stream[grown[1]].at
        removed == Cardinality({k \in DOMAIN grown : longMs - Gone(k) > PreRoll})
    IN [buffer |-> SubSeq(grown, removed + 1, Len(grown)),
        ms |-> longMs - (IF removed = 0 THEN 0
                         ELSE Gone(removed) + stream[grown[removed]].ms)]

\* reset(): what _finish leaves behind, but for the number of the next one.
Reset ==
    /\ active' = FALSE /\ preRoll' = <<>> /\ preRollMs' = 0 /\ candidateMs' = 0
    /\ startedAt' = 0 /\ silenceMs' = 0 /\ utterance' = <<>> /\ utteranceMs' = 0
    /\ partialMs' = 0 /\ index' = 0

\* Mutant: the utterance is reported and its frames stay in the pre-roll.
FinishKeeping(heard) ==
    /\ event' = [kind |-> "final", utterance |-> index]
    /\ finals' = Append(finals, heard)
    /\ active' = FALSE /\ preRoll' = <<Last(heard)>> /\ preRollMs' = 0 /\ candidateMs' = 0
    /\ startedAt' = 0 /\ silenceMs' = 0 /\ utterance' = <<>> /\ utteranceMs' = 0
    /\ partialMs' = 0 /\ index' = 0
    /\ UNCHANGED nextIndex

\* Mutant: the numbering of utterances is reset with everything else.
FinishRestarting(heard) ==
    /\ event' = [kind |-> "final", utterance |-> index]
    /\ finals' = Append(finals, heard)
    /\ Reset
    /\ nextIndex' = 0

\* _finish: the final event and a reset.
Finish(heard) ==
    /\ event' = [kind |-> "final", utterance |-> index]
    /\ finals' = Append(finals, heard)
    /\ Reset
    /\ UNCHANGED nextIndex

\* feed while no utterance is active: a voiced frame prolongs the candidate,
\* any other discards it.
Listen(frame) ==
    LET n == Len(frames) + 1
        candidate == IF frame.voiced THEN candidateMs + frame.ms ELSE 0
        begun == IF candidate = 0 THEN 0 ELSE IF candidateMs = 0 THEN n ELSE startedAt
        recent == PushPreRoll(frames', n)
    IN /\ ~active
       /\ candidateMs' = candidate
       /\ startedAt' = begun
       /\ event' = Utt!Nothing
       /\ IF candidate < SpeechStart
          THEN /\ preRoll' = recent.buffer /\ preRollMs' = recent.ms
               /\ UNCHANGED <<active, silenceMs, utterance, utteranceMs, partialMs,
                              index, nextIndex>>
          ELSE /\ active' = TRUE
               /\ index' = nextIndex /\ nextIndex' = nextIndex + 1
               /\ utterance' = recent.buffer /\ utteranceMs' = recent.ms
               /\ preRoll' = <<>> /\ preRollMs' = 0
               /\ partialMs' = recent.ms
               /\ silenceMs' = 0
       /\ UNCHANGED finals

\* feed while an utterance is active.
Record(frame) ==
    LET n == Len(frames) + 1
        heard == Append(utterance, n)
        length == utteranceMs + frame.ms
        silence == IF frame.voiced THEN 0 ELSE silenceMs + frame.ms
    IN /\ active
       /\ IF length >= MaxUtterance \/ silence >= SpeechEnd THEN Finish(heard)
          ELSE /\ utterance' = heard /\ utteranceMs' = length
               /\ silenceMs' = silence
               /\ IF frame.voiced /\ length - partialMs >= PartialInterval
                  THEN /\ partialMs' = length
                       /\ event' = [kind |-> "partial", utterance |-> index]
                  ELSE /\ event' = Utt!Nothing
                       /\ UNCHANGED partialMs
               /\ UNCHANGED <<active, preRoll, preRollMs, candidateMs, startedAt, index,
                              nextIndex, finals>>

\* feed: whole samples only, voiced if loud enough.
Feed(frame) ==
    /\ Len(frames) < MaxFrames
    /\ frames' = Append(frames, frame)
    /\ Listen(frame) \/ Record(frame)

\* commit: nothing happens unless an utterance is active and has frames.
Commit ==
    /\ IF active /\ utterance # <<>> THEN Finish(utterance)
       ELSE /\ event' = Utt!Nothing
            /\ UNCHANGED <<active, preRoll, preRollMs, candidateMs, startedAt, silenceMs,
                           utterance, utteranceMs, partialMs, index, nextIndex, finals>>
    /\ UNCHANGED frames

Next ==
    \/ Commit
    \/ \E ms \in FrameMs, voiced \in BOOLEAN :
          Feed([ms |-> ms, voiced |-> voiced, at |-> Elapsed])

Spec == Init /\ [][Next]_vars

-----------------------------------------------------------------------------
(* Properties.                                                             *)

Buffer == Seq(1 .. Len(frames))

\* Every variable stays in its range.
TypeOK ==
    /\ frames \in Seq(Frame)
    /\ active \in BOOLEAN
    /\ preRoll \in Buffer /\ utterance \in Buffer /\ finals \in Seq(Buffer)
    /\ {preRollMs, candidateMs, silenceMs, utteranceMs, partialMs, startedAt, index} \subseteq Nat
    /\ nextIndex \in Nat \ {0}
    /\ event \in [kind : {"none", "partial", "final"}, utterance : Nat]

\* Everything handed on, in the order it was: the utterances reported, then the
\* one being recorded and the pre-roll of the next.
HandedOn == finals \o <<utterance, preRoll>>

\* A stretch of the stream.
Gapless(u) == \A i \in 1 .. Len(u) - 1 : u[i + 1] = u[i] + 1

\* All frames of u come before all of v.
Precedes(u, v) == \A i \in DOMAIN u, j \in DOMAIN v : u[i] < v[j]

\* No frame is reported twice, moved or left out of the middle of an utterance,
\* though it may pass through both buffers and through several cuts.
InOrderWithoutGaps ==
    /\ \A a \in DOMAIN HandedOn : Gapless(HandedOn[a])
    /\ \A a, b \in DOMAIN HandedOn : a < b => Precedes(HandedOn[a], HandedOn[b])

\* The frames that an utterance holds.
Kept == {n \in DOMAIN frames :
            \/ \E i \in DOMAIN utterance : utterance[i] = n
            \/ \E a \in DOMAIN finals : \E i \in DOMAIN finals[a] : finals[a][i] = n}

\* Voice that lasts long enough to be speech is never lost: every run of
\* voiced frames that no utterance holds is shorter than SpeechStart, and an
\* utterance holds its speech from the first frame of it.
SpeechKept ==
    /\ \A i, j \in DOMAIN frames :
          i <= j /\ (\A n \in i .. j : frames[n].voiced /\ n \notin Kept)
          => Until(frames[j]) - frames[i].at < SpeechStart
    /\ active => \E i \in DOMAIN utterance : utterance[i] = startedAt

\* The segmenter keeps the promise of Utterances.
ImplementsUtterances == Utt!UttSpec
=============================================================================
