-------------------------- MODULE Segmenter_proofs --------------------------
(***************************************************************************)
(* What is proved of the segmenter for any thresholds that satisfy the     *)
(* assumptions, any stream of frames and any moments of commits: no frame  *)
(* is lost where it matters, and the promise that Recognition relies on is *)
(* kept.                                                                   *)
(***************************************************************************)
EXTENDS Segmenter, FiniteSetTheorems, SequenceTheorems, TLAPS

-----------------------------------------------------------------------------
(* The inductive invariant.                                                *)

\* Frames follow each other, each from where the one before it ended.
StreamInPlace ==
    /\ \A n \in DOMAIN frames : n < Len(frames) => frames[n + 1].at = Until(frames[n])
    /\ \A m, n \in DOMAIN frames : m < n => Until(frames[m]) <= frames[n].at

\* A buffer holds the last frames of the stream, and is as long as is counted.
EndsAt(u, n) == Len(u) <= n /\ \A i \in DOMAIN u : u[i] = n - Len(u) + i

Lasts(u, ms) == IF u = <<>> THEN ms = 0 ELSE ms = Elapsed - frames[u[1]].at

BuffersInPlace ==
    /\ EndsAt(preRoll, Len(frames)) /\ EndsAt(utterance, Len(frames))
    /\ Lasts(preRoll, preRollMs) /\ Lasts(utterance, utteranceMs)
    /\ IF active THEN preRoll = <<>> ELSE utterance = <<>>

\* What was reported lies behind what is in the buffers, without gaps.
FinalsBehind ==
    /\ \A a \in DOMAIN finals :
          Gapless(finals[a]) /\ Precedes(finals[a], utterance) /\ Precedes(finals[a], preRoll)
    /\ \A a, b \in DOMAIN finals : a < b => Precedes(finals[a], finals[b])

\* A frame at which no run of lost voice goes on.
Ends(n) == n = 0 \/ ~frames[n].voiced \/ n \in Kept

\* The candidate is the run of voice at the end of the stream, and all of it is
\* in the pre-roll, or in the utterance that it has opened.
CandidateHeld ==
    /\ ~active /\ candidateMs = 0 => Ends(Len(frames))
    /\ ~active /\ candidateMs # 0 =>
          /\ startedAt \in 1 .. Len(frames) /\ Len(frames) - Len(preRoll) < startedAt
          /\ candidateMs = Elapsed - frames[startedAt].at
          /\ candidateMs < SpeechStart
          /\ Ends(startedAt - 1)
    /\ active => startedAt \in 1 .. Len(frames) /\ Len(frames) - Len(utterance) < startedAt

\* The first part of SpeechKept.
RunsAreShort ==
    \A i, j \in DOMAIN frames :
        i <= j /\ (\A n \in i .. j : frames[n].voiced /\ n \notin Kept)
        => Until(frames[j]) - frames[i].at < SpeechStart

IndInv ==
    /\ TypeOK
    /\ StreamInPlace /\ BuffersInPlace /\ FinalsBehind
    /\ CandidateHeld /\ RunsAreShort

-----------------------------------------------------------------------------
(* What the operators do.                                                  *)

\* The thresholds are numbers.
LEMMA Thresholds ==
    /\ PreRoll \in Nat /\ SpeechStart \in Nat /\ MaxUtterance \in Nat
    /\ SpeechStart > 0
    /\ \A ms \in FrameMs : ms \in Nat /\ ms > 0 /\ SpeechStart + ms <= PreRoll + 1
BY NumbersAssumption, PreRollAssumption

\* A frame has its times.
LEMMA FrameTyped ==
    \A f \in Frame :
        /\ f.at \in Nat /\ f.ms \in Nat /\ f.ms > 0
        /\ Until(f) = f.at + f.ms /\ Until(f) \in Nat
BY Thresholds DEF Until, Frame

\* The range of a buffer, and where the last frame stands.
LEMMA BufferRange ==
    ASSUME TypeOK
    PROVE  /\ Len(frames) \in Nat /\ DOMAIN frames = 1 .. Len(frames)
           /\ \A n \in DOMAIN frames : frames[n] \in Frame
           /\ \A u \in {preRoll, utterance} :
                 /\ u \in Seq(1 .. Len(frames)) /\ Len(u) \in Nat /\ DOMAIN u = 1 .. Len(u)
                 /\ u = <<>> <=> Len(u) = 0
           /\ finals \in Seq(Seq(1 .. Len(frames)))
           /\ Len(finals) \in Nat /\ DOMAIN finals = 1 .. Len(finals)
           /\ \A a \in DOMAIN finals :
                 /\ finals[a] \in Seq(1 .. Len(frames)) /\ Len(finals[a]) \in Nat
                 /\ DOMAIN finals[a] = 1 .. Len(finals[a])
                 /\ \A i \in DOMAIN finals[a] : finals[a][i] \in 1 .. Len(frames)
           /\ {preRollMs, candidateMs, utteranceMs, startedAt} \subseteq Nat
           /\ Elapsed \in Nat
           /\ Elapsed = IF Len(frames) = 0 THEN 0 ELSE Until(frames[Len(frames)])
<1> USE DEF TypeOK, Buffer
<1>1. Len(frames) \in Nat /\ DOMAIN frames = 1 .. Len(frames) /\ (frames = <<>> <=> Len(frames) = 0)
  OBVIOUS
<1>2. \A n \in DOMAIN frames : frames[n] \in Frame
  OBVIOUS
<1>3. ASSUME NEW u \in {preRoll, utterance}
      PROVE  /\ u \in Seq(1 .. Len(frames)) /\ Len(u) \in Nat /\ DOMAIN u = 1 .. Len(u)
             /\ u = <<>> <=> Len(u) = 0
  <2> DEFINE S == 1 .. Len(frames)
  <2>1. u \in Seq(S)
    BY <1>3
  <2> HIDE DEF S
  <2>2. Len(u) \in Nat /\ DOMAIN u = 1 .. Len(u) /\ (u = <<>> <=> Len(u) = 0)
    BY <2>1
  <2> QED
    BY <2>1, <2>2 DEF S
<1>4. ASSUME NEW a \in DOMAIN finals
      PROVE  /\ finals[a] \in Seq(1 .. Len(frames)) /\ Len(finals[a]) \in Nat
             /\ DOMAIN finals[a] = 1 .. Len(finals[a])
             /\ \A i \in DOMAIN finals[a] : finals[a][i] \in 1 .. Len(frames)
  <2> DEFINE S == 1 .. Len(frames)
             u == finals[a]
  <2>1. u \in Seq(S)
    BY <1>4
  <2> HIDE DEF S, u
  <2>2. Len(u) \in Nat /\ DOMAIN u = 1 .. Len(u)
    BY <2>1, LenProperties
  <2>3. \A i \in DOMAIN u : u[i] \in S
    BY <2>1, <2>2, ElementOfSeq
  <2> QED
    BY <2>1, <2>2, <2>3 DEF S, u
<1>5. finals \in Seq(Seq(1 .. Len(frames))) /\ Len(finals) \in Nat
      /\ DOMAIN finals = 1 .. Len(finals)
  OBVIOUS
<1>6. Elapsed = IF Len(frames) = 0 THEN 0 ELSE Until(frames[Len(frames)])
  <2>1. Len(frames) # 0 => Last(frames) = frames[Len(frames)]
    BY DEF Last
  <2> QED
    BY <1>1, <2>1 DEF Elapsed
<1>7. Elapsed \in Nat
  <2>1. \A f \in Frame : Until(f) \in Nat
    BY FrameTyped
  <2> QED
    BY <1>1, <1>2, <1>6, <2>1
<1> QED
  BY <1>1, <1>2, <1>3, <1>4, <1>5, <1>6, <1>7

\* What feed does to the stream.
Arrives(frame) ==
    /\ frame \in Frame /\ frame.at = Elapsed
    /\ frames' = Append(frames, frame)

\* The stream grows at its end, by what the frame lasts.
LEMMA StreamGrows ==
    ASSUME TypeOK, StreamInPlace, NEW frame, Arrives(frame)
    PROVE  /\ frames' \in Seq(Frame) /\ Len(frames') = Len(frames) + 1
           /\ DOMAIN frames' = 1 .. Len(frames) + 1
           /\ frames'[Len(frames) + 1] = frame
           /\ \A m \in DOMAIN frames : m \in DOMAIN frames' /\ frames'[m] = frames[m]
           /\ Elapsed' = Elapsed + frame.ms
           /\ \A m \in DOMAIN frames : Until(frames[m]) <= Elapsed
           /\ StreamInPlace'
<1> DEFINE L == Len(frames)
<1>1. L \in Nat /\ DOMAIN frames = 1 .. L /\ \A n \in DOMAIN frames : frames[n] \in Frame
  BY BufferRange
<1>2. /\ frames' \in Seq(Frame) /\ Len(frames') = L + 1 /\ DOMAIN frames' = 1 .. L + 1
      /\ frames'[L + 1] = frame /\ \A m \in DOMAIN frames : frames'[m] = frames[m]
  BY DEF Arrives, TypeOK
<1>3. \A f \in Frame : f.at \in Nat /\ f.ms \in Nat /\ Until(f) \in Nat /\ f.at <= Until(f)
  BY FrameTyped
<1>4. Elapsed' = Elapsed + frame.ms
  <2>1. frames' # <<>> /\ Last(frames') = frame
    BY <1>1, <1>2 DEF Last
  <2>2. Elapsed' = Until(frame)
    BY <2>1 DEF Elapsed
  <2> QED
    BY <2>2 DEF Until, Arrives
<1>5. \A m \in DOMAIN frames : Until(frames[m]) <= Elapsed
  <2> TAKE m \in DOMAIN frames
  <2>1. Elapsed = Until(frames[L])
    BY <1>1, BufferRange
  <2>2. CASE m = L
    BY <1>1, <1>3, <2>1, <2>2
  <2>3. CASE m < L
    <3>1. Until(frames[m]) <= frames[L].at
      BY <1>1, <2>3 DEF StreamInPlace
    <3> QED
      BY <1>1, <1>3, <2>1, <3>1
  <2> QED
    BY <1>1, <2>2, <2>3
<1>6. frame.at = Elapsed
  BY DEF Arrives
<1>7. \A m \in DOMAIN frames' : m < L + 1 => frames'[m + 1].at = Until(frames'[m])
  <2> SUFFICES ASSUME NEW m \in 1 .. L PROVE frames'[m + 1].at = Until(frames[m])
    BY <1>1, <1>2
  <2>1. CASE m = L
    BY <1>1, <1>2, <1>6, <2>1, BufferRange
  <2>2. CASE m < L
    <3>1. m \in DOMAIN frames /\ m + 1 \in DOMAIN frames
      BY <1>1, <2>2
    <3>2. frames[m + 1].at = Until(frames[m])
      BY <2>2, <3>1 DEF StreamInPlace
    <3> QED
      BY <1>2, <3>1, <3>2
  <2>3. m = L \/ m < L
    <3>1. L \in Nat
      BY <1>1
    <3> QED
      BY <3>1
  <2> QED
    BY <2>1, <2>2, <2>3
<1>8. \A m, n \in DOMAIN frames' : m < n => Until(frames'[m]) <= frames'[n].at
  <2> SUFFICES ASSUME NEW m \in 1 .. L, NEW n \in 1 .. L + 1, m < n
               PROVE  Until(frames[m]) <= frames'[n].at
    BY <1>1, <1>2
  <2>1. CASE n = L + 1
    BY <1>1, <1>2, <1>5, <1>6, <2>1
  <2>2. CASE n \in 1 .. L
    BY <1>1, <1>2, <2>2 DEF StreamInPlace
  <2> QED
    BY <1>1, <2>1, <2>2
<1>9. StreamInPlace'
  BY <1>2, <1>7, <1>8 DEF StreamInPlace
<1> QED
  BY <1>1, <1>2, <1>4, <1>5, <1>9

\* A buffer at the end of the stream is known by its length.
LEMMA AppendEnds ==
    ASSUME NEW n \in Nat, NEW u \in Seq(1 .. n), EndsAt(u, n)
    PROVE  /\ Append(u, n + 1) \in Seq(1 .. n + 1)
           /\ Len(Append(u, n + 1)) = Len(u) + 1
           /\ Append(u, n + 1)[Len(u) + 1] = n + 1
           /\ EndsAt(Append(u, n + 1), n + 1)
<1> DEFINE S == 1 .. n
           T == 1 .. n + 1
           g == Append(u, n + 1)
<1>1. u \in Seq(T)
  BY SeqMonotonic
<1>2. n + 1 \in T
  OBVIOUS
<1> HIDE DEF T
<1>3. /\ g \in Seq(T) /\ Len(g) = Len(u) + 1 /\ DOMAIN g = 1 .. Len(u) + 1 /\ Len(u) \in Nat
      /\ \A i \in 1 .. Len(u) : g[i] = u[i]
      /\ g[Len(u) + 1] = n + 1 /\ DOMAIN u = 1 .. Len(u)
  BY <1>1, <1>2
<1>4. EndsAt(g, n + 1)
  <2> HIDE DEF g
  <2> SUFFICES ASSUME NEW i \in 1 .. Len(u) + 1 PROVE g[i] = n + 1 - Len(g) + i
    BY <1>3 DEF EndsAt
  <2>1. CASE i = Len(u) + 1
    BY <1>3, <2>1
  <2>2. CASE i \in 1 .. Len(u)
    <3>1. g[i] = u[i] /\ u[i] = n - Len(u) + i
      BY <1>3, <2>2 DEF EndsAt
    <3>2. Len(u) \in Nat /\ Len(g) = Len(u) + 1
      BY <1>3
    <3> QED
      BY <2>2, <3>1, <3>2
  <2> QED
    BY <1>3, <2>1, <2>2
<1> QED
  BY <1>3, <1>4 DEF T

\* So is the end of it.
LEMMA SuffixEnds ==
    ASSUME NEW n \in Nat, NEW g \in Seq(1 .. n), EndsAt(g, n), NEW r \in 0 .. Len(g)
    PROVE  LET u == SubSeq(g, r + 1, Len(g)) IN
           /\ u \in Seq(1 .. n) /\ Len(u) = Len(g) - r
           /\ EndsAt(u, n)
<1> DEFINE S == 1 .. n
           u == SubSeq(g, r + 1, Len(g))
<1>1. g \in Seq(S)
  OBVIOUS
<1> HIDE DEF S
<1>2. Len(g) \in Nat /\ DOMAIN g = 1 .. Len(g) /\ \A i \in DOMAIN g : g[i] \in S
  BY <1>1
<1>3. /\ u \in Seq(S) /\ Len(u) = IF r + 1 <= Len(g) THEN Len(g) - (r + 1) + 1 ELSE 0
      /\ \A i \in 1 .. Len(g) - (r + 1) + 1 : u[i] = g[r + 1 + i - 1]
  <2>1. \A i \in r + 1 .. Len(g) : g[i] \in S
    BY <1>2
  <2> QED
    BY <1>2, <2>1, SubSeqProperties
<1> HIDE DEF u
<1>4. Len(u) = Len(g) - r /\ DOMAIN u = 1 .. Len(u)
  <2>1. DOMAIN u = 1 .. Len(u)
    BY <1>3, LenProperties
  <2>2. r \in Nat /\ r <= Len(g)
    BY <1>2
  <2>3. Len(g) \in Nat /\ Len(u) = IF r + 1 <= Len(g) THEN Len(g) - (r + 1) + 1 ELSE 0
    BY <1>2, <1>3
  <2>4. Len(u) = Len(g) - r
    BY <2>2, <2>3
  <2> QED
    BY <2>1, <2>4
<1>5. \A i \in 1 .. Len(u) : u[i] = g[r + i]
  <2> TAKE i \in 1 .. Len(u)
  <2>1. r \in Nat /\ i \in 1 .. Len(g) - (r + 1) + 1 /\ r + 1 + i - 1 = r + i
    BY <1>2, <1>4
  <2>2. u[i] = g[r + 1 + i - 1]
    BY <1>3, <2>1
  <2> QED
    BY <2>1, <2>2
<1>6. EndsAt(u, n)
  <2> SUFFICES ASSUME NEW i \in 1 .. Len(u) PROVE u[i] = n - Len(u) + i
    BY <1>2, <1>4 DEF EndsAt
  <2>1. g[r + i] = n - Len(g) + (r + i)
    <3>1. r + i \in DOMAIN g
      BY <1>2, <1>4
    <3> QED
      BY <3>1 DEF EndsAt
  <2> QED
    BY <1>2, <1>4, <1>5, <2>1
<1> QED
  BY <1>3, <1>4, <1>6 DEF S, u

\* _push_pre_roll keeps the end of the buffer, with the frame that came, from
\* wherever it is short enough, and counts right how long it lasts.
LEMMA PushKeeps ==
    ASSUME TypeOK, StreamInPlace, BuffersInPlace, NEW frame, Arrives(frame),
           NEW p, p = PushPreRoll(frames', Len(frames) + 1)
    PROVE  /\ p.buffer \in Seq(1 .. Len(frames) + 1) /\ p.ms \in Nat
           /\ EndsAt(p.buffer, Len(frames) + 1) /\ Len(p.buffer) <= Len(preRoll) + 1
           /\ p.ms = IF p.buffer = <<>> THEN 0 ELSE Elapsed' - frames'[p.buffer[1]].at
           /\ \A m \in (Len(frames) + 1) - Len(preRoll) .. Len(frames) + 1 :
                 Elapsed' - frames'[m].at <= PreRoll
                 => (Len(frames) + 1) - Len(p.buffer) < m
<1> DEFINE L == Len(frames)
           n == L + 1
           g == Append(preRoll, n)
           G == Len(g)
           longMs == preRollMs + frames'[n].ms
           Gone(k) == frames'[g[k]].at - frames'[g[1]].at
           long == {k \in DOMAIN g : longMs - Gone(k) > PreRoll}
           r == Cardinality(long)
<1>1. /\ L \in Nat /\ DOMAIN frames = 1 .. L /\ preRoll \in Seq(1 .. L) /\ preRollMs \in Nat
      /\ Len(preRoll) \in Nat /\ Elapsed \in Nat /\ (preRoll = <<>> <=> Len(preRoll) = 0)
  BY BufferRange
<1>2. EndsAt(preRoll, L)
  BY DEF BuffersInPlace
<1>3. /\ g \in Seq(1 .. n) /\ G = Len(preRoll) + 1 /\ g[G] = n /\ EndsAt(g, n)
  BY <1>1, <1>2, AppendEnds
<1>4. DOMAIN g = 1 .. G /\ G \in Nat /\ \A k \in 1 .. G : g[k] = n - G + k /\ g[k] \in 1 .. n
  <2>1. DOMAIN g = 1 .. G
    BY <1>3, LenProperties
  <2> HIDE DEF g
  <2>2. G \in Nat /\ G <= n
    BY <1>1, <1>3 DEF EndsAt
  <2>3. \A k \in 1 .. G : g[k] = n - G + k
    BY <1>3, <2>1 DEF EndsAt
  <2> QED
    BY <1>1, <2>1, <2>2, <2>3
<1>5. /\ DOMAIN frames' = 1 .. n /\ frames'[n] = frame /\ Elapsed' = Elapsed + frame.ms
      /\ \A m \in DOMAIN frames : frames'[m] = frames[m]
      /\ \A m \in 1 .. n : frames'[m] \in Frame
  <2>1. frames' \in Seq(Frame) /\ Len(frames') = n /\ DOMAIN frames' = 1 .. n
    BY StreamGrows
  <2>2. \A m \in 1 .. n : frames'[m] \in Frame
    BY <2>1
  <2> QED
    BY <2>1, <2>2, StreamGrows
<1>6. \A f \in Frame : f.at \in Nat /\ f.ms \in Nat /\ Until(f) = f.at + f.ms
  BY FrameTyped
<1>7. \A m \in 1 .. L : frames'[m + 1].at = Until(frames'[m])
  <2>1. StreamInPlace' /\ Len(frames') = n
    BY StreamGrows
  <2> TAKE m \in 1 .. L
  <2>2. m \in DOMAIN frames' /\ m < Len(frames')
    BY <1>1, <1>5, <2>1
  <2> QED
    BY <2>1, <2>2 DEF StreamInPlace
<1>8. \A a, b \in 1 .. n : a < b => frames'[a].at + frames'[a].ms <= frames'[b].at
  <2>1. StreamInPlace'
    BY StreamGrows
  <2> QED
    BY <1>5, <1>6, <2>1 DEF StreamInPlace
<1>9. /\ frame.at = Elapsed /\ frame.ms \in Nat /\ Elapsed' \in Nat /\ n \in 1 .. n
      /\ \A m \in 1 .. n : frames'[m].at \in Nat /\ frames'[m].ms \in Nat
  <2>1. frame.at = Elapsed /\ frame \in Frame
    BY DEF Arrives
  <2>2. n \in 1 .. n
    BY <1>1
  <2> QED
    BY <1>1, <1>5, <1>6, <2>1, <2>2
<1> HIDE DEF g, G
\* What the count amounts to.
<1>10. longMs = Elapsed' - frames'[g[1]].at
  <2>1. CASE Len(preRoll) = 0
    <3>1. preRollMs = 0 /\ g[1] = n
      BY <1>1, <1>3, <1>4, <2>1 DEF BuffersInPlace, Lasts
    <3> QED
      BY <1>1, <1>5, <1>9, <3>1
  <2>2. CASE Len(preRoll) # 0
    <3>1. preRollMs = Elapsed - frames[preRoll[1]].at
      BY <1>1, <2>2 DEF BuffersInPlace, Lasts
    <3>2. preRoll[1] = L - Len(preRoll) + 1 /\ preRoll[1] \in 1 .. L
      <4>1. 1 \in DOMAIN preRoll /\ Len(preRoll) <= L
        BY <1>1, <1>2, <2>2, BufferRange DEF EndsAt
      <4> QED
        BY <1>1, <1>2, <2>2, <4>1 DEF EndsAt
    <3>3. g[1] = preRoll[1]
      BY <1>1, <1>3, <1>4, <2>2, <3>2
    <3>4. frames'[g[1]] = frames[preRoll[1]] /\ frames'[g[1]].at \in Nat
      <4>1. preRoll[1] \in 1 .. n /\ preRoll[1] \in DOMAIN frames
        BY <1>1, <3>2
      <4>2. g[1] \in 1 .. n /\ frames'[g[1]] = frames[preRoll[1]]
        BY <1>5, <3>3, <4>1
      <4> QED
        BY <1>9, <4>2
    <3>5. longMs = Elapsed - frames'[g[1]].at + frame.ms
      BY <1>5, <3>1, <3>4
    <3>6. Elapsed \in Nat /\ Elapsed' = Elapsed + frame.ms /\ frame.ms \in Nat
      BY <1>1, <1>5, <1>9
    <3> QED
      BY <3>4, <3>5, <3>6
  <2> QED
    BY <2>1, <2>2
<1>11. \A k \in 1 .. G : frames'[g[k]].at \in Nat /\ longMs - Gone(k) = Elapsed' - frames'[g[k]].at
  <2> TAKE k \in 1 .. G
  <2>1. g[k] \in 1 .. n /\ g[1] \in 1 .. n
    BY <1>1, <1>3, <1>4
  <2>2. frames'[g[k]].at \in Nat /\ frames'[g[1]].at \in Nat /\ Elapsed' \in Nat
    BY <1>9, <2>1
  <2> QED
    BY <1>10, <2>2
\* What is removed.
<1>12. IsFiniteSet(1 .. G) /\ Cardinality(1 .. G) = G
  BY <1>1, <1>3, <1>4, FS_Interval
<1>13. r \in 0 .. G
  <2>1. long \in SUBSET (1 .. G)
    BY <1>4
  <2>2. IsFiniteSet(long) /\ r <= G
    BY <1>12, <2>1, FS_Subset
  <2>3. r \in Nat
    BY <2>2, FS_CardinalityType
  <2> QED
    BY <1>4, <2>2, <2>3
<1>14. ASSUME NEW k \in 1 .. G, Elapsed' - frames'[g[k]].at <= PreRoll
       PROVE  r < k
  <2>1. ASSUME NEW j \in long PROVE j \in 1 .. k - 1
    <3>1. j \in 1 .. G /\ Elapsed' - frames'[g[j]].at > PreRoll
      BY <1>4, <1>11, <2>1
    <3>2. g[j] \in 1 .. n /\ g[k] \in 1 .. n /\ (j > k => g[k] < g[j])
      BY <1>1, <1>3, <1>4, <3>1
    <3>3. j > k => frames'[g[k]].at <= frames'[g[j]].at
      <4>1. frames'[g[k]].at \in Nat /\ frames'[g[j]].at \in Nat /\ frames'[g[k]].ms \in Nat
        BY <1>9, <3>2
      <4>2. j > k => frames'[g[k]].at + frames'[g[k]].ms <= frames'[g[j]].at
        BY <1>8, <3>2
      <4> QED
        BY <4>1, <4>2
    <3>4. ~(j >= k)
      <4>1. /\ frames'[g[j]].at \in Nat /\ frames'[g[k]].at \in Nat
            /\ Elapsed' \in Nat /\ PreRoll \in Nat
        BY <1>9, <3>2, Thresholds
      <4>2. frames'[g[j]].at < frames'[g[k]].at
        <5> DEFINE a == frames'[g[j]].at
                   b == frames'[g[k]].at
                   e == Elapsed'
        <5>1. e - b <= PreRoll /\ e - a > PreRoll
          BY <1>14, <3>1
        <5>2. a \in Nat /\ b \in Nat /\ e \in Nat /\ PreRoll \in Nat
          BY <4>1
        <5> HIDE DEF a, b, e
        <5>3. a < b
          BY <5>1, <5>2
        <5> QED
          BY <5>3 DEF a, b
      <4>3. j # k
        BY <4>1, <4>2
      <4>4. ~(j > k)
        BY <3>3, <4>1, <4>2
      <4>5. j \in Nat /\ k \in Nat
        BY <1>4, <3>1
      <4> QED
        BY <4>3, <4>4, <4>5
    <3> QED
      BY <1>4, <3>1, <3>4
  <2>2. long \in SUBSET (1 .. k - 1)
    BY <2>1
  <2>3. IsFiniteSet(1 .. k - 1) /\ Cardinality(1 .. k - 1) = k - 1
    BY <1>4, FS_Interval
  <2>4. r <= k - 1
    <3> DEFINE up == 1 .. k - 1
    <3>1. IsFiniteSet(up) /\ Cardinality(up) = k - 1 /\ long \in SUBSET up
      BY <2>2, <2>3
    <3> HIDE DEF long, up
    <3>2. Cardinality(long) <= Cardinality(up)
      BY <3>1, FS_Subset
    <3> QED
      BY <3>1, <3>2
  <2> QED
    BY <1>13, <2>4
<1> DEFINE u == p.buffer
           w == p.ms
<1>15. u = SubSeq(g, r + 1, G)
       /\ w = longMs - (IF r = 0 THEN 0 ELSE Gone(r) + frames'[g[r]].ms)
  BY DEF PushPreRoll, g, G
<1> HIDE DEF r, long, u, w
<1>16. u \in Seq(1 .. n) /\ Len(u) = G - r /\ EndsAt(u, n)
  BY <1>1, <1>3, <1>13, <1>15, SuffixEnds DEF G
<1>17. Len(u) <= Len(preRoll) + 1
  BY <1>1, <1>3, <1>13, <1>16
<1>18. (u = <<>> <=> Len(u) = 0) /\ (Len(u) # 0 => u[1] = n - Len(u) + 1)
  <2>1. DOMAIN u = 1 .. Len(u) /\ (u = <<>> <=> Len(u) = 0) /\ Len(u) \in Nat
    BY <1>16, LenProperties, EmptySeq
  <2>2. Len(u) # 0 => 1 \in DOMAIN u
    BY <2>1
  <2>3. Len(u) # 0 => u[1] = n - Len(u) + 1
    BY <1>16, <2>2 DEF EndsAt
  <2> QED
    BY <2>1, <2>3
<1>19. w = IF u = <<>> THEN 0 ELSE Elapsed' - frames'[u[1]].at
  <2>1. CASE r = 0
    <3>1. u # <<>> /\ u[1] = g[1]
      BY <1>1, <1>3, <1>4, <1>16, <1>18, <2>1
    <3>2. w = longMs
      <4>1. longMs \in Int
        BY <1>1, <1>5, <1>6
      <4> QED
        BY <1>15, <2>1, <4>1
    <3> QED
      BY <1>10, <3>1, <3>2
  <2>2. CASE r # 0
    <3>1. r \in 1 .. G
      BY <1>4, <1>13, <2>2
    <3>2. g[r] \in 1 .. n /\ g[r] = n - G + r
      BY <1>4, <3>1
    <3>3. /\ frames'[g[r]].at \in Nat /\ frames'[g[r]].ms \in Nat /\ Elapsed' \in Nat
          /\ frames'[g[1]].at \in Nat
      <4>1. g[1] \in 1 .. n
        BY <1>1, <1>3, <1>4
      <4> QED
        BY <1>9, <3>2, <4>1
    <3>4. w = Elapsed' - (frames'[g[r]].at + frames'[g[r]].ms)
      <4> DEFINE a == frames'[g[r]].at
                 b == frames'[g[1]].at
                 c == frames'[g[r]].ms
                 e == Elapsed'
      <4>1. w = longMs - ((a - b) + c)
        BY <1>15, <2>2
      <4>2. longMs = e - b
        BY <1>10
      <4>3. w = (e - b) - ((a - b) + c)
        BY <4>1, <4>2, Zenon
      <4>4. a \in Nat /\ b \in Nat /\ c \in Nat /\ e \in Nat
        BY <3>3
      <4> HIDE DEF a, b, c, e
      <4>5. w = e - (a + c)
        BY <4>3, <4>4
      <4> QED
        BY <4>5 DEF a, c, e
    <3>5. CASE r = G
      <4>1. u = <<>> /\ g[r] = n
        BY <1>4, <1>16, <1>18, <3>2, <3>5
      <4> QED
        BY <1>1, <1>5, <1>6, <1>9, <3>3, <3>4, <4>1
    <3>6. CASE r < G
      <4>1. u # <<>> /\ u[1] = g[r] + 1 /\ g[r] \in 1 .. L
        BY <1>1, <1>3, <1>4, <1>16, <1>18, <3>1, <3>2, <3>6
      <4>2. frames'[u[1]].at = Until(frames'[g[r]])
        BY <1>7, <4>1
      <4> QED
        BY <1>5, <1>6, <3>2, <3>3, <3>4, <4>1, <4>2
    <3> QED
      BY <1>4, <3>1, <3>5, <3>6
  <2> QED
    BY <2>1, <2>2
<1>20. w \in Nat
  <2>1. CASE u = <<>>
    BY <1>19, <2>1
  <2>2. CASE u # <<>>
    <3>1. u[1] \in 1 .. n /\ n \in 1 .. n
      <4>1. Len(u) \in Nat /\ Len(u) # 0 /\ Len(u) <= n
        BY <1>16, <1>18, <2>2, LenProperties DEF EndsAt
      <4>2. u[1] = n - Len(u) + 1
        BY <1>18, <4>1
      <4>3. n \in Nat
        BY <1>1
      <4> QED
        BY <4>1, <4>2, <4>3
    <3>2. frames'[u[1]].at \in Nat /\ frames'[u[1]].at <= frame.at
      <4>1. u[1] < n \/ u[1] = n
        BY <1>1, <3>1
      <4>2. frames'[u[1]].at \in Nat /\ frames'[u[1]].ms \in Nat /\ frame.at \in Nat
        BY <1>5, <1>9, <3>1
      <4>3. u[1] < n => frames'[u[1]].at + frames'[u[1]].ms <= frame.at
        BY <1>5, <1>8, <3>1
      <4> QED
        BY <1>5, <4>1, <4>2, <4>3
    <3>3. w = Elapsed' - frames'[u[1]].at
      BY <1>19, <2>2
    <3>4. /\ Elapsed' = frame.at + frame.ms
          /\ frame.at \in Nat /\ frame.ms \in Nat /\ Elapsed' \in Nat
      BY <1>5, <1>9
    <3> QED
      BY <3>2, <3>3, <3>4
  <2> QED
    BY <2>1, <2>2
<1>21. \A m \in n - Len(preRoll) .. n :
          Elapsed' - frames'[m].at <= PreRoll => n - Len(u) < m
  <2> SUFFICES ASSUME NEW m \in n - Len(preRoll) .. n, Elapsed' - frames'[m].at <= PreRoll
               PROVE  n - Len(u) < m
    OBVIOUS
  <2> DEFINE k == m - n + G
  <2>1. k \in 1 .. G /\ g[k] = m
    BY <1>1, <1>3, <1>4
  <2>2. r < k
    BY <1>14, <2>1
  <2> QED
    BY <1>1, <1>3, <1>4, <1>13, <1>16, <2>2
<1>22. /\ u \in Seq(1 .. n) /\ w \in Nat /\ EndsAt(u, n) /\ Len(u) <= Len(preRoll) + 1
       /\ w = IF u = <<>> THEN 0 ELSE Elapsed' - frames'[u[1]].at
  BY <1>16, <1>17, <1>19, <1>20
<1> QED
  BY <1>21, <1>22, Zenon DEF u, w

-----------------------------------------------------------------------------
(* What a call may do.                                                     *)

\* The buffers stay as they are.
Stays == UNCHANGED <<frames, active, preRoll, preRollMs, candidateMs, startedAt,
                     utterance, utteranceMs, finals>>

\* A frame is heard, and the pre-roll becomes p ...
Hears(frame, p) ==
    /\ Arrives(frame) /\ ~active
    /\ p = PushPreRoll(frames', Len(frames) + 1)
    /\ candidateMs' = IF frame.voiced THEN candidateMs + frame.ms ELSE 0
    /\ frame.voiced => startedAt' = IF candidateMs = 0 THEN Len(frames) + 1 ELSE startedAt
    /\ startedAt' \in {0, startedAt, Len(frames) + 1}
    /\ finals' = finals

\* ... and stays it, or opens an utterance.
Waits(p) ==
    /\ candidateMs' < SpeechStart /\ active' = FALSE
    /\ preRoll' = p.buffer /\ preRollMs' = p.ms
    /\ utterance' = utterance /\ utteranceMs' = utteranceMs

Opens(p) ==
    /\ candidateMs' >= SpeechStart /\ active' = TRUE
    /\ preRoll' = <<>> /\ preRollMs' = 0
    /\ utterance' = p.buffer /\ utteranceMs' = p.ms

\* A frame is recorded.
Takes(frame) ==
    /\ Arrives(frame) /\ active /\ active' = TRUE
    /\ utterance' = Append(utterance, Len(frames) + 1)
    /\ utteranceMs' = utteranceMs + frame.ms
    /\ UNCHANGED <<preRoll, preRollMs, candidateMs, startedAt, finals>>

\* An utterance ends, by a commit or with a frame that is its last.
Heard(heard) ==
    \/ heard = utterance /\ heard # <<>> /\ frames' = frames
    \/ heard = Append(utterance, Len(frames) + 1) /\ \E frame : Arrives(frame)

Closes(heard) ==
    /\ Heard(heard) /\ active /\ active' = FALSE
    /\ finals' = Append(finals, heard)
    /\ preRoll' = <<>> /\ preRollMs' = 0 /\ utterance' = <<>> /\ utteranceMs' = 0
    /\ candidateMs' = 0 /\ startedAt' = 0

Move ==
    \/ Stays
    \/ \E frame, p : Hears(frame, p) /\ (Waits(p) \/ Opens(p))
    \/ \E frame : Takes(frame)
    \/ \E heard : Closes(heard)

\* Every step is one of these.
LEMMA StepIsMove == ASSUME TypeOK, [Next]_vars PROVE Move
<1>1. CASE UNCHANGED vars
  BY <1>1 DEF vars, Move, Stays
<1>2. CASE Commit
  <2>1. CASE active /\ utterance # <<>>
    <3>1. Finish(utterance) /\ frames' = frames
      BY <1>2, <2>1 DEF Commit
    <3>2. Closes(utterance)
      BY <2>1, <3>1 DEF Finish, Reset, Closes, Heard
    <3> QED
      BY <3>2 DEF Move
  <2>2. CASE ~(active /\ utterance # <<>>)
    BY <1>2, <2>2 DEF Commit, Move, Stays
  <2> QED
    BY <2>1, <2>2
<1>3. ASSUME NEW ms \in FrameMs, NEW voiced \in BOOLEAN,
             Feed([ms |-> ms, voiced |-> voiced, at |-> Elapsed])
      PROVE  Move
  <2> DEFINE frame == [ms |-> ms, voiced |-> voiced, at |-> Elapsed]
             n == Len(frames) + 1
             p == PushPreRoll(frames', n)
  <2>1. frame \in Frame /\ frame.at = Elapsed /\ frame.ms \in Nat /\ frame.ms > 0
    BY BufferRange, Thresholds DEF Frame
  <2> HIDE DEF frame
  <2>2. Feed(frame)
    BY <1>3 DEF frame
  <2>3. Arrives(frame)
    BY <2>1, <2>2 DEF Feed, Arrives
  <2>4. CASE Listen(frame)
    <3> DEFINE candidate == IF frame.voiced THEN candidateMs + frame.ms ELSE 0
    <3>1. candidateMs \in Nat /\ (frame.voiced => candidate # 0)
      BY <2>1, BufferRange
    <3>2. /\ ~active /\ candidateMs' = candidate /\ finals' = finals
          /\ startedAt' = IF candidate = 0 THEN 0 ELSE IF candidateMs = 0 THEN n ELSE startedAt
      BY <2>4 DEF Listen
    <3>3. Hears(frame, p)
      BY <2>3, <3>1, <3>2 DEF Hears
    <3>4. CASE candidate < SpeechStart
      <4>1. /\ preRoll' = p.buffer /\ preRollMs' = p.ms /\ active' = active
            /\ utterance' = utterance /\ utteranceMs' = utteranceMs
        BY <2>4, <3>4 DEF Listen
      <4>2. active' = FALSE
        BY <3>2, <4>1 DEF TypeOK
      <4> QED
        BY <3>2, <3>3, <3>4, <4>1, <4>2 DEF Move, Waits
    <3>5. CASE ~(candidate < SpeechStart)
      <4>1. /\ utterance' = p.buffer /\ utteranceMs' = p.ms /\ active' = TRUE
            /\ preRoll' = <<>> /\ preRollMs' = 0
        BY <2>4, <3>5 DEF Listen
      <4>2. candidateMs' >= SpeechStart
        <5>1. candidate \in Nat /\ SpeechStart \in Nat
          BY <2>1, <3>1, Thresholds
        <5> QED
          BY <3>2, <3>5, <5>1
      <4> QED
        BY <3>3, <4>1, <4>2 DEF Move, Opens
    <3> QED
      BY <3>4, <3>5
  <2>5. CASE Record(frame)
    <3>1. active
      BY <2>5 DEF Record
    <3>2. CASE Finish(Append(utterance, n))
      <4>1. Closes(Append(utterance, n))
        BY <2>3, <3>1, <3>2 DEF Finish, Reset, Closes, Heard
      <4> QED
        BY <4>1 DEF Move
    <3>3. CASE ~Finish(Append(utterance, n))
      <4>1. /\ utterance' = Append(utterance, n) /\ utteranceMs' = utteranceMs + frame.ms
            /\ UNCHANGED <<active, preRoll, preRollMs, candidateMs, startedAt, finals>>
        BY <2>5, <3>3 DEF Record
      <4>2. active' = TRUE
        BY <3>1, <4>1 DEF TypeOK
      <4>3. Takes(frame)
        BY <2>3, <3>1, <4>1, <4>2 DEF Takes
      <4> QED
        BY <4>3 DEF Move
    <3> QED
      BY <3>2, <3>3
  <2> QED
    BY <2>2, <2>4, <2>5 DEF Feed
<1> QED
  BY <1>1, <1>2, <1>3 DEF Next

\* What is in a buffer at the end of the stream.
LEMMA InEnds ==
    ASSUME NEW n \in Nat, NEW u \in Seq(1 .. n), EndsAt(u, n), NEW m \in 1 .. n
    PROVE  (\E i \in DOMAIN u : u[i] = m) <=> n - Len(u) < m
<1> DEFINE S == 1 .. n
<1>1. Len(u) \in Nat /\ DOMAIN u = 1 .. Len(u)
  BY LenProperties
<1>2. \A i \in 1 .. Len(u) : u[i] = n - Len(u) + i
  BY <1>1 DEF EndsAt
<1>3. ASSUME NEW i \in 1 .. Len(u), u[i] = m PROVE n - Len(u) < m
  <2>1. u[i] = n - Len(u) + i
    BY <1>2
  <2>2. Len(u) \in Nat
    BY <1>1
  <2> QED
    BY <1>3, <2>1, <2>2
<1>4. ASSUME n - Len(u) < m PROVE \E i \in 1 .. Len(u) : u[i] = m
  <2>1. Len(u) \in Nat
    BY <1>1
  <2>2. m - (n - Len(u)) \in 1 .. Len(u) /\ n - Len(u) + (m - (n - Len(u))) = m
    BY <1>4, <2>1
  <2> QED
    BY <1>2, <2>2
<1> QED
  BY <1>1, <1>3, <1>4

-----------------------------------------------------------------------------
(* The buffers.                                                            *)

\* Where the buffers of the next state are.
BuffersTyped ==
    /\ frames \in Seq(Frame) /\ active \in BOOLEAN
    /\ preRoll \in Seq(1 .. Len(frames)) /\ utterance \in Seq(1 .. Len(frames))
    /\ finals \in Seq(Seq(1 .. Len(frames)))
    /\ preRollMs \in Nat /\ utteranceMs \in Nat /\ candidateMs \in Nat /\ startedAt \in Nat

\* What was a range stays one when the stream grows.
LEMMA RangesGrow ==
    ASSUME NEW n \in Nat
    PROVE  /\ \A u \in Seq(1 .. n) : u \in Seq(1 .. n + 1)
           /\ \A q \in Seq(Seq(1 .. n)) : q \in Seq(Seq(1 .. n + 1))
<1> DEFINE S == 1 .. n
           T == 1 .. n + 1
<1>1. S \subseteq T
  OBVIOUS
<1> HIDE DEF S, T
<1>2. \A u \in Seq(S) : u \in Seq(T)
  BY <1>1, SeqMonotonic
<1>3. Seq(S) \subseteq Seq(T)
  BY <1>2
<1>4. \A q \in Seq(Seq(S)) : q \in Seq(Seq(T))
  BY <1>3, SeqMonotonic
<1> QED
  BY <1>2, <1>4 DEF S, T

\* How long the recording lasts, with another frame.
LEMMA TakenBuffer ==
    ASSUME TypeOK, StreamInPlace, BuffersInPlace, active, NEW frame, Arrives(frame)
    PROVE  LET u == Append(utterance, Len(frames) + 1) IN
           /\ u \in Seq(1 .. Len(frames) + 1) /\ u # <<>>
           /\ EndsAt(u, Len(frames) + 1) /\ Len(u) = Len(utterance) + 1
           /\ utteranceMs + frame.ms = Elapsed' - frames'[u[1]].at
<1> DEFINE L == Len(frames)
           n == L + 1
           u == Append(utterance, n)
<1>1. /\ L \in Nat /\ utterance \in Seq(1 .. L) /\ Len(utterance) \in Nat /\ Elapsed \in Nat
      /\ utterance = <<>> <=> Len(utterance) = 0
      /\ DOMAIN utterance = 1 .. Len(utterance) /\ DOMAIN frames = 1 .. L
  BY BufferRange
<1>2. EndsAt(utterance, L) /\ Lasts(utterance, utteranceMs)
  BY DEF BuffersInPlace
<1>3. /\ u \in Seq(1 .. n) /\ Len(u) = Len(utterance) + 1 /\ u[Len(u)] = n /\ EndsAt(u, n)
  BY <1>1, <1>2, AppendEnds
<1>4. /\ frames'[n] = frame /\ Elapsed' = Elapsed + frame.ms /\ frame.ms \in Nat
      /\ frame.at = Elapsed /\ \A m \in 1 .. L : frames'[m] = frames[m] /\ frames[m].at \in Nat
  <2>1. frame \in Frame /\ frame.at = Elapsed
    BY DEF Arrives
  <2>2. \A m \in 1 .. L : frames[m].at \in Nat
    BY <1>1, BufferRange, FrameTyped
  <2>3. frame.ms \in Nat
    BY <2>1, FrameTyped
  <2>4. /\ frames'[n] = frame /\ Elapsed' = Elapsed + frame.ms
        /\ \A m \in DOMAIN frames : frames'[m] = frames[m]
    BY StreamGrows
  <2>5. \A m \in 1 .. L : frames'[m] = frames[m] /\ frames[m].at \in Nat
    BY <1>1, <2>2, <2>4
  <2> QED
    BY <2>1, <2>3, <2>4, <2>5, Zenon
<1>5. u # <<>>
  <2> DEFINE k == Len(u)
  <2>1. k # 0
    BY <1>1, <1>3
  <2> HIDE DEF u
  <2>2. u = <<>> => k = 0
    OBVIOUS
  <2> QED
    BY <2>1, <2>2
<1> HIDE DEF u
<1>6. utteranceMs + frame.ms = Elapsed' - frames'[u[1]].at
  <2>1. CASE Len(utterance) = 0
    <3>1. u[1] = n /\ utteranceMs = 0
      BY <1>1, <1>2, <1>3, <2>1 DEF Lasts
    <3>2. frames'[u[1]].at = Elapsed
      BY <1>4, <3>1
    <3>3. Elapsed \in Nat /\ frame.ms \in Nat /\ Elapsed' = Elapsed + frame.ms
      BY <1>1, <1>4
    <3> QED
      BY <3>1, <3>2, <3>3
  <2>2. CASE Len(utterance) # 0
    <3>1. u[1] = utterance[1] /\ utterance[1] \in 1 .. L
      BY <1>1, <2>2, ElementOfSeq DEF u
    <3>2. utteranceMs = Elapsed - frames[utterance[1]].at
      BY <1>1, <1>2, <2>2 DEF Lasts
    <3>3. frames'[u[1]] = frames[utterance[1]] /\ frames[utterance[1]].at \in Nat
      BY <1>4, <3>1
    <3>4. Elapsed \in Nat /\ frame.ms \in Nat /\ Elapsed' = Elapsed + frame.ms
      BY <1>1, <1>4
    <3> QED
      BY <3>2, <3>3, <3>4
  <2> QED
    BY <2>1, <2>2
<1> QED
  BY <1>3, <1>5, <1>6 DEF u

\* Every call leaves both buffers at the end of the stream, and counted right.
LEMMA BuffersStep ==
    ASSUME TypeOK, StreamInPlace, BuffersInPlace, Move
    PROVE  StreamInPlace' /\ BuffersInPlace' /\ BuffersTyped'
<1> DEFINE L == Len(frames)
           n == L + 1
<1>1. /\ L \in Nat /\ preRollMs \in Nat /\ utteranceMs \in Nat /\ candidateMs \in Nat
      /\ startedAt \in Nat
      /\ preRoll \in Seq(1 .. L) /\ utterance \in Seq(1 .. L) /\ finals \in Seq(Seq(1 .. L))
  BY BufferRange
<1>2. frames \in Seq(Frame) /\ active \in BOOLEAN
  BY DEF TypeOK
<1>3. \A m : EndsAt(<<>>, m) <=> 0 <= m
  <2>1. Len(<<>>) = 0 /\ DOMAIN <<>> = {}
    OBVIOUS
  <2> QED
    BY <2>1 DEF EndsAt
<1>4. CASE Stays
  <2>1. UNCHANGED <<frames, active, preRoll, preRollMs, candidateMs, startedAt, utterance,
                    utteranceMs, finals>>
    BY <1>4 DEF Stays
  <2>2. StreamInPlace'
    BY <2>1 DEF StreamInPlace
  <2>3. BuffersInPlace'
    BY <2>1 DEF BuffersInPlace, Lasts, Elapsed
  <2>4. BuffersTyped'
    BY <1>1, <1>2, <2>1 DEF BuffersTyped
  <2> QED
    BY <2>2, <2>3, <2>4
<1>5. ASSUME NEW frame, Arrives(frame)
      PROVE  /\ frames' \in Seq(Frame) /\ Len(frames') = n /\ StreamInPlace'
             /\ frame.ms \in Nat /\ \A u \in Seq(1 .. L) : u \in Seq(1 .. n)
             /\ finals \in Seq(Seq(1 .. n))
  <2>1. frame.ms \in Nat
    BY <1>5, Thresholds DEF Arrives, Frame
  <2> QED
    BY <1>1, <1>5, <2>1, StreamGrows, RangesGrow
<1>6. ASSUME NEW frame, NEW p, Hears(frame, p), Waits(p) \/ Opens(p)
      PROVE  StreamInPlace' /\ BuffersInPlace' /\ BuffersTyped'
  <2>1. Arrives(frame) /\ ~active /\ p = PushPreRoll(frames', n) /\ finals' = finals
    BY <1>6 DEF Hears
  <2>2. /\ p.buffer \in Seq(1 .. n) /\ p.ms \in Nat /\ EndsAt(p.buffer, n)
        /\ p.ms = IF p.buffer = <<>> THEN 0 ELSE Elapsed' - frames'[p.buffer[1]].at
    BY <2>1, PushKeeps
  <2>3. candidateMs' \in Nat /\ startedAt' \in Nat
    BY <1>1, <1>5, <1>6, <2>1 DEF Hears
  <2>4. utterance = <<>> /\ Lasts(utterance, utteranceMs)
    BY <2>1 DEF BuffersInPlace
  <2>5. utteranceMs = 0
    BY <2>4 DEF Lasts
  <2>6. <<>> \in Seq(1 .. n) /\ 0 <= n
    BY <1>1
  <2>7. BuffersInPlace'
    <3>1. CASE Waits(p)
      <4>1. /\ active' = FALSE /\ preRoll' = p.buffer /\ preRollMs' = p.ms
            /\ utterance' = <<>> /\ utteranceMs' = 0
        BY <2>4, <2>5, <3>1 DEF Waits
      <4> QED
        BY <1>3, <1>5, <2>1, <2>2, <2>6, <4>1 DEF BuffersInPlace, Lasts
    <3>2. CASE Opens(p)
      <4>1. /\ active' = TRUE /\ preRoll' = <<>> /\ preRollMs' = 0
            /\ utterance' = p.buffer /\ utteranceMs' = p.ms
        BY <3>2 DEF Opens
      <4> QED
        BY <1>3, <1>5, <2>1, <2>2, <2>6, <4>1 DEF BuffersInPlace, Lasts
    <3> QED
      BY <1>6, <3>1, <3>2
  <2>8. BuffersTyped'
    <3>1. /\ frames' \in Seq(Frame) /\ finals' \in Seq(Seq(1 .. Len(frames')))
          /\ Len(frames') = n
      BY <1>5, <2>1
    <3>2. CASE Waits(p)
      <4>1. active' \in BOOLEAN /\ preRollMs' \in Nat /\ utteranceMs' \in Nat
        BY <2>2, <2>5, <3>2 DEF Waits
      <4>2. preRoll' \in Seq(1 .. n) /\ utterance' \in Seq(1 .. n)
        BY <2>2, <2>4, <2>6, <3>2 DEF Waits
      <4> QED
        BY <2>3, <3>1, <4>1, <4>2 DEF BuffersTyped
    <3>3. CASE Opens(p)
      <4>1. active' \in BOOLEAN /\ preRollMs' \in Nat /\ utteranceMs' \in Nat
        BY <2>2, <3>3 DEF Opens
      <4>2. preRoll' \in Seq(1 .. n) /\ utterance' \in Seq(1 .. n)
        BY <2>2, <2>6, <3>3 DEF Opens
      <4> QED
        BY <2>3, <3>1, <4>1, <4>2 DEF BuffersTyped
    <3> QED
      BY <1>6, <3>2, <3>3
  <2> QED
    BY <1>5, <2>1, <2>7, <2>8
<1>7. ASSUME NEW frame, Takes(frame)
      PROVE  StreamInPlace' /\ BuffersInPlace' /\ BuffersTyped'
  <2> DEFINE u == Append(utterance, n)
  <2>1. /\ Arrives(frame) /\ active /\ active' = TRUE
        /\ utterance' = u /\ utteranceMs' = utteranceMs + frame.ms
        /\ UNCHANGED <<preRoll, preRollMs, candidateMs, startedAt, finals>>
    BY <1>7 DEF Takes
  <2>2. /\ u \in Seq(1 .. n) /\ u # <<>> /\ EndsAt(u, n)
        /\ utteranceMs + frame.ms = Elapsed' - frames'[u[1]].at
    BY <2>1, TakenBuffer
  <2>3. preRoll = <<>> /\ preRollMs = 0
    BY <2>1 DEF BuffersInPlace, Lasts
  <2> HIDE DEF u
  <2>4. BuffersInPlace'
    <3>1. /\ active' /\ utterance' = u /\ preRoll' = <<>> /\ preRollMs' = 0
          /\ utteranceMs' = Elapsed' - frames'[u[1]].at /\ Len(frames') = n
      BY <1>5, <2>1, <2>2, <2>3
    <3>2. EndsAt(<<>>, n)
      BY <1>1, <1>3
    <3>3. Lasts(utterance, utteranceMs)' /\ Lasts(preRoll, preRollMs)'
      BY <2>2, <3>1 DEF Lasts
    <3> QED
      BY <2>2, <3>1, <3>2, <3>3 DEF BuffersInPlace
  <2>5. BuffersTyped'
    <3>1. preRoll' \in Seq(1 .. n) /\ utterance' \in Seq(1 .. n)
      BY <1>1, <1>5, <2>1, <2>2
    <3>2. frames' \in Seq(Frame) /\ Len(frames') = n /\ finals' \in Seq(Seq(1 .. n))
      BY <1>5, <2>1
    <3>3. /\ active' \in BOOLEAN
          /\ {preRollMs', utteranceMs', candidateMs', startedAt'} \subseteq Nat
      BY <1>1, <1>5, <2>1
    <3> QED
      BY <3>1, <3>2, <3>3 DEF BuffersTyped
  <2> QED
    BY <1>5, <2>1, <2>4, <2>5
<1>8. ASSUME NEW heard, Closes(heard)
      PROVE  StreamInPlace' /\ BuffersInPlace' /\ BuffersTyped'
  <2>1. /\ Heard(heard) /\ active /\ active' = FALSE /\ finals' = Append(finals, heard)
        /\ preRoll' = <<>> /\ preRollMs' = 0 /\ utterance' = <<>> /\ utteranceMs' = 0
        /\ candidateMs' = 0 /\ startedAt' = 0
    BY <1>8 DEF Closes
  <2>2. /\ StreamInPlace' /\ frames' \in Seq(Frame) /\ Len(frames') \in Nat
        /\ heard \in Seq(1 .. Len(frames')) /\ finals \in Seq(Seq(1 .. Len(frames')))
    <3>1. CASE heard = utterance /\ frames' = frames
      BY <1>1, <1>2, <3>1 DEF StreamInPlace
    <3>2. ASSUME NEW frame, Arrives(frame), heard = Append(utterance, n)
          PROVE  /\ StreamInPlace' /\ frames' \in Seq(Frame) /\ Len(frames') \in Nat
                 /\ heard \in Seq(1 .. Len(frames')) /\ finals \in Seq(Seq(1 .. Len(frames')))
      <4>1. heard \in Seq(1 .. n)
        BY <2>1, <3>2, TakenBuffer
      <4> QED
        BY <1>1, <1>5, <3>2, <4>1
    <3> QED
      BY <2>1, <3>1, <3>2 DEF Heard
  <2>3. finals' \in Seq(Seq(1 .. Len(frames')))
    <3> DEFINE S == Seq(1 .. Len(frames'))
    <3>1. heard \in S /\ finals \in Seq(S)
      BY <2>2
    <3> HIDE DEF S
    <3>2. Append(finals, heard) \in Seq(S)
      BY <3>1
    <3> QED
      BY <2>1, <3>2 DEF S
  <2>4. BuffersInPlace'
    BY <1>3, <2>1, <2>2 DEF BuffersInPlace, Lasts
  <2>5. <<>> \in Seq(1 .. Len(frames'))
    OBVIOUS
  <2>6. BuffersTyped'
    BY <2>1, <2>2, <2>3, <2>5 DEF BuffersTyped
  <2> QED
    BY <2>2, <2>4, <2>6
<1> QED
  BY <1>4, <1>6, <1>7, <1>8 DEF Move

\* Everything else keeps its range.
LEMMA OthersStep ==
    ASSUME TypeOK, StreamInPlace, BuffersInPlace, [Next]_vars
    PROVE  /\ silenceMs' \in Nat /\ partialMs' \in Nat /\ index' \in Nat
           /\ nextIndex' \in Nat \ {0}
           /\ event' \in [kind : {"none", "partial", "final"}, utterance : Nat]
<1>1. /\ silenceMs \in Nat /\ partialMs \in Nat /\ index \in Nat /\ nextIndex \in Nat \ {0}
      /\ event \in [kind : {"none", "partial", "final"}, utterance : Nat]
      /\ utteranceMs \in Nat
  BY DEF TypeOK
<1>2. Utt!Nothing \in [kind : {"none", "partial", "final"}, utterance : Nat]
  BY DEF Utt!Nothing
<1>3. \A kind \in {"partial", "final"} :
         [kind |-> kind, utterance |-> index]
            \in [kind : {"none", "partial", "final"}, utterance : Nat]
  BY <1>1
<1> DEFINE Others == /\ silenceMs' \in Nat /\ partialMs' \in Nat /\ index' \in Nat
                     /\ nextIndex' \in Nat \ {0}
                     /\ event' \in [kind : {"none", "partial", "final"}, utterance : Nat]
<1>4. ASSUME NEW heard, Finish(heard) PROVE Others
  <2>1. silenceMs' = 0 /\ partialMs' = 0 /\ index' = 0 /\ nextIndex' = nextIndex
        /\ event' = [kind |-> "final", utterance |-> index]
    BY <1>4 DEF Finish, Reset
  <2> QED
    BY <1>1, <1>3, <2>1
<1>5. CASE UNCHANGED vars
  BY <1>1, <1>5 DEF vars
<1>6. CASE Commit
  <2>1. CASE Finish(utterance)
    BY <1>4, <2>1
  <2>2. CASE ~Finish(utterance)
    BY <1>1, <1>2, <1>6, <2>2 DEF Commit
  <2> QED
    BY <2>1, <2>2
<1>7. ASSUME NEW ms \in FrameMs, NEW voiced \in BOOLEAN,
             Feed([ms |-> ms, voiced |-> voiced, at |-> Elapsed])
      PROVE  Others
  <2> DEFINE frame == [ms |-> ms, voiced |-> voiced, at |-> Elapsed]
             p == PushPreRoll(frames', Len(frames) + 1)
  <2>1. frame \in Frame /\ frame.at = Elapsed /\ frame.ms \in Nat
    BY BufferRange, Thresholds DEF Frame
  <2> HIDE DEF frame
  <2>2. Feed(frame)
    BY <1>7 DEF frame
  <2>3. Arrives(frame)
    BY <2>1, <2>2 DEF Feed, Arrives
  <2>4. p.ms \in Nat
    BY <2>3, PushKeeps
  <2>5. CASE Listen(frame)
    <3>1. event' = Utt!Nothing
      BY <2>5 DEF Listen
    <3>2. \/ UNCHANGED <<silenceMs, partialMs, index, nextIndex>>
          \/ /\ index' = nextIndex /\ nextIndex' = nextIndex + 1
             /\ partialMs' = p.ms /\ silenceMs' = 0
      BY <2>5 DEF Listen
    <3> HIDE DEF p
    <3> QED
      BY <1>1, <1>2, <2>4, <3>1, <3>2
  <2>6. CASE Record(frame)
    <3>1. CASE \E heard : Finish(heard)
      BY <1>4, <3>1
    <3>2. CASE ~\E heard : Finish(heard)
      <4>1. /\ silenceMs' \in {0, silenceMs + frame.ms}
            /\ partialMs' \in {partialMs, utteranceMs + frame.ms}
            /\ UNCHANGED <<index, nextIndex>>
            /\ event' \in {Utt!Nothing, [kind |-> "partial", utterance |-> index]}
        BY <2>6, <3>2 DEF Record
      <4> QED
        BY <1>1, <1>2, <1>3, <2>1, <4>1
    <3> QED
      BY <3>1, <3>2
  <2> QED
    BY <2>2, <2>5, <2>6 DEF Feed
<1> QED
  BY <1>5, <1>6, <1>7 DEF Next

\* So a call keeps every range.
LEMMA TypeStep ==
    ASSUME TypeOK, StreamInPlace, BuffersInPlace, [Next]_vars
    PROVE  TypeOK'
<1>1. BuffersTyped'
  BY StepIsMove, BuffersStep
<1>2. /\ silenceMs' \in Nat /\ partialMs' \in Nat /\ index' \in Nat
      /\ nextIndex' \in Nat \ {0}
      /\ event' \in [kind : {"none", "partial", "final"}, utterance : Nat]
  BY OthersStep
<1> QED
  BY <1>1, <1>2 DEF BuffersTyped, TypeOK, Buffer

-----------------------------------------------------------------------------
(* What was reported.                                                      *)

\* A buffer that ends with the stream has no gaps.
LEMMA GaplessEnds ==
    ASSUME NEW n \in Nat, NEW u \in Seq(1 .. n), EndsAt(u, n)
    PROVE  Gapless(u)
<1>1. Len(u) \in Nat /\ DOMAIN u = 1 .. Len(u)
  BY LenProperties
<1>2. \A i \in 1 .. Len(u) : u[i] = n - Len(u) + i
  BY <1>1 DEF EndsAt
<1> SUFFICES ASSUME NEW i \in 1 .. Len(u) - 1 PROVE u[i + 1] = u[i] + 1
  BY DEF Gapless
<1>3. i \in 1 .. Len(u) /\ i + 1 \in 1 .. Len(u) /\ Len(u) \in Nat
  BY <1>1
<1>4. u[i] = n - Len(u) + i /\ u[i + 1] = n - Len(u) + (i + 1)
  BY <1>2, <1>3
<1> QED
  BY <1>3, <1>4

\* The place in a buffer of what is in the end of it.
LEMMA MovedIndex ==
    ASSUME NEW a \in Nat, NEW b \in Nat, NEW j \in 1 .. b, j < b, b <= a + 1
    PROVE  ((j - b) + 1) + a \in 1 .. a
OBVIOUS

\* It is the same frame.
LEMMA SamePlace ==
    ASSUME NEW n \in Nat, NEW a \in Nat, NEW b \in Nat, NEW j \in 1 .. b
    PROVE  n - a + (((j - b) + 1) + a) = (n + 1) - b + j
OBVIOUS

\* What precedes a buffer precedes it with another frame, and an end of that.
LEMMA PrecedesEnds ==
    ASSUME NEW n \in Nat, NEW u \in Seq(1 .. n), EndsAt(u, n),
           NEW v \in Seq(1 .. n + 1), EndsAt(v, n + 1), Len(v) <= Len(u) + 1,
           NEW w \in Seq(1 .. n), Precedes(w, u)
    PROVE  Precedes(w, v)
<1>1. Len(u) \in Nat /\ DOMAIN u = 1 .. Len(u) /\ Len(v) \in Nat /\ DOMAIN v = 1 .. Len(v)
  BY LenProperties
<1>2. \A i \in DOMAIN w : w[i] \in 1 .. n
  BY ElementOfSeq, LenProperties
<1> SUFFICES ASSUME NEW i \in DOMAIN w, NEW j \in DOMAIN v PROVE w[i] < v[j]
  BY DEF Precedes
<1>3. v[j] = (n + 1) - Len(v) + j /\ j \in 1 .. Len(v) /\ Len(v) \in Nat /\ Len(u) \in Nat
  BY <1>1 DEF EndsAt
<1>4. w[i] \in 1 .. n
  BY <1>2
<1>5. CASE j = Len(v)
  BY <1>3, <1>4, <1>5
<1>6. CASE j < Len(v)
  <2> DEFINE k == ((j - Len(v)) + 1) + Len(u)
  <2>1. k \in 1 .. Len(u)
    BY <1>3, <1>6, MovedIndex
  <2>2. u[k] = n - Len(u) + k
    BY <1>1, <2>1 DEF EndsAt
  <2>3. w[i] < u[k]
    BY <1>1, <2>1 DEF Precedes
  <2>4. u[k] = v[j]
    BY <1>3, <2>2, SamePlace
  <2> QED
    BY <2>3, <2>4
<1> QED
  BY <1>3, <1>5, <1>6

\* What was recorded stays recorded or is in a report, and reports stay.
Inside(i) ==
    \/ i \in DOMAIN utterance' /\ utterance'[i] = utterance[i]
    \/ \E a \in DOMAIN finals' : i \in DOMAIN finals'[a] /\ finals'[a][i] = utterance[i]

Grown ==
    /\ \A m \in DOMAIN frames : m \in DOMAIN frames' /\ frames'[m] = frames[m]
    /\ \A a \in DOMAIN finals : a \in DOMAIN finals' /\ finals'[a] = finals[a]
    /\ \A i \in DOMAIN utterance : Inside(i)

\* Nothing that was reported or is being recorded gets lost.
LEMMA KeptGrows ==
    ASSUME TypeOK, StreamInPlace, BuffersInPlace, Move
    PROVE  /\ Kept \subseteq Kept'
           /\ \A m \in DOMAIN frames : m \in DOMAIN frames' /\ frames'[m] = frames[m]
           /\ \A heard, frame : Closes(heard) /\ Arrives(frame) => Len(frames') \in Kept'
<1> DEFINE L == Len(frames)
           n == L + 1
<1>1. /\ L \in Nat /\ DOMAIN frames = 1 .. L
      /\ utterance \in Seq(1 .. L) /\ Len(utterance) \in Nat
      /\ DOMAIN utterance = 1 .. Len(utterance)
      /\ finals \in Seq(Seq(1 .. L)) /\ Len(finals) \in Nat /\ DOMAIN finals = 1 .. Len(finals)
  BY BufferRange
<1>2. ASSUME NEW frame, Arrives(frame)
      PROVE  /\ DOMAIN frames' = 1 .. n /\ Len(frames') = n
             /\ \A m \in DOMAIN frames : m \in DOMAIN frames' /\ frames'[m] = frames[m]
  BY <1>2, StreamGrows
<1>3. ASSUME NEW heard
      PROVE  LET q == Append(finals, heard) IN
             /\ \A a \in DOMAIN finals : a \in DOMAIN q /\ q[a] = finals[a]
             /\ Len(finals) + 1 \in DOMAIN q /\ q[Len(finals) + 1] = heard
  BY <1>1
<1>4. LET u == Append(utterance, n) IN
      /\ \A i \in DOMAIN utterance : i \in DOMAIN u /\ u[i] = utterance[i]
      /\ Len(utterance) + 1 \in DOMAIN u /\ u[Len(utterance) + 1] = n
  BY <1>1
<1>5. ASSUME Stays PROVE Grown
  <2>1. frames' = frames /\ utterance' = utterance /\ finals' = finals
    BY <1>5 DEF Stays
  <2> QED
    BY <2>1 DEF Grown, Inside
<1>6. ASSUME NEW frame, NEW p, Hears(frame, p) PROVE Grown
  <2>1. Arrives(frame) /\ ~active /\ finals' = finals
    BY <1>6 DEF Hears
  <2>2. DOMAIN utterance = {}
    BY <2>1 DEF BuffersInPlace
  <2> QED
    BY <1>2, <2>1, <2>2 DEF Grown
<1>7. ASSUME NEW frame, Takes(frame) PROVE Grown
  <2>1. Arrives(frame) /\ finals' = finals /\ utterance' = Append(utterance, n)
    BY <1>7 DEF Takes
  <2> QED
    BY <1>2, <1>4, <2>1 DEF Grown, Inside
<1>8. ASSUME NEW heard, Closes(heard) PROVE Grown
  <2>1. finals' = Append(finals, heard) /\ Heard(heard)
    BY <1>8 DEF Closes
  <2>2. \A i \in DOMAIN utterance : i \in DOMAIN heard /\ heard[i] = utterance[i]
    BY <1>4, <2>1 DEF Heard
  <2>3. \A m \in DOMAIN frames : m \in DOMAIN frames' /\ frames'[m] = frames[m]
    BY <1>2, <2>1 DEF Heard
  <2>4. \A i \in DOMAIN utterance : Inside(i)
    <3> TAKE i \in DOMAIN utterance
    <3> DEFINE a == Len(finals) + 1
    <3>1. a \in DOMAIN finals' /\ finals'[a] = heard
      BY <1>3, <2>1
    <3> HIDE DEF a
    <3>2. \E b \in DOMAIN finals' : i \in DOMAIN finals'[b] /\ finals'[b][i] = utterance[i]
      BY <2>2, <3>1
    <3> QED
      BY <3>2 DEF Inside
  <2>5. \A a \in DOMAIN finals : a \in DOMAIN finals' /\ finals'[a] = finals[a]
    BY <1>3, <2>1
  <2> QED
    BY <2>3, <2>4, <2>5 DEF Grown
<1>9. Grown
  BY <1>5, <1>6, <1>7, <1>8 DEF Move
<1>10. Kept \subseteq Kept'
  <2> SUFFICES ASSUME NEW m \in DOMAIN frames, m \in Kept PROVE m \in Kept'
    BY DEF Kept
  <2>1. m \in DOMAIN frames'
    BY <1>9 DEF Grown
  <2>2. ASSUME NEW i \in DOMAIN utterance, utterance[i] = m PROVE m \in Kept'
    <3>1. Inside(i)
      BY <1>9 DEF Grown
    <3> QED
      BY <2>1, <2>2, <3>1 DEF Kept, Inside
  <2>3. ASSUME NEW a \in DOMAIN finals, NEW i \in DOMAIN finals[a], finals[a][i] = m
        PROVE  m \in Kept'
    BY <1>9, <2>1, <2>3 DEF Kept, Grown
  <2> QED
    BY <2>2, <2>3 DEF Kept
<1>11. ASSUME NEW heard, NEW frame, Closes(heard), Arrives(frame) PROVE Len(frames') \in Kept'
  <2>1. finals' = Append(finals, heard) /\ Heard(heard) /\ Len(frames') = n
    BY <1>2, <1>11 DEF Closes
  <2>2. frames' # frames
    BY <1>1, <2>1
  <2>3. heard = Append(utterance, n)
    BY <2>1, <2>2 DEF Heard
  <2> DEFINE k == Len(utterance) + 1
             a == Len(finals) + 1
  <2>4. a \in DOMAIN finals' /\ finals'[a] = heard /\ k \in DOMAIN heard /\ heard[k] = n
    BY <1>3, <1>4, <2>1, <2>3
  <2>5. n \in DOMAIN frames'
    BY <1>1, <1>2, <1>11
  <2> HIDE DEF a, k
  <2> QED
    BY <2>1, <2>4, <2>5 DEF Kept
<1> QED
  BY <1>9, <1>10, <1>11 DEF Grown

\* What is in the utterance being recorded is kept.
LEMMA RecordedIsKept ==
    ASSUME TypeOK, BuffersInPlace, NEW m \in 1 .. Len(frames),
           Len(frames) - Len(utterance) < m
    PROVE  m \in Kept /\ \E i \in DOMAIN utterance : utterance[i] = m
<1>1. Len(frames) \in Nat /\ utterance \in Seq(1 .. Len(frames)) /\ DOMAIN frames = 1 .. Len(frames)
  BY BufferRange
<1>2. EndsAt(utterance, Len(frames))
  BY DEF BuffersInPlace
<1>3. \E i \in DOMAIN utterance : utterance[i] = m
  BY <1>1, <1>2, InEnds
<1> QED
  BY <1>1, <1>3 DEF Kept

\* Every call leaves what was reported behind what is buffered.
LEMMA FinalsBehindStep ==
    ASSUME TypeOK, StreamInPlace, BuffersInPlace, FinalsBehind, Move
    PROVE  FinalsBehind'
<1> DEFINE L == Len(frames)
           n == L + 1
<1>1. /\ L \in Nat /\ preRoll \in Seq(1 .. L) /\ utterance \in Seq(1 .. L)
      /\ finals \in Seq(Seq(1 .. L)) /\ Len(finals) \in Nat /\ DOMAIN finals = 1 .. Len(finals)
      /\ \A a \in DOMAIN finals : finals[a] \in Seq(1 .. L)
  BY BufferRange
<1>2. EndsAt(preRoll, L) /\ EndsAt(utterance, L)
  BY DEF BuffersInPlace
<1>3. \A w : Precedes(w, <<>>)
  BY DEF Precedes
<1>4. ASSUME NEW frame, Arrives(frame), active
      PROVE  LET u == Append(utterance, n) IN
             /\ u \in Seq(1 .. n) /\ EndsAt(u, n)
             /\ \A a \in DOMAIN finals : Precedes(finals[a], u)
  <2> DEFINE u == Append(utterance, n)
  <2>1. u \in Seq(1 .. n) /\ EndsAt(u, n) /\ Len(u) = Len(utterance) + 1
    BY <1>4, TakenBuffer
  <2> HIDE DEF u
  <2>2. Len(u) <= Len(utterance) + 1
    <3>1. Len(utterance) \in Nat
      BY BufferRange
    <3> QED
      BY <2>1, <3>1
  <2>3. \A a \in DOMAIN finals : Precedes(finals[a], u)
    <3> TAKE a \in DOMAIN finals
    <3>1. finals[a] \in Seq(1 .. L) /\ Precedes(finals[a], utterance)
      BY <1>1 DEF FinalsBehind
    <3> QED
      BY <1>1, <1>2, <2>1, <2>2, <3>1, PrecedesEnds
  <2> QED
    BY <2>1, <2>3 DEF u
<1>5. CASE Stays
  <2>1. finals' = finals /\ utterance' = utterance /\ preRoll' = preRoll
    BY <1>5 DEF Stays
  <2> QED
    BY <2>1 DEF FinalsBehind
<1>6. ASSUME NEW frame, NEW p, Hears(frame, p), Waits(p) \/ Opens(p) PROVE FinalsBehind'
  <2>1. Arrives(frame) /\ ~active /\ p = PushPreRoll(frames', n) /\ finals' = finals
    BY <1>6 DEF Hears
  <2>2. p.buffer \in Seq(1 .. n) /\ EndsAt(p.buffer, n) /\ Len(p.buffer) <= Len(preRoll) + 1
    BY <2>1, PushKeeps
  <2>3. utterance = <<>>
    BY <2>1 DEF BuffersInPlace
  <2>4. {preRoll', utterance'} \subseteq {p.buffer, <<>>}
    BY <1>6, <2>3 DEF Waits, Opens
  <2> DEFINE u == p.buffer
  <2> HIDE DEF u
  <2>5. \A a \in DOMAIN finals : Precedes(finals[a], u)
    <3> TAKE a \in DOMAIN finals
    <3>1. finals[a] \in Seq(1 .. L) /\ Precedes(finals[a], preRoll)
      BY <1>1 DEF FinalsBehind
    <3>2. u \in Seq(1 .. n) /\ EndsAt(u, n) /\ Len(u) <= Len(preRoll) + 1
      BY <2>2 DEF u
    <3> QED
      BY <1>1, <1>2, <3>1, <3>2, PrecedesEnds
  <2>6. \A a \in DOMAIN finals :
           Precedes(finals[a], utterance') /\ Precedes(finals[a], preRoll')
    BY <1>3, <2>4, <2>5 DEF u
  <2> QED
    BY <2>1, <2>6 DEF FinalsBehind
<1>7. ASSUME NEW frame, Takes(frame) PROVE FinalsBehind'
  <2>1. /\ Arrives(frame) /\ active /\ utterance' = Append(utterance, n)
        /\ preRoll' = preRoll /\ finals' = finals
    BY <1>7 DEF Takes
  <2>2. \A a \in DOMAIN finals : Precedes(finals[a], utterance')
    BY <1>4, <2>1
  <2> QED
    BY <2>1, <2>2 DEF FinalsBehind
<1>8. ASSUME NEW heard, Closes(heard) PROVE FinalsBehind'
  <2>1. /\ Heard(heard) /\ active /\ finals' = Append(finals, heard)
        /\ preRoll' = <<>> /\ utterance' = <<>>
    BY <1>8 DEF Closes
  <2>2. Gapless(heard) /\ \A a \in DOMAIN finals : Precedes(finals[a], heard)
    <3>1. CASE heard = utterance
      BY <1>1, <1>2, <3>1, GaplessEnds DEF FinalsBehind
    <3>2. ASSUME NEW frame, Arrives(frame), heard = Append(utterance, n)
          PROVE  Gapless(heard) /\ \A a \in DOMAIN finals : Precedes(finals[a], heard)
      <4>1. /\ heard \in Seq(1 .. n) /\ EndsAt(heard, n) /\ n \in Nat
            /\ \A a \in DOMAIN finals : Precedes(finals[a], heard)
        BY <1>1, <1>4, <2>1, <3>2
      <4> QED
        BY <4>1, GaplessEnds
    <3> QED
      BY <2>1, <3>1, <3>2 DEF Heard
  <2>3. /\ DOMAIN finals' = 1 .. Len(finals) + 1 /\ finals'[Len(finals) + 1] = heard
        /\ \A a \in DOMAIN finals : finals'[a] = finals[a]
    <3> DEFINE S == Seq(1 .. L)
               q == Append(finals, heard)
    <3>1. finals \in Seq(S)
      BY <1>1
    <3> HIDE DEF S
    <3>2. /\ DOMAIN q = 1 .. Len(finals) + 1 /\ q[Len(finals) + 1] = heard
          /\ \A a \in 1 .. Len(finals) : q[a] = finals[a]
      BY <3>1
    <3> QED
      BY <1>1, <2>1, <3>2
  <2>4. \A a \in DOMAIN finals' : a \in DOMAIN finals \/ a = Len(finals) + 1
    <3> DEFINE k == Len(finals)
    <3>1. k \in Nat /\ DOMAIN finals = 1 .. k /\ DOMAIN finals' = 1 .. k + 1
      BY <1>1, <2>3
    <3> HIDE DEF k
    <3>2. \A a \in 1 .. k + 1 : a \in 1 .. k \/ a = k + 1
      BY <3>1
    <3> QED
      BY <3>1, <3>2 DEF k
  <2>5. \A a \in DOMAIN finals' :
           /\ Gapless(finals'[a]) /\ Precedes(finals'[a], utterance')
           /\ Precedes(finals'[a], preRoll')
    BY <1>3, <2>1, <2>2, <2>3, <2>4 DEF FinalsBehind
  <2>6. ASSUME NEW a \in DOMAIN finals', NEW b \in DOMAIN finals', a < b
        PROVE  Precedes(finals'[a], finals'[b])
    <3>1. CASE b = Len(finals) + 1
      <4>1. a \in DOMAIN finals
        BY <1>1, <2>3, <2>6, <3>1
      <4> QED
        BY <2>2, <2>3, <3>1, <4>1
    <3>2. CASE b \in DOMAIN finals
      <4>1. a \in DOMAIN finals
        BY <1>1, <2>3, <2>6, <3>2
      <4> QED
        BY <2>3, <2>6, <3>2, <4>1 DEF FinalsBehind
    <3> QED
      BY <2>4, <3>1, <3>2
  <2> QED
    BY <2>5, <2>6 DEF FinalsBehind
<1> QED
  BY <1>5, <1>6, <1>7, <1>8 DEF Move

-----------------------------------------------------------------------------
(* Voice.                                                                  *)

\* Ends in the next state.
EndsNext(n) == n = 0 \/ ~frames'[n].voiced \/ n \in Kept'

\* Where a run of lost voice ends, it has ended for good.
LEMMA EndsStay ==
    ASSUME TypeOK, StreamInPlace, BuffersInPlace, Move, NEW m \in 0 .. Len(frames), Ends(m)
    PROVE  EndsNext(m)
<1>1. m = 0 \/ m \in DOMAIN frames
  BY BufferRange
<1> QED
  BY <1>1, KeptGrows DEF Ends, EndsNext

\* Every call keeps the candidate in the buffer: speech is noticed before the
\* pre-roll is too short for it.
LEMMA CandidateStep ==
    ASSUME TypeOK, StreamInPlace, BuffersInPlace, CandidateHeld, Move
    PROVE  CandidateHeld'
<1> DEFINE L == Len(frames)
           n == L + 1
<1>1. /\ L \in Nat /\ DOMAIN frames = 1 .. L /\ candidateMs \in Nat /\ Elapsed \in Nat
      /\ Len(preRoll) \in Nat /\ utterance \in Seq(1 .. L) /\ Len(utterance) \in Nat
      /\ utterance = <<>> <=> Len(utterance) = 0
  BY BufferRange
<1>2. CASE Stays
  <2>1. UNCHANGED <<frames, active, preRoll, preRollMs, candidateMs, startedAt, utterance,
                    utteranceMs, finals>>
    BY <1>2 DEF Stays
  <2> QED
    BY <2>1 DEF CandidateHeld, Ends, Kept, Elapsed
<1>3. ASSUME NEW frame, Arrives(frame)
      PROVE  /\ Len(frames') = n /\ frames'[n] = frame /\ Elapsed' = Elapsed + frame.ms
             /\ frame.ms \in Nat /\ frame.ms > 0 /\ frame.at = Elapsed
             /\ SpeechStart + frame.ms <= PreRoll + 1
             /\ \A m \in 1 .. L : frames'[m] = frames[m]
  <2>1. frame.ms \in FrameMs /\ frame.at = Elapsed
    BY <1>3 DEF Arrives, Frame
  <2>2. /\ Len(frames') = n /\ frames'[n] = frame /\ Elapsed' = Elapsed + frame.ms
        /\ \A m \in 1 .. L : frames'[m] = frames[m]
    BY <1>1, <1>3, StreamGrows
  <2> QED
    BY <2>1, <2>2, Thresholds
<1>4. ASSUME NEW frame, NEW p, Hears(frame, p), Waits(p) \/ Opens(p) PROVE CandidateHeld'
  <2>1. /\ Arrives(frame) /\ ~active /\ p = PushPreRoll(frames', n)
        /\ candidateMs' = IF frame.voiced THEN candidateMs + frame.ms ELSE 0
        /\ frame.voiced => startedAt' = IF candidateMs = 0 THEN n ELSE startedAt
    BY <1>4 DEF Hears
  <2>2. CASE frame.voiced
    <3> DEFINE s == startedAt'
    <3>1. /\ s \in 1 .. n /\ s \in n - Len(preRoll) .. n
          /\ candidateMs' = Elapsed' - frames'[s].at
          /\ candidateMs < SpeechStart
          /\ s - 1 \in 0 .. L /\ Ends(s - 1)
      <4>1. CASE candidateMs = 0
        <5>1. s = n /\ frames'[s] = frame
          BY <1>3, <2>1, <2>2, <4>1
        <5>2. frames'[s].at = Elapsed /\ candidateMs' = frame.ms
          BY <1>3, <2>1, <2>2, <4>1, <5>1
        <5>3. Ends(L)
          BY <2>1, <4>1 DEF CandidateHeld
        <5>4. s - 1 = L /\ SpeechStart > 0
          BY <1>1, <5>1, Thresholds
        <5> QED
          BY <1>1, <1>3, <2>1, <4>1, <5>1, <5>2, <5>3, <5>4
      <4>2. CASE candidateMs # 0
        <5>1. s = startedAt
          BY <2>1, <2>2, <4>2
        <5>2. /\ s \in 1 .. L /\ L - Len(preRoll) < s
              /\ candidateMs = Elapsed - frames[s].at
              /\ candidateMs < SpeechStart /\ Ends(s - 1)
          BY <2>1, <4>2, <5>1 DEF CandidateHeld
        <5>3. frames'[s] = frames[s] /\ frames[s].at \in Nat
          <6>1. frames[s].at \in Nat
            BY <1>1, <5>2, BufferRange, FrameTyped
          <6> QED
            BY <1>3, <2>1, <5>2, <6>1
        <5>4. candidateMs' = Elapsed' - frames'[s].at
          <6>1. Elapsed' = Elapsed + frame.ms /\ frame.ms \in Nat /\ Elapsed \in Nat
            BY <1>1, <1>3, <2>1
          <6>2. candidateMs' = candidateMs + frame.ms
            BY <2>1, <2>2
          <6>3. frames'[s].at \in Nat /\ candidateMs = Elapsed - frames'[s].at
            BY <5>2, <5>3
          <6> HIDE DEF s
          <6> QED
            BY <6>1, <6>2, <6>3
        <5> HIDE DEF s
        <5>5. s \in 1 .. n /\ s \in n - Len(preRoll) .. n /\ s - 1 \in 0 .. L
          BY <1>1, <5>2
        <5> QED
          BY <5>2, <5>4, <5>5
      <4> QED
        BY <4>1, <4>2
    <3>2. candidateMs' <= PreRoll /\ candidateMs' # 0 /\ candidateMs' \in Nat
      <4>1. frame.ms \in Nat /\ frame.ms > 0 /\ SpeechStart + frame.ms <= PreRoll + 1
        BY <1>3, <2>1
      <4>2. candidateMs' = candidateMs + frame.ms
        BY <2>1, <2>2
      <4>3. candidateMs \in Nat /\ candidateMs < SpeechStart
        BY <1>1, <3>1
      <4>4. SpeechStart \in Nat /\ PreRoll \in Nat
        BY Thresholds
      <4> QED
        BY <4>1, <4>2, <4>3, <4>4
    <3>3. n - Len(p.buffer) < s
      <4>1. \A m \in n - Len(preRoll) .. n :
               Elapsed' - frames'[m].at <= PreRoll => n - Len(p.buffer) < m
        BY <2>1, PushKeeps
      <4>2. Elapsed' - frames'[s].at <= PreRoll
        BY <3>1, <3>2
      <4> QED
        BY <3>1, <4>1, <4>2
    <3>4. EndsNext(s - 1)
      BY <3>1, EndsStay
    <3>5. CASE Waits(p)
      BY <1>3, <2>1, <3>1, <3>2, <3>3, <3>4, <3>5 DEF Waits, CandidateHeld, Ends, EndsNext
    <3>6. CASE Opens(p)
      BY <1>3, <2>1, <3>1, <3>3, <3>6 DEF Opens, CandidateHeld
    <3> QED
      BY <1>4, <3>5, <3>6
  <2>3. CASE ~frame.voiced
    <3>1. candidateMs' = 0 /\ ~Opens(p)
      BY <2>1, <2>3, Thresholds DEF Opens
    <3>2. active' = FALSE
      BY <1>4, <3>1 DEF Waits
    <3>3. Ends(Len(frames))'
      BY <1>3, <2>1, <2>3 DEF Ends
    <3> QED
      BY <3>1, <3>2, <3>3 DEF CandidateHeld
  <2> QED
    BY <2>2, <2>3
<1>5. ASSUME NEW frame, Takes(frame) PROVE CandidateHeld'
  <2>1. /\ Arrives(frame) /\ active /\ active' = TRUE /\ startedAt' = startedAt
        /\ utterance' = Append(utterance, n)
    BY <1>5 DEF Takes
  <2>2. Len(utterance') = Len(utterance) + 1 /\ Len(frames') = n
    BY <1>3, <2>1, TakenBuffer
  <2>3. startedAt \in 1 .. L /\ L - Len(utterance) < startedAt
    BY <2>1 DEF CandidateHeld
  <2>4. startedAt \in 1 .. n /\ n - (Len(utterance) + 1) < startedAt
    BY <1>1, <2>3
  <2> QED
    BY <2>1, <2>2, <2>4 DEF CandidateHeld
<1>6. ASSUME NEW heard, Closes(heard) PROVE CandidateHeld'
  <2>1. Heard(heard) /\ active' = FALSE /\ candidateMs' = 0
    BY <1>6 DEF Closes
  <2>2. CASE heard = utterance /\ heard # <<>> /\ frames' = frames
    <3>1. Len(utterance) # 0 /\ Len(utterance) <= L
      BY <1>1, <2>2 DEF BuffersInPlace, EndsAt
    <3>2. L \in 1 .. L /\ L - Len(utterance) < L
      BY <1>1, <3>1
    <3>3. L \in Kept'
      BY <3>2, RecordedIsKept, KeptGrows
    <3> QED
      BY <2>1, <2>2, <3>3 DEF CandidateHeld, Ends
  <2>3. ASSUME NEW frame, Arrives(frame) PROVE CandidateHeld'
    <3>1. Len(frames') \in Kept'
      BY <1>6, <2>3, KeptGrows
    <3> QED
      BY <2>1, <3>1 DEF CandidateHeld, Ends
  <2> QED
    BY <2>1, <2>2, <2>3 DEF Heard
<1> QED
  BY <1>2, <1>4, <1>5, <1>6 DEF Move

\* A run that a frame makes longer is the candidate, or a part of it.
LEMMA RunsStep ==
    ASSUME TypeOK, StreamInPlace, BuffersInPlace, CandidateHeld, RunsAreShort, Move
    PROVE  RunsAreShort'
<1> DEFINE L == Len(frames)
           n == L + 1
           Lost(i, j) == \A k \in i .. j : frames'[k].voiced /\ k \notin Kept'
<1>1. L \in Nat /\ DOMAIN frames = 1 .. L
  BY BufferRange
<1>2. ASSUME NEW i \in 1 .. L, NEW j \in 1 .. L, i <= j, Lost(i, j)
      PROVE  Until(frames'[j]) - frames'[i].at < SpeechStart
  <2>1. \A m \in 1 .. L : frames'[m] = frames[m]
    BY <1>1, KeptGrows
  <2>2. \A k \in i .. j : k \in 1 .. L
    BY <1>1
  <2>3. \A k \in i .. j : frames[k].voiced /\ k \notin Kept
    BY <1>2, <2>1, <2>2, KeptGrows
  <2>4. Until(frames[j]) - frames[i].at < SpeechStart
    BY <1>1, <1>2, <2>3 DEF RunsAreShort
  <2> QED
    BY <2>1, <2>4
<1>3. CASE frames' = frames
  BY <1>1, <1>2, <1>3 DEF RunsAreShort
<1>4. ASSUME NEW frame, Arrives(frame) PROVE RunsAreShort'
  <2>1. /\ DOMAIN frames' = 1 .. n /\ Len(frames') = n /\ frames'[n] = frame
        /\ frames' \in Seq(Frame) /\ StreamInPlace' /\ Elapsed' = Elapsed + frame.ms
        /\ frame.at = Elapsed
    BY <1>4, StreamGrows DEF Arrives
  <2> SUFFICES ASSUME NEW i \in 1 .. n, NEW j \in 1 .. n, i <= j, Lost(i, j)
               PROVE  Until(frames'[j]) - frames'[i].at < SpeechStart
    BY <2>1 DEF RunsAreShort
  <2>2. CASE j \in 1 .. L
    <3>1. i \in 1 .. L
      BY <1>1, <2>2
    <3> QED
      BY <1>2, <2>2, <3>1
  <2>3. CASE j = n
    <3>1. n \in i .. j
      BY <1>1, <2>3
    <3>2. frame.voiced /\ n \notin Kept'
      BY <2>1, <3>1
    <3>3. CandidateHeld' /\ BuffersInPlace' /\ BuffersTyped'
      BY CandidateStep, BuffersStep
    <3>4. ~active' /\ candidateMs' # 0
      <4>1. ASSUME active' PROVE FALSE
        <5>1. /\ utterance' \in Seq(1 .. n) /\ EndsAt(utterance', n) /\ n \in Nat /\ n \in 1 .. n
          BY <1>1, <2>1, <3>3 DEF BuffersTyped, BuffersInPlace
        <5>2. startedAt' \in 1 .. n /\ n - Len(utterance') < startedAt'
          BY <2>1, <3>3, <4>1 DEF CandidateHeld
        <5>3. n - Len(utterance') < n
          <6>1. Len(utterance') \in Nat
            BY <5>1, LenProperties
          <6> QED
            BY <5>1, <5>2, <6>1
        <5>4. \E k \in DOMAIN utterance' : utterance'[k] = n
          BY <5>1, <5>3, InEnds
        <5> QED
          BY <2>1, <3>2, <5>1, <5>4 DEF Kept
      <4>2. ASSUME ~active', candidateMs' = 0 PROVE FALSE
        <5>1. Ends(Len(frames))'
          BY <3>3, <4>2 DEF CandidateHeld
        <5> QED
          BY <1>1, <2>1, <3>2, <5>1 DEF Ends
      <4> QED
        BY <4>1, <4>2
    <3> DEFINE s == startedAt'
    <3>5. /\ s \in 1 .. n /\ candidateMs' = Elapsed' - frames'[s].at
          /\ candidateMs' < SpeechStart /\ EndsNext(s - 1)
      BY <2>1, <3>3, <3>4 DEF CandidateHeld, Ends, EndsNext
    <3> HIDE DEF s
    <3>6. ~(i < s)
      <4> SUFFICES ASSUME i < s PROVE FALSE
        OBVIOUS
      <4>1. s - 1 \in i .. j /\ s - 1 # 0
        BY <1>1, <2>3, <3>5
      <4>2. frames'[s - 1].voiced /\ s - 1 \notin Kept'
        BY <4>1
      <4> QED
        BY <3>5, <4>1, <4>2 DEF EndsNext
    <3>7. \A f \in Frame : f.at \in Nat /\ f.ms \in Nat /\ Until(f) = f.at + f.ms
      BY FrameTyped
    <3>8. \A m \in 1 .. n : frames'[m] \in Frame
      BY <2>1
    <3>9. frames'[s].at <= frames'[i].at
      <4>1. CASE i = s
        BY <3>5, <3>7, <3>8, <4>1
      <4>2. CASE s < i
        <5>1. Until(frames'[s]) <= frames'[i].at
          BY <2>1, <3>5, <4>2 DEF StreamInPlace
        <5>2. frames'[s] \in Frame /\ frames'[i].at \in Nat
          BY <3>5, <3>7, <3>8
        <5>3. /\ frames'[s].at \in Nat /\ frames'[s].ms \in Nat
              /\ Until(frames'[s]) = frames'[s].at + frames'[s].ms
          BY <3>7, <5>2
        <5> QED
          BY <5>1, <5>2, <5>3
      <4> QED
        BY <1>1, <3>5, <3>6, <4>1, <4>2
    <3>10. Until(frames'[j]) = Elapsed'
      BY <1>1, <2>1, <2>3, <3>7, <3>8
    <3>11. frames'[s].at \in Nat /\ frames'[i].at \in Nat /\ Elapsed' \in Nat /\ SpeechStart \in Nat
      <4>1. Elapsed' \in Nat
        <5>1. frames'[j] \in Frame
          BY <3>8
        <5> QED
          BY <3>7, <3>10, <5>1
      <4> QED
        BY <3>5, <3>7, <3>8, <4>1, Thresholds
    <3>12. candidateMs' = Elapsed' - frames'[s].at /\ candidateMs' < SpeechStart
      BY <3>5
    <3>13. Elapsed' - frames'[i].at < SpeechStart
      BY <3>9, <3>11, <3>12
    <3> QED
      BY <3>10, <3>13
  <2> QED
    BY <1>1, <2>2, <2>3
<1>5. frames' = frames \/ \E frame : Arrives(frame)
  BY DEF Move, Stays, Hears, Takes, Closes, Heard
<1> QED
  BY <1>3, <1>4, <1>5
-----------------------------------------------------------------------------
(* The theorems.                                                           *)

\* It holds of a new segmenter ...
LEMMA IndInit == Init => IndInv
<1> SUFFICES ASSUME Init PROVE IndInv
  OBVIOUS
<1>1. /\ frames = <<>> /\ active = FALSE /\ preRoll = <<>> /\ preRollMs = 0 /\ candidateMs = 0
      /\ startedAt = 0 /\ silenceMs = 0 /\ utterance = <<>> /\ utteranceMs = 0
      /\ partialMs = 0 /\ index = 0 /\ nextIndex = 1 /\ event = Utt!Nothing /\ finals = <<>>
  BY DEF Init
<1>2. Len(<<>>) = 0 /\ DOMAIN <<>> = {}
  OBVIOUS
<1>3. TypeOK
  <2>1. /\ frames \in Seq(Frame) /\ preRoll \in Buffer /\ utterance \in Buffer
        /\ finals \in Seq(Buffer)
    <3>1. <<>> \in Seq(Frame) /\ <<>> \in Seq(Buffer)
      BY EmptySeq
    <3>2. <<>> \in Buffer
      BY EmptySeq DEF Buffer
    <3> QED
      BY <1>1, <3>1, <3>2
  <2>2. /\ {preRollMs, candidateMs, silenceMs, utteranceMs, partialMs, startedAt, index}
              \subseteq Nat
        /\ nextIndex \in Nat \ {0} /\ active \in BOOLEAN
    <3>1. 0 \in Nat /\ 1 \in Nat \ {0} /\ FALSE \in BOOLEAN
      OBVIOUS
    <3> QED
      BY <1>1, <3>1, Zenon
  <2>3. event \in [kind : {"none", "partial", "final"}, utterance : Nat]
    BY <1>1 DEF Utt!Nothing
  <2> QED
    BY <2>1, <2>2, <2>3 DEF TypeOK
<1>4. DOMAIN frames = {} /\ DOMAIN finals = {} /\ Len(frames) = 0
  BY <1>1, <1>2
<1>5. StreamInPlace /\ FinalsBehind /\ RunsAreShort /\ CandidateHeld
  BY <1>1, <1>4 DEF StreamInPlace, FinalsBehind, RunsAreShort, CandidateHeld, Ends
<1>6. BuffersInPlace
  BY <1>1, <1>2 DEF BuffersInPlace, EndsAt, Lasts
<1> QED
  BY <1>3, <1>5, <1>6 DEF IndInv

\* ... and after every call.
LEMMA IndStep == IndInv /\ [Next]_vars => IndInv'
<1> SUFFICES ASSUME IndInv, [Next]_vars PROVE IndInv'
  OBVIOUS
<1>1. /\ TypeOK /\ StreamInPlace /\ BuffersInPlace /\ FinalsBehind
      /\ CandidateHeld /\ RunsAreShort
  BY DEF IndInv
<1>2. Move
  BY <1>1, StepIsMove
<1>3. StreamInPlace' /\ BuffersInPlace'
  BY <1>1, <1>2, BuffersStep
<1>4. TypeOK'
  BY <1>1, TypeStep
<1>5. FinalsBehind'
  BY <1>1, <1>2, FinalsBehindStep
<1>6. CandidateHeld'
  BY <1>1, <1>2, CandidateStep
<1>7. RunsAreShort'
  BY <1>1, <1>2, RunsStep
<1> QED
  BY <1>3, <1>4, <1>5, <1>6, <1>7 DEF IndInv

\* The buffers end where the stream does and are as long as they are counted,
\* what was reported lies behind them, and the candidate is the voice at the end.
THEOREM SegmenterInvCorrect == Spec => []IndInv
BY IndInit, IndStep, PTL DEF Spec

\* Every variable stays in its range.
THEOREM SegmenterTypeCorrect == Spec => []TypeOK
<1>1. IndInv => TypeOK
  BY DEF IndInv
<1> QED
  BY <1>1, SegmenterInvCorrect, PTL

\* However the stream is cut, each frame is reported at most once and in its
\* place: no utterance has gaps, and none begins before the last one ended.
THEOREM FramesInOrder == Spec => []InOrderWithoutGaps
<1>1. IndInv => InOrderWithoutGaps
  <2> SUFFICES ASSUME IndInv PROVE InOrderWithoutGaps
    OBVIOUS
  <2> DEFINE K == Len(finals)
             q == HandedOn
  <2>1. /\ TypeOK /\ BuffersInPlace /\ FinalsBehind
    BY DEF IndInv
  <2>2. /\ Len(frames) \in Nat /\ K \in Nat /\ DOMAIN finals = 1 .. K
        /\ preRoll \in Seq(1 .. Len(frames)) /\ utterance \in Seq(1 .. Len(frames))
        /\ finals \in Seq(Seq(1 .. Len(frames)))
    BY <2>1, BufferRange
  <2>3. Gapless(preRoll) /\ Gapless(utterance) /\ Precedes(utterance, preRoll)
    <3>1. Gapless(preRoll) /\ Gapless(utterance)
      BY <2>1, <2>2, GaplessEnds DEF BuffersInPlace
    <3>2. utterance = <<>> \/ preRoll = <<>>
      BY <2>1 DEF BuffersInPlace
    <3> QED
      BY <3>1, <3>2 DEF Precedes
  <2>4. /\ DOMAIN q = 1 .. K + 2 /\ q[K + 1] = utterance /\ q[K + 2] = preRoll
        /\ \A a \in 1 .. K : q[a] = finals[a]
    <3> DEFINE S == Seq(1 .. Len(frames))
           t == <<utterance, preRoll>>
    <3>1. finals \in Seq(S) /\ utterance \in S /\ preRoll \in S
      BY <2>2
    <3> HIDE DEF S
    <3>2. t \in Seq(S) /\ Len(t) = 2 /\ t[1] = utterance /\ t[2] = preRoll
      BY <3>1
    <3> HIDE DEF t
    <3>3. /\ q \in Seq(S) /\ Len(q) = K + 2
          /\ \A a \in 1 .. K + 2 : q[a] = IF a <= K THEN finals[a] ELSE t[a - K]
      BY <2>2, <3>1, <3>2, ConcatProperties DEF HandedOn, t
    <3>4. DOMAIN q = 1 .. K + 2
      BY <3>3, LenProperties
    <3>5. K + 1 \in 1 .. K + 2 /\ K + 2 \in 1 .. K + 2 /\ (K + 1) - K = 1 /\ (K + 2) - K = 2
          /\ ~(K + 1 <= K) /\ ~(K + 2 <= K) /\ \A a \in 1 .. K : a \in 1 .. K + 2 /\ a <= K
      BY <2>2
    <3> HIDE DEF q
    <3>6. q[K + 1] = utterance /\ q[K + 2] = preRoll
      <4>1. q[K + 1] = t[1]
        BY <3>3, <3>5
      <4>2. q[K + 2] = t[2]
        BY <3>3, <3>5
      <4> QED
        BY <3>2, <4>1, <4>2
    <3>7. \A a \in 1 .. K : q[a] = finals[a]
      BY <3>3, <3>5
    <3> QED
      BY <3>4, <3>6, <3>7
  <2> HIDE DEF q
  <2>5. \A a \in DOMAIN q : a \in 1 .. K \/ a = K + 1 \/ a = K + 2
    <3>1. K \in Nat /\ DOMAIN q = 1 .. K + 2
      BY <2>2, <2>4
    <3> HIDE DEF K
    <3> QED
      BY <3>1
  <2>6. \A a \in DOMAIN q : Gapless(q[a])
    BY <2>1, <2>2, <2>3, <2>4, <2>5 DEF FinalsBehind
  <2>7. ASSUME NEW a \in DOMAIN q, NEW b \in DOMAIN q, a < b PROVE Precedes(q[a], q[b])
    <3>1. CASE b \in 1 .. K
      <4>1. a \in 1 .. K
        BY <2>2, <2>4, <2>7, <3>1
      <4> QED
        BY <2>1, <2>2, <2>4, <2>7, <3>1, <4>1 DEF FinalsBehind
    <3>2. CASE b = K + 1
      <4>1. a \in 1 .. K
        BY <2>2, <2>4, <2>7, <3>2
      <4> QED
        BY <2>1, <2>2, <2>4, <3>2, <4>1 DEF FinalsBehind
    <3>3. CASE b = K + 2
      <4>1. a \in 1 .. K \/ a = K + 1
        BY <2>2, <2>4, <2>7, <3>3
      <4> QED
        BY <2>1, <2>2, <2>3, <2>4, <3>3, <4>1 DEF FinalsBehind
    <3> QED
      BY <2>5, <3>1, <3>2, <3>3
  <2> QED
    BY <2>6, <2>7 DEF InOrderWithoutGaps, q
<1> QED
  BY <1>1, SegmenterInvCorrect, PTL

\* Voice that lasts SpeechStart ends up in an utterance, and an utterance holds
\* the frame in which its speech began.
THEOREM SpeechIsKept == Spec => []SpeechKept
<1>1. IndInv => SpeechKept
  <2> SUFFICES ASSUME IndInv PROVE SpeechKept
    OBVIOUS
  <2>1. active => \E i \in DOMAIN utterance : utterance[i] = startedAt
    BY RecordedIsKept DEF IndInv, CandidateHeld
  <2> QED
    BY <2>1 DEF IndInv, RunsAreShort, SpeechKept
<1> QED
  BY <1>1, SegmenterInvCorrect, PTL

-----------------------------------------------------------------------------
(* The abstract segmenter.                                                 *)

\* An utterance has a number exactly while it is active, and the number is one
\* that was drawn.
IndexInv ==
    /\ active \in BOOLEAN
    /\ index \in Nat /\ nextIndex \in Nat \ {0}
    /\ active <=> index # 0

\* So it is of a new segmenter.
LEMMA IndexInit == Init => IndexInv
<1> SUFFICES ASSUME Init PROVE IndexInv
  OBVIOUS
<1>1. active = FALSE /\ index = 0 /\ nextIndex = 1
  BY DEF Init
<1>2. index \in Nat /\ nextIndex \in Nat \ {0}
  BY <1>1
<1>3. active \in BOOLEAN /\ (active <=> index # 0)
  BY <1>1
<1> QED
  BY <1>2, <1>3 DEF IndexInv

\* The end of an utterance is a Final of the abstract segmenter.
LEMMA FinishIsFinal ==
    ASSUME IndexInv, active, NEW heard, Finish(heard)
    PROVE  IndexInv' /\ Utt!Final
<1>1. index # 0 /\ index' = 0 /\ active' = FALSE /\ nextIndex' = nextIndex
      /\ event' = [kind |-> "final", utterance |-> index]
  BY DEF Finish, Reset, IndexInv
<1> QED
  BY <1>1 DEF IndexInv, Utt!Final

\* Listening is silence, or the start of the next utterance.
LEMMA ListenStep ==
    ASSUME IndexInv, NEW frame, Listen(frame)
    PROVE  IndexInv' /\ (Utt!Quiet \/ Utt!Start)
<1>1. index = 0 /\ ~active /\ event' = Utt!Nothing
  BY DEF Listen, IndexInv
<1>2. \/ UNCHANGED <<active, index, nextIndex>>
      \/ active' = TRUE /\ index' = nextIndex /\ nextIndex' = nextIndex + 1
  BY DEF Listen
<1>3. CASE UNCHANGED <<active, index, nextIndex>>
  BY <1>1, <1>3 DEF IndexInv, Utt!Quiet
<1>4. CASE active' = TRUE /\ index' = nextIndex /\ nextIndex' = nextIndex + 1
  BY <1>1, <1>4 DEF IndexInv, Utt!Start
<1> QED
  BY <1>2, <1>3, <1>4

\* Recording is silence, a partial, or the end.
LEMMA RecordStep ==
    ASSUME IndexInv, NEW frame, Record(frame)
    PROVE  IndexInv' /\ (Utt!Quiet \/ Utt!Partial \/ Utt!Final)
<1>1. active /\ index # 0
  BY DEF Record, IndexInv
<1>2. \/ \E heard : Finish(heard)
      \/ /\ UNCHANGED <<active, index, nextIndex>>
         /\ event' = [kind |-> "partial", utterance |-> index] \/ event' = Utt!Nothing
  BY DEF Record
<1> QED
  BY <1>1, <1>2, FinishIsFinal DEF IndexInv, Utt!Quiet, Utt!Partial

\* Every step of the segmenter is a step of the abstract one, or leaves it alone.
LEMMA UtterancesStep ==
    ASSUME IndexInv, [Next]_vars
    PROVE  IndexInv' /\ [Utt!UttNext]_<<index, nextIndex - 1, event>>
<1>1. ASSUME NEW frame, Feed(frame) PROVE IndexInv' /\ Utt!UttNext
  BY <1>1, ListenStep, RecordStep DEF Feed, Utt!UttNext
<1>2. CASE Commit
  <2>1. CASE active /\ utterance # <<>>
    BY <1>2, <2>1, FinishIsFinal DEF Commit, Utt!UttNext
  <2>2. CASE ~(active /\ utterance # <<>>)
    BY <1>2, <2>2 DEF Commit, IndexInv, Utt!UttNext, Utt!Quiet
  <2> QED
    BY <2>1, <2>2
<1>3. CASE UNCHANGED vars
  BY <1>3 DEF vars, IndexInv
<1> QED
  BY <1>1, <1>2, <1>3 DEF Next

\* The segmenter implements Utterances: one utterance at a time, numbered
\* upwards, reported only while it is open, and ended by one final.
THEOREM UtterancesAreImplemented == Spec => ImplementsUtterances
<1>1. Init => Utt!UttInit
  BY DEF Init, Utt!UttInit
<1> QED
  BY <1>1, IndexInit, UtterancesStep, PTL DEF Spec, ImplementsUtterances, Utt!UttSpec
=============================================================================
