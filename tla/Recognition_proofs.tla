-------------------------- MODULE Recognition_proofs --------------------------
(***************************************************************************)
(* What is proved of Recognition for any queue, any number of frames and   *)
(* commits, and any segmenter that keeps the promise of Utterances.        *)
(***************************************************************************)
EXTENDS Recognition, SequenceTheorems, TLAPS

-----------------------------------------------------------------------------
(* The inductive invariant.                                                *)

\* No task holds or wants the lock twice.
Distinct(q) == \A i, j \in DOMAIN q : q[i] = q[j] => i = j

OncePerTask == Distinct(lock)

\* A task has yet to write a result of a type about an utterance: it is at the
\* ASR request, or in line for the lock.
InFlight(t, type, u) ==
    \/ job[t].at = "asr" /\ job[t].type = type /\ job[t].utterance = u
    \/ job[t].at = "lock" /\ job[t].message.type = type /\ job[t].message.utterance = u

\* The partial under way is about the open utterance; a final is about one
\* that has ended, in the worker the last one, in the message loop one that a
\* commit has cut.
DueInPlace ==
    \A t \in Tasks, type \in Results, u \in Nat : InFlight(t, type, u) =>
        /\ u \in 1 .. count
        /\ IF t = "partial" THEN type = "asr.partial" /\ u = open
           ELSE /\ type = "asr.final" /\ u # open
                /\ t = "worker" => open = 0 /\ u = count
                /\ t = "loop" => u \in manual

\* Only the last utterance may be open.
OpenIsLast == open \in {0, count}

\* An utterance has one final, due or sent.
OneFinal ==
    /\ \A u \in Nat : ~(InFlight("worker", "asr.final", u) /\ InFlight("loop", "asr.final", u))
    /\ \A i \in DOMAIN sent : IsFinal(sent[i]) =>
          /\ sent[i].utterance \in 1 .. count
          /\ sent[i].utterance # open
          /\ \A t \in Tasks, type \in Results : ~InFlight(t, type, sent[i].utterance)

\* The numbers that were drawn are in the order of the line, behind those that
\* were written.
Before(q, r, s) == \E i, j \in DOMAIN q : i < j /\ q[i] = r /\ q[j] = s

\* A task has drawn a number and waits to write it.
Waiting(t) == job[t].at = "lock" /\ IsResult(job[t].message)

NumbersInLine ==
    /\ \A i \in DOMAIN sent : IsResult(sent[i]) => sent[i].seq <= sequence
    /\ \A t \in Tasks : Waiting(t) => job[t].message.seq <= sequence
    /\ \A i \in DOMAIN sent, t \in Tasks :
          IsResult(sent[i]) /\ Waiting(t) => sent[i].seq < job[t].message.seq
    /\ \A r, t \in Tasks :
          Waiting(r) /\ Waiting(t) /\ Before(lock, r, t) =>
              job[r].message.seq < job[t].message.seq

\* A trace.update is about a result that was sent.
Covers(i, m) ==
    /\ sent[i].type = m.of /\ sent[i].utterance = m.utterance
    /\ sent[i].seq <= m.seq

TracesFollow ==
    \A t \in Tasks :
        /\ job[t].at = "write" => \E i \in DOMAIN sent : sent[i] = job[t].message
        /\ job[t].at = "lock" /\ job[t].message.type = "trace.update" =>
              \E i \in DOMAIN sent : Covers(i, job[t].message)

\* The worker is done when there is nothing left to take, and then the end of
\* the session is reported by the loop alone.
Closing(t) == job[t].at \in {"lock", "write"} /\ job[t].message.type = "session.closed"

StopInPlace ==
    /\ sentinel \/ workerDone => phase \in {"joining", "closing", "closed"}
    /\ phase \in {"closing", "closed"} => workerDone /\ job["partial"] = Idle
    /\ workerDone => job["worker"] = Idle /\ queued = 0
    /\ phase # "running" => job["loop"] = Idle \/ Closing("loop")
    /\ \A t \in Tasks : Closing(t) => t = "loop" /\ job[t].at = "write" /\ phase = "closing"
    /\ (\E i \in DOMAIN sent : sent[i].type = "session.closed") =>
          phase = "closed" \/ Closing("loop")

\* All of it, with the properties it is for.
IndInv ==
    /\ TypeOK
    /\ OncePerTask /\ OpenIsLast /\ DueInPlace /\ OneFinal
    /\ NumbersInLine /\ TracesFollow /\ StopInPlace
    /\ FinalIsLast /\ SequenceInOrder /\ FinalsInOrder /\ ClosedIsLast

-----------------------------------------------------------------------------
(* The line at the lock.                                                   *)

\* Who joins the line is behind everybody in it.
LEMMA LineAppend ==
    ASSUME NEW q \in Seq(Tasks), NEW t \in Tasks
    PROVE  /\ Append(q, t) \in Seq(Tasks)
           /\ ToSet(Append(q, t)) = ToSet(q) \cup {t}
           /\ q # <<>> => Head(Append(q, t)) = Head(q)
           /\ Distinct(q) /\ t \notin ToSet(q) => Distinct(Append(q, t))
           /\ \A r, s : Before(Append(q, t), r, s) => Before(q, r, s) \/ (r \in ToSet(q) /\ s = t)
<1> DEFINE p == Append(q, t)
<1>1. /\ p \in Seq(Tasks) /\ Len(p) = Len(q) + 1 /\ DOMAIN q = 1 .. Len(q)
      /\ DOMAIN p = 1 .. Len(p) /\ Len(q) \in Nat
      /\ \A i \in DOMAIN q : p[i] = q[i] /\ i \in DOMAIN p
      /\ p[Len(q) + 1] = t /\ Len(q) + 1 \in DOMAIN p
  OBVIOUS
<1>2. \A i \in DOMAIN p : i = Len(q) + 1 \/ i \in DOMAIN q
  BY <1>1
<1>3. q # <<>> => Head(p) = Head(q)
  OBVIOUS
<1> HIDE DEF p
<1>4. ToSet(p) = ToSet(q) \cup {t}
  BY <1>1, <1>2 DEF ToSet
<1>5. ASSUME Distinct(q), t \notin ToSet(q) PROVE Distinct(p)
  <2> SUFFICES ASSUME NEW i \in DOMAIN p, NEW j \in DOMAIN p, p[i] = p[j] PROVE i = j
    BY DEF Distinct
  <2>1. CASE i \in DOMAIN q /\ j \in DOMAIN q
    BY <1>1, <1>5, <2>1 DEF Distinct
  <2>2. CASE i \notin DOMAIN q \/ j \notin DOMAIN q
    BY <1>1, <1>2, <1>5, <2>2 DEF ToSet
  <2> QED BY <2>1, <2>2
<1>6. ASSUME NEW r, NEW s, Before(p, r, s)
      PROVE  Before(q, r, s) \/ (r \in ToSet(q) /\ s = t)
  <2>1. PICK i \in DOMAIN p, j \in DOMAIN p : i < j /\ p[i] = r /\ p[j] = s
    BY <1>6 DEF Before
  <2>2. i \in DOMAIN q
    BY <1>1, <1>2, <2>1
  <2>3. CASE j \in DOMAIN q
    BY <1>1, <2>1, <2>2, <2>3 DEF Before
  <2>4. CASE j = Len(q) + 1
    BY <1>1, <2>1, <2>2, <2>4 DEF ToSet
  <2> QED BY <1>2, <2>3, <2>4
<1> QED BY <1>1, <1>3, <1>4, <1>5, <1>6 DEF p

\* Who leaves at the head lets the others keep their order.
LEMMA LineTail ==
    ASSUME NEW q \in Seq(Tasks), q # <<>>, Distinct(q)
    PROVE  /\ Tail(q) \in Seq(Tasks)
           /\ Head(q) \in ToSet(q)
           /\ ToSet(Tail(q)) = ToSet(q) \ {Head(q)}
           /\ Distinct(Tail(q))
           /\ \A r, s : Before(Tail(q), r, s) => Before(q, r, s)
           /\ \A s \in ToSet(q) : s # Head(q) => Before(q, Head(q), s)
<1> DEFINE p == Tail(q)
<1>1. /\ p \in Seq(Tasks) /\ Len(p) + 1 = Len(q) /\ DOMAIN q = 1 .. Len(q)
      /\ DOMAIN p = 1 .. Len(p) /\ Len(p) \in Nat /\ Head(q) = q[1]
      /\ \A i \in DOMAIN p : p[i] = q[i + 1]
  OBVIOUS
<1> HIDE DEF p
<1>2. \A i \in DOMAIN q : i # 1 => i - 1 \in DOMAIN p /\ p[i - 1] = q[i]
  BY <1>1
<1>3. \A i \in DOMAIN p : i + 1 \in DOMAIN q /\ i + 1 # 1 /\ i \in Nat
  BY <1>1
<1>4. 1 \in DOMAIN q
  BY <1>1
<1>5. ToSet(p) = ToSet(q) \ {Head(q)}
  <2>1. ASSUME NEW x \in ToSet(p) PROVE x \in ToSet(q) \ {Head(q)}
    <3>1. PICK i \in DOMAIN p : x = p[i]
      BY <2>1 DEF ToSet
    <3> QED BY <1>1, <1>3, <1>4, <3>1 DEF ToSet, Distinct
  <2>2. ASSUME NEW x \in ToSet(q) \ {Head(q)} PROVE x \in ToSet(p)
    <3>1. PICK i \in DOMAIN q : x = q[i]
      BY <2>2 DEF ToSet
    <3>2. i # 1
      BY <1>1, <2>2, <3>1
    <3> QED BY <1>2, <3>1, <3>2 DEF ToSet
  <2> QED BY <2>1, <2>2
<1>6. Distinct(p)
  <2> SUFFICES ASSUME NEW i \in DOMAIN p, NEW j \in DOMAIN p, p[i] = p[j] PROVE i = j
    BY DEF Distinct
  <2>1. i + 1 = j + 1
    BY <1>1, <1>3 DEF Distinct
  <2> QED BY <1>3, <2>1
<1>7. ASSUME NEW r, NEW s, Before(p, r, s) PROVE Before(q, r, s)
  <2>1. PICK i \in DOMAIN p, j \in DOMAIN p : i < j /\ p[i] = r /\ p[j] = s
    BY <1>7 DEF Before
  <2>2. i + 1 < j + 1 /\ q[i + 1] = r /\ q[j + 1] = s
    BY <1>1, <1>3, <2>1
  <2> QED BY <1>3, <2>2 DEF Before
<1>8. ASSUME NEW s \in ToSet(q), s # Head(q) PROVE Before(q, Head(q), s)
  <2>1. PICK i \in DOMAIN q : s = q[i]
    BY <1>8 DEF ToSet
  <2>2. 1 < i
    BY <1>1, <1>8, <2>1
  <2> QED BY <1>1, <1>4, <2>1, <2>2 DEF Before
<1>9. Head(q) \in ToSet(q)
  BY <1>1, <1>4 DEF ToSet
<1> QED BY <1>1, <1>5, <1>6, <1>7, <1>8, <1>9 DEF p

\* So does who leaves in the middle, as a cancelled task does.
LEMMA LineRemove ==
    ASSUME NEW q \in Seq(Tasks), NEW k \in DOMAIN q, Distinct(q)
    PROVE  LET p == RemoveAt(q, k) IN
           /\ p \in Seq(Tasks)
           /\ ToSet(p) = ToSet(q) \ {q[k]}
           /\ Head(q) # q[k] => Head(p) = Head(q)
           /\ Distinct(p)
           /\ \A r, s : Before(p, r, s) => Before(q, r, s)
<1> DEFINE p == RemoveAt(q, k)
           f(i) == IF i < k THEN i ELSE i + 1
<1>0. Len(q) \in Nat /\ DOMAIN q = 1 .. Len(q) /\ k \in 1 .. Len(q)
  OBVIOUS
<1>1. /\ p \in Seq(Tasks) /\ Len(p) = Len(q) - 1
      /\ DOMAIN p = 1 .. Len(p) /\ Len(p) \in Nat
      /\ \A i \in DOMAIN p : p[i] = q[f(i)]
  <2> DEFINE a == SubSeq(q, 1, k - 1)
             b == SubSeq(q, k + 1, Len(q))
  <2>1. /\ a \in Seq(Tasks) /\ Len(a) = k - 1
        /\ \A i \in 1 .. Len(a) : a[i] = q[i]
    BY <1>0
  <2>2. /\ b \in Seq(Tasks) /\ Len(b) = Len(q) - k
        /\ \A i \in 1 .. Len(b) : b[i] = q[k + i]
    <3>1. \A i \in k + 1 .. Len(q) : q[i] \in Tasks
      BY <1>0, ElementOfSeq
    <3>2. k + 1 \in Int /\ Len(q) \in Int /\ k <= Len(q)
      BY <1>0
    <3>3. /\ b \in Seq(Tasks)
          /\ Len(b) = IF k + 1 <= Len(q) THEN Len(q) - (k + 1) + 1 ELSE 0
          /\ \A i \in 1 .. Len(q) - (k + 1) + 1 : b[i] = q[k + 1 + i - 1]
      BY <3>1, <3>2, SubSeqProperties
    <3> HIDE DEF b
    <3>4. Len(b) = Len(q) - k /\ Len(q) - (k + 1) + 1 = Len(q) - k
      BY <1>0, <3>2, <3>3
    <3>5. \A i \in 1 .. Len(b) : k + 1 + i - 1 = k + i
      BY <1>0, <3>4
    <3> QED BY <3>3, <3>4, <3>5
  <2>3. p = a \o b
    BY DEF RemoveAt
  <2> HIDE DEF a, b, p
  <2>4. p \in Seq(Tasks) /\ Len(p) = Len(a) + Len(b)
    <3>1. a \in Seq(Tasks) /\ b \in Seq(Tasks)
      BY <2>1, <2>2
    <3>2. a \o b \in Seq(Tasks) /\ Len(a \o b) = Len(a) + Len(b)
      BY <3>1
    <3> QED BY <2>3, <3>2
  <2>5. \A i \in 1 .. Len(p) : p[i] = IF i <= Len(a) THEN a[i] ELSE b[i - Len(a)]
    BY <2>1, <2>2, <2>3
  <2>6. Len(p) = Len(q) - 1
    BY <1>0, <2>1, <2>2, <2>4
  <2>7. ASSUME NEW i \in 1 .. Len(p) PROVE p[i] = q[f(i)]
    <3>1. CASE i < k
      BY <1>0, <2>1, <2>5, <2>6, <2>7, <3>1
    <3>2. CASE ~(i < k)
      <4>0. i \in Int /\ Len(a) = k - 1 /\ Len(b) = Len(q) - k /\ 1 <= i /\ i <= Len(q) - 1
        BY <1>0, <2>1, <2>2, <2>6, <2>7
      <4>1. p[i] = b[i - Len(a)] /\ i - Len(a) \in 1 .. Len(b)
        <5>1. ~(i <= Len(a)) /\ i - Len(a) \in 1 .. Len(b)
          BY <1>0, <3>2, <4>0
        <5> QED BY <2>5, <2>7, <5>1
      <4>2. k + (i - Len(a)) = i + 1
        BY <1>0, <2>1, <2>6, <2>7
      <4> QED BY <2>2, <3>2, <4>1, <4>2
    <3> QED BY <3>1, <3>2
  <2> HIDE DEF f
  <2> QED BY <2>4, <2>6, <2>7
<1> HIDE DEF p
<1>2. \A i \in DOMAIN p : i \in Int /\ f(i) \in DOMAIN q /\ f(i) # k
  BY <1>0, <1>1
<1>3. \A i, j \in DOMAIN p : (i < j => f(i) < f(j)) /\ (f(i) = f(j) => i = j)
  BY <1>0, <1>1
<1>4. \A i \in DOMAIN q : i # k => \E j \in DOMAIN p : f(j) = i
  <2> SUFFICES ASSUME NEW i \in DOMAIN q, i # k PROVE \E j \in DOMAIN p : f(j) = i
    OBVIOUS
  <2>1. CASE i < k
    <3>1. i \in DOMAIN p /\ f(i) = i
      BY <1>0, <1>1, <2>1
    <3> QED BY <3>1
  <2>2. CASE ~(i < k)
    <3>1. i - 1 \in DOMAIN p /\ f(i - 1) = i
      BY <1>0, <1>1, <2>2
    <3> QED BY <3>1
  <2> QED BY <2>1, <2>2
<1>5. Head(q) # q[k] => Head(p) = Head(q)
  <2> SUFFICES ASSUME Head(q) # q[k] PROVE Head(p) = Head(q)
    OBVIOUS
  <2>1. Head(q) = q[1] /\ 1 < k /\ 1 \in DOMAIN p
    BY <1>0, <1>1
  <2> QED BY <1>1, <2>1
<1> HIDE DEF f
<1>6. ToSet(p) = ToSet(q) \ {q[k]}
  <2>1. ASSUME NEW x \in ToSet(p) PROVE x \in ToSet(q) \ {q[k]}
    <3>1. PICK i \in DOMAIN p : x = p[i]
      BY <2>1 DEF ToSet
    <3> QED BY <1>1, <1>2, <3>1 DEF ToSet, Distinct
  <2>2. ASSUME NEW x \in ToSet(q) \ {q[k]} PROVE x \in ToSet(p)
    <3>1. PICK i \in DOMAIN q : x = q[i]
      BY <2>2 DEF ToSet
    <3>2. PICK j \in DOMAIN p : f(j) = i
      BY <1>4, <2>2, <3>1
    <3> QED BY <1>1, <3>1, <3>2 DEF ToSet
  <2> QED BY <2>1, <2>2
<1>7. Distinct(p)
  BY <1>1, <1>2, <1>3 DEF Distinct
<1>8. ASSUME NEW r, NEW s, Before(p, r, s) PROVE Before(q, r, s)
  <2>1. PICK i \in DOMAIN p, j \in DOMAIN p : i < j /\ p[i] = r /\ p[j] = s
    BY <1>8 DEF Before
  <2>2. f(i) < f(j) /\ q[f(i)] = r /\ q[f(j)] = s
    BY <1>1, <1>3, <2>1
  <2> QED BY <1>2, <2>2 DEF Before
<1> QED BY <1>1, <1>5, <1>6, <1>7, <1>8 DEF p

-----------------------------------------------------------------------------
(* What a step does.                                                       *)

\* A task is idle, at a request, or has a message.
LEMMA JobShapes ==
    ASSUME TypeOK, NEW t \in Tasks
    PROVE  /\ job[t] = Idle \/ job[t].at \in {"asr", "lock", "write"}
           /\ job[t].at = "asr" => job[t].type \in Results /\ job[t].utterance \in Nat
           /\ job[t].at \in {"lock", "write"} => job[t].message \in Messages
           /\ job[t] = Idle <=> job[t].at = "idle"
           /\ job[t].at \in {"idle", "asr", "lock", "write"}
BY DEF TypeOK, Jobs, Idle

\* The message of a task is a message.
LEMMA MessageTyped ==
    ASSUME NEW j, NEW seq \in Nat, j.type \in Results \cup {"asr.error", "session.closed"},
           j.utterance \in Nat
    PROVE  /\ Message(j, seq) \in Messages
           /\ Message(j, seq).type = j.type /\ Message(j, seq).utterance = j.utterance
           /\ Message(j, seq).seq = seq
BY DEF Message, Messages, Results

\* The line is in order: those who want the lock, each once, first who writes.
InLine(q, j) ==
    /\ q \in Seq(Tasks) /\ Distinct(q)
    /\ \A r \in Tasks : r \in ToSet(q) <=> j[r].at \in {"lock", "write"}
    /\ \A r \in Tasks : j[r].at = "write" => r = Head(q)

\* Emit puts the message of a task on the wire, or the task in line.
Given(t, m, holders) ==
    /\ m \in Messages
    /\ holders \in Seq(Tasks) /\ Distinct(holders)
    /\ \A r \in Tasks : r \in ToSet(holders) <=> r # t /\ job[r].at \in {"lock", "write"}
    /\ \A r \in Tasks : r # t /\ job[r].at = "write" => r = Head(holders)

\* Nobody waits in an empty line, and in a line of one only that one.
LEMMA EmptyLine ==
    /\ <<>> \in Seq(Tasks) /\ ToSet(<<>>) = {} /\ Distinct(<<>>)
    /\ \A r, s : ~Before(<<>>, r, s)
    /\ \A t \in Tasks : /\ <<t>> \in Seq(Tasks) /\ ToSet(<<t>>) = {t} /\ Distinct(<<t>>)
                        /\ Head(<<t>>) = t /\ \A r, s : ~Before(<<t>>, r, s)
    /\ \A q \in Seq(Tasks) : q # <<>> => Head(q) \in ToSet(q)
<1>1. /\ <<>> \in Seq(Tasks) /\ ToSet(<<>>) = {} /\ Distinct(<<>>)
      /\ \A r, s : ~Before(<<>>, r, s)
  BY DEF ToSet, Distinct, Before
<1>2. ASSUME NEW t \in Tasks
      PROVE  /\ <<t>> \in Seq(Tasks) /\ ToSet(<<t>>) = {t} /\ Distinct(<<t>>)
             /\ Head(<<t>>) = t /\ \A r, s : ~Before(<<t>>, r, s)
  <2>1. /\ <<t>> \in Seq(Tasks) /\ DOMAIN <<t>> = {1} /\ <<t>>[1] = t /\ Head(<<t>>) = t
    OBVIOUS
  <2> DEFINE q == <<t>>
  <2> HIDE DEF q
  <2>2. DOMAIN q = {1} /\ q[1] = t
    BY <2>1 DEF q
  <2>3. ToSet(q) = {t} /\ Distinct(q) /\ \A r, s : ~Before(q, r, s)
    BY <2>2 DEF ToSet, Distinct, Before
  <2> QED BY <2>1, <2>3 DEF q
<1>3. ASSUME NEW q \in Seq(Tasks), q # <<>> PROVE Head(q) \in ToSet(q)
  <2>1. 1 \in DOMAIN q /\ Head(q) = q[1]
    BY <1>3
  <2> QED BY <2>1 DEF ToSet
<1> QED BY <1>1, <1>2, <1>3

\* Emit writes when the lock is free and waits in line when it is not.
LEMMA EmitDoes ==
    ASSUME TypeOK, NEW t \in Tasks, NEW j, NEW seq, NEW holders,
           Given(t, Message(j, seq), holders), Emit(t, j, seq, holders)
    PROVE  LET m == Message(j, seq) IN
           /\ job' \in [Tasks -> Jobs]
           /\ \A r \in Tasks : r # t => job'[r] = job[r]
           /\ job'[t].message = m
           /\ InLine(lock', job')
           /\ sent' \in Seq(Messages)
           /\ \/ holders = <<>> /\ job'[t].at = "write" /\ lock' = <<t>> /\ sent' = Append(sent, m)
              \/ /\ holders # <<>> /\ job'[t].at = "lock" /\ lock' = Append(holders, t)
                 /\ sent' = sent
<1> DEFINE m == Message(j, seq)
           w == [at |-> "write", message |-> m]
           l == [at |-> "lock", message |-> m]
<1>1. m \in Messages
  BY DEF Given
<1>2. /\ w \in Jobs /\ w.at = "write" /\ w.message = m
      /\ l \in Jobs /\ l.at = "lock" /\ l.message = m
  BY <1>1 DEF Jobs
<1>3. job \in [Tasks -> Jobs] /\ sent \in Seq(Messages)
  BY DEF TypeOK
<1>4. CASE holders = <<>>
  <2>1. lock' = <<t>> /\ sent' = Append(sent, m) /\ job' = [job EXCEPT ![t] = w]
    BY <1>4 DEF Emit
  <2> HIDE DEF m, w, l
  <2>2. /\ job' \in [Tasks -> Jobs] /\ \A r \in Tasks : r # t => job'[r] = job[r]
        /\ job'[t] = w
    BY <1>2, <1>3, <2>1
  <2>3. sent' \in Seq(Messages)
    BY <1>1, <1>3, <2>1
  <2>4. \A r \in Tasks : r # t => job[r].at \notin {"lock", "write"}
    BY <1>4, EmptyLine DEF Given
  <2>5. InLine(lock', job')
    BY <1>2, <2>1, <2>2, <2>4, EmptyLine DEF InLine
  <2> QED BY <1>2, <1>4, <2>1, <2>2, <2>3, <2>5 DEF m
<1>5. CASE holders # <<>>
  <2>1. lock' = Append(holders, t) /\ sent' = sent /\ job' = [job EXCEPT ![t] = l]
    BY <1>5 DEF Emit
  <2> HIDE DEF m, w, l
  <2>2. /\ job' \in [Tasks -> Jobs] /\ \A r \in Tasks : r # t => job'[r] = job[r]
        /\ job'[t] = l
    BY <1>2, <1>3, <2>1
  <2>3. t \notin ToSet(holders) /\ holders \in Seq(Tasks) /\ Distinct(holders)
    BY DEF Given
  <2>4. /\ lock' \in Seq(Tasks) /\ ToSet(lock') = ToSet(holders) \cup {t}
        /\ Head(lock') = Head(holders) /\ Distinct(lock')
    BY <1>5, <2>1, <2>3, LineAppend
  <2>5. InLine(lock', job')
    BY <1>2, <2>2, <2>4 DEF InLine, Given
  <2> QED BY <1>2, <1>3, <1>5, <2>1, <2>2, <2>5 DEF m
<1> QED BY <1>4, <1>5

\* The line is in order in every state.
LEMMA LineInOrder == TypeOK /\ OncePerTask => InLine(lock, job)
BY DEF TypeOK, OncePerTask, InLine

\* The ranges that a message drawn from the state needs.
LEMMA SequenceStep ==
    ASSUME TypeOK
    PROVE  /\ sequence \in Nat /\ sequence + 1 \in Nat
           /\ sent \in Seq(Messages) /\ job \in [Tasks -> Jobs]
BY DEF TypeOK

\* Who does not want the lock may ask for it.
LEMMA MayAsk ==
    ASSUME TypeOK, OncePerTask, NEW t \in Tasks, job[t].at \notin {"lock", "write"},
           NEW m \in Messages
    PROVE  Given(t, m, lock)
BY LineInOrder DEF InLine, Given

\* Who has written gives it to the next in line, and may ask again.
LEMMA MayAskAgain ==
    ASSUME TypeOK, OncePerTask, NEW t \in Tasks, job[t].at = "write"
    PROVE  /\ lock # <<>> /\ t = Head(lock)
           /\ \A r \in Tasks : r # t => job[r].at # "write"
           /\ \A m \in Messages : Given(t, m, Tail(lock))
<1>1. lock \in Seq(Tasks) /\ Distinct(lock) /\ t \in ToSet(lock) /\ t = Head(lock)
  BY LineInOrder DEF InLine
<1>2. lock # <<>>
  BY <1>1, EmptyLine
<1>3. \A r \in Tasks : r # t => job[r].at # "write"
  BY <1>1, LineInOrder DEF InLine
<1>4. /\ Tail(lock) \in Seq(Tasks) /\ Distinct(Tail(lock))
      /\ ToSet(Tail(lock)) = ToSet(lock) \ {t}
  BY <1>1, <1>2, LineTail
<1>5. ASSUME NEW m \in Messages PROVE Given(t, m, Tail(lock))
  BY <1>3, <1>4, LineInOrder DEF InLine, Given
<1> QED BY <1>1, <1>2, <1>3, <1>5

\* What Emit is called with.
LEMMA TranscribedSends ==
    ASSUME TypeOK, NEW t \in Tasks, job[t].at = "asr"
    PROVE  LET m == Message(job[t], sequence + 1)
               e == Message([type |-> "asr.error", utterance |-> job[t].utterance], 0) IN
           /\ m \in Messages /\ m.type = job[t].type /\ m.utterance = job[t].utterance
           /\ m.seq = sequence + 1
           /\ e \in Messages /\ e.type = "asr.error"
<1>1. job[t].type \in Results /\ job[t].utterance \in Nat
  BY JobShapes
<1>2. sequence + 1 \in Nat
  BY SequenceStep
<1> DEFINE f == [type |-> "asr.error", utterance |-> job[t].utterance]
<1>3. f.type = "asr.error" /\ f.utterance \in Nat
  BY <1>1
<1> HIDE DEF f
<1>4. Message(f, 0) \in Messages /\ Message(f, 0).type = "asr.error"
  BY <1>3, MessageTyped
<1>5. LET m == Message(job[t], sequence + 1) IN
      /\ m \in Messages /\ m.type = job[t].type /\ m.utterance = job[t].utterance
      /\ m.seq = sequence + 1
  BY <1>1, <1>2, MessageTyped
<1> QED BY <1>4, <1>5 DEF f

\* What follows a written result.
Trace(m) == [type |-> "trace.update", utterance |-> m.utterance, of |-> m.type]

\* The trace.update that follows a result is a message.
LEMMA WrittenSends ==
    ASSUME TypeOK, NEW m \in Messages, IsResult(m)
    PROVE  LET n == Message(Trace(m), sequence) IN
           /\ n \in Messages /\ n.type = "trace.update" /\ n.utterance = m.utterance
           /\ n.seq = sequence /\ n.of = m.type
BY SequenceStep DEF Message, Trace, Messages, IsResult, Results

\* What ends the session.
Farewell == [type |-> "session.closed", utterance |-> 0]

\* So is the end of the session.
LEMMA ReportSends ==
    Message(Farewell, 0) \in Messages /\ Message(Farewell, 0).type = "session.closed"
BY DEF Message, Farewell, Messages, Results

\* The sending steps: m goes on the wire or in line behind the holders.
Posts(t, m, holders) ==
    /\ job'[t].message = m
    /\ \/ holders = <<>> /\ job'[t].at = "write" /\ lock' = <<t>> /\ sent' = Append(sent, m)
       \/ /\ holders # <<>> /\ job'[t].at = "lock" /\ lock' = Append(holders, t)
          /\ sent' = sent

\* A result with the next number.
Recognizes(t, m) ==
    /\ job[t].at = "asr" /\ m.type = job[t].type /\ m.utterance = job[t].utterance
    /\ IsResult(m) /\ m.seq = sequence + 1 /\ sequence' = sequence + 1
    /\ Posts(t, m, lock)

\* An error, or the end of the session.
Reports(t, m) ==
    /\ \/ job[t].at = "asr" /\ m.type = "asr.error"
       \/ t = "loop" /\ job[t] = Idle /\ phase = "closing" /\ m.type = "session.closed"
    /\ sequence' = sequence
    /\ Posts(t, m, lock)

\* The trace of the result that was just written.
Traces(t, m) ==
    /\ job[t].at = "write" /\ IsResult(job[t].message)
    /\ m.type = "trace.update" /\ m.of = job[t].message.type
    /\ m.utterance = job[t].message.utterance
    /\ m.seq = sequence /\ sequence' = sequence
    /\ Posts(t, m, Tail(lock))

\* What waited in line.
Passes(t, m) ==
    /\ job[t].at = "lock" /\ m = job[t].message /\ t = Head(lock)
    /\ job'[t].at = "write" /\ job'[t].message = m
    /\ lock' = lock /\ sent' = Append(sent, m) /\ sequence' = sequence

\* Nothing, and the task is done.
Drops(t) ==
    /\ job'[t] = Idle /\ sent' = sent /\ sequence' = sequence
    /\ \/ job[t].at = "asr" /\ lock' = lock
       \/ job[t].at = "write" /\ ~IsResult(job[t].message) /\ lock' = Tail(lock)

\* A sending step leaves the other tasks alone and the line in order.
Kept(t) ==
    /\ job' \in [Tasks -> Jobs]
    /\ \A r \in Tasks : r # t => job'[r] = job[r]
    /\ InLine(lock', job')
    /\ sent' \in Seq(Messages)

\* An answer of the recognizer is sent, reported as an error, or dropped.
LEMMA TranscribedDoes ==
    ASSUME TypeOK, OncePerTask, NEW t \in Tasks, Transcribed(t)
    PROVE  Kept(t) /\ (Drops(t) \/ \E m \in Messages : Recognizes(t, m) \/ Reports(t, m))
<1> DEFINE m == Message(job[t], sequence + 1)
           e == Message([type |-> "asr.error", utterance |-> job[t].utterance], 0)
<1>1. job[t].at = "asr"
  BY DEF Transcribed
<1>2. /\ m \in Messages /\ m.type = job[t].type /\ m.utterance = job[t].utterance
      /\ m.seq = sequence + 1
      /\ e \in Messages /\ e.type = "asr.error"
  BY <1>1, TranscribedSends
<1>3. IsResult(m)
  BY <1>1, <1>2, JobShapes DEF IsResult
<1>4. Given(t, m, lock) /\ Given(t, e, lock)
  BY <1>1, <1>2, MayAsk
<1>5. CASE sequence' = sequence + 1 /\ Emit(t, job[t], sequence + 1, lock)
  <2>1. Kept(t) /\ Posts(t, m, lock)
    BY <1>4, <1>5, EmitDoes DEF Kept, Posts
  <2>2. Recognizes(t, m)
    BY <1>1, <1>2, <1>3, <1>5, <2>1 DEF Recognizes
  <2> QED BY <1>2, <2>1, <2>2
<1>6. CASE job' = [job EXCEPT ![t] = Idle] /\ UNCHANGED sendVars
  <2>1. job \in [Tasks -> Jobs] /\ Idle \in Jobs /\ sent \in Seq(Messages)
    BY DEF TypeOK, Jobs
  <2>2. /\ job' \in [Tasks -> Jobs] /\ job'[t] = Idle
        /\ \A r \in Tasks : r # t => job'[r] = job[r]
    BY <1>6, <2>1
  <2>3. InLine(lock', job')
    BY <1>1, <1>6, <2>2, LineInOrder DEF InLine, Idle, sendVars
  <2> QED BY <1>1, <1>6, <2>1, <2>2, <2>3 DEF Kept, Drops, sendVars
<1>7. CASE /\ Emit(t, [type |-> "asr.error", utterance |-> job[t].utterance], 0, lock)
           /\ sequence' = sequence
  <2>1. Kept(t) /\ Posts(t, e, lock)
    BY <1>4, <1>7, EmitDoes DEF Kept, Posts
  <2>2. Reports(t, e)
    BY <1>1, <1>2, <1>7, <2>1 DEF Reports
  <2> QED BY <1>2, <2>1, <2>2
<1> QED BY <1>5, <1>6, <1>7 DEF Transcribed

\* Who is granted the lock writes the message it holds.
LEMMA GrantedDoes ==
    ASSUME TypeOK, OncePerTask, NEW t \in Tasks, Granted(t)
    PROVE  Kept(t) /\ \E m \in Messages : Passes(t, m)
<1> DEFINE m == job[t].message
<1>1. job[t].at = "lock" /\ m \in Messages /\ Head(lock) = t
  BY JobShapes DEF Granted
<1>2. job \in [Tasks -> Jobs] /\ sent \in Seq(Messages)
  BY DEF TypeOK
<1>3. [job[t] EXCEPT !.at = "write"] = [at |-> "write", message |-> m]
  BY <1>1, <1>2 DEF Jobs, Idle
<1>4. [at |-> "write", message |-> m] \in Jobs
  BY <1>1 DEF Jobs
<1>5. /\ job' \in [Tasks -> Jobs] /\ job'[t].at = "write" /\ job'[t].message = m
      /\ \A r \in Tasks : r # t => job'[r] = job[r]
  <2>1. job' = [job EXCEPT ![t] = [job[t] EXCEPT !.at = "write"]]
    BY DEF Granted
  <2>2. job' = [job EXCEPT ![t] = [at |-> "write", message |-> m]]
    BY <1>3, <2>1
  <2> QED BY <1>2, <1>4, <2>2
<1>6. lock' = lock /\ sent' = Append(sent, m) /\ sequence' = sequence
  BY DEF Granted
<1>7. InLine(lock', job')
  BY <1>1, <1>5, <1>6, LineInOrder DEF InLine
<1>8. sent' \in Seq(Messages)
  BY <1>1, <1>2, <1>6
<1> QED BY <1>1, <1>5, <1>6, <1>7, <1>8 DEF Kept, Passes

\* Who has written gives the lock away, after a result to ask for it again.
LEMMA WrittenDoes ==
    ASSUME TypeOK, OncePerTask, NEW t \in Tasks, Written(t)
    PROVE  Kept(t) /\ (Drops(t) \/ \E m \in Messages : Traces(t, m))
<1> DEFINE m == job[t].message
           n == Message(Trace(m), sequence)
<1>1. job[t].at = "write" /\ m \in Messages /\ sequence' = sequence
  BY JobShapes DEF Written
<1>2. /\ lock # <<>> /\ t = Head(lock)
      /\ \A r \in Tasks : r # t => job[r].at # "write"
      /\ \A x \in Messages : Given(t, x, Tail(lock))
  BY <1>1, MayAskAgain
<1>3. CASE IsResult(m)
  <2>1. Emit(t, Trace(m), sequence, Tail(lock))
    BY <1>3 DEF Written, Trace, IsResult
  <2>2. /\ n \in Messages /\ n.type = "trace.update" /\ n.utterance = m.utterance
        /\ n.seq = sequence /\ n.of = m.type
    BY <1>1, <1>3, WrittenSends
  <2>3. Given(t, n, Tail(lock))
    BY <1>2, <2>2
  <2>4. Kept(t) /\ Posts(t, n, Tail(lock))
    BY <2>1, <2>3, EmitDoes DEF Kept, Posts
  <2>5. Traces(t, n)
    BY <1>1, <1>3, <2>2, <2>4 DEF Traces
  <2> QED BY <2>2, <2>4, <2>5
<1>4. CASE ~IsResult(m)
  <2>1. lock' = Tail(lock) /\ job' = [job EXCEPT ![t] = Idle] /\ sent' = sent
    BY <1>4 DEF Written, IsResult
  <2>2. job \in [Tasks -> Jobs] /\ Idle \in Jobs /\ sent \in Seq(Messages)
    BY DEF TypeOK, Jobs
  <2>3. /\ job' \in [Tasks -> Jobs] /\ job'[t] = Idle
        /\ \A r \in Tasks : r # t => job'[r] = job[r]
    BY <2>1, <2>2
  <2>4. InLine(lock', job')
    BY <1>1, <1>2, <2>1, <2>3 DEF InLine, Given, Idle
  <2> QED BY <1>1, <1>4, <2>1, <2>2, <2>3, <2>4 DEF Kept, Drops
<1> QED BY <1>3, <1>4

\* The end of the session is sent like every other message.
LEMMA ReportClosedDoes ==
    ASSUME TypeOK, OncePerTask, ReportClosed
    PROVE  Kept("loop") /\ \E m \in Messages : Reports("loop", m)
<1> DEFINE m == Message(Farewell, 0)
<1>1. "loop" \in Tasks /\ job["loop"] = Idle /\ phase = "closing" /\ sequence' = sequence
  BY DEF Tasks, ReportClosed
<1>2. m \in Messages /\ m.type = "session.closed"
  BY ReportSends
<1>3. Given("loop", m, lock)
  BY <1>1, <1>2, MayAsk DEF Idle
<1>4. Emit("loop", Farewell, 0, lock)
  BY DEF ReportClosed, Farewell
<1>5. Kept("loop") /\ Posts("loop", m, lock)
  BY <1>1, <1>3, <1>4, EmitDoes DEF Kept, Posts
<1> QED BY <1>1, <1>2, <1>5 DEF Reports

\* The steps that send.
Sending(t) == Transcription(t) \/ (t = "loop" /\ ReportClosed)

\* What a task that sends may do, and what it leaves alone.
LEMMA SendStep ==
    ASSUME TypeOK, OncePerTask, NEW t \in Tasks, Sending(t)
    PROVE  /\ Kept(t)
           /\ \/ Drops(t)
              \/ \E m \in Messages :
                    Recognizes(t, m) \/ Reports(t, m) \/ Traces(t, m) \/ Passes(t, m)
           /\ UNCHANGED <<segVars, queueVars, commitVars, workerDone>>
<1>1. UNCHANGED <<segVars, queueVars, commitVars, workerDone>>
  BY DEF Sending, Transcription, Transcribed, Granted, Written, ReportClosed, stopVars
<1>2. CASE Transcribed(t)
  BY <1>1, <1>2, TranscribedDoes
<1>3. CASE Granted(t)
  BY <1>1, <1>3, GrantedDoes
<1>4. CASE Written(t)
  BY <1>1, <1>4, WrittenDoes
<1>5. CASE t = "loop" /\ ReportClosed
  BY <1>1, <1>5, ReportClosedDoes
<1> QED BY <1>2, <1>3, <1>4, <1>5 DEF Sending, Transcription

\* A cancelled partial leaves the line, which stays in order.
LEMMA CancelDoes ==
    ASSUME TypeOK, OncePerTask, CancelPartial
    PROVE  /\ lock' \in Seq(Tasks) /\ Distinct(lock')
           /\ ToSet(lock') = ToSet(lock) \ {"partial"}
           /\ Head(lock) # "partial" => Head(lock') = Head(lock)
           /\ \A r, s : Before(lock', r, s) => Before(lock, r, s)
<1>1. lock \in Seq(Tasks) /\ Distinct(lock)
  BY DEF TypeOK, OncePerTask
<1>2. CASE (\A i \in DOMAIN lock : lock[i] # "partial") /\ UNCHANGED lock
  BY <1>1, <1>2 DEF ToSet
<1>3. CASE \E i \in DOMAIN lock : lock[i] = "partial" /\ lock' = RemoveAt(lock, i)
  BY <1>1, <1>3, LineRemove
<1> QED BY <1>2, <1>3 DEF CancelPartial

\* When all that is taken out of the line is a partial, and nobody else writes
\* or waits anew, it stays in order.
LEMMA CancelledLine ==
    ASSUME TypeOK, OncePerTask, CancelPartial, job' \in [Tasks -> Jobs],
           \A r \in Tasks : job'[r] = job[r] \/ job'[r].at \in {"idle", "asr"},
           \A r \in Tasks \ {"partial"} : job[r].at \in {"lock", "write"} => job'[r] = job[r],
           job'["partial"] = Idle
    PROVE  InLine(lock', job')
<1>1. /\ lock' \in Seq(Tasks) /\ Distinct(lock')
      /\ ToSet(lock') = ToSet(lock) \ {"partial"}
      /\ Head(lock) # "partial" => Head(lock') = Head(lock)
  BY CancelDoes
<1>2. \A r \in Tasks : r \in ToSet(lock') <=> job'[r].at \in {"lock", "write"}
  <2> SUFFICES ASSUME NEW r \in Tasks
               PROVE  r \in ToSet(lock') <=> job'[r].at \in {"lock", "write"}
    OBVIOUS
  <2>1. CASE r = "partial"
    BY <1>1, <2>1 DEF Idle
  <2>2. CASE r # "partial"
    BY <1>1, <2>2, LineInOrder DEF InLine
  <2> QED BY <2>1, <2>2
<1>3. ASSUME NEW r \in Tasks, job'[r].at = "write" PROVE r = Head(lock')
  <2>1. r # "partial" /\ job'[r] = job[r]
    BY <1>3 DEF Idle
  <2>2. r = Head(lock)
    BY <1>3, <2>1, LineInOrder DEF InLine
  <2> QED BY <1>1, <2>1, <2>2
<1> QED BY <1>1, <1>2, <1>3 DEF InLine

\* A final cancels the partial, and is transcribed by an idle task.
LEMMA HandleFinalDoes ==
    ASSUME TypeOK, OncePerTask, NEW t \in {"worker", "loop"}, job[t] = Idle,
           event'.utterance \in Nat, HandleFinal(t)
    PROVE  /\ job' \in [Tasks -> Jobs]
           /\ job'["partial"] = Idle
           /\ job'[t].at = "asr" /\ job'[t].type = "asr.final"
           /\ job'[t].utterance = event'.utterance
           /\ \A r \in Tasks : r # t /\ r # "partial" => job'[r] = job[r]
           /\ InLine(lock', job')
<1> DEFINE x == Result("asr.final", event'.utterance)
<1>1. x \in Jobs /\ x.at = "asr" /\ x.type = "asr.final" /\ x.utterance = event'.utterance
  BY DEF Result, Jobs, Results
<1>2. job \in [Tasks -> Jobs] /\ Idle \in Jobs /\ Idle.at = "idle"
      /\ t \in Tasks /\ "partial" \in Tasks /\ t # "partial"
  BY DEF TypeOK, Jobs, Idle, Tasks
<1>3. job' = [job EXCEPT !["partial"] = Idle, ![t] = x] /\ CancelPartial
  BY DEF HandleFinal
<1> HIDE DEF x
<1>4. /\ job' \in [Tasks -> Jobs] /\ job'["partial"] = Idle /\ job'[t] = x
      /\ \A r \in Tasks : r # t /\ r # "partial" => job'[r] = job[r]
  BY <1>1, <1>2, <1>3
<1>5. \A r \in Tasks : job'[r] = job[r] \/ job'[r].at \in {"idle", "asr"}
  BY <1>1, <1>2, <1>4
<1>6. \A r \in Tasks \ {"partial"} : job[r].at \in {"lock", "write"} => job'[r] = job[r]
  BY <1>2, <1>4
<1>7. InLine(lock', job')
  BY <1>3, <1>4, <1>5, <1>6, CancelledLine
<1> QED BY <1>1, <1>4, <1>7

\* A partial is transcribed by its own task, if that is idle.
LEMMA HandlePartialDoes ==
    ASSUME TypeOK, OncePerTask, event'.utterance \in Nat, HandlePartial
    PROVE  /\ job' \in [Tasks -> Jobs]
           /\ \A r \in Tasks : r # "partial" => job'[r] = job[r]
           /\ \/ job' = job
              \/ /\ job["partial"] = Idle
                 /\ job'["partial"].at = "asr" /\ job'["partial"].type = "asr.partial"
                 /\ job'["partial"].utterance = event'.utterance
           /\ InLine(lock', job')
<1> DEFINE x == Result("asr.partial", event'.utterance)
<1>1. x \in Jobs /\ x.at = "asr" /\ x.type = "asr.partial" /\ x.utterance = event'.utterance
  BY DEF Result, Jobs, Results
<1>2. job \in [Tasks -> Jobs] /\ Idle.at = "idle" /\ "partial" \in Tasks /\ lock' = lock
  BY DEF TypeOK, Idle, Tasks, HandlePartial
<1>3. job' = job \/ (job["partial"] = Idle /\ job' = [job EXCEPT !["partial"] = x])
  BY DEF HandlePartial
<1> HIDE DEF x
<1>4. /\ job' \in [Tasks -> Jobs] /\ \A r \in Tasks : r # "partial" => job'[r] = job[r]
      /\ job' = job \/ (job["partial"] = Idle /\ job'["partial"] = x)
  BY <1>1, <1>2, <1>3
<1>5. InLine(lock', job')
  BY <1>1, <1>2, <1>4, LineInOrder DEF InLine
<1> QED BY <1>1, <1>4, <1>5

\* When the session stops, the partial is cancelled.
LEMMA JoinedDoes ==
    ASSUME TypeOK, OncePerTask, Joined
    PROVE  /\ job' \in [Tasks -> Jobs] /\ job'["partial"] = Idle
           /\ \A r \in Tasks : r # "partial" => job'[r] = job[r]
           /\ InLine(lock', job')
<1>1. job \in [Tasks -> Jobs] /\ Idle \in Jobs /\ "partial" \in Tasks
  BY DEF TypeOK, Jobs, Tasks
<1>2. job' = [job EXCEPT !["partial"] = Idle] /\ CancelPartial
  BY DEF Joined
<1>3. /\ job' \in [Tasks -> Jobs] /\ job'["partial"] = Idle
      /\ \A r \in Tasks : r # "partial" => job'[r] = job[r]
  BY <1>1, <1>2
<1>4. InLine(lock', job')
  BY <1>2, <1>3, CancelledLine DEF Idle
<1> QED BY <1>3, <1>4

-----------------------------------------------------------------------------
(* Every step preserves the invariant: one lemma for each conjunct.        *)

\* The ranges of the other variables.
Ranges ==
    /\ open \in Nat /\ count \in Nat /\ arrived \in Nat /\ queued \in Nat /\ commits \in Nat
    /\ queued <= QueueMax
    /\ event \in [kind : {"none", "partial", "final"}, utterance : Nat]
    /\ sentinel \in BOOLEAN /\ workerDone \in BOOLEAN
    /\ phase \in {"running", "putting", "joining", "closing", "closed"}
    /\ manual \in SUBSET Nat

\* The type invariant, as these ranges and an orderly line.
LEMMA TypedSo ==
    /\ TypeOK => Ranges /\ sequence \in Nat
    /\ Ranges' /\ sequence' \in Nat /\ job' \in [Tasks -> Jobs] /\ InLine(lock', job')
       /\ sent' \in Seq(Messages) => TypeOK' /\ OncePerTask'
<1>1. TypeOK => Ranges /\ sequence \in Nat
  BY DEF TypeOK, Ranges
<1>2. ASSUME Ranges', sequence' \in Nat, job' \in [Tasks -> Jobs], InLine(lock', job'),
             sent' \in Seq(Messages)
      PROVE  TypeOK' /\ OncePerTask'
  <2>1. ToSet(lock') \subseteq Tasks
    BY <1>2 DEF InLine, ToSet
  <2>2. ToSet(lock') = {t \in Tasks : job'[t].at \in {"lock", "write"}}
    BY <1>2, <2>1 DEF InLine
  <2>3. /\ lock' \in Seq(Tasks) /\ Distinct(lock')
        /\ \A t \in Tasks : job'[t].at = "write" => t = Head(lock')
    BY <1>2 DEF InLine
  <2> QED BY <1>2, <2>2, <2>3 DEF TypeOK, Ranges, OncePerTask, Distinct
<1> QED BY <1>1, <1>2

\* What a call of the segmenter returns.
LEMMA SegmenterSteps ==
    ASSUME Ranges, Seg!Quiet \/ Seg!Start \/ Seg!Partial \/ Seg!Final
    PROVE  /\ open' \in Nat /\ count' \in Nat
           /\ event' \in [kind : {"none", "partial", "final"}, utterance : Nat]
           /\ event'.utterance \in Nat
BY DEF Ranges, Seg!Quiet, Seg!Start, Seg!Partial, Seg!Final, Seg!Nothing

\* The ranges are kept.
LEMMA RangesStep == ASSUME TypeOK, [Next]_vars PROVE Ranges'
<1> USE BoundsAssumption
<1>0. Ranges
  BY TypedSo
<1>1. ASSUME OnPcm PROVE Ranges'
  BY <1>0, <1>1 DEF OnPcm, Ranges, segVars, stopVars, commitVars
<1>2. ASSUME ProcessAudio PROVE Ranges'
  <2>1. Seg!Quiet \/ Seg!Start \/ Seg!Partial \/ Seg!Final
    BY <1>2 DEF ProcessAudio
  <2> QED BY <1>0, <1>2, <2>1, SegmenterSteps DEF ProcessAudio, Ranges, stopVars, commitVars
<1>3. ASSUME WorkerEnd PROVE Ranges'
  BY <1>0, <1>3 DEF WorkerEnd, Ranges, segVars, commitVars
<1>4. ASSUME Commit PROVE Ranges'
  <2>1. Seg!Quiet \/ Seg!Final
    BY <1>4 DEF Commit
  <2>2. commits' \in Nat /\ manual' \in SUBSET Nat
    <3>1. manual' = manual \/ manual' = manual \cup {open}
      BY <1>4 DEF Commit
    <3>2. commits' \in Nat
      BY <1>0, <1>4 DEF Commit, Ranges
    <3> QED BY <1>0, <3>1, <3>2 DEF Ranges
  <2> QED BY <1>0, <1>4, <2>1, <2>2, SegmenterSteps DEF Commit, Ranges, queueVars, stopVars
<1>5. ASSUME Stop \/ PutSentinel \/ Joined PROVE Ranges'
  BY <1>0, <1>5 DEF Stop, PutSentinel, Joined, Ranges, segVars, queueVars, commitVars
<1>6. ASSUME NEW t \in Tasks, Sending(t) PROVE Ranges'
  <2>1. phase' \in {phase, "closed"}
    BY <1>6 DEF Sending, Transcription, Transcribed, Granted, Written, ReportClosed, stopVars
  <2>2. UNCHANGED <<segVars, queueVars, commitVars, workerDone>>
    BY <1>6 DEF Sending, Transcription, Transcribed, Granted, Written, ReportClosed, stopVars
  <2> QED BY <1>0, <2>1, <2>2 DEF Ranges, segVars, queueVars, commitVars
<1>7. ASSUME UNCHANGED vars PROVE Ranges'
  BY <1>0, <1>7 DEF Ranges, vars, segVars, queueVars, stopVars, commitVars
<1>8. ASSUME ReportClosed PROVE Ranges'
  BY <1>6, <1>8 DEF Sending, Tasks
<1> QED BY <1>1, <1>2, <1>3, <1>4, <1>5, <1>6, <1>7, <1>8 DEF Next, Loop, Sending

\* The type invariant is kept, and the line at the lock stays in order.
LEMMA TypeStep == ASSUME TypeOK, OncePerTask, [Next]_vars PROVE TypeOK' /\ OncePerTask'
<1> DEFINE Typed == /\ sequence \in Nat /\ job \in [Tasks -> Jobs] /\ InLine(lock, job)
                    /\ sent \in Seq(Messages)
<1>0. Ranges /\ Typed
  BY TypedSo, LineInOrder DEF TypeOK
<1>1. ASSUME UNCHANGED <<job, lock, sent, sequence>> PROVE Typed'
  BY <1>0, <1>1 DEF InLine
<1>2. ASSUME ProcessAudio PROVE Typed'
  <2>1. /\ Seg!Quiet \/ Seg!Start \/ Seg!Partial \/ Seg!Final
        /\ sequence' = sequence /\ sent' = sent /\ job["worker"] = Idle
    BY <1>2 DEF ProcessAudio
  <2>2. event'.utterance \in Nat
    BY <1>0, <2>1, SegmenterSteps
  <2>3. CASE UNCHANGED <<job, lock>>
    BY <1>1, <2>1, <2>3
  <2>4. CASE HandlePartial
    BY <1>0, <2>1, <2>2, <2>4, HandlePartialDoes
  <2>5. CASE HandleFinal("worker")
    BY <1>0, <2>1, <2>2, <2>5, HandleFinalDoes
  <2> QED BY <1>2, <2>3, <2>4, <2>5 DEF ProcessAudio
<1>3. ASSUME Commit PROVE Typed'
  <2>1. /\ Seg!Quiet \/ Seg!Final
        /\ sequence' = sequence /\ sent' = sent /\ job["loop"] = Idle
    BY <1>3 DEF Commit
  <2>2. event'.utterance \in Nat
    BY <1>0, <2>1, SegmenterSteps
  <2>3. CASE UNCHANGED <<job, lock>>
    BY <1>1, <2>1, <2>3
  <2>4. CASE HandleFinal("loop")
    BY <1>0, <2>1, <2>2, <2>4, HandleFinalDoes
  <2> QED BY <1>3, <2>3, <2>4 DEF Commit
<1>4. ASSUME Joined PROVE Typed'
  BY <1>0, <1>4, JoinedDoes DEF Joined
<1>5. ASSUME NEW t \in Tasks, Sending(t) PROVE Typed'
  <2>1. Kept(t) /\ (sequence' = sequence \/ sequence' = sequence + 1)
    BY <1>5, SendStep DEF Recognizes, Reports, Traces, Passes, Drops
  <2> QED BY <1>0, <2>1 DEF Kept
<1>6. ASSUME OnPcm \/ WorkerEnd \/ Stop \/ PutSentinel \/ UNCHANGED vars PROVE Typed'
  BY <1>1, <1>6 DEF OnPcm, WorkerEnd, Stop, PutSentinel, vars, sendVars
<1>7. ASSUME ReportClosed PROVE Typed'
  BY <1>5, <1>7 DEF Sending, Tasks
<1>8. Typed'
  BY <1>2, <1>3, <1>4, <1>5, <1>6, <1>7 DEF Next, Loop, Sending
<1>9. Ranges'
  BY RangesStep
<1> QED BY <1>8, <1>9, TypedSo

\* What is in flight after a step.
LEMMA FlightKept ==
    ASSUME NEW r \in Tasks, job'[r] = job[r]
    PROVE  \A type, u : InFlight(r, type, u)' <=> InFlight(r, type, u)
BY DEF InFlight

\* A task that sends is left with no result about what it has sent.
LEMMA FlightAfterSend ==
    ASSUME TypeOK, OncePerTask, NEW t \in Tasks, Sending(t)
    PROVE  /\ \A r \in Tasks, type \in Results, u \in Nat :
                 InFlight(r, type, u)' => InFlight(r, type, u)
           /\ \/ sent' = sent
              \/ \E m \in Messages :
                    /\ sent' = Append(sent, m)
                    /\ IsResult(m) => InFlight(t, m.type, m.utterance)
                    /\ \A type \in Results, u \in Nat : ~InFlight(t, type, u)'
<1> USE DEF Posts
<1>1. \A r \in Tasks : r # t => \A type, u : InFlight(r, type, u)' <=> InFlight(r, type, u)
  BY SendStep, FlightKept DEF Kept
<1>2. CASE Drops(t)
  <2>1. \A type, u : ~InFlight(t, type, u)'
    BY <1>2 DEF Drops, InFlight, Idle
  <2> QED BY <1>1, <1>2, <2>1 DEF Drops
<1>3. ASSUME NEW m \in Messages, Recognizes(t, m) \/ Reports(t, m) \/ Traces(t, m) \/ Passes(t, m)
      PROVE  /\ \A type \in Results, u \in Nat : InFlight(t, type, u)' => InFlight(t, type, u)
             /\ \/ sent' = sent
                \/ /\ sent' = Append(sent, m)
                   /\ IsResult(m) => InFlight(t, m.type, m.utterance)
                   /\ \A type \in Results, u \in Nat : ~InFlight(t, type, u)'
  <2>1. CASE Recognizes(t, m)
    BY <2>1 DEF Recognizes, InFlight, Results
  <2>2. CASE Reports(t, m)
    BY <2>2 DEF Reports, InFlight, Results, IsResult
  <2>3. CASE Traces(t, m)
    BY <2>3 DEF Traces, InFlight, Results, IsResult
  <2>4. CASE Passes(t, m)
    BY <2>4 DEF Passes, InFlight, Results
  <2> QED BY <1>3, <2>1, <2>2, <2>3, <2>4
<1> QED BY <1>1, <1>2, <1>3, SendStep

\* A final begun is the only new result under way.
LEMMA FlightAfterFinal ==
    ASSUME TypeOK, OncePerTask, Ranges, NEW t \in {"worker", "loop"}, job[t] = Idle,
           Seg!Final, HandleFinal(t)
    PROVE  \A r \in Tasks, type \in Results, u \in Nat : InFlight(r, type, u)' =>
              \/ r = t /\ type = "asr.final" /\ u = open
              \/ r # t /\ r # "partial" /\ InFlight(r, type, u)
<1>1. event'.utterance = open /\ open \in Nat
  BY DEF Seg!Final, Ranges
<1>2. /\ job'["partial"] = Idle
      /\ job'[t].at = "asr" /\ job'[t].type = "asr.final" /\ job'[t].utterance = open
      /\ \A r \in Tasks : r # t /\ r # "partial" => job'[r] = job[r]
  BY <1>1, HandleFinalDoes
<1>3. \A r \in Tasks : r # t /\ r # "partial" =>
         \A type, u : InFlight(r, type, u)' <=> InFlight(r, type, u)
  BY <1>2, FlightKept
<1>4. \A type, u : ~InFlight("partial", type, u)'
  BY <1>2 DEF InFlight, Idle
<1>5. \A type, u : InFlight(t, type, u)' => type = "asr.final" /\ u = open
  BY <1>2 DEF InFlight
<1> QED BY <1>3, <1>4, <1>5

\* A partial begun is about the open utterance.
LEMMA FlightAfterPartial ==
    ASSUME TypeOK, OncePerTask, Ranges, Seg!Partial, HandlePartial
    PROVE  \A r \in Tasks, type \in Results, u \in Nat : InFlight(r, type, u)' =>
              \/ r = "partial" /\ type = "asr.partial" /\ u = open
              \/ InFlight(r, type, u)
<1>1. event'.utterance = open /\ open \in Nat
  BY DEF Seg!Partial, Ranges
<1>2. /\ \A r \in Tasks : r # "partial" => job'[r] = job[r]
      /\ \/ job' = job
         \/ /\ job'["partial"].at = "asr" /\ job'["partial"].type = "asr.partial"
            /\ job'["partial"].utterance = open
  BY <1>1, HandlePartialDoes
<1>3. \A r \in Tasks : r # "partial" =>
         \A type, u : InFlight(r, type, u)' <=> InFlight(r, type, u)
  BY <1>2, FlightKept
<1>4. \A type, u : InFlight("partial", type, u)' =>
         (type = "asr.partial" /\ u = open) \/ InFlight("partial", type, u)
  BY <1>2 DEF InFlight
<1> QED BY <1>3, <1>4

\* The cancelled partial has nothing under way.
LEMMA FlightAfterJoined ==
    ASSUME TypeOK, OncePerTask, Joined
    PROVE  \A r \in Tasks : \A type, u :
              InFlight(r, type, u)' => r # "partial" /\ InFlight(r, type, u)
<1>1. job'["partial"] = Idle /\ \A r \in Tasks : r # "partial" => job'[r] = job[r]
  BY JoinedDoes
<1>2. \A r \in Tasks : r # "partial" =>
         \A type, u : InFlight(r, type, u)' <=> InFlight(r, type, u)
  BY <1>1, FlightKept
<1>3. \A type, u : ~InFlight("partial", type, u)'
  BY <1>1 DEF InFlight, Idle
<1> QED BY <1>2, <1>3

\* The open utterance is the last one.
LEMMA OpenIsLastStep == ASSUME TypeOK, OpenIsLast, [Next]_vars PROVE OpenIsLast'
<1> USE DEF OpenIsLast
<1>1. ASSUME ProcessAudio \/ Commit PROVE OpenIsLast'
  BY <1>1, TypedSo DEF ProcessAudio, Commit, Seg!Quiet, Seg!Start, Seg!Partial, Seg!Final, Ranges
<1>2. ASSUME UNCHANGED segVars PROVE OpenIsLast'
  BY <1>2 DEF segVars
<1> QED
  BY <1>1, <1>2 DEF Next, Loop, Transcription, Transcribed, Granted, Written, ReportClosed,
     OnPcm, WorkerEnd, Stop, PutSentinel, Joined, vars

\* What is under way stays where its task may have it.
LEMMA DueInPlaceStep ==
    ASSUME TypeOK, OncePerTask, OpenIsLast, DueInPlace, [Next]_vars
    PROVE  DueInPlace'
<1> DEFINE P(t, type, u) ==
              /\ u \in 1 .. count
              /\ IF t = "partial" THEN type = "asr.partial" /\ u = open
                 ELSE /\ type = "asr.final" /\ u # open
                      /\ t = "worker" => open = 0 /\ u = count
                      /\ t = "loop" => u \in manual
<1>0. Ranges /\ \A t \in Tasks, type \in Results, u \in Nat : InFlight(t, type, u) => P(t, type, u)
  BY TypedSo DEF DueInPlace
<1>1. ASSUME UNCHANGED <<open, count, manual>>,
             \A t \in Tasks, type \in Results, u \in Nat :
                InFlight(t, type, u)' => InFlight(t, type, u)
      PROVE  DueInPlace'
  <2>1. ASSUME NEW t \in Tasks, NEW type \in Results, NEW u \in Nat, InFlight(t, type, u)'
        PROVE  P(t, type, u)'
    BY <1>0, <1>1, <2>1
  <2> QED BY <2>1 DEF DueInPlace
<1>2. ASSUME UNCHANGED <<open, count, manual, job>> PROVE DueInPlace'
  BY <1>1, <1>2, FlightKept
<1>3. ASSUME NEW t \in Tasks, Sending(t) PROVE DueInPlace'
  BY <1>1, <1>3, SendStep, FlightAfterSend DEF segVars, commitVars
<1>4. ASSUME Joined PROVE DueInPlace'
  BY <1>1, <1>4, FlightAfterJoined DEF Joined, segVars, commitVars
<1>5. ASSUME ProcessAudio PROVE DueInPlace'
  <2>1. job["worker"] = Idle /\ manual' = manual
    BY <1>5 DEF ProcessAudio, commitVars
  <2>2. CASE Seg!Quiet /\ UNCHANGED job
    BY <1>2, <2>1, <2>2 DEF Seg!Quiet
  <2>3. CASE Seg!Start /\ UNCHANGED job
    <3>1. \A t \in Tasks, type \in Results, u \in Nat :
             InFlight(t, type, u)' => InFlight(t, type, u)
      BY <2>3, FlightKept
    <3>2. \A type, u : ~InFlight("worker", type, u)
      BY <2>1 DEF InFlight, Idle
    <3>3. open = 0 /\ count' = count + 1 /\ open' = count + 1 /\ count \in Nat
      BY <1>0, <2>3 DEF Seg!Start, Ranges
    <3>4. ASSUME NEW t \in Tasks, NEW type \in Results, NEW u \in Nat, InFlight(t, type, u)'
          PROVE  P(t, type, u)'
      <4>1. InFlight(t, type, u) /\ t # "worker"
        BY <3>1, <3>2, <3>4
      <4>2. P(t, type, u)
        BY <1>0, <4>1
      <4> QED BY <2>1, <3>3, <4>1, <4>2
    <3> QED BY <3>4 DEF DueInPlace
  <2>4. CASE Seg!Partial /\ HandlePartial
    <3>1. \A r \in Tasks, type \in Results, u \in Nat : InFlight(r, type, u)' =>
              \/ r = "partial" /\ type = "asr.partial" /\ u = open
              \/ InFlight(r, type, u)
      BY <1>0, <2>4, FlightAfterPartial
    <3>2. open # 0 /\ open' = open /\ count' = count /\ open \in 1 .. count
      BY <1>0, <2>4 DEF Seg!Partial, OpenIsLast, Ranges
    <3>3. ASSUME NEW t \in Tasks, NEW type \in Results, NEW u \in Nat, InFlight(t, type, u)'
          PROVE  P(t, type, u)'
      BY <1>0, <2>1, <3>1, <3>2, <3>3
    <3> QED BY <3>3 DEF DueInPlace
  <2>5. CASE Seg!Final /\ HandleFinal("worker")
    <3>1. \A r \in Tasks, type \in Results, u \in Nat : InFlight(r, type, u)' =>
              \/ r = "worker" /\ type = "asr.final" /\ u = open
              \/ r # "worker" /\ r # "partial" /\ InFlight(r, type, u)
      BY <1>0, <2>1, <2>5, FlightAfterFinal
    <3>2. open # 0 /\ open' = 0 /\ count' = count /\ open \in 1 .. count /\ open = count
      BY <1>0, <2>5 DEF Seg!Final, OpenIsLast, Ranges
    <3>3. ASSUME NEW t \in Tasks, NEW type \in Results, NEW u \in Nat, InFlight(t, type, u)'
          PROVE  P(t, type, u)'
      BY <1>0, <2>1, <3>1, <3>2, <3>3
    <3> QED BY <3>3 DEF DueInPlace
  <2> QED BY <1>5, <2>2, <2>3, <2>4, <2>5 DEF ProcessAudio
<1>6. ASSUME Commit PROVE DueInPlace'
  <2>1. job["loop"] = Idle
    BY <1>6 DEF Commit
  <2>2. CASE Seg!Quiet /\ UNCHANGED <<job, manual>>
    BY <1>2, <2>2 DEF Seg!Quiet
  <2>3. CASE Seg!Final /\ HandleFinal("loop") /\ manual' = manual \cup {open}
    <3>1. \A r \in Tasks, type \in Results, u \in Nat : InFlight(r, type, u)' =>
              \/ r = "loop" /\ type = "asr.final" /\ u = open
              \/ r # "loop" /\ r # "partial" /\ InFlight(r, type, u)
      BY <1>0, <2>1, <2>3, FlightAfterFinal
    <3>2. open # 0 /\ open' = 0 /\ count' = count /\ open \in 1 .. count /\ open \in manual'
      BY <1>0, <2>3 DEF Seg!Final, OpenIsLast, Ranges
    <3>3. ASSUME NEW t \in Tasks, NEW type \in Results, NEW u \in Nat, InFlight(t, type, u)'
          PROVE  P(t, type, u)'
      BY <1>0, <2>3, <3>1, <3>2, <3>3
    <3> QED BY <3>3 DEF DueInPlace
  <2> QED BY <1>6, <2>2, <2>3 DEF Commit
<1>7. ASSUME OnPcm \/ WorkerEnd \/ Stop \/ PutSentinel \/ UNCHANGED vars PROVE DueInPlace'
  BY <1>2, <1>7 DEF OnPcm, WorkerEnd, Stop, PutSentinel, vars, segVars, commitVars
<1>8. ASSUME ReportClosed PROVE DueInPlace'
  BY <1>3, <1>8 DEF Sending, Tasks
<1> QED BY <1>3, <1>4, <1>5, <1>6, <1>7, <1>8 DEF Next, Loop, Sending

\* The wire grows at its end.
LEMMA SentGrows ==
    ASSUME TypeOK, NEW m \in Messages, sent' = Append(sent, m)
    PROVE  /\ DOMAIN sent' = DOMAIN sent \cup {Len(sent) + 1}
           /\ Len(sent) \in Nat /\ Len(sent') = Len(sent) + 1
           /\ \A i \in DOMAIN sent : i \in Nat /\ i < Len(sent) + 1 /\ sent'[i] = sent[i]
           /\ sent'[Len(sent) + 1] = m
BY DEF TypeOK

\* Of two messages the first was there before.
LEMMA EarlierPlace ==
    ASSUME TypeOK, NEW m \in Messages, sent' = Append(sent, m),
           NEW i \in 1 .. Len(sent'), NEW j \in 1 .. Len(sent'), i < j
    PROVE  i \in DOMAIN sent /\ j \in DOMAIN sent \cup {Len(sent) + 1}
<1> DEFINE n == Len(sent)
<1>1. n \in Nat /\ DOMAIN sent = 1 .. n /\ Len(sent') = n + 1
  BY SentGrows DEF TypeOK
<1> HIDE DEF n
<1>2. i \in 1 .. n /\ (j \in 1 .. n \/ j = n + 1)
  BY <1>1
<1> QED BY <1>1, <1>2 DEF n

\* What was sent are messages.
LEMMA SentTyped ==
    ASSUME TypeOK, NEW i \in DOMAIN sent
    PROVE  sent[i] \in Messages /\ sent[i].utterance \in Nat /\ sent[i].seq \in Nat
<1>1. sent[i] \in Messages
  BY DEF TypeOK
<1> QED BY <1>1 DEF Messages

\* An utterance keeps to one final.
LEMMA OneFinalStep ==
    ASSUME TypeOK, OncePerTask, OpenIsLast, DueInPlace, OneFinal, [Next]_vars
    PROVE  OneFinal'
<1> DEFINE F == \A u \in Nat :
                  ~(InFlight("worker", "asr.final", u) /\ InFlight("loop", "asr.final", u))
           P(m) == IsFinal(m) => /\ m.utterance \in 1 .. count
                                 /\ m.utterance # open
                                 /\ \A t \in Tasks, type \in Results :
                                       ~InFlight(t, type, m.utterance)
<1>0. Ranges /\ F /\ \A i \in DOMAIN sent : P(sent[i])
  BY TypedSo DEF OneFinal
<1>1. Tasks = {"worker", "loop", "partial"} /\ Results = {"asr.partial", "asr.final"}
  BY DEF Tasks, Results
<1>2. ASSUME UNCHANGED <<open, count, sent>>,
             \A t \in Tasks, type \in Results, u \in Nat :
                InFlight(t, type, u)' => InFlight(t, type, u)
      PROVE  OneFinal'
  <2>1. F'
    BY <1>0, <1>1, <1>2
  <2>2. ASSUME NEW i \in DOMAIN sent' PROVE P(sent[i])'
    BY <1>0, <1>2, SentTyped
  <2> QED BY <2>1, <2>2 DEF OneFinal
<1>3. ASSUME UNCHANGED <<open, count, sent, job>> PROVE OneFinal'
  BY <1>2, <1>3, FlightKept
<1>4. ASSUME NEW t \in Tasks, Sending(t) PROVE OneFinal'
  <2>1. \A r \in Tasks, type \in Results, u \in Nat :
                 InFlight(r, type, u)' => InFlight(r, type, u)
    BY <1>4, FlightAfterSend
  <2>2. UNCHANGED <<open, count>>
    BY <1>4, SendStep DEF segVars
  <2>3. CASE sent' = sent
    BY <1>2, <2>1, <2>2, <2>3
  <2>4. ASSUME NEW m \in Messages, sent' = Append(sent, m),
               IsResult(m) => InFlight(t, m.type, m.utterance),
               \A type \in Results, u \in Nat : ~InFlight(t, type, u)'
        PROVE  OneFinal'
    <3>1. F'
      BY <1>0, <1>1, <2>1
    <3>2. ASSUME NEW i \in DOMAIN sent PROVE P(sent[i])'
      BY <1>0, <2>1, <2>2, <2>4, <3>2, SentTyped, SentGrows
    <3>3. P(m)'
      <4> SUFFICES ASSUME IsFinal(m) PROVE P(m)'
        OBVIOUS
      <4>1. m.type = "asr.final" /\ m.utterance \in Nat /\ IsResult(m)
        BY DEF IsFinal, IsResult, Results, Messages
      <4> DEFINE u == m.utterance
      <4> HIDE DEF u
      <4>2. InFlight(t, "asr.final", u)
        BY <2>4, <4>1 DEF u
      <4>3. u \in 1 .. count /\ t # "partial" /\ u # open
        BY <1>1, <4>1, <4>2 DEF DueInPlace, u
      <4>4. ASSUME NEW r \in Tasks, NEW type \in Results, InFlight(r, type, u)' PROVE FALSE
        <5>1. InFlight(r, type, u) /\ u \in Nat
          BY <2>1, <4>1, <4>4 DEF u
        <5>2. r # t
          BY <2>4, <4>4, <5>1
        <5>3. r # "partial" /\ type = "asr.final"
          BY <4>3, <5>1 DEF DueInPlace
        <5> QED BY <1>0, <1>1, <4>2, <4>3, <5>1, <5>2, <5>3
      <4> QED BY <2>2, <4>3, <4>4 DEF u
    <3>4. \A i \in DOMAIN sent' : P(sent[i])'
      BY <2>4, <3>2, <3>3, SentGrows
    <3> QED BY <3>1, <3>4 DEF OneFinal
  <2> QED BY <1>4, <2>3, <2>4, FlightAfterSend
<1>5. ASSUME Joined PROVE OneFinal'
  BY <1>2, <1>5, FlightAfterJoined DEF Joined, segVars
<1>6. ASSUME NEW t \in {"worker", "loop"}, job[t] = Idle, Seg!Final, HandleFinal(t), sent' = sent
      PROVE  OneFinal'
  <2>1. \A r \in Tasks, type \in Results, u \in Nat : InFlight(r, type, u)' =>
              \/ r = t /\ type = "asr.final" /\ u = open
              \/ r # t /\ r # "partial" /\ InFlight(r, type, u)
    BY <1>0, <1>6, FlightAfterFinal
  <2>2. open # 0 /\ open' = 0 /\ count' = count /\ open \in Nat
    BY <1>0, <1>6 DEF Seg!Final, Ranges
  <2>3. \A r \in Tasks, type \in Results : r # "partial" => ~InFlight(r, type, open)
    BY <2>2 DEF DueInPlace
  <2>4. F'
    BY <1>0, <1>1, <2>1, <2>3
  <2>5. ASSUME NEW i \in DOMAIN sent PROVE P(sent[i])'
    BY <1>0, <1>6, <2>1, <2>2, SentTyped
  <2> QED BY <1>6, <2>4, <2>5 DEF OneFinal
<1>7. ASSUME ProcessAudio PROVE OneFinal'
  <2>1. job["worker"] = Idle /\ sent' = sent
    BY <1>7 DEF ProcessAudio
  <2>2. CASE Seg!Quiet /\ UNCHANGED job
    BY <1>3, <2>1, <2>2 DEF Seg!Quiet
  <2>3. CASE Seg!Start /\ UNCHANGED job
    <3>1. \A t \in Tasks, type \in Results, u \in Nat :
             InFlight(t, type, u)' => InFlight(t, type, u)
      BY <2>3, FlightKept
    <3>2. open = 0 /\ count' = count + 1 /\ open' = count + 1 /\ count \in Nat
      BY <1>0, <2>3 DEF Seg!Start, Ranges
    <3>3. F'
      BY <1>0, <1>1, <3>1
    <3>4. ASSUME NEW i \in DOMAIN sent PROVE P(sent[i])'
      BY <1>0, <2>1, <3>1, <3>2, SentTyped
    <3> QED BY <2>1, <3>3, <3>4 DEF OneFinal
  <2>4. CASE Seg!Partial /\ HandlePartial
    <3>1. \A r \in Tasks, type \in Results, u \in Nat : InFlight(r, type, u)' =>
              \/ r = "partial" /\ type = "asr.partial" /\ u = open
              \/ InFlight(r, type, u)
      BY <1>0, <2>4, FlightAfterPartial
    <3>2. open' = open /\ count' = count
      BY <2>4 DEF Seg!Partial
    <3>3. F'
      BY <1>0, <1>1, <3>1
    <3>4. ASSUME NEW i \in DOMAIN sent PROVE P(sent[i])'
      BY <1>0, <2>1, <3>1, <3>2, SentTyped
    <3> QED BY <2>1, <3>3, <3>4 DEF OneFinal
  <2> QED BY <1>6, <1>7, <2>1, <2>2, <2>3, <2>4 DEF ProcessAudio
<1>8. ASSUME Commit PROVE OneFinal'
  <2>1. job["loop"] = Idle /\ sent' = sent
    BY <1>8 DEF Commit
  <2>2. CASE Seg!Quiet /\ UNCHANGED job
    BY <1>3, <2>1, <2>2 DEF Seg!Quiet
  <2> QED BY <1>6, <1>8, <2>1, <2>2 DEF Commit
<1>9. ASSUME OnPcm \/ WorkerEnd \/ Stop \/ PutSentinel \/ UNCHANGED vars PROVE OneFinal'
  BY <1>3, <1>9 DEF OnPcm, WorkerEnd, Stop, PutSentinel, vars, segVars, sendVars
<1>10. ASSUME ReportClosed PROVE OneFinal'
  BY <1>4, <1>10 DEF Sending, Tasks
<1> QED BY <1>4, <1>5, <1>7, <1>8, <1>9, <1>10 DEF Next, Loop, Sending

\* Only sending steps write.
LEMMA WhoWrites ==
    ASSUME [Next]_vars
    PROVE  sent' = sent \/ \E t \in Tasks : Sending(t)
BY DEF Next, Loop, Sending, Tasks, OnPcm, ProcessAudio, WorkerEnd, Commit, Stop, PutSentinel,
       Joined, vars, sendVars

\* Two positions in order are a pair that the properties are about.
LEMMA PairsOfPositions ==
    ASSUME TypeOK, NEW i \in DOMAIN sent, NEW j \in DOMAIN sent, i < j
    PROVE  \E p \in Positions : p[1] = i /\ p[2] = j
<1>1. DOMAIN sent = 1 .. Len(sent)
  BY DEF TypeOK
<1>2. <<i, j>> \in Positions /\ <<i, j>>[1] = i /\ <<i, j>>[2] = j
  BY <1>1 DEF Positions
<1> QED BY <1>2

\* FinalIsLast is kept, by OneFinal.
LEMMA FinalIsLastStep ==
    ASSUME TypeOK, OncePerTask, OneFinal, FinalIsLast, [Next]_vars
    PROVE  FinalIsLast'
<1>1. \A i, j \in DOMAIN sent :
         i < j /\ IsFinal(sent[i]) /\ IsResult(sent[j]) => sent[i].utterance # sent[j].utterance
  BY PairsOfPositions DEF FinalIsLast
<1>2. ASSUME sent' = sent PROVE FinalIsLast'
  BY <1>2 DEF FinalIsLast, Positions
<1>3. ASSUME NEW t \in Tasks, Sending(t) PROVE FinalIsLast'
  <2>1. ASSUME NEW m \in Messages, sent' = Append(sent, m),
               IsResult(m) => InFlight(t, m.type, m.utterance)
        PROVE  FinalIsLast'
    <3> SUFFICES ASSUME NEW i \in 1 .. Len(sent'), NEW j \in 1 .. Len(sent'), i < j,
                        IsFinal(sent'[i]), IsResult(sent'[j])
                 PROVE  sent'[i].utterance # sent'[j].utterance
      BY DEF FinalIsLast, Positions
    <3>1. i \in DOMAIN sent /\ j \in DOMAIN sent \cup {Len(sent) + 1}
      BY <2>1, EarlierPlace
    <3>2. sent'[i] = sent[i]
      BY <2>1, <3>1, SentGrows
    <3>3. CASE j \in DOMAIN sent
      BY <1>1, <2>1, <3>1, <3>2, <3>3, SentGrows
    <3>4. CASE j = Len(sent) + 1
      <4>1. sent'[j] = m
        BY <2>1, <3>4, SentGrows
      <4>2. InFlight(t, m.type, m.utterance) /\ m.type \in Results
        BY <2>1, <4>1 DEF IsResult
      <4> QED BY <3>1, <3>2, <4>1, <4>2 DEF OneFinal
    <3> QED BY <3>1, <3>3, <3>4
  <2> QED BY <1>2, <1>3, <2>1, FlightAfterSend
<1> QED BY <1>2, <1>3, WhoWrites

\* FinalsInOrder is kept: only what a commit has cut is overtaken.
LEMMA FinalsInOrderStep ==
    ASSUME TypeOK, OncePerTask, DueInPlace, OneFinal, FinalsInOrder, [Next]_vars
    PROVE  FinalsInOrder'
<1>1. \A i, j \in DOMAIN sent :
         /\ i < j /\ IsFinal(sent[i]) /\ IsFinal(sent[j])
         /\ sent[i].utterance > sent[j].utterance
         => sent[j].utterance \in manual
  BY PairsOfPositions DEF FinalsInOrder
<1>2. manual \subseteq manual'
  BY DEF Next, Loop, Transcription, Transcribed, Granted, Written, ReportClosed,
     OnPcm, WorkerEnd, Stop, PutSentinel, Joined, Commit, ProcessAudio, vars, commitVars
<1>3. ASSUME sent' = sent PROVE FinalsInOrder'
  BY <1>2, <1>3 DEF FinalsInOrder, Positions
<1>4. ASSUME NEW t \in Tasks, Sending(t) PROVE FinalsInOrder'
  <2>1. ASSUME NEW m \in Messages, sent' = Append(sent, m),
               IsResult(m) => InFlight(t, m.type, m.utterance)
        PROVE  FinalsInOrder'
    <3> SUFFICES ASSUME NEW i \in 1 .. Len(sent'), NEW j \in 1 .. Len(sent'), i < j,
                        IsFinal(sent'[i]), IsFinal(sent'[j]),
                        sent'[i].utterance > sent'[j].utterance
                 PROVE  sent'[j].utterance \in manual'
      BY DEF FinalsInOrder, Positions
    <3>1. i \in DOMAIN sent /\ j \in DOMAIN sent \cup {Len(sent) + 1}
      BY <2>1, EarlierPlace
    <3>2. sent'[i] = sent[i]
      BY <2>1, <3>1, SentGrows
    <3>3. CASE j \in DOMAIN sent
      BY <1>1, <1>2, <2>1, <3>1, <3>2, <3>3, SentGrows
    <3>4. CASE j = Len(sent) + 1
      <4>1. sent'[j] = m /\ m.type = "asr.final" /\ m.utterance \in Nat
        BY <2>1, <3>4, SentGrows DEF IsFinal, Messages
      <4>2. InFlight(t, "asr.final", m.utterance)
        BY <2>1, <4>1 DEF IsResult, Results
      <4>3. /\ t = "worker" => m.utterance = count
            /\ t = "loop" => m.utterance \in manual
            /\ t # "partial"
        BY <4>1, <4>2 DEF DueInPlace, Results
      <4>4. sent[i].utterance \in 1 .. count /\ count \in Nat
        BY <3>1, <3>2, TypedSo DEF OneFinal, Ranges
      <4> QED BY <1>2, <3>2, <4>1, <4>3, <4>4 DEF Tasks
    <3> QED BY <3>1, <3>3, <3>4
  <2> QED BY <1>3, <1>4, <2>1, FlightAfterSend
<1> QED BY <1>3, <1>4, WhoWrites

\* Steps that draw no number and write no result leave the order as it is.
LEMMA NumbersKept ==
    ASSUME TypeOK, NumbersInLine, sequence' = sequence,
           \A i \in DOMAIN sent' : IsResult(sent'[i]) => \E k \in DOMAIN sent : sent[k] = sent'[i],
           \A r \in Tasks : Waiting(r)' => Waiting(r) /\ job'[r] = job[r],
           \A r, s \in Tasks : Waiting(s)' /\ Before(lock', r, s) => Before(lock, r, s)
    PROVE  NumbersInLine'
<1>1. \A i \in DOMAIN sent' : IsResult(sent'[i]) => sent'[i].seq <= sequence
  BY DEF NumbersInLine
<1>2. \A t \in Tasks : Waiting(t)' => job'[t].message.seq <= sequence
  BY DEF NumbersInLine
<1>3. \A i \in DOMAIN sent', t \in Tasks :
         IsResult(sent'[i]) /\ Waiting(t)' => sent'[i].seq < job'[t].message.seq
  BY DEF NumbersInLine
<1>4. \A r, t \in Tasks : Waiting(r)' /\ Waiting(t)' /\ Before(lock', r, t) =>
         job'[r].message.seq < job'[t].message.seq
  BY DEF NumbersInLine
<1>5. \A r, t : Before(lock, r, t)' <=> Before(lock', r, t)
  BY DEF Before
<1>6. \A i \in DOMAIN sent' : IsResult(sent[i])' <=> IsResult(sent'[i])
  BY DEF IsResult, Results
<1> QED BY <1>1, <1>2, <1>3, <1>4, <1>5, <1>6 DEF NumbersInLine

\* A task that does not join the line does not begin to wait.
LEMMA WaitingKept ==
    ASSUME NEW r \in Tasks, job'[r] = job[r] \/ job'[r].at \in {"idle", "asr", "write"}
    PROVE  Waiting(r)' => Waiting(r) /\ job'[r] = job[r]
BY DEF Waiting

\* The tasks in a line.
LEMMA BeforeInLine ==
    ASSUME NEW q, NEW r, NEW s, Before(q, r, s)
    PROVE  r \in ToSet(q) /\ s \in ToSet(q)
BY DEF Before, ToSet

\* Nobody waits when nobody holds the lock.
LEMMA WaitingInLine ==
    ASSUME TypeOK, OncePerTask, NEW r \in Tasks, Waiting(r)
    PROVE  r \in ToSet(lock) /\ lock # <<>>
<1>1. r \in ToSet(lock)
  BY LineInOrder DEF Waiting, InLine
<1> QED BY <1>1, EmptyLine

\* The line keeps the order of the numbers.
LEMMA NumbersInLineStep ==
    ASSUME TypeOK, OncePerTask, NumbersInLine, [Next]_vars
    PROVE  NumbersInLine'
<1>0. Ranges /\ lock \in Seq(Tasks) /\ Distinct(lock) /\ sequence \in Nat
  BY TypedSo DEF TypeOK, OncePerTask
<1>1. ASSUME UNCHANGED <<sequence, sent>>,
             \A r \in Tasks : job'[r] = job[r] \/ job'[r].at \in {"idle", "asr", "write"},
             \A r, s \in Tasks : Before(lock', r, s) => Before(lock, r, s)
      PROVE  NumbersInLine'
  BY <1>1, WaitingKept, NumbersKept
<1>2. ASSUME UNCHANGED <<sequence, sent, job, lock>> PROVE NumbersInLine'
  BY <1>1, <1>2
<1>3. ASSUME ProcessAudio PROVE NumbersInLine'
  <2>1. UNCHANGED <<sequence, sent>> /\ job["worker"] = Idle
    BY <1>3 DEF ProcessAudio
  <2>2. CASE UNCHANGED <<job, lock>>
    BY <1>2, <2>1, <2>2
  <2>3. CASE Seg!Partial /\ HandlePartial
    <3>1. event'.utterance \in Nat
      BY <1>0, <2>3, SegmenterSteps
    <3>2. \A r \in Tasks : job'[r] = job[r] \/ job'[r].at \in {"idle", "asr", "write"}
      BY <2>3, <3>1, HandlePartialDoes
    <3> QED BY <1>1, <2>1, <2>3, <3>2 DEF HandlePartial
  <2>4. CASE Seg!Final /\ HandleFinal("worker")
    <3>1. event'.utterance \in Nat
      BY <1>0, <2>4, SegmenterSteps
    <3>2. \A r \in Tasks : job'[r] = job[r] \/ job'[r].at \in {"idle", "asr", "write"}
      BY <2>1, <2>4, <3>1, HandleFinalDoes DEF Idle
    <3> QED BY <1>1, <2>1, <2>4, <3>2, CancelDoes DEF HandleFinal
  <2> QED BY <1>3, <2>2, <2>3, <2>4 DEF ProcessAudio
<1>4. ASSUME Commit PROVE NumbersInLine'
  <2>1. UNCHANGED <<sequence, sent>> /\ job["loop"] = Idle
    BY <1>4 DEF Commit
  <2>2. CASE UNCHANGED <<job, lock>>
    BY <1>2, <2>1, <2>2
  <2>3. CASE Seg!Final /\ HandleFinal("loop")
    <3>1. event'.utterance \in Nat
      BY <1>0, <2>3, SegmenterSteps
    <3>2. \A r \in Tasks : job'[r] = job[r] \/ job'[r].at \in {"idle", "asr", "write"}
      BY <2>1, <2>3, <3>1, HandleFinalDoes DEF Idle
    <3> QED BY <1>1, <2>1, <2>3, <3>2, CancelDoes DEF HandleFinal
  <2> QED BY <1>4, <2>2, <2>3 DEF Commit
<1>5. ASSUME Joined PROVE NumbersInLine'
  <2>1. \A r \in Tasks : job'[r] = job[r] \/ job'[r].at \in {"idle", "asr", "write"}
    BY <1>5, JoinedDoes DEF Idle
  <2> QED BY <1>1, <1>5, <2>1, CancelDoes DEF Joined
<1>6. ASSUME OnPcm \/ WorkerEnd \/ Stop \/ PutSentinel \/ UNCHANGED vars PROVE NumbersInLine'
  BY <1>2, <1>6 DEF OnPcm, WorkerEnd, Stop, PutSentinel, vars, sendVars
<1>7. ASSUME NEW t \in Tasks, Sending(t) PROVE NumbersInLine'
  <2>1. \A r \in Tasks : r # t => job'[r] = job[r]
    BY <1>7, SendStep DEF Kept
  <2>2. ASSUME lock # <<>> PROVE \A r, s : Before(Tail(lock), r, s) => Before(lock, r, s)
    BY <1>0, <2>2, LineTail
  <2>3. CASE Drops(t)
    <3>1. \A r \in Tasks : job'[r] = job[r] \/ job'[r].at \in {"idle", "asr", "write"}
      BY <2>1, <2>3 DEF Drops, Idle
    <3>2. \A r, s \in Tasks : Before(lock', r, s) => Before(lock, r, s)
      BY <2>2, <2>3, MayAskAgain DEF Drops
    <3> QED BY <1>1, <2>3, <3>1, <3>2 DEF Drops
  <2>4. ASSUME NEW m \in Messages, NEW q, Posts(t, m, q), sequence' = sequence, ~IsResult(m),
               q \in Seq(Tasks),
               \A r, s : Before(q, r, s) => Before(lock, r, s)
        PROVE  NumbersInLine'
    <3>1. \A i \in DOMAIN sent' :
             IsResult(sent'[i]) => \E k \in DOMAIN sent : sent[k] = sent'[i]
      <4>1. CASE sent' = sent
        BY <4>1
      <4>2. CASE sent' = Append(sent, m)
        BY <2>4, <4>2, SentGrows
      <4> QED BY <2>4, <4>1, <4>2 DEF Posts
    <3>2. ~Waiting(t)'
      BY <2>4 DEF Posts, Waiting, IsResult
    <3>3. \A r \in Tasks : Waiting(r)' => Waiting(r) /\ job'[r] = job[r]
      BY <2>1, <3>2, WaitingKept
    <3>4. \A r, s \in Tasks : Waiting(s)' /\ Before(lock', r, s) => Before(lock, r, s)
      <4>1. CASE q = <<>> /\ lock' = <<t>>
        BY <4>1, EmptyLine
      <4>2. CASE lock' = Append(q, t)
        BY <2>4, <3>2, <4>2, LineAppend
      <4> QED BY <2>4, <4>1, <4>2 DEF Posts
    <3> QED BY <2>4, <3>1, <3>3, <3>4, NumbersKept
  <2>5. ASSUME NEW m \in Messages, Reports(t, m) PROVE NumbersInLine'
    BY <1>0, <2>4, <2>5 DEF Reports, IsResult, Results
  <2>6. ASSUME NEW m \in Messages, Traces(t, m) PROVE NumbersInLine'
    <3>1. lock # <<>> /\ Tail(lock) \in Seq(Tasks)
      BY <1>0, <2>6, MayAskAgain, LineTail DEF Traces
    <3> QED BY <2>2, <2>4, <2>6, <3>1 DEF Traces, IsResult, Results
  <2>7. ASSUME NEW m \in Messages, Recognizes(t, m) PROVE NumbersInLine'
    <3>1. /\ m.seq = sequence + 1 /\ sequence' = sequence + 1 /\ Posts(t, m, lock)
          /\ job'[t].message = m /\ t \notin ToSet(lock)
      BY <2>7, LineInOrder DEF Recognizes, Posts, InLine
    <3>2. \A r \in Tasks : r # t => (Waiting(r)' <=> Waiting(r))
      BY <2>1 DEF Waiting
    <3>3. \A i \in DOMAIN sent : IsResult(sent[i]) => sent[i].seq <= sequence
      BY DEF NumbersInLine
    <3>4. \A r \in Tasks : Waiting(r) => job[r].message.seq <= sequence
      BY DEF NumbersInLine
    <3>5. \A r \in Tasks : Waiting(r) => job[r].message.seq \in Nat
      BY JobShapes DEF Waiting, Messages
    <3>6. CASE lock = <<>> /\ lock' = <<t>> /\ sent' = Append(sent, m) /\ job'[t].at = "write"
      <4>1. \A r \in Tasks : ~Waiting(r)'
        BY <3>2, <3>6, WaitingInLine DEF Waiting
      <4>2. \A i \in DOMAIN sent' : IsResult(sent'[i]) => sent'[i].seq <= sequence'
        BY <1>0, <3>1, <3>3, <3>6, SentGrows, SentTyped
      <4> QED BY <4>1, <4>2 DEF NumbersInLine, IsResult, Results
    <3>7. CASE lock' = Append(lock, t) /\ sent' = sent
      <4>1. \A i \in DOMAIN sent' : IsResult(sent'[i]) => sent'[i].seq <= sequence'
        BY <1>0, <3>1, <3>3, <3>7, SentTyped
      <4>2. \A r \in Tasks : Waiting(r)' => job'[r].message.seq <= sequence'
        BY <1>0, <2>1, <3>1, <3>2, <3>4, <3>5
      <4>3. \A i \in DOMAIN sent', r \in Tasks :
               IsResult(sent'[i]) /\ Waiting(r)' => sent'[i].seq < job'[r].message.seq
        <5> SUFFICES ASSUME NEW i \in DOMAIN sent, NEW r \in Tasks, IsResult(sent[i]), Waiting(r)'
                     PROVE  sent[i].seq < job'[r].message.seq
          BY <3>7
        <5>1. CASE r = t
          BY <1>0, <3>1, <3>3, <5>1, SentTyped
        <5>2. CASE r # t
          BY <2>1, <3>2, <5>2 DEF NumbersInLine
        <5> QED BY <5>1, <5>2
      <4>4. \A r, s \in Tasks : Waiting(r)' /\ Waiting(s)' /\ Before(lock', r, s) =>
               job'[r].message.seq < job'[s].message.seq
        <5> SUFFICES ASSUME NEW r \in Tasks, NEW s \in Tasks, Waiting(r)', Waiting(s)',
                            Before(lock', r, s)
                     PROVE  job'[r].message.seq < job'[s].message.seq
          OBVIOUS
        <5>1. Before(lock, r, s) \/ (r \in ToSet(lock) /\ s = t)
          BY <1>0, <3>7, LineAppend
        <5>2. CASE Before(lock, r, s)
          <6>1. r # t /\ s # t
            BY <3>1, <5>2, BeforeInLine
          <6> QED BY <2>1, <3>2, <5>2, <6>1 DEF NumbersInLine
        <5>3. CASE r \in ToSet(lock) /\ s = t
          <6>1. r # t /\ Waiting(r) /\ job'[r] = job[r]
            BY <2>1, <3>1, <3>2, <5>3
          <6> QED BY <1>0, <3>1, <3>4, <3>5, <5>3, <6>1
        <5> QED BY <5>1, <5>2, <5>3
      <4>5. \A r, s : Before(lock, r, s)' <=> Before(lock', r, s)
        BY DEF Before
      <4> QED BY <4>1, <4>2, <4>3, <4>4, <4>5 DEF NumbersInLine, IsResult, Results
    <3> QED BY <3>1, <3>6, <3>7 DEF Posts
  <2>8. ASSUME NEW m \in Messages, Passes(t, m) PROVE NumbersInLine'
    <3>1. /\ sequence' = sequence /\ lock' = lock /\ sent' = Append(sent, m) /\ t = Head(lock)
          /\ job'[t].at = "write" /\ m = job[t].message /\ job[t].at = "lock"
      BY <2>8 DEF Passes
    <3>2. \A r \in Tasks : Waiting(r)' => r # t /\ Waiting(r) /\ job'[r] = job[r]
      BY <2>1, <3>1, WaitingKept DEF Waiting
    <3>3. IsResult(m) => Waiting(t)
      BY <3>1 DEF Waiting
    <3>4. \A i \in DOMAIN sent' : IsResult(sent'[i]) => sent'[i].seq <= sequence
      BY <3>1, <3>3, SentGrows DEF NumbersInLine
    <3>5. \A i \in DOMAIN sent', r \in Tasks :
             IsResult(sent'[i]) /\ Waiting(r)' => sent'[i].seq < job'[r].message.seq
      <4> SUFFICES ASSUME NEW i \in DOMAIN sent', NEW r \in Tasks, IsResult(sent'[i]), Waiting(r)'
                   PROVE  sent'[i].seq < job'[r].message.seq
        OBVIOUS
      <4>1. CASE i \in DOMAIN sent
        BY <3>1, <3>2, <4>1, SentGrows DEF NumbersInLine
      <4>2. CASE i = Len(sent) + 1
        <5>1. sent'[i] = m /\ Waiting(t)
          BY <3>1, <3>3, <4>2, SentGrows
        <5>2. r \in ToSet(lock) /\ lock # <<>> /\ r # Head(lock)
          BY <3>1, <3>2, WaitingInLine
        <5>3. Before(lock, t, r)
          BY <1>0, <3>1, <5>2, LineTail
        <5> QED BY <3>1, <3>2, <5>1, <5>3 DEF NumbersInLine
      <4> QED BY <3>1, <4>1, <4>2, SentGrows
    <3>6. \A r, s \in Tasks : Waiting(r)' /\ Waiting(s)' /\ Before(lock', r, s) =>
             job'[r].message.seq < job'[s].message.seq
      BY <3>1, <3>2 DEF NumbersInLine
    <3>7. \A r \in Tasks : Waiting(r)' => job'[r].message.seq <= sequence'
      BY <3>1, <3>2 DEF NumbersInLine
    <3>8. \A r, s : Before(lock, r, s)' <=> Before(lock', r, s)
      BY DEF Before
    <3> QED BY <3>1, <3>4, <3>5, <3>6, <3>7, <3>8 DEF NumbersInLine, IsResult, Results
  <2> QED BY <1>7, <2>3, <2>5, <2>6, <2>7, <2>8, SendStep
<1>8. ASSUME ReportClosed PROVE NumbersInLine'
  BY <1>7, <1>8 DEF Sending, Tasks
<1> QED BY <1>3, <1>4, <1>5, <1>6, <1>7, <1>8 DEF Next, Loop, Sending

\* The trace of a result that was sent.
LEMMA TraceCovers ==
    ASSUME TypeOK, NumbersInLine, TracesFollow, NEW t \in Tasks, NEW m, Traces(t, m)
    PROVE  \E i \in DOMAIN sent : Covers(i, m)
<1>1. job[t].at = "write" /\ IsResult(job[t].message)
      /\ m.of = job[t].message.type /\ m.utterance = job[t].message.utterance /\ m.seq = sequence
  BY DEF Traces
<1>2. PICK i \in DOMAIN sent : sent[i] = job[t].message
  BY <1>1 DEF TracesFollow
<1>3. sent[i].seq <= sequence
  BY <1>1, <1>2 DEF NumbersInLine
<1> QED BY <1>1, <1>2, <1>3 DEF Covers

\* A trace.update keeps the result that it is about.
LEMMA TracesFollowStep ==
    ASSUME TypeOK, OncePerTask, NumbersInLine, TracesFollow, [Next]_vars
    PROVE  TracesFollow'
<1> DEFINE P(t) == /\ job[t].at = "write" => \E i \in DOMAIN sent : sent[i] = job[t].message
                   /\ job[t].at = "lock" /\ job[t].message.type = "trace.update" =>
                         \E i \in DOMAIN sent : Covers(i, job[t].message)
<1>0. Ranges /\ \A t \in Tasks : P(t)
  BY TypedSo DEF TracesFollow
<1>1. ASSUME sent' = sent, NEW r \in Tasks, job'[r] = job[r] \/ job'[r].at \in {"idle", "asr"}
      PROVE  P(r)'
  BY <1>0, <1>1 DEF Covers
<1>2. ASSUME UNCHANGED <<sent, job>> PROVE TracesFollow'
  BY <1>0, <1>2 DEF TracesFollow, Covers
<1>3. ASSUME ProcessAudio PROVE TracesFollow'
  <2>1. UNCHANGED sent /\ job["worker"] = Idle
    BY <1>3 DEF ProcessAudio
  <2>2. CASE UNCHANGED <<job, lock>>
    BY <1>2, <2>1, <2>2
  <2>3. CASE Seg!Partial /\ HandlePartial
    <3>1. event'.utterance \in Nat
      BY <1>0, <2>3, SegmenterSteps
    <3>2. \A r \in Tasks : job'[r] = job[r] \/ job'[r].at \in {"idle", "asr"}
      BY <2>3, <3>1, HandlePartialDoes
    <3> QED BY <1>1, <2>1, <3>2 DEF TracesFollow
  <2>4. CASE Seg!Final /\ HandleFinal("worker")
    <3>1. event'.utterance \in Nat
      BY <1>0, <2>4, SegmenterSteps
    <3>2. \A r \in Tasks : job'[r] = job[r] \/ job'[r].at \in {"idle", "asr"}
      BY <2>1, <2>4, <3>1, HandleFinalDoes DEF Idle
    <3> QED BY <1>1, <2>1, <3>2 DEF TracesFollow
  <2> QED BY <1>3, <2>2, <2>3, <2>4 DEF ProcessAudio
<1>4. ASSUME Commit PROVE TracesFollow'
  <2>1. UNCHANGED sent /\ job["loop"] = Idle
    BY <1>4 DEF Commit
  <2>2. CASE UNCHANGED <<job, lock>>
    BY <1>2, <2>1, <2>2
  <2>3. CASE Seg!Final /\ HandleFinal("loop")
    <3>1. event'.utterance \in Nat
      BY <1>0, <2>3, SegmenterSteps
    <3>2. \A r \in Tasks : job'[r] = job[r] \/ job'[r].at \in {"idle", "asr"}
      BY <2>1, <2>3, <3>1, HandleFinalDoes DEF Idle
    <3> QED BY <1>1, <2>1, <3>2 DEF TracesFollow
  <2> QED BY <1>4, <2>2, <2>3 DEF Commit
<1>5. ASSUME Joined PROVE TracesFollow'
  <2>1. \A r \in Tasks : job'[r] = job[r] \/ job'[r].at \in {"idle", "asr"}
    BY <1>5, JoinedDoes DEF Idle
  <2> QED BY <1>1, <1>5, <2>1 DEF Joined, TracesFollow
<1>6. ASSUME OnPcm \/ WorkerEnd \/ Stop \/ PutSentinel \/ UNCHANGED vars PROVE TracesFollow'
  BY <1>2, <1>6 DEF OnPcm, WorkerEnd, Stop, PutSentinel, vars, sendVars
<1>7. ASSUME NEW t \in Tasks, Sending(t) PROVE TracesFollow'
  <2>1. \A r \in Tasks : r # t => job'[r] = job[r]
    BY <1>7, SendStep DEF Kept
  <2>2. \A i \in DOMAIN sent : i \in DOMAIN sent' /\ sent'[i] = sent[i]
    <3>1. CASE sent' = sent
      BY <3>1
    <3>2. ASSUME NEW m \in Messages, sent' = Append(sent, m)
          PROVE  \A i \in DOMAIN sent : i \in DOMAIN sent' /\ sent'[i] = sent[i]
      BY <3>2, SentGrows
    <3> QED BY <1>7, <3>1, <3>2, FlightAfterSend
  <2>3. \A r \in Tasks : r # t => P(r)'
    BY <1>0, <2>1, <2>2 DEF Covers
  <2>5. ASSUME NEW m \in Messages,
               Recognizes(t, m) \/ Reports(t, m) \/ Traces(t, m) \/ Passes(t, m)
        PROVE  P(t)'
    <3>1. CASE job'[t].at = "write"
      <4>1. sent' = Append(sent, m) /\ job'[t].message = m
        BY <2>5, <3>1 DEF Recognizes, Reports, Traces, Passes, Posts
      <4>2. Len(sent) + 1 \in DOMAIN sent' /\ sent'[Len(sent) + 1] = m
        BY <4>1, SentGrows
      <4> QED BY <3>1, <4>1, <4>2
    <3>2. CASE job'[t].at = "lock" /\ Traces(t, m)
      <4>1. PICK i \in DOMAIN sent : Covers(i, m)
        BY <3>2, TraceCovers
      <4>2. job'[t].message = m
        BY <3>2 DEF Traces, Posts
      <4> QED BY <2>2, <3>2, <4>1, <4>2 DEF Covers
    <3>3. CASE job'[t].at = "lock" /\ (Recognizes(t, m) \/ Reports(t, m))
      BY <3>3 DEF Recognizes, Reports, Posts, IsResult, Results
    <3> QED BY <2>5, <3>1, <3>2, <3>3 DEF Recognizes, Reports, Traces, Passes, Posts
  <2>6. P(t)'
    <3>1. CASE Drops(t)
      BY <3>1 DEF Drops, Idle
    <3> QED BY <1>7, <2>5, <3>1, SendStep
  <2>7. \A r \in Tasks : P(r)'
    <3> HIDE DEF P
    <3> QED BY <2>3, <2>6
  <2> QED BY <2>7 DEF TracesFollow
<1>8. ASSUME ReportClosed PROVE TracesFollow'
  BY <1>7, <1>8 DEF Sending, Tasks
<1> QED BY <1>3, <1>4, <1>5, <1>6, <1>7, <1>8 DEF Next, Loop, Sending

\* SequenceInOrder is kept, by NumbersInLine.
LEMMA SequenceInOrderStep ==
    ASSUME TypeOK, OncePerTask, NumbersInLine, TracesFollow, SequenceInOrder, [Next]_vars
    PROVE  SequenceInOrder'
<1>1. /\ \A i, j \in DOMAIN sent :
            i < j /\ IsResult(sent[i]) /\ IsResult(sent[j]) => sent[i].seq < sent[j].seq
      /\ \A j \in DOMAIN sent : sent[j].type = "trace.update" =>
            \E i \in DOMAIN sent : i < j /\ Covers(i, sent[j])
      /\ DOMAIN sent = 1 .. Len(sent) /\ Len(sent) \in Nat
  <2>1. DOMAIN sent = 1 .. Len(sent) /\ Len(sent) \in Nat
    BY DEF TypeOK
  <2>2. ASSUME NEW j \in DOMAIN sent, sent[j].type = "trace.update"
        PROVE  \E i \in DOMAIN sent : i < j /\ Covers(i, sent[j])
    <3>1. PICK i \in 1 .. j - 1 :
              /\ sent[i].type = sent[j].of /\ sent[i].utterance = sent[j].utterance
              /\ sent[i].seq <= sent[j].seq
      BY <2>1, <2>2 DEF SequenceInOrder
    <3> QED BY <2>1, <3>1 DEF Covers
  <2> QED BY <2>1, <2>2, PairsOfPositions DEF SequenceInOrder
<1>2. ASSUME sent' = sent PROVE SequenceInOrder'
  BY <1>2 DEF SequenceInOrder, Positions
<1>3. ASSUME NEW t \in Tasks, Sending(t) PROVE SequenceInOrder'
  <2>1. ASSUME NEW m \in Messages, sent' = Append(sent, m),
               Recognizes(t, m) \/ Reports(t, m) \/ Traces(t, m) \/ Passes(t, m)
        PROVE  SequenceInOrder'
    <3> DEFINE n == Len(sent)
    <3>0. /\ n \in Nat /\ Len(sent') = n + 1 /\ sent'[n + 1] = m
          /\ \A i \in DOMAIN sent : i \in 1 .. n /\ sent'[i] = sent[i]
          /\ \A i \in 1 .. n + 1 : i \in DOMAIN sent \/ i = n + 1
      BY <1>1, <2>1, SentGrows
    <3> HIDE DEF n
    <3>1. ASSUME IsResult(m), NEW i \in DOMAIN sent, IsResult(sent[i]) PROVE sent[i].seq < m.seq
      <4>1. sent[i].seq <= sequence /\ sequence \in Nat /\ sent[i].seq \in Nat
        BY <3>1, SentTyped, TypedSo DEF NumbersInLine
      <4>2. CASE Recognizes(t, m)
        BY <4>1, <4>2 DEF Recognizes
      <4>3. CASE Passes(t, m)
        BY <3>1, <4>3 DEF Passes, NumbersInLine, Waiting
      <4> QED BY <2>1, <3>1, <4>2, <4>3 DEF Reports, Traces, IsResult, Results
    <3>2. ASSUME m.type = "trace.update" PROVE \E i \in DOMAIN sent : Covers(i, m)
      <4>1. CASE Traces(t, m)
        BY <4>1, TraceCovers
      <4>2. CASE Passes(t, m)
        BY <3>2, <4>2 DEF Passes, TracesFollow
      <4> QED BY <2>1, <3>2, <4>1, <4>2 DEF Reports, Recognizes, IsResult, Results
    <3>3. ASSUME NEW i \in 1 .. Len(sent'), NEW j \in 1 .. Len(sent'), i < j,
                 IsResult(sent'[i]), IsResult(sent'[j])
          PROVE  sent'[i].seq < sent'[j].seq
      <4>0. i \in 1 .. n + 1 /\ j \in 1 .. n + 1 /\ i # n + 1
        BY <3>0, <3>3
      <4>1. i \in DOMAIN sent /\ sent'[i] = sent[i]
        BY <3>0, <4>0
      <4>2. CASE j \in DOMAIN sent
        <5>1. sent'[j] = sent[j]
          BY <3>0, <4>2
        <5> QED BY <1>1, <3>3, <4>1, <4>2, <5>1
      <4>3. CASE j = n + 1
        BY <3>0, <3>1, <3>3, <4>1, <4>3
      <4> QED BY <3>0, <4>0, <4>2, <4>3
    <3>4. ASSUME NEW j \in 1 .. Len(sent'), sent'[j].type = "trace.update"
          PROVE  \E i \in 1 .. j - 1 :
                    /\ sent'[i].type = sent'[j].of /\ sent'[i].utterance = sent'[j].utterance
                    /\ sent'[i].seq <= sent'[j].seq
      <4>1. CASE j \in DOMAIN sent
        <5>1. sent'[j] = sent[j] /\ j \in Nat
          BY <3>0, <4>1
        <5>2. PICK i \in DOMAIN sent : i < j /\ Covers(i, sent[j])
          BY <1>1, <3>4, <4>1, <5>1
        <5>3. i \in Nat /\ i >= 1 /\ sent'[i] = sent[i]
          BY <1>1, <3>0
        <5>4. i \in 1 .. j - 1
          BY <5>1, <5>2, <5>3
        <5>5. sent[i].type = sent[j].of /\ sent[i].utterance = sent[j].utterance
              /\ sent[i].seq <= sent[j].seq
          BY <5>2 DEF Covers
        <5> QED BY <5>1, <5>3, <5>4, <5>5
      <4>2. CASE j = n + 1
        <5>1. sent'[j] = m
          BY <3>0, <4>2
        <5>2. PICK i \in DOMAIN sent : Covers(i, m)
          BY <3>2, <3>4, <5>1
        <5>3. i \in 1 .. j - 1 /\ sent'[i] = sent[i]
          BY <3>0, <4>2, <5>2
        <5>4. sent[i].type = m.of /\ sent[i].utterance = m.utterance /\ sent[i].seq <= m.seq
          BY <5>2 DEF Covers
        <5> QED BY <5>1, <5>3, <5>4
      <4>3. j \in 1 .. n + 1
        BY <3>0
      <4> QED BY <3>0, <4>1, <4>2, <4>3
    <3>5. \A p \in Positions' : IsResult(sent'[p[1]]) /\ IsResult(sent'[p[2]]) =>
             sent'[p[1]].seq < sent'[p[2]].seq
      BY <3>3 DEF Positions
    <3> QED BY <3>4, <3>5 DEF SequenceInOrder, IsResult, Results
  <2>2. \/ sent' = sent
        \/ \E m \in Messages :
              /\ sent' = Append(sent, m)
              /\ Recognizes(t, m) \/ Reports(t, m) \/ Traces(t, m) \/ Passes(t, m)
    <3>1. CASE Drops(t)
      BY <3>1 DEF Drops
    <3>2. ASSUME NEW m \in Messages,
                 Recognizes(t, m) \/ Reports(t, m) \/ Traces(t, m) \/ Passes(t, m)
          PROVE  sent' = sent \/ sent' = Append(sent, m)
      BY <3>2 DEF Recognizes, Reports, Traces, Passes, Posts
    <3> QED BY <1>3, <3>1, <3>2, SendStep
  <2> QED BY <1>2, <2>1, <2>2
<1> QED BY <1>2, <1>3, WhoWrites

\* The session is closed when the report of it has been written.
LEMMA PhaseAfterSend ==
    ASSUME TypeOK, NEW t \in Tasks, Sending(t)
    PROVE  /\ t = "loop" /\ job[t].at = "write" /\ Closing(t) => phase' = "closed"
           /\ ~(job[t].at = "write" /\ Closing(t)) => phase' = phase
           /\ UNCHANGED <<sentinel, workerDone, queued>>
BY JobShapes DEF Sending, Transcription, Transcribed, Granted, Written, ReportClosed, stopVars,
       queueVars, Closing, Idle

\* A task that does not send does not begin to report the end.
LEMMA ClosingKept ==
    ASSUME NEW r \in Tasks, job'[r] = job[r] \/ job'[r].at \in {"idle", "asr"}
    PROVE  Closing(r)' => Closing(r) /\ job'[r] = job[r]
BY DEF Closing

\* The stop keeps its order.
LEMMA StopInPlaceStep ==
    ASSUME TypeOK, OncePerTask, StopInPlace, [Next]_vars
    PROVE  StopInPlace'
<1>0. Ranges
  BY TypedSo
<1>1. ASSUME UNCHANGED <<job, sent>>, OnPcm \/ WorkerEnd \/ Stop \/ PutSentinel \/ UNCHANGED vars
      PROVE  StopInPlace'
  <2>1. \A t : Closing(t)' <=> Closing(t)
    BY <1>1 DEF Closing
  <2>2. CASE OnPcm
    BY <1>1, <2>1, <2>2 DEF OnPcm, StopInPlace, stopVars
  <2>3. CASE WorkerEnd
    BY <1>0, <1>1, <2>1, <2>3 DEF WorkerEnd, StopInPlace, Ranges
  <2>4. CASE Stop
    BY <1>1, <2>1, <2>4 DEF Stop, StopInPlace, queueVars
  <2>5. CASE PutSentinel
    BY <1>1, <2>1, <2>5 DEF PutSentinel, StopInPlace
  <2>6. CASE UNCHANGED vars
    BY <1>1, <2>1, <2>6 DEF StopInPlace, vars, queueVars, stopVars
  <2> QED BY <1>1, <2>2, <2>3, <2>4, <2>5, <2>6
<1>2. ASSUME OnPcm \/ WorkerEnd \/ Stop \/ PutSentinel \/ UNCHANGED vars PROVE StopInPlace'
  BY <1>1, <1>2 DEF OnPcm, WorkerEnd, Stop, PutSentinel, vars, sendVars
<1>3. ASSUME ProcessAudio PROVE StopInPlace'
  <2>1. /\ ~workerDone /\ job["worker"] = Idle
        /\ UNCHANGED <<sentinel, sent, phase, workerDone>>
        /\ Seg!Quiet \/ Seg!Start \/ Seg!Partial \/ Seg!Final
    BY <1>3 DEF ProcessAudio, stopVars
  <2>2. event'.utterance \in Nat
    BY <1>0, <2>1, SegmenterSteps
  <2>3. /\ job'["loop"] = job["loop"]
        /\ \A r \in Tasks : job'[r] = job[r] \/ job'[r].at \in {"idle", "asr"}
    <3>1. CASE UNCHANGED <<job, lock>>
      BY <3>1
    <3>2. CASE HandlePartial
      BY <2>2, <3>2, HandlePartialDoes DEF Tasks
    <3>3. CASE HandleFinal("worker")
      BY <2>1, <2>2, <3>3, HandleFinalDoes DEF Tasks, Idle
    <3> QED BY <1>3, <3>1, <3>2, <3>3 DEF ProcessAudio
  <2>4. \A r \in Tasks : Closing(r)' => Closing(r) /\ job'[r] = job[r]
    BY <2>3, ClosingKept
  <2>5. Closing("loop")' <=> Closing("loop")
    BY <2>3 DEF Closing
  <2> QED BY <2>1, <2>3, <2>4, <2>5 DEF StopInPlace
<1>4. ASSUME Commit PROVE StopInPlace'
  <2>1. /\ phase = "running" /\ job["loop"] = Idle
        /\ UNCHANGED <<sentinel, sent, phase, workerDone>>
        /\ Seg!Quiet \/ Seg!Final
    BY <1>4 DEF Commit, queueVars, stopVars
  <2>2. event'.utterance \in Nat
    BY <1>0, <2>1, SegmenterSteps
  <2>3. \A r \in Tasks : job'[r] = job[r] \/ job'[r].at \in {"idle", "asr"}
    <3>1. CASE UNCHANGED <<job, lock>>
      BY <3>1
    <3>2. CASE HandleFinal("loop")
      BY <2>1, <2>2, <3>2, HandleFinalDoes DEF Tasks, Idle
    <3> QED BY <1>4, <3>1, <3>2 DEF Commit
  <2>4. \A r \in Tasks : Closing(r)' => Closing(r)
    BY <2>3, ClosingKept
  <2>5. ~Closing("loop")
    BY <2>1 DEF Closing, Idle
  <2> QED BY <2>1, <2>4, <2>5 DEF StopInPlace
<1>5. ASSUME Joined PROVE StopInPlace'
  <2>1. /\ phase = "joining" /\ workerDone /\ phase' = "closing"
        /\ UNCHANGED <<sentinel, sent, workerDone, queued>>
    BY <1>5 DEF Joined, queueVars
  <2>2. job'["partial"] = Idle /\ \A r \in Tasks : r # "partial" => job'[r] = job[r]
    BY <1>5, JoinedDoes
  <2>3. \A r \in Tasks : Closing(r)' => Closing(r)
    BY <2>2, ClosingKept DEF Idle
  <2>4. job'["loop"] = Idle /\ job'["worker"] = Idle
    BY <2>1, <2>2 DEF StopInPlace, Tasks
  <2>5. \A r \in Tasks : ~Closing(r)
    BY <2>1 DEF StopInPlace
  <2>6. \A i \in DOMAIN sent : sent[i].type # "session.closed"
    BY <2>1, <2>5 DEF StopInPlace, Tasks
  <2> QED BY <2>1, <2>2, <2>3, <2>4, <2>5, <2>6 DEF StopInPlace
<1>6. ASSUME NEW t \in Tasks, Sending(t) PROVE StopInPlace'
  <2>1. /\ \A r \in Tasks : r # t => job'[r] = job[r]
        /\ UNCHANGED <<sentinel, workerDone, queued>>
    BY <1>6, SendStep, PhaseAfterSend DEF Kept
  <2>2. \A r \in Tasks : r # t => (Closing(r)' <=> Closing(r))
    BY <2>1 DEF Closing
  <2>3. \A i \in DOMAIN sent : i \in DOMAIN sent' /\ sent'[i] = sent[i]
    <3>1. CASE sent' = sent
      BY <3>1
    <3>2. ASSUME NEW m \in Messages, sent' = Append(sent, m)
          PROVE  \A i \in DOMAIN sent : i \in DOMAIN sent' /\ sent'[i] = sent[i]
      BY <3>2, SentGrows
    <3> QED BY <1>6, <3>1, <3>2, FlightAfterSend
  <2>4. CASE Closing(t)
    <3>1. t = "loop" /\ job[t].at = "write" /\ phase = "closing" /\ phase' = "closed"
      BY <1>6, <2>4, PhaseAfterSend DEF StopInPlace
    <3>2. Drops(t)
      <4>1. job[t].message.type = "session.closed"
        BY <2>4 DEF Closing
      <4>2. ~IsResult(job[t].message)
        BY <4>1 DEF IsResult, Results
      <4>3. \A m : ~Recognizes(t, m) /\ ~Reports(t, m) /\ ~Traces(t, m) /\ ~Passes(t, m)
        BY <3>1, <4>2 DEF Recognizes, Reports, Traces, Passes, Idle
      <4> QED BY <1>6, <4>3, SendStep
    <3>3. job'[t] = Idle /\ sent' = sent /\ ~Closing(t)'
      BY <3>2 DEF Drops, Closing, Idle
    <3>4. /\ workerDone /\ job["worker"] = Idle /\ job["partial"] = Idle /\ queued = 0
      BY <3>1 DEF StopInPlace
    <3>5. job'["worker"] = Idle /\ job'["partial"] = Idle
      BY <2>1, <3>1, <3>4 DEF Tasks
    <3> QED BY <2>1, <2>2, <3>1, <3>3, <3>4, <3>5 DEF StopInPlace
  <2>5. CASE ~Closing(t) /\ \E m \in Messages : Reports(t, m) /\ m.type = "session.closed"
    <3>1. PICK m \in Messages : Reports(t, m) /\ m.type = "session.closed"
      BY <2>5
    <3>2. t = "loop" /\ job[t] = Idle /\ phase = "closing" /\ phase' = phase
      BY <1>6, <2>5, <3>1, PhaseAfterSend DEF Reports
    <3>3. job["worker"] = Idle /\ job["partial"] = Idle /\ workerDone /\ queued = 0
      BY <3>2 DEF StopInPlace
    <3>4. \A r \in Tasks : job[r].at = "idle"
      BY <3>2, <3>3 DEF Tasks, Idle
    <3>5. lock = <<>>
      <4>1. \A r \in Tasks : r \notin ToSet(lock)
        BY <3>4, LineInOrder DEF InLine
      <4>2. lock \in Seq(Tasks)
        BY DEF TypeOK
      <4> QED BY <4>1, <4>2, EmptyLine
    <3>6. job'[t].at = "write" /\ job'[t].message = m
      BY <3>1, <3>5 DEF Reports, Posts
    <3>7. Closing(t)'
      BY <3>1, <3>6 DEF Closing
    <3>8. job'["worker"] = Idle /\ job'["partial"] = Idle
      BY <2>1, <3>2, <3>3 DEF Tasks
    <3>9. \A r \in Tasks : r # t => ~Closing(r)'
      BY <2>2, <3>4 DEF Closing
    <3> QED BY <2>1, <3>2, <3>3, <3>6, <3>7, <3>8, <3>9 DEF StopInPlace
  <2>6. CASE ~Closing(t) /\ ~\E m \in Messages : Reports(t, m) /\ m.type = "session.closed"
    <3>1. phase' = phase
      BY <1>6, <2>6, PhaseAfterSend
    <3>2. /\ ~Closing(t)'
          /\ \/ sent' = sent
             \/ \E m \in Messages : sent' = Append(sent, m) /\ m.type # "session.closed"
      <4>1. CASE Drops(t)
        BY <4>1 DEF Drops, Closing, Idle
      <4>2. ASSUME NEW m \in Messages,
                   Recognizes(t, m) \/ Reports(t, m) \/ Traces(t, m) \/ Passes(t, m)
            PROVE  /\ job'[t].message = m /\ m.type # "session.closed"
                   /\ sent' = sent \/ sent' = Append(sent, m)
        <5>1. CASE Recognizes(t, m)
          BY <5>1 DEF Recognizes, Posts, IsResult, Results
        <5>2. CASE Reports(t, m)
          BY <2>6, <5>2 DEF Reports, Posts
        <5>3. CASE Traces(t, m)
          BY <5>3 DEF Traces, Posts
        <5>4. CASE Passes(t, m)
          BY <2>6, <5>4 DEF Passes, Closing
        <5> QED BY <4>2, <5>1, <5>2, <5>3, <5>4
      <4> QED BY <1>6, <4>1, <4>2, SendStep DEF Closing
    <3>3. (t # "worker" /\ t # "partial") \/ phase \notin {"closing", "closed"}
      <4>1. job[t] # Idle \/ t = "loop"
        BY <1>6 DEF Sending, Transcription, Transcribed, Granted, Written, Idle
      <4> QED BY <4>1 DEF StopInPlace
    <3>4. t # "worker" \/ ~workerDone
      <4>1. job[t] # Idle \/ t = "loop"
        BY <1>6 DEF Sending, Transcription, Transcribed, Granted, Written, Idle
      <4> QED BY <4>1 DEF StopInPlace
    <3>5. t # "loop" \/ phase = "running"
      <4>1. CASE t = "loop" /\ phase # "running"
        <5>1. job[t] = Idle
          BY <2>6, <4>1 DEF StopInPlace
        <5>2. \E m \in Messages : Reports(t, m)
          BY <1>6, <5>1, SendStep DEF Drops, Recognizes, Traces, Passes, Idle
        <5> QED BY <2>6, <5>1, <5>2 DEF Reports, Idle
      <4> QED BY <4>1
    <3>6. \A i \in DOMAIN sent' : sent'[i].type = "session.closed" =>
             i \in DOMAIN sent /\ sent'[i] = sent[i]
      BY <3>2, SentGrows
    <3>7. /\ phase \in {"closing", "closed"} => job'["partial"] = Idle
          /\ workerDone => job'["worker"] = Idle
          /\ phase # "running" =>
                job'["loop"] = job["loop"] /\ (Closing("loop")' <=> Closing("loop"))
      BY <2>1, <2>2, <3>3, <3>4, <3>5 DEF StopInPlace, Tasks
    <3>8. \A r \in Tasks : Closing(r)' => Closing(r) /\ job'[r] = job[r]
      BY <2>1, <2>2, <3>2
    <3>9. (\E i \in DOMAIN sent' : sent'[i].type = "session.closed") =>
             phase = "closed" \/ Closing("loop")
      BY <3>6 DEF StopInPlace
    <3>10. Closing("loop") => Closing("loop")'
      BY <2>2, <2>6 DEF Tasks
    <3> QED BY <2>1, <3>1, <3>7, <3>8, <3>9, <3>10 DEF StopInPlace
  <2> QED BY <2>4, <2>5, <2>6
<1>7. ASSUME ReportClosed PROVE StopInPlace'
  BY <1>6, <1>7 DEF Sending, Tasks
<1> QED BY <1>2, <1>3, <1>4, <1>5, <1>6, <1>7 DEF Next, Loop, Sending

\* ClosedIsLast is kept, by StopInPlace.
LEMMA ClosedIsLastStep ==
    ASSUME TypeOK, OncePerTask, StopInPlace, StopInPlace', ClosedIsLast, [Next]_vars
    PROVE  ClosedIsLast'
<1>1. ASSUME \E i \in DOMAIN sent' : sent'[i].type = "session.closed"
      PROVE  queued' = 0 /\ \A t \in Tasks : job'[t] = Idle \/ t = "loop"
  <2>1. phase' \in {"closing", "closed"}
    BY <1>1 DEF StopInPlace, Tasks
  <2>2. workerDone' /\ job'["partial"] = Idle /\ job'["worker"] = Idle /\ queued' = 0
    BY <2>1 DEF StopInPlace
  <2> QED BY <2>2 DEF Tasks
<1>2. ASSUME NEW i \in DOMAIN sent', sent'[i].type = "session.closed" PROVE i = Len(sent')
  <2>1. CASE sent' = sent
    <3>1. DOMAIN sent = 1 .. Len(sent)
      BY DEF TypeOK
    <3> QED BY <1>2, <2>1, <3>1 DEF ClosedIsLast
  <2>2. ASSUME NEW t \in Tasks, Sending(t), NEW m \in Messages, sent' = Append(sent, m)
        PROVE  i = Len(sent')
    <3>1. CASE i = Len(sent) + 1
      BY <2>2, <3>1, SentGrows
    <3>2. CASE i \in DOMAIN sent
      <4>1. phase = "closed" \/ Closing("loop")
        BY <1>2, <2>2, <3>2, SentGrows DEF StopInPlace
      <4>2. /\ job["worker"] = Idle /\ job["partial"] = Idle
            /\ \/ phase = "closed" /\ job["loop"] = Idle
               \/ job["loop"].at = "write" /\ job["loop"].message.type = "session.closed"
        BY <4>1 DEF StopInPlace, Tasks, Closing
      <4>3. t = "loop"
        BY <2>2, <4>2 DEF Sending, Transcription, Transcribed, Granted, Written, Idle, Tasks
      <4>4. job[t].at = "write" /\ ~IsResult(job[t].message)
        BY <2>2, <4>2, <4>3 DEF Sending, Transcription, Transcribed, Granted, Written,
           ReportClosed, Idle, IsResult, Results
      <4>5. Drops(t)
        BY <2>2, <4>4, SendStep DEF Recognizes, Reports, Traces, Passes, Idle
      <4>6. sent' = sent
        BY <4>5 DEF Drops
      <4>7. Len(sent') = Len(sent) + 1 /\ Len(sent) \in Nat
        BY <2>2, SentGrows
      <4> QED BY <4>6, <4>7
    <3> QED BY <2>2, <3>1, <3>2, SentGrows
  <2> QED BY <2>1, <2>2, WhoWrites, FlightAfterSend
<1>3. sent' \in Seq(Messages)
  BY TypeStep DEF TypeOK
<1>4. \A i \in 1 .. Len(sent') : i \in DOMAIN sent'
  BY <1>3
<1> QED BY <1>1, <1>2, <1>4 DEF ClosedIsLast

-----------------------------------------------------------------------------
(* The theorems.                                                           *)

\* The invariant holds at first.
LEMMA IndInit == ASSUME Init PROVE IndInv
<1> USE DEF Init
<1>1. /\ \A t \in Tasks : job[t] = Idle
      /\ job \in [Tasks -> Jobs]
  BY DEF Jobs
<1>2. sent \in Seq(Messages) /\ DOMAIN sent = {} /\ Len(sent) = 0
  OBVIOUS
<1>3. ToSet(lock) = {} /\ lock \in Seq(Tasks) /\ OncePerTask
  BY EmptyLine DEF OncePerTask
<1>4. \A t \in Tasks : job[t].at = "idle"
  BY <1>1 DEF Idle
<1>5. TypeOK
  <2>1. /\ event \in [kind : {"none", "partial", "final"}, utterance : Nat]
        /\ open = 0 /\ count = 0
    BY DEF Seg!UttInit, Seg!Nothing
  <2>2. \A t \in Tasks : job[t].at \notin {"lock", "write"}
    BY <1>4
  <2>3. {t \in Tasks : job[t].at \in {"lock", "write"}} = {}
    BY <2>2
  <2>4. {open, count, arrived, queued, sequence, commits} \subseteq Nat /\ queued <= QueueMax
    BY <2>1, BoundsAssumption
  <2>5. {sentinel, workerDone} \subseteq BOOLEAN
    OBVIOUS
  <2>6. \A t \in Tasks : job[t].at = "write" => t = Head(lock)
    BY <2>2
  <2>7. ToSet(lock) = {t \in Tasks : job[t].at \in {"lock", "write"}}
    BY <1>3, <2>3
  <2>8. phase \in {"running", "putting", "joining", "closing", "closed"} /\ manual \in SUBSET Nat
    OBVIOUS
  <2> HIDE DEF Init
  <2> QED BY <1>1, <1>2, <1>3, <2>1, <2>4, <2>5, <2>6, <2>7, <2>8 DEF TypeOK
<1>6. OpenIsLast
  BY DEF OpenIsLast, Seg!UttInit
<1>7. DueInPlace /\ OneFinal
  BY <1>2, <1>4 DEF DueInPlace, OneFinal, InFlight, Tasks
<1>8. NumbersInLine /\ TracesFollow
  BY <1>2, <1>4 DEF NumbersInLine, TracesFollow, Waiting
<1>9. StopInPlace
  BY <1>1, <1>2, <1>4 DEF StopInPlace, Closing, Tasks
<1>10. FinalIsLast /\ SequenceInOrder /\ FinalsInOrder /\ ClosedIsLast
  <2>1. Positions = {}
    BY <1>2 DEF Positions
  <2> QED BY <1>2, <2>1 DEF FinalIsLast, SequenceInOrder, FinalsInOrder, ClosedIsLast
<1> QED BY <1>3, <1>5, <1>6, <1>7, <1>8, <1>9, <1>10 DEF IndInv

\* The invariant holds of every reachable state.
THEOREM RecognitionInvCorrect == Spec => []IndInv
<1>1. ASSUME IndInv, [Next]_vars PROVE IndInv'
  <2>1. TypeOK' /\ OncePerTask' /\ StopInPlace'
    BY <1>1, TypeStep, StopInPlaceStep DEF IndInv
  <2>2. OpenIsLast' /\ DueInPlace' /\ OneFinal' /\ NumbersInLine' /\ TracesFollow'
    BY <1>1, OpenIsLastStep, DueInPlaceStep, OneFinalStep, NumbersInLineStep, TracesFollowStep
       DEF IndInv
  <2>3. FinalIsLast' /\ SequenceInOrder' /\ FinalsInOrder' /\ ClosedIsLast'
    BY <1>1, <2>1, FinalIsLastStep, SequenceInOrderStep, FinalsInOrderStep, ClosedIsLastStep
       DEF IndInv
  <2> QED BY <2>1, <2>2, <2>3 DEF IndInv
<1> QED BY <1>1, IndInit, PTL DEF Spec

\* Every variable keeps its range, and the lock is held by who is writing.
THEOREM RecognitionTypeCorrect == Spec => []TypeOK
<1>1. IndInv => TypeOK
  BY DEF IndInv
<1> QED BY <1>1, RecognitionInvCorrect, PTL

\* Neither a second final nor a late partial follows the final of an utterance.
THEOREM FinalsAreLast == Spec => []FinalIsLast
<1>1. IndInv => FinalIsLast
  BY DEF IndInv
<1> QED BY <1>1, RecognitionInvCorrect, PTL

\* Three tasks draw numbers and write, and the numbers still come in order.
THEOREM NumbersAreInOrder == Spec => []SequenceInOrder
<1>1. IndInv => SequenceInOrder
  BY DEF IndInv
<1> QED BY <1>1, RecognitionInvCorrect, PTL

\* Only a final that a commit has cut may come late.
THEOREM FinalsAreInOrder == Spec => []FinalsInOrder
<1>1. IndInv => FinalsInOrder
  BY DEF IndInv
<1> QED BY <1>1, RecognitionInvCorrect, PTL

\* Nothing follows the end of the session, and nothing is left that could.
THEOREM ClosingIsLast == Spec => []ClosedIsLast
<1>1. IndInv => ClosedIsLast
  BY DEF IndInv
<1> QED BY <1>1, RecognitionInvCorrect, PTL

=============================================================================
