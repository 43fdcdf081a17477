---------------------------- MODULE Recognition ----------------------------
(***************************************************************************)
(* Recognition in one session of the bridge (RealSession in bridge/main.py,*)
(* without playback), as tasks of one event loop that interleave only      *)
(* where they await: the worker feeds queued audio to the segmenter and    *)
(* transcribes what ends; a partial is transcribed by a task of its own;   *)
(* the message loop of the bridge transcribes what a commit ends, and      *)
(* stops the session.  All three report through one lock, in the order in  *)
(* which they ask for it (asyncio.Lock is fair).                           *)
(*                                                                         *)
(* The connection stays up here: module BridgeApp has its losses, and the  *)
(* death of a worker that cannot report.                                   *)
(***************************************************************************)
EXTENDS Naturals, Sequences, FiniteSets, SequencesExt

CONSTANTS
    QueueMax,   \* the audio queue, 500 frames
    MaxFrames,  \* bound on the frames that arrive
    MaxCommits  \* bound on the commits

ASSUME BoundsAssumption == QueueMax \in Nat \ {0} /\ MaxFrames \in Nat /\ MaxCommits \in Nat

VARIABLES
    open, count, event,  \* the segmenter, by what it promises
    arrived,             \* frames that called _on_pcm
    queued,              \* frames in the queue
    sentinel,            \* the None that stop() puts behind them is in the queue
    job,                 \* what each task is doing
    lock,                \* send_lock: its holder, then those who wait
    sequence,            \* self.sequence
    sent,                \* what was written to the WebSocket
    phase,               \* the session, by the progress of stop()
    workerDone,          \* the worker returned
    commits, manual      \* commits so far, and the utterances they ended

segVars == <<open, count, event>>
queueVars == <<arrived, queued, sentinel>>
sendVars == <<lock, sequence, sent>>
stopVars == <<phase, workerDone>>
commitVars == <<commits, manual>>

vars == <<segVars, queueVars, job, sendVars, stopVars, commitVars>>

Seg == INSTANCE Utterances

Tasks == {"worker", "loop", "partial"}

\* A transcription is at the ASR request, waits for the lock, or has written
\* its message and waits for the write to drain.
Idle == [at |-> "idle", utterance |-> 0, type |-> "none"]

Result(type, u) == [at |-> "asr", utterance |-> u, type |-> type]

Results == {"asr.partial", "asr.final"}

Init ==
    /\ Seg!UttInit
    /\ arrived = 0 /\ queued = 0 /\ sentinel = FALSE
    /\ job = [t \in Tasks |-> Idle]
    /\ lock = <<>> /\ sequence = 0 /\ sent = <<>>
    /\ phase = "running" /\ workerDone = FALSE
    /\ commits = 0 /\ manual = {}

-----------------------------------------------------------------------------
(* Reporting.                                                              *)

\* The message a task has to send.  trace.update names a result by its type,
\* utterance and sequence number, the last read again from self.sequence.
Message(j, seq) ==
    [type |-> j.type, utterance |-> j.utterance, seq |-> seq,
     of |-> IF j.type = "trace.update" THEN j.of ELSE "none"]

\* Mutant: an unfair lock, taken past those who wait when it was just released.
EmitUnfair(t, j, seq, holders) ==
    IF holders = <<>> \/ job[Head(holders)].at = "lock"
    THEN /\ lock' = <<t>> \o holders
         /\ sent' = Append(sent, Message(j, seq))
         /\ job' = [job EXCEPT ![t] = [at |-> "write", message |-> Message(j, seq)]]
    ELSE /\ lock' = Append(holders, t)
         /\ job' = [job EXCEPT ![t] = [at |-> "lock", message |-> Message(j, seq)]]
         /\ UNCHANGED sent

\* emit: the message is written at once when the lock is free, otherwise the
\* task waits in line.
Emit(t, j, seq, holders) ==
    IF holders = <<>>
    THEN /\ lock' = <<t>>
         /\ sent' = Append(sent, Message(j, seq))
         /\ job' = [job EXCEPT ![t] = [at |-> "write", message |-> Message(j, seq)]]
    ELSE /\ lock' = Append(holders, t)
         /\ job' = [job EXCEPT ![t] = [at |-> "lock", message |-> Message(j, seq)]]
         /\ UNCHANGED sent

\* The lock was passed on to a waiting task, which writes its message.
Granted(t) ==
    /\ job[t].at = "lock"
    /\ Head(lock) = t
    /\ sent' = Append(sent, job[t].message)
    /\ job' = [job EXCEPT ![t].at = "write"]
    /\ UNCHANGED <<segVars, queueVars, lock, sequence, stopVars, commitVars>>

\* The write has drained and the lock is released.  After a result comes its
\* trace.update, for which the task asks for the lock anew.
Written(t) ==
    LET m == job[t].message IN
    /\ job[t].at = "write"
    /\ IF m.type \in Results
       THEN Emit(t, [type |-> "trace.update", utterance |-> m.utterance, of |-> m.type],
                 sequence, Tail(lock))
       ELSE /\ lock' = Tail(lock)
            /\ job' = [job EXCEPT ![t] = Idle]
            /\ UNCHANGED sent
    /\ phase' = IF m.type = "session.closed" THEN "closed" ELSE phase
    /\ UNCHANGED <<segVars, queueVars, sequence, workerDone, commitVars>>

\* The ASR request of a transcription comes back with a text, with none, or
\* not at all.
Transcribed(t) ==
    /\ job[t].at = "asr"
    /\ \/ /\ sequence' = sequence + 1
          /\ Emit(t, job[t], sequence', lock)
       \/ /\ job' = [job EXCEPT ![t] = Idle]
          /\ UNCHANGED sendVars
       \/ /\ Emit(t, [type |-> "asr.error", utterance |-> job[t].utterance], 0, lock)
          /\ UNCHANGED sequence
    /\ UNCHANGED <<segVars, queueVars, stopVars, commitVars>>

\* partial_task.cancel(): wherever it awaits, it sends nothing any more, and
\* gives up the lock or its place in the line.
CancelPartial ==
    \/ (\A i \in DOMAIN lock : lock[i] # "partial") /\ UNCHANGED lock
    \/ \E i \in DOMAIN lock : lock[i] = "partial" /\ lock' = RemoveAt(lock, i)

-----------------------------------------------------------------------------
(* The worker.                                                             *)

\* _on_pcm: at the limit the newest frame is dropped.  What arrives once the
\* sentinel is in the queue stays behind it and is not looked at.
OnPcm ==
    /\ arrived < MaxFrames
    /\ phase \in {"running", "putting"}
    /\ arrived' = arrived + 1
    /\ queued' = IF queued < QueueMax THEN queued + 1 ELSE queued
    /\ UNCHANGED <<segVars, sentinel, job, sendVars, stopVars, commitVars>>

\* Mutant: finals, too, are transcribed in the background when they can be.
HandleFinalAside(t) ==
    /\ job' = IF job["partial"] = Idle
              THEN [job EXCEPT !["partial"] = Result("asr.final", event'.utterance)]
              ELSE [job EXCEPT ![t] = Result("asr.final", event'.utterance)]
    /\ UNCHANGED lock

\* Mutant: a final leaves the partial of its utterance under way.
HandleFinalOnly(t) ==
    /\ job' = [job EXCEPT ![t] = Result("asr.final", event'.utterance)]
    /\ UNCHANGED lock

\* _handle_segment for a final: the partial under way is cancelled, and the
\* task that ended the utterance transcribes it.
HandleFinal(t) ==
    /\ CancelPartial
    /\ job' = [job EXCEPT !["partial"] = Idle, ![t] = Result("asr.final", event'.utterance)]

\* _handle_segment for a partial: dropped while the one before is under way.
HandlePartial ==
    /\ job' = IF job["partial"] = Idle
              THEN [job EXCEPT !["partial"] = Result("asr.partial", event'.utterance)]
              ELSE job
    /\ UNCHANGED lock

\* _process_audio takes a frame and feeds it to the segmenter.
ProcessAudio ==
    /\ job["worker"] = Idle /\ ~workerDone
    /\ queued > 0
    /\ queued' = queued - 1
    /\ \/ /\ Seg!Quiet \/ Seg!Start
          /\ UNCHANGED <<job, lock>>
       \/ Seg!Partial /\ HandlePartial
       \/ Seg!Final /\ HandleFinal("worker")
    /\ UNCHANGED <<arrived, sentinel, sequence, sent, stopVars, commitVars>>

\* _process_audio takes the sentinel and returns.
WorkerEnd ==
    /\ job["worker"] = Idle /\ ~workerDone
    /\ sentinel /\ queued = 0
    /\ sentinel' = FALSE
    /\ workerDone' = TRUE
    /\ UNCHANGED <<segVars, arrived, queued, job, sendVars, phase, commitVars>>

-----------------------------------------------------------------------------
(* The message loop.                                                       *)

\* commit: an open utterance ends here and now, and the loop transcribes it.
Commit ==
    /\ phase = "running" /\ job["loop"] = Idle
    /\ commits < MaxCommits
    /\ commits' = commits + 1
    /\ IF open # 0
       THEN Seg!Final /\ HandleFinal("loop") /\ manual' = manual \cup {open}
       ELSE Seg!Quiet /\ UNCHANGED <<job, lock, manual>>
    /\ UNCHANGED <<queueVars, sequence, sent, stopVars>>

\* stop: the receiver is stopped, then the sentinel waits for room in the queue.
Stop ==
    /\ phase = "running" /\ job["loop"] = Idle
    /\ phase' = "putting"
    /\ UNCHANGED <<segVars, queueVars, job, sendVars, workerDone, commitVars>>

\* Mutant: the sentinel is put only if there is room at once.
PutSentinelNowait ==
    /\ phase = "putting"
    /\ sentinel' = (queued < QueueMax)
    /\ phase' = "joining"
    /\ UNCHANGED <<segVars, arrived, queued, job, sendVars, workerDone, commitVars>>

PutSentinel ==
    /\ phase = "putting"
    /\ queued < QueueMax
    /\ sentinel' = TRUE
    /\ phase' = "joining"
    /\ UNCHANGED <<segVars, arrived, queued, job, sendVars, workerDone, commitVars>>

\* Mutant: the partial is left to end by itself.
JoinedOnly ==
    /\ phase = "joining" /\ workerDone
    /\ phase' = "closing"
    /\ UNCHANGED <<segVars, queueVars, job, sendVars, workerDone, commitVars>>

\* The worker is done: the partial is cancelled, the ASR client closed.
Joined ==
    /\ phase = "joining" /\ workerDone
    /\ phase' = "closing"
    /\ CancelPartial
    /\ job' = [job EXCEPT !["partial"] = Idle]
    /\ UNCHANGED <<segVars, queueVars, sequence, sent, workerDone, commitVars>>

\* stop_session reports the end.
ReportClosed ==
    /\ phase = "closing" /\ job["loop"] = Idle
    /\ Emit("loop", [type |-> "session.closed", utterance |-> 0], 0, lock)
    /\ UNCHANGED <<segVars, queueVars, sequence, stopVars, commitVars>>

Loop == Commit \/ Stop \/ PutSentinel \/ Joined \/ ReportClosed

Transcription(t) == Transcribed(t) \/ Granted(t) \/ Written(t)

Next ==
    \/ OnPcm \/ ProcessAudio \/ WorkerEnd \/ Loop
    \/ \E t \in Tasks : Transcription(t)

Spec == Init /\ [][Next]_vars

\* The event loop runs every task that can run, ASR requests end (their client
\* has a timeout) and writes drain.  Nobody has to speak, commit or stop.
Fairness ==
    /\ WF_vars(ProcessAudio) /\ WF_vars(WorkerEnd)
    /\ WF_vars(PutSentinel) /\ WF_vars(Joined) /\ WF_vars(ReportClosed)
    /\ \A t \in Tasks : WF_vars(Transcription(t))

FairSpec == Spec /\ Fairness

-----------------------------------------------------------------------------
(* Properties.                                                             *)

Messages ==
    [type : Results \cup {"trace.update", "asr.error", "session.closed"},
     utterance : Nat, seq : Nat, of : Results \cup {"none"}]

Jobs ==
    {Idle} \cup [at : {"asr"}, utterance : Nat, type : Results]
           \cup [at : {"lock", "write"}, message : Messages]

\* Every variable stays in its range; the lock is held by who is writing, and
\* wanted by who waits for it.
TypeOK ==
    /\ {open, count, arrived, queued, sequence, commits} \subseteq Nat
    /\ queued <= QueueMax
    /\ event \in [kind : {"none", "partial", "final"}, utterance : Nat]
    /\ {sentinel, workerDone} \subseteq BOOLEAN
    /\ job \in [Tasks -> Jobs]
    /\ lock \in Seq(Tasks) /\ ToSet(lock) = {t \in Tasks : job[t].at \in {"lock", "write"}}
    /\ \A t \in Tasks : job[t].at = "write" => t = Head(lock)
    /\ sent \in Seq(Messages)
    /\ phase \in {"running", "putting", "joining", "closing", "closed"}
    /\ manual \in SUBSET Nat

IsResult(m) == m.type \in Results
IsFinal(m) == m.type = "asr.final"

Positions == {p \in (1 .. Len(sent)) \X (1 .. Len(sent)) : p[1] < p[2]}

\* The final of an utterance is the last result about it: no second final, and
\* no partial that was still under way, follows it.
FinalIsLast ==
    \A p \in Positions :
        IsFinal(sent[p[1]]) /\ IsResult(sent[p[2]]) => sent[p[1]].utterance # sent[p[2]].utterance

\* Results are written in the order of their sequence numbers, though three
\* tasks draw numbers and write: a number lost with a cancelled partial leaves
\* a gap, never a repetition.  A trace.update comes after a result of the kind
\* and the utterance it names, with a number no less than that of the result.
\* (It may be greater: the code reads it again after the result was sent, and
\* another transcription may have drawn the next number meanwhile.)
SequenceInOrder ==
    /\ \A p \in Positions :
          IsResult(sent[p[1]]) /\ IsResult(sent[p[2]]) => sent[p[1]].seq < sent[p[2]].seq
    /\ \A j \in 1 .. Len(sent) : sent[j].type = "trace.update" =>
          \E i \in 1 .. j - 1 :
              /\ sent[i].type = sent[j].of /\ sent[i].utterance = sent[j].utterance
              /\ sent[i].seq <= sent[j].seq

\* Finals are reported in the order of their utterances, except that one a
\* commit has cut may come after the one that follows it.
FinalsInOrder ==
    \A p \in Positions :
        /\ IsFinal(sent[p[1]]) /\ IsFinal(sent[p[2]])
        /\ sent[p[1]].utterance > sent[p[2]].utterance
        => sent[p[2]].utterance \in manual

\* Nothing about a session follows the report that it is closed, and nothing
\* is left that could: the audio that was accepted has been recognized, and no
\* transcription is under way.
ClosedIsLast ==
    \A i \in 1 .. Len(sent) : sent[i].type = "session.closed" =>
        /\ i = Len(sent)
        /\ queued = 0
        /\ \A t \in Tasks : job[t] = Idle \/ t = "loop"

\* stop() comes to its end and reports it, also with a full queue.
StopEnds == (phase = "putting") ~> (phase = "closed")
=============================================================================
