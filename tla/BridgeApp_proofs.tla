-------------------------- MODULE BridgeApp_proofs --------------------------
(***************************************************************************)
(* What is proved of BridgeApp for any number of sessions and connections, *)
(* any BRIDGE_MAX_SESSIONS, and whatever the control plane sends.          *)
(***************************************************************************)
EXTENDS BridgeApp, FiniteSetTheorems, TLAPS

\* What the bridge and its links do, however much is under way.
AppMove ==
    \/ AppStep \/ Crash \/ Restart
    \/ \E l \in Links :
          \/ Connect(l) \/ LinkDown(l) \/ Take(l)
          \/ \E message \in AppMessages : Deliver(l, message)

\* A step of the specification is such a move, with a bound on the wire.
LEMMA StepIsMove == [AppNext]_appVars => [AppMove]_appVars
BY DEF AppNext, AppMove

-----------------------------------------------------------------------------
(* Type correctness.                                                       *)

\* Reporting an event keeps what is under way to the control plane a sequence
\* of events.
LEMMA EmitType ==
    ASSUME AppTypeOK, NEW type \in {"session.ready", "asr.error", "session.closed"},
           NEW s \in Sessions, Emit(type, s)
    PROVE  outbox' \in [Links -> Seq(AppEvents)]
<1> DEFINE event == [type |-> type, session |-> s]
<1>1. event \in AppEvents
  BY DEF AppEvents
<1> HIDE DEF event
<1>2. outbox \in [Links -> Seq(AppEvents)]
      /\ \A l \in Links : Append(outbox[l], event) \in Seq(AppEvents)
  BY <1>1 DEF AppTypeOK
<1>3. outbox' = outbox \/ outbox' = [outbox EXCEPT ![link] = Append(@, event)]
  BY DEF Emit, event
<1> QED
  BY <1>2, <1>3

\* Taking the next message keeps the wire a sequence of messages.
LEMMA ReceivingType ==
    ASSUME AppTypeOK, NEW type, NEW s \in Sessions, Receiving(type, s)
    PROVE  inbox' \in [Links -> Seq(AppMessages)]
<1>1. \A l \in Links : inbox[l] # <<>> => Tail(inbox[l]) \in Seq(AppMessages)
  BY DEF AppTypeOK
<1> QED
  BY <1>1 DEF Receiving, AppTypeOK

\* The capacity check, from HandleStart or Replaced.
LEMMA AdmitType ==
    ASSUME AppTypeOK, NEW s \in Sessions, NEW others \in SUBSET Sessions, Admit(s, others)
    PROVE  /\ held' \in SUBSET Sessions
           /\ job' \in {Idle, Busy("starting", s)}
           /\ outbox' \in [Links -> Seq(AppEvents)]
BY EmitType DEF Admit, AppTypeOK

\* What the handling of a message does, beyond reporting and receiving.
LEMMA HandleMessageType ==
    ASSUME AppTypeOK, NEW s \in Sessions,
           HandleStart(s) \/ Replaced(s) \/ Started(s) \/ StartFailed(s)
           \/ StartFailedUnreported(s) \/ Aborted(s) \/ HandleStop(s) \/ Stopped(s)
           \/ HandleCommand(s) \/ Commanded(s) \/ StopHangs(s)
    PROVE  AppTypeOK'
<1> USE DEF sweepVars
<1>1. CASE HandleStart(s)
  BY <1>1, ReceivingType, AdmitType DEF HandleStart, AppTypeOK, Busy, Idle
<1>2. CASE Replaced(s)
  BY <1>2, AdmitType DEF Replaced, AppTypeOK, Busy, Idle
<1>3. CASE Started(s)
  BY <1>3, EmitType DEF Started, AppTypeOK, Idle
<1>4. CASE StartFailed(s)
  BY <1>4, EmitType DEF StartFailed, AppTypeOK, Busy
<1>5. CASE HandleStop(s)
  BY <1>5, ReceivingType DEF HandleStop, AppTypeOK, Busy
<1>6. CASE Stopped(s)
  BY <1>6, EmitType DEF Stopped, AppTypeOK, Idle
<1>7. CASE HandleCommand(s)
  BY <1>7, ReceivingType DEF HandleCommand, AppTypeOK, Busy, Idle
<1>8. CASE StartFailedUnreported(s) \/ Aborted(s) \/ Commanded(s) \/ StopHangs(s)
  BY <1>8 DEF StartFailedUnreported, Aborted, Commanded, StopHangs, AppTypeOK, Busy, Idle
<1> QED
  BY <1>1, <1>2, <1>3, <1>4, <1>5, <1>6, <1>7, <1>8

\* The end of the process is a state like another.
LEMMA DieType == AppTypeOK /\ Die => AppTypeOK'
  BY DEF AppTypeOK, Die, Idle

\* Every step of the bridge keeps every variable in its range.
LEMMA AppTypeStep == AppTypeOK /\ [AppMove]_appVars => AppTypeOK'
<1> SUFFICES ASSUME AppTypeOK, [AppMove]_appVars PROVE AppTypeOK'
  OBVIOUS
<1> USE DEF sweepVars
<1>1. ASSUME NEW s \in Sessions, StopRaises(s) PROVE AppTypeOK'
  <2>1. CASE Die
    BY <2>1, DieType
  <2>2. CASE ~Die
    BY <1>1, <2>2, EmitType DEF StopRaises, AppTypeOK, Idle
  <2> QED
    BY <2>1, <2>2
<1>2. CASE HandleMessage
  BY <1>1, <1>2, HandleMessageType DEF HandleMessage
<1>3. CASE Run
  <2>1. CASE Lose
    <3>1. <<>> \in Seq(AppMessages)
      OBVIOUS
    <3> QED
      BY <2>1, <3>1 DEF Lose, AppTypeOK
  <2> QED
    BY <1>3, <2>1, DieType DEF Run, ClearOne, ClearedOne, Reconnect, End, AppTypeOK, Busy, Idle
<1>4. ASSUME NEW s \in Sessions, AsrFailed(s) PROVE AppTypeOK'
  BY <1>4, EmitType DEF AsrFailed, AppTypeOK
<1>5. ASSUME NEW s \in Sessions, WorkerDies(s) \/ StrayFails(s) PROVE AppTypeOK'
  BY <1>5, EmitType DEF WorkerDies, StrayFails, AppTypeOK
<1>6. CASE Crash \/ Restart
  BY <1>6, DieType DEF Crash, Restart, AppTypeOK
<1>7. ASSUME NEW l \in Links, Connect(l) \/ LinkDown(l) PROVE AppTypeOK'
  <2>1. up' \in [Links -> BOOLEAN]
    BY <1>7 DEF Connect, LinkDown, AppTypeOK
  <2>2. l \in 0 .. MaxLinks
    BY BridgeAssumption DEF Links
  <2> QED
    BY <1>7, <2>1, <2>2 DEF Connect, LinkDown, AppTypeOK
<1>8. ASSUME NEW l \in Links, Take(l) PROVE AppTypeOK'
  <2>1. Tail(outbox[l]) \in Seq(AppEvents)
    BY <1>8 DEF Take, AppTypeOK
  <2> QED
    BY <1>8, <2>1 DEF Take, AppTypeOK
<1>9. ASSUME NEW l \in Links, NEW message \in AppMessages, Deliver(l, message) PROVE AppTypeOK'
  <2>1. Append(inbox[l], message) \in Seq(AppMessages)
    BY DEF AppTypeOK
  <2> QED
    BY <1>9, <2>1 DEF Deliver, AppTypeOK
<1>10. CASE UNCHANGED appVars
  BY <1>10 DEF appVars, AppTypeOK
<1> QED
  BY <1>2, <1>3, <1>4, <1>5, <1>6, <1>7, <1>8, <1>9, <1>10 DEF AppMove, AppStep

\* Every variable of the bridge stays in its range.
THEOREM BridgeTypeCorrect == AppSpec => []AppTypeOK
<1>1. AppInit => AppTypeOK
  <2>1. <<>> \in Seq(AppMessages) /\ <<>> \in Seq(AppEvents) /\ 0 \in 0 .. MaxLinks
    BY BridgeAssumption
  <2> QED
    BY <2>1 DEF AppInit, AppTypeOK, Idle
<1> QED
  BY <1>1, AppTypeStep, StepIsMove, PTL DEF AppSpec

-----------------------------------------------------------------------------
(* The capacity of the bridge.                                             *)

\* Only the capacity check adds a session, and only where there is room.
LEMMA HeldStep ==
    ASSUME AppTypeOK, [AppMove]_appVars
    PROVE  \/ held' \subseteq held
           \/ \E s \in Sessions, others \in SUBSET held :
                 Cardinality(others) < MaxSessions /\ held' = others \cup {s}
<1> DEFINE Shrinks == held' \subseteq held
           Grows == \E s \in Sessions, others \in SUBSET held :
                       ~(Cardinality(others) >= MaxSessions) /\ held' = others \cup {s}
<1>1. ASSUME NEW s \in Sessions, HandleStart(s) \/ Replaced(s) PROVE Shrinks \/ Grows
  BY <1>1 DEF HandleStart, Replaced, Admit
<1>2. CASE ~(\E s \in Sessions : HandleStart(s) \/ Replaced(s))
  BY <1>2 DEF AppMove, AppStep, HandleMessage, Run, Started, StartFailed,
     StartFailedUnreported, Aborted, HandleStop, Stopped, HandleCommand, Commanded,
     StopRaises, StopHangs, Lose, ClearOne, ClearedOne, Reconnect, End, Die, AsrFailed,
     WorkerDies, StrayFails, Crash, Restart, Connect, LinkDown, Take, Deliver, appVars
<1>3. ASSUME NEW others \in SUBSET held
      PROVE  ~(Cardinality(others) >= MaxSessions) <=> Cardinality(others) < MaxSessions
  <2>1. IsFiniteSet(others)
    BY FS_Subset, BridgeAssumption DEF AppTypeOK
  <2> QED
    BY <2>1, FS_CardinalityType, BridgeAssumption
<1> QED
  BY <1>1, <1>2, <1>3

\* A set that loses members, or gains one below the limit, stays within it.
LEMMA LimitStep ==
    ASSUME AppTypeOK, HeldWithinLimit, [AppMove]_appVars
    PROVE  HeldWithinLimit'
<1>1. IsFiniteSet(held) /\ MaxSessions \in Nat
  BY FS_Subset, BridgeAssumption DEF AppTypeOK
<1>2. CASE held' \subseteq held
  <2>1. IsFiniteSet(held') /\ Cardinality(held') <= Cardinality(held)
    BY <1>1, <1>2, FS_Subset
  <2> QED
    BY <1>1, <2>1, FS_CardinalityType DEF HeldWithinLimit
<1>3. ASSUME NEW s \in Sessions, NEW others \in SUBSET held,
             Cardinality(others) < MaxSessions, held' = others \cup {s}
      PROVE  HeldWithinLimit'
  <2>1. IsFiniteSet(others)
    BY <1>1, FS_Subset
  <2>2. Cardinality(others) \in Nat
        /\ Cardinality(others \cup {s}) \in {Cardinality(others), Cardinality(others) + 1}
    BY <2>1, FS_AddElement, FS_CardinalityType, Zenon
  <2> QED
    BY <1>1, <1>3, <2>2 DEF HeldWithinLimit
<1> QED
  BY <1>2, <1>3, HeldStep

\* The bridge never holds more than BRIDGE_MAX_SESSIONS sessions.
THEOREM HeldIsBounded == AppSpec => []HeldWithinLimit
<1>1. AppInit => HeldWithinLimit
  BY FS_EmptySet, BridgeAssumption DEF AppInit, HeldWithinLimit
<1>2. AppTypeOK /\ HeldWithinLimit /\ [AppMove]_appVars => HeldWithinLimit'
  BY LimitStep
<1> QED
  BY <1>1, <1>2, StepIsMove, BridgeTypeCorrect, PTL DEF AppSpec

-----------------------------------------------------------------------------
(* Between two connections.                                                *)

\* The list that stop_all_sessions works from is what is held, at each await of
\* it, and nobody else is at work on the sessions then.
SweepInPlace ==
    /\ phase \in {"clearing", "ending"} =>
          todo = held /\ job.step \in {"idle", "clearing", "stuck"}
    /\ phase \in {"connecting", "dead"} => held = {} /\ job = Idle

\* The handling of a message is over when the list is taken, and a stop() that
\* raises has the list taken anew.
LEMMA SweepStep ==
    ASSUME SweepInPlace, [AppMove]_appVars
    PROVE  SweepInPlace'
<1> USE DEF SweepInPlace, sweepVars
<1>1. CASE Die
  BY <1>1 DEF Die
<1>2. ASSUME NEW s \in Sessions,
             Replaced(s) \/ Started(s) \/ StartFailed(s) \/ StartFailedUnreported(s)
             \/ Aborted(s) \/ Stopped(s) \/ Commanded(s)
      PROVE  SweepInPlace'
  BY <1>2 DEF Replaced, Started, StartFailed, StartFailedUnreported, Aborted, Stopped,
     Commanded, Idle, Busy
<1>3. ASSUME NEW s \in Sessions, HandleStart(s) \/ HandleStop(s) \/ HandleCommand(s)
      PROVE  SweepInPlace'
  BY <1>3 DEF HandleStart, HandleStop, HandleCommand, Receiving
<1>4. ASSUME NEW s \in Sessions, StopRaises(s) PROVE SweepInPlace'
  <2>1. CASE phase = "ending"
    BY <1>1, <1>4, <2>1 DEF StopRaises
  <2>2. CASE phase # "ending"
    BY <1>4, <2>2 DEF StopRaises, Idle
  <2> QED
    BY <2>1, <2>2
<1>5. ASSUME NEW s \in Sessions, StopHangs(s) PROVE SweepInPlace'
  BY <1>5 DEF StopHangs, Idle, Busy
<1>6. CASE Run
  <2>1. CASE Lose \/ ClearedOne \/ Reconnect
    BY <2>1 DEF Lose, ClearedOne, Reconnect, Idle
  <2>2. ASSUME NEW s \in Sessions, ClearOne(s) PROVE SweepInPlace'
    BY <2>2 DEF ClearOne, Idle, Busy
  <2> QED
    BY <1>1, <1>6, <2>1, <2>2 DEF Run, End
<1>7. ASSUME NEW s \in Sessions, AsrFailed(s) \/ WorkerDies(s) \/ StrayFails(s)
      PROVE  SweepInPlace'
  BY <1>7 DEF AsrFailed, WorkerDies, StrayFails
<1>8. CASE Crash \/ Restart
  BY <1>1, <1>8 DEF Crash, Restart
<1>9. ASSUME NEW l \in Links,
             Connect(l) \/ LinkDown(l) \/ Take(l) \/ \E m \in AppMessages : Deliver(l, m)
      PROVE  SweepInPlace'
  BY <1>9 DEF Connect, LinkDown, Take, Deliver
<1>10. CASE UNCHANGED appVars
  BY <1>10 DEF appVars
<1> QED
  BY <1>2, <1>3, <1>4, <1>5, <1>6, <1>7, <1>8, <1>9, <1>10 DEF AppMove, AppStep, HandleMessage

\* stop_all_sessions leaves no session behind, whichever stop() of it raises:
\* none outlives the connection it was started on.
THEOREM ReconnectsEmptyHanded == AppSpec => []EmptyHandedReconnect
<1>1. AppInit => SweepInPlace
  BY DEF AppInit, SweepInPlace
<1>2. SweepInPlace /\ [AppMove]_appVars => SweepInPlace'
  BY SweepStep
<1>3. SweepInPlace => EmptyHandedReconnect
  BY DEF SweepInPlace, EmptyHandedReconnect
<1> QED
  BY <1>1, <1>2, <1>3, StepIsMove, PTL DEF AppSpec
=============================================================================
