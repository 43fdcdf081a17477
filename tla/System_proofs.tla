---------------------------- MODULE System_proofs ----------------------------
(***************************************************************************)
(* What is proved of the control plane and the bridge together, for any    *)
(* number of sessions, links and messages under way.  The system is an     *)
(* instance of the control plane with an arbitrary bridge, so whatever is  *)
(* proved of ControlPlane holds of it; what the two promise each other     *)
(* rests on an invariant over the registry, the wire and the bridge.       *)
(***************************************************************************)
EXTENDS System, ControlPlane_proofs, SequenceTheorems

\* What is proved of the bridge whatever the control plane sends.
Facts == INSTANCE BridgeApp_proofs

-----------------------------------------------------------------------------
(* The inductive invariant.                                                *)

\* What the bridge has yet to take from a link: what has arrived, and what
\* waits in the channel as long as the connection can carry it.
Pending(l) == IF up[l] THEN inbox[l] \o toBridge[l] ELSE inbox[l]

\* The message at a position of that.
At(l, i, type, s) ==
    i \in DOMAIN Pending(l) /\ Pending(l)[i] = [type |-> type, session |-> s]

\* What the control plane has yet to take from a link.
Ev(l, i, type, s) ==
    i \in DOMAIN outbox[l] /\ outbox[l][i] = [type |-> type, session |-> s]

\* The types of what the control plane sends.
MessageTypes == {"session.start", "session.stop", "command"}

\* The bridge has the session, or is busy with it.
Handled(s) == s \in held \/ job.session = s

\* The two ends know the same latest connection, no other one is alive, and
\* only what came over it is still to be handled.
LinksAgree ==
    /\ bridge \in {None, link}
    /\ phase = "receiving" => link # 0
    /\ \A l \in Links :
          /\ l > link <=> linkTask[l] = "unused"
          /\ l > link => toBridge[l] = <<>> /\ outbox[l] = <<>>
          /\ up[l] => l = link /\ phase = "receiving" /\ linkTask[l] = "serving"
          /\ inbox[l] # <<>> => l = link /\ phase = "receiving"

\* What the bridge awaits fits what it holds.  A session is never replaced,
\* since its id is started once, and a worker dies only without a connection.
JobInPlace ==
    /\ job.step = "idle" <=> job.session = None
    /\ job.step # "replacing"
    /\ job.step \in {"starting", "commanding"} => job.session \in held
    /\ job.step \in {"aborting", "stopping", "clearing", "stuck"}
          => job.session \in Sessions \ held
    /\ job.step \in {"starting", "aborting", "stopping", "commanding"} => phase = "receiving"
    /\ job.step = "clearing" => phase \in {"clearing", "ending"}
    /\ job.step \in {"starting", "aborting"} => job.session \notin failed
    /\ job.step = "stuck" => job.session \in failed
    /\ \A s \in failed : Handled(s) /\ \A l \in Links : ~up[l]

\* Nobody has heard of a session that was not created.
FreshIds ==
    \A s \in Sessions : state[s] = "unallocated" =>
        /\ ~Handled(s)
        /\ \A l \in Links, i \in Nat :
              /\ \A type \in MessageTypes : ~At(l, i, type, s)
              /\ \A type \in BridgeEvents : ~Ev(l, i, type, s)

\* Whatever is held or reported was started on that connection, except that a
\* partial result which a stop() left under way may fail on a later one.
StartedHere ==
    \A s \in Sessions :
        /\ Handled(s) => startedOn[s] = link
        /\ \A l \in Links : startedOn[s] = l => l <= link
        /\ \A l \in Links, i \in Nat, type \in BridgeEvents :
              Ev(l, i, type, s) =>
                 startedOn[s] = l \/ (type = "asr.error" /\ startedOn[s] \in 0 .. l - 1)

\* Such a session was started before, and the bridge has lost the connection.
StraysInPlace ==
    \A s \in stray :
        /\ ~Handled(s) /\ state[s] # "unallocated"
        /\ startedOn[s] \in 0 .. link
        /\ \A l \in Links : up[l] => startedOn[s] # l
        /\ \A l \in Links, i \in Nat : ~At(l, i, "session.start", s)

\* A session whose start is under way has not been heard of.
Unstarted ==
    \A l \in Links, i \in Nat, s \in Sessions : At(l, i, "session.start", s) =>
        /\ startedOn[s] = l /\ ~Handled(s) /\ state[s] # "ready"
        /\ \A j \in Nat, type \in BridgeEvents : ~Ev(l, j, type, s)

\* A session is started once, and stopped after that.
StartsInOrder ==
    \A l \in Links, i, j \in Nat, s \in Sessions : At(l, i, "session.start", s) =>
        /\ At(l, j, "session.start", s) => i = j
        /\ At(l, j, "session.stop", s) => i < j

\* What was reported closed is neither held nor reported on.
ClosedQuiet ==
    \A l \in Links, i \in Nat, s \in Sessions : Ev(l, i, "session.closed", s) =>
        /\ ~Handled(s)
        /\ \A j \in Nat, type \in BridgeEvents : i < j => ~Ev(l, j, type, s)

\* A session that is not active, but held or about to be, is about to be stopped.
OrphansAccounted ==
    \A l \in Links : up[l] => \A s \in Sessions \ Active :
        s \in held \/ (\E i \in Nat : At(l, i, "session.start", s))
            => \E j \in Nat : At(l, j, "session.stop", s)

\* The sessions the bridge holds when it comes to the message at i.
Ahead(l, i) ==
    {t \in Sessions : /\ t \in held \/ \E j \in Nat : j < i /\ At(l, j, "session.start", t)
                      /\ \A k \in Nat : k < i => ~At(l, k, "session.stop", t)}

\* There is room for every session under way.
RoomKept ==
    \A l \in Links, i \in Nat, s \in Sessions :
        At(l, i, "session.start", s) => Cardinality(Ahead(l, i)) < SessionCapacity

\* A session that was reported ready and not yet reported closed.
Running(s) == s \in held \/ job = App!Busy("stopping", s)

\* A session that is ready, or reported so, is running or was reported closed.
ReadyAccounted ==
    \A l \in Links : up[l] => \A s \in Sessions :
        /\ state[s] = "ready" /\ startedOn[s] = l =>
              Running(s) \/ \E i \in Nat : Ev(l, i, "session.closed", s)
        /\ \A i \in Nat : Ev(l, i, "session.ready", s) =>
              Running(s) \/ \E j \in Nat : i < j /\ Ev(l, j, "session.closed", s)
        /\ job = App!Busy("starting", s) =>
              state[s] # "ready" /\ \A i \in Nat : ~Ev(l, i, "session.ready", s)

\* What holds of each part by itself.
Parts == IndInv /\ App!AppTypeOK /\ Facts!SweepInPlace

\* The inductive invariant of the system.
SysInv ==
    /\ Parts
    /\ LinksAgree /\ JobInPlace
    /\ FreshIds /\ StartedHere /\ StraysInPlace
    /\ Unstarted /\ StartsInOrder /\ ClosedQuiet
    /\ OrphansAccounted /\ RoomKept /\ ReadyAccounted

-----------------------------------------------------------------------------
(* Each part moves by itself.                                              *)

\* A step of the bridge is a step of the bridge alone.
LEMMA SameMoves ==
    /\ App!HandleMessage => Facts!HandleMessage
    /\ App!Run => Facts!Run
    /\ App!Crash => Facts!Crash
    /\ App!Restart => Facts!Restart
<1>1. App!Die <=> Facts!Die
  BY DEF App!Die, Facts!Die, App!Idle, Facts!Idle, App!Links, Facts!Links
<1>2. ASSUME NEW t, NEW type PROVE App!Emit(type, t) <=> Facts!Emit(type, t)
  BY DEF App!Emit, Facts!Emit
<1>3. ASSUME NEW t, NEW step PROVE App!Busy(step, t) = Facts!Busy(step, t)
  BY DEF App!Busy, Facts!Busy
<1>4. App!Idle = Facts!Idle
  BY DEF App!Idle, Facts!Idle
<1>5. ASSUME NEW t, NEW S PROVE App!Admit(t, S) <=> Facts!Admit(t, S)
  <2>1. \A T : App!Cardinality(T) = Facts!Cardinality(T)
    BY Zenon DEF App!Cardinality, Facts!Cardinality
  <2> QED BY <1>2, <1>3, <1>4, <2>1 DEF App!Admit, Facts!Admit
<1> USE DEF App!sweepVars, Facts!sweepVars
<1>6. ASSUME NEW t, NEW type PROVE App!Receiving(type, t) <=> Facts!Receiving(type, t)
  BY <1>4 DEF App!Receiving, Facts!Receiving
<1>7. App!HandleMessage => Facts!HandleMessage
  BY <1>1, <1>2, <1>3, <1>4, <1>5, <1>6
  DEF App!HandleMessage, Facts!HandleMessage, App!HandleStart, Facts!HandleStart,
      App!Replaced, Facts!Replaced, App!Started, Facts!Started, App!StartFailed,
      Facts!StartFailed, App!StartFailedUnreported, Facts!StartFailedUnreported,
      App!Aborted, Facts!Aborted, App!HandleStop, Facts!HandleStop, App!Stopped,
      Facts!Stopped, App!HandleCommand, Facts!HandleCommand, App!Commanded,
      Facts!Commanded, App!StopRaises, Facts!StopRaises, App!StopHangs, Facts!StopHangs
<1>8. App!Run => Facts!Run
  BY <1>1, <1>3, <1>4
  DEF App!Run, Facts!Run, App!Lose, Facts!Lose, App!ClearOne, Facts!ClearOne,
      App!ClearedOne, Facts!ClearedOne, App!Reconnect, Facts!Reconnect, App!End, Facts!End
<1>9. /\ App!Crash => Facts!Crash
      /\ App!Restart => Facts!Restart
  BY <1>1 DEF App!Crash, Facts!Crash, App!Restart, Facts!Restart
<1> QED BY <1>7, <1>8, <1>9

\* A report or a failure of a worker, likewise.
LEMMA SameWorkerMoves ==
    ASSUME NEW s \in Sessions
    PROVE  /\ App!AsrFailed(s) => Facts!AsrFailed(s)
           /\ App!WorkerDies(s) => Facts!WorkerDies(s)
           /\ App!StrayFails(s) => Facts!StrayFails(s)
BY DEF App!AsrFailed, Facts!AsrFailed, App!WorkerDies, Facts!WorkerDies, App!StrayFails,
   Facts!StrayFails, App!Working, Facts!Working, App!Emit, Facts!Emit, App!Busy, Facts!Busy,
   App!sweepVars, Facts!sweepVars

\* What happens to a link, likewise.
LEMMA SameLinkMoves ==
    ASSUME NEW l \in Links
    PROVE  /\ App!Connect(l) => Facts!Connect(l)
           /\ App!LinkDown(l) => Facts!LinkDown(l)
           /\ App!Take(l) => Facts!Take(l)
           /\ \A m : App!Deliver(l, m) => Facts!Deliver(l, m)
BY DEF App!Connect, Facts!Connect, App!LinkDown, Facts!LinkDown, App!Take, Facts!Take,
   App!Deliver, Facts!Deliver, App!sweepVars, Facts!sweepVars

\* A step of the system is, for the bridge, a move of the bridge or of its links.
LEMMA BridgeMoves ==
    ASSUME TypeOK, App!AppTypeOK, [SysNext]_sysVars
    PROVE  [Facts!AppMove]_Facts!appVars
<1> USE DEF App!sweepVars, Facts!sweepVars
<1>1. Links = Facts!Links
  BY DEF Links, Facts!Links
<1>2. CASE UNCHANGED appVars
  BY <1>2 DEF appVars, Facts!appVars
<1>3. CASE Bridge
  <2>1. \/ App!HandleMessage \/ App!Run \/ App!Crash \/ App!Restart
        \/ \E s \in Sessions : App!AsrFailed(s) \/ App!WorkerDies(s) \/ App!StrayFails(s)
        \/ \E l \in Links : App!LinkDown(l)
    BY <1>3 DEF Bridge, App!AppStep
  <2>2. CASE \E l \in Links : App!LinkDown(l)
    BY <1>1, <2>2, SameLinkMoves DEF Facts!AppMove
  <2>3. ASSUME NEW s \in Sessions, App!AsrFailed(s) \/ App!WorkerDies(s) \/ App!StrayFails(s)
        PROVE  Facts!AppMove
    <3>1. Facts!AsrFailed(s) \/ Facts!WorkerDies(s) \/ Facts!StrayFails(s)
      BY <2>3, SameWorkerMoves
    <3>2. Facts!AppStep
      BY <3>1 DEF Facts!AppStep
    <3> QED BY <3>2 DEF Facts!AppMove
  <2>4. CASE App!HandleMessage \/ App!Run \/ App!Crash \/ App!Restart
    BY <2>4, SameMoves DEF Facts!AppMove, Facts!AppStep
  <2> QED BY <2>1, <2>2, <2>3, <2>4
<1>4. ASSUME NEW l \in Links, Connected(l) PROVE Facts!AppMove
  BY <1>1, <1>4, SameLinkMoves DEF Connected, Facts!AppMove
<1>5. ASSUME NEW l \in Links, Send(l) PROVE Facts!AppMove
  <2>1. toBridge[l] \in Seq(Messages) /\ toBridge[l] # <<>>
    BY <1>5 DEF Send, BridgeSocketSend, TypeOK
  <2>2. Head(toBridge[l]) \in Messages
    BY <2>1
  <2>3. Head(toBridge[l]) \in Facts!AppMessages
    BY <2>2 DEF Messages, Facts!AppMessages
  <2> QED BY <1>1, <1>5, <2>3, SameLinkMoves DEF Send, Facts!AppMove
<1>6. ASSUME NEW l \in Links, Receive(l) PROVE Facts!AppMove
  BY <1>1, <1>6, SameLinkMoves DEF Receive, Facts!AppMove
<1>7. ASSUME NEW l \in Links, Break(l) PROVE [Facts!AppMove]_Facts!appVars
  <2>1. CASE up[l]
    <3>1. App!LinkDown(l)
      BY <1>7, <2>1 DEF Break, App!LinkDown
    <3> QED BY <1>1, <3>1, SameLinkMoves DEF Facts!AppMove
  <2>2. CASE ~up[l]
    <3>1. up' = up
      <4>1. up \in [Links -> BOOLEAN]
        BY DEF App!AppTypeOK, App!Links, Links
      <4>2. up' = [up EXCEPT ![l] = FALSE]
        BY <1>7 DEF Break
      <4>3. up[l] = FALSE
        BY <2>2, <4>1
      <4> QED BY <4>1, <4>2, <4>3
    <3>2. UNCHANGED Facts!appVars
      BY <1>7, <3>1 DEF Break, Facts!appVars
    <3> QED BY <3>2
  <2> QED BY <2>1, <2>2
<1> QED
  BY <1>2, <1>3, <1>4, <1>5, <1>6, <1>7 DEF SysNext, Server, Wire, sysVars

\* A step of the system is a step of the control plane or leaves it alone.
LEMMA RegistryStep == ASSUME App!AppTypeOK, [SysNext]_sysVars PROVE [Next]_vars
<1>1. CASE Server
  BY <1>1 DEF Server, Next, BridgeSocket
<1>2. ASSUME NEW l \in Links, Connected(l) \/ Send(l) \/ Break(l) PROVE Next
  BY <1>2 DEF Connected, Send, Break, Next, BridgeSocket
<1>3. ASSUME NEW l \in Links, Receive(l) PROVE [Next]_vars
  <2> DEFINE event == Head(outbox[l])
  <2>1. CASE event.session \in Known
    <3>1. event \in App!AppEvents
      <4>1. outbox[l] \in Seq(App!AppEvents)
        BY DEF App!AppTypeOK, App!Links, Links
      <4>2. outbox[l] # <<>>
        BY <1>3 DEF Receive, App!Take
      <4> HIDE DEF event
      <4>3. Head(outbox[l]) \in App!AppEvents
        BY <4>1, <4>2
      <4> QED
        BY <4>3 DEF event
    <3>2. HandleBridgeEvent(l, event.session, event.type)
      BY <1>3, <2>1 DEF Receive
    <3>3. event.session \in Sessions /\ event.type \in BridgeEvents
      BY <3>1 DEF App!AppEvents, BridgeEvents
    <3> QED
      BY <3>2, <3>3 DEF Next, BridgeSocket
  <2>2. CASE event.session \notin Known
    BY <1>3, <2>2 DEF Receive
  <2> QED
    BY <2>1, <2>2
<1>4. CASE Bridge
  BY <1>4 DEF Bridge
<1>5. CASE UNCHANGED sysVars
  BY <1>5 DEF sysVars, vars
<1> QED
  BY <1>1, <1>2, <1>3, <1>4, <1>5 DEF SysNext, Wire

\* What holds of each part by itself is kept.
LEMMA PartsStep == ASSUME Parts, [SysNext]_sysVars PROVE Parts'
<1>1. IndInv'
  <2>1. [Next]_vars
    BY RegistryStep DEF Parts
  <2> QED BY <2>1, IndInvStep DEF Parts
<1>2. [Facts!AppMove]_Facts!appVars
  BY BridgeMoves DEF Parts, IndInv
<1> DEFINE Assumed == /\ Facts!IsFiniteSet(Sessions) /\ None \notin Sessions
                      /\ MaxLinks \in Nat /\ MaxSessions \in Nat \ {0} /\ WireBound \in Nat
<1>0. Assumed
  <2>1. IsFiniteSet(Sessions) <=> Facts!IsFiniteSet(Sessions)
    BY Zenon DEF IsFiniteSet, Facts!IsFiniteSet
  <2> QED BY <2>1, SessionsAssumption, LinksAssumption, SystemAssumption
<1>3. App!AppTypeOK'
  <2>1. Facts!AppTypeOK
    BY DEF Parts, App!AppTypeOK, Facts!AppTypeOK, App!Links, Facts!Links, App!AppMessages,
           Facts!AppMessages, App!AppEvents, Facts!AppEvents
  <2>2. Facts!AppTypeOK'
    BY <1>0, <1>2, <2>1, Facts!AppTypeStep
  <2> QED
    BY <2>2 DEF App!AppTypeOK, Facts!AppTypeOK, App!Links, Facts!Links, App!AppMessages,
           Facts!AppMessages, App!AppEvents, Facts!AppEvents
<1>4. Facts!SweepInPlace'
  BY <1>0, <1>2, Facts!SweepStep DEF Parts
<1> QED BY <1>1, <1>3, <1>4 DEF Parts

-----------------------------------------------------------------------------
(* The wire.                                                               *)

\* The ranges that the lemmas below use.
Ranges ==
    /\ phase \in {"connecting", "receiving", "clearing", "ending", "dead"}
    /\ link \in 0 .. MaxLinks /\ link \in Nat
    /\ up \in [Links -> BOOLEAN]
    /\ held \in SUBSET Sessions /\ failed \in SUBSET Sessions /\ stray \in SUBSET Sessions
    /\ job.session \in Sessions \cup {None}
    /\ job = App!Busy(job.step, job.session)
    /\ inbox \in [Links -> Seq(Messages)]
    /\ toBridge \in [Links -> Seq(Messages)]
    /\ outbox \in [Links -> Seq(App!AppEvents)]
    /\ state \in [Sessions -> SessionStates]
    /\ startedOn \in [Sessions -> Links \cup {None}]
    /\ linkTask \in [Links -> {"unused", "serving", "leaving", "done"}]
    /\ bridge \in Links \cup {None}
    /\ \A l \in Links : Pending(l) \in Seq(Messages)

\* They follow from what holds of each part.
LEMMA InRange == ASSUME Parts PROVE Ranges
<1>0. App!AppMessages = Messages /\ App!Links = Links
  BY DEF App!AppMessages, Messages, App!Links, Links
<1>1. /\ link \in 0 .. MaxLinks /\ link \in Nat
      /\ inbox \in [Links -> Seq(Messages)]
      /\ toBridge \in [Links -> Seq(Messages)]
  BY <1>0, LinksAssumption DEF Parts, IndInv, TypeOK, App!AppTypeOK
<1>2. \A l \in Links : Pending(l) \in Seq(Messages)
  <2> SUFFICES ASSUME NEW l \in Links PROVE Pending(l) \in Seq(Messages)
    OBVIOUS
  <2> DEFINE a == inbox[l]
             b == toBridge[l]
  <2>1. a \in Seq(Messages) /\ b \in Seq(Messages)
    BY <1>1
  <2> HIDE DEF a, b
  <2>2. a \o b \in Seq(Messages)
    BY <2>1
  <2> QED BY <2>1, <2>2 DEF Pending, a, b
<1>3. job.session \in Sessions \cup {None} /\ job = App!Busy(job.step, job.session)
  BY DEF Parts, App!AppTypeOK, App!Busy
<1> QED
  BY <1>1, <1>2, <1>3
  DEF Ranges, Parts, IndInv, TypeOK, App!AppTypeOK, App!Links, Links

\* Messages of a type and a session are what At and Ev distinguish.
LEMMA Fields ==
    ASSUME NEW type, NEW s, NEW t, NEW r,
           [type |-> type, session |-> s] = [type |-> t, session |-> r]
    PROVE  type = t /\ s = r
BY Z3

\* Where there is a message.
LEMMA Positions ==
    /\ \A l, i, type, s : At(l, i, type, s) /\ Pending(l) \in Seq(Messages) =>
          i \in Nat /\ 1 <= i /\ i <= Len(Pending(l))
    /\ \A l, i, type, s, t, r : At(l, i, type, s) /\ At(l, i, t, r) => type = t /\ s = r
    /\ \A l, i, type, s : Ev(l, i, type, s) /\ outbox[l] \in Seq(App!AppEvents) =>
          i \in Nat /\ 1 <= i /\ i <= Len(outbox[l])
    /\ \A l, i, type, s, t, r : Ev(l, i, type, s) /\ Ev(l, i, t, r) => type = t /\ s = r
BY Fields DEF At, Ev

\* Nothing is added, nothing taken.
AtKept ==
    \A l \in Links, i \in Nat, type \in MessageTypes, s \in Sessions :
        At(l, i, type, s)' <=> At(l, i, type, s)

\* These messages are added to what the connection carries.
AtAdded(ms) ==
    /\ \A l \in Links, i \in Nat, type \in MessageTypes, s \in Sessions :
          /\ At(l, i, type, s) => At(l, i, type, s)'
          /\ At(l, i, type, s)' =>
                \/ At(l, i, type, s)
                \/ /\ up[l]
                   /\ \E k \in DOMAIN ms : /\ i = Len(Pending(l)) + k
                                           /\ ms[k] = [type |-> type, session |-> s]
    /\ \A l \in Links, k \in DOMAIN ms, type \in MessageTypes, s \in Sessions :
          up[l] /\ ms[k] = [type |-> type, session |-> s] =>
              \A i \in Nat : i = Len(Pending(l)) + k => At(l, i, type, s)'

\* The bridge takes the first message.
AtTaken(type, s) ==
    /\ link \in Links /\ At(link, 1, type, s)
    /\ \A l \in Links, i \in Nat, t \in MessageTypes, r \in Sessions :
          At(l, i, t, r)' <=> IF l = link THEN 1 <= i /\ At(l, i + 1, t, r) ELSE At(l, i, t, r)

\* The connection is gone, with some of the last messages.
AtCut ==
    /\ \A l \in Links : ~up'[l]
    /\ \A l \in Links, i \in Nat, type \in MessageTypes, s \in Sessions :
          At(l, i, type, s)' =>
              /\ At(l, i, type, s)
              /\ \A j \in Nat, t \in MessageTypes, r \in Sessions :
                    j < i /\ At(l, j, t, r) => At(l, j, t, r)'

\* No event is added, none is taken.
EvKept ==
    \A l \in Links, i \in Nat, type \in BridgeEvents, s \in Sessions :
        Ev(l, i, type, s)' <=> Ev(l, i, type, s)

\* The bridge reports an event, which is lost with the connection.
EvSent(type, s) ==
    /\ \A l \in Links, i \in Nat, t \in BridgeEvents, r \in Sessions :
          /\ Ev(l, i, t, r) => Ev(l, i, t, r)'
          /\ Ev(l, i, t, r)' => \/ Ev(l, i, t, r)
                                \/ l = link /\ t = type /\ r = s /\ i = Len(outbox[l]) + 1
    /\ \A l \in Links, i \in Nat :
          l = link /\ up[l] /\ i = Len(outbox[l]) + 1 => Ev(l, i, type, s)'

\* The control plane takes the first event of a link.
EvTaken(l, type, s) ==
    /\ Ev(l, 1, type, s)
    /\ \A m \in Links, i \in Nat, t \in BridgeEvents, r \in Sessions :
          Ev(m, i, t, r)' <=> IF m = l THEN 1 <= i /\ Ev(m, i + 1, t, r) ELSE Ev(m, i, t, r)

\* An unchanged queue.
LEMMA PipeKept == ASSUME \A l \in Links : Pending(l)' = Pending(l) PROVE AtKept /\ AtAdded(<<>>)
BY DEF AtKept, AtAdded, At

\* A queue that grew at its end.
LEMMA PipeTold ==
    ASSUME Ranges, NEW ms \in Seq(Messages),
           \A l \in Links : Pending(l)' = IF up[l] THEN Pending(l) \o ms ELSE Pending(l)
    PROVE  AtAdded(ms)
<1>1. ASSUME NEW l \in Links, NEW i \in Nat, up[l]
      PROVE  LET p == Pending(l)
                 q == Pending(l)' IN
             /\ i \in DOMAIN p => i \in DOMAIN q /\ q[i] = p[i]
             /\ i \in DOMAIN q => \/ i \in DOMAIN p /\ q[i] = p[i]
                                  \/ \E k \in DOMAIN ms : i = Len(p) + k /\ q[i] = ms[k]
             /\ \A k \in DOMAIN ms : Len(p) + k \in DOMAIN q /\ q[Len(p) + k] = ms[k]
  <2> DEFINE p == Pending(l)
             q == Pending(l)'
  <2>1. p \in Seq(Messages) /\ q = p \o ms
    BY <1>1 DEF Ranges
  <2> HIDE DEF p, q
  <2>2. q \in Seq(Messages) /\ Len(q) = Len(p) + Len(ms) /\ Len(p) \in Nat /\ Len(ms) \in Nat
        /\ DOMAIN p = 1 .. Len(p) /\ DOMAIN ms = 1 .. Len(ms) /\ DOMAIN q = 1 .. Len(p) + Len(ms)
    BY <2>1
  <2>3. \A j \in DOMAIN q : q[j] = IF j <= Len(p) THEN p[j] ELSE ms[j - Len(p)]
    BY <2>1, <2>2
  <2>4. i \in DOMAIN p => i \in DOMAIN q /\ q[i] = p[i]
    BY <2>2, <2>3
  <2>5. ASSUME i \in DOMAIN q, i \notin DOMAIN p
        PROVE  \E k \in DOMAIN ms : i = Len(p) + k /\ q[i] = ms[k]
    <3>1. i - Len(p) \in DOMAIN ms /\ i = Len(p) + (i - Len(p)) /\ ~(i <= Len(p))
      BY <2>2, <2>5
    <3>2. q[i] = ms[i - Len(p)]
      BY <2>3, <2>5, <3>1
    <3> QED BY <3>1, <3>2
  <2>6. ASSUME NEW k \in DOMAIN ms PROVE Len(p) + k \in DOMAIN q /\ q[Len(p) + k] = ms[k]
    <3>1. Len(p) + k \in DOMAIN q /\ ~(Len(p) + k <= Len(p)) /\ (Len(p) + k) - Len(p) = k
      BY <2>2
    <3> QED BY <2>3, <3>1
  <2> QED BY <2>4, <2>5, <2>6 DEF p, q
<1>2. ASSUME NEW l \in Links, ~up[l] PROVE Pending(l)' = Pending(l)
  BY <1>2
<1> QED BY <1>1, <1>2 DEF AtAdded, At

\* A queue that lost its head.
LEMMA PipeTaken ==
    ASSUME Ranges, NEW l \in Links, l = link, NEW type, NEW s,
           Pending(l) # <<>>, Head(Pending(l)) = [type |-> type, session |-> s],
           Pending(l)' = Tail(Pending(l)),
           \A m \in Links : m # l => Pending(m)' = Pending(m)
    PROVE  AtTaken(type, s)
<1> DEFINE p == Pending(l)
           q == Pending(l)'
<1>1. p \in Seq(Messages) /\ p # <<>> /\ q = Tail(p)
  BY DEF Ranges
<1>2. Head(p) = [type |-> type, session |-> s]
  OBVIOUS
<1> HIDE DEF p, q
<1>3. /\ q \in Seq(Messages) /\ Len(p) \in Nat /\ Len(q) + 1 = Len(p) /\ Len(q) \in Nat
      /\ DOMAIN p = 1 .. Len(p) /\ DOMAIN q = 1 .. Len(q)
      /\ Head(p) = p[1] /\ 1 \in DOMAIN p
      /\ \A i \in DOMAIN q : q[i] = p[i + 1]
  BY <1>1
<1>4. \A i \in Nat : i \in DOMAIN q <=> 1 <= i /\ i + 1 \in DOMAIN p
  BY <1>3
<1>5. At(link, 1, type, s)
  BY <1>2, <1>3 DEF At, p
<1>6. ASSUME NEW i \in Nat, NEW t, NEW r
      PROVE  At(l, i, t, r)' <=> 1 <= i /\ At(l, i + 1, t, r)
  <2> DEFINE x == [type |-> t, session |-> r]
  <2>1. At(l, i, t, r)' <=> i \in DOMAIN q /\ q[i] = x
    BY DEF At, q
  <2>2. At(l, i + 1, t, r) <=> i + 1 \in DOMAIN p /\ p[i + 1] = x
    BY DEF At, p
  <2> HIDE DEF x
  <2> QED BY <1>3, <1>4, <2>1, <2>2
<1>7. \A m \in Links : m # l => \A i, t, r : At(m, i, t, r)' <=> At(m, i, t, r)
  BY DEF At
<1> QED BY <1>5, <1>6, <1>7 DEF AtTaken

\* A queue that lost its end.
LEMMA PipeCut ==
    ASSUME Ranges,
           \A l \in Links : /\ ~up'[l]
                            /\ \E rest \in Seq(Messages), p \in Seq(Messages) :
                                   p = Pending(l)' /\ Pending(l) = p \o rest
    PROVE  AtCut
<1>1. ASSUME NEW l \in Links, NEW i \in Nat, i \in DOMAIN Pending(l)'
      PROVE  /\ i \in DOMAIN Pending(l) /\ Pending(l)[i] = Pending(l)'[i]
             /\ \A j \in Nat : j < i /\ j \in DOMAIN Pending(l) =>
                    j \in DOMAIN Pending(l)' /\ Pending(l)'[j] = Pending(l)[j]
  <2>1. PICK rest \in Seq(Messages), p \in Seq(Messages) : p = Pending(l)' /\ Pending(l) = p \o rest
    OBVIOUS
  <2> DEFINE q == Pending(l)
  <2>2. q = p \o rest
    BY <2>1
  <2> HIDE DEF q
  <2>3. /\ q \in Seq(Messages) /\ Len(q) = Len(p) + Len(rest) /\ Len(p) \in Nat /\ Len(rest) \in Nat
        /\ DOMAIN p = 1 .. Len(p) /\ DOMAIN q = 1 .. Len(p) + Len(rest)
    BY <2>2
  <2>4. \A j \in DOMAIN p : j \in DOMAIN q /\ q[j] = p[j]
    BY <2>2, <2>3
  <2>5. \A j \in Nat : j < i /\ j \in DOMAIN q => j \in DOMAIN p
    BY <1>1, <2>1, <2>3
  <2> QED BY <1>1, <2>1, <2>4, <2>5 DEF q
<1> QED BY <1>1 DEF AtCut, At

\* The same of events: none new, none taken.
LEMMA EventsKept == ASSUME outbox' = outbox PROVE EvKept
BY DEF EvKept, Ev

\* emit(): the event goes out on the last connection, if it is still alive.
LEMMA EventSent ==
    ASSUME Ranges, NEW type \in BridgeEvents, NEW s \in Sessions, link \in Links, App!Emit(type, s)
    PROVE  EvSent(type, s)
<1>0. PICK l \in Links : l = link
  OBVIOUS
<1> DEFINE e == [type |-> type, session |-> s]
           p == outbox[l]
<1>1. p \in Seq(App!AppEvents) /\ e \in App!AppEvents
  BY DEF Ranges, App!AppEvents, BridgeEvents
<1>2. CASE up[l]
  <2>1. outbox' = [outbox EXCEPT ![l] = Append(p, e)]
    BY <1>0, <1>2 DEF App!Emit
  <2>2. outbox'[l] = Append(p, e) /\ \A m \in Links : m # l => outbox'[m] = outbox[m]
    BY <2>1 DEF Ranges
  <2> DEFINE q == Append(p, e)
  <2> HIDE DEF p, e
  <2>3. /\ Len(p) \in Nat /\ DOMAIN p = 1 .. Len(p) /\ DOMAIN q = 1 .. Len(p) + 1
        /\ q[Len(p) + 1] = e /\ \A i \in DOMAIN p : q[i] = p[i]
    BY <1>1
  <2> HIDE DEF q
  <2>4. \A i \in Nat :
          /\ i \in DOMAIN p => i \in DOMAIN q /\ q[i] = p[i]
          /\ i \in DOMAIN q =>
                (i \in DOMAIN p /\ q[i] = p[i]) \/ (i = Len(p) + 1 /\ q[i] = e)
    BY <2>3
  <2>5. Len(p) + 1 \in DOMAIN q /\ q[Len(p) + 1] = e
    BY <2>3
  <2>6. ASSUME NEW i \in Nat, NEW t, NEW r
        PROVE  /\ Ev(l, i, t, r) => Ev(l, i, t, r)'
               /\ Ev(l, i, t, r)' =>
                     Ev(l, i, t, r) \/ (t = type /\ r = s /\ i = Len(p) + 1)
    <3> DEFINE x == [type |-> t, session |-> r]
    <3>1. Ev(l, i, t, r)' <=> i \in DOMAIN q /\ q[i] = x
      BY <2>2 DEF Ev, q
    <3>2. Ev(l, i, t, r) <=> i \in DOMAIN p /\ p[i] = x
      BY DEF Ev, p
    <3>3. x = e => t = type /\ r = s
      BY Fields DEF e
    <3> HIDE DEF x
    <3> QED BY <2>4, <3>1, <3>2, <3>3
  <2>7. \A i \in Nat : i = Len(p) + 1 => Ev(l, i, type, s)'
    BY <2>2, <2>5 DEF Ev, e, q
  <2>8. \A m \in Links : m # l => \A i, t, r : Ev(m, i, t, r)' <=> Ev(m, i, t, r)
    BY <2>2 DEF Ev
  <2> QED BY <1>0, <2>6, <2>7, <2>8 DEF EvSent, p
<1>3. CASE ~up[l]
  <2>1. outbox' = outbox
    BY <1>0, <1>3 DEF App!Emit
  <2> QED BY <1>0, <1>3, <2>1, EventsKept DEF EvSent, EvKept
<1> QED BY <1>2, <1>3

\* handle_bridge_event gets the first event of a link.
LEMMA EventTaken ==
    ASSUME Ranges, NEW l \in Links, App!Take(l)
    PROVE  LET e == Head(outbox[l]) IN
           e \in App!AppEvents /\ EvTaken(l, e.type, e.session)
<1> DEFINE p == outbox[l]
           e == Head(p)
           q == Tail(p)
<1>1. p \in Seq(App!AppEvents) /\ p # <<>> /\ outbox' = [outbox EXCEPT ![l] = q]
  BY DEF Ranges, App!Take
<1>2. outbox'[l] = q /\ \A m \in Links : m # l => outbox'[m] = outbox[m]
  BY <1>1 DEF Ranges
<1> HIDE DEF p
<1>3. /\ q \in Seq(App!AppEvents) /\ Len(p) \in Nat /\ Len(q) + 1 = Len(p) /\ Len(q) \in Nat
      /\ DOMAIN p = 1 .. Len(p) /\ DOMAIN q = 1 .. Len(q)
      /\ e = p[1] /\ 1 \in DOMAIN p /\ e \in App!AppEvents
      /\ \A i \in DOMAIN q : q[i] = p[i + 1]
  BY <1>1
<1> HIDE DEF q, e
<1>4. \A i \in Nat : i \in DOMAIN q <=> 1 <= i /\ i + 1 \in DOMAIN p
  BY <1>3
<1>5. e = [type |-> e.type, session |-> e.session]
  BY <1>3 DEF App!AppEvents
<1>6. Ev(l, 1, e.type, e.session)
  BY <1>3, <1>5 DEF Ev, p
<1>7. ASSUME NEW i \in Nat, NEW t, NEW r
      PROVE  Ev(l, i, t, r)' <=> 1 <= i /\ Ev(l, i + 1, t, r)
  <2> DEFINE x == [type |-> t, session |-> r]
  <2>1. Ev(l, i, t, r)' <=> i \in DOMAIN q /\ q[i] = x
    BY <1>2 DEF Ev, q
  <2>2. Ev(l, i + 1, t, r) <=> i + 1 \in DOMAIN p /\ p[i + 1] = x
    BY DEF Ev, p
  <2> HIDE DEF x
  <2> QED BY <1>3, <1>4, <2>1, <2>2
<1>8. \A m \in Links : m # l => \A i, t, r : Ev(m, i, t, r)' <=> Ev(m, i, t, r)
  BY <1>2 DEF Ev
<1>9. EvTaken(l, e.type, e.session)
  BY <1>6, <1>7, <1>8 DEF EvTaken
<1> QED BY <1>3, <1>9 DEF e, p

\* A message moves from the front of one sequence to the end of another.
LEMMA MovedAlong ==
    ASSUME NEW S, NEW a \in Seq(S), NEW b \in Seq(S), b # <<>>
    PROVE  Append(a, Head(b)) \o Tail(b) = a \o b
<1>1. /\ Head(b) \in S /\ Tail(b) \in Seq(S) /\ Append(a, Head(b)) \in Seq(S)
      /\ b = <<Head(b)>> \o Tail(b) /\ Append(a, Head(b)) = a \o <<Head(b)>>
      /\ <<Head(b)>> \in Seq(S)
  <2>1. Head(b) \in S /\ Tail(b) \in Seq(S) /\ Len(b) \in Nat /\ Len(Tail(b)) + 1 = Len(b)
        /\ Head(b) = b[1] /\ \A i \in 1 .. Len(Tail(b)) : Tail(b)[i] = b[i + 1]
    OBVIOUS
  <2> DEFINE h == Head(b)
             r == Tail(b)
             u == <<h>> \o r
  <2>2. h \in S /\ r \in Seq(S) /\ <<h>> \in Seq(S)
    BY <2>1
  <2> HIDE DEF h, r
  <2>3. Append(a, h) \in Seq(S) /\ Append(a, h) = a \o <<h>>
    BY <2>2
  <2>4. u \in Seq(S) /\ Len(u) = Len(r) + 1 /\ u[1] = h
        /\ \A i \in 2 .. Len(u) : u[i] = r[i - 1]
    BY <2>2
  <2> HIDE DEF u
  <2>5. b = u
    <3>1. Len(b) = Len(u)
      BY <2>1, <2>4 DEF r
    <3>2. ASSUME NEW i \in 1 .. Len(b) PROVE b[i] = u[i]
      <4>1. CASE i = 1
        BY <2>1, <2>4, <4>1 DEF h
      <4>2. CASE i # 1
        <5>1. i \in 2 .. Len(u) /\ i - 1 \in 1 .. Len(Tail(b)) /\ (i - 1) + 1 = i
          BY <2>1, <3>1, <4>2
        <5>2. u[i] = r[i - 1] /\ Tail(b)[i - 1] = b[(i - 1) + 1]
          BY <2>1, <2>4, <5>1
        <5> QED BY <5>1, <5>2 DEF r
      <4> QED BY <4>1, <4>2
    <3> QED BY <2>4, <3>1, <3>2, SeqEqual
  <2> QED BY <2>2, <2>3, <2>5 DEF h, r, u
<1> DEFINE h == Head(b)
           r == Tail(b)
<1> HIDE DEF h, r
<1>2. (a \o <<h>>) \o r = a \o (<<h>> \o r)
  BY <1>1, ConcatAssociative DEF h, r
<1> QED BY <1>1, <1>2 DEF h, r

\* The first message of two sequences is that of the first one.
LEMMA FirstOfTwo ==
    ASSUME NEW S, NEW a \in Seq(S), NEW b \in Seq(S), a # <<>>
    PROVE  a \o b # <<>> /\ Head(a \o b) = Head(a) /\ Tail(a \o b) = Tail(a) \o b
<1> DEFINE c == a \o b
           t == Tail(a)
           u == Tail(c)
           v == t \o b
<1>1. /\ c \in Seq(S) /\ Len(c) = Len(a) + Len(b) /\ Len(a) \in Nat /\ Len(b) \in Nat
      /\ 1 <= Len(a)
      /\ \A i \in 1 .. Len(c) : c[i] = IF i <= Len(a) THEN a[i] ELSE b[i - Len(a)]
  OBVIOUS
<1>2. t \in Seq(S) /\ Len(t) \in Nat /\ Len(t) + 1 = Len(a)
      /\ \A i \in 1 .. Len(t) : t[i] = a[i + 1]
  OBVIOUS
<1> HIDE DEF c, t
<1>3. c # <<>> /\ Head(c) = c[1] /\ Head(a) = a[1] /\ c[1] = a[1]
  BY <1>1
<1>4. u \in Seq(S) /\ Len(u) + 1 = Len(c) /\ \A i \in 1 .. Len(u) : u[i] = c[i + 1]
  BY <1>1, <1>3
<1>5. v \in Seq(S) /\ Len(v) = Len(t) + Len(b)
      /\ \A i \in 1 .. Len(v) : v[i] = IF i <= Len(t) THEN t[i] ELSE b[i - Len(t)]
  BY <1>2
<1> HIDE DEF u, v
<1>6. Len(u) = Len(v) /\ Len(u) \in Nat
  BY <1>1, <1>2, <1>4, <1>5
<1>7. ASSUME NEW i \in 1 .. Len(u) PROVE u[i] = v[i]
  <2>1. u[i] = c[i + 1] /\ i + 1 \in 1 .. Len(c)
    BY <1>1, <1>4, <1>6
  <2>2. CASE i <= Len(t)
    <3>1. i + 1 <= Len(a) /\ i \in 1 .. Len(t)
      BY <1>1, <1>2, <2>2
    <3> QED BY <1>1, <1>2, <1>5, <1>6, <2>1, <2>2, <3>1
  <2>3. CASE ~(i <= Len(t))
    <3>1. ~(i + 1 <= Len(a)) /\ (i + 1) - Len(a) = i - Len(t)
      <4>1. i \in Nat
        BY <1>6
      <4>2. Len(a) \in Nat /\ Len(t) \in Nat /\ Len(t) + 1 = Len(a)
        BY <1>1, <1>2
      <4> QED BY <2>3, <4>1, <4>2
    <3>2. c[i + 1] = b[(i + 1) - Len(a)]
      BY <1>1, <2>1, <3>1
    <3>3. v[i] = b[i - Len(t)]
      BY <1>5, <1>6, <2>3
    <3> QED BY <2>1, <3>1, <3>2, <3>3
  <2> QED BY <2>2, <2>3
<1>8. u = v
  BY <1>4, <1>5, <1>6, <1>7, SeqEqual
<1> QED BY <1>3, <1>8 DEF c, t, u, v

-----------------------------------------------------------------------------
(* The two ends of the connection.                                         *)

\* A connection that is alive is the registered one.
LEMMA UpIsRegistered ==
    ASSUME Parts, LinksAgree, NEW l \in Links, up[l]
    PROVE  l = link /\ bridge = l /\ phase = "receiving" /\ linkTask[l] = "serving"
<1>1. l = link /\ phase = "receiving" /\ linkTask[l] = "serving"
  BY DEF LinksAgree
<1>2. \A m \in Links : m > l => linkTask[m] = "unused"
  BY <1>1 DEF LinksAgree
<1> QED BY <1>1, <1>2 DEF Parts, IndInv, LatestBridgeRegistered

\* What is told to the bridge is added to what it has yet to take.
LEMMA ToldIsAdded ==
    ASSUME Parts, LinksAgree, NEW ms \in Seq(Messages), TellBridge(ms), UNCHANGED <<inbox, up>>
    PROVE  AtAdded(ms)
<1>1. Ranges
  BY InRange
<1>2. ASSUME NEW l \in Links, up[l] PROVE Pending(l)' = Pending(l) \o ms
  <2>1. toBridge'[l] = toBridge[l] \o ms
    BY <1>2, UpIsRegistered DEF TellBridge
  <2> DEFINE a == inbox[l]
             b == toBridge[l]
  <2>2. a \in Seq(Messages) /\ b \in Seq(Messages)
    BY <1>1 DEF Ranges
  <2> HIDE DEF a, b
  <2>3. (a \o b) \o ms = a \o (b \o ms)
    BY <2>2, ConcatAssociative, SMTT(20)
  <2> QED BY <1>2, <2>1, <2>3 DEF Pending, a, b
<1>3. ASSUME NEW l \in Links, ~up[l] PROVE Pending(l)' = Pending(l)
  BY <1>3 DEF Pending
<1> QED BY <1>1, <1>2, <1>3, PipeTold

\* Sending moves a message along, or loses one that nobody will take.
LEMMA SendingKeeps ==
    ASSUME Parts, LinksAgree, NEW l \in Links, Send(l)
    PROVE  AtKept /\ AtAdded(<<>>)
<1>1. Ranges
  BY InRange
<1>2. /\ toBridge[l] # <<>> /\ toBridge' = [toBridge EXCEPT ![l] = Tail(toBridge[l])] /\ up' = up
      /\ inbox' = IF up[l] THEN [inbox EXCEPT ![l] = Append(inbox[l], Head(toBridge[l]))] ELSE inbox
  BY DEF Send, BridgeSocketSend, App!Deliver
<1>3. ASSUME NEW m \in Links PROVE Pending(m)' = Pending(m)
  <2>1. CASE m # l
    <3>1. toBridge'[m] = toBridge[m] /\ inbox'[m] = inbox[m]
      BY <1>1, <1>2, <2>1 DEF Ranges
    <3> QED BY <1>2, <3>1 DEF Pending
  <2>2. CASE m = l /\ ~up[l]
    BY <1>2, <2>2 DEF Pending
  <2>3. CASE m = l /\ up[l]
    <3> DEFINE a == inbox[l]
               b == toBridge[l]
    <3>1. toBridge'[l] = Tail(b) /\ inbox'[l] = Append(a, Head(b))
      BY <1>1, <1>2, <2>3 DEF Ranges
    <3>2. a \in Seq(Messages) /\ b \in Seq(Messages) /\ b # <<>>
      BY <1>1, <1>2 DEF Ranges
    <3> HIDE DEF a, b
    <3>3. Append(a, Head(b)) \o Tail(b) = a \o b
      BY <3>2, MovedAlong
    <3> QED BY <1>2, <2>3, <3>1, <3>3 DEF Pending, a, b
  <2> QED BY <2>1, <2>2, <2>3
<1> QED BY <1>3, PipeKept

\* The bridge takes the first message, whether or not the connection still lives.
LEMMA ReceivingTakes ==
    ASSUME Parts, LinksAgree, NEW type, NEW s, App!Receiving(type, s), UNCHANGED <<up, toBridge>>
    PROVE  AtTaken(type, s)
<1>1. Ranges
  BY InRange
<1>2. link \in Links
  <2>1. phase = "receiving"
    BY DEF App!Receiving
  <2> QED BY <1>1, <2>1 DEF Ranges, LinksAgree, Links
<1>3. PICK l \in Links : l = link
  BY <1>2
<1> DEFINE a == inbox[l]
           b == toBridge[l]
<1>4. /\ a # <<>> /\ Head(a) = [type |-> type, session |-> s]
      /\ inbox' = [inbox EXCEPT ![l] = Tail(a)]
      /\ a \in Seq(Messages) /\ b \in Seq(Messages)
  BY <1>1, <1>3 DEF App!Receiving, Ranges
<1>5. inbox'[l] = Tail(a) /\ \A m \in Links : m # l => inbox'[m] = inbox[m]
  BY <1>1, <1>4 DEF Ranges
<1> HIDE DEF a, b
<1>6. a \o b # <<>> /\ Head(a \o b) = Head(a) /\ Tail(a \o b) = Tail(a) \o b
  BY <1>4, FirstOfTwo
<1>7. /\ Pending(l) # <<>> /\ Head(Pending(l)) = [type |-> type, session |-> s]
      /\ Pending(l)' = Tail(Pending(l))
  BY <1>4, <1>5, <1>6 DEF Pending, a, b
<1>8. \A m \in Links : m # l => Pending(m)' = Pending(m)
  BY <1>5 DEF Pending
<1> QED BY <1>1, <1>3, <1>7, <1>8, PipeTaken

\* When the last connection is gone nothing carries what waits in a channel.
LEMMA LossCuts ==
    ASSUME Parts, LinksAgree, \A l \in Links : ~up'[l],
           \A l \in Links : inbox'[l] \in {inbox[l], <<>>}
    PROVE  AtCut
<1>1. Ranges
  BY InRange
<1>2. ASSUME NEW l \in Links
      PROVE  \E rest \in Seq(Messages), p \in Seq(Messages) :
                 p = Pending(l)' /\ Pending(l) = p \o rest
  <2> DEFINE a == inbox[l]
             b == toBridge[l]
             c == Pending(l)
  <2>1. a \in Seq(Messages) /\ b \in Seq(Messages) /\ c \in Seq(Messages) /\ <<>> \in Seq(Messages)
    BY <1>1 DEF Ranges
  <2>2. Pending(l)' \in {a, <<>>}
    BY DEF Pending
  <2>3. c = a \o b \/ c = a
    BY DEF Pending
  <2> HIDE DEF a, b, c
  <2>4. c = <<>> \o c /\ a = a \o <<>>
    BY <2>1
  <2>5. CASE Pending(l)' = a
    BY <2>1, <2>3, <2>4, <2>5 DEF c
  <2>6. CASE Pending(l)' = <<>>
    BY <2>1, <2>4, <2>6 DEF c
  <2> QED BY <2>2, <2>5, <2>6
<1> QED BY <1>1, <1>2, PipeCut

-----------------------------------------------------------------------------
(* What a step does.                                                       *)

\* Some connection still carries messages.
Alive == \E l \in Links : up[l]

\* The bridge does nothing.
BridgeStill == UNCHANGED <<link, up, held, failed, job>>

\* The registry lets go of sessions and tells the bridge so, or asks it
\* something about those it knows; the wire moves.
Releases(ms) ==
    /\ BridgeStill /\ EvKept /\ AtAdded(ms) /\ startedOn' = startedOn
    /\ \A k \in DOMAIN ms : \A s \in Sessions :
          ms[k].session = s => ms[k].type # "session.start" /\ state[s] # "unallocated"
    /\ \A s \in Sessions : state'[s] # state[s] =>
          state[s] # "unallocated" /\ state'[s] \in {"closed", "forgotten"}
    /\ \A s \in Active \ Active' : Alive => \E k \in DOMAIN ms : ms[k] = StopFor(s)

\* What create_session tells the bridge.
StartFor(s) == [type |-> "session.start", session |-> s]

\* The registry creates a session, for which it has room.
Creates(s) ==
    /\ BridgeStill /\ EvKept /\ AtAdded(<<StartFor(s)>>)
    /\ state[s] = "unallocated" /\ state' = [state EXCEPT ![s] = "starting"]
    /\ startedOn' = [startedOn EXCEPT ![s] = link] /\ link \in Links
    /\ Cardinality(Active) < SessionCapacity

\* A new connection finds a bridge that has nothing to do.
Connects(l) ==
    /\ link' = l /\ l = link + 1 /\ \A m \in Links : up'[m] => m = l
    /\ held = {} /\ job = App!Idle
    /\ UNCHANGED <<held, failed, job, state, startedOn>>
    /\ EvKept /\ \A i \in Nat, type \in BridgeEvents, s \in Sessions : ~Ev(l, i, type, s)
    /\ AtKept /\ \A m \in Links, i \in Nat, type \in MessageTypes, s \in Sessions :
                    ~At(m, i, type, s)

\* The state that handle_bridge_event gives the session of an event.
Shown(type) ==
    CASE type = "session.ready"  -> "ready"
      [] type = "asr.error"      -> "error"
      [] type = "session.closed" -> "closed"

\* The registry takes an event, and shows it if it remembers the session.
Receives(l, type, s) ==
    /\ BridgeStill /\ AtKept /\ EvTaken(l, type, s) /\ startedOn' = startedOn
    /\ \/ s \notin Known /\ state' = state
       \/ s \in Known /\ state' = [state EXCEPT ![s] = Shown(type)]

\* The connection is gone.
Cuts ==
    /\ AtCut /\ EvKept /\ UNCHANGED <<link, state, startedOn>>
    /\ held' \subseteq held /\ job' \in {job, App!Idle}

\* The bridge takes a start, and begins with the session or turns it away.
TakesStart(s) ==
    /\ AtTaken("session.start", s) /\ UNCHANGED <<link, up, state, startedOn>>
    /\ job = App!Idle
    /\ \/ held' = held \cup {s} /\ job' = App!Busy("starting", s) /\ EvKept
       \/ held' = held /\ job' = App!Idle /\ EvSent("asr.error", s)

\* The bridge takes a stop, which ends the session if it holds it.
TakesStop(s) ==
    /\ AtTaken("session.stop", s) /\ UNCHANGED <<link, up, state, startedOn>> /\ EvKept
    /\ job = App!Idle /\ held' = held \ {s}
    /\ job' = IF s \in held THEN App!Busy("stopping", s) ELSE App!Idle

\* The bridge takes a command, for a session that it may not hold.
TakesCommand(s) ==
    /\ AtTaken("command", s) /\ UNCHANGED <<link, up, state, startedOn, held>> /\ EvKept
    /\ job = App!Idle
    /\ job' = App!Idle \/ (s \in held /\ job' = App!Busy("commanding", s))

\* The bridge goes on with a session and reports it.
Reports(type, s) ==
    /\ AtKept /\ EvSent(type, s) /\ UNCHANGED <<link, up, state, startedOn>>
    /\ Handled(s)
    /\ \/ /\ type = "session.ready" /\ job = App!Busy("starting", s) /\ s \in held
          /\ held' = held /\ job' = App!Idle
       \/ /\ type = "asr.error" /\ job = App!Busy("starting", s)
          /\ held' = held \ {s} /\ job' = App!Busy("aborting", s)
       \/ type = "asr.error" /\ held' = held /\ job' = job
       \/ /\ type = "session.closed" /\ job = App!Busy("stopping", s) /\ s \notin held
          /\ held' = held /\ job' = App!Idle

\* The partial result that a stop() left under way fails, on a later connection.
Strays(s) ==
    /\ AtKept /\ EvSent("asr.error", s) /\ UNCHANGED <<link, up, state, startedOn, held, job>>
    /\ s \in stray /\ \E l \in Links : l = link /\ up[l]

\* The bridge goes on without a report.
GoesOn ==
    /\ AtKept /\ EvKept /\ UNCHANGED <<link, up, state, startedOn>>
    /\ held' \subseteq held /\ \A s \in Sessions : Handled(s)' => Handled(s)
    /\ Alive => held' = held /\ (job' = job \/ (job' = App!Idle /\ job.step # "stopping"))
    /\ job'.step = "starting" => job' = job

\* One of these.
Move ==
    \/ \E ms \in Seq(Messages) : Releases(ms)
    \/ \E s \in Sessions : \/ Creates(s)
                           \/ TakesStart(s) \/ TakesStop(s) \/ TakesCommand(s)
                           \/ \E type \in BridgeEvents : Reports(type, s)
                           \/ Strays(s)
    \/ \E l \in Links : \/ Connects(l)
                        \/ \E type \in BridgeEvents, s \in Sessions : Receives(l, type, s)
    \/ Cuts
    \/ GoesOn

\* Only what changes a session or a channel is of interest in the registry.
LEMMA IdleReleases ==
    ASSUME BridgeStill, EvKept, AtAdded(<<>>), UNCHANGED <<state, startedOn>>
    PROVE  \E ms \in Seq(Messages) : Releases(ms)
<1>1. <<>> \in Seq(Messages) /\ DOMAIN <<>> = {}
  OBVIOUS
<1>2. Active' = Active
  BY DEF Active
<1>3. Releases(<<>>)
  BY <1>1, <1>2 DEF Releases
<1> QED BY <1>1, <1>3

\* The stops of the reaper are those of the sessions it found expired.
LEMMA StopsOf ==
    ASSUME NEW S \in SUBSET Sessions, NEW stops \in StopOrders(S)
    PROVE  /\ stops \in Seq(Messages)
           /\ \A k \in DOMAIN stops : \E s \in S : stops[k] = StopFor(s)
           /\ \A s \in S : \E k \in DOMAIN stops : stops[k] = StopFor(s)
<1> DEFINE T == {StopFor(s) : s \in S}
           f == [s \in S |-> StopFor(s)]
           D == 1 .. Cardinality(T)
<1>1. IsFiniteSet(S)
  BY FS_Subset, SessionsAssumption
<1>2. f \in Surjection(S, T)
  BY DEF Surjection
<1>3. IsFiniteSet(T) /\ Cardinality(T) \in Nat
  BY <1>1, <1>2, FS_Surjection, FS_CardinalityType
<1>4. stops \in [D -> T] /\ \A i, j \in D : i # j => stops[i] # stops[j]
  BY DEF StopOrders, SetToSeqs
<1> HIDE DEF T
<1>5. stops \in Injection(D, T)
  BY <1>4 DEF Injection, IsInjective
<1>6. Cardinality(D) = Cardinality(T)
  BY <1>3, FS_Interval
<1>7. stops \in Surjection(D, T)
  BY <1>3, <1>5, <1>6, FS_Injection
<1>8. \A t \in T : \E k \in DOMAIN stops : stops[k] = t
  BY <1>4, <1>7 DEF Surjection
<1>9. stops \in Seq(Messages)
  BY StopOrdersType
<1>10. ASSUME NEW k \in DOMAIN stops PROVE \E s \in S : stops[k] = StopFor(s)
  <2>1. stops[k] \in T
    BY <1>4
  <2> QED BY <2>1 DEF T
<1>11. ASSUME NEW s \in S PROVE \E k \in DOMAIN stops : stops[k] = StopFor(s)
  <2>1. StopFor(s) \in T
    BY DEF T
  <2> QED BY <1>8, <2>1
<1> QED BY <1>9, <1>10, <1>11

\* The registry and its clients.
LEMMA ServerMoves == ASSUME Parts, LinksAgree, Server PROVE Move
<1>0. /\ Ranges
      /\ BridgeStill /\ outbox' = outbox /\ inbox' = inbox /\ up' = up
  BY InRange DEF Server, appVars, BridgeStill
<1>1. EvKept
  BY <1>0, EventsKept
<1>2. ASSUME toBridge' = toBridge PROVE AtAdded(<<>>)
  BY <1>0, <1>2, PipeKept DEF Pending
<1>3. ASSUME UNCHANGED <<state, startedOn, toBridge>> PROVE Move
  BY <1>0, <1>1, <1>2, <1>3, IdleReleases DEF Move
<1>4. ASSUME NEW ms \in Seq(Messages), TellBridge(ms) PROVE AtAdded(ms)
  BY <1>0, <1>4, ToldIsAdded
<1>5. ASSUME Tick PROVE Move
  BY <1>3, <1>5 DEF Tick, sessionVars, bridgeVars
<1>6. ASSUME SessionReaper PROVE Move
  <2>1. PICK stops \in StopOrders(Expired) : TellBridge(stops)
    BY <1>6 DEF SessionReaper
  <2>2. Expired \in SUBSET Sessions /\ Expired \subseteq Active
    BY DEF Expired, Active
  <2>3. /\ stops \in Seq(Messages)
        /\ \A k \in DOMAIN stops : \E s \in Expired : stops[k] = StopFor(s)
        /\ \A s \in Expired : \E k \in DOMAIN stops : stops[k] = StopFor(s)
    BY <2>2, StopsOf
  <2>4. /\ startedOn' = startedOn
        /\ state' = [s \in Sessions |-> IF s \in Forgettable THEN "forgotten"
                                        ELSE IF s \in Expired THEN "closed" ELSE state[s]]
    BY <1>6 DEF SessionReaper
  <2>5. Forgettable \subseteq Expired \cup (Known \ Active)
    BY DEF Forgettable
  <2>6. \A s \in Known : state[s] # "unallocated"
    BY DEF Known, Active, ActiveStates
  <2>7. \A s \in Sessions : state'[s] # state[s] =>
          state[s] # "unallocated" /\ state'[s] \in {"closed", "forgotten"}
    BY <2>2, <2>4, <2>5, <2>6 DEF Known
  <2>8. Active \ Active' \subseteq Expired
    BY <2>4, <2>5 DEF Active
  <2>9. \A k \in DOMAIN stops : \A s \in Sessions :
          stops[k].session = s => stops[k].type # "session.start" /\ state[s] # "unallocated"
    BY <2>2, <2>3, <2>6 DEF StopFor, Known
  <2>10. Releases(stops)
    BY <1>0, <1>1, <1>4, <2>1, <2>3, <2>4, <2>7, <2>8, <2>9 DEF Releases
  <2> QED BY <2>3, <2>10 DEF Move
<1>7. ASSUME NEW g \in Grants, IssueBrowserGrant(g) \/ RefuseStaleGrant(g) PROVE Move
  BY <1>3, <1>7 DEF IssueBrowserGrant, RefuseStaleGrant, sessionVars, bridgeVars
<1>8. ASSUME NEW s \in Sessions, NEW buyer \in Grants \cup {None}, CreateSession(s, buyer)
      PROVE  Move
  <2> DEFINE ms == <<StartFor(s)>>
  <2>1. StartFor(s) \in Messages /\ TellBridge(ms)
    BY <1>8 DEF StartFor, Messages, CreateSession
  <2>2. AtAdded(ms)
    <3>1. ms \in Seq(Messages)
      BY <2>1
    <3> HIDE DEF ms
    <3> QED BY <1>4, <2>1, <3>1
  <2>3. bridge = link /\ link \in Links /\ Cardinality(Active) < SessionCapacity
    BY <1>0, <1>8 DEF CreateSession, HasRoom, LinksAgree, Ranges
  <2> HIDE DEF ms
  <2>4. state[s] = "unallocated" /\ state' = [state EXCEPT ![s] = "starting"]
        /\ startedOn' = [startedOn EXCEPT ![s] = link]
    BY <1>8, <2>3 DEF CreateSession
  <2>5. Creates(s)
    BY <1>0, <1>1, <2>2, <2>3, <2>4 DEF Creates, ms
  <2> QED BY <2>5 DEF Move
\* One message about a session that is known, which may be closed with it.
<1>9. ASSUME NEW s \in Known, NEW m \in Messages, m.session = s, m.type # "session.start",
             TellBridge(<<m>>), startedOn' = startedOn,
             state' = state \/ (m = StopFor(s) /\ Close({s}))
      PROVE  Move
  <2> DEFINE ms == <<m>>
  <2>1. ms \in Seq(Messages) /\ DOMAIN ms = {1} /\ ms[1] = m
    OBVIOUS
  <2>2. AtAdded(ms)
    BY <1>4, <1>9, <2>1
  <2>3. s \in Sessions /\ state[s] # "unallocated"
    BY DEF Known, Active, ActiveStates
  <2>4. \A t \in Sessions : state'[t] # state[t] => t = s /\ state'[t] = "closed"
    BY <1>9 DEF Close
  <2>5. \A t \in Active \ Active' : m = StopFor(t)
    BY <1>9, <2>4 DEF Active
  <2> HIDE DEF ms
  <2>6. Releases(ms)
    BY <1>0, <1>1, <1>9, <2>1, <2>2, <2>3, <2>4, <2>5 DEF Releases
  <2> QED BY <2>1, <2>6 DEF Move
<1>10. ASSUME NEW s \in Sessions, DeleteSession(s) PROVE Move
  <2>1. StopFor(s) \in Messages /\ StopFor(s).session = s /\ StopFor(s).type # "session.start"
    BY DEF StopFor, Messages
  <2> QED BY <1>9, <1>10, <2>1 DEF DeleteSession
<1>11. ASSUME NEW s \in Sessions, ForwardCommand(s) PROVE Move
  <2> DEFINE m == [type |-> "command", session |-> s]
  <2>1. m \in Messages /\ m.session = s /\ m.type # "session.start"
    BY DEF Messages
  <2>2. s \in Known /\ TellBridge(<<m>>) /\ startedOn' = startedOn /\ state' = state
    BY <1>11 DEF ForwardCommand, sessionVars
  <2> HIDE DEF m
  <2> QED BY <1>9, <2>1, <2>2
<1>12. ASSUME NEW k \in Sockets,
              (\E s \in Sessions : ClientWs(k, s)) \/ ClientSocketOpen(k) \/ ClientSocketBreak(k)
       PROVE  Move
  BY <1>3, <1>12 DEF ClientWs, ClientSocketOpen, ClientSocketBreak, sessionVars, bridgeVars
<1>13. ASSUME NEW k \in Sockets, ClientSocketCleanup(k) PROVE Move
  <2> DEFINE s == sockSession[k]
  <2>1. CASE s \in Active
    <3>1. s \in Known /\ Close({s}) /\ TellBridge(<<StopFor(s)>>) /\ startedOn' = startedOn
      BY <1>13, <2>1 DEF ClientSocketCleanup, Known
    <3> HIDE DEF s
    <3>2. StopFor(s) \in Messages /\ StopFor(s).session = s /\ StopFor(s).type # "session.start"
      BY <3>1 DEF StopFor, Messages, Known, Active
    <3> QED BY <1>9, <3>1, <3>2
  <2>2. CASE s \notin Active
    BY <1>3, <1>13, <2>2 DEF ClientSocketCleanup
  <2> QED BY <2>1, <2>2
<1>14. ASSUME NEW l \in Links, BridgeSocketCleanup(l) PROVE Move
  <2>1. ~up[l]
    BY <1>14, UpIsRegistered DEF BridgeSocketCleanup
  <2>2. AtAdded(<<>>)
    <3>1. \A m \in Links : m # l => toBridge'[m] = toBridge[m]
      BY <1>0, <1>14 DEF BridgeSocketCleanup, Ranges
    <3>2. \A m \in Links : Pending(m)' = Pending(m)
      BY <1>0, <2>1, <3>1 DEF Pending
    <3> QED BY <3>2, PipeKept
  <2>3. CASE bridge = l
    <3>1. ~Alive
      BY <2>1, <2>3, UpIsRegistered DEF Alive
    <3>2. startedOn' = startedOn /\ Close(Active)
      BY <1>14, <2>3 DEF BridgeSocketCleanup, DisconnectedCurrent
    <3>3. <<>> \in Seq(Messages) /\ DOMAIN <<>> = {}
      OBVIOUS
    <3>4. \A s \in Sessions : state'[s] # state[s] =>
            state[s] # "unallocated" /\ state'[s] \in {"closed", "forgotten"}
      BY <3>2 DEF Close, Active, ActiveStates
    <3>5. Releases(<<>>)
      BY <1>0, <1>1, <2>2, <3>1, <3>2, <3>3, <3>4 DEF Releases
    <3> QED BY <3>3, <3>5 DEF Move
  <2>4. CASE bridge # l
    <3>1. UNCHANGED <<state, startedOn>>
      BY <1>14, <2>4 DEF BridgeSocketCleanup, DisconnectedCurrent
    <3> QED BY <1>0, <1>1, <2>2, <3>1, IdleReleases DEF Move
  <2> QED BY <2>3, <2>4
<1> QED
  BY <1>5, <1>6, <1>7, <1>8, <1>10, <1>11, <1>12, <1>13, <1>14 DEF Server, Request, ClientSocket


\* A bridge that receives does so on the link it made last.
LEMMA OnLink == ASSUME Ranges, LinksAgree, phase = "receiving" PROVE link \in Links
BY DEF Ranges, LinksAgree, Links

\* The last connection that was alive is lost.
LEMMA LossMoves ==
    ASSUME Parts, LinksAgree, NEW l \in Links, up[l], up' = [up EXCEPT ![l] = FALSE],
           UNCHANGED <<inbox, outbox, link, held, job, state, startedOn>>
    PROVE  Cuts
<1>1. Ranges
  BY InRange
<1>2. \A m \in Links : ~up'[m]
  BY <1>1, UpIsRegistered DEF Ranges
<1>3. AtCut
  BY <1>2, LossCuts
<1>4. EvKept
  BY EventsKept
<1> QED BY <1>3, <1>4 DEF Cuts

\* Nothing moves between the two ends, which may still do something by themselves.
LEMMA QuietWire ==
    ASSUME UNCHANGED <<inbox, toBridge, up>>
    PROVE  AtKept /\ AtAdded(<<>>)
BY PipeKept DEF Pending

\* The wire between the two.
LEMMA WireMoves == ASSUME Parts, LinksAgree, Wire PROVE Move
<1>0. Ranges
  BY InRange
<1>1. ASSUME NEW l \in Links, Connected(l) PROVE Move
  <2>1. /\ phase = "connecting" /\ l = link + 1 /\ link' = l
        /\ up' = [up EXCEPT ![l] = TRUE]
        /\ UNCHANGED <<held, failed, job, inbox, outbox, state, startedOn, toBridge>>
    BY <1>1 DEF Connected, BridgeSocketOpen, App!Connect, sessionVars
  <2>2. \A m \in Links : ~up[m] /\ inbox[m] = <<>>
    BY <2>1 DEF LinksAgree
  <2>3. l > link
    BY <1>0, <2>1 DEF Ranges
  <2>4. toBridge[l] = <<>> /\ outbox[l] = <<>>
    BY <2>3 DEF LinksAgree
  <2>5. held = {} /\ job = App!Idle
    BY <2>1 DEF Parts, Facts!SweepInPlace, Facts!Idle, App!Idle
  <2>6. \A m \in Links : up'[m] => m = l
    BY <1>0, <2>1, <2>2 DEF Ranges
  <2>7. \A m \in Links : Pending(m) = <<>> /\ Pending(m)' = <<>>
    <3>1. \A m \in Links : Pending(m) = <<>>
      BY <2>2 DEF Pending
    <3>2. ASSUME NEW m \in Links PROVE Pending(m)' = <<>>
      <4>1. <<>> \o <<>> = <<>>
        OBVIOUS
      <4> QED BY <2>1, <2>2, <2>4, <2>6, <4>1 DEF Pending
    <3> QED BY <3>1, <3>2
  <2>8. AtKept
    BY <2>7, PipeKept
  <2>9. \A m \in Links, i \in Nat, type \in MessageTypes, s \in Sessions : ~At(m, i, type, s)
    BY <2>7 DEF At
  <2>10. EvKept
    BY <2>1, EventsKept
  <2>11. \A i \in Nat, type \in BridgeEvents, s \in Sessions : ~Ev(l, i, type, s)
    BY <2>4 DEF Ev
  <2>12. Connects(l)
    BY <2>1, <2>5, <2>6, <2>8, <2>9, <2>10, <2>11 DEF Connects
  <2> QED BY <2>12 DEF Move
<1>2. ASSUME NEW l \in Links, Send(l) PROVE Move
  <2>1. AtAdded(<<>>)
    BY <1>2, SendingKeeps
  <2>2. BridgeStill /\ outbox' = outbox /\ UNCHANGED <<state, startedOn>>
    BY <1>2 DEF Send, BridgeSocketSend, App!Deliver, BridgeStill, sessionVars
  <2> QED BY <2>1, <2>2, EventsKept, IdleReleases DEF Move
<1>3. ASSUME NEW l \in Links, Receive(l) PROVE Move
  <2> DEFINE e == Head(outbox[l])
  <2>1. App!Take(l)
    BY <1>3 DEF Receive
  <2>2. e \in App!AppEvents /\ EvTaken(l, e.type, e.session)
    BY <1>0, <2>1, EventTaken
  <2>3. IF e.session \in Known THEN HandleBridgeEvent(l, e.session, e.type)
        ELSE UNCHANGED vars
    BY <1>3 DEF Receive
  <2> HIDE DEF e
  <2>4. PICK type \in BridgeEvents, s \in Sessions : e.type = type /\ e.session = s
    BY <2>2 DEF App!AppEvents, BridgeEvents
  <2>5. UNCHANGED <<inbox, toBridge, up>> /\ startedOn' = startedOn
    BY <2>1, <2>3 DEF App!Take, HandleBridgeEvent, vars, sessionVars, bridgeVars
  <2>6. AtKept
    BY <2>5, QuietWire
  <2>7. BridgeStill
    BY <2>1 DEF App!Take, BridgeStill
  <2>8. \/ s \notin Known /\ state' = state
        \/ s \in Known /\ state' = [state EXCEPT ![s] = Shown(type)]
    <3>1. CASE s \notin Known
      BY <2>3, <2>4, <3>1 DEF vars, sessionVars
    <3>2. CASE s \in Known
      <4>1. HandleBridgeEvent(l, s, type)
        BY <2>3, <2>4, <3>2
      <4>2. state \in [Sessions -> SessionStates]
        BY <1>0 DEF Ranges
      <4>3. state' = [state EXCEPT ![s] = Shown(type)]
        BY <4>1, <4>2 DEF HandleBridgeEvent, BridgeEvents, Shown, Close
      <4> QED BY <3>2, <4>3
    <3> QED BY <3>1, <3>2
  <2>9. Receives(l, type, s)
    BY <2>2, <2>4, <2>5, <2>6, <2>7, <2>8 DEF Receives
  <2> QED BY <2>9 DEF Move
<1>4. ASSUME NEW l \in Links, Break(l) PROVE Move
  <2>1. /\ up' = [up EXCEPT ![l] = FALSE]
        /\ UNCHANGED <<inbox, toBridge, outbox, link, held, failed, job, state, startedOn>>
    BY <1>4 DEF Break, BridgeSocketBreak, sessionVars
  <2>2. CASE up[l]
    BY <2>1, <2>2, LossMoves DEF Move
  <2>3. CASE ~up[l]
    <3>1. up' = up
      BY <1>0, <2>1, <2>3 DEF Ranges
    <3> QED
      BY <2>1, <3>1, QuietWire, EventsKept, IdleReleases DEF Move, BridgeStill
  <2> QED BY <2>2, <2>3
<1> QED BY <1>1, <1>2, <1>3, <1>4 DEF Wire

\* The bridge by itself.
LEMMA MovesOfBridge ==
    ASSUME Parts, LinksAgree, JobInPlace, Unstarted, Bridge
    PROVE  Move
<1>0. Ranges
  BY InRange
<1>1. UNCHANGED <<toBridge, state, startedOn>>
  BY DEF Bridge, vars, sessionVars, bridgeVars
<1>2. None \notin Sessions /\ App!Idle.session = None /\ App!Idle.step = "idle"
  BY SessionsAssumption DEF App!Idle
<1>3. \A s, step : App!Busy(step, s).session = s /\ App!Busy(step, s).step = step
  BY DEF App!Busy
\* What the bridge does alone moves nothing on the wire.
<1>4. ASSUME UNCHANGED <<inbox, up>> PROVE AtKept
  BY <1>1, <1>4, QuietWire
<1>5. ASSUME NEW type, NEW s, App!Receiving(type, s), up' = up
      PROVE  AtTaken(type, s) /\ job = App!Idle
  BY <1>1, <1>5, ReceivingTakes DEF App!Receiving
<1>6. ASSUME NEW s \in Sessions, App!HandleStart(s) PROVE Move
  <2>1. AtTaken("session.start", s) /\ UNCHANGED <<link, up>> /\ job = App!Idle
    BY <1>5, <1>6 DEF App!HandleStart
  <2>2. link \in Links
    BY <2>1 DEF AtTaken
  <2>3. s \notin held
    BY <2>1, <2>2 DEF AtTaken, Unstarted, Handled
  <2>4. App!Admit(s, held)
    BY <1>6, <2>3 DEF App!HandleStart
  <2>5. \/ held' = held /\ job' = App!Idle /\ App!Emit("asr.error", s)
        \/ held' = held \cup {s} /\ job' = App!Busy("starting", s) /\ outbox' = outbox
    BY <2>4 DEF App!Admit
  <2>6. CASE held' = held /\ job' = App!Idle /\ App!Emit("asr.error", s)
    <3>1. EvSent("asr.error", s)
      BY <1>0, <2>2, <2>6, EventSent DEF BridgeEvents
    <3> QED BY <1>1, <2>1, <2>6, <3>1 DEF TakesStart, Move
  <2>7. CASE held' = held \cup {s} /\ job' = App!Busy("starting", s) /\ outbox' = outbox
    BY <1>1, <2>1, <2>7, EventsKept DEF TakesStart, Move
  <2> QED BY <2>5, <2>6, <2>7
<1>7. ASSUME NEW s \in Sessions, App!HandleStop(s) PROVE Move
  <2>1. /\ AtTaken("session.stop", s) /\ job = App!Idle
        /\ UNCHANGED <<link, up, outbox>>
    BY <1>5, <1>7 DEF App!HandleStop
  <2>2. held' = held \ {s} /\ job' = IF s \in held THEN App!Busy("stopping", s) ELSE App!Idle
    BY <1>7, <2>1 DEF App!HandleStop
  <2> QED BY <1>1, <2>1, <2>2, EventsKept DEF TakesStop, Move
<1>8. ASSUME NEW s \in Sessions, App!HandleCommand(s) PROVE Move
  <2>1. /\ AtTaken("command", s) /\ job = App!Idle
        /\ UNCHANGED <<link, up, outbox, held>>
    BY <1>5, <1>8 DEF App!HandleCommand
  <2>2. job' = App!Idle \/ (s \in held /\ job' = App!Busy("commanding", s))
    BY <1>8 DEF App!HandleCommand
  <2> QED BY <1>1, <2>1, <2>2, EventsKept DEF TakesCommand, Move
\* A report about a session at hand.
<1>9. ASSUME NEW type \in BridgeEvents, NEW s \in Sessions, App!Emit(type, s), phase = "receiving",
             UNCHANGED <<link, up, inbox>>
      PROVE  AtKept /\ EvSent(type, s)
  BY <1>0, <1>4, <1>9, OnLink, EventSent
<1>10. ASSUME NEW s \in Sessions,
              App!Started(s) \/ App!StartFailed(s) \/ App!Stopped(s) \/ App!AsrFailed(s)
       PROVE  Move
  <2>1. UNCHANGED <<link, up, inbox>>
    BY <1>10 DEF App!Started, App!StartFailed, App!Stopped, App!AsrFailed
  <2>2. phase = "receiving"
    BY <1>3, <1>10 DEF App!Started, App!StartFailed, App!Stopped, App!AsrFailed, JobInPlace
  <2>3. Handled(s)
    BY <1>3, <1>10 DEF App!Started, App!StartFailed, App!Stopped, App!AsrFailed, App!Working,
       Handled
  <2>4. CASE App!Started(s)
    <3>1. /\ job = App!Busy("starting", s) /\ held' = held /\ job' = App!Idle
          /\ App!Emit("session.ready", s)
      BY <2>4 DEF App!Started
    <3>2. s \in held
      BY <1>3, <3>1 DEF JobInPlace
    <3>3. Reports("session.ready", s)
      BY <1>1, <1>9, <2>1, <2>2, <2>3, <3>1, <3>2 DEF Reports, BridgeEvents
    <3> QED BY <3>3 DEF Move, BridgeEvents
  <2>5. CASE App!StartFailed(s)
    <3>1. /\ job = App!Busy("starting", s) /\ held' = held \ {s}
          /\ job' = App!Busy("aborting", s) /\ App!Emit("asr.error", s)
      BY <2>5 DEF App!StartFailed
    <3>2. Reports("asr.error", s)
      BY <1>1, <1>9, <2>1, <2>2, <2>3, <3>1 DEF Reports, BridgeEvents
    <3> QED BY <3>2 DEF Move, BridgeEvents
  <2>6. CASE App!Stopped(s)
    <3>1. /\ job = App!Busy("stopping", s) /\ held' = held /\ job' = App!Idle
          /\ App!Emit("session.closed", s)
      BY <2>6 DEF App!Stopped
    <3>2. s \notin held
      BY <1>3, <3>1 DEF JobInPlace
    <3>3. Reports("session.closed", s)
      BY <1>1, <1>9, <2>1, <2>2, <2>3, <3>1, <3>2 DEF Reports, BridgeEvents
    <3> QED BY <3>3 DEF Move, BridgeEvents
  <2>7. CASE App!AsrFailed(s)
    <3>1. held' = held /\ job' = job /\ App!Emit("asr.error", s)
      BY <2>7 DEF App!AsrFailed
    <3>2. Reports("asr.error", s)
      BY <1>1, <1>9, <2>1, <2>2, <2>3, <3>1 DEF Reports, BridgeEvents
    <3> QED BY <3>2 DEF Move, BridgeEvents
  <2> QED BY <1>10, <2>4, <2>5, <2>6, <2>7
\* An await that returns without a report, or a step of run().
<1>11. ASSUME NEW s \in Sessions, App!StartFailedUnreported(s) \/ App!Aborted(s) \/ App!Commanded(s)
       PROVE  Move
  <2>1. UNCHANGED <<link, up, inbox, outbox, held>> /\ job' = App!Idle
        /\ job.step \in {"starting", "aborting", "commanding"}
    BY <1>3, <1>11 DEF App!StartFailedUnreported, App!Aborted, App!Commanded
  <2>2. \A t \in Sessions : Handled(t)' => Handled(t)
    BY <1>2, <2>1 DEF Handled
  <2>3. GoesOn
    BY <1>1, <1>2, <1>4, <2>1, <2>2, EventsKept DEF GoesOn
  <2> QED BY <2>3 DEF Move
<1>12. ASSUME App!ClearedOne PROVE Move
  <2>1. UNCHANGED <<link, up, inbox, outbox, held>> /\ job' = App!Idle /\ job.step = "clearing"
    BY <1>12 DEF App!ClearedOne
  <2>2. \A t \in Sessions : Handled(t)' => Handled(t)
    BY <1>2, <2>1 DEF Handled
  <2>3. GoesOn
    BY <1>1, <1>2, <1>4, <2>1, <2>2, EventsKept DEF GoesOn
  <2> QED BY <2>3 DEF Move
<1>13. ASSUME App!Reconnect \/ App!Restart \/ \E s \in Sessions : App!WorkerDies(s) PROVE Move
  <2>1. UNCHANGED <<link, up, inbox, outbox, held, job>>
    BY <1>13 DEF App!Reconnect, App!Restart, App!WorkerDies
  <2>2. \A t \in Sessions : Handled(t)' => Handled(t)
    BY <2>1 DEF Handled
  <2>3. GoesOn
    BY <1>1, <1>4, <2>1, <2>2, EventsKept DEF GoesOn
  <2> QED BY <2>3 DEF Move
<1>14. ASSUME NEW s \in Sessions, App!ClearOne(s) PROVE Move
  <2>1. /\ UNCHANGED <<link, up, inbox, outbox>> /\ s \in held
        /\ held' = held \ {s} /\ job' = App!Busy("clearing", s) /\ phase # "receiving"
    BY <1>14 DEF App!ClearOne, Parts, Facts!SweepInPlace
  <2>2. \A t \in Sessions : Handled(t)' => Handled(t)
    BY <1>3, <2>1 DEF Handled
  <2>3. ~Alive
    BY <2>1 DEF Alive, LinksAgree
  <2>4. GoesOn
    BY <1>1, <1>3, <1>4, <2>1, <2>2, <2>3, EventsKept DEF GoesOn
  <2> QED BY <2>4 DEF Move
\* The process dies, or stops what a lost connection left behind.
<1>15. ASSUME App!Die PROVE Move
  <2>1. /\ \A l \in Links : ~up'[l] /\ inbox'[l] = <<>>
        /\ UNCHANGED <<link, outbox>> /\ held' = {} /\ job' = App!Idle
    BY <1>15 DEF App!Die, App!Links, Links
  <2>2. AtCut
    BY <2>1, LossCuts
  <2>3. Cuts
    BY <1>1, <2>1, <2>2, EventsKept DEF Cuts
  <2> QED BY <2>3 DEF Move
<1>16. ASSUME App!Crash \/ App!End PROVE Move
  BY <1>15, <1>16 DEF App!Crash, App!End
<1>17. ASSUME App!Lose PROVE Move
  <2>1. /\ ~up[link] /\ up' = up /\ phase = "receiving"
        /\ inbox' = [inbox EXCEPT ![link] = <<>>]
        /\ UNCHANGED <<link, outbox, held, job>>
    BY <1>17 DEF App!Lose
  <2>2. \A l \in Links : ~up'[l] /\ inbox'[l] \in {inbox[l], <<>>}
    BY <1>0, <2>1 DEF Ranges, LinksAgree
  <2>3. AtCut
    BY <2>2, LossCuts
  <2>4. Cuts
    BY <1>1, <2>1, <2>3, EventsKept DEF Cuts
  <2> QED BY <2>4 DEF Move
<1>18. ASSUME NEW l \in Links, App!LinkDown(l) PROVE Move
  BY <1>1, <1>18, LossMoves DEF App!LinkDown, Move
\* A stop that fails, which no connection sees.
<1>19. ASSUME NEW s \in Sessions, App!StopHangs(s) \/ App!StopRaises(s), ~App!Die PROVE Move
  <2>1. /\ s \in failed /\ job.session = s /\ UNCHANGED <<link, up, held, inbox>>
        /\ job' \in {App!Idle, App!Busy("stuck", s)}
    BY <1>19 DEF App!StopHangs, App!StopRaises
  <2>2. \A l \in Links : ~up[l]
    BY <2>1 DEF JobInPlace
  <2>3. outbox' = outbox
    <3>1. outbox' = outbox \/ (job.step = "stopping" /\ App!Emit("session.closed", s))
      BY <1>19 DEF App!StopHangs, App!StopRaises
    <3>2. ASSUME job.step = "stopping", App!Emit("session.closed", s) PROVE outbox' = outbox
      <4>1. link \in Links
        BY <1>0, <3>2, OnLink DEF JobInPlace
      <4> QED BY <2>2, <3>2, <4>1 DEF App!Emit
    <3> QED BY <3>1, <3>2
  <2>4. \A t \in Sessions : Handled(t)' => Handled(t)
    BY <1>2, <1>3, <2>1 DEF Handled
  <2>5. GoesOn
    BY <1>1, <1>2, <1>3, <1>4, <2>1, <2>2, <2>3, <2>4, EventsKept DEF GoesOn, Alive
  <2> QED BY <2>5 DEF Move
\* No session is ever replaced.
<1>20. ~\E s \in Sessions : App!Replaced(s)
  BY <1>3 DEF App!Replaced, JobInPlace
\* What a stop() left behind fails.
<1>21. ASSUME NEW s \in Sessions, App!StrayFails(s) PROVE Move
  <2>1. /\ UNCHANGED <<link, up, inbox, held, job>> /\ phase = "receiving" /\ s \in stray
        /\ up[link] /\ App!Emit("asr.error", s)
    BY <1>21 DEF App!StrayFails
  <2>2. AtKept /\ EvSent("asr.error", s)
    BY <1>9, <2>1 DEF BridgeEvents
  <2>3. \E l \in Links : l = link /\ up[l]
    BY <1>0, <2>1, OnLink
  <2>4. Strays(s)
    BY <1>1, <2>1, <2>2, <2>3 DEF Strays
  <2> QED BY <2>4 DEF Move
<1> QED
  BY <1>6, <1>7, <1>8, <1>10, <1>11, <1>12, <1>13, <1>14, <1>15, <1>16, <1>17, <1>18, <1>19, <1>20,
     <1>21
  DEF Bridge, App!AppStep, App!HandleMessage, App!Run, App!Links, Links

\* Every step of the system is one of the moves.
LEMMA EveryMove == ASSUME SysInv, [SysNext]_sysVars PROVE Move
<1>1. CASE UNCHANGED sysVars
  <2>1. UNCHANGED <<inbox, toBridge, up, outbox, state, startedOn>> /\ BridgeStill
    BY <1>1 DEF sysVars, appVars, vars, sessionVars, bridgeVars, BridgeStill
  <2> QED BY <2>1, QuietWire, EventsKept, IdleReleases DEF Move
<1> QED BY <1>1, ServerMoves, WireMoves, MovesOfBridge DEF SysInv, SysNext

-----------------------------------------------------------------------------
(* The connection and the job are where they should be.                    *)

\* What the bridge does to its connections by itself.
LEMMA LinksOfBridge ==
    ASSUME Parts, LinksAgree, JobInPlace, Bridge
    PROVE  /\ UNCHANGED <<bridge, linkTask, toBridge, link>>
           /\ \A l \in Links : /\ up'[l] => up[l]
                               /\ inbox'[l] # <<>> => inbox[l] # <<>>
                               /\ l # link => outbox'[l] = outbox[l]
           /\ phase' = "receiving" => phase = "receiving"
           /\ phase' # phase => \A l \in Links : ~up'[l] /\ inbox'[l] = <<>>
<1>0. Ranges
  BY InRange
<1> DEFINE Still == UNCHANGED <<phase, link, up, inbox>>
           SameElsewhere == \A l \in Links : l # link => outbox'[l] = outbox[l]
           Goal == /\ link' = link
                   /\ \A l \in Links : /\ up'[l] => up[l]
                                       /\ inbox'[l] # <<>> => inbox[l] # <<>>
                   /\ SameElsewhere
                   /\ phase' = "receiving" => phase = "receiving"
                   /\ phase' # phase => \A l \in Links : ~up'[l] /\ inbox'[l] = <<>>
<1>1. UNCHANGED <<bridge, linkTask, toBridge>>
  BY DEF Bridge, vars, bridgeVars
<1>2. ASSUME NEW type, NEW s, App!Emit(type, s) PROVE SameElsewhere
  BY <1>0, <1>2 DEF App!Emit, Ranges
<1>3. ASSUME NEW type, NEW s, App!Receiving(type, s)
      PROVE  \A l \in Links : inbox'[l] # <<>> => inbox[l] # <<>>
  BY <1>0, <1>3 DEF App!Receiving, Ranges
<1>4. App!Links = Links
  BY DEF App!Links, Links
<1>5. ASSUME App!Die PROVE Goal
  BY <1>4, <1>5 DEF App!Die
<1>6. ASSUME App!Crash \/ App!End PROVE Goal
  BY <1>5, <1>6 DEF App!Crash, App!End
<1>7. ASSUME App!Lose PROVE Goal
  <2>1. \A l \in Links : ~up[l]
    BY <1>7 DEF App!Lose, LinksAgree
  <2>2. \A l \in Links : inbox'[l] = <<>>
    BY <1>0, <1>7 DEF App!Lose, LinksAgree, Ranges
  <2> QED BY <1>7, <2>1, <2>2 DEF App!Lose
<1>8. ASSUME App!Restart \/ App!Reconnect PROVE Goal
  <2>1. phase # "receiving" /\ phase' = "connecting" /\ UNCHANGED <<link, up, inbox, outbox>>
    BY <1>8 DEF App!Restart, App!Reconnect
  <2>2. \A l \in Links : ~up[l] /\ inbox[l] = <<>>
    BY <2>1 DEF LinksAgree
  <2> QED BY <2>1, <2>2
<1>9. ASSUME App!ClearedOne \/ \E s \in Sessions : App!ClearOne(s) \/ App!WorkerDies(s) PROVE Goal
  BY <1>9 DEF App!ClearedOne, App!ClearOne, App!WorkerDies
<1>10. ASSUME NEW s \in Sessions, App!HandleStart(s) PROVE Goal
  <2>1. SameElsewhere
    BY <1>2, <1>10 DEF App!HandleStart, App!Admit
  <2> QED BY <1>3, <1>10, <2>1 DEF App!HandleStart
<1>11. ASSUME NEW s \in Sessions, App!HandleStop(s) \/ App!HandleCommand(s) PROVE Goal
  BY <1>3, <1>11 DEF App!HandleStop, App!HandleCommand
<1>12. ASSUME NEW s \in Sessions,
              App!StartFailedUnreported(s) \/ App!Aborted(s) \/ App!Commanded(s) \/ App!StopHangs(s)
       PROVE  Goal
  BY <1>12 DEF App!StartFailedUnreported, App!Aborted, App!Commanded, App!StopHangs
<1>13. ASSUME NEW s \in Sessions,
              \/ App!Started(s) \/ App!StartFailed(s) \/ App!Stopped(s)
              \/ App!AsrFailed(s) \/ App!StrayFails(s)
       PROVE  Goal
  <2>1. SameElsewhere
    BY <1>2, <1>13 DEF App!Started, App!StartFailed, App!Stopped, App!AsrFailed, App!StrayFails
  <2> QED
    BY <1>13, <2>1 DEF App!Started, App!StartFailed, App!Stopped, App!AsrFailed, App!StrayFails
<1>14. ASSUME NEW s \in Sessions, App!StopRaises(s) PROVE Goal
  <2>1. CASE phase = "ending"
    BY <1>5, <1>14, <2>1 DEF App!StopRaises
  <2>2. CASE phase # "ending"
    <3>1. SameElsewhere /\ UNCHANGED <<link, up, inbox>>
      BY <1>2, <1>14, <2>2 DEF App!StopRaises
    <3>2. phase' = IF job.step = "clearing" THEN "ending" ELSE phase
      BY <1>14, <2>2 DEF App!StopRaises
    <3>3. ASSUME phase' # phase
          PROVE  phase' = "ending" /\ \A l \in Links : ~up[l] /\ inbox[l] = <<>>
      BY <3>2, <3>3 DEF JobInPlace, LinksAgree
    <3> QED BY <3>1, <3>3
  <2> QED BY <2>1, <2>2
<1>15. ASSUME NEW l \in Links, App!LinkDown(l) PROVE Goal
  BY <1>0, <1>15 DEF App!LinkDown, Ranges
<1>16. ~\E s \in Sessions : App!Replaced(s)
  BY DEF App!Replaced, App!Busy, JobInPlace
<1> HIDE DEF Goal
<1>17. Goal
  BY <1>4, <1>6, <1>7, <1>8, <1>9, <1>10, <1>11, <1>12, <1>13, <1>14, <1>15, <1>16
  DEF Bridge, App!AppStep, App!HandleMessage, App!Run
<1> QED BY <1>1, <1>17 DEF Goal

\* The two ends agree on the connection after every step.
LEMMA LinksStep == ASSUME Parts, LinksAgree, JobInPlace, [SysNext]_sysVars PROVE LinksAgree'
<1>0. Ranges
  BY InRange
<1>1. CASE Bridge
  <2>1. bridge' \in {None, link'} /\ (phase' = "receiving" => link' # 0)
    BY <1>1, LinksOfBridge DEF LinksAgree
  <2>3. ASSUME NEW l \in Links
        PROVE  /\ l > link' <=> linkTask'[l] = "unused"
               /\ l > link' => toBridge'[l] = <<>> /\ outbox'[l] = <<>>
               /\ up'[l] => l = link' /\ phase' = "receiving" /\ linkTask'[l] = "serving"
               /\ inbox'[l] # <<>> => l = link' /\ phase' = "receiving"
    <3>1. l > link => l # link
      BY <1>0 DEF Ranges
    <3> QED BY <1>1, <3>1, LinksOfBridge DEF LinksAgree
  <2> QED BY <2>1, <2>3 DEF LinksAgree
<1>2. CASE UNCHANGED sysVars
  BY <1>2 DEF sysVars, appVars, vars, bridgeVars, LinksAgree
\* The registry keeps to the link it knows.
<1>3. ASSUME UNCHANGED appVars, UNCHANGED linkTask, bridge' = bridge,
             \/ toBridge' = toBridge
             \/ \E messages : TellBridge(messages)
      PROVE  LinksAgree'
  <2>1. UNCHANGED <<phase, link, up, inbox, outbox>>
    BY <1>3 DEF appVars
  <2>2. ASSUME NEW l \in Links, l > link PROVE toBridge'[l] = toBridge[l]
    <3>1. l # bridge
      <4>1. l # link
        BY <1>0, <2>2 DEF Ranges
      <4> QED BY <4>1, LinksAssumption DEF LinksAgree
    <3> QED BY <1>3, <3>1 DEF TellBridge
  <2> QED BY <1>3, <2>1, <2>2 DEF LinksAgree
<1>4. ASSUME Tick \/ SessionReaper \/ Request \/ ClientSocket, UNCHANGED appVars PROVE LinksAgree'
  <2>1. UNCHANGED <<bridge, linkTask>>
        /\ (toBridge' = toBridge \/ \E messages : TellBridge(messages))
    <3>1. CASE Tick
      BY <3>1 DEF Tick, bridgeVars
    <3>2. CASE SessionReaper
      BY <3>2 DEF SessionReaper
    <3>3. CASE Request
      BY <3>3 DEF Request, IssueBrowserGrant, RefuseStaleGrant, CreateSession, DeleteSession,
         ForwardCommand, bridgeVars
    <3>4. CASE ClientSocket
      BY <3>4 DEF ClientSocket, ClientWs, ClientSocketOpen, ClientSocketBreak, ClientSocketCleanup,
         bridgeVars
    <3> QED BY <1>4, <3>1, <3>2, <3>3, <3>4
  <2> QED BY <1>3, <1>4, <2>1
<1>5. ASSUME NEW l \in Links, BridgeSocketCleanup(l), UNCHANGED appVars PROVE LinksAgree'
  <2>1. UNCHANGED <<phase, link, up, inbox, outbox>>
    BY <1>5 DEF appVars
  <2>2. /\ linkTask[l] = "leaving" /\ linkTask' = [linkTask EXCEPT ![l] = "done"]
        /\ toBridge' = [toBridge EXCEPT ![l] = <<>>]
        /\ bridge' \in {bridge, None}
    BY <1>5 DEF BridgeSocketCleanup, DisconnectedCurrent
  <2>3. ~up[l]
    BY <2>2 DEF LinksAgree
  <2>4. ASSUME NEW m \in Links
        PROVE  /\ linkTask'[m] = "unused" <=> linkTask[m] = "unused"
               /\ toBridge[m] = <<>> => toBridge'[m] = <<>>
               /\ up[m] => linkTask'[m] = linkTask[m]
    BY <1>0, <2>2, <2>3 DEF Ranges
  <2> QED BY <2>1, <2>2, <2>4 DEF LinksAgree
<1>6. ASSUME NEW l \in Links, Connected(l) PROVE LinksAgree'
  <2>1. /\ phase = "connecting" /\ l = link + 1 /\ link' = l /\ phase' = "receiving"
        /\ up' = [up EXCEPT ![l] = TRUE] /\ bridge' = l
        /\ linkTask' = [linkTask EXCEPT ![l] = "serving"]
        /\ UNCHANGED <<inbox, outbox, toBridge>>
    BY <1>6 DEF Connected, BridgeSocketOpen, App!Connect
  <2>2. \A m \in Links : ~up[m] /\ inbox[m] = <<>>
    BY <2>1 DEF LinksAgree
  <2>3. l # 0 /\ \A m \in Links : (m > l <=> m > link /\ m # l)
    BY <1>0, <2>1 DEF Ranges, Links
  <2>4. ASSUME NEW m \in Links
        PROVE  /\ m > link' <=> linkTask'[m] = "unused"
               /\ m > link' => toBridge'[m] = <<>> /\ outbox'[m] = <<>>
               /\ up'[m] => m = link' /\ phase' = "receiving" /\ linkTask'[m] = "serving"
               /\ inbox'[m] # <<>> => m = link' /\ phase' = "receiving"
    <3>1. CASE m = l
      BY <1>0, <2>1, <2>2, <2>3, <3>1 DEF Ranges
    <3>2. CASE m # l
      BY <1>0, <2>1, <2>2, <2>3, <3>2 DEF Ranges, LinksAgree
    <3> QED BY <3>1, <3>2
  <2> QED BY <2>1, <2>3, <2>4 DEF LinksAgree
<1>7. ASSUME NEW l \in Links, Send(l) PROVE LinksAgree'
  <2>1. /\ toBridge[l] # <<>> /\ toBridge' = [toBridge EXCEPT ![l] = Tail(toBridge[l])]
        /\ \/ inbox' = inbox
           \/ up[l] /\ inbox' = [inbox EXCEPT ![l] = Append(inbox[l], Head(toBridge[l]))]
        /\ UNCHANGED <<phase, link, up, outbox, bridge, linkTask>>
    BY <1>7 DEF Send, BridgeSocketSend, App!Deliver
  <2>2. ASSUME NEW m \in Links
        PROVE  /\ m > link => toBridge'[m] = <<>>
               /\ inbox'[m] # <<>> => inbox[m] # <<>> \/ (m = l /\ up[l])
    BY <1>0, <2>1 DEF Ranges, LinksAgree
  <2> QED BY <2>1, <2>2 DEF LinksAgree
<1>8. ASSUME NEW l \in Links, Receive(l) PROVE LinksAgree'
  <2>1. /\ outbox[l] # <<>> /\ outbox' = [outbox EXCEPT ![l] = Tail(outbox[l])]
        /\ UNCHANGED <<phase, link, up, inbox, bridge, linkTask, toBridge>>
    BY <1>8 DEF Receive, App!Take, HandleBridgeEvent, vars, bridgeVars
  <2>2. \A m \in Links : m > link => outbox'[m] = <<>>
    BY <1>0, <2>1 DEF Ranges, LinksAgree
  <2> QED BY <2>1, <2>2 DEF LinksAgree
<1>9. ASSUME NEW l \in Links, Break(l) PROVE LinksAgree'
  <2>1. /\ up' = [up EXCEPT ![l] = FALSE]
        /\ linkTask[l] = "serving" /\ linkTask' = [linkTask EXCEPT ![l] = "leaving"]
        /\ UNCHANGED <<phase, link, inbox, outbox, bridge, toBridge>>
    BY <1>9 DEF Break, BridgeSocketBreak
  <2>2. ASSUME NEW m \in Links
        PROVE  /\ linkTask'[m] = "unused" <=> linkTask[m] = "unused"
               /\ up'[m] => up[m] /\ linkTask'[m] = linkTask[m]
    BY <1>0, <2>1 DEF Ranges
  <2> QED BY <2>1, <2>2 DEF LinksAgree
<1> QED
  BY <1>1, <1>2, <1>4, <1>5, <1>6, <1>7, <1>8, <1>9 DEF SysNext, Server, Wire

\* What is awaited fits what is held after every step.
LEMMA JobStep ==
    ASSUME Parts, LinksAgree, JobInPlace, Unstarted, [SysNext]_sysVars
    PROVE  JobInPlace'
<1>0. Ranges
  BY InRange
<1>1. None \notin Sessions
  BY SessionsAssumption
<1>2. \A s, step : App!Busy(step, s).session = s /\ App!Busy(step, s).step = step
  BY DEF App!Busy
<1>3. App!Idle.session = None /\ App!Idle.step = "idle"
  BY DEF App!Idle
<1>4. ASSUME UNCHANGED <<phase, held, failed, job>>, \A l \in Links : up'[l] => up[l]
      PROVE  JobInPlace'
  BY <1>4 DEF JobInPlace, Handled
<1>5. CASE UNCHANGED sysVars \/ Server
  BY <1>4, <1>5 DEF sysVars, Server, appVars
<1>6. ASSUME NEW l \in Links, Send(l) \/ Receive(l) PROVE JobInPlace'
  BY <1>4, <1>6 DEF Send, Receive, App!Deliver, App!Take
<1>7. ASSUME NEW l \in Links, Break(l) \/ App!LinkDown(l) PROVE JobInPlace'
  <2>1. up' = [up EXCEPT ![l] = FALSE] /\ UNCHANGED <<phase, held, failed, job>>
    BY <1>7 DEF Break, App!LinkDown
  <2> QED BY <1>0, <1>4, <2>1 DEF Ranges
<1>8. ASSUME NEW l \in Links, Connected(l) PROVE JobInPlace'
  <2>1. held = {} /\ job = App!Idle /\ UNCHANGED <<held, failed, job>>
    BY <1>8 DEF Connected, App!Connect, Parts, Facts!SweepInPlace, Facts!Idle, App!Idle
  <2>2. failed = {}
    BY <1>0, <1>1, <1>3, <2>1 DEF JobInPlace, Handled, Ranges
  <2> QED BY <1>3, <2>1, <2>2 DEF JobInPlace
\* Nothing is awaited afterwards.
<1>9. ASSUME job' = App!Idle, failed' = failed \ {job.session}, held \subseteq held',
             \A l \in Links : up'[l] => up[l]
      PROVE  JobInPlace'
  <2>1. \A s \in failed' : s \in held'
    BY <1>9 DEF JobInPlace, Handled
  <2>2. \A s \in failed' : Handled(s)'
    BY <2>1 DEF Handled
  <2>3. \A s \in failed' : \A l \in Links : ~up'[l]
    BY <1>9 DEF JobInPlace
  <2> QED BY <1>3, <1>9, <2>2, <2>3 DEF JobInPlace
\* Something else is awaited while the connection is alive.
<1>10. ASSUME failed' = failed, up' = up, phase' = phase,
              NEW s \in Sessions, NEW step, job' = App!Busy(step, s),
              \A t \in Sessions : Handled(t) => t \in held' \/ t = s,
              \/ step \in {"starting", "commanding"} /\ s \in held' /\ phase = "receiving"
              \/ step \in {"aborting", "stopping"} /\ s \notin held' /\ phase = "receiving"
              \/ step = "clearing" /\ s \notin held' /\ phase \in {"clearing", "ending"}
              \/ step = "stuck" /\ s \in failed /\ s \notin held',
              step \in {"starting", "aborting"} => s \notin failed
       PROVE  JobInPlace'
  <2>1. job'.step = step /\ job'.session = s /\ s # None
    BY <1>1, <1>2, <1>10
  <2>2. \A t \in failed' : Handled(t)' /\ \A l \in Links : ~up'[l]
    BY <1>0, <1>10, <2>1 DEF JobInPlace, Handled, Ranges
  <2> QED BY <1>10, <2>1, <2>2 DEF JobInPlace
<1>11. ASSUME App!Die PROVE JobInPlace'
  <2>1. job' = App!Idle /\ failed' = {}
    BY <1>11 DEF App!Die
  <2> QED BY <1>3, <2>1 DEF JobInPlace
<1>12. ASSUME NEW s \in Sessions, App!HandleStart(s), UNCHANGED <<toBridge>> PROVE JobInPlace'
  <2>1. AtTaken("session.start", s) /\ job = App!Idle /\ UNCHANGED <<phase, up, failed>>
        /\ phase = "receiving"
    BY <1>12, ReceivingTakes DEF App!HandleStart, App!Receiving
  <2>2. link \in Links
    BY <2>1 DEF AtTaken
  <2>3. s \notin held
    BY <2>1, <2>2 DEF AtTaken, Unstarted, Handled
  <2>4. App!Admit(s, held)
    BY <1>12, <2>3 DEF App!HandleStart
  <2>5. \A t \in Sessions : Handled(t) => t \in held
    BY <1>1, <1>3, <2>1 DEF Handled
  <2>6. s \notin failed /\ None \notin failed
    BY <1>0, <1>1, <2>3, <2>5 DEF JobInPlace, Ranges
  <2>7. CASE held' = held /\ job' = App!Idle
    BY <1>3, <1>9, <2>1, <2>6, <2>7
  <2>8. CASE held' = held \cup {s} /\ job' = App!Busy("starting", s)
    BY <1>10, <2>1, <2>5, <2>6, <2>8
  <2> QED BY <2>4, <2>7, <2>8 DEF App!Admit
<1>13. ASSUME NEW s \in Sessions, App!HandleStop(s) \/ App!HandleCommand(s) PROVE JobInPlace'
  <2>1. /\ job = App!Idle /\ UNCHANGED <<phase, up, failed>> /\ phase = "receiving"
        /\ \/ held' = held \ {s} /\ job' = App!Busy("stopping", s)
           \/ s \in held /\ held' = held /\ job' = App!Busy("commanding", s)
           \/ held' = held /\ job' = App!Idle
    BY <1>13 DEF App!HandleStop, App!HandleCommand, App!Receiving
  <2>2. \A t \in Sessions : Handled(t) => t \in held
    BY <1>1, <1>3, <2>1 DEF Handled
  <2>3. None \notin failed
    BY <1>0, <1>1 DEF Ranges
  <2>4. CASE held' = held \ {s} /\ job' = App!Busy("stopping", s)
    BY <1>10, <2>1, <2>2, <2>4
  <2>5. CASE s \in held /\ held' = held /\ job' = App!Busy("commanding", s)
    BY <1>10, <2>1, <2>2, <2>5
  <2>6. CASE held' = held /\ job' = App!Idle
    BY <1>4, <2>1, <2>6
  <2> QED BY <2>1, <2>4, <2>5, <2>6
<1>14. ASSUME NEW s \in Sessions,
              App!Started(s) \/ App!StartFailedUnreported(s) \/ App!Aborted(s) \/ App!Stopped(s)
              \/ App!Commanded(s)
       PROVE  JobInPlace'
  <2>1. job.session = s /\ job' = App!Idle /\ UNCHANGED <<phase, up, failed, held>>
    BY <1>2, <1>14
    DEF App!Started, App!StartFailedUnreported, App!Aborted, App!Stopped, App!Commanded
  <2>2. CASE s \notin failed
    BY <1>9, <2>1, <2>2
  <2>3. CASE s \in failed
    <3>1. App!Commanded(s)
      BY <1>2, <1>14, <2>3 DEF App!Started, App!StartFailedUnreported, App!Aborted, App!Stopped,
         JobInPlace
    <3>2. s \in held
      BY <1>2, <3>1 DEF App!Commanded, JobInPlace
    <3>3. \A t \in failed' : Handled(t)' /\ \A l \in Links : ~up'[l]
      BY <2>1, <3>2 DEF JobInPlace, Handled
    <3> QED BY <1>3, <2>1, <3>3 DEF JobInPlace
  <2> QED BY <2>2, <2>3
<1>15. ASSUME NEW s \in Sessions, App!StartFailed(s) PROVE JobInPlace'
  <2>1. /\ job.step = "starting" /\ job.session = s
        /\ held' = held \ {s} /\ job' = App!Busy("aborting", s) /\ UNCHANGED <<phase, up, failed>>
    BY <1>2, <1>15 DEF App!StartFailed
  <2>2. phase = "receiving" /\ s \notin failed
    BY <2>1 DEF JobInPlace
  <2>3. \A t \in Sessions : Handled(t) => t \in held' \/ t = s
    BY <2>1 DEF Handled
  <2> QED BY <1>10, <2>1, <2>2, <2>3
<1>16. ASSUME NEW s \in Sessions, App!AsrFailed(s) \/ App!StrayFails(s) PROVE JobInPlace'
  BY <1>4, <1>16 DEF App!AsrFailed, App!StrayFails
<1>17. ASSUME NEW s \in Sessions, App!WorkerDies(s) PROVE JobInPlace'
  <2>1. /\ failed' = failed \cup {s} /\ UNCHANGED <<phase, up, held, job>>
        /\ ~up[link] /\ phase = "receiving"
        /\ \/ s \in held /\ job # App!Busy("starting", s)
           \/ job.step = "stopping" /\ job.session = s
    BY <1>17 DEF App!WorkerDies, App!Working, JobInPlace
  <2>2. \A l \in Links : ~up'[l]
    BY <2>1 DEF LinksAgree
  <2>3. \A t \in failed' : Handled(t)'
    BY <2>1 DEF JobInPlace, Handled
  <2>4. job.step \in {"starting", "aborting"} => job.session # s
    BY <1>0, <2>1 DEF JobInPlace, Ranges
  <2> QED BY <2>1, <2>2, <2>3, <2>4 DEF JobInPlace
<1>18. ASSUME NEW s \in Sessions, App!StopRaises(s) \/ App!StopHangs(s) PROVE JobInPlace'
  <2>1. /\ job.step \in {"stopping", "clearing"} /\ job.session = s /\ s \in failed
    BY <1>18 DEF App!StopRaises, App!StopHangs, JobInPlace
  <2>2. s \notin held
    BY <2>1 DEF JobInPlace
  <2>3. CASE App!StopHangs(s)
    <3>1. job' = App!Busy("stuck", s) /\ UNCHANGED <<phase, up, held, failed>>
      BY <2>3 DEF App!StopHangs
    <3>2. \A t \in Sessions : Handled(t) => t \in held' \/ t = s
      BY <2>1, <3>1 DEF Handled
    <3> QED BY <1>10, <2>1, <2>2, <3>1, <3>2
  <2>4. CASE App!StopRaises(s) /\ ~App!Die
    <3>1. job' = App!Idle /\ failed' = failed \ {s} /\ UNCHANGED <<up, held>>
      BY <2>4 DEF App!StopRaises
    <3> QED BY <1>9, <2>1, <3>1
  <2> QED BY <1>11, <1>18, <2>3, <2>4
<1>19. ASSUME NEW s \in Sessions, App!ClearOne(s) PROVE JobInPlace'
  <2>1. /\ job = App!Idle /\ held' = held \ {s} /\ job' = App!Busy("clearing", s)
        /\ phase \in {"clearing", "ending"} /\ UNCHANGED <<phase, up, failed>>
    BY <1>19 DEF App!ClearOne, Parts, Facts!SweepInPlace
  <2>2. \A t \in Sessions : Handled(t) => t \in held' \/ t = s
    BY <1>1, <1>3, <2>1 DEF Handled
  <2> QED BY <1>10, <2>1, <2>2
<1>20. ASSUME App!ClearedOne PROVE JobInPlace'
  <2>1. job' = App!Idle /\ job.session \notin failed /\ UNCHANGED <<up, held, failed>>
    BY <1>20 DEF App!ClearedOne
  <2> QED BY <1>9, <2>1
<1>21. ASSUME App!Lose \/ App!Reconnect \/ App!Restart PROVE JobInPlace'
  <2>1. job = App!Idle /\ UNCHANGED <<up, held, failed, job>>
    BY <1>21
    DEF App!Lose, App!Reconnect, App!Restart, Parts, Facts!SweepInPlace, Facts!Idle, App!Idle
  <2>2. None \notin failed
    BY <1>0, <1>1 DEF Ranges
  <2> QED BY <1>3, <1>9, <2>1, <2>2
<1>22. ASSUME App!Crash \/ App!End PROVE JobInPlace'
  BY <1>11, <1>22 DEF App!Crash, App!End
<1>23. ~\E s \in Sessions : App!Replaced(s)
  BY <1>2 DEF App!Replaced, JobInPlace
<1>24. CASE Bridge
  <2>1. UNCHANGED <<toBridge>>
    BY <1>24 DEF Bridge, vars, bridgeVars
  <2> QED
    BY <1>7, <1>12, <1>13, <1>14, <1>15, <1>16, <1>17, <1>18, <1>19, <1>20, <1>21, <1>22, <1>23,
       <1>24, <2>1
    DEF Bridge, App!AppStep, App!HandleMessage, App!Run
<1> QED
  BY <1>5, <1>6, <1>7, <1>8, <1>24 DEF SysNext, Wire

-----------------------------------------------------------------------------
(* Every move keeps the invariant.                                         *)

\* The fields of what is awaited.
LEMMA Jobs ==
    /\ None \notin Sessions /\ App!Idle.session = None /\ App!Idle.step = "idle"
    /\ \A s, step : App!Busy(step, s).session = s /\ App!Busy(step, s).step = step
BY SessionsAssumption DEF App!Idle, App!Busy

\* Only a link that may still bring something has something to bring.
LEMMA AtIsHere ==
    ASSUME LinksAgree, NEW l \in Links, NEW i, NEW type, NEW s, At(l, i, type, s)
    PROVE  l = link
<1>1. CASE inbox[l] # <<>> \/ up[l]
  BY <1>1 DEF LinksAgree
<1>2. CASE inbox[l] = <<>> /\ ~up[l]
  BY <1>2 DEF At, Pending
<1> QED BY <1>1, <1>2

\* A message that is found is at a position, and so is an event.
LEMMA Placed ==
    ASSUME Ranges, NEW l \in Links
    PROVE  /\ \A i, type, s : At(l, i, type, s) => i \in Nat /\ 1 <= i /\ i <= Len(Pending(l))
           /\ \A i, type, s : Ev(l, i, type, s) => i \in Nat /\ 1 <= i /\ i <= Len(outbox[l])
           /\ Len(Pending(l)) \in Nat /\ Len(outbox[l]) \in Nat
<1>1. Pending(l) \in Seq(Messages) /\ outbox[l] \in Seq(App!AppEvents)
  BY DEF Ranges
<1> QED BY <1>1, Positions

\* The bridge begins with a session only by its start.
LEMMA HandledStep ==
    ASSUME Move, NEW s \in Sessions, Handled(s)'
    PROVE  Handled(s) \/ TakesStart(s)
<1>1. CASE \E ms \in Seq(Messages) : Releases(ms)
  BY <1>1 DEF Releases, BridgeStill, Handled
<1>2. CASE \E t \in Sessions : Creates(t)
  BY <1>2 DEF Creates, BridgeStill, Handled
<1>3. CASE \E l \in Links : Connects(l)
  BY <1>3 DEF Connects, Handled
<1>4. CASE \E l \in Links, type \in BridgeEvents, t \in Sessions : Receives(l, type, t)
  BY <1>4 DEF Receives, BridgeStill, Handled
<1>5. CASE Cuts
  BY <1>5, Jobs DEF Cuts, Handled
<1>6. ASSUME NEW t \in Sessions, TakesStart(t) PROVE Handled(s) \/ TakesStart(s)
  <2>1. CASE t = s
    BY <1>6, <2>1
  <2>2. CASE t # s
    BY <1>6, <2>2, Jobs DEF TakesStart, Handled
  <2> QED BY <2>1, <2>2
<1>7. ASSUME NEW t \in Sessions, TakesStop(t) \/ TakesCommand(t) PROVE Handled(s)
  BY <1>7, Jobs DEF TakesStop, TakesCommand, Handled
<1>8. ASSUME NEW t \in Sessions, NEW type \in BridgeEvents, Reports(type, t) PROVE Handled(s)
  BY <1>8, Jobs DEF Reports, Handled
<1>9. CASE GoesOn \/ \E t \in Sessions : Strays(t)
  BY <1>9 DEF GoesOn, Strays, Handled
<1> QED BY <1>1, <1>2, <1>3, <1>4, <1>5, <1>6, <1>7, <1>8, <1>9 DEF Move

\* A state is changed only for a session that was created.
LEMMA StateStep ==
    ASSUME Move, Ranges, NEW s \in Sessions, state'[s] # state[s]
    PROVE  \/ state[s] # "unallocated" /\ state'[s] \in {"closed", "forgotten"}
           \/ Creates(s)
           \/ \E l \in Links, type \in BridgeEvents :
                 Receives(l, type, s) /\ s \in Known /\ state'[s] = Shown(type)
<1>1. ASSUME NEW t \in Sessions, Creates(t) PROVE Creates(s)
  BY <1>1 DEF Creates, Ranges
<1>2. ASSUME NEW l \in Links, NEW type \in BridgeEvents, NEW t \in Sessions, Receives(l, type, t)
      PROVE  Receives(l, type, s) /\ s \in Known /\ state'[s] = Shown(type)
  <2>1. t \in Known /\ state' = [state EXCEPT ![t] = Shown(type)]
    BY <1>2 DEF Receives
  <2>2. t = s
    BY <2>1 DEF Ranges
  <2> QED BY <1>2, <2>1, <2>2 DEF Ranges
<1> QED
  BY <1>1, <1>2
  DEF Move, Releases, Connects, Cuts, TakesStart, TakesStop, TakesCommand, Reports, Strays, GoesOn

\* What a move makes of the messages under way on a link.
NewMessage(l, i, type, s) ==
    /\ up[l] /\ i > Len(Pending(l))
    /\ \/ Creates(s) /\ type = "session.start" /\ i = Len(Pending(l)) + 1
       \/ state[s] # "unallocated" /\ type # "session.start"

\* All of them move up one place, the bridge having taken the first; or some stay
\* where they were, and new ones come last.
LEMMA AtWay ==
    ASSUME Move, Ranges, LinksAgree, NEW l \in Links
    PROVE  \/ \A i \in Nat, type \in MessageTypes, s \in Sessions :
                 At(l, i, type, s)' => 1 <= i /\ At(l, i + 1, type, s)
           \/ \A i \in Nat, type \in MessageTypes, s \in Sessions :
                 At(l, i, type, s)' => At(l, i, type, s) \/ NewMessage(l, i, type, s)
<1> DEFINE Along == \A i \in Nat, type \in MessageTypes, s \in Sessions :
                        At(l, i, type, s)' => 1 <= i /\ At(l, i + 1, type, s)
           Behind == \A i \in Nat, type \in MessageTypes, s \in Sessions :
                         At(l, i, type, s)' => At(l, i, type, s) \/ NewMessage(l, i, type, s)
<1>1. ASSUME NEW ms \in Seq(Messages), Releases(ms) PROVE Behind
  <2> SUFFICES ASSUME NEW i \in Nat, NEW type \in MessageTypes, NEW s \in Sessions,
                      At(l, i, type, s)', ~At(l, i, type, s)
               PROVE  NewMessage(l, i, type, s)
    OBVIOUS
  <2>1. PICK k \in DOMAIN ms : /\ up[l] /\ i = Len(Pending(l)) + k
                               /\ ms[k] = [type |-> type, session |-> s]
    BY <1>1 DEF Releases, AtAdded
  <2>2. ms[k].session = s /\ ms[k].type = type /\ k \in Nat /\ k >= 1
    BY <2>1
  <2>3. i > Len(Pending(l))
    BY <2>1, <2>2, Placed
  <2> QED BY <1>1, <2>1, <2>2, <2>3 DEF Releases, NewMessage
<1>2. ASSUME NEW t \in Sessions, Creates(t) PROVE Behind
  <2> SUFFICES ASSUME NEW i \in Nat, NEW type \in MessageTypes, NEW s \in Sessions,
                      At(l, i, type, s)', ~At(l, i, type, s)
               PROVE  NewMessage(l, i, type, s)
    OBVIOUS
  <2> DEFINE ms == <<StartFor(t)>>
  <2>1. DOMAIN ms = {1} /\ ms[1] = [type |-> "session.start", session |-> t]
    BY DEF StartFor
  <2>2. AtAdded(ms)
    BY <1>2 DEF Creates
  <2> HIDE DEF ms
  <2>3. /\ up[l] /\ i = Len(Pending(l)) + 1
        /\ [type |-> "session.start", session |-> t] = [type |-> type, session |-> s]
    <3>1. PICK k \in DOMAIN ms : /\ up[l] /\ i = Len(Pending(l)) + k
                                 /\ ms[k] = [type |-> type, session |-> s]
      BY <2>2 DEF AtAdded
    <3>2. k = 1
      BY <2>1, <3>1
    <3> QED BY <2>1, <3>1, <3>2
  <2>4. t = s /\ type = "session.start"
    BY <2>3, Fields
  <2>5. i > Len(Pending(l))
    BY <2>3, Placed
  <2> QED BY <1>2, <2>3, <2>4, <2>5 DEF NewMessage
<1>3. ASSUME AtKept \/ AtCut PROVE Behind
  BY <1>3 DEF AtKept, AtCut
<1>4. ASSUME NEW t, NEW r, AtTaken(t, r) PROVE Along \/ Behind
  BY <1>4 DEF AtTaken
<1> HIDE DEF Along, Behind
<1>5. Along \/ Behind
  BY <1>1, <1>2, <1>3, <1>4
  DEF Move, Connects, Receives, Cuts, TakesStart, TakesStop, TakesCommand, Reports, Strays, GoesOn
<1> QED BY <1>5 DEF Along, Behind

\* What a move makes of the events under way on a link.
NewEvent(l, i, type, s) ==
    /\ l = link /\ i = Len(outbox[l]) + 1
    /\ \/ TakesStart(s) /\ type = "asr.error"
       \/ Reports(type, s)
       \/ Strays(s) /\ type = "asr.error"

\* All of them move up one place, the registry having taken the first; or they
\* stay where they were, and a new one comes last.
LEMMA EvWay ==
    ASSUME Move, Ranges, NEW l \in Links
    PROVE  \/ \A i \in Nat, type \in BridgeEvents, s \in Sessions :
                 Ev(l, i, type, s)' => 1 <= i /\ Ev(l, i + 1, type, s)
           \/ \A i \in Nat, type \in BridgeEvents, s \in Sessions :
                 Ev(l, i, type, s)' => Ev(l, i, type, s) \/ NewEvent(l, i, type, s)
<1> DEFINE Along == \A i \in Nat, type \in BridgeEvents, s \in Sessions :
                        Ev(l, i, type, s)' => 1 <= i /\ Ev(l, i + 1, type, s)
           Behind == \A i \in Nat, type \in BridgeEvents, s \in Sessions :
                         Ev(l, i, type, s)' => Ev(l, i, type, s) \/ NewEvent(l, i, type, s)
<1>1. ASSUME EvKept PROVE Behind
  BY <1>1 DEF EvKept
<1>2. ASSUME NEW m \in Links, NEW t, NEW r, EvTaken(m, t, r) PROVE Along \/ Behind
  BY <1>2 DEF EvTaken
<1>3. ASSUME NEW t, NEW r, EvSent(t, r), NEW i \in Nat, NEW type \in BridgeEvents,
             NEW s \in Sessions, Ev(l, i, type, s)', ~Ev(l, i, type, s)
      PROVE  l = link /\ i = Len(outbox[l]) + 1 /\ type = t /\ s = r
  BY <1>3 DEF EvSent
<1>4. ASSUME NEW t \in Sessions, TakesStart(t) PROVE Behind
  <2>1. CASE EvKept
    BY <1>1, <2>1
  <2>2. CASE EvSent("asr.error", t)
    BY <1>3, <1>4, <2>2 DEF NewEvent
  <2> QED BY <1>4, <2>1, <2>2 DEF TakesStart
<1>5. ASSUME NEW t \in Sessions, NEW r \in BridgeEvents, Reports(r, t) PROVE Behind
  <2>1. EvSent(r, t)
    BY <1>5 DEF Reports
  <2> QED BY <1>3, <1>5, <2>1 DEF NewEvent
<1>6. ASSUME NEW t \in Sessions, Strays(t) PROVE Behind
  <2>1. EvSent("asr.error", t)
    BY <1>6 DEF Strays
  <2> QED BY <1>3, <1>6, <2>1 DEF NewEvent
<1> HIDE DEF Along, Behind
<1>7. Along \/ Behind
  BY <1>1, <1>2, <1>4, <1>5, <1>6
  DEF Move, Releases, Creates, Connects, Receives, Cuts, TakesStop, TakesCommand, GoesOn
<1> QED BY <1>7 DEF Along, Behind

\* One of them at a time.
LEMMA AtStep ==
    ASSUME Move, Ranges, LinksAgree, NEW l \in Links, NEW i \in Nat, NEW type \in MessageTypes,
           NEW s \in Sessions, At(l, i, type, s)'
    PROVE  \/ At(l, i, type, s)
           \/ 1 <= i /\ At(l, i + 1, type, s)
           \/ NewMessage(l, i, type, s)
BY AtWay

\* One event at a time.
LEMMA EvStep ==
    ASSUME Move, Ranges, NEW l \in Links, NEW i \in Nat, NEW type \in BridgeEvents,
           NEW s \in Sessions, Ev(l, i, type, s)'
    PROVE  \/ Ev(l, i, type, s)
           \/ 1 <= i /\ Ev(l, i + 1, type, s)
           \/ NewEvent(l, i, type, s)
BY EvWay

\* A session whose start is under way has not been heard of on any link: what
\* came before this one was about others, and nothing comes after it.
LEMMA Unheard ==
    ASSUME SysInv, NEW l \in Links, NEW i \in Nat, NEW s \in Sessions,
           At(l, i, "session.start", s), NEW m \in Links, NEW j \in Nat, NEW type \in BridgeEvents
    PROVE  ~Ev(m, j, type, s)
<1>0. Ranges /\ LinksAgree
  BY InRange DEF SysInv
<1>1. l = link /\ startedOn[s] = l /\ (m = l => ~Ev(m, j, type, s))
  BY <1>0, AtIsHere DEF SysInv, Unstarted
<1>2. ASSUME Ev(m, j, type, s) PROVE m <= link
  <2>1. outbox[m] # <<>>
    BY <1>0, <1>2, Placed
  <2> QED BY <1>0, <2>1 DEF LinksAgree, Ranges, Links
<1>3. ASSUME Ev(m, j, type, s) PROVE startedOn[s] = m \/ startedOn[s] \in 0 .. m - 1
  BY <1>3 DEF SysInv, StartedHere
<1>4. m \in Nat /\ link \in Nat
  BY <1>0 DEF Ranges, Links
<1> QED BY <1>1, <1>2, <1>3, <1>4

\* A session whose start the bridge takes now has been started on this link and
\* not been heard of, and there is no second start of it.
LEMMA StartTaken ==
    ASSUME SysInv, NEW s \in Sessions, TakesStart(s)
    PROVE  /\ link \in Links /\ At(link, 1, "session.start", s)
           /\ startedOn[s] = link /\ ~Handled(s) /\ state[s] # "ready" /\ state[s] # "unallocated"
           /\ \A l \in Links, i \in Nat, type \in BridgeEvents : ~Ev(l, i, type, s)
           /\ \A l \in Links, i \in Nat : ~At(l, i, "session.start", s)'
<1>0. Ranges
  BY InRange DEF SysInv
<1>1. AtTaken("session.start", s)
  BY DEF TakesStart
<1>2. link \in Links /\ At(link, 1, "session.start", s)
  BY <1>1 DEF AtTaken
<1>3. PICK m \in Links : m = link /\ At(m, 1, "session.start", s)
  BY <1>2
<1>4. /\ startedOn[s] = m /\ ~Handled(s) /\ state[s] # "ready"
      /\ \A j \in Nat, type \in BridgeEvents : ~Ev(m, j, type, s)
  BY <1>3 DEF SysInv, Unstarted
<1>5. state[s] # "unallocated"
  BY <1>3 DEF SysInv, FreshIds, MessageTypes
<1>6. \A l \in Links, i \in Nat, type \in BridgeEvents : ~Ev(l, i, type, s)
  BY <1>3, Unheard
<1>7. ASSUME NEW l \in Links, NEW i \in Nat, At(l, i, "session.start", s)' PROVE FALSE
  <2>1. CASE l = link
    <3>1. 1 <= i /\ At(link, i + 1, "session.start", s)
      BY <1>1, <1>7, <2>1 DEF AtTaken, MessageTypes
    <3>2. i + 1 = 1
      <4>1. At(m, i + 1, "session.start", s) /\ i + 1 \in Nat
        BY <1>3, <3>1
      <4> QED BY <1>3, <4>1 DEF SysInv, StartsInOrder
    <3> QED BY <3>1, <3>2
  <2>2. CASE l # link
    <3>1. At(l, i, "session.start", s)
      BY <1>1, <1>7, <2>2 DEF AtTaken, MessageTypes
    <3> QED BY <2>2, <3>1, AtIsHere DEF SysInv
  <2> QED BY <2>1, <2>2
<1> QED BY <1>2, <1>3, <1>4, <1>5, <1>6, <1>7

\* A session that is not created stays unheard of.
LEMMA FreshIdsStep == ASSUME SysInv, Move PROVE FreshIds'
<1>0. Ranges /\ LinksAgree
  BY InRange DEF SysInv
<1> SUFFICES ASSUME NEW s \in Sessions, state'[s] = "unallocated"
             PROVE  /\ ~Handled(s)'
                    /\ \A l \in Links, i \in Nat :
                          /\ \A type \in MessageTypes : ~At(l, i, type, s)'
                          /\ \A type \in BridgeEvents : ~Ev(l, i, type, s)'
  BY DEF FreshIds
<1>1. state[s] = "unallocated" /\ ~Creates(s)
  <2>1. ASSUME state'[s] # state[s] PROVE FALSE
    BY <1>0, <2>1, StateStep DEF Creates, Ranges, Shown, BridgeEvents
  <2>2. ~Creates(s)
    BY <1>0 DEF Creates, Ranges
  <2> QED BY <2>1, <2>2
<1>2. /\ ~Handled(s)
      /\ \A l \in Links, i \in Nat :
            /\ \A type \in MessageTypes : ~At(l, i, type, s)
            /\ \A type \in BridgeEvents : ~Ev(l, i, type, s)
  BY <1>1 DEF SysInv, FreshIds
<1>3. ~TakesStart(s)
  BY <1>1, StartTaken
<1>4. ~Handled(s)'
  BY <1>2, <1>3, HandledStep
<1>5. ASSUME NEW l \in Links, NEW i \in Nat, NEW type \in MessageTypes PROVE ~At(l, i, type, s)'
  <2>1. i + 1 \in Nat
    OBVIOUS
  <2> QED BY <1>0, <1>1, <1>2, <2>1, AtStep DEF NewMessage
<1>6. ASSUME NEW l \in Links, NEW i \in Nat, NEW type \in BridgeEvents PROVE ~Ev(l, i, type, s)'
  <2>1. i + 1 \in Nat
    OBVIOUS
  <2>2. ~Reports(type, s) /\ ~Strays(s)
    BY <1>1, <1>2 DEF Reports, Strays, SysInv, StraysInPlace
  <2> QED BY <1>0, <1>2, <1>3, <2>1, <2>2, EvStep DEF NewEvent
<1> QED BY <1>4, <1>5, <1>6

\* Where a session was started is written once, when it is created.
LEMMA StartedOnStep ==
    ASSUME Move, Ranges, NEW s \in Sessions
    PROVE  /\ startedOn'[s] = startedOn[s] \/ (Creates(s) /\ startedOn'[s] = link)
           /\ link' = link \/ (link' = link + 1 /\ held' = {} /\ job' = App!Idle)
<1>1. ASSUME NEW t \in Sessions, Creates(t)
      PROVE  startedOn'[s] = startedOn[s] \/ (Creates(s) /\ startedOn'[s] = link)
  BY <1>1 DEF Creates, Ranges
<1>2. startedOn' = startedOn \/ \E t \in Sessions : Creates(t)
  BY DEF Move, Releases, Connects, Receives, Cuts, TakesStart, TakesStop, TakesCommand, Reports,
     Strays, GoesOn
<1>3. link' = link \/ (link' = link + 1 /\ held' = {} /\ job' = App!Idle)
  BY DEF Move, Releases, Creates, Connects, Receives, Cuts, TakesStart, TakesStop, TakesCommand,
     Reports, Strays, GoesOn, BridgeStill
<1> QED BY <1>1, <1>2, <1>3

\* What is held or reported was started on that connection.
LEMMA StartedHereStep == ASSUME SysInv, Move PROVE StartedHere'
<1>0. Ranges /\ LinksAgree
  BY InRange DEF SysInv
<1> SUFFICES ASSUME NEW s \in Sessions
             PROVE  /\ Handled(s)' => startedOn'[s] = link'
                    /\ \A l \in Links : startedOn'[s] = l => l <= link'
                    /\ \A l \in Links, i \in Nat, type \in BridgeEvents :
                          Ev(l, i, type, s)' =>
                             \/ startedOn'[s] = l
                             \/ type = "asr.error" /\ startedOn'[s] \in 0 .. l - 1
  BY DEF StartedHere
<1>1. ASSUME Creates(s)
      PROVE  /\ ~Handled(s)
             /\ \A l \in Links, i \in Nat, type \in BridgeEvents : ~Ev(l, i, type, s)
  <2>1. state[s] = "unallocated"
    BY <1>1 DEF Creates
  <2> QED BY <2>1 DEF SysInv, FreshIds
<1>2. ASSUME Handled(s)' PROVE startedOn'[s] = link'
  <2>1. CASE TakesStart(s)
    <3>1. startedOn[s] = link
      BY <2>1, StartTaken
    <3> QED BY <2>1, <3>1 DEF TakesStart
  <2>2. CASE Handled(s)
    <3>1. startedOn[s] = link
      BY <2>2 DEF SysInv, StartedHere
    <3>2. ~(held' = {} /\ job' = App!Idle)
      BY <1>2, Jobs DEF Handled
    <3> QED BY <1>0, <1>1, <2>2, <3>1, <3>2, StartedOnStep
  <2> QED BY <1>2, <2>1, <2>2, HandledStep
<1>3. ASSUME NEW l \in Links, startedOn'[s] = l PROVE l <= link'
  <2>1. l \in Nat /\ link \in Nat
    BY <1>0 DEF Ranges, Links
  <2>2. startedOn[s] = l \/ l = link
    BY <1>0, <1>3, StartedOnStep
  <2>3. l <= link
    BY <2>1, <2>2 DEF SysInv, StartedHere
  <2>4. link' = link \/ link' = link + 1
    BY <1>0, StartedOnStep
  <2> QED BY <2>1, <2>3, <2>4
<1>4. ASSUME NEW l \in Links, NEW i \in Nat, NEW type \in BridgeEvents, Ev(l, i, type, s)'
      PROVE  startedOn'[s] = l \/ (type = "asr.error" /\ startedOn'[s] \in 0 .. l - 1)
  <2>1. i + 1 \in Nat
    OBVIOUS
  <2>2. CASE Ev(l, i, type, s) \/ Ev(l, i + 1, type, s)
    <3>1. startedOn[s] = l \/ (type = "asr.error" /\ startedOn[s] \in 0 .. l - 1)
      BY <2>1, <2>2 DEF SysInv, StartedHere
    <3>2. ~Creates(s)
      BY <1>1, <2>1, <2>2
    <3> QED BY <1>0, <3>1, <3>2, StartedOnStep
  <2>3. CASE l = link /\ TakesStart(s)
    <3>1. startedOn[s] = link
      BY <2>3, StartTaken
    <3> QED BY <2>3, <3>1 DEF TakesStart
  <2>4. CASE l = link /\ Reports(type, s)
    <3>1. startedOn[s] = link
      BY <2>4 DEF Reports, SysInv, StartedHere
    <3> QED BY <2>4, <3>1 DEF Reports
  <2>5. CASE l = link /\ Strays(s) /\ type = "asr.error"
    <3>1. startedOn[s] \in 0 .. link /\ startedOn[s] # l /\ startedOn' = startedOn
      BY <2>5 DEF Strays, SysInv, StraysInPlace
    <3>2. link \in Nat
      BY <1>0 DEF Ranges
    <3> QED BY <2>5, <3>1, <3>2
  <2> QED BY <1>0, <1>4, <2>2, <2>3, <2>4, <2>5, EvStep DEF NewEvent
<1> QED BY <1>2, <1>3, <1>4

\* A session whose start is under way stays unheard of.
LEMMA UnstartedStep == ASSUME SysInv, Move PROVE Unstarted'
<1>0. Ranges /\ LinksAgree
  BY InRange DEF SysInv
<1> SUFFICES ASSUME NEW l \in Links, NEW i \in Nat, NEW s \in Sessions,
                    At(l, i, "session.start", s)'
             PROVE  /\ startedOn'[s] = l /\ ~Handled(s)' /\ state'[s] # "ready"
                    /\ \A j \in Nat, type \in BridgeEvents : ~Ev(l, j, type, s)'
  BY DEF Unstarted
<1>1. ~TakesStart(s)
  BY StartTaken
<1>2. /\ ~Handled(s) /\ state[s] # "ready" /\ startedOn'[s] = l
      /\ \A m \in Links, j \in Nat, type \in BridgeEvents : ~Ev(m, j, type, s)
  <2>1. CASE At(l, i, "session.start", s) \/ At(l, i + 1, "session.start", s)
    <3>1. i + 1 \in Nat
      OBVIOUS
    <3>2. /\ startedOn[s] = l /\ ~Handled(s) /\ state[s] # "ready"
          /\ \A j \in Nat, type \in BridgeEvents : ~Ev(l, j, type, s)
      BY <2>1, <3>1 DEF SysInv, Unstarted
    <3>3. \A m \in Links, j \in Nat, type \in BridgeEvents : ~Ev(m, j, type, s)
      BY <2>1, <3>1, Unheard
    <3>4. ~Creates(s)
      <4>1. state[s] # "unallocated"
        BY <2>1, <3>1 DEF SysInv, FreshIds, MessageTypes
      <4> QED BY <4>1 DEF Creates
    <3> QED BY <1>0, <3>2, <3>3, <3>4, StartedOnStep
  <2>2. CASE Creates(s) /\ up[l]
    <3>1. state[s] = "unallocated" /\ startedOn'[s] = link
      BY <1>0, <2>2 DEF Creates, Ranges
    <3>2. l = link
      BY <2>2 DEF SysInv, LinksAgree
    <3> QED BY <3>1, <3>2 DEF SysInv, FreshIds
  <2> QED BY <1>0, <2>1, <2>2, AtStep DEF MessageTypes, NewMessage
<1>3. ~Handled(s)'
  BY <1>1, <1>2, HandledStep
<1>4. state'[s] # "ready"
  <2>1. ASSUME state'[s] = "ready" PROVE FALSE
    <3>1. state'[s] # state[s]
      BY <1>2, <2>1
    <3>2. PICK m \in Links, type \in BridgeEvents : Receives(m, type, s)
      BY <1>0, <2>1, <3>1, StateStep DEF Creates, Ranges
    <3>3. Ev(m, 1, type, s)
      BY <3>2 DEF Receives, EvTaken
    <3> QED BY <1>2, <3>3
  <2> QED BY <2>1
<1>5. ASSUME NEW j \in Nat, NEW type \in BridgeEvents PROVE ~Ev(l, j, type, s)'
  <2>1. j + 1 \in Nat /\ ~Reports(type, s)
    BY <1>2 DEF Reports
  <2>2. ~Strays(s)
    <3>1. CASE At(l, i, "session.start", s) \/ At(l, i + 1, "session.start", s)
      <4>1. i + 1 \in Nat
        OBVIOUS
      <4> QED BY <3>1, <4>1 DEF Strays, SysInv, StraysInPlace
    <3>2. CASE Creates(s)
      BY <3>2 DEF Creates, Strays, SysInv, StraysInPlace
    <3> QED BY <1>0, <3>1, <3>2, AtStep DEF MessageTypes, NewMessage
  <2> QED BY <1>0, <1>1, <1>2, <2>1, <2>2, EvStep DEF NewEvent
<1> QED BY <1>2, <1>3, <1>4, <1>5

\* What a stop() left behind belongs to a connection that is gone, and its
\* session is not started again.
LEMMA StraysStep ==
    ASSUME SysInv, Move, [SysNext]_sysVars, NEW s \in stray'
    PROVE  /\ ~Handled(s)' /\ state'[s] # "unallocated"
           /\ startedOn'[s] \in 0 .. link'
           /\ \A l \in Links : up'[l] => startedOn'[s] # l
           /\ \A l \in Links, i \in Nat : ~At(l, i, "session.start", s)'
<1>0. Ranges /\ LinksAgree /\ link \in Nat
  BY InRange DEF SysInv, Ranges
<1>1. s \in stray \/ (s \in Sessions /\ App!StopRaises(s) /\ ~App!Die /\ UNCHANGED vars)
  <2>1. CASE Bridge
    <3>1. CASE App!HandleMessage
      BY <2>1, <3>1
      DEF Bridge, App!HandleMessage, App!HandleStart, App!Replaced, App!Started, App!StartFailed,
          App!StartFailedUnreported, App!Aborted, App!HandleStop, App!Stopped,
          App!HandleCommand, App!Commanded, App!StopRaises, App!StopHangs, App!Die, App!sweepVars
    <3>2. CASE ~App!HandleMessage
      BY <2>1, <3>2
      DEF Bridge, App!AppStep, App!Run, App!Lose, App!ClearOne, App!ClearedOne, App!Reconnect,
          App!End, App!Die, App!AsrFailed, App!WorkerDies, App!StrayFails, App!Crash,
          App!Restart, App!LinkDown, App!sweepVars
    <3> QED BY <3>1, <3>2
  <2>2. CASE Wire
    BY <2>2 DEF Wire, Connected, Send, Receive, Break, App!Connect, App!Deliver, App!Take,
       App!sweepVars
  <2>3. CASE Server \/ UNCHANGED sysVars
    BY <2>3 DEF Server, sysVars, appVars
  <2> QED BY <2>1, <2>2, <2>3 DEF SysNext
\* Left behind before.
<1>2. CASE s \in stray
  <2>1. /\ s \in Sessions /\ ~Handled(s) /\ state[s] # "unallocated"
        /\ startedOn[s] \in 0 .. link
        /\ \A l \in Links : up[l] => startedOn[s] # l
        /\ \A l \in Links, i \in Nat : ~At(l, i, "session.start", s)
    BY <1>0, <1>2 DEF SysInv, StraysInPlace, Ranges
  <2>2. ~TakesStart(s) /\ ~Creates(s)
    BY <2>1, StartTaken DEF Creates
  <2>3. ~Handled(s)'
    BY <2>1, <2>2, HandledStep
  <2>4. state'[s] # "unallocated"
    BY <1>0, <2>1, <2>2, StateStep DEF Shown, BridgeEvents
  <2>5. startedOn'[s] = startedOn[s] /\ (link' = link \/ link' = link + 1)
    BY <1>0, <2>1, <2>2, StartedOnStep
  <2>6. startedOn'[s] \in 0 .. link'
    BY <1>0, <2>1, <2>5
  <2>7. ASSUME NEW l \in Links, up'[l] PROVE startedOn'[s] # l
    <3>1. up[l] \/ l = link + 1
      BY <2>7 DEF Move, Releases, Creates, Connects, Receives, Cuts, AtCut, TakesStart, TakesStop,
         TakesCommand, Reports, Strays, GoesOn, BridgeStill
    <3> QED BY <1>0, <2>1, <2>5, <3>1
  <2>8. ASSUME NEW l \in Links, NEW i \in Nat PROVE ~At(l, i, "session.start", s)'
    <3>1. i + 1 \in Nat
      OBVIOUS
    <3> QED BY <1>0, <2>1, <2>2, <3>1, AtStep DEF MessageTypes, NewMessage
  <2> QED BY <2>3, <2>4, <2>6, <2>7, <2>8
\* Left behind now.
<1>3. CASE s \in Sessions /\ App!StopRaises(s) /\ ~App!Die /\ UNCHANGED vars
  <2>1. /\ job.session = s /\ s \in failed /\ job' = App!Idle /\ held' = held
        /\ UNCHANGED <<up, link, inbox>>
        /\ job.step \in {"stopping", "replacing", "clearing"}
    BY <1>3 DEF App!StopRaises
  <2>2. s \notin held /\ \A l \in Links : ~up[l]
    BY <2>1 DEF SysInv, JobInPlace
  <2>3. ~Handled(s)'
    BY <1>3, <2>1, <2>2, Jobs DEF Handled
  <2>4. Handled(s)
    BY <2>1 DEF Handled
  <2>5. UNCHANGED <<state, startedOn, toBridge>>
    BY <1>3 DEF vars, sessionVars, bridgeVars
  <2>6. state[s] # "unallocated"
    BY <1>3, <2>4 DEF SysInv, FreshIds
  <2>7. startedOn[s] = link
    BY <1>3, <2>4 DEF SysInv, StartedHere
  <2>8. startedOn'[s] \in 0 .. link'
    BY <1>0, <2>1, <2>5, <2>7
  <2>9. ASSUME NEW l \in Links, NEW i \in Nat PROVE ~At(l, i, "session.start", s)'
    <3>1. ~At(l, i, "session.start", s)
      BY <1>3, <2>4 DEF SysInv, Unstarted
    <3>2. AtKept
      BY <2>1, <2>5, QuietWire
    <3> QED BY <1>3, <3>1, <3>2 DEF AtKept, MessageTypes
  <2> QED BY <2>1, <2>2, <2>3, <2>5, <2>6, <2>8, <2>9
<1> QED BY <1>1, <1>2, <1>3

\* Starts stay single, and before the stops.
LEMMA StartsInOrderStep == ASSUME SysInv, Move PROVE StartsInOrder'
<1>0. Ranges /\ LinksAgree
  BY InRange DEF SysInv
<1> SUFFICES ASSUME NEW l \in Links, NEW i \in Nat, NEW j \in Nat, NEW s \in Sessions,
                    At(l, i, "session.start", s)'
             PROVE  /\ At(l, j, "session.start", s)' => i = j
                    /\ At(l, j, "session.stop", s)' => i < j
  BY DEF StartsInOrder
<1> DEFINE Start(k) == At(l, k, "session.start", s)
           Stop(k) == At(l, k, "session.stop", s)
           StartNext(k) == At(l, k, "session.start", s)'
           StopNext(k) == At(l, k, "session.stop", s)'
<1>1. \A k, n \in Nat : Start(k) => (Start(n) => k = n) /\ (Stop(n) => k < n)
  BY DEF SysInv, StartsInOrder
<1>2. \A k \in Nat : Creates(s) => ~Start(k) /\ ~Stop(k) /\ state[s] = "unallocated"
  BY DEF SysInv, FreshIds, MessageTypes, Creates
<1>3. \A k \in Nat : Start(k) => k <= Len(Pending(l)) /\ Len(Pending(l)) \in Nat
  BY <1>0, Placed
<1>4. \/ \A k \in Nat : (StartNext(k) => Start(k + 1)) /\ (StopNext(k) => Stop(k + 1))
      \/ \A k \in Nat :
            /\ StartNext(k) => Start(k) \/ (Creates(s) /\ k = Len(Pending(l)) + 1)
            /\ StopNext(k) => Stop(k) \/ (state[s] # "unallocated" /\ k > Len(Pending(l)))
  BY <1>0, AtWay DEF NewMessage, MessageTypes
<1>5. StartNext(i)
  OBVIOUS
<1> HIDE DEF Start, Stop, StartNext, StopNext
<1>6. CASE \A k \in Nat : (StartNext(k) => Start(k + 1)) /\ (StopNext(k) => Stop(k + 1))
  <2>1. i + 1 \in Nat /\ j + 1 \in Nat /\ Start(i + 1)
    BY <1>5, <1>6
  <2>2. StartNext(j) => i + 1 = j + 1
    BY <1>1, <1>6, <2>1
  <2>3. StopNext(j) => i + 1 < j + 1
    BY <1>1, <1>6, <2>1
  <2>4. (StartNext(j) => i = j) /\ (StopNext(j) => i < j)
    BY <2>2, <2>3
  <2> QED BY <2>4 DEF StartNext, StopNext
<1>7. CASE \A k \in Nat :
              /\ StartNext(k) => Start(k) \/ (Creates(s) /\ k = Len(Pending(l)) + 1)
              /\ StopNext(k) => Stop(k) \/ (state[s] # "unallocated" /\ k > Len(Pending(l)))
  <2>1. CASE Creates(s)
    <3>1. i = Len(Pending(l)) + 1
      BY <1>2, <1>5, <1>7, <2>1
    <3>2. (StartNext(j) => i = j) /\ ~StopNext(j)
      BY <1>2, <1>7, <2>1, <3>1
    <3> QED BY <3>2 DEF StartNext, StopNext
  <2>2. CASE ~Creates(s)
    <3>1. Start(i) /\ i <= Len(Pending(l)) /\ Len(Pending(l)) \in Nat
      BY <1>3, <1>5, <1>7, <2>2
    <3>2. StartNext(j) => i = j
      BY <1>1, <1>7, <2>2, <3>1
    <3>3. StopNext(j) => i < j
      BY <1>1, <1>7, <3>1
    <3> QED BY <3>2, <3>3 DEF StartNext, StopNext
  <2> QED BY <2>1, <2>2
<1> QED BY <1>4, <1>6, <1>7

\* What was reported closed stays so.
LEMMA ClosedQuietStep == ASSUME SysInv, Move PROVE ClosedQuiet'
<1>0. Ranges /\ LinksAgree
  BY InRange DEF SysInv
<1> SUFFICES ASSUME NEW l \in Links, NEW i \in Nat, NEW s \in Sessions,
                    Ev(l, i, "session.closed", s)',
                    NEW j \in Nat, NEW type \in BridgeEvents
             PROVE  /\ ~Handled(s)'
                    /\ i < j => ~Ev(l, j, type, s)'
  BY DEF ClosedQuiet, BridgeEvents
<1> DEFINE Closed(k) == Ev(l, k, "session.closed", s)
           Other(k) == Ev(l, k, type, s)
           ClosedNext(k) == Ev(l, k, "session.closed", s)'
           OtherNext(k) == Ev(l, k, type, s)'
           New(k) == NewEvent(l, k, type, s)
           NewClosed(k) == NewEvent(l, k, "session.closed", s)
<1>1. \A k, n \in Nat : Closed(k) => ~Handled(s) /\ (k < n => ~Other(n))
  BY DEF SysInv, ClosedQuiet
<1>2. \A k \in Nat : Closed(k) => ~TakesStart(s) /\ \A n \in Nat : ~New(n)
  <2>1. ASSUME NEW k \in Nat, Closed(k) PROVE ~TakesStart(s) /\ \A n \in Nat : ~New(n)
    <3>1. ~TakesStart(s) /\ ~Reports(type, s)
      BY <1>1, <2>1, StartTaken DEF Reports, BridgeEvents
    <3>2. startedOn[s] = l
      BY <2>1 DEF SysInv, StartedHere, BridgeEvents
    <3>3. ~(l = link /\ Strays(s))
      BY <3>2 DEF Strays, SysInv, StraysInPlace
    <3> QED BY <3>1, <3>3 DEF NewEvent
  <2> QED BY <2>1
<1>3. \A k \in Nat : NewClosed(k) => k = Len(outbox[l]) + 1 /\ ~Handled(s)'
  <2>1. ASSUME Reports("session.closed", s) PROVE ~Handled(s)'
    BY <2>1, Jobs DEF Reports, Handled
  <2> QED BY <2>1 DEF NewEvent
<1>4. \/ \A k \in Nat : (ClosedNext(k) => Closed(k + 1)) /\ (OtherNext(k) => Other(k + 1))
      \/ \A k \in Nat : /\ ClosedNext(k) => Closed(k) \/ NewClosed(k)
                        /\ OtherNext(k) => Other(k) \/ New(k)
  BY <1>0, EvWay DEF BridgeEvents
<1>5. \A k \in Nat : /\ Other(k) => k <= Len(outbox[l])
                     /\ New(k) => k = Len(outbox[l]) + 1
  BY <1>0, Placed DEF NewEvent
<1>6. ClosedNext(i) /\ Len(outbox[l]) \in Nat
  BY <1>0, Placed
<1> HIDE DEF Closed, Other, ClosedNext, OtherNext, New, NewClosed
<1>7. ASSUME NEW k \in Nat, Closed(k) PROVE ~Handled(s)'
  BY <1>1, <1>2, <1>7, HandledStep
<1>8. CASE \A k \in Nat : (ClosedNext(k) => Closed(k + 1)) /\ (OtherNext(k) => Other(k + 1))
  <2>1. i + 1 \in Nat /\ j + 1 \in Nat /\ Closed(i + 1)
    BY <1>6, <1>8
  <2>2. i < j => i + 1 < j + 1
    OBVIOUS
  <2>3. i < j => ~OtherNext(j)
    BY <1>1, <1>8, <2>1, <2>2
  <2> QED BY <1>7, <2>1, <2>3 DEF OtherNext
<1>9. CASE \A k \in Nat : /\ ClosedNext(k) => Closed(k) \/ NewClosed(k)
                          /\ OtherNext(k) => Other(k) \/ New(k)
  <2>1. CASE Closed(i)
    <3>1. i < j => ~OtherNext(j)
      BY <1>1, <1>2, <1>9, <2>1
    <3> QED BY <1>7, <2>1, <3>1 DEF OtherNext
  <2>2. CASE NewClosed(i)
    <3>1. i = Len(outbox[l]) + 1 /\ ~Handled(s)'
      BY <1>3, <2>2
    <3>2. OtherNext(j) => j <= i
      BY <1>5, <1>6, <1>9, <3>1
    <3>3. i < j => ~OtherNext(j)
      BY <3>2
    <3> QED BY <3>1, <3>3 DEF OtherNext
  <2> QED BY <1>6, <1>9, <2>1, <2>2
<1> QED BY <1>4, <1>8, <1>9

\* The stop of an orphan is never lost: it comes after the start, whose place it keeps.
LEMMA OrphansStep == ASSUME SysInv, Move, LinksAgree' PROVE OrphansAccounted'
<1>0. Ranges /\ LinksAgree
  BY InRange DEF SysInv
<1> SUFFICES ASSUME NEW l \in Links, up'[l], NEW s \in Sessions, s \notin Active',
                    s \in held' \/ \E i \in Nat : At(l, i, "session.start", s)'
             PROVE  \E j \in Nat : At(l, j, "session.stop", s)'
  BY DEF OrphansAccounted
<1> DEFINE Start(k) == At(l, k, "session.start", s)
           Stop(k) == At(l, k, "session.stop", s)
           StartNext(k) == At(l, k, "session.start", s)'
           StopNext(k) == At(l, k, "session.stop", s)'
           Begun == s \in held \/ \E k \in Nat : Start(k)
           BegunNext == s \in held' \/ \E k \in Nat : StartNext(k)
           Ending == \E k \in Nat : Stop(k)
           EndingNext == \E k \in Nat : StopNext(k)
<1>1. up[l] /\ s \notin Active => (Begun => Ending)
  BY DEF SysInv, OrphansAccounted
<1>2. up[l] => l = link
  BY <1>0 DEF LinksAgree
<1>3. BegunNext
  OBVIOUS
<1>4. ASSUME AtKept PROVE \A k \in Nat : (StartNext(k) => Start(k)) /\ (Stop(k) => StopNext(k))
  BY <1>4 DEF AtKept, MessageTypes
<1>5. ASSUME NEW t, NEW r, AtTaken(t, r), l = link, ~(t = "session.stop" /\ r = s)
      PROVE  /\ \A k \in Nat : StartNext(k) => Start(k + 1) /\ 1 <= k
             /\ Ending => EndingNext
  <2>1. \A k \in Nat : StartNext(k) => Start(k + 1) /\ 1 <= k
    BY <1>5 DEF AtTaken, MessageTypes
  <2>2. ASSUME NEW k \in Nat, Stop(k) PROVE EndingNext
    <3>1. k # 1
      BY <1>5, <2>2, Positions DEF AtTaken
    <3>2. 1 <= k
      BY <1>0, <2>2, Placed
    <3>3. k - 1 \in Nat /\ 1 <= k - 1 /\ (k - 1) + 1 = k
      BY <3>1, <3>2
    <3>4. Stop((k - 1) + 1)
      BY <2>2, <3>3
    <3>5. StopNext(k - 1)
      BY <1>5, <3>3, <3>4 DEF AtTaken, MessageTypes
    <3> QED BY <3>3, <3>5
  <2> QED BY <2>1, <2>2
<1>6. Active' = Active => s \notin Active
  OBVIOUS
<1>7. state' = state => Active' = Active
  BY DEF Active
\* Nothing of this session is begun, and its stop stays where it is.
<1>8. ASSUME up[l], s \notin Active, BegunNext => Begun, Ending => EndingNext PROVE EndingNext
  BY <1>1, <1>3, <1>8
<1> HIDE DEF Begun, BegunNext, Ending, EndingNext
<1>9. ASSUME NEW ms \in Seq(Messages), Releases(ms) PROVE EndingNext
  <2>1. up[l] /\ held' = held /\ AtAdded(ms)
    BY <1>9 DEF Releases, BridgeStill
  <2>2. CASE s \in Active
    <3>1. Alive
      BY <2>1 DEF Alive
    <3>2. PICK k \in DOMAIN ms : ms[k] = [type |-> "session.stop", session |-> s]
      BY <1>9, <2>2, <3>1 DEF Releases, StopFor
    <3>3. Len(Pending(l)) \in Nat /\ k \in Nat
      BY <1>0, Placed
    <3>4. PICK i \in Nat : i = Len(Pending(l)) + k
      BY <3>3
    <3>5. StopNext(i)
      BY <2>1, <3>2, <3>4 DEF AtAdded, MessageTypes
    <3> QED BY <3>5 DEF EndingNext
  <2>3. CASE s \notin Active
    <3>1. \A k \in Nat : Stop(k) => StopNext(k)
      BY <2>1 DEF AtAdded, MessageTypes
    <3>2. ASSUME NEW k \in Nat, StartNext(k) PROVE Start(k)
      <4>1. ASSUME ~Start(k) PROVE FALSE
        <5>1. PICK n \in DOMAIN ms : ms[n] = [type |-> "session.start", session |-> s]
          BY <2>1, <3>2, <4>1 DEF AtAdded, MessageTypes
        <5>2. ms[n].session = s /\ ms[n].type = "session.start"
          BY <5>1
        <5> QED BY <1>9, <5>2 DEF Releases
      <4> QED BY <4>1
    <3> QED BY <1>8, <2>1, <2>3, <3>1, <3>2 DEF Begun, BegunNext, Ending, EndingNext
  <2> QED BY <2>2, <2>3
<1>10. ASSUME NEW t \in Sessions, Creates(t) PROVE EndingNext
  <2>1. up[l] /\ held' = held /\ AtAdded(<<StartFor(t)>>)
    BY <1>10 DEF Creates, BridgeStill
  <2>2. s # t /\ s \notin Active
    BY <1>0, <1>10 DEF Creates, Active, ActiveStates, Ranges
  <2>3. \A k \in Nat : Stop(k) => StopNext(k)
    BY <2>1 DEF AtAdded, MessageTypes
  <2>4. ASSUME NEW k \in Nat, StartNext(k) PROVE Start(k)
    <3> DEFINE ms == <<StartFor(t)>>
    <3>1. DOMAIN ms = {1} /\ ms[1] = [type |-> "session.start", session |-> t] /\ AtAdded(ms)
      BY <2>1 DEF StartFor
    <3> HIDE DEF ms
    <3>2. ASSUME ~Start(k) PROVE FALSE
      <4>1. PICK n \in DOMAIN ms : ms[n] = [type |-> "session.start", session |-> s]
        BY <2>4, <3>1, <3>2 DEF AtAdded, MessageTypes
      <4>2. n = 1
        BY <3>1, <4>1
      <4>3. [type |-> "session.start", session |-> t] = [type |-> "session.start", session |-> s]
        BY <3>1, <4>1, <4>2
      <4> QED BY <2>2, <4>3, Fields
    <3> QED BY <3>2
  <2> QED BY <1>8, <2>1, <2>2, <2>3, <2>4 DEF Begun, BegunNext, Ending, EndingNext
<1>11. ~\E m \in Links : Connects(m)
  <2>1. ASSUME NEW m \in Links, Connects(m) PROVE FALSE
    <3>1. held' = {} /\ \A k \in Nat : ~StartNext(k)
      BY <2>1 DEF Connects, AtKept, MessageTypes
    <3> QED BY <1>3, <3>1 DEF BegunNext
  <2> QED BY <2>1
<1>12. ASSUME NEW m \in Links, NEW type \in BridgeEvents, NEW t \in Sessions, Receives(m, type, t)
       PROVE  EndingNext
  <2>1. up[l] /\ held' = held /\ AtKept /\ Ev(m, 1, type, t)
    BY <1>12 DEF Receives, BridgeStill, EvTaken
  <2>2. BegunNext => Begun
    BY <1>4, <2>1 DEF Begun, BegunNext
  <2>3. Ending => EndingNext
    BY <1>4, <2>1 DEF Ending, EndingNext
  <2>4. s \notin Active
    <3>1. ASSUME s \in Active PROVE FALSE
      <4>1. state'[s] # state[s]
        BY <3>1 DEF Active
      <4>2. t = s /\ t \in Known /\ state'[s] = Shown(type)
        BY <1>0, <1>12, <4>1 DEF Receives, Ranges
      <4>3. type = "session.closed"
        BY <4>2 DEF Shown, Active, ActiveStates, BridgeEvents
      <4>4. Ev(m, 1, "session.closed", s)
        BY <2>1, <4>2, <4>3
      <4>5. ~Handled(s) /\ startedOn[s] = m
        BY <4>4 DEF SysInv, ClosedQuiet, StartedHere, BridgeEvents
      <4>6. ASSUME NEW k \in Nat, Start(k) PROVE FALSE
        <5>1. startedOn[s] = l /\ \A n \in Nat, e \in BridgeEvents : ~Ev(l, n, e, s)
          BY <4>6 DEF SysInv, Unstarted
        <5> QED BY <4>4, <4>5, <5>1 DEF BridgeEvents
      <4>7. ~Begun
        BY <4>5, <4>6 DEF Begun, Handled
      <4> QED BY <1>3, <2>2, <4>7
    <3> QED BY <3>1
  <2> QED BY <1>8, <2>1, <2>2, <2>3, <2>4
<1>13. ~Cuts
  BY DEF Cuts, AtCut
<1>14. ASSUME NEW t \in Sessions, TakesStart(t) PROVE EndingNext
  <2>1. /\ up[l] /\ s \notin Active /\ AtTaken("session.start", t) /\ l = link
        /\ held' \subseteq held \cup {t}
    BY <1>2, <1>6, <1>7, <1>14 DEF TakesStart
  <2>2. Ending => EndingNext
    BY <1>5, <2>1
  <2>3. BegunNext => Begun
    <3>1. At(l, 1, "session.start", t)
      BY <2>1 DEF AtTaken
    <3>2. \A k \in Nat : StartNext(k) => k + 1 \in Nat /\ Start(k + 1)
      BY <1>5, <2>1
    <3> QED BY <2>1, <3>1, <3>2 DEF Begun, BegunNext
  <2> QED BY <1>8, <2>1, <2>2, <2>3
<1>15. ASSUME NEW t \in Sessions, TakesCommand(t) PROVE EndingNext
  <2>1. up[l] /\ s \notin Active /\ AtTaken("command", t) /\ l = link /\ held' = held
    BY <1>2, <1>6, <1>7, <1>15 DEF TakesCommand
  <2>2. Ending => EndingNext
    BY <1>5, <2>1
  <2>3. BegunNext => Begun
    <3>1. \A k \in Nat : StartNext(k) => k + 1 \in Nat /\ Start(k + 1)
      BY <1>5, <2>1
    <3> QED BY <2>1, <3>1 DEF Begun, BegunNext
  <2> QED BY <1>8, <2>1, <2>2, <2>3
<1>16. ASSUME NEW t \in Sessions, TakesStop(t) PROVE EndingNext
  <2>1. up[l] /\ s \notin Active /\ AtTaken("session.stop", t) /\ l = link /\ held' = held \ {t}
    BY <1>2, <1>6, <1>7, <1>16 DEF TakesStop
  <2>2. CASE t # s
    <3>1. Ending => EndingNext
      BY <1>5, <2>1, <2>2
    <3>2. BegunNext => Begun
      <4>1. \A k \in Nat : StartNext(k) => k + 1 \in Nat /\ Start(k + 1)
        BY <1>5, <2>1, <2>2
      <4> QED BY <2>1, <4>1 DEF Begun, BegunNext
    <3> QED BY <1>8, <2>1, <3>1, <3>2
  <2>3. CASE t = s
    <3>1. ASSUME NEW k \in Nat, StartNext(k) PROVE FALSE
      <4>1. 1 <= k /\ Start(k + 1) /\ k + 1 \in Nat
        BY <2>1, <3>1 DEF AtTaken, MessageTypes
      <4>2. Stop(1)
        BY <2>1, <2>3 DEF AtTaken
      <4>3. k + 1 < 1
        BY <4>1, <4>2 DEF SysInv, StartsInOrder
      <4> QED BY <4>3
    <3> QED BY <1>3, <2>1, <2>3, <3>1 DEF BegunNext
  <2> QED BY <2>2, <2>3
<1>17. ASSUME \/ GoesOn
              \/ \E t \in Sessions : Strays(t) \/ \E type \in BridgeEvents : Reports(type, t)
       PROVE  EndingNext
  <2>1. up[l] /\ s \notin Active /\ AtKept /\ held' \subseteq held
    BY <1>6, <1>7, <1>17 DEF GoesOn, Reports, Strays
  <2>2. BegunNext => Begun
    BY <1>4, <2>1 DEF Begun, BegunNext
  <2>3. Ending => EndingNext
    BY <1>4, <2>1 DEF Ending, EndingNext
  <2> QED BY <1>8, <2>1, <2>2, <2>3
<1>18. EndingNext
  BY <1>9, <1>10, <1>11, <1>12, <1>13, <1>14, <1>15, <1>16, <1>17 DEF Move
<1> QED BY <1>18 DEF EndingNext

\* The sessions in the way of a start can be counted.
LEMMA AheadFinite ==
    ASSUME NEW l, NEW i, NEW S \in SUBSET Sessions, Ahead(l, i)' \subseteq S
    PROVE  /\ IsFiniteSet(S) /\ Cardinality(S) \in Nat
           /\ Cardinality(Ahead(l, i)') \in Nat /\ Cardinality(Ahead(l, i)') <= Cardinality(S)
<1>1. IsFiniteSet(S)
  BY FS_Subset, SessionsAssumption
<1> DEFINE A == Ahead(l, i)'
<1>2. A \subseteq S
  OBVIOUS
<1> HIDE DEF A
<1>3. IsFiniteSet(A) /\ Cardinality(A) <= Cardinality(S)
  BY <1>1, <1>2, FS_Subset
<1> QED BY <1>1, <1>3, FS_CardinalityType DEF A

\* There is still room for every session under way: those in the way of a new start
\* are active or about to be stopped, and HasRoom counted the active ones.
LEMMA RoomStep == ASSUME SysInv, Move PROVE RoomKept'
<1>0. Ranges /\ LinksAgree
  BY InRange DEF SysInv
<1> SUFFICES ASSUME NEW l \in Links, NEW i \in Nat, NEW s \in Sessions,
                    At(l, i, "session.start", s)'
             PROVE  Cardinality(Ahead(l, i)') < SessionCapacity
  BY DEF RoomKept
\* The sessions in the way of a start were so before.
<1>1. ASSUME NEW k \in Nat, At(l, k, "session.start", s), Ahead(l, i)' \subseteq Ahead(l, k)
      PROVE  Cardinality(Ahead(l, i)') < SessionCapacity
  <2>1. Cardinality(Ahead(l, k)) < SessionCapacity
    BY <1>1 DEF SysInv, RoomKept
  <2>2. Ahead(l, k) \in SUBSET Sessions
    BY DEF Ahead
  <2> DEFINE a == Cardinality(Ahead(l, i)')
             b == Cardinality(Ahead(l, k))
  <2>3. a \in Nat /\ b \in Nat /\ a <= b
    BY <1>1, <2>2, AheadFinite
  <2>4. b < SessionCapacity
    BY <2>1
  <2> HIDE DEF a, b
  <2>5. a < SessionCapacity
    BY <2>3, <2>4, NumbersAssumption
  <2> QED BY <2>5 DEF a
\* Nothing that comes before a start changes.
<1>2. ASSUME At(l, i, "session.start", s), held' \subseteq held,
             \A k \in Nat, t \in Sessions : k < i =>
                /\ At(l, k, "session.start", t)' => At(l, k, "session.start", t)
                /\ At(l, k, "session.stop", t) => At(l, k, "session.stop", t)'
      PROVE  Cardinality(Ahead(l, i)') < SessionCapacity
  <2>1. Ahead(l, i)' \subseteq Ahead(l, i)
    BY <1>2 DEF Ahead
  <2> QED BY <1>1, <1>2, <2>1
<1>3. ASSUME AtKept, held' \subseteq held PROVE Cardinality(Ahead(l, i)') < SessionCapacity
  BY <1>2, <1>3 DEF AtKept, MessageTypes
<1>4. CASE Cuts
  <2>1. AtCut /\ held' \subseteq held
    BY <1>4 DEF Cuts
  <2> QED BY <1>2, <2>1 DEF AtCut, MessageTypes
\* What is told comes last.
<1>5. ASSUME NEW ms \in Seq(Messages), AtAdded(ms), NEW k \in Nat, NEW type \in MessageTypes,
             NEW t \in Sessions, At(l, k, type, t)', ~At(l, k, type, t)
      PROVE  \E n \in DOMAIN ms : /\ up[l] /\ k = Len(Pending(l)) + n /\ k > Len(Pending(l))
                                  /\ ms[n] = [type |-> type, session |-> t]
  <2>1. PICK n \in DOMAIN ms : /\ up[l] /\ k = Len(Pending(l)) + n
                               /\ ms[n] = [type |-> type, session |-> t]
    <3> DEFINE Told == /\ up[l]
                       /\ \E n \in DOMAIN ms : /\ k = Len(Pending(l)) + n
                                               /\ ms[n] = [type |-> type, session |-> t]
    <3>1. At(l, k, type, t)' => At(l, k, type, t) \/ Told
      BY <1>5, ZenonT(40) DEF AtAdded
    <3> QED BY <1>5, <3>1, Zenon
  <2>2. n \in Nat /\ n >= 1
    OBVIOUS
  <2>3. Len(Pending(l)) \in Nat
    BY <1>0, Placed
  <2> QED BY <2>1, <2>2, <2>3
<1>6. ASSUME NEW ms \in Seq(Messages), AtAdded(ms), held' = held, At(l, i, "session.start", s)
      PROVE  Cardinality(Ahead(l, i)') < SessionCapacity
  <2>1. i <= Len(Pending(l)) /\ Len(Pending(l)) \in Nat
    BY <1>0, <1>6, Placed
  <2>2. ASSUME NEW k \in Nat, NEW t \in Sessions, k < i
        PROVE  /\ At(l, k, "session.start", t)' => At(l, k, "session.start", t)
               /\ At(l, k, "session.stop", t) => At(l, k, "session.stop", t)'
    <3>1. ~(k > Len(Pending(l)))
      BY <2>1, <2>2
    <3>2. At(l, k, "session.start", t)' => At(l, k, "session.start", t)
      BY <1>5, <1>6, <3>1 DEF MessageTypes
    <3>3. At(l, k, "session.stop", t) => At(l, k, "session.stop", t)'
      BY <1>6 DEF AtAdded, MessageTypes
    <3> QED BY <3>2, <3>3
  <2> QED BY <1>2, <1>6, <2>2
<1>7. ASSUME NEW ms \in Seq(Messages), Releases(ms)
      PROVE  Cardinality(Ahead(l, i)') < SessionCapacity
  <2>1. AtAdded(ms) /\ held' = held
    BY <1>7 DEF Releases, BridgeStill
  <2>2. At(l, i, "session.start", s)
    <3>1. ASSUME ~At(l, i, "session.start", s) PROVE FALSE
      <4>1. PICK n \in DOMAIN ms : ms[n] = [type |-> "session.start", session |-> s]
        BY <1>5, <2>1, <3>1 DEF MessageTypes
      <4>2. ms[n].session = s /\ ms[n].type = "session.start"
        BY <4>1
      <4> QED BY <1>7, <4>2 DEF Releases
    <3> QED BY <3>1
  <2> QED BY <1>6, <2>1, <2>2
<1>8. ASSUME NEW t \in Sessions, Creates(t) PROVE Cardinality(Ahead(l, i)') < SessionCapacity
  <2> DEFINE ms == <<StartFor(t)>>
  <2>1. AtAdded(ms) /\ held' = held /\ Cardinality(Active) < SessionCapacity
    BY <1>8 DEF Creates, BridgeStill
  <2>2. StartFor(t) \in Messages /\ DOMAIN ms = {1} /\ ms[1] = StartFor(t)
    BY DEF StartFor, Messages
  <2>3. ms \in Seq(Messages)
    BY <2>2
  <2> HIDE DEF ms
  <2>4. CASE At(l, i, "session.start", s)
    BY <1>6, <2>1, <2>3, <2>4
  <2>5. CASE ~At(l, i, "session.start", s)
    <3>1. up[l] /\ i = Len(Pending(l)) + 1 /\ Len(Pending(l)) \in Nat
      <4>1. PICK n \in DOMAIN ms : up[l] /\ i = Len(Pending(l)) + n
        BY <1>5, <2>1, <2>3, <2>5 DEF MessageTypes
      <4> QED BY <1>0, <2>2, <4>1, Placed
    <3>2. Ahead(l, i)' \subseteq Active
      <4> SUFFICES ASSUME NEW r \in Ahead(l, i)', r \notin Active PROVE FALSE
        OBVIOUS
      <4>1. /\ r \in Sessions
            /\ r \in held' \/ \E j \in Nat : j < i /\ At(l, j, "session.start", r)'
            /\ \A k \in Nat : k < i => ~At(l, k, "session.stop", r)'
        BY DEF Ahead
      <4>2. ASSUME NEW j \in Nat, j < i, At(l, j, "session.start", r)'
            PROVE  At(l, j, "session.start", r)
        <5>1. ~(j > Len(Pending(l)))
          BY <3>1, <4>2
        <5> QED BY <1>5, <2>1, <2>3, <4>1, <4>2, <5>1 DEF MessageTypes
      <4>3. r \in held \/ \E j \in Nat : At(l, j, "session.start", r)
        BY <2>1, <4>1, <4>2
      <4>4. PICK k \in Nat : At(l, k, "session.stop", r)
        BY <3>1, <4>1, <4>3 DEF SysInv, OrphansAccounted
      <4>5. k < i
        <5>1. k <= Len(Pending(l))
          BY <1>0, <4>4, Placed
        <5> QED BY <3>1, <5>1
      <4>6. At(l, k, "session.stop", r)'
        BY <2>1, <4>1, <4>4 DEF AtAdded, MessageTypes
      <4> QED BY <4>1, <4>5, <4>6
    <3>3. Active \in SUBSET Sessions
      BY DEF Active
    <3> DEFINE a == Cardinality(Ahead(l, i)')
               b == Cardinality(Active)
    <3>4. a \in Nat /\ b \in Nat /\ a <= b
      BY <3>2, <3>3, AheadFinite
    <3>5. b < SessionCapacity
      BY <2>1
    <3> HIDE DEF a, b
    <3>6. a < SessionCapacity
      BY <3>4, <3>5, NumbersAssumption
    <3> QED BY <3>6 DEF a
  <2> QED BY <2>4, <2>5
<1>9. ~\E m \in Links : Connects(m)
  BY DEF Connects, AtKept, MessageTypes
\* The bridge takes the first message: the next start comes one place earlier.
<1>10. ASSUME NEW type, NEW t, AtTaken(type, t),
              \A r \in Sessions : r \in held' =>
                 r \in held \/ At(link, 1, "session.start", r),
              \A r \in Sessions : At(link, 1, "session.stop", r) =>
                 r \notin held' /\ type = "session.stop"
       PROVE  Cardinality(Ahead(l, i)') < SessionCapacity
  <2>1. l = link
    <3>1. l # link => At(l, i, "session.start", s)
      BY <1>10 DEF AtTaken, MessageTypes
    <3> QED BY <1>0, <3>1, AtIsHere
  <2>2. \A k \in Nat, e \in MessageTypes, r \in Sessions :
            At(l, k, e, r)' <=> 1 <= k /\ At(l, k + 1, e, r)
    BY <1>10, <2>1 DEF AtTaken
  <2>3. At(l, i + 1, "session.start", s) /\ 1 <= i /\ i + 1 \in Nat
    BY <2>2 DEF MessageTypes
  <2>4. Ahead(l, i)' \subseteq Ahead(l, i + 1)
    <3> SUFFICES ASSUME NEW r \in Ahead(l, i)' PROVE r \in Ahead(l, i + 1)
      OBVIOUS
    <3>1. /\ r \in Sessions
          /\ r \in held' \/ \E j \in Nat : j < i /\ At(l, j, "session.start", r)'
          /\ \A k \in Nat : k < i => ~At(l, k, "session.stop", r)'
      BY DEF Ahead
    <3>2. r \in held \/ \E j \in Nat : j < i + 1 /\ At(l, j, "session.start", r)
      <4>1. CASE r \in held'
        <5>1. 1 < i + 1 /\ 1 \in Nat
          BY <2>3
        <5> QED BY <1>10, <2>1, <3>1, <4>1, <5>1
      <4>2. ASSUME NEW j \in Nat, j < i, At(l, j, "session.start", r)'
            PROVE  \E k \in Nat : k < i + 1 /\ At(l, k, "session.start", r)
        <5>1. At(l, j + 1, "session.start", r)
          BY <2>2, <3>1, <4>2 DEF MessageTypes
        <5>2. j + 1 \in Nat /\ j + 1 < i + 1
          BY <4>2
        <5> QED BY <5>1, <5>2
      <4> QED BY <3>1, <4>1, <4>2
    <3>3. ASSUME NEW k \in Nat, k < i + 1, At(l, k, "session.stop", r) PROVE FALSE
      <4>1. CASE k = 1
        <5>1. r \notin held'
          BY <1>10, <2>1, <3>1, <3>3, <4>1
        <5>2. PICK j \in Nat : j < i /\ At(l, j, "session.start", r)'
          BY <3>1, <5>1
        <5>3. 1 <= j /\ At(l, j + 1, "session.start", r) /\ j + 1 \in Nat
          BY <2>2, <3>1, <5>2 DEF MessageTypes
        <5>4. j + 1 < 1
          BY <3>1, <3>3, <4>1, <5>3 DEF SysInv, StartsInOrder
        <5> QED BY <5>3, <5>4
      <4>2. CASE k # 1
        <5>1. 1 <= k
          BY <1>0, <3>3, Placed
        <5>2. k - 1 \in Nat /\ 1 <= k - 1 /\ (k - 1) + 1 = k /\ k - 1 < i
          BY <3>3, <4>2, <5>1
        <5>3. At(l, (k - 1) + 1, "session.stop", r)
          BY <3>3, <5>2
        <5>4. At(l, k - 1, "session.stop", r)'
          BY <2>2, <3>1, <5>2, <5>3 DEF MessageTypes
        <5> QED BY <3>1, <5>2, <5>4
      <4> QED BY <4>1, <4>2
    <3> QED BY <3>1, <3>2, <3>3 DEF Ahead
  <2> QED BY <1>1, <2>3, <2>4
<1>11. ASSUME NEW t \in Sessions, TakesStart(t) PROVE Cardinality(Ahead(l, i)') < SessionCapacity
  <2>1. AtTaken("session.start", t) /\ held' \subseteq held \cup {t}
    BY <1>11 DEF TakesStart
  <2>2. At(link, 1, "session.start", t)
    BY <2>1 DEF AtTaken
  <2>3. \A r : ~At(link, 1, "session.stop", r)
    BY <2>2, Positions
  <2> QED BY <1>10, <2>1, <2>2, <2>3
<1>12. ASSUME NEW t \in Sessions, TakesStop(t) PROVE Cardinality(Ahead(l, i)') < SessionCapacity
  <2>1. AtTaken("session.stop", t) /\ held' = held \ {t}
    BY <1>12 DEF TakesStop
  <2>2. At(link, 1, "session.stop", t)
    BY <2>1 DEF AtTaken
  <2>3. \A r : At(link, 1, "session.stop", r) => r = t
    BY <2>2, Positions
  <2> QED BY <1>10, <2>1, <2>3
<1>13. ASSUME NEW t \in Sessions, TakesCommand(t) PROVE Cardinality(Ahead(l, i)') < SessionCapacity
  <2>1. AtTaken("command", t) /\ held' = held
    BY <1>13 DEF TakesCommand
  <2>2. At(link, 1, "command", t)
    BY <2>1 DEF AtTaken
  <2>3. \A r : ~At(link, 1, "session.stop", r)
    BY <2>2, Positions
  <2> QED BY <1>10, <2>1, <2>3
<1>14. CASE \/ GoesOn
            \/ \E t \in Sessions : Strays(t) \/ \E type \in BridgeEvents : Reports(type, t)
            \/ \E m \in Links, type \in BridgeEvents, t \in Sessions : Receives(m, type, t)
  <2>1. AtKept /\ held' \subseteq held
    BY <1>14 DEF GoesOn, Reports, Strays, Receives, BridgeStill
  <2> QED BY <1>3, <2>1
<1> QED
  BY <1>4, <1>7, <1>8, <1>9, <1>11, <1>12, <1>13, <1>14 DEF Move

\* A session that is ready, or reported so, stays accounted for.
LEMMA ReadyStep == ASSUME SysInv, Move, LinksAgree' PROVE ReadyAccounted'
<1>0. Ranges /\ LinksAgree
  BY InRange DEF SysInv
<1> SUFFICES ASSUME NEW l \in Links, up'[l], NEW s \in Sessions
             PROVE  /\ state'[s] = "ready" /\ startedOn'[s] = l =>
                          Running(s)' \/ \E i \in Nat : Ev(l, i, "session.closed", s)'
                    /\ \A i \in Nat : Ev(l, i, "session.ready", s)' =>
                          Running(s)' \/ \E j \in Nat : i < j /\ Ev(l, j, "session.closed", s)'
                    /\ job' = App!Busy("starting", s) =>
                          state'[s] # "ready" /\ \A i \in Nat : ~Ev(l, i, "session.ready", s)'
  BY DEF ReadyAccounted
<1> DEFINE Ready(k) == Ev(l, k, "session.ready", s)
           Closed(k) == Ev(l, k, "session.closed", s)
           ReadyNext(k) == Ev(l, k, "session.ready", s)'
           ClosedNext(k) == Ev(l, k, "session.closed", s)'
           Run == Running(s)
           RunNext == Running(s)'
           Starting == job = App!Busy("starting", s)
           StartingNext == job' = App!Busy("starting", s)
           Goal == /\ state'[s] = "ready" /\ startedOn'[s] = l =>
                         RunNext \/ \E i \in Nat : ClosedNext(i)
                   /\ \A i \in Nat : ReadyNext(i) =>
                         RunNext \/ \E j \in Nat : i < j /\ ClosedNext(j)
                   /\ StartingNext => state'[s] # "ready" /\ \A i \in Nat : ~ReadyNext(i)
<1>1. up[l] =>
        /\ state[s] = "ready" /\ startedOn[s] = l => Run \/ \E i \in Nat : Closed(i)
        /\ \A i \in Nat : Ready(i) => Run \/ \E j \in Nat : i < j /\ Closed(j)
        /\ Starting => state[s] # "ready" /\ \A i \in Nat : ~Ready(i)
  BY DEF SysInv, ReadyAccounted
<1>2. up[l] => l = link
  BY <1>0 DEF LinksAgree
<1>3. Run <=> s \in held \/ job = App!Busy("stopping", s)
  BY DEF Running
<1>4. RunNext <=> s \in held' \/ job' = App!Busy("stopping", s)
  BY DEF Running
<1>5. \A k \in Nat : (Ready(k) \/ Closed(k)) => 1 <= k /\ k <= Len(outbox[l])
  BY <1>0, Placed
<1>6. EvKept => \A k \in Nat : (Closed(k) <=> ClosedNext(k)) /\ (ReadyNext(k) <=> Ready(k))
  BY DEF EvKept, BridgeEvents
<1>7. ASSUME NEW type, NEW t, EvSent(type, t)
      PROVE  /\ \A k \in Nat : /\ Closed(k) => ClosedNext(k)
                               /\ ReadyNext(k) => Ready(k) \/ (type = "session.ready" /\ t = s)
             /\ up[l] /\ type = "session.closed" /\ t = s /\ l = link =>
                   \A k \in Nat : k = Len(outbox[l]) + 1 => ClosedNext(k)
  BY <1>7 DEF EvSent, BridgeEvents
<1>8. Starting => Handled(s)
  BY Jobs DEF Handled
<1>9. Len(outbox[l]) \in Nat
  BY <1>0, Placed
<1> HIDE DEF Ready, Closed, ReadyNext, ClosedNext, Run, RunNext
\* Nothing becomes of a session that was not before.
<1>10. ASSUME up[l], Run => RunNext, StartingNext => Starting,
              \A k \in Nat : (Closed(k) => ClosedNext(k)) /\ (ReadyNext(k) => Ready(k)),
              state'[s] = "ready" => state[s] = "ready" /\ startedOn'[s] = startedOn[s]
       PROVE  Goal
  BY <1>1, <1>10
<1>11. ASSUME NEW ms \in Seq(Messages), Releases(ms) PROVE Goal
  <2>1. /\ UNCHANGED <<up, held, job>> /\ EvKept /\ startedOn' = startedOn
        /\ state'[s] = "ready" => state[s] = "ready"
    BY <1>11 DEF Releases, BridgeStill
  <2> QED BY <1>3, <1>4, <1>6, <1>10, <2>1
<1>12. ASSUME NEW t \in Sessions, Creates(t) PROVE Goal
  <2>1. /\ UNCHANGED <<up, held, job>> /\ EvKept
        /\ state'[s] = "ready" => state[s] = "ready" /\ startedOn'[s] = startedOn[s]
    BY <1>0, <1>12 DEF Creates, BridgeStill, Ranges
  <2> QED BY <1>3, <1>4, <1>6, <1>10, <2>1
<1>13. ASSUME NEW m \in Links, Connects(m) PROVE Goal
  <2>1. /\ l = m /\ m = link + 1 /\ job' = App!Idle /\ startedOn' = startedOn /\ EvKept
        /\ \A i \in Nat : ~Ready(i)
    BY <1>13 DEF Connects, Ready, BridgeEvents
  <2>2. startedOn[s] # l
    <3>1. ASSUME startedOn[s] = l PROVE FALSE
      <4>1. l <= link
        BY <3>1 DEF SysInv, StartedHere
      <4> QED BY <1>0, <2>1, <4>1 DEF Ranges
    <3> QED BY <3>1
  <2>3. ~StartingNext
    BY <2>1, Jobs
  <2> QED BY <1>6, <2>1, <2>2, <2>3
<1>14. ASSUME NEW m \in Links, NEW type \in BridgeEvents, NEW t \in Sessions, Receives(m, type, t)
       PROVE  Goal
  <2>1. UNCHANGED <<up, held, job>> /\ EvTaken(m, type, t) /\ startedOn' = startedOn /\ up[l]
    BY <1>14 DEF Receives, BridgeStill
  <2>2. (Run <=> RunNext) /\ (StartingNext <=> Starting)
    BY <1>3, <1>4, <2>1
  <2>3. \/ state'[s] = state[s] /\ ~(t = s /\ s \in Known)
        \/ t = s /\ s \in Known /\ state'[s] = Shown(type)
    BY <1>0, <1>14 DEF Receives, Ranges
  <2>4. CASE m # l
    <3>1. \A k \in Nat : (Closed(k) => ClosedNext(k)) /\ (ReadyNext(k) => Ready(k))
      BY <2>1, <2>4 DEF EvTaken, BridgeEvents, Closed, ClosedNext, Ready, ReadyNext
    <3>2. Ev(m, 1, type, t)
      BY <2>1 DEF EvTaken
    <3>3. startedOn[t] # l
      <4>1. startedOn[t] = m \/ startedOn[t] \in 0 .. m - 1
        BY <3>2 DEF SysInv, StartedHere
      <4>2. outbox[m] # <<>>
        BY <1>0, <3>2, Placed
      <4>3. m <= link /\ m \in Nat /\ l = link
        BY <1>0, <1>2, <2>1, <4>2 DEF LinksAgree, Ranges, Links
      <4> QED BY <2>4, <4>1, <4>3
    <3>4. CASE t # s
      BY <1>10, <2>1, <2>2, <2>3, <3>1, <3>4
    <3>5. CASE t = s
      <4>1. startedOn'[s] # l /\ ~Starting
        <5>1. Starting => startedOn[s] = link
          BY <1>8 DEF SysInv, StartedHere
        <5> QED BY <1>2, <2>1, <2>4, <3>3, <3>5, <5>1
      <4> QED BY <1>1, <2>1, <2>2, <3>1, <4>1
    <3> QED BY <3>4, <3>5
  <2>5. CASE m = l
    <3>1. \A k \in Nat : (ClosedNext(k) <=> 1 <= k /\ Closed(k + 1))
                         /\ (ReadyNext(k) <=> 1 <= k /\ Ready(k + 1))
      BY <2>1, <2>5 DEF EvTaken, BridgeEvents, Closed, ClosedNext, Ready, ReadyNext
    <3>2. Ev(l, 1, type, t)
      BY <2>1, <2>5 DEF EvTaken
    <3>3. ASSUME NEW k \in Nat, Closed(k), k # 1
          PROVE  k - 1 \in Nat /\ ClosedNext(k - 1)
      <4>1. 1 <= k
        BY <1>5, <3>3
      <4>2. k - 1 \in Nat /\ 1 <= k - 1 /\ (k - 1) + 1 = k
        BY <3>3, <4>1
      <4> QED BY <3>1, <3>3, <4>2
    <3>4. ASSUME NEW i \in Nat, ReadyNext(i)
          PROVE  RunNext \/ \E j \in Nat : i < j /\ ClosedNext(j)
      <4>1. 1 <= i /\ i + 1 \in Nat /\ Ready(i + 1)
        BY <3>1, <3>4
      <4>2. ASSUME NEW k \in Nat, i + 1 < k, Closed(k)
            PROVE  \E j \in Nat : i < j /\ ClosedNext(j)
        <5>1. k # 1 /\ i < k - 1
          BY <4>1, <4>2
        <5>2. k - 1 \in Nat /\ ClosedNext(k - 1)
          BY <3>3, <4>2, <5>1
        <5> QED BY <5>1, <5>2
      <4> QED BY <1>1, <2>1, <2>2, <4>1, <4>2
    <3>5. ASSUME state'[s] = "ready", startedOn'[s] = l
          PROVE  RunNext \/ \E i \in Nat : ClosedNext(i)
      <4>1. CASE t = s /\ s \in Known
        <5>1. type = "session.ready"
          BY <2>3, <3>5, <4>1 DEF Shown, BridgeEvents
        <5>2. Ready(1)
          BY <3>2, <4>1, <5>1 DEF Ready
        <5>3. ASSUME NEW k \in Nat, 1 < k, Closed(k) PROVE \E i \in Nat : ClosedNext(i)
          <6>1. k # 1
            BY <5>3
          <6> QED BY <3>3, <5>3, <6>1
        <5> QED BY <1>1, <2>1, <2>2, <5>2, <5>3
      <4>2. CASE ~(t = s /\ s \in Known)
        <5>1. state[s] = "ready" /\ startedOn[s] = l
          BY <2>1, <2>3, <3>5, <4>2
        <5>2. s \in Known
          BY <5>1 DEF Known, Active, ActiveStates
        <5>3. ~Closed(1)
          <6>1. t # s
            BY <4>2, <5>2
          <6> QED BY <3>2, <6>1, Positions DEF Closed
        <5> QED BY <1>1, <2>1, <2>2, <3>3, <5>1, <5>3
      <4> QED BY <4>1, <4>2
    <3>6. ASSUME StartingNext PROVE state'[s] # "ready" /\ \A i \in Nat : ~ReadyNext(i)
      <4>1. state[s] # "ready" /\ \A i \in Nat : ~Ready(i)
        BY <1>1, <2>1, <2>2, <3>6
      <4>2. ASSUME state'[s] = "ready" PROVE FALSE
        <5>1. t = s /\ type = "session.ready"
          BY <2>3, <4>1, <4>2 DEF Shown, BridgeEvents
        <5> QED BY <3>2, <4>1, <5>1 DEF Ready
      <4>3. \A i \in Nat : i + 1 \in Nat
        OBVIOUS
      <4> QED BY <3>1, <4>1, <4>2, <4>3
    <3> QED BY <3>4, <3>5, <3>6
  <2> QED BY <2>4, <2>5
<1>15. ~Cuts
  BY DEF Cuts, AtCut
<1>16. ASSUME NEW t \in Sessions, TakesStart(t) PROVE Goal
  <2>1. /\ UNCHANGED <<link, up, state, startedOn>> /\ up[l] /\ job = App!Idle
        /\ held \subseteq held'
        /\ \/ job' = App!Busy("starting", t) /\ EvKept
           \/ job' = App!Idle /\ EvSent("asr.error", t)
    BY <1>16 DEF TakesStart
  <2>2. Run => RunNext
    BY <1>3, <1>4, <2>1, Jobs
  <2>3. \A k \in Nat : (Closed(k) => ClosedNext(k)) /\ (ReadyNext(k) => Ready(k))
    BY <1>6, <1>7, <2>1
  <2>4. ASSUME StartingNext PROVE state'[s] # "ready" /\ \A i \in Nat : ~ReadyNext(i)
    <3>1. t = s
      BY <2>1, <2>4, Jobs
    <3>2. state[s] # "ready" /\ \A i \in Nat : ~Ready(i)
      BY <1>16, <3>1, StartTaken DEF Ready, BridgeEvents
    <3> QED BY <2>1, <2>3, <3>2
  <2> QED BY <1>1, <2>1, <2>2, <2>3, <2>4
<1>17. ASSUME NEW t \in Sessions, TakesStop(t) \/ TakesCommand(t) PROVE Goal
  <2>1. UNCHANGED <<link, up, state, startedOn>> /\ up[l] /\ job = App!Idle /\ EvKept
    BY <1>17 DEF TakesStop, TakesCommand
  <2>2. Run => RunNext
    <3>1. Run => s \in held
      BY <1>3, <2>1, Jobs
    <3>2. s \in held => s \in held' \/ job' = App!Busy("stopping", s)
      BY <1>17 DEF TakesStop, TakesCommand
    <3> QED BY <1>4, <3>1, <3>2
  <2>3. ~StartingNext
    BY <1>17, Jobs DEF TakesStop, TakesCommand
  <2> QED BY <1>6, <1>10, <2>1, <2>2, <2>3
<1>18. ASSUME NEW t \in Sessions, NEW type \in BridgeEvents, Reports(type, t) PROVE Goal
  <2>1. UNCHANGED <<link, up, state, startedOn>> /\ up[l] /\ EvSent(type, t)
    BY <1>18 DEF Reports
  <2>2. \A k \in Nat : /\ Closed(k) => ClosedNext(k)
                       /\ ReadyNext(k) => Ready(k) \/ (type = "session.ready" /\ t = s)
    BY <1>7, <2>1
  <2>3. CASE type = "session.ready" /\ job = App!Busy("starting", t) /\ t \in held /\ held' = held
             /\ job' = App!Idle
    <3>1. Run => RunNext
      BY <1>3, <1>4, <2>3, Jobs
    <3>2. t = s => RunNext
      BY <1>4, <2>3
    <3>3. ~StartingNext
      BY <2>3, Jobs
    <3> QED BY <1>1, <2>1, <2>2, <3>1, <3>2, <3>3
  <2>4. CASE type = "asr.error" /\ job = App!Busy("starting", t) /\ held' = held \ {t}
             /\ job' = App!Busy("aborting", t)
    <3>1. ~StartingNext
      BY <2>4, Jobs
    <3>2. CASE t = s
      <4>1. state[s] # "ready" /\ \A i \in Nat : ~Ready(i)
        BY <1>1, <2>1, <2>4, <3>2
      <4> QED BY <2>1, <2>2, <2>4, <3>1, <4>1
    <3>3. CASE t # s
      <4>1. Run => RunNext
        BY <1>3, <1>4, <2>4, <3>3, Jobs
      <4> QED BY <1>10, <2>1, <2>2, <3>1, <3>3, <4>1
    <3> QED BY <3>2, <3>3
  <2>5. CASE type = "asr.error" /\ held' = held /\ job' = job
    <3>1. (Run <=> RunNext) /\ (StartingNext <=> Starting)
      BY <1>3, <1>4, <2>5
    <3> QED BY <1>10, <2>1, <2>2, <2>5, <3>1
  <2>6. CASE type = "session.closed" /\ job = App!Busy("stopping", t) /\ held' = held
             /\ job' = App!Idle
    <3>1. ~StartingNext
      BY <2>6, Jobs
    <3>2. CASE t = s
      <4>1. PICK n \in Nat : n = Len(outbox[l]) + 1
        BY <1>9
      <4>2. ClosedNext(n)
        BY <1>2, <1>7, <2>1, <2>6, <3>2, <4>1
      <4>3. \A i \in Nat : ReadyNext(i) => i < n
        <5>1. \A i \in Nat : ReadyNext(i) => i <= Len(outbox[l])
          BY <1>5, <2>2, <2>6
        <5> QED BY <1>9, <4>1, <5>1
      <4> QED BY <3>1, <4>2, <4>3
    <3>3. CASE t # s
      <4>1. Run => RunNext
        BY <1>3, <1>4, <2>6, <3>3, Jobs
      <4> QED BY <1>10, <2>1, <2>2, <3>1, <3>3, <4>1
    <3> QED BY <3>2, <3>3
  <2> QED BY <1>18, <2>3, <2>4, <2>5, <2>6 DEF Reports
<1>19. ASSUME GoesOn PROVE Goal
  <2>1. UNCHANGED <<link, up, state, startedOn>> /\ up[l] /\ EvKept
    BY <1>19 DEF GoesOn
  <2>2. Alive
    BY <2>1 DEF Alive
  <2>3. held' = held /\ (job' = job \/ (job' = App!Idle /\ job.step # "stopping"))
    BY <1>19, <2>2 DEF GoesOn
  <2>4. Run => RunNext
    BY <1>3, <1>4, <2>3, Jobs
  <2>5. StartingNext => Starting
    BY <2>3, Jobs
  <2>6. \A k \in Nat : (Closed(k) => ClosedNext(k)) /\ (ReadyNext(k) => Ready(k))
    BY <1>6, <2>1
  <2>7. state'[s] = "ready" => state[s] = "ready" /\ startedOn'[s] = startedOn[s]
    BY <2>1
  <2> QED BY <1>10, <2>1, <2>4, <2>5, <2>6, <2>7
<1>20. ASSUME NEW t \in Sessions, Strays(t) PROVE Goal
  <2>1. UNCHANGED <<link, up, state, startedOn, held, job>> /\ up[l] /\ EvSent("asr.error", t)
    BY <1>20 DEF Strays
  <2>2. \A k \in Nat : (Closed(k) => ClosedNext(k)) /\ (ReadyNext(k) => Ready(k))
    BY <1>7, <2>1
  <2>3. (Run <=> RunNext) /\ (StartingNext <=> Starting)
    BY <1>3, <1>4, <2>1
  <2> QED BY <1>10, <2>1, <2>2, <2>3
<1> HIDE DEF Goal
<1>21. \/ \E ms \in Seq(Messages) : Releases(ms)
       \/ \E t \in Sessions : Creates(t) \/ TakesStart(t) \/ TakesStop(t) \/ TakesCommand(t)
       \/ \E t \in Sessions, type \in BridgeEvents : Reports(type, t)
       \/ \E t \in Sessions : Strays(t)
       \/ \E m \in Links : Connects(m)
       \/ \E m \in Links, type \in BridgeEvents, t \in Sessions : Receives(m, type, t)
       \/ Cuts \/ GoesOn
  BY DEF Move
<1>22. Goal
  BY <1>11, <1>12, <1>13, <1>14, <1>15, <1>16, <1>17, <1>18, <1>19, <1>20, <1>21
<1> QED BY <1>22 DEF Goal, Ready, Closed, ReadyNext, ClosedNext, Run, RunNext

-----------------------------------------------------------------------------
(* What follows.                                                           *)

\* Nothing is under way in the beginning.
LEMMA SysInvInit == SysInit => SysInv
<1> SUFFICES ASSUME SysInit PROVE SysInv
  OBVIOUS
<1>1. App!AppInit /\ Init
  BY DEF SysInit
<1>2. IndInv
  BY <1>1, IndInvInit
<1>3. App!AppTypeOK /\ Facts!SweepInPlace
  BY <1>1, LinksAssumption
  DEF App!AppInit, App!AppTypeOK, Facts!SweepInPlace, App!Idle, Facts!Idle, App!Links, Links
<1>4. /\ held = {} /\ failed = {} /\ stray = {} /\ job = App!Idle /\ link = 0 /\ phase = "connecting"
      /\ bridge = None
      /\ \A l \in Links : /\ ~up[l] /\ inbox[l] = <<>> /\ outbox[l] = <<>> /\ toBridge[l] = <<>>
                          /\ linkTask[l] = "unused" /\ l > 0
      /\ \A s \in Sessions : startedOn[s] = None
  BY <1>1 DEF Init, App!AppInit, App!Links, Links
<1>5. \A l \in Links : /\ \A i, type, s : ~At(l, i, type, s)
                       /\ \A i, type, s : ~Ev(l, i, type, s)
  <2>1. \A l \in Links : Pending(l) = <<>> /\ outbox[l] = <<>>
    BY <1>4 DEF Pending
  <2>2. DOMAIN <<>> = {}
    OBVIOUS
  <2> QED BY <2>1, <2>2 DEF At, Ev
<1>6. \A s \in Sessions : ~Handled(s)
  BY <1>4, Jobs DEF Handled
<1>7. LinksAgree
  BY <1>4 DEF LinksAgree
<1>8. JobInPlace
  BY <1>4, Jobs DEF JobInPlace
<1>9. FreshIds /\ Unstarted /\ StartsInOrder /\ ClosedQuiet /\ RoomKept
  BY <1>5, <1>6 DEF FreshIds, Unstarted, StartsInOrder, ClosedQuiet, RoomKept, MessageTypes
<1>10. StartedHere /\ StraysInPlace
  BY <1>4, <1>5, <1>6, LinksAssumption DEF StartedHere, StraysInPlace
<1>11. OrphansAccounted /\ ReadyAccounted
  BY <1>4 DEF OrphansAccounted, ReadyAccounted
<1> QED BY <1>2, <1>3, <1>7, <1>8, <1>9, <1>10, <1>11 DEF SysInv, Parts

\* Every step keeps all of it.
LEMMA SysInvStep == SysInv /\ [SysNext]_sysVars => SysInv'
<1> SUFFICES ASSUME SysInv, [SysNext]_sysVars PROVE SysInv'
  OBVIOUS
<1>1. Parts'
  BY PartsStep DEF SysInv
<1>2. LinksAgree' /\ JobInPlace'
  BY LinksStep, JobStep DEF SysInv
<1>3. Move
  BY EveryMove
<1>4. FreshIds' /\ StartedHere' /\ Unstarted' /\ StartsInOrder' /\ ClosedQuiet'
  BY <1>3, FreshIdsStep, StartedHereStep, UnstartedStep, StartsInOrderStep, ClosedQuietStep
<1>5. OrphansAccounted' /\ RoomKept' /\ ReadyAccounted'
  BY <1>2, <1>3, OrphansStep, RoomStep, ReadyStep
<1>6. StraysInPlace'
  BY <1>3, StraysStep DEF StraysInPlace
<1> QED BY <1>1, <1>2, <1>4, <1>5, <1>6 DEF SysInv

\* What is under way between the registry and the bridge always accounts for
\* every difference between the two.
THEOREM SysInvCorrect == SysSpec => []SysInv
<1> QED BY SysInvInit, SysInvStep, PTL DEF SysSpec

\* The control plane that is joined to the real bridge is still the one that
\* any bridge may drive: whatever is proved of ControlPlane holds here.
THEOREM RegistryIsImplemented == SysSpec => Spec
<1>1. SysInit => Init
  BY DEF SysInit
<1>2. SysInv /\ [SysNext]_sysVars => [Next]_vars
  BY RegistryStep DEF SysInv, Parts
<1> QED BY <1>1, <1>2, SysInvCorrect, PTL DEF SysSpec, Spec

\* handle(): once a session is reported closed nothing more is reported about
\* it, so that no late failure revives it in handle_bridge_event.
THEOREM ClosedStaysQuiet == SysSpec => []QuietAfterClosed
<1>1. SysInv => QuietAfterClosed
  <2> SUFFICES ASSUME SysInv, NEW l \in Links, NEW s \in Sessions,
                      NEW i \in 1 .. Len(outbox[l]), NEW j \in 1 .. Len(outbox[l]),
                      i < j, outbox[l][i] = [type |-> "session.closed", session |-> s],
                      outbox[l][j].session = s
               PROVE  FALSE
    BY DEF QuietAfterClosed
  <2> DEFINE p == outbox[l]
  <2>1. p \in Seq(App!AppEvents)
    BY InRange DEF SysInv, Ranges
  <2> HIDE DEF p
  <2>2. DOMAIN p = 1 .. Len(p) /\ Len(p) \in Nat
    BY <2>1
  <2>3. i \in Nat /\ j \in Nat /\ i \in DOMAIN p /\ j \in DOMAIN p
    BY <2>2 DEF p
  <2>4. p[j] \in App!AppEvents
    BY <2>1, <2>3
  <2>5. PICK type \in BridgeEvents : p[j] = [type |-> type, session |-> s]
    BY <2>4 DEF App!AppEvents, BridgeEvents, p
  <2>6. Ev(l, i, "session.closed", s) /\ Ev(l, j, type, s)
    BY <2>3, <2>5 DEF Ev, p
  <2> QED BY <2>3, <2>6 DEF SysInv, ClosedQuiet
<1> QED BY <1>1, SysInvCorrect, PTL

\* What is pending on a link is in its channel or has arrived.
LEMMA PendingIsUnderWay ==
    ASSUME Ranges, NEW i \in Nat, NEW type, NEW s, link \in Links, At(link, i, type, s)
    PROVE  LET m == [type |-> type, session |-> s] IN OnTheWay(m) \/ Arrived(m)
<1> DEFINE m == [type |-> type, session |-> s]
<1>1. PICK l \in Links : l = link
  OBVIOUS
<1> DEFINE a == inbox[l]
           b == toBridge[l]
           c == a \o b
<1>2. a \in Seq(Messages) /\ b \in Seq(Messages)
  BY DEF Ranges
<1>3. \/ i \in DOMAIN a /\ a[i] = m
      \/ i \in DOMAIN c /\ c[i] = m
  BY <1>1 DEF At, Pending
<1> HIDE DEF a, b, m
<1>4. /\ Len(a) \in Nat /\ Len(b) \in Nat /\ DOMAIN a = 1 .. Len(a) /\ DOMAIN b = 1 .. Len(b)
      /\ DOMAIN c = 1 .. Len(a) + Len(b)
      /\ \A k \in DOMAIN c : c[k] = IF k <= Len(a) THEN a[k] ELSE b[k - Len(a)]
  BY <1>2
<1> HIDE DEF c
<1>5. ASSUME i \in DOMAIN c, c[i] = m, i \notin DOMAIN a
      PROVE  \E k \in 1 .. Len(b) : b[k] = m
  <2>1. i - Len(a) \in 1 .. Len(b) /\ ~(i <= Len(a))
    BY <1>4, <1>5
  <2>2. b[i - Len(a)] = m
    BY <1>4, <1>5, <2>1
  <2> QED BY <2>1, <2>2
<1>6. (\E k \in 1 .. Len(a) : a[k] = m) \/ (\E k \in 1 .. Len(b) : b[k] = m)
  BY <1>3, <1>4, <1>5
<1> QED BY <1>1, <1>6 DEF OnTheWay, Arrived, a, b, m

\* The stops of deletion, expiry and the client's leaving: a session that the
\* bridge holds, and the registry no longer, has its session.stop under way.
THEOREM OrphansAreAccounted == SysSpec => []OrphansAreStopped
<1>1. SysInv => OrphansAreStopped
  <2> SUFFICES ASSUME SysInv, Connection, NEW s \in held \ Active
               PROVE  OnTheWay(StopFor(s)) \/ Arrived(StopFor(s))
    BY DEF OrphansAreStopped
  <2>1. Ranges
    BY InRange DEF SysInv
  <2>2. PICK l \in Links : l = link /\ up[l]
    BY <2>1, OnLink DEF SysInv, Connection
  <2>3. s \in Sessions \ Active
    BY <2>1 DEF Ranges
  <2>4. PICK j \in Nat : At(l, j, "session.stop", s)
    BY <2>2, <2>3 DEF SysInv, OrphansAccounted
  <2> QED BY <2>1, <2>2, <2>4, PendingIsUnderWay DEF StopFor
<1> QED BY <1>1, SysInvCorrect, PTL

\* What the registry shows as ready is held by the bridge, or its end is being
\* reported.
THEOREM ReadyIsHeld == SysSpec => []ReadyMeansHeld
<1>1. SysInv => ReadyMeansHeld
  <2> SUFFICES ASSUME SysInv, Connection, NEW s \in Sessions, state[s] = "ready",
                      startedOn[s] = link
               PROVE  \/ s \in held
                      \/ job = App!Busy("stopping", s)
                      \/ Reported([type |-> "session.closed", session |-> s])
    BY DEF ReadyMeansHeld
  <2>1. Ranges
    BY InRange DEF SysInv
  <2>2. PICK l \in Links : l = link /\ up[l]
    BY <2>1, OnLink DEF SysInv, Connection
  <2>3. Running(s) \/ \E i \in Nat : Ev(l, i, "session.closed", s)
    BY <2>2 DEF SysInv, ReadyAccounted
  <2>4. ASSUME NEW i \in Nat, Ev(l, i, "session.closed", s)
        PROVE  Reported([type |-> "session.closed", session |-> s])
    <3>1. i \in 1 .. Len(outbox[l])
      BY <2>1, <2>4, Placed
    <3> QED BY <2>2, <2>4, <3>1 DEF Ev, Reported
  <2> QED BY <2>3, <2>4 DEF Running
<1> QED BY <1>1, SysInvCorrect, PTL

\* create_session and the capacity check of handle() agree: a bridge as large as
\* the control plane allows has room for every session that is started on it.
THEOREM NeverRejects == SysSpec => []BridgeNeverRejects
<1>1. SysInv => BridgeNeverRejects
  <2> SUFFICES ASSUME SysInv, MaxSessions >= SessionCapacity, phase = "receiving",
                      job = App!Idle, inbox[link] # <<>>,
                      Head(inbox[link]).type = "session.start"
               PROVE  Cardinality(held) < MaxSessions
    BY DEF BridgeNeverRejects
  <2>1. Ranges /\ LinksAgree
    BY InRange DEF SysInv
  <2>2. PICK l \in Links : l = link
    BY <2>1, OnLink
  <2> DEFINE a == inbox[l]
             b == toBridge[l]
             c == a \o b
  <2>3. a \in Seq(Messages) /\ b \in Seq(Messages) /\ a # <<>> /\ Head(a).type = "session.start"
    BY <2>1, <2>2 DEF Ranges
  <2> HIDE DEF a, b
  <2>4. Head(a) \in Messages /\ Head(a) = a[1] /\ 1 \in DOMAIN a /\ 1 \in DOMAIN c /\ c[1] = a[1]
    BY <2>3
  <2> HIDE DEF c
  <2>5. PICK s \in Sessions : a[1] = [type |-> "session.start", session |-> s]
    BY <2>3, <2>4 DEF Messages
  <2>6. At(l, 1, "session.start", s)
    BY <2>4, <2>5 DEF At, Pending, a, b, c
  <2>7. Cardinality(Ahead(l, 1)) < SessionCapacity
    BY <2>6 DEF SysInv, RoomKept
  <2>8. Ahead(l, 1) = held
    <3>1. \A j \in Nat : \A t :
            At(l, j, "session.start", t) \/ At(l, j, "session.stop", t) => ~(j < 1)
      BY <2>1, Placed
    <3> QED BY <2>1, <3>1 DEF Ahead, Ranges
  <2> DEFINE n == Cardinality(held)
  <2>9. n \in Nat
    <3>1. held \in SUBSET Sessions
      BY <2>1 DEF Ranges
    <3> QED BY <3>1, FS_Subset, FS_CardinalityType, SessionsAssumption
  <2>10. n < SessionCapacity
    BY <2>7, <2>8
  <2> HIDE DEF n
  <2>11. n < MaxSessions
    BY <2>9, <2>10, NumbersAssumption, SystemAssumption
  <2> QED BY <2>11 DEF n
<1> QED BY <1>1, SysInvCorrect, PTL
=============================================================================
