--------------------------- MODULE Shutdown_proofs ---------------------------
(***************************************************************************)
(* What is proved of Shutdown for any number of sessions and signals.      *)
(***************************************************************************)
EXTENDS Shutdown, TLAPS

-----------------------------------------------------------------------------
(* The inductive invariant.                                                *)

\* A session that is in the map, or has not been in it, has not been stopped;
\* one that is being stopped has been in it; no session is stopped twice.
StopsCounted ==
    \A s \in Sessions :
        /\ s \in held \/ life[s] = "new" => stops[s] = 0
        /\ s \in held \/ (\E t \in Tasks : cur[t] = s) => life[s] # "new"
        /\ stops[s] <= 1

\* A session that is still starting is in the map, or was stopped early.
StartingHeld == \A s \in Sessions : life[s] = "starting" => s \in held \/ s \in early

\* A running session is in the map, or some task is stopping it, or it was
\* stopped before its start() was through.
RunningAccounted ==
    \A s \in Running : s \in held \/ s \in early \/ \E t \in Tasks : cur[t] = s

\* Who awaits the stop() of a session is at a place where that is done.
StoppersInPlace ==
    /\ cur[Main] # None => at[Main] \in {"stopping", "clearing", "ending"}
    /\ \A t \in Signals : cur[t] # None => at[t] \in {"sweeping", "cut"}

\* The last sweep of the main task takes out all that is left.
LastSweep ==
    /\ at[Main] = "ending" => held \subseteq todo[Main]
    /\ Exited => held = {}

\* The end of the process cuts the tasks that are not done, and nothing else
\* does.
CutAtExit ==
    \A t \in Signals : /\ Exited => at[t] \in {"off", "done", "cut"}
                       /\ ~Exited => at[t] # "cut"

\* A session that the task of a signal took out has been through its start, or
\* was stopped early; while it runs, the task of a signal is stopping it.
DueAccounted ==
    \A s \in due : /\ life[s] # "new"
                   /\ s \notin early => life[s] # "starting"
                   /\ s \in Running /\ s \notin early => \E t \in Signals : cur[t] = s

\* Until the task of a signal goes to close the connection, and unless it was
\* lost, there is no way from a connection to none.
NotYetClosed == \A t \in Signals : at[t] \in {"off", "sweeping"}

ConnectionKept ==
    ~lost /\ NotYetClosed =>
        /\ Connected => up
        /\ ~Connected => \A s \in Sessions : life[s] = "new"

\* The service is released by the tasks of signals that are done, and at exit.
ReleasedLast ==
    ~Exited /\ (\A t \in Signals : at[t] # "done") => pulled = {}

\* All of it.
IndInv ==
    /\ TypeOK
    /\ StopsCounted
    /\ StartingHeld /\ RunningAccounted /\ StoppersInPlace /\ LastSweep /\ CutAtExit
    /\ DueAccounted /\ ConnectionKept /\ ReleasedLast /\ ServiceLast

-----------------------------------------------------------------------------
(* Every step preserves it: one lemma for each conjunct.                   *)

LEMMA TypeStep == ASSUME IndInv, [Next]_vars PROVE TypeOK'
<1> USE ShutdownAssumption
    DEF IndInv, TypeOK, Tasks, sweepVars, sessionVars, historyVars, Move, Running,
        Connected, Exited
<1>1. ASSUME NEW t \in Tasks, NEW s \in Sessions, Sweep(t, s) PROVE TypeOK'
  BY <1>1 DEF Sweep, Sweeping, TakeOut
<1>2. ASSUME NEW t \in Tasks, StopReturns(t) PROVE TypeOK'
  BY <1>2 DEF StopReturns
<1>3. ASSUME NEW t \in Signals, Signal(t) PROVE TypeOK'
  BY <1>3 DEF Signal
<1>4. ASSUME NEW t \in Signals, Close(t) PROVE TypeOK'
  BY <1>4 DEF Close, Swept, Sweeping, Release
<1>5. ASSUME NEW t \in Signals, Closed(t) PROVE TypeOK'
  BY <1>5 DEF Closed, Release
<1>6. ASSUME Connect PROVE TypeOK'
  BY <1>6 DEF Connect
<1>7. ASSUME Lose PROVE TypeOK'
  BY <1>7 DEF Lose
<1>8. ASSUME NEW s \in Sessions, HandleStart(s) PROVE TypeOK'
  BY <1>8 DEF HandleStart
<1>9. ASSUME NEW s \in Sessions, StartReturns(s) PROVE TypeOK'
  BY <1>9 DEF StartReturns
<1>10. ASSUME NEW s \in Sessions, StartFails(s) PROVE TypeOK'
  BY <1>10 DEF StartFails, TakeOut
<1>11. ASSUME NEW s \in Sessions, HandleStop(s) PROVE TypeOK'
  BY <1>11 DEF HandleStop, TakeOut
<1>12. ASSUME Leave PROVE TypeOK'
  BY <1>12 DEF Leave
<1>13. ASSUME Again PROVE TypeOK'
  BY <1>13 DEF Again, Swept, Sweeping
<1>14. ASSUME Exit PROVE TypeOK'
  BY <1>14 DEF Exit, Swept, Sweeping, Release
<1>15. ASSUME UNCHANGED vars PROVE TypeOK'
  BY <1>15 DEF vars
<1> QED
  BY <1>1, <1>2, <1>3, <1>4, <1>5, <1>6, <1>7, <1>8,
     <1>9, <1>10, <1>11, <1>12, <1>13, <1>14, <1>15
  DEF Next, Step, Handle, MainStep

LEMMA StopsCountedStep == ASSUME IndInv, TypeOK', [Next]_vars PROVE StopsCounted'
<1> USE ShutdownAssumption
    DEF IndInv, TypeOK, Tasks, sweepVars, sessionVars, historyVars, Move, Running,
             Connected, Exited, StopsCounted
<1>1. ASSUME NEW t \in Tasks, NEW s \in Sessions, Sweep(t, s) PROVE StopsCounted'
  BY <1>1 DEF Sweep, Sweeping, TakeOut
<1>2. ASSUME NEW t \in Tasks, StopReturns(t) PROVE StopsCounted'
  BY <1>2 DEF StopReturns
<1>3. ASSUME NEW s \in Sessions, HandleStart(s) PROVE StopsCounted'
  BY <1>3 DEF HandleStart
<1>4. ASSUME NEW s \in Sessions, StartReturns(s) PROVE StopsCounted'
  BY <1>4 DEF StartReturns
<1>5. ASSUME NEW s \in Sessions, StartFails(s) PROVE StopsCounted'
  BY <1>5 DEF StartFails, TakeOut
<1>6. ASSUME NEW s \in Sessions, HandleStop(s) PROVE StopsCounted'
  BY <1>6 DEF HandleStop, TakeOut
<1>7. CASE UNCHANGED <<held, life, stops, cur>>
  BY <1>7
<1> QED
  BY <1>1, <1>2, <1>3, <1>4, <1>5, <1>6, <1>7
  DEF Next, Step, Handle, MainStep,
       Signal, Close, Release, Closed, Connect, Lose, Leave, Again, Exit, vars

LEMMA StartingHeldStep == ASSUME IndInv, TypeOK', [Next]_vars PROVE StartingHeld'
<1> USE ShutdownAssumption
    DEF IndInv, TypeOK, Tasks, sweepVars, sessionVars, historyVars, Move, Running,
             Connected, Exited, StartingHeld
<1>1. ASSUME NEW t \in Tasks, NEW s \in Sessions, Sweep(t, s) PROVE StartingHeld'
  BY <1>1 DEF Sweep, Sweeping, TakeOut
<1>2. ASSUME NEW t \in Tasks, StopReturns(t) PROVE StartingHeld'
  BY <1>2 DEF StopReturns
<1>3. ASSUME NEW s \in Sessions, HandleStart(s) PROVE StartingHeld'
  BY <1>3 DEF HandleStart
<1>4. ASSUME NEW s \in Sessions, StartReturns(s) PROVE StartingHeld'
  BY <1>4 DEF StartReturns
<1>5. ASSUME NEW s \in Sessions, StartFails(s) PROVE StartingHeld'
  BY <1>5 DEF StartFails, TakeOut
<1>6. ASSUME NEW s \in Sessions, HandleStop(s) PROVE StartingHeld'
  BY <1>6 DEF HandleStop, TakeOut
<1>7. CASE UNCHANGED <<held, life, early>>
  BY <1>7
<1> QED
  BY <1>1, <1>2, <1>3, <1>4, <1>5, <1>6, <1>7
  DEF Next, Step, Handle, MainStep,
       Signal, Close, Release, Closed, Connect, Lose, Leave, Again, Exit, vars

LEMMA RunningAccountedStep == ASSUME IndInv, TypeOK', [Next]_vars PROVE RunningAccounted'
<1> USE ShutdownAssumption
    DEF IndInv, TypeOK, Tasks, sweepVars, sessionVars, historyVars, Move, Running,
             Connected, Exited, RunningAccounted
<1>1. ASSUME NEW t \in Tasks, NEW s \in Sessions, Sweep(t, s) PROVE RunningAccounted'
  BY <1>1 DEF Sweep, Sweeping, TakeOut
<1>2. ASSUME NEW t \in Tasks, StopReturns(t) PROVE RunningAccounted'
  BY <1>2 DEF StopReturns
<1>3. ASSUME NEW s \in Sessions, HandleStart(s) PROVE RunningAccounted'
  BY <1>3 DEF HandleStart
<1>4. ASSUME NEW s \in Sessions, StartReturns(s) PROVE RunningAccounted'
  <2> SUFFICES ASSUME NEW r \in Running', r # s
               PROVE  r \in held' \/ r \in early' \/ \E t \in Tasks : cur'[t] = r
    BY <1>4 DEF StartReturns, StartingHeld
  <2> QED BY <1>4 DEF StartReturns
<1>5. ASSUME NEW s \in Sessions, StartFails(s) PROVE RunningAccounted'
  <2>1. cur[Main] = None
    BY <1>5 DEF StartFails, StoppersInPlace
  <2> SUFFICES ASSUME NEW r \in Running', r # s
               PROVE  r \in held' \/ r \in early' \/ \E t \in Tasks : cur'[t] = r
    BY <1>5 DEF StartFails
  <2>2. r \in Running
    BY <1>5 DEF StartFails
  <2>3. \A t \in Tasks : cur[t] = r => cur'[t] = r
    BY <1>5, <2>1 DEF StartFails, TakeOut
  <2> QED BY <1>5, <2>2, <2>3 DEF StartFails, TakeOut
<1>6. ASSUME NEW s \in Sessions, HandleStop(s) PROVE RunningAccounted'
  <2>1. cur[Main] = None
    BY <1>6 DEF HandleStop, StoppersInPlace
  <2> SUFFICES ASSUME NEW r \in Running'
               PROVE  r \in held' \/ r \in early' \/ \E t \in Tasks : cur'[t] = r
    OBVIOUS
  <2>2. r \in Running
    BY <1>6 DEF HandleStop
  <2>3. \A t \in Tasks : cur[t] = r => cur'[t] = r
    BY <1>6, <2>1 DEF HandleStop, TakeOut
  <2> QED BY <1>6, <2>2, <2>3 DEF HandleStop, TakeOut
<1>7. CASE UNCHANGED <<held, life, early, cur>>
  BY <1>7
<1> QED
  BY <1>1, <1>2, <1>3, <1>4, <1>5, <1>6, <1>7
  DEF Next, Step, Handle, MainStep,
       Signal, Close, Release, Closed, Connect, Lose, Leave, Again, Exit, vars

LEMMA StoppersInPlaceStep == ASSUME IndInv, TypeOK', [Next]_vars PROVE StoppersInPlace'
<1> USE ShutdownAssumption
    DEF IndInv, TypeOK, Tasks, sweepVars, sessionVars, historyVars, Move, Running,
             Connected, Exited, StoppersInPlace
<1>1. ASSUME NEW t \in Tasks, NEW s \in Sessions, Sweep(t, s) PROVE StoppersInPlace'
  BY <1>1 DEF Sweep, Sweeping, TakeOut
<1>2. ASSUME NEW t \in Tasks, StopReturns(t) PROVE StoppersInPlace'
  BY <1>2 DEF StopReturns
<1>3. ASSUME NEW t \in Signals, Signal(t) PROVE StoppersInPlace'
  BY <1>3 DEF Signal
<1>4. ASSUME NEW t \in Signals, Close(t) PROVE StoppersInPlace'
  BY <1>4 DEF Close, Swept, Sweeping, Release
<1>5. ASSUME NEW t \in Signals, Closed(t) PROVE StoppersInPlace'
  BY <1>5 DEF Closed, Release
<1>6. ASSUME Connect PROVE StoppersInPlace'
  BY <1>6 DEF Connect
<1>7. ASSUME Lose PROVE StoppersInPlace'
  BY <1>7 DEF Lose
<1>8. ASSUME NEW s \in Sessions, HandleStart(s) PROVE StoppersInPlace'
  BY <1>8 DEF HandleStart
<1>9. ASSUME NEW s \in Sessions, StartReturns(s) PROVE StoppersInPlace'
  BY <1>9 DEF StartReturns
<1>10. ASSUME NEW s \in Sessions, StartFails(s) PROVE StoppersInPlace'
  BY <1>10 DEF StartFails, TakeOut
<1>11. ASSUME NEW s \in Sessions, HandleStop(s) PROVE StoppersInPlace'
  BY <1>11 DEF HandleStop, TakeOut
<1>12. ASSUME Leave PROVE StoppersInPlace'
  BY <1>12 DEF Leave
<1>13. ASSUME Again PROVE StoppersInPlace'
  BY <1>13 DEF Again, Swept, Sweeping
<1>14. ASSUME Exit PROVE StoppersInPlace'
  BY <1>14 DEF Exit, Swept, Sweeping, Release
<1>15. ASSUME UNCHANGED vars PROVE StoppersInPlace'
  BY <1>15 DEF vars
<1> QED
  BY <1>1, <1>2, <1>3, <1>4, <1>5, <1>6, <1>7, <1>8,
     <1>9, <1>10, <1>11, <1>12, <1>13, <1>14, <1>15
  DEF Next, Step, Handle, MainStep

LEMMA LastSweepStep == ASSUME IndInv, TypeOK', [Next]_vars PROVE LastSweep'
<1> USE ShutdownAssumption
    DEF IndInv, TypeOK, Tasks, sweepVars, sessionVars, historyVars, Move, Running,
             Connected, Exited, LastSweep
<1>1. ASSUME NEW t \in Tasks, NEW s \in Sessions, Sweep(t, s) PROVE LastSweep'
  BY <1>1 DEF Sweep, Sweeping, TakeOut
<1>2. ASSUME NEW t \in Tasks, StopReturns(t) PROVE LastSweep'
  BY <1>2 DEF StopReturns
<1>3. ASSUME NEW t \in Signals, Signal(t) PROVE LastSweep'
  BY <1>3 DEF Signal
<1>4. ASSUME NEW t \in Signals, Close(t) PROVE LastSweep'
  BY <1>4 DEF Close, Swept, Sweeping, Release
<1>5. ASSUME NEW t \in Signals, Closed(t) PROVE LastSweep'
  BY <1>5 DEF Closed, Release
<1>6. ASSUME Connect PROVE LastSweep'
  BY <1>6 DEF Connect
<1>7. ASSUME Lose PROVE LastSweep'
  BY <1>7 DEF Lose
<1>8. ASSUME NEW s \in Sessions, HandleStart(s) PROVE LastSweep'
  BY <1>8 DEF HandleStart
<1>9. ASSUME NEW s \in Sessions, StartReturns(s) PROVE LastSweep'
  BY <1>9 DEF StartReturns
<1>10. ASSUME NEW s \in Sessions, StartFails(s) PROVE LastSweep'
  BY <1>10 DEF StartFails, TakeOut
<1>11. ASSUME NEW s \in Sessions, HandleStop(s) PROVE LastSweep'
  BY <1>11 DEF HandleStop, TakeOut
<1>12. ASSUME Leave PROVE LastSweep'
  BY <1>12 DEF Leave
<1>13. ASSUME Again PROVE LastSweep'
  BY <1>13 DEF Again, Swept, Sweeping
<1>14. ASSUME Exit PROVE LastSweep'
  BY <1>14 DEF Exit, Swept, Sweeping, Release
<1>15. ASSUME UNCHANGED vars PROVE LastSweep'
  BY <1>15 DEF vars
<1> QED
  BY <1>1, <1>2, <1>3, <1>4, <1>5, <1>6, <1>7, <1>8,
     <1>9, <1>10, <1>11, <1>12, <1>13, <1>14, <1>15
  DEF Next, Step, Handle, MainStep

LEMMA CutAtExitStep == ASSUME IndInv, TypeOK', [Next]_vars PROVE CutAtExit'
<1> USE ShutdownAssumption
    DEF IndInv, TypeOK, Tasks, sweepVars, sessionVars, historyVars, Move, Running,
             Connected, Exited, CutAtExit
<1>1. ASSUME NEW t \in Tasks, NEW s \in Sessions, Sweep(t, s) PROVE CutAtExit'
  BY <1>1 DEF Sweep, Sweeping, TakeOut
<1>2. ASSUME NEW t \in Tasks, StopReturns(t) PROVE CutAtExit'
  BY <1>2 DEF StopReturns
<1>3. ASSUME NEW t \in Signals, Signal(t) PROVE CutAtExit'
  BY <1>3 DEF Signal
<1>4. ASSUME NEW t \in Signals, Close(t) PROVE CutAtExit'
  BY <1>4 DEF Close, Swept, Sweeping, Release
<1>5. ASSUME NEW t \in Signals, Closed(t) PROVE CutAtExit'
  BY <1>5 DEF Closed, Release
<1>6. ASSUME Connect PROVE CutAtExit'
  BY <1>6 DEF Connect
<1>7. ASSUME Lose PROVE CutAtExit'
  BY <1>7 DEF Lose
<1>8. ASSUME NEW s \in Sessions, HandleStart(s) PROVE CutAtExit'
  BY <1>8 DEF HandleStart
<1>9. ASSUME NEW s \in Sessions, StartReturns(s) PROVE CutAtExit'
  BY <1>9 DEF StartReturns
<1>10. ASSUME NEW s \in Sessions, StartFails(s) PROVE CutAtExit'
  BY <1>10 DEF StartFails, TakeOut
<1>11. ASSUME NEW s \in Sessions, HandleStop(s) PROVE CutAtExit'
  BY <1>11 DEF HandleStop, TakeOut
<1>12. ASSUME Leave PROVE CutAtExit'
  BY <1>12 DEF Leave
<1>13. ASSUME Again PROVE CutAtExit'
  BY <1>13 DEF Again, Swept, Sweeping
<1>14. ASSUME Exit PROVE CutAtExit'
  BY <1>14 DEF Exit, Swept, Sweeping, Release
<1>15. ASSUME UNCHANGED vars PROVE CutAtExit'
  BY <1>15 DEF vars
<1> QED
  BY <1>1, <1>2, <1>3, <1>4, <1>5, <1>6, <1>7, <1>8,
     <1>9, <1>10, <1>11, <1>12, <1>13, <1>14, <1>15
  DEF Next, Step, Handle, MainStep

LEMMA DueAccountedStep == ASSUME IndInv, TypeOK', [Next]_vars PROVE DueAccounted'
<1> USE ShutdownAssumption
    DEF IndInv, TypeOK, Tasks, sweepVars, sessionVars, historyVars, Move, Running,
             Connected, Exited, DueAccounted
<1>1. ASSUME NEW t \in Tasks, NEW s \in Sessions, Sweep(t, s) PROVE DueAccounted'
  <2>1. \A u \in Tasks, r \in Sessions : cur[u] = r => cur'[u] = r
    BY <1>1 DEF Sweep, TakeOut
  <2>2. CASE due' = due
    BY <1>1, <2>1, <2>2 DEF Sweep, TakeOut
  <2>3. CASE s \in held /\ t \in Signals
    <3>1. life[s] # "new"
      BY <2>3 DEF StopsCounted
    <3>2. cur'[t] = s /\ (life[s] = "starting" => s \in early')
      BY <1>1, <2>3 DEF Sweep, TakeOut
    <3>3. early \subseteq early' /\ life' = life /\ due' = due \cup {s}
      BY <1>1, <2>3 DEF Sweep, TakeOut
    <3> QED BY <2>1, <2>3, <3>1, <3>2, <3>3
  <2> QED BY <1>1, <2>2, <2>3 DEF Sweep
<1>2. ASSUME NEW t \in Tasks, StopReturns(t) PROVE DueAccounted'
  BY <1>2 DEF StopReturns
<1>3. ASSUME NEW s \in Sessions, HandleStart(s) PROVE DueAccounted'
  BY <1>3 DEF HandleStart
<1>4. ASSUME NEW s \in Sessions, StartReturns(s) PROVE DueAccounted'
  BY <1>4 DEF StartReturns
<1>5. ASSUME NEW s \in Sessions, StartFails(s) PROVE DueAccounted'
  BY <1>5 DEF StartFails, TakeOut
<1>6. ASSUME NEW s \in Sessions, HandleStop(s) PROVE DueAccounted'
  BY <1>6 DEF HandleStop, TakeOut
<1>7. CASE UNCHANGED <<due, life, early, cur>>
  BY <1>7
<1> QED
  BY <1>1, <1>2, <1>3, <1>4, <1>5, <1>6, <1>7
  DEF Next, Step, Handle, MainStep,
       Signal, Close, Release, Closed, Connect, Lose, Leave, Again, Exit, vars

LEMMA ConnectionKeptStep == ASSUME IndInv, TypeOK', [Next]_vars PROVE ConnectionKept'
<1> USE ShutdownAssumption
    DEF IndInv, TypeOK, Tasks, sweepVars, sessionVars, historyVars, Move, Running,
             Connected, Exited, NotYetClosed, ConnectionKept
<1>1. ASSUME NEW t \in Tasks, NEW s \in Sessions, Sweep(t, s) PROVE ConnectionKept'
  BY <1>1 DEF Sweep, Sweeping, TakeOut
<1>2. ASSUME NEW t \in Tasks, StopReturns(t) PROVE ConnectionKept'
  <2>1. at'[Main] = at[Main] \/ (at[Main] = "stopping" /\ at'[Main] = "receiving")
    BY <1>2 DEF StopReturns
  <2>2. \A u \in Signals : at'[u] = at[u]
    BY <1>2 DEF StopReturns
  <2>3. cur[t] \in Sessions /\ life[cur[t]] # "new"
    BY <1>2 DEF StopReturns, StopsCounted
  <2> QED BY <1>2, <2>1, <2>2, <2>3 DEF StopReturns
<1>3. ASSUME NEW t \in Signals, Signal(t) PROVE ConnectionKept'
  BY <1>3 DEF Signal
<1>4. ASSUME NEW t \in Signals, Close(t) PROVE ConnectionKept'
  BY <1>4 DEF Close, Swept, Sweeping, Release
<1>5. ASSUME NEW t \in Signals, Closed(t) PROVE ConnectionKept'
  BY <1>5 DEF Closed, Release
<1>6. ASSUME Connect PROVE ConnectionKept'
  BY <1>6 DEF Connect
<1>7. ASSUME Lose PROVE ConnectionKept'
  BY <1>7 DEF Lose
<1>8. ASSUME NEW s \in Sessions, HandleStart(s) PROVE ConnectionKept'
  BY <1>8 DEF HandleStart
<1>9. ASSUME NEW s \in Sessions, StartReturns(s) PROVE ConnectionKept'
  BY <1>9 DEF StartReturns
<1>10. ASSUME NEW s \in Sessions, StartFails(s) PROVE ConnectionKept'
  BY <1>10 DEF StartFails, TakeOut
<1>11. ASSUME NEW s \in Sessions, HandleStop(s) PROVE ConnectionKept'
  BY <1>11 DEF HandleStop, TakeOut
<1>12. ASSUME Leave PROVE ConnectionKept'
  BY <1>12 DEF Leave
<1>13. ASSUME Again PROVE ConnectionKept'
  BY <1>13 DEF Again, Swept, Sweeping
<1>14. ASSUME Exit PROVE ConnectionKept'
  BY <1>14 DEF Exit, Swept, Sweeping, Release
<1>15. ASSUME UNCHANGED vars PROVE ConnectionKept'
  BY <1>15 DEF vars
<1> QED
  BY <1>1, <1>2, <1>3, <1>4, <1>5, <1>6, <1>7, <1>8,
     <1>9, <1>10, <1>11, <1>12, <1>13, <1>14, <1>15
  DEF Next, Step, Handle, MainStep

LEMMA ReleasedLastStep == ASSUME IndInv, TypeOK', [Next]_vars PROVE ReleasedLast'
<1> USE ShutdownAssumption
    DEF IndInv, TypeOK, Tasks, sweepVars, sessionVars, historyVars, Move, Running,
             Connected, Exited, ReleasedLast
<1>1. ASSUME NEW t \in Tasks, NEW s \in Sessions, Sweep(t, s) PROVE ReleasedLast'
  BY <1>1 DEF Sweep, Sweeping, TakeOut
<1>2. ASSUME NEW t \in Tasks, StopReturns(t) PROVE ReleasedLast'
  BY <1>2 DEF StopReturns
<1>3. ASSUME NEW t \in Signals, Signal(t) PROVE ReleasedLast'
  BY <1>3 DEF Signal
<1>4. ASSUME NEW t \in Signals, Close(t) PROVE ReleasedLast'
  BY <1>4 DEF Close, Swept, Sweeping, Release
<1>5. ASSUME NEW t \in Signals, Closed(t) PROVE ReleasedLast'
  BY <1>5 DEF Closed, Release
<1>6. ASSUME Connect PROVE ReleasedLast'
  BY <1>6 DEF Connect
<1>7. ASSUME Lose PROVE ReleasedLast'
  BY <1>7 DEF Lose
<1>8. ASSUME NEW s \in Sessions, HandleStart(s) PROVE ReleasedLast'
  BY <1>8 DEF HandleStart
<1>9. ASSUME NEW s \in Sessions, StartReturns(s) PROVE ReleasedLast'
  BY <1>9 DEF StartReturns
<1>10. ASSUME NEW s \in Sessions, StartFails(s) PROVE ReleasedLast'
  BY <1>10 DEF StartFails, TakeOut
<1>11. ASSUME NEW s \in Sessions, HandleStop(s) PROVE ReleasedLast'
  BY <1>11 DEF HandleStop, TakeOut
<1>12. ASSUME Leave PROVE ReleasedLast'
  BY <1>12 DEF Leave
<1>13. ASSUME Again PROVE ReleasedLast'
  BY <1>13 DEF Again, Swept, Sweeping
<1>14. ASSUME Exit PROVE ReleasedLast'
  BY <1>14 DEF Exit, Swept, Sweeping, Release
<1>15. ASSUME UNCHANGED vars PROVE ReleasedLast'
  BY <1>15 DEF vars
<1> QED
  BY <1>1, <1>2, <1>3, <1>4, <1>5, <1>6, <1>7, <1>8,
     <1>9, <1>10, <1>11, <1>12, <1>13, <1>14, <1>15
  DEF Next, Step, Handle, MainStep

LEMMA ServiceLastStep == ASSUME IndInv, TypeOK', [Next]_vars PROVE ServiceLast'
<1> USE ShutdownAssumption
    DEF IndInv, TypeOK, Tasks, sweepVars, sessionVars, historyVars, Move, Running,
             Connected, Exited, OneSignal, ServiceLast
<1>1. ASSUME NEW t \in Tasks, NEW s \in Sessions, Sweep(t, s) PROVE ServiceLast'
  <2> SUFFICES ASSUME OneSignal', ~lost'
               PROVE  pulled' \cap due' \subseteq early'
    BY DEF ServiceLast
  <2>1. OneSignal /\ ~lost /\ pulled' = pulled /\ early \subseteq early'
    BY <1>1 DEF Sweep, TakeOut, OneSignal
  <2>2. CASE t = Main
    BY <1>1, <2>1, <2>2 DEF Sweep, ServiceLast
  <2>3. CASE t \in Signals
    <3>1. at[t] = "sweeping" /\ ~Exited
      BY <1>1, <2>3 DEF Sweep, Sweeping, CutAtExit
    <3>2. pulled = {}
      BY <2>1, <2>3, <3>1 DEF OneSignal, ReleasedLast
    <3> QED BY <2>1, <3>2
  <2> QED BY <2>2, <2>3
<1>2. ASSUME NEW t \in Tasks, StopReturns(t) PROVE ServiceLast'
  BY <1>2 DEF StopReturns
<1>3. ASSUME NEW t \in Signals, Signal(t) PROVE ServiceLast'
  BY <1>3 DEF Signal
<1>4. ASSUME NEW t \in Signals, Close(t) PROVE ServiceLast'
  <2> SUFFICES ASSUME OneSignal', ~lost'
               PROVE  pulled' \cap due' \subseteq early'
    BY DEF ServiceLast
  <2>1. OneSignal /\ ~lost /\ due' = due /\ early' = early /\ pulled' \subseteq pulled \cup Running
    BY <1>4 DEF Close, Release, OneSignal
  <2>2. at[t] # "off" /\ cur[t] = None
    BY <1>4 DEF Close, Swept, Sweeping, StoppersInPlace
  <2>3. Running \cap due \subseteq early
    BY <2>1, <2>2 DEF OneSignal, StoppersInPlace, DueAccounted
  <2> QED BY <2>1, <2>3 DEF ServiceLast
<1>5. ASSUME NEW t \in Signals, Closed(t) PROVE ServiceLast'
  <2> SUFFICES ASSUME OneSignal', ~lost'
               PROVE  pulled' \cap due' \subseteq early'
    BY DEF ServiceLast
  <2>1. OneSignal /\ ~lost /\ due' = due /\ early' = early /\ pulled' \subseteq pulled \cup Running
    BY <1>5 DEF Closed, Release, OneSignal
  <2>2. at[t] # "off" /\ cur[t] = None
    BY <1>5 DEF Closed, Swept, Sweeping, StoppersInPlace
  <2>3. Running \cap due \subseteq early
    BY <2>1, <2>2 DEF OneSignal, StoppersInPlace, DueAccounted
  <2> QED BY <2>1, <2>3 DEF ServiceLast
<1>6. ASSUME Connect PROVE ServiceLast'
  BY <1>6 DEF Connect
<1>7. ASSUME Lose PROVE ServiceLast'
  BY <1>7 DEF Lose
<1>8. ASSUME NEW s \in Sessions, HandleStart(s) PROVE ServiceLast'
  BY <1>8 DEF HandleStart
<1>9. ASSUME NEW s \in Sessions, StartReturns(s) PROVE ServiceLast'
  BY <1>9 DEF StartReturns
<1>10. ASSUME NEW s \in Sessions, StartFails(s) PROVE ServiceLast'
  BY <1>10 DEF StartFails, TakeOut
<1>11. ASSUME NEW s \in Sessions, HandleStop(s) PROVE ServiceLast'
  BY <1>11 DEF HandleStop, TakeOut
<1>12. ASSUME Leave PROVE ServiceLast'
  BY <1>12 DEF Leave
<1>13. ASSUME Again PROVE ServiceLast'
  BY <1>13 DEF Again, Swept, Sweeping
<1>14. ASSUME Exit PROVE ServiceLast'
  <2> SUFFICES ASSUME OneSignal', ~lost'
               PROVE  pulled' \cap due' \subseteq early'
    BY DEF ServiceLast
  <2>1. OneSignal /\ ~lost /\ due' = due /\ early' = early /\ pulled' = pulled \cup Running
    BY <1>14 DEF Exit, Release, OneSignal
  <2>2. ~Connected /\ ~Exited
    BY <1>14 DEF Exit
  <2>3. CASE NotYetClosed
    BY <2>1, <2>2, <2>3 DEF ConnectionKept, ServiceLast
  <2>4. CASE ~NotYetClosed
    <3>1. PICK t \in Signals : at[t] \in {"closing", "done"}
      BY <2>2, <2>4 DEF NotYetClosed, CutAtExit
    <3>2. Running \cap due \subseteq early
      BY <2>1, <3>1 DEF OneSignal, StoppersInPlace, DueAccounted
    <3> QED BY <2>1, <3>2 DEF ServiceLast
  <2> QED BY <2>3, <2>4
<1>15. ASSUME UNCHANGED vars PROVE ServiceLast'
  BY <1>15 DEF vars
<1> QED
  BY <1>1, <1>2, <1>3, <1>4, <1>5, <1>6, <1>7, <1>8,
     <1>9, <1>10, <1>11, <1>12, <1>13, <1>14, <1>15
  DEF Next, Step, Handle, MainStep

-----------------------------------------------------------------------------
(* The theorems.                                                           *)

LEMMA IndInit == ASSUME Init PROVE IndInv
<1> USE ShutdownAssumption DEF Init, Tasks
<1>1. TypeOK
  BY DEF TypeOK
<1>2. StopsCounted /\ StartingHeld /\ RunningAccounted
  BY DEF StopsCounted, StartingHeld, RunningAccounted, Running
<1>3. StoppersInPlace /\ LastSweep /\ CutAtExit
  BY DEF StoppersInPlace, LastSweep, CutAtExit, Exited
<1>4. DueAccounted /\ ConnectionKept /\ ReleasedLast /\ ServiceLast
  BY DEF DueAccounted, ConnectionKept, NotYetClosed, Connected, ReleasedLast,
         ServiceLast, OneSignal
<1> QED BY <1>1, <1>2, <1>3, <1>4 DEF IndInv

\* The invariant holds of every reachable state.
THEOREM ShutdownInvCorrect == Spec => []IndInv
<1>1. Init => IndInv
  BY IndInit
<1>2. IndInv /\ [Next]_vars => IndInv'
  BY TypeStep, StopsCountedStep, StartingHeldStep, RunningAccountedStep, StoppersInPlaceStep,
     LastSweepStep, CutAtExitStep, DueAccountedStep, ConnectionKeptStep, ReleasedLastStep,
     ServiceLastStep DEF IndInv
<1> QED BY <1>1, <1>2, PTL DEF Spec

\* However many tasks stop sessions at once, no session is stopped twice.
THEOREM SessionsAreStoppedOnce == Spec => []StoppedOnce
<1>1. IndInv => StoppedOnce
  BY DEF IndInv, StopsCounted, StoppedOnce
<1> QED BY <1>1, ShutdownInvCorrect, PTL

\* What the process leaves running at its end was stopped before its start was
\* through, or was being stopped by the task of a signal.
THEOREM NothingIsLeftRunning == Spec => []NothingLeftRunning
<1>1. ASSUME IndInv PROVE NothingLeftRunning
  <2> SUFFICES ASSUME Exited, NEW s \in Running, s \notin early
               PROVE  \E t \in Signals : at[t] = "cut" /\ cur[t] = s
    BY DEF NothingLeftRunning
  <2>1. PICK t \in Tasks : cur[t] = s
    BY <1>1 DEF IndInv, RunningAccounted, LastSweep
  <2>2. cur[t] # None
    BY <2>1, ShutdownAssumption DEF Running
  <2>3. t \in Signals
    BY <1>1, <2>2 DEF IndInv, StoppersInPlace, Exited, Tasks
  <2>4. at[t] = "cut"
    BY <1>1, <2>2, <2>3 DEF IndInv, StoppersInPlace, CutAtExit
  <2> QED BY <2>1, <2>3, <2>4
<1> QED BY <1>1, ShutdownInvCorrect, PTL

\* With one signal and a connection that lasts, the service is released after
\* the sessions that the task of the signal stops.
THEOREM ServiceIsLast == Spec => []ServiceLast
<1>1. IndInv => ServiceLast
  BY DEF IndInv
<1> QED BY <1>1, ShutdownInvCorrect, PTL
=============================================================================
