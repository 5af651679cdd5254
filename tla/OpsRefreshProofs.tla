-------------------------- MODULE OpsRefreshProofs --------------------------
(***************************************************************************)
(* Theorems about the refresh loop for every interval, number of rounds,   *)
(* channel and ring capacity.                                              *)
(***************************************************************************)
EXTENDS OpsRefresh, SequenceTheorems, TLAPS

(* The strengthening that makes SingleFlight inductive: rounds before the  *)
(* newest are done, rounds after it unborn, the newest is in flight        *)
(* exactly while App.refreshing is set, and the screen shows the newest    *)
(* finished round.                                                         *)
FlightInv ==
  /\ \A r \in Rounds : r < rounds => snapTask[r] = "done"
  /\ \A r \in Rounds : r > rounds => snapTask[r] = "unborn"
  /\ refreshing  => snapTask[rounds] \in InFlight /\ shown = rounds - 1
  /\ ~refreshing => snapTask[rounds] = "done" /\ shown = rounds

USE RefreshAssumption

-----------------------------------------------------------------------------
(* RingBuffer::push returns a sequence of rounds, at most RingCap long. *)
LEMMA PushType ==
  ASSUME NEW h \in Seq(Rounds), Len(h) <= RingCap, NEW r \in Rounds
  PROVE  Push(h, r) \in Seq(Rounds) /\ Len(Push(h, r)) <= RingCap
<1>1. CASE Len(h) = RingCap
  <2>1. h # << >>
    BY <1>1
  <2>2. Tail(h) \in Seq(Rounds) /\ Len(Tail(h)) = Len(h) - 1
    BY <2>1
  <2>3. Append(Tail(h), r) \in Seq(Rounds) /\ Len(Append(Tail(h), r)) = Len(Tail(h)) + 1
    BY <2>2
  <2> QED
    BY <1>1, <2>2, <2>3 DEF Push
<1>2. CASE Len(h) # RingCap
  <2>1. Append(h, r) \in Seq(Rounds) /\ Len(Append(h, r)) = Len(h) + 1
    OBVIOUS
  <2> QED
    BY <1>2, <2>1 DEF Push
<1> QED
  BY <1>1, <1>2

(* Both tasks of a new round start collecting. *)
LEMMA StartRefreshType ==
  ASSUME TypeOK, StartRefresh
  PROVE  /\ rounds' \in Rounds
         /\ snapTask' \in [Rounds -> TaskState]
         /\ logTask' \in [Rounds -> TaskState]
BY DEF TypeOK, StartRefresh, Rounds, TaskState, InFlight

(* The state keeps the types of App's fields and of the two task families. *)
THEOREM TypeCorrect == Spec => []TypeOK
<1>1. Init => TypeOK
  <2> SUFFICES ASSUME Init PROVE TypeOK
    OBVIOUS
  <2>1. history \in Seq(Rounds) /\ Len(history) <= RingCap
    BY DEF Init
  <2>2. snapTask \in [Rounds -> TaskState] /\ logTask \in [Rounds -> TaskState]
    BY DEF Init, FirstTask, TaskState, InFlight
  <2>3. rounds \in Rounds /\ shown \in 0 .. MaxRounds /\ shownLogs \in 0 .. MaxRounds
    BY DEF Init, Rounds
  <2>4. lag \in 0 .. MaxLag /\ deadline \in Nat \cup {Unarmed}
    BY DEF Init
  <2> QED
    BY <2>1, <2>2, <2>3, <2>4 DEF Init, TypeOK
<1>2. TypeOK /\ [Next]_vars => TypeOK'
  <2> SUFFICES ASSUME TypeOK, [Next]_vars PROVE TypeOK'
    OBVIOUS
  <2> USE DEF taskVars, appVars
  <2>1. CASE Refresh
    BY <2>1, StartRefreshType DEF Refresh, TypeOK
  <2>2. CASE TogglePause
    BY <2>2 DEF TogglePause, TypeOK
  <2>3. CASE Tick
    <3>1. CASE AutoDue
      BY <2>3, <3>1, StartRefreshType DEF Tick, TypeOK
    <3>2. CASE ~AutoDue
      BY <2>3, <3>2 DEF Tick, TypeOK
    <3> QED
      BY <3>1, <3>2
  <2>4. CASE TimePasses
    BY <2>4 DEF TimePasses, TypeOK
  <2>5. CASE Quit
    BY <2>5 DEF Quit, TypeOK
  <2>6. ASSUME NEW r \in Rounds, Tasks(r) PROVE TypeOK'
    BY <2>6 DEF Tasks, SnapCollected, SnapSend, LogsCollected, LogsSend, TypeOK,
                TaskState, InFlight
  <2>7. ASSUME NEW r \in Rounds, HandleSnapshots(r) PROVE TypeOK'
    <3>1. Rearm \in Nat \cup {Unarmed}
      BY DEF Rearm, TypeOK
    <3>2. history' \in Seq(Rounds) /\ Len(history') <= RingCap
      BY <2>7, PushType DEF HandleSnapshots, TypeOK
    <3>3. r \in 0 .. MaxRounds
      BY DEF Rounds
    <3> QED
      BY <2>7, <3>1, <3>2, <3>3 DEF HandleSnapshots, TypeOK, TaskState
  <2>8. ASSUME NEW r \in Rounds, HandleLogLines(r) PROVE TypeOK'
    BY <2>8 DEF HandleLogLines, TypeOK, TaskState, Rounds
  <2>9. CASE UNCHANGED vars
    BY <2>9 DEF vars, TypeOK
  <2> QED
    BY <2>1, <2>2, <2>3, <2>4, <2>5, <2>6, <2>7, <2>8, <2>9 DEF Next, Operator, Loop
<1> QED
  BY <1>1, <1>2, PTL DEF Spec

-----------------------------------------------------------------------------
(* A round started when none is in flight is the only one in flight. *)
LEMMA StartKeepsFlight ==
  ASSUME TypeOK, FlightInv, ~refreshing, StartRefresh, refreshing' = TRUE, shown' = shown
  PROVE  FlightInv'
BY DEF TypeOK, FlightInv, StartRefresh, Rounds, InFlight

(* FlightInv is inductive. *)
LEMMA FlightStep == TypeOK /\ FlightInv /\ [Next]_vars => FlightInv'
<1> SUFFICES ASSUME TypeOK, FlightInv, [Next]_vars PROVE FlightInv'
  OBVIOUS
<1> USE DEF taskVars, appVars
<1>1. CASE Refresh
  BY <1>1, StartKeepsFlight DEF Refresh, MayStart
<1>2. CASE TogglePause
  BY <1>2 DEF TogglePause, FlightInv
<1>3. CASE Tick
  <2>1. CASE AutoDue
    BY <1>3, <2>1, StartKeepsFlight DEF Tick, AutoDue
  <2>2. CASE ~AutoDue
    BY <1>3, <2>2 DEF Tick, FlightInv
  <2> QED
    BY <2>1, <2>2
<1>4. CASE TimePasses
  BY <1>4 DEF TimePasses, FlightInv
<1>5. CASE Quit
  BY <1>5 DEF Quit, FlightInv
<1>6. ASSUME NEW r \in Rounds, Tasks(r) PROVE FlightInv'
  <2>1. snapTask[r] \in InFlight /\ r # rounds => FALSE
    BY DEF FlightInv, InFlight, TypeOK, Rounds
  <2> QED
    BY <1>6, <2>1 DEF Tasks, SnapCollected, SnapSend, LogsCollected, LogsSend,
                      FlightInv, InFlight, TypeOK
<1>7. ASSUME NEW r \in Rounds, HandleSnapshots(r) PROVE FlightInv'
  <2>1. r = rounds /\ refreshing
    BY <1>7 DEF HandleSnapshots, FlightInv, InFlight, TypeOK, Rounds
  <2> QED
    BY <1>7, <2>1 DEF HandleSnapshots, FlightInv, InFlight, TypeOK, Rounds
<1>8. ASSUME NEW r \in Rounds, HandleLogLines(r) PROVE FlightInv'
  BY <1>8 DEF HandleLogLines, FlightInv
<1>9. CASE UNCHANGED vars
  BY <1>9 DEF vars, FlightInv
<1> QED
  BY <1>1, <1>2, <1>3, <1>4, <1>5, <1>6, <1>7, <1>8, <1>9 DEF Next, Operator, Loop

(* FlightInv holds in every reachable state. *)
LEMMA FlightHolds == Spec => []FlightInv
<1>1. Init => FlightInv
  BY DEF Init, FlightInv, FirstTask, InFlight, Rounds
<1> QED
  BY <1>1, FlightStep, TypeCorrect, PTL DEF Spec

(* App.refreshing tells the truth: at most one round is ever in flight,    *)
(* the newest one, and one is exactly while the flag is set.               *)
THEOREM OneRoundInFlight == Spec => []SingleFlight
<1>1. TypeOK /\ FlightInv => SingleFlight
  BY DEF TypeOK, FlightInv, SingleFlight, InFlight, Rounds
<1> QED
  BY <1>1, TypeCorrect, FlightHolds, PTL

-----------------------------------------------------------------------------
(* The reducer, the tasks and the channel together implement the abstract  *)
(* sequence of rounds: one is started only after the last one was shown.   *)
THEOREM LoopImplementsRounds == Spec => RoundsInOrder
<1>1. Init => Abstract!Init
  BY DEF Init, Abstract!Init
<1>2. TypeOK /\ FlightInv /\ [Next]_vars => [Abstract!Next]_<<rounds, shown>>
  <2> SUFFICES ASSUME TypeOK, FlightInv, [Next]_vars
               PROVE  Abstract!Next \/ UNCHANGED <<rounds, shown>>
    OBVIOUS
  <2> USE DEF taskVars, appVars
  <2>1. CASE Refresh
    BY <2>1 DEF Refresh, MayStart, StartRefresh, FlightInv, Abstract!Next, Abstract!Start
  <2>2. CASE Tick
    BY <2>2 DEF Tick, AutoDue, StartRefresh, FlightInv, Abstract!Next, Abstract!Start
  <2>3. ASSUME NEW r \in Rounds, HandleSnapshots(r)
        PROVE  Abstract!Next \/ UNCHANGED <<rounds, shown>>
    <3>1. r = rounds /\ refreshing
      BY <2>3 DEF HandleSnapshots, FlightInv, InFlight, TypeOK, Rounds
    <3> QED
      BY <2>3, <3>1 DEF HandleSnapshots, FlightInv, TypeOK, Rounds, Abstract!Next, Abstract!Show
  <2>4. CASE TogglePause \/ TimePasses \/ Quit \/ UNCHANGED vars
    BY <2>4 DEF TogglePause, TimePasses, Quit, vars
  <2>5. ASSUME NEW r \in Rounds, Tasks(r) \/ HandleLogLines(r)
        PROVE  UNCHANGED <<rounds, shown>>
    BY <2>5 DEF Tasks, SnapCollected, SnapSend, LogsCollected, LogsSend, HandleLogLines
  <2> QED
    BY <2>1, <2>2, <2>3, <2>4, <2>5 DEF Next, Operator, Loop
<1> QED
  BY <1>1, <1>2, TypeCorrect, FlightHolds, PTL DEF Spec, RoundsInOrder, Abstract!Spec

(* The timer starts nothing while paused: a round started then leaves the  *)
(* pending deadline alone.                                                 *)
THEOREM PausedTimerIsHeld == Spec => PauseHoldsTimer
<1>1. [Next]_vars => [paused /\ rounds' # rounds => deadline' = deadline]_vars
  <2> SUFFICES ASSUME Next, paused, rounds' # rounds PROVE deadline' = deadline
    OBVIOUS
  <2> QED
    BY DEF Next, Operator, Loop, Tasks, Refresh, TogglePause, Quit, Tick, AutoDue, TimePasses,
           SnapCollected, SnapSend, LogsCollected, LogsSend, HandleSnapshots, HandleLogLines,
           appVars, taskVars
<1> QED
  BY <1>1, PTL DEF Spec, PauseHoldsTimer

(* Pushing round k + 1 onto the window of the newest rounds up to k makes  *)
(* it the window of the newest rounds up to k + 1.                         *)
LEMMA PushWindow ==
  ASSUME NEW h \in Seq(Rounds), NEW k \in Nat, k + 1 \in Rounds, IsWindow(h, k)
  PROVE  IsWindow(Push(h, k + 1), k + 1)
<1> DEFINE n == Len(h)
           g == Push(h, k + 1)
<1>1. n \in Nat /\ n = IF k < RingCap THEN k ELSE RingCap
  BY DEF IsWindow
<1>2. \A i \in 1 .. n : h[i] = k - n + i
  BY DEF IsWindow
<1>3. CASE n = RingCap
  <2>1. h # << >>
    BY <1>3
  <2>2. /\ Tail(h) \in Seq(Rounds) /\ Len(Tail(h)) = n - 1
        /\ \A i \in 1 .. n - 1 : Tail(h)[i] = h[i + 1]
    BY <2>1, HeadTailProperties
  <2>3. g = Append(Tail(h), k + 1)
    BY <1>3 DEF Push
  <2>4. Len(g) = n /\ g[n] = k + 1
    BY <1>1, <2>2, <2>3, AppendProperties
  <2>5. \A i \in 1 .. n - 1 : g[i] = (k + 1) - n + i
    <3>1. SUFFICES ASSUME NEW i \in 1 .. n - 1 PROVE g[i] = (k + 1) - n + i
      OBVIOUS
    <3>2. g[i] = Tail(h)[i]
      BY <1>1, <2>2, <2>3, AppendProperties
    <3>3. i + 1 \in 1 .. n /\ i \in Nat
      BY <1>1
    <3>4. h[i + 1] = k - n + (i + 1)
      BY <1>2, <3>3
    <3> QED
      BY <1>1, <2>2, <3>2, <3>3, <3>4
  <2> QED
    BY <1>1, <1>3, <2>4, <2>5 DEF IsWindow
<1>4. CASE n # RingCap
  <2>1. n = k /\ k < RingCap
    BY <1>1, <1>4
  <2>2. g = Append(h, k + 1)
    BY <1>4 DEF Push
  <2>3. Len(g) = k + 1 /\ g[k + 1] = k + 1 /\ \A i \in 1 .. k : g[i] = h[i]
    BY <2>1, <2>2, AppendProperties
  <2>4. \A i \in 1 .. k : g[i] = i
    BY <1>2, <2>1, <2>3
  <2> QED
    BY <2>1, <2>3, <2>4 DEF IsWindow
<1> QED
  BY <1>3, <1>4

(* The run history is the newest rounds shown, oldest first, none missing  *)
(* and none twice, up to the ring's capacity.                              *)
THEOREM HistoryHoldsNewestRounds == Spec => []HistoryIsWindow
<1>1. Init => HistoryIsWindow
  BY DEF Init, HistoryIsWindow, IsWindow
<1>2. TypeOK /\ FlightInv /\ HistoryIsWindow /\ [Next]_vars => HistoryIsWindow'
  <2> SUFFICES ASSUME TypeOK, FlightInv, HistoryIsWindow, [Next]_vars PROVE HistoryIsWindow'
    OBVIOUS
  <2> USE DEF taskVars, appVars
  <2>1. ASSUME NEW r \in Rounds, HandleSnapshots(r) PROVE HistoryIsWindow'
    <3>1. r = rounds /\ refreshing
      BY <2>1 DEF HandleSnapshots, FlightInv, InFlight, TypeOK, Rounds
    <3>2. shown \in Nat /\ r = shown + 1 /\ shown' = shown + 1 /\ shown + 1 \in Rounds
      BY <2>1, <3>1 DEF HandleSnapshots, FlightInv, TypeOK, Rounds
    <3>3. history' = Push(history, shown + 1) /\ history \in Seq(Rounds)
      BY <2>1, <3>2 DEF HandleSnapshots, TypeOK
    <3> QED
      BY <3>2, <3>3, PushWindow DEF HistoryIsWindow
  <2>2. CASE Refresh \/ TogglePause \/ Tick \/ TimePasses \/ Quit \/ UNCHANGED vars
    BY <2>2 DEF Refresh, TogglePause, Tick, TimePasses, Quit, vars, HistoryIsWindow
  <2>3. ASSUME NEW r \in Rounds, Tasks(r) \/ HandleLogLines(r) PROVE HistoryIsWindow'
    BY <2>3 DEF Tasks, SnapCollected, SnapSend, LogsCollected, LogsSend, HandleLogLines,
                HistoryIsWindow
  <2> QED
    BY <2>1, <2>2, <2>3 DEF Next, Operator, Loop
<1> QED
  BY <1>1, <1>2, TypeCorrect, FlightHolds, PTL DEF Spec
=============================================================================
