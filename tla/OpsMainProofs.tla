---------------------------- MODULE OpsMainProofs ----------------------------
(***************************************************************************)
(* Theorems about the process `nico ops` and `nico ops hbn`, for every     *)
(* session, every answer of forgedb and every width: the terminal is given *)
(* back, the HBN panel keeps the promise of the refresh loop and its rows  *)
(* in order, and the dashboard's screen shows the state it waits in.       *)
(***************************************************************************)
EXTENDS OpsMain, SortingProofs

Modes == {"dashboard", "hbn"}

Positions(m) == 1 .. (IF m = "dashboard" THEN 7 ELSE 9)

(* The steps at which the terminal is no longer cooked. *)
InTui == at = "loop" \/ (at = "interval" /\ mode = "dashboard")

(* The terminal is touched by no step before init_terminal, and by then    *)
(* the panic hook is in place.                                             *)
TermInv ==
  /\ mode \in Modes
  /\ at = "ended" \/ \E i \in Positions(mode) : at = Steps(mode)[i]
  /\ ~InTui => term = Cooked
  /\ InTui \/ at = "terminal" => hook

-----------------------------------------------------------------------------
(* The steps of each mode are all different. *)
LEMMA StepsDiffer ==
  ASSUME NEW m \in Modes
  PROVE  /\ Len(Steps(m)) = IF m = "dashboard" THEN 7 ELSE 9
         /\ \A i, j \in Positions(m) : Steps(m)[i] = Steps(m)[j] => i = j
BY DEF Modes, Steps, Positions

(* After goes from one step to the one that follows it. *)
LEMMA AfterStep ==
  ASSUME NEW m \in Modes, NEW i \in Positions(m)
  PROVE  After(m, Steps(m)[i]) = Steps(m)[i + 1]
<1> DEFINE here == {j \in 1 .. Len(Steps(m)) : Steps(m)[j] = Steps(m)[i]}
<1>1. 1 .. Len(Steps(m)) = Positions(m)
  BY StepsDiffer DEF Positions
<1>2. here = {i}
  BY <1>1, StepsDiffer
<1>3. Min(here) = i
  BY <1>2 DEF Min, Positions
<1>4. SelectInSeq(Steps(m), LAMBDA s : s = Steps(m)[i]) = i
  BY <1>2, <1>3 DEF SelectInSeq
<1> QED
  BY <1>4 DEF After

(* Which steps lead into the terminal and out of it. *)
LEMMA StepOrder ==
  ASSUME NEW m \in Modes, NEW i \in Positions(m), Steps(m)[i] # "loop"
  PROVE  LET step == Steps(m)[i]
             next == After(m, step)
         IN  /\ \E j \in Positions(m) : next = Steps(m)[j]
             /\ next = "terminal" => step = "hook"
             /\ next = "loop" \/ (next = "interval" /\ m = "dashboard") =>
                  step = "terminal" \/ (step = "interval" /\ m = "dashboard")
             /\ step = "terminal" \/ (step = "interval" /\ m = "dashboard") =>
                  next = "loop" \/ (next = "interval" /\ m = "dashboard")
<1>1. After(m, Steps(m)[i]) = Steps(m)[i + 1]
  BY AfterStep
<1>2. CASE m = "dashboard"
  <2>1. i \in {1, 2, 3, 4, 5, 6} /\ i + 1 \in Positions(m)
    BY <1>2 DEF Positions, Steps
  <2> QED
    BY <1>1, <1>2, <2>1 DEF Steps
<1>3. CASE m = "hbn"
  <2>1. i \in {1, 2, 3, 4, 5, 6, 7, 8} /\ i + 1 \in Positions(m)
    BY <1>3 DEF Positions, Steps
  <2> QED
    BY <1>1, <1>3, <2>1 DEF Steps
<1> QED
  BY <1>2, <1>3 DEF Modes

(* Leaving the loop gives the terminal back. *)
LEMMA LeaveRestores == ASSUME NEW exit, TermInv, Leave(exit) PROVE TermInv'
BY DEF Leave, Restored, TermInv, InTui, startVars

(* A step inside the loop that keeps the start-up state and the hook. *)
LEMMA LoopKeeps ==
  ASSUME TermInv, at = "loop", UNCHANGED <<mode, at, hook>>
  PROVE  TermInv'
BY DEF TermInv, InTui

(* What the loop does with an event keeps the invariant. *)
LEMMA DispatchKeeps == ASSUME NEW b, TermInv, at = "loop", Dispatched(b) PROVE TermInv'
<1>1. CASE b.effect = "Quit"
  BY <1>1, LeaveRestores DEF Dispatched
<1>2. CASE b.effect # "Quit"
  BY <1>2, LoopKeeps DEF Dispatched, startVars
<1> QED
  BY <1>1, <1>2

LEMMA TermInvariant == Spec => []TermInv
<1>1. Init => TermInv
  <2> SUFFICES ASSUME Init PROVE TermInv
    OBVIOUS
  <2>1. at = Steps(mode)[1] /\ 1 \in Positions(mode)
    BY DEF Init, Steps, Positions
  <2> QED
    BY <2>1 DEF Init, TermInv, InTui, Modes
<1>2. TermInv /\ [Next]_vars => TermInv'
  <2> SUFFICES ASSUME TermInv, [Next]_vars PROVE TermInv'
    OBVIOUS
  <2>1. CASE StepPasses
    <3>1. PICK i \in Positions(mode) : at = Steps(mode)[i]
      BY <2>1 DEF StepPasses, TermInv
    <3>2. /\ \E j \in Positions(mode) : at' = Steps(mode)[j]
          /\ at' = "terminal" => at = "hook"
          /\ at' = "loop" \/ (at' = "interval" /\ mode = "dashboard") => at = "terminal" \/ InTui
      BY <2>1, <3>1, StepOrder DEF StepPasses, TermInv, InTui
    <3>3. mode' = mode /\ hook' = (hook \/ at = "hook")
          /\ term' = IF at = "terminal" THEN Tui ELSE term
      BY <2>1 DEF StepPasses, startVars
    <3>4. ~InTui' => term' = Cooked
      <4>1. ASSUME at = "terminal" \/ InTui PROVE InTui'
        BY <2>1, <3>1, <3>3, <4>1, StepOrder DEF StepPasses, TermInv, InTui
      <4> QED
        BY <3>3, <4>1 DEF TermInv
    <3>5. InTui' \/ at' = "terminal" => hook'
      BY <3>2, <3>3 DEF TermInv, InTui
    <3> QED
      BY <3>2, <3>3, <3>4, <3>5 DEF TermInv
  <2>2. CASE StepFails
    <3>1. at' = "ended" /\ mode' = mode /\ at # "loop"
      BY <2>2 DEF StepFails, startVars
    <3>2. term' = Cooked
      BY <2>2 DEF StepFails, Restored, TermInv, InTui
    <3> QED
      BY <3>1, <3>2 DEF TermInv, InTui
  <2>3. CASE DrawDashboard \/ TaskPanics
    BY <2>3, LoopKeeps DEF DrawDashboard, TaskPanics, startVars
  <2>4. CASE TerminalEvent \/ TickFires \/ RoundArrives \/ LogLinesArrive \/ UpdateArrives
    <3>1. at = "loop" /\ \E b : Dispatched(b)
      BY <2>4 DEF TerminalEvent, TickFires, RoundArrives, LogLinesArrive, UpdateArrives, Waiting
    <3> QED
      BY <3>1, DispatchKeeps
  <2>5. CASE ToastArrives
    BY <2>5, LoopKeeps DEF ToastArrives, Waiting, startVars
  <2>6. CASE LoopFails
    BY <2>6, LeaveRestores DEF LoopFails
  <2>7. CASE PanelPanics
    BY <2>7 DEF PanelPanics, TermInv, InTui, startVars
  <2>8. CASE PanelKeyPressed
    BY <2>8, LeaveRestores, LoopKeeps
       DEF PanelKeyPressed, PanelRuns, Waiting, InPanel, startVars
  <2>9. CASE PanelTimer \/ RowsArrive \/ ErrorArrives \/ FetchDies
    BY <2>9, LoopKeeps
       DEF PanelTimer, RowsArrive, ErrorArrives, FetchDies, PanelRuns, Waiting, InPanel, startVars
  <2>10. CASE UNCHANGED vars
    BY <2>10 DEF vars, TermInv, InTui
  <2> QED
    BY <2>1, <2>2, <2>3, <2>4, <2>5, <2>6, <2>7, <2>8, <2>9, <2>10 DEF Next
<1> QED
  BY <1>1, <1>2, PTL DEF Spec

(* Whichever step fails, whichever task panics, whatever ends the loop:    *)
(* the terminal is as it was found (init_terminal, restore_terminal and    *)
(* the panic hook of lib.rs).                                              *)
THEOREM TerminalGivenBack == Spec => []TerminalRestored
<1>1. TermInv => TerminalRestored
  BY DEF TermInv, TerminalRestored, InTui
<1> QED
  BY <1>1, TermInvariant, PTL

-----------------------------------------------------------------------------
(* A panel is a record of its eight fields. *)
IsPanel(p) ==
  p = [rows |-> p.rows, sort |-> p.sort, error |-> p.error, refreshing |-> p.refreshing,
       refreshed |-> p.refreshed, started |-> p.started, shown |-> p.shown, fetch |-> p.fetch]

(* The refreshing flag is up exactly while the newest round has not been   *)
(* shown, and a fetch that can still answer is that round's.               *)
PanelInv ==
  /\ IsPanel(panel)
  /\ panel.started \in Nat
  /\ panel.refreshing \in BOOLEAN
  /\ panel.refreshing <=> panel.shown # panel.started
  /\ panel.fetch = "running" => panel.refreshing
  /\ at \notin {"loop", "ended"} => panel.started = 1 /\ panel.shown = 0

(* A new panel has its first round under way. *)
LEMMA NewPanelIs ==
  ASSUME NEW sort
  PROVE  /\ IsPanel(NewPanel(sort))
         /\ NewPanel(sort).started = 1 /\ NewPanel(sort).shown = 0
         /\ NewPanel(sort).refreshing /\ NewPanel(sort).refreshing \in BOOLEAN
BY DEF NewPanel, IsPanel

(* Starting a round: from a panel at rest only. *)
LEMMA RefreshIsStart ==
  ASSUME PanelInv, at = "loop", panel' = PanelRefresh(panel), UNCHANGED at
  PROVE  /\ PanelInv'
         /\ UNCHANGED <<panel.started, panel.shown>> \/ Rounds!Start
<1>1. CASE panel.refreshing
  BY <1>1 DEF PanelInv, PanelRefresh
<1>2. CASE ~panel.refreshing
  <2>1. /\ IsPanel(panel') /\ panel'.refreshing /\ panel'.refreshing \in BOOLEAN
        /\ panel'.started = panel.started + 1 /\ panel'.shown = panel.shown
    BY <1>2 DEF PanelInv, IsPanel, PanelRefresh, Fetch
  <2> QED
    BY <1>2, <2>1 DEF PanelInv, Rounds!Start
<1> QED
  BY <1>1, <1>2

(* Sorting changes no round. *)
LEMMA SortIsStutter ==
  ASSUME PanelInv, panel' = PanelSort(panel), UNCHANGED at
  PROVE  PanelInv' /\ UNCHANGED <<panel.started, panel.shown>>
<1>1. /\ IsPanel(panel') /\ panel'.refreshing = panel.refreshing /\ panel'.fetch = panel.fetch
      /\ panel'.started = panel.started /\ panel'.shown = panel.shown
  BY DEF PanelInv, IsPanel, PanelSort
<1> QED
  BY <1>1 DEF PanelInv

(* An answer, rows or an error, shows the round that is under way. *)
LEMMA AnswerIsShow ==
  ASSUME PanelInv, at = "loop", UNCHANGED at, panel.fetch = "running",
         panel' = PanelError(panel) \/ \E rows : panel' = PanelRows(panel, rows)
  PROVE  PanelInv' /\ Rounds!Show
<1>1. /\ IsPanel(panel') /\ panel'.refreshing = FALSE /\ panel'.fetch = "idle"
      /\ panel'.started = panel.started /\ panel'.shown = panel.started
  BY DEF PanelInv, IsPanel, PanelError, PanelRows
<1>2. panel.shown # panel.started
  BY DEF PanelInv
<1> QED
  BY <1>1, <1>2 DEF PanelInv, Rounds!Show

(* The panel's timer, its keys and its answers, whatever they are, start   *)
(* no round before the last one is shown (run_hbn_event_loop).             *)
THEOREM PanelKeepsRounds == Spec => PanelImplementsRounds
<1>1. Init => PanelInv /\ Rounds!Init
  BY NewPanelIs DEF Init, PanelInv, Rounds!Init, NewPanel
<1>2. PanelInv /\ [Next]_vars => PanelInv' /\ [Rounds!Next]_<<panel.started, panel.shown>>
  <2> SUFFICES ASSUME PanelInv, [Next]_vars
               PROVE  PanelInv' /\ [Rounds!Next]_<<panel.started, panel.shown>>
    OBVIOUS
  <2> DEFINE Kept == panel' = panel /\ (at' \in {"loop", "ended"} \/ at \notin {"loop", "ended"})
  <2>1. ASSUME Kept PROVE PanelInv' /\ UNCHANGED <<panel.started, panel.shown>>
    BY <2>1 DEF PanelInv
  <2>2. CASE StepPasses
    <3>1. CASE at # "sort"
      <4>1. Kept
        BY <2>2, <3>1 DEF StepPasses
      <4> QED
        BY <2>1, <4>1
    <3>2. CASE at = "sort"
      <4>1. PICK sort : panel' = NewPanel(sort)
        BY <2>2, <3>2 DEF StepPasses
      <4>2. panel.started = 1 /\ panel.shown = 0
        BY <3>2 DEF PanelInv
      <4> QED
        BY <4>1, <4>2, NewPanelIs DEF PanelInv
    <3> QED
      BY <3>1, <3>2
  <2>3. CASE StepFails
    <3>1. Kept
      BY <2>3 DEF StepFails
    <3> QED
      BY <2>1, <3>1
  <2>4. CASE DrawDashboard \/ ToastArrives \/ LoopFails \/ TaskPanics \/ PanelPanics
    <3>1. Kept
      BY <2>4 DEF DrawDashboard, ToastArrives, LoopFails, TaskPanics, PanelPanics, Waiting, Leave
    <3> QED
      BY <2>1, <3>1
  <2>5. CASE TerminalEvent \/ TickFires \/ RoundArrives \/ LogLinesArrive \/ UpdateArrives
    <3>1. at = "loop" /\ \E b : Dispatched(b)
      BY <2>5 DEF TerminalEvent, TickFires, RoundArrives, LogLinesArrive, UpdateArrives, Waiting
    <3>2. Kept
      BY <3>1 DEF Dispatched, Leave
    <3> QED
      BY <2>1, <3>2
  <2>6. CASE PanelKeyPressed
    <3>1. at = "loop"
      BY <2>6 DEF PanelKeyPressed, PanelRuns, Waiting
    <3>2. PICK key : \/ Leave(0)
                     \/ InPanel(PanelKey(panel, key))
      BY <2>6 DEF PanelKeyPressed
    <3>3. CASE Leave(0)
      <4>1. Kept
        BY <3>3 DEF Leave
      <4> QED
        BY <2>1, <4>1
    <3>4. CASE InPanel(PanelKey(panel, key))
      <4>1. \/ panel' = PanelRefresh(panel) \/ panel' = PanelSort(panel) \/ panel' = panel
        BY <3>4, Zenon DEF InPanel, PanelKey
      <4>2. UNCHANGED at
        BY <3>4 DEF InPanel
      <4> QED
        BY <2>1, <3>1, <4>1, <4>2, RefreshIsStart, SortIsStutter DEF Rounds!Next
    <3> QED
      BY <3>2, <3>3, <3>4
  <2>7. CASE PanelTimer
    BY <2>7, RefreshIsStart DEF PanelTimer, PanelRuns, Waiting, InPanel, Rounds!Next
  <2>8. CASE RowsArrive \/ ErrorArrives
    BY <2>8, AnswerIsShow DEF RowsArrive, ErrorArrives, PanelRuns, Waiting, InPanel, Rounds!Next
  <2>9. CASE FetchDies
    <3>1. panel' = [panel EXCEPT !.fetch = "dead"] /\ UNCHANGED at
      BY <2>9 DEF FetchDies, InPanel
    <3>2. /\ IsPanel(panel') /\ panel'.refreshing = panel.refreshing /\ panel'.fetch = "dead"
          /\ panel'.started = panel.started /\ panel'.shown = panel.shown
      BY <3>1 DEF PanelInv, IsPanel
    <3> QED
      BY <3>1, <3>2 DEF PanelInv
  <2>10. CASE UNCHANGED vars
    <3>1. Kept
      BY <2>10 DEF vars
    <3> QED
      BY <2>1, <3>1
  <2> QED
    BY <2>2, <2>3, <2>4, <2>5, <2>6, <2>7, <2>8, <2>9, <2>10 DEF Next
<1> QED
  BY <1>1, <1>2, PTL DEF Spec, PanelImplementsRounds, Rounds!Spec

-----------------------------------------------------------------------------
(* Each column orders rows up to ties.                                     *)
LEMMA BeforeIs ==
  ASSUME NEW sort \in Columns
  PROVE  /\ \A a \in HbnRow : ~Before(sort, a, a)
         /\ \A a, b \in HbnRow : Before(sort, a, b) => ~Before(sort, b, a)
         /\ \A a, b, c \in HbnRow : Before(sort, a, b) /\ Before(sort, b, c) => Before(sort, a, c)
         /\ \A a, b, c \in HbnRow : ~Before(sort, a, b) /\ ~Before(sort, b, c) => ~Before(sort, a, c)
<1>1. \A a \in HbnRow : a.machine \in Nat /\ a.age \in Nat /\ StatusRank(a.status) \in Nat
  BY DEF HbnRow, Statuses, StatusRank
<1>2. CASE sort = "machine"
  <2>1. \A a, b : Before(sort, a, b) <=> a.machine < b.machine
    BY <1>2 DEF Before, MachineBefore
  <2> QED
    BY <1>1, <2>1
<1>3. CASE sort = "status"
  <2>1. \A a, b : Before(sort, a, b) <=> TriageBefore(a, b)
    BY <1>3 DEF Before
  <2>2. \A a \in HbnRow : ~TriageBefore(a, a)
    BY <1>1 DEF TriageBefore
  <2>3. \A a, b \in HbnRow : TriageBefore(a, b) => ~TriageBefore(b, a)
    BY <1>1 DEF TriageBefore
  <2>4. ASSUME NEW a \in HbnRow, NEW b \in HbnRow, NEW c \in HbnRow
        PROVE  /\ TriageBefore(a, b) /\ TriageBefore(b, c) => TriageBefore(a, c)
               /\ ~TriageBefore(a, b) /\ ~TriageBefore(b, c) => ~TriageBefore(a, c)
    <3>1. /\ a.machine \in Nat /\ a.age \in Nat /\ StatusRank(a.status) \in Nat
          /\ b.machine \in Nat /\ b.age \in Nat /\ StatusRank(b.status) \in Nat
          /\ c.machine \in Nat /\ c.age \in Nat /\ StatusRank(c.status) \in Nat
      BY <1>1
    <3> QED
      BY <3>1 DEF TriageBefore
  <2> QED
    BY <2>1, <2>2, <2>3, <2>4
<1> QED
  BY <1>2, <1>3 DEF Columns

(* sort_rows keeps the rows and leaves none before one it should follow. *)
LEMMA SortRowsIs ==
  ASSUME NEW rows \in Seq(HbnRow), NEW sort \in Columns
  PROVE  LET s == SortRows(rows, sort)
         IN  /\ s \in Seq(HbnRow) /\ Range(s) = Range(rows)
             /\ \A i, j \in DOMAIN s : i < j => ~Before(sort, s[j], s[i])
<1> DEFINE S == DOMAIN rows
           First(i, j) == Before(sort, rows[i], rows[j]) \/ (~Before(sort, rows[j], rows[i]) /\ i < j)
           R == {p \in S \X S : First(p[1], p[2])}
           order == Sorted(S, R)
           s == SortRows(rows, sort)
<1>1. S = 1 .. Len(rows) /\ Len(rows) \in Nat /\ \A i \in S : rows[i] \in HbnRow /\ i \in Nat
  OBVIOUS
<1>2. IsFiniteSet(S) /\ Cardinality(S) = Len(rows)
  BY <1>1, FS_Interval
<1>3. s = [k \in S |-> rows[order[k]]]
  BY DEF SortRows
<1>4. \A i, j \in S : <<i, j>> \in R <=> First(i, j)
  OBVIOUS
<1> HIDE DEF R
<1>5. Orders(R, S)
  <2>1. \A i \in S : <<i, i>> \notin R
    BY <1>1, <1>4, BeforeIs
  <2>2. \A i, j \in S : i # j => <<i, j>> \in R \/ <<j, i>> \in R
    <3>1. \A i, j \in S : i # j => i < j \/ j < i
      BY <1>1
    <3> QED
      BY <1>1, <1>4, <3>1, BeforeIs
  <2>3. ASSUME NEW i \in S, NEW j \in S, NEW k \in S, <<i, j>> \in R, <<j, k>> \in R
        PROVE  <<i, k>> \in R
    <3> DEFINE a == rows[i]
               b == rows[j]
               c == rows[k]
    <3>1. a \in HbnRow /\ b \in HbnRow /\ c \in HbnRow /\ (i < j /\ j < k => i < k)
      BY <1>1
    <3>2. /\ Before(sort, a, b) \/ (~Before(sort, b, a) /\ i < j)
          /\ Before(sort, b, c) \/ (~Before(sort, c, b) /\ j < k)
      BY <1>4, <2>3
    <3>3. (<<i, k>> \in R) <=> (Before(sort, a, c) \/ (~Before(sort, c, a) /\ i < k))
      BY <1>4
    <3> HIDE DEF a, b, c
    <3>4. /\ Before(sort, a, b) => ~Before(sort, b, a)
          /\ Before(sort, b, c) => ~Before(sort, c, b)
          /\ Before(sort, a, b) /\ Before(sort, b, c) => Before(sort, a, c)
          /\ ~Before(sort, c, b) /\ ~Before(sort, b, a) => ~Before(sort, c, a)
          /\ ~Before(sort, a, c) /\ ~Before(sort, c, b) => ~Before(sort, a, b)
          /\ ~Before(sort, b, a) /\ ~Before(sort, a, c) => ~Before(sort, b, c)
      BY <3>1, BeforeIs
    <3> QED
      BY <3>1, <3>2, <3>3, <3>4
  <2> QED
    BY <2>1, <2>2, <2>3 DEF Orders
<1> HIDE DEF First
<1>6. /\ order \in Seq(S) /\ Len(order) = Cardinality(S) /\ Range(order) = S
      /\ \A i, j \in 1 .. Len(order) : i < j <=> <<order[i], order[j]>> \in R
  BY <1>2, <1>5, SortedIs
<1> HIDE DEF order, s
<1>7. Len(order) = Len(rows) /\ DOMAIN order = S /\ \A k \in S : order[k] \in S
  BY <1>1, <1>2, <1>6
<1>8. DOMAIN s = S /\ \A k \in S : s[k] = rows[order[k]] /\ s[k] \in HbnRow
  BY <1>1, <1>3, <1>7
<1>9. s \in Seq(HbnRow)
  <2>1. s \in [1 .. Len(rows) -> HbnRow]
    BY <1>1, <1>3, <1>8
  <2> QED
    BY <1>1, <2>1
<1>10. Range(s) = Range(rows)
  <2>1. \A k \in S : s[k] \in Range(rows)
    BY <1>7, <1>8 DEF Range
  <2>2. \A i \in S : \E k \in S : order[k] = i
    BY <1>6, <1>7 DEF Range
  <2>3. \A i \in S : \E k \in S : s[k] = rows[i]
    BY <1>8, <2>2
  <2> QED
    BY <1>8, <2>1, <2>3 DEF Range
<1>11. ASSUME NEW i \in S, NEW j \in S, i < j PROVE ~Before(sort, s[j], s[i])
  <2>1. <<order[i], order[j]>> \in R
    BY <1>1, <1>6, <1>7, <1>11
  <2>2. First(order[i], order[j])
    BY <1>4, <1>7, <2>1
  <2>3. Before(sort, rows[order[i]], rows[order[j]]) => ~Before(sort, rows[order[j]], rows[order[i]])
    BY <1>1, <1>7, BeforeIs
  <2>4. ~Before(sort, rows[order[j]], rows[order[i]])
    BY <2>2, <2>3 DEF First
  <2> QED
    BY <1>8, <2>4
<1> QED
  BY <1>8, <1>9, <1>10, <1>11 DEF s

(* What a step of the process may do to the panel. *)
LEMMA PanelChanges ==
  ASSUME [Next]_vars
  PROVE  \/ panel' = panel \/ panel' = PanelRefresh(panel) \/ panel' = PanelSort(panel)
         \/ panel' = PanelError(panel) \/ panel' = [panel EXCEPT !.fetch = "dead"]
         \/ \E sort \in Columns : panel' = NewPanel(sort)
         \/ \E rows \in HbnAnswers : panel' = PanelRows(panel, rows)
<1>1. CASE StepPasses
  BY <1>1 DEF StepPasses, Columns
<1>2. CASE StepFails \/ DrawDashboard \/ ToastArrives \/ LoopFails \/ TaskPanics \/ PanelPanics \/ UNCHANGED vars
  BY <1>2 DEF StepFails, DrawDashboard, ToastArrives, LoopFails, TaskPanics, PanelPanics, Leave, vars
<1>3. CASE TerminalEvent \/ TickFires \/ RoundArrives \/ LogLinesArrive \/ UpdateArrives
  <2>1. \E b : Dispatched(b)
    BY <1>3 DEF TerminalEvent, TickFires, RoundArrives, LogLinesArrive, UpdateArrives
  <2> QED
    BY <2>1 DEF Dispatched, Leave
<1>4. CASE PanelKeyPressed
  <2>1. PICK key : Leave(0) \/ InPanel(PanelKey(panel, key))
    BY <1>4 DEF PanelKeyPressed
  <2>2. panel' = panel \/ panel' = PanelKey(panel, key)
    BY <2>1 DEF Leave, InPanel
  <2>3. PanelKey(panel, key) \in {PanelRefresh(panel), PanelSort(panel), panel}
    BY Zenon DEF PanelKey
  <2> QED
    BY <2>2, <2>3
<1>5. CASE PanelTimer \/ RowsArrive \/ ErrorArrives \/ FetchDies
  BY <1>5 DEF PanelTimer, RowsArrive, ErrorArrives, FetchDies, InPanel
<1> QED
  BY <1>1, <1>2, <1>3, <1>4, <1>5 DEF Next

(* An error, a new round and the death of one leave rows and column alone. *)
LEMMA SameRows ==
  ASSUME NEW p, IsPanel(p), NEW q, q = Fetch(p) \/ q = PanelError(p) \/ q = [p EXCEPT !.fetch = "dead"]
  PROVE  IsPanel(q) /\ q.sort = p.sort /\ q.rows = p.rows
<1>1. p = [rows |-> p.rows, sort |-> p.sort, error |-> p.error, refreshing |-> p.refreshing,
           refreshed |-> p.refreshed, started |-> p.started, shown |-> p.shown, fetch |-> p.fetch]
  BY DEF IsPanel
<1>2. CASE q = Fetch(p)
  BY <1>1, <1>2 DEF IsPanel, Fetch
<1>3. CASE q = PanelError(p)
  BY <1>1, <1>3 DEF IsPanel, PanelError
<1>4. CASE q = [p EXCEPT !.fetch = "dead"]
  BY <1>1, <1>4 DEF IsPanel
<1> QED
  BY <1>2, <1>3, <1>4

(* An answer is sorted by the column chosen, a new column sorts the rows. *)
LEMMA NewRows ==
  ASSUME NEW p, IsPanel(p), NEW q, NEW answer
  PROVE  /\ q = PanelRows(p, answer) => IsPanel(q) /\ q.sort = p.sort /\ q.rows = SortRows(answer, p.sort)
         /\ q = PanelSort(p) =>
              IsPanel(q) /\ q.sort = Other(p.sort) /\ q.rows = SortRows(p.rows, Other(p.sort))
<1>1. p = [rows |-> p.rows, sort |-> p.sort, error |-> p.error, refreshing |-> p.refreshing,
           refreshed |-> p.refreshed, started |-> p.started, shown |-> p.shown, fetch |-> p.fetch]
  BY DEF IsPanel
<1>2. ASSUME NEW s,
             q = [p EXCEPT !.rows = s, !.error = FALSE, !.refreshing = FALSE,
                           !.refreshed = TRUE, !.shown = p.started, !.fetch = "idle"]
      PROVE  IsPanel(q) /\ q.sort = p.sort /\ q.rows = s
  BY <1>1, <1>2 DEF IsPanel
<1>3. ASSUME NEW s, NEW sort, q = [p EXCEPT !.sort = sort, !.rows = s]
      PROVE  IsPanel(q) /\ q.sort = sort /\ q.rows = s
  BY <1>1, <1>3 DEF IsPanel
<1>4. ASSUME q = PanelRows(p, answer)
      PROVE  IsPanel(q) /\ q.sort = p.sort /\ q.rows = SortRows(answer, p.sort)
  <2> DEFINE s == SortRows(answer, p.sort)
  <2>1. q = [p EXCEPT !.rows = s, !.error = FALSE, !.refreshing = FALSE,
                      !.refreshed = TRUE, !.shown = p.started, !.fetch = "idle"]
    BY <1>4 DEF PanelRows
  <2> HIDE DEF s
  <2>2. IsPanel(q) /\ q.sort = p.sort /\ q.rows = s
    BY <1>2, <2>1
  <2> QED
    BY <2>2 DEF s
<1>5. ASSUME q = PanelSort(p)
      PROVE  IsPanel(q) /\ q.sort = Other(p.sort) /\ q.rows = SortRows(p.rows, Other(p.sort))
  <2> DEFINE s == SortRows(p.rows, Other(p.sort))
             sort == Other(p.sort)
  <2>1. q = [p EXCEPT !.sort = sort, !.rows = s]
    BY <1>1, <1>5 DEF PanelSort
  <2> HIDE DEF s, sort
  <2>2. IsPanel(q) /\ q.sort = sort /\ q.rows = s
    BY <1>3, <2>1
  <2> QED
    BY <2>2 DEF s, sort
<1> QED
  BY <1>4, <1>5

(* The panel holds rows of forgedb in the order of its column.             *)
RowsInv ==
  /\ IsPanel(panel)
  /\ panel.sort \in Columns /\ panel.rows \in Seq(HbnRow)
  /\ RowsSorted

(* The rows stand in the order the strip announces: `s` sorts what is      *)
(* shown, a late answer is sorted by the column chosen meanwhile, and an   *)
(* error keeps the rows that stand (run_hbn_event_loop, sort_rows).        *)
THEOREM PanelRowsSorted == Spec => []RowsSorted
<1>1. ASSUME NEW sort \in Columns
      PROVE  LET p == NewPanel(sort)
             IN  IsPanel(p) /\ p.sort \in Columns /\ p.rows = << >>
  BY DEF IsPanel, NewPanel
<1>2. ASSUME Init PROVE RowsInv
  <2>1. "status" \in Columns /\ panel = NewPanel("status")
    BY <1>2 DEF Init, Columns
  <2>2. IsPanel(panel) /\ panel.sort \in Columns /\ panel.rows = << >>
    BY <1>1, <2>1
  <2> QED
    BY <2>2 DEF RowsInv, RowsSorted
<1>3. RowsInv /\ [Next]_vars => RowsInv'
  <2> SUFFICES ASSUME RowsInv, [Next]_vars PROVE RowsInv'
    OBVIOUS
  <2> DEFINE Neat(p) == /\ IsPanel(p) /\ p.sort \in Columns /\ p.rows \in Seq(HbnRow)
                        /\ \A i, j \in DOMAIN p.rows : i < j => ~Before(p.sort, p.rows[j], p.rows[i])
  <2>1. Neat(panel) /\ (RowsInv' <=> Neat(panel'))
    BY DEF RowsInv, RowsSorted
  <2>0. IsPanel(panel)
    BY <2>1
  <2>2. ASSUME NEW p, IsPanel(p), p.sort = panel.sort, p.rows = panel.rows PROVE Neat(p)
    BY <2>1, <2>2
  <2>3. ASSUME NEW q, q = Fetch(panel) \/ q = PanelError(panel) \/ q = [panel EXCEPT !.fetch = "dead"]
        PROVE  Neat(q)
    <3>1. IsPanel(q) /\ q.sort = panel.sort /\ q.rows = panel.rows
      BY <2>0, <2>3, SameRows
    <3> HIDE DEF Neat
    <3> QED
      BY <2>2, <3>1
  <2>4. \A q : q = PanelRefresh(panel) => Neat(q)
    <3> HIDE DEF Neat
    <3> QED
      BY <2>1, <2>3 DEF PanelRefresh
  <2>5. ASSUME NEW q, q = PanelSort(panel) PROVE Neat(q)
    <3> DEFINE sort == Other(panel.sort)
               s == SortRows(panel.rows, sort)
    <3>1. sort \in Columns
      BY DEF Other, Columns
    <3>2. s \in Seq(HbnRow) /\ \A i, j \in DOMAIN s : i < j => ~Before(sort, s[j], s[i])
      BY <2>1, <3>1, SortRowsIs
    <3>3. IsPanel(q) /\ q.sort = sort /\ q.rows = s
      BY <2>0, <2>5, NewRows
    <3> HIDE DEF sort, s
    <3> QED
      BY <3>1, <3>2, <3>3
  <2>6. ASSUME NEW rows \in HbnAnswers, NEW q, q = PanelRows(panel, rows) PROVE Neat(q)
    <3> DEFINE s == SortRows(rows, panel.sort)
    <3>1. rows \in Seq(HbnRow)
      BY AnswersAssumption
    <3>2. s \in Seq(HbnRow) /\ \A i, j \in DOMAIN s : i < j => ~Before(panel.sort, s[j], s[i])
      BY <2>1, <3>1, SortRowsIs
    <3>3. IsPanel(q) /\ q.sort = panel.sort /\ q.rows = s
      BY <2>0, <2>6, NewRows
    <3> HIDE DEF s
    <3> QED
      BY <2>1, <3>2, <3>3
  <2>7. ASSUME NEW sort \in Columns PROVE Neat(NewPanel(sort))
    <3>1. LET p == NewPanel(sort) IN IsPanel(p) /\ p.sort \in Columns /\ p.rows = << >>
      BY <1>1
    <3> QED
      BY <3>1
  <2> HIDE DEF Neat
  <2> QED
    BY <2>1, <2>3, <2>4, <2>5, <2>6, <2>7, PanelChanges
<1>4. RowsInv => RowsSorted
  BY DEF RowsInv
<1> QED
  BY <1>2, <1>3, <1>4, PTL DEF Spec

-----------------------------------------------------------------------------
(* What the operator sees of the reducer's state: b shows what a shows. *)
SameView(a, b) ==
  /\ b.layout = a.layout /\ b.overlay = a.overlay /\ b.popup = a.popup /\ b.chooser = a.chooser
  /\ b.snaps = a.snaps /\ b.deltas = a.deltas /\ b.history = a.history
  /\ b.focus = a.focus /\ b.spotlightFocus = a.spotlightFocus
  /\ b.logs = a.logs /\ b.logsScroll = a.logsScroll
  /\ b.drillScroll = a.drillScroll /\ b.overlayScroll = a.overlayScroll
  /\ b.mouse = a.mouse /\ b.paused = a.paused
  /\ b.refreshing = a.refreshing /\ b.refreshed = a.refreshed /\ (a.refreshing => b.frame = a.frame)
  /\ b.toast > 0 <=> a.toast > 0

(* The incident cards are the same. *)
LEMMA SameCards == ASSUME NEW a, NEW b, SameView(a, b) PROVE Cards(b) = Cards(a)
<1> DEFINE T(snaps) == {i \in DOMAIN snaps : snaps[i].status \notin Good}
           Rank(snaps, deltas, k) == 3 * Severity(snaps[k].status) + Novelty(deltas[snaps[k].name])
           R(snaps, deltas) ==
             {p \in T(snaps) \X T(snaps) :
                \/ Rank(snaps, deltas, p[1]) < Rank(snaps, deltas, p[2])
                \/ Rank(snaps, deltas, p[1]) = Rank(snaps, deltas, p[2]) /\ p[1] < p[2]}
           C(snaps, order) == [k \in DOMAIN order |-> snaps[order[k]]]
<1>1. \A x : Cards(x) = C(x.snaps, Sorted(T(x.snaps), R(x.snaps, x.deltas)))
  BY DEF Cards, Precedes
<1>2. a.snaps = b.snaps /\ a.deltas = b.deltas
  BY DEF SameView
<1> HIDE DEF C, R, T
<1> QED
  BY <1>1, <1>2

(* So is what the grid focus is on. *)
LEMMA SameFocused ==
  ASSUME NEW a, NEW b, SameView(a, b) PROVE Focused(b) = Focused(a) /\ (LogsDominant(b) <=> LogsDominant(a))
<1>1. Focused(b) = Focused(a)
  BY DEF SameView, Focused
<1> QED
  BY <1>1 DEF SameView, LogsDominant

(* So is the header, whose throbber turns only while a round is in flight. *)
LEMMA SameHeader == ASSUME NEW a, NEW b, SameView(a, b) PROVE Header(b) = Header(a) /\ Throbber(b) = Throbber(a)
<1>1. Throbber(b) = Throbber(a)
  BY DEF SameView, Throbber
<1>2. Header(b) = Header(a)
  BY <1>1 DEF SameView, Header
<1> QED
  BY <1>1, <1>2

(* So are the drill panel and the findings. *)
LEMMA SameDrill ==
  ASSUME NEW a, NEW b, SameView(a, b)
  PROVE  Drill(b) = Drill(a) /\ \A full, scroll : Findings(b, full, scroll) = Findings(a, full, scroll)
<1>1. ASSUME NEW full, NEW scroll PROVE Findings(b, full, scroll) = Findings(a, full, scroll)
  BY SameFocused DEF Findings
<1>2. LogsPanel(b) = LogsPanel(a)
  BY DEF SameView, LogsPanel
<1>3. Drill(b) = Drill(a)
  <2>1. b.drillScroll = a.drillScroll
    BY DEF SameView
  <2>2. Findings(b, FALSE, b.drillScroll) = Findings(a, FALSE, a.drillScroll)
    BY <1>1, <2>1, Zenon
  <2> QED
    BY <1>2, <2>2, SameFocused, Zenon DEF Drill
<1> QED
  BY <1>1, <1>3

(* So is what lies over them. *)
LEMMA SameOverlays ==
  ASSUME NEW a, NEW b, SameView(a, b), NEW w PROVE DrawnOverlay(b, w) = DrawnOverlay(a, w)
<1>1. PopupBody(b) = PopupBody(a)
  BY SameHeader DEF SameView, PopupBody
<1>2. ChooserBody(b) = ChooserBody(a)
  BY DEF SameView, ChooserBody
<1>3. OverlayBody(b) = OverlayBody(a)
  <2>1. b.overlay = a.overlay /\ b.overlayScroll = a.overlayScroll /\ b.logs = a.logs /\ b.logsScroll = a.logsScroll
    BY DEF SameView
  <2>2. Findings(b, TRUE, b.overlayScroll) = Findings(a, TRUE, a.overlayScroll)
    <3>1. \A full, scroll : Findings(b, full, scroll) = Findings(a, full, scroll)
      BY SameDrill
    <3> QED
      BY <2>1, <3>1, Zenon
  <2> QED
    BY <1>1, <1>2, <2>1, <2>2, Zenon DEF OverlayBody
<1> QED
  BY <1>3 DEF SameView, DrawnOverlay, Overlay

(* So are the rows of Spotlight. *)
LEMMA SameRowsShown ==
  ASSUME NEW a, NEW b, SameView(a, b) PROVE IncidentRows(b) = IncidentRows(a) /\ GreenNames(b) = GreenNames(a)
<1>1. Cards(b) = Cards(a) /\ b.spotlightFocus = a.spotlightFocus
  BY SameCards DEF SameView
<1>2. IncidentRows(b) = IncidentRows(a)
  BY <1>1 DEF IncidentRows
<1>3. GreenNames(b) = GreenNames(a)
  BY DEF GreenNames, SameView
<1> QED
  BY <1>2, <1>3

(* So are all of the screen but the flashes, and where its cards are. *)
LEMMA SameScreen ==
  ASSUME NEW a, NEW b, SameView(a, b), NEW w
  PROVE  Steady(View(b, w)) = Steady(View(a, w)) /\ Regions(b, w) = Regions(a, w)
<1>1. Regions(b, w) = Regions(a, w)
  BY DEF Regions, SameView
<1> DEFINE still(cards) == [i \in DOMAIN cards |-> [cards[i] EXCEPT !.flash = FALSE]]
           Quiet(view)  == [view EXCEPT !.cards = still(@)]
<1>2. Quiet(ScorecardView(b, w)) = Quiet(ScorecardView(a, w))
  <2>1. still(Grid(b, w)) = still(Grid(a, w))
    <3>1. /\ b.snaps = a.snaps /\ b.deltas = a.deltas /\ b.history = a.history /\ b.focus = a.focus
      BY DEF SameView
    <3>2. DOMAIN Grid(b, w) = DOMAIN a.snaps /\ DOMAIN Grid(a, w) = DOMAIN a.snaps
      BY <3>1 DEF Grid
    <3> DEFINE card(n, st, ev, fo, ba, fl, sp) ==
                 [name |-> n, status |-> st, evidence |-> ev, focused |-> fo, badge |-> ba, flash |-> fl, spark |-> sp]
    <3>3. ASSUME NEW n, NEW st, NEW ev, NEW fo, NEW ba, NEW fl, NEW sp, NEW off
          PROVE  [card(n, st, ev, fo, ba, fl, sp) EXCEPT !.flash = off] = card(n, st, ev, fo, ba, off, sp)
      OBVIOUS
    <3>4. ASSUME NEW i PROVE [Scorecard(b, i, w) EXCEPT !.flash = FALSE] = [Scorecard(a, i, w) EXCEPT !.flash = FALSE]
      <4> DEFINE badge(x) == IF x.deltas[x.snaps[i + 1].name] = "Unchanged" THEN "none" ELSE x.deltas[x.snaps[i + 1].name]
                 spark(x) == Sparkline(x.history, x.snaps[i + 1].name, (w \div ColsFor(w)) - 2)
                 here(x)  == i = x.focus
                 flash(x) == x.ticked /\ x.pulses[x.snaps[i + 1].name] > 0
                 s(x)     == x.snaps[i + 1]
                 no       == FALSE
      <4>1. ASSUME NEW x
            PROVE  Scorecard(x, i, w) = card(s(x).name, s(x).status, s(x).evidence, here(x), badge(x), flash(x), spark(x))
        BY DEF Scorecard
      <4>2. badge(b) = badge(a) /\ spark(b) = spark(a) /\ here(b) = here(a) /\ s(b) = s(a)
        BY <3>1
      <4> HIDE DEF badge, spark, here, flash, s, card, no
      <4>3. [Scorecard(b, i, w) EXCEPT !.flash = no]
              = card(s(b).name, s(b).status, s(b).evidence, here(b), badge(b), no, spark(b))
        BY <3>3, <4>1
      <4>4. [Scorecard(a, i, w) EXCEPT !.flash = no]
              = card(s(a).name, s(a).status, s(a).evidence, here(a), badge(a), no, spark(a))
        BY <3>3, <4>1
      <4> QED
        BY <4>2, <4>3, <4>4, Zenon DEF no
    <3>5. ASSUME NEW i \in DOMAIN a.snaps
          PROVE  Grid(b, w)[i] = Scorecard(b, i - 1, w) /\ Grid(a, w)[i] = Scorecard(a, i - 1, w)
      BY <3>1 DEF Grid
    <3>6. ASSUME NEW i \in DOMAIN a.snaps
          PROVE  [Grid(b, w)[i] EXCEPT !.flash = FALSE] = [Grid(a, w)[i] EXCEPT !.flash = FALSE]
      BY <3>4, <3>5, Zenon
    <3> QED
      BY <3>2, <3>6
  <2> HIDE DEF still
  <2>2. ASSUME NEW h, NEW g, NEW d, NEW t, NEW o
        PROVE  Quiet([layout |-> "Scorecard", header |-> h, cards |-> g, drill |-> d, hint |-> t, overlay |-> o])
                 = [layout |-> "Scorecard", header |-> h, cards |-> still(g), drill |-> d, hint |-> t, overlay |-> o]
    OBVIOUS
  <2>3. HintBar(b) = HintBar(a)
    BY DEF HintBar, SameView
  <2> HIDE DEF Quiet
  <2>4. Quiet(ScorecardView(b, w)) = [layout |-> "Scorecard", header |-> Header(b), cards |-> still(Grid(b, w)),
                                      drill |-> Drill(b), hint |-> HintBar(b), overlay |-> DrawnOverlay(b, w)]
    BY <2>2 DEF ScorecardView
  <2>5. Quiet(ScorecardView(a, w)) = [layout |-> "Scorecard", header |-> Header(a), cards |-> still(Grid(a, w)),
                                      drill |-> Drill(a), hint |-> HintBar(a), overlay |-> DrawnOverlay(a, w)]
    BY <2>2 DEF ScorecardView
  <2> QED
    BY <2>1, <2>3, <2>4, <2>5, SameHeader, SameDrill, SameOverlays, Zenon
<1>3. SpotlightView(b, w) = SpotlightView(a, w)
  BY SameRowsShown, SameOverlays DEF SpotlightView, SameView
<1>4. ScorecardView(b, w).layout = "Scorecard" /\ ScorecardView(a, w).layout = "Scorecard"
      /\ SpotlightView(b, w).layout = "Spotlight" /\ SpotlightView(a, w).layout = "Spotlight"
  BY DEF ScorecardView, SpotlightView
<1>5. a.layout = b.layout
  BY DEF SameView
<1> QED
  BY <1>1, <1>2, <1>3, <1>4, <1>5 DEF Steady, View

(* The fields that are drawn, and what draws and carries effects out. *)
Drawable(a) == {"dirty", "effect", "toast", "ticked", "frame", "pulses", "regions"} \subseteq DOMAIN a /\ a.toast \in Nat

(* b asks for a repaint or shows what a shows; cards are still where they *)
(* were drawn.                                                             *)
Paints(a, b) ==
  /\ DOMAIN b = DOMAIN a /\ b.toast \in Nat /\ b.regions = a.regions
  /\ b.dirty \/ SameView(a, b)

(* A state shows what it shows; an effect is not drawn. *)
LEMMA EffectUnseen ==
  ASSUME NEW a, Drawable(a)
  PROVE  Paints(a, a) /\ \A eff : Paints(a, Asks(a, eff)) /\ Paints(a, [a EXCEPT !.effect = eff])
<1>1. SameView(a, a)
  BY DEF SameView
<1>2. ASSUME NEW eff PROVE SameView(a, [a EXCEPT !.effect = eff]) /\ DOMAIN [a EXCEPT !.effect = eff] = DOMAIN a
                           /\ [a EXCEPT !.effect = eff].toast = a.toast /\ [a EXCEPT !.effect = eff].regions = a.regions
  BY DEF SameView, Drawable
<1> QED
  BY <1>1, <1>2 DEF Paints, Drawable, Asks

(* The arms that change one or two fields ask for a repaint. *)
LEMMA FieldsPaint ==
  ASSUME NEW a, Drawable(a)
  PROVE  /\ Paints(a, Dirty(a)) /\ Paints(a, SetToast(a))
         /\ Paints(a, Refresh(a)) /\ Paints(a, TogglePause(a)) /\ Paints(a, ToggleMouseCapture(a))
         /\ Paints(a, ShowSpotlight(a)) /\ Paints(a, ShowAll(a))
         /\ Paints(a, OpenDetail(a)) /\ Paints(a, OpenHelp(a)) /\ Paints(a, ShowLogs(a)) /\ Paints(a, CloseOverlay(a))
         /\ \A lines : Paints(a, LogLinesArm(a, lines))
         /\ \A entity, u : Paints(a, CorrelateUpdate(a, entity, u))
         /\ \A overlay : Opens(a, overlay).dirty /\ Paints(a, Opens(a, overlay))
<1>1. Paints(a, a)
  BY EffectUnseen
<1>3. Paints(a, Dirty(a)) /\ Paints(a, SetToast(a))
  BY NavAssumption DEF Paints, Drawable, Dirty, SetToast
<1>4. /\ Paints(a, Refresh(a)) /\ Paints(a, TogglePause(a)) /\ Paints(a, ToggleMouseCapture(a))
  BY <1>1 DEF Paints, Drawable, Dirty, Asks, Refresh, TogglePause, ToggleMouseCapture
<1>5. /\ Paints(a, ShowSpotlight(a)) /\ Paints(a, ShowAll(a))
  BY <1>1 DEF Paints, Drawable, Dirty, ShowSpotlight, ShowAll
<1>6. /\ Paints(a, OpenDetail(a)) /\ Paints(a, OpenHelp(a)) /\ Paints(a, ShowLogs(a))
  BY <1>1 DEF Paints, Drawable, Dirty, Opens, OpenDetail, OpenHelp, ShowLogs
<1>7. Paints(a, CloseOverlay(a))
  BY <1>1 DEF Paints, Drawable, Dirty, Asks, Opens, CloseOverlay
<1>8. ASSUME NEW lines PROVE Paints(a, LogLinesArm(a, lines))
  BY DEF Paints, Drawable, Dirty, LogLinesArm
<1>9. ASSUME NEW entity, NEW u PROVE Paints(a, CorrelateUpdate(a, entity, u))
  BY <1>1 DEF Paints, Drawable, Dirty, CorrelateUpdate
<1>10. ASSUME NEW overlay PROVE Opens(a, overlay).dirty /\ Paints(a, Opens(a, overlay))
  BY DEF Paints, Drawable, Dirty, Opens
<1> QED
  BY <1>3, <1>4, <1>5, <1>6, <1>7, <1>8, <1>9, <1>10

(* So do the arms that move something, if it moves. *)
LEMMA MovesPaint ==
  ASSUME NEW a, Drawable(a)
  PROVE  /\ \A dir : Paints(a, FocusArm(a, dir)) /\ Paints(a, ScrollArm(a, dir)) /\ Paints(a, ChooserNavigate(a, dir))
         /\ \A cell : Paints(a, Click(a, cell))
         /\ Paints(a, ToggleFullscreen(a)) /\ Paints(a, CopyNextCommand(a)) /\ Paints(a, OpenLink(a))
<1>1. Paints(a, a)
  BY EffectUnseen
<1>3. ASSUME NEW field \in {"overlayScroll", "logsScroll", "drillScroll"}, NEW dir PROVE Paints(a, ScrollField(a, field, dir))
  <2>1. \A n : Paints(a, [Dirty(a) EXCEPT ![field] = n])
    BY DEF Paints, Drawable, Dirty
  <2> QED
    BY <1>1, <2>1, Zenon DEF ScrollField
<1>4. \A n : Paints(a, [Dirty(a) EXCEPT !.focus = n])
  BY DEF Paints, Drawable, Dirty
<1>5. \A n : Paints(a, [[Dirty(a) EXCEPT !.focus = n] EXCEPT !.logsScroll = 0])
  BY DEF Paints, Drawable, Dirty
<1>6. \A n : Paints(a, [Dirty(a) EXCEPT !.spotlightFocus = n])
  BY DEF Paints, Drawable, Dirty
<1>7. \A n : Paints(a, [Dirty(a) EXCEPT !.focus = n, !.drillScroll = 0, !.logsScroll = 0])
  BY DEF Paints, Drawable, Dirty
<1>8. \A n : Paints(a, [Dirty(a) EXCEPT !.chooser.focus = n])
  BY DEF Paints, Drawable, Dirty
<1>9. ASSUME NEW dir PROVE Paints(a, FocusArm(a, dir))
  <2>1. Paints(a, FocusSpotlight(a, dir))
    BY <1>1, <1>6, Zenon DEF FocusSpotlight
  <2>2. Paints(a, FocusGrid(a, dir))
    BY <1>1, <1>4, <1>5, Zenon DEF FocusGrid
  <2>3. LogsDominant(a) => a.layout # "Spotlight"
    BY DEF LogsDominant
  <2> QED
    BY <1>1, <1>3, <2>1, <2>2, <2>3, Zenon DEF FocusArm
<1>10. ASSUME NEW dir PROVE Paints(a, ScrollArm(a, dir))
  <2>1. \/ ScrollArm(a, dir) = a
        \/ \E field \in {"overlayScroll", "logsScroll", "drillScroll"} : ScrollArm(a, dir) = ScrollField(a, field, dir)
    BY Zenon DEF ScrollArm
  <2> QED
    BY <1>1, <1>3, <2>1
<1>11. ASSUME NEW dir PROVE Paints(a, ChooserNavigate(a, dir))
  BY <1>1, <1>8, Zenon DEF ChooserNavigate
<1>12. ASSUME NEW cell PROVE Paints(a, Click(a, cell))
  BY <1>1, <1>7, Zenon DEF Click
<1>13. Paints(a, ToggleFullscreen(a))
  BY <1>1, FieldsPaint, Zenon DEF ToggleFullscreen
<1>14. CopyNextCommand(a) \in {a, Asks(a, "CopyToClipboard"), SetToast(a)}
  BY Zenon DEF CopyNextCommand
<1>15. OpenLink(a) \in {a, Asks(a, "OpenUrl"), SetToast(a)}
  BY Zenon DEF OpenLink
<1>16. Paints(a, CopyNextCommand(a)) /\ Paints(a, OpenLink(a))
  BY <1>1, <1>14, <1>15, EffectUnseen, FieldsPaint
<1> QED
  BY <1>9, <1>10, <1>11, <1>12, <1>13, <1>16

(* So do the popup and the chooser. *)
LEMMA PopupPaints ==
  ASSUME NEW a, Drawable(a)
  PROVE  Paints(a, CorrelateArm(a)) /\ Paints(a, ChooserConfirm(a))
<1>1. Paints(a, a) /\ Paints(a, SetToast(a))
  BY EffectUnseen, FieldsPaint
<1>2. ASSUME NEW b, DOMAIN b = DOMAIN a, b.toast = a.toast, b.regions = a.regions, b.dirty = TRUE PROVE Paints(a, b)
  BY <1>2 DEF Paints, Drawable
<1>3. ASSUME NEW b, DOMAIN b = DOMAIN a, b.toast = a.toast, b.regions = a.regions, Paints(a, b)
      PROVE  /\ \A e : Paints(a, OpenPopup(b, e)) 
             /\ \A es : Paints(a, OpenChooser(b, es))
  <2>1. ASSUME NEW p PROVE Paints(a, Asks([Opens(b, "Correlate") EXCEPT !.popup = p], "RunCorrelate"))
    BY <1>3 DEF Paints, Drawable, Opens, Dirty, Asks
  <2>2. ASSUME NEW c PROVE Paints(a, [Opens(b, "CorrelateChooser") EXCEPT !.chooser = c])
    BY <1>3 DEF Paints, Drawable, Opens, Dirty
  <2> QED
    BY <1>3, <2>1, <2>2, Zenon DEF OpenPopup, OpenChooser
<1>4. DOMAIN Opens(a, "None") = DOMAIN a /\ Opens(a, "None").toast = a.toast
      /\ Opens(a, "None").regions = a.regions /\ Paints(a, Opens(a, "None"))
  BY FieldsPaint DEF Drawable, Opens, Dirty
<1>5. ASSUME NEW es PROVE Paints(a, Dispatch(a, Opens(a, "None"), es))
  <2>1. 0 # 1
    OBVIOUS
  <2>2. \/ Dispatch(a, Opens(a, "None"), es) = SetToast(a)
        \/ Dispatch(a, Opens(a, "None"), es) = OpenPopup(Opens(a, "None"), es[1])
        \/ Dispatch(a, Opens(a, "None"), es) = OpenChooser(Opens(a, "None"), es)
    BY <2>1, Zenon DEF Dispatch
  <2> QED
    BY <1>1, <1>3, <1>4, <2>2, Zenon
<1>6. Paints(a, CorrelateLogLine(a))
  BY <1>1, <1>5, Zenon DEF CorrelateLogLine
<1>7. \A e : Paints(a, OpenPopup(a, e))
  BY <1>1, <1>3
<1>8. \/ CorrelateArm(a) = CorrelateLogLine(a) \/ CorrelateArm(a) = a \/ CorrelateArm(a) = SetToast(a)
      \/ \E e : CorrelateArm(a) = OpenPopup(a, e)
  BY Zenon DEF CorrelateArm
<1>9. Paints(a, CorrelateArm(a))
  BY <1>1, <1>6, <1>7, <1>8, Zenon
<1>10. Paints(a, ChooserConfirm(a))
  <2> DEFINE b == [Opens(a, "None") EXCEPT !.chooser = NoChooser]
  <2>1. DOMAIN b = DOMAIN a /\ b.toast = a.toast /\ b.regions = a.regions /\ b.dirty = TRUE
    BY DEF Drawable, Opens, Dirty
  <2>2. ChooserConfirm(a) = a \/ \E e : ChooserConfirm(a) = OpenPopup(b, e)
    BY DEF ChooserConfirm
  <2> HIDE DEF b
  <2>3. Paints(a, b)
    BY <1>2, <2>1
  <2> QED
    BY <1>1, <1>3, <2>1, <2>2, <2>3
<1> QED
  BY <1>9, <1>10

(* So does every arm of the reducer. *)
LEMMA HandlePaints == ASSUME NEW a, Drawable(a), NEW action PROVE Paints(a, Handle(a, action))
<1> DEFINE h == Handle(a, action)
<1>1. \/ h = a \/ h = Refresh(a) \/ h = OpenDetail(a) \/ h = OpenHelp(a) \/ h = ShowLogs(a)
      \/ h = CloseOverlay(a) \/ h = Dirty(a) \/ h = TogglePause(a) \/ h = ToggleMouseCapture(a)
      \/ h = ShowSpotlight(a) \/ h = ShowAll(a) \/ h = SetToast(a) \/ h = Asks(a, "Quit")
      \/ h = CopyNextCommand(a) \/ h = OpenLink(a) \/ h = CorrelateArm(a) \/ h = ChooserConfirm(a)
      \/ h = ToggleFullscreen(a) \/ h = FocusArm(a, action.dir) \/ h = ScrollArm(a, action.dir)
      \/ h = ChooserNavigate(a, action.dir) \/ h = Click(a, action.cell)
  BY ZenonT(120) DEF Handle
<1> HIDE DEF h
<1>2. ASSUME \/ h = CopyNextCommand(a) \/ h = OpenLink(a) \/ h = CorrelateArm(a) \/ h = ChooserConfirm(a)
             \/ h = ToggleFullscreen(a) \/ h = FocusArm(a, action.dir) \/ h = ScrollArm(a, action.dir)
             \/ h = ChooserNavigate(a, action.dir) \/ h = Click(a, action.cell)
      PROVE  Paints(a, h)
  BY <1>2, MovesPaint, PopupPaints
<1>3. Paints(a, h)
  BY <1>1, <1>2, EffectUnseen, FieldsPaint
<1> QED
  BY <1>3 DEF h

(* So does a round. *)
LEMMA RoundPaints == ASSUME NEW a, Drawable(a), NEW snaps PROVE Paints(a, SnapshotsArm(a, snaps))
<1>1. PICK f, p, v, h, d, r :
        SnapshotsArm(a, snaps) =
          ClampSpotlight([Dirty(a) EXCEPT !.focus = f, !.pulses = p, !.prevStatus = v, !.history = h,
                            !.snaps = snaps, !.refreshing = FALSE, !.refreshed = TRUE, !.armed = r, !.deltas = d])
  BY Zenon DEF SnapshotsArm
<1> DEFINE b == [Dirty(a) EXCEPT !.focus = f, !.pulses = p, !.prevStatus = v, !.history = h,
                   !.snaps = snaps, !.refreshing = FALSE, !.refreshed = TRUE, !.armed = r, !.deltas = d]
<1>2. DOMAIN b = DOMAIN a /\ b.toast = a.toast /\ b.regions = a.regions /\ b.dirty = TRUE
  BY DEF Drawable, Dirty
<1> HIDE DEF b
<1>3. PICK n : ClampSpotlight(b) = [b EXCEPT !.spotlightFocus = n]
  BY Zenon DEF ClampSpotlight
<1>4. Paints(a, [b EXCEPT !.spotlightFocus = n])
  BY <1>2 DEF Paints, Drawable
<1> QED
  BY <1>1, <1>3, <1>4 DEF b

(* A tick does while a round is in flight, and when the toast goes; what   *)
(* else it changes is not drawn but for the flashes.                       *)
LEMMA TickPaints == ASSUME NEW a, Drawable(a), NEW due PROVE Paints(a, TickArm(a, due))
<1> DEFINE f == IF a.ticked THEN (a.frame + 1) % Frames ELSE 0
           p == [n \in LayerNames |-> IF a.pulses[n] > 0 THEN a.pulses[n] - 1 ELSE 0]
           t == IF a.toast > 0 THEN a.toast - 1 ELSE 0
           d == a.dirty \/ a.toast = 1
           b == [a EXCEPT !.ticked = TRUE, !.frame = f, !.pulses = p, !.toast = t, !.dirty = d]
<1>1. TickArm(a, due) = IF b.refreshing THEN Dirty(b)
                        ELSE IF ~b.paused /\ b.armed /\ due
                        THEN Asks([Dirty(b) EXCEPT !.refreshing = TRUE, !.armed = FALSE], "StartRefresh")
                        ELSE b
  BY DEF TickArm
<1>2. t \in Nat /\ (a.toast # 1 => (t > 0 <=> a.toast > 0))
  BY DEF Drawable
<1>3. a.toast = 1 => d
  OBVIOUS
<1> HIDE DEF f, p, t, d
<1>4. /\ b.layout = a.layout /\ b.overlay = a.overlay /\ b.popup = a.popup /\ b.chooser = a.chooser
      /\ b.snaps = a.snaps /\ b.deltas = a.deltas /\ b.history = a.history
      /\ b.focus = a.focus /\ b.spotlightFocus = a.spotlightFocus
      /\ b.logs = a.logs /\ b.logsScroll = a.logsScroll
      /\ b.drillScroll = a.drillScroll /\ b.overlayScroll = a.overlayScroll
      /\ b.mouse = a.mouse /\ b.paused = a.paused
  OBVIOUS
<1>5. b.refreshing = a.refreshing /\ b.refreshed = a.refreshed /\ b.toast = t /\ b.dirty = d /\ DOMAIN b = DOMAIN a
      /\ b.regions = a.regions
  BY DEF Drawable
<1> HIDE DEF b
<1>6. CASE b.refreshing
  BY <1>1, <1>2, <1>5, <1>6 DEF Paints, Drawable, Dirty
<1>7. CASE ~b.refreshing
  <2>1. Paints(a, b)
    <3>1. CASE a.toast = 1
      BY <1>2, <1>3, <1>5, <3>1 DEF Paints
    <3>2. CASE a.toast # 1
      BY <1>2, <1>4, <1>5, <1>7, <3>2 DEF Paints, SameView
    <3> QED
      BY <3>1, <3>2
  <2>2. Paints(a, Asks([Dirty(b) EXCEPT !.refreshing = TRUE, !.armed = FALSE], "StartRefresh"))
    BY <1>2, <1>5 DEF Paints, Drawable, Dirty, Asks
  <2> QED
    BY <1>1, <1>7, <2>1, <2>2
<1> QED
  BY <1>6, <1>7

-----------------------------------------------------------------------------
(* The inductive invariant: while the loop waits, what is on screen was    *)
(* drawn from a state that shows what the state shows now.                 *)
ScreenInv ==
  /\ Drawable(app)
  /\ Waiting("dashboard") => /\ \E a : SameView(a, app) /\ screen = View(a, width)
                             /\ app.layout = "Scorecard" => app.regions = Regions(app, width)

(* Carrying out the effect of an arm that paints keeps it. *)
LEMMA DispatchedShows ==
  ASSUME ScreenInv, Waiting("dashboard"), NEW b, Paints(app, b), Dispatched(b),
         b.dirty \/ width' = width
  PROVE  ScreenInv'
<1>1. app' = [b EXCEPT !.effect = "None"] /\ (screen' = screen)
  BY DEF Dispatched, Leave
<1>2. Drawable(b)
  BY DEF Paints, ScreenInv, Drawable
<1>3. Paints(b, app')
  BY <1>1, <1>2, EffectUnseen
<1>4. app'.dirty = b.dirty /\ app'.regions = b.regions
  BY <1>1, <1>2 DEF Drawable
<1>5. Drawable(app')
  BY <1>2, <1>3 DEF Paints, Drawable
<1>6. CASE b.dirty
  BY <1>4, <1>5, <1>6 DEF ScreenInv, Waiting
<1>7. CASE ~b.dirty
  <2>1. SameView(app, b) /\ SameView(b, app') /\ b.regions = app.regions /\ width' = width
    BY <1>3, <1>4, <1>7 DEF Paints
  <2>2. SameView(app, app')
    BY <2>1 DEF SameView
  <2>3. Regions(app', width) = Regions(app, width)
    BY <2>2, SameScreen
  <2>4. app'.layout = app.layout /\ app'.regions = app.regions
    BY <1>4, <2>1, <2>2 DEF SameView
  <2>5. PICK a : SameView(a, app) /\ screen = View(a, width)
    BY DEF ScreenInv
  <2>6. SameView(a, app')
    BY <2>2, <2>5 DEF SameView
  <2> QED
    BY <1>1, <1>5, <2>1, <2>3, <2>4, <2>5, <2>6 DEF ScreenInv
<1> QED
  BY <1>6, <1>7

(* Until the first draw there is a repaint to be done, and whatever a step *)
(* changes of what is drawn is repainted before the loop waits again.      *)
LEMMA StepShows == ASSUME ScreenInv, [Next]_vars PROVE ScreenInv'
<1>1. CASE UNCHANGED <<app, screen, width, at, mode>>
  BY <1>1 DEF ScreenInv, Waiting
<1>2. CASE StepPasses
  <2> DEFINE r == Refresh(NewApp)
             b == [r EXCEPT !.effect = "None"]
  <2>1. NewApp.refreshing = FALSE /\ {"dirty", "effect", "toast", "ticked", "frame", "pulses", "regions"} \subseteq DOMAIN NewApp
        /\ NewApp.toast = 0
    BY DEF NewApp
  <2>2. r = Asks([Dirty(NewApp) EXCEPT !.refreshing = TRUE], "StartRefresh")
    BY <2>1 DEF Refresh
  <2>3. DOMAIN b = DOMAIN NewApp /\ b.dirty = TRUE /\ b.toast = NewApp.toast
    BY <2>1, <2>2 DEF Dirty, Asks
  <2> HIDE DEF b
  <2>4. Drawable(b) /\ b.dirty
    BY <2>1, <2>3 DEF Drawable
  <2>5. CASE at' = "loop"
    <3>1. app' = b
      BY <1>2, <2>5 DEF StepPasses, b
    <3> QED
      BY <2>4, <3>1 DEF ScreenInv, Waiting
  <2>6. CASE at' # "loop"
    <3>1. app' = app
      BY <1>2, <2>6 DEF StepPasses
    <3> QED
      BY <2>6, <3>1 DEF ScreenInv, Waiting
  <2> QED
    BY <2>5, <2>6
<1>3. CASE StepFails \/ LoopFails \/ PanelPanics \/ TaskPanics
  <2>1. app' = app
    BY <1>3 DEF StepFails, LoopFails, PanelPanics, TaskPanics
  <2>2. at' = "ended" \/ UNCHANGED <<app, screen, width, at, mode>>
    BY <1>3 DEF StepFails, LoopFails, PanelPanics, TaskPanics, Leave, startVars
  <2> QED
    BY <1>1, <2>1, <2>2 DEF ScreenInv, Waiting
<1>4. CASE DrawDashboard
  <2> DEFINE g == IF app.layout = "Scorecard" THEN Regions(app, width) ELSE app.regions
             b == [app EXCEPT !.dirty = FALSE, !.regions = g]
  <2>1. app' = b /\ screen' = View(app, width) /\ width' = width
    BY <1>4 DEF DrawDashboard
  <2>2. DOMAIN b = DOMAIN app /\ b.toast = app.toast /\ b.regions = g
    BY DEF ScreenInv, Drawable
  <2>3. SameView(app, b)
    BY DEF SameView, ScreenInv, Drawable
  <2> HIDE DEF b
  <2>4. Regions(b, width) = Regions(app, width)
    BY <2>3, SameScreen
  <2>5. b.layout = app.layout
    BY <2>3 DEF SameView
  <2>6. Drawable(b)
    BY <2>2 DEF ScreenInv, Drawable
  <2> QED
    BY <2>1, <2>2, <2>3, <2>4, <2>5, <2>6 DEF ScreenInv
<1>5. CASE TerminalEvent
  <2>1. PICK event \in session.events :
          /\ width' \in IF event.kind = "resize" THEN Widths ELSE {width}
          /\ Dispatched(Handle(app, Translate(event, app.layout, app.overlay)))
    BY <1>5 DEF TerminalEvent
  <2> DEFINE b == Handle(app, Translate(event, app.layout, app.overlay))
  <2>2. Paints(app, b)
    BY HandlePaints DEF ScreenInv
  <2>3. event.kind = "resize" => b.dirty
    <3>1. ASSUME event.kind = "resize" PROVE b = Dirty(app)
      <4>1. Translate(event, app.layout, app.overlay) = Do("Resize")
        BY <3>1 DEF Translate
      <4>2. Do("Resize").act = "Resize"
        BY DEF Do
      <4> QED
        BY <4>1, <4>2 DEF Handle
    <3> HIDE DEF b
    <3> QED
      BY <3>1 DEF Dirty, ScreenInv, Drawable
  <2> HIDE DEF b
  <2>4. Waiting("dashboard")
    BY <1>5 DEF TerminalEvent
  <2> QED
    BY <2>1, <2>2, <2>3, <2>4, DispatchedShows DEF b
<1>6. CASE TickFires
  <2>1. PICK due : Dispatched(TickArm(app, due)) /\ width' = width /\ Waiting("dashboard")
    BY <1>6 DEF TickFires
  <2> QED
    BY <2>1, TickPaints, DispatchedShows DEF ScreenInv
<1>7. CASE RoundArrives
  <2>1. PICK round : Dispatched(SnapshotsArm(app, [i \in DOMAIN round |-> Snapshot(round[i])]))
    BY <1>7 DEF RoundArrives
  <2> DEFINE snaps == [i \in DOMAIN round |-> Snapshot(round[i])]
  <2>2. width' = width /\ Waiting("dashboard") /\ Drawable(app)
    BY <1>7 DEF RoundArrives, ScreenInv
  <2> HIDE DEF snaps
  <2>3. Paints(app, SnapshotsArm(app, snaps))
    BY <2>2, RoundPaints
  <2> QED
    BY <2>1, <2>2, <2>3, DispatchedShows DEF snaps
<1>8. CASE LogLinesArrive
  <2>1. PICK lines : Dispatched(LogLinesArm(app, lines)) /\ width' = width /\ Waiting("dashboard")
    BY <1>8 DEF LogLinesArrive
  <2> QED
    BY <2>1, FieldsPaint, DispatchedShows DEF ScreenInv
<1>9. CASE UpdateArrives
  <2>1. PICK entity, u : Dispatched(CorrelateUpdate(app, entity, u)) /\ width' = width /\ Waiting("dashboard")
    BY <1>9 DEF UpdateArrives
  <2> QED
    BY <2>1, FieldsPaint, DispatchedShows DEF ScreenInv
<1>10. CASE ToastArrives
  <2>1. app' = SetToast(app)
    BY <1>10 DEF ToastArrives
  <2>2. DOMAIN app' = DOMAIN app /\ app'.toast \in Nat /\ app'.dirty
    BY <2>1, NavAssumption DEF SetToast, Dirty, ScreenInv, Drawable
  <2> QED
    BY <2>2 DEF ScreenInv, Drawable, Waiting
<1>11. CASE PanelKeyPressed \/ PanelTimer \/ RowsArrive \/ ErrorArrives \/ FetchDies
  <2>1. app' = app
    BY <1>11 DEF PanelKeyPressed, PanelTimer, RowsArrive, ErrorArrives, FetchDies, InPanel
  <2>2. at' = "ended" \/ UNCHANGED <<app, screen, width, at, mode>>
    BY <1>11 DEF PanelKeyPressed, PanelTimer, RowsArrive, ErrorArrives, FetchDies, InPanel, Leave, startVars
  <2> QED
    BY <1>1, <2>1, <2>2 DEF ScreenInv, Waiting
<1> QED
  BY <1>1, <1>2, <1>3, <1>4, <1>5, <1>6, <1>7, <1>8, <1>9, <1>10, <1>11 DEF Next, vars

(* What the operator sees is what the state says, whenever the loop waits, *)
(* for every session, width and order of keys, ticks and answers: no arm   *)
(* of the reducer changes what is drawn without asking for a repaint, but  *)
(* for the flashes, and clicks are tested against the cards on screen      *)
(* (app.rs handle, lib.rs run_event_loop).                                 *)
THEOREM ScreenShowsState == Spec => []ScreenIsCurrent
<1>1. Init => ScreenInv
  <2>1. Drawable(NewApp)
    BY DEF NewApp, Drawable
  <2> QED
    BY <2>1 DEF Init, ScreenInv, Waiting
<1>2. ScreenInv /\ [Next]_vars => ScreenInv'
  BY StepShows
<1>3. ScreenInv => ScreenIsCurrent
  BY SameScreen DEF ScreenInv, ScreenIsCurrent
<1> QED
  BY <1>1, <1>2, <1>3, PTL DEF Spec
=============================================================================
