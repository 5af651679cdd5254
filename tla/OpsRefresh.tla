----------------------------- MODULE OpsRefresh -----------------------------
(***************************************************************************)
(* The refresh loop of the nico ops dashboard: the part of App's reducer   *)
(* that decides when a collection round starts (manual R, the auto-refresh *)
(* deadline, pause), the two tasks the host loop spawns for a round (layer *)
(* snapshots, snapshot logs panel), and the bounded action channel that    *)
(* brings their answers back to the loop.                                  *)
(*                                                                         *)
(* A round is a number.  Its snapshot task sends one Snapshots message,    *)
(* its logs task one LogLines message, so the messages in the channel are  *)
(* the tasks in state "queued"; different senders may overtake each other, *)
(* as they do in tokio's channel.                                          *)
(*                                                                         *)
(* Time is relative.  lag is the time since the last Tick (the distance    *)
(* from App.now to the clock), deadline the time left to next_refresh_at.  *)
(***************************************************************************)
EXTENDS Naturals, FiniteSets, Sequences

CONSTANTS
  Interval,      \* App.interval, in time units
  MaxLag,        \* bound: the loop ticks at least once in MaxLag time units
  MaxRounds,     \* bound: rounds started in one session
  ChanCap,       \* capacity of the action channel (64 in the code)
  RingCap,       \* RING_CAPACITY of the run history (32 in the code)
  HasLogSource,  \* whether bootstrap produced a LogSource
  Unarmed        \* next_refresh_at = None

ASSUME RefreshAssumption ==
  /\ Interval \in Nat /\ MaxLag \in Nat
  /\ MaxRounds \in Nat \ {0}
  /\ ChanCap \in Nat \ {0} /\ RingCap \in Nat \ {0}
  /\ HasLogSource \in BOOLEAN
  /\ Unarmed \notin Nat

VARIABLES
  running,     \* FALSE once run_event_loop has left its loop
  refreshing,  \* App.refreshing
  paused,      \* App.paused
  ticked,      \* App.now is Some
  lag,         \* clock - App.now
  deadline,    \* App.next_refresh_at - clock, or Unarmed
  rounds,      \* rounds started so far; the newest round's number
  snapTask,    \* state of each round's spawn_refresh task
  logTask,     \* state of each round's spawn_logs_refresh task
  shown,       \* round of App.snapshots, 0 before the first
  shownLogs,   \* round of App.log_lines, 0 before the first
  history      \* App.history: the rounds the ring buffer holds

appVars  == <<refreshing, paused, ticked, lag, deadline, shown, shownLogs, history>>
taskVars == <<rounds, snapTask, logTask>>
vars     == <<running, appVars, taskVars>>

Rounds    == 1 .. MaxRounds
InFlight  == {"collecting", "sending", "queued"}
TaskState == InFlight \cup {"unborn", "done"}

(* Messages waiting in the action channel. *)
Queued == Cardinality({r \in Rounds : snapTask[r] = "queued"})
        + Cardinality({r \in Rounds : logTask[r] = "queued"})

-----------------------------------------------------------------------------
(* Round 1 is spawned by run_event_loop itself, which then hands the       *)
(* reducer a Refresh and ignores its effect.                               *)
FirstTask(spawned) == [r \in Rounds |-> IF r = 1 /\ spawned THEN "collecting" ELSE "unborn"]

Init ==
  /\ running = TRUE
  /\ refreshing = TRUE
  /\ paused = FALSE
  /\ ticked = FALSE
  /\ lag = 0
  /\ deadline = Unarmed
  /\ rounds = 1
  /\ snapTask = FirstTask(TRUE)
  /\ logTask = FirstTask(HasLogSource)
  /\ shown = 0
  /\ shownLogs = 0
  /\ history = << >>

(* Effect::StartRefresh: both tasks of the next round are spawned. *)
StartRefresh ==
  /\ rounds < MaxRounds
  /\ rounds' = rounds + 1
  /\ snapTask' = [snapTask EXCEPT ![rounds + 1] = "collecting"]
  /\ logTask' = [logTask EXCEPT ![rounds + 1] = IF HasLogSource THEN "collecting" ELSE @]

MayStart_NoGuard == TRUE

(* A manual R is swallowed while a round is in flight. *)
MayStart == ~refreshing

(* Action::Refresh, from the R key. *)
Refresh ==
  /\ running
  /\ MayStart
  /\ refreshing' = TRUE
  /\ StartRefresh
  /\ UNCHANGED <<running, paused, ticked, lag, deadline, shown, shownLogs, history>>

(* Action::TogglePause, from the space bar. *)
TogglePause ==
  /\ running
  /\ paused' = ~paused
  /\ UNCHANGED <<running, refreshing, ticked, lag, deadline, shown, shownLogs, history, taskVars>>

AutoDue_IgnoresPause == ~refreshing /\ deadline = 0
AutoDue_IgnoresFlight == ~paused /\ deadline = 0

(* The deadline test of Action::Tick. *)
AutoDue == ~refreshing /\ ~paused /\ deadline = 0

Tick_Debounces ==
  /\ running
  /\ ticked' = TRUE
  /\ lag' = 0
  /\ IF AutoDue
     THEN refreshing' = TRUE /\ deadline' = Unarmed /\ StartRefresh
     ELSE /\ deadline' = IF deadline = Unarmed THEN Unarmed ELSE Interval
          /\ UNCHANGED <<refreshing, taskVars>>
  /\ UNCHANGED <<running, paused, shown, shownLogs, history>>

(* Action::Tick: App.now catches up with the clock; a due deadline is      *)
(* consumed and starts a round.                                            *)
Tick ==
  /\ running
  /\ ticked' = TRUE
  /\ lag' = 0
  /\ IF AutoDue
     THEN refreshing' = TRUE /\ deadline' = Unarmed /\ StartRefresh
     ELSE UNCHANGED <<refreshing, deadline, taskVars>>
  /\ UNCHANGED <<running, paused, shown, shownLogs, history>>

(* One time unit passes. *)
TimePasses ==
  /\ running
  /\ lag < MaxLag
  /\ lag' = lag + 1
  /\ deadline' = IF deadline \in Nat \ {0} THEN deadline - 1 ELSE deadline
  /\ UNCHANGED <<running, refreshing, paused, ticked, shown, shownLogs, history, taskVars>>

-----------------------------------------------------------------------------
(* data::collect of round r has returned; the task goes on to tx.send. *)
SnapCollected(r) ==
  /\ running
  /\ snapTask[r] = "collecting"
  /\ snapTask' = [snapTask EXCEPT ![r] = "sending"]
  /\ UNCHANGED <<running, appVars, rounds, logTask>>

SnapSend_Try(r) ==
  /\ running
  /\ snapTask[r] = "sending"
  /\ snapTask' = [snapTask EXCEPT ![r] = IF Queued < ChanCap THEN "queued" ELSE "done"]
  /\ UNCHANGED <<running, appVars, rounds, logTask>>

(* tx.send(...).await: the task waits while the channel is full. *)
SnapSend(r) ==
  /\ running
  /\ snapTask[r] = "sending"
  /\ Queued < ChanCap
  /\ snapTask' = [snapTask EXCEPT ![r] = "queued"]
  /\ UNCHANGED <<running, appVars, rounds, logTask>>

LogsCollected(r) ==
  /\ running
  /\ logTask[r] = "collecting"
  /\ logTask' = [logTask EXCEPT ![r] = "sending"]
  /\ UNCHANGED <<running, appVars, rounds, snapTask>>

LogsSend(r) ==
  /\ running
  /\ logTask[r] = "sending"
  /\ Queued < ChanCap
  /\ logTask' = [logTask EXCEPT ![r] = "queued"]
  /\ UNCHANGED <<running, appVars, rounds, snapTask>>

Push_NoEviction(h, r) == Append(h, r)
Push_DropsNewest(h, r) == IF Len(h) = RingCap THEN h ELSE Append(h, r)

(* RingBuffer::push *)
Push(h, r) == IF Len(h) = RingCap THEN Append(Tail(h), r) ELSE Append(h, r)

(* The deadline a finished round arms: App.now + interval, so the lag of   *)
(* the last tick is already spent, and nothing before the first tick.      *)
Rearm == IF ~ticked THEN deadline
         ELSE IF lag < Interval THEN Interval - lag ELSE 0

(* Action::Snapshots of round r. *)
HandleSnapshots(r) ==
  /\ running
  /\ snapTask[r] = "queued"
  /\ snapTask' = [snapTask EXCEPT ![r] = "done"]
  /\ history' = Push(history, r)
  /\ shown' = r
  /\ refreshing' = FALSE
  /\ deadline' = Rearm
  /\ UNCHANGED <<running, paused, ticked, lag, shownLogs, rounds, logTask>>

(* Action::LogLines of round r: the panel is replaced unconditionally. *)
HandleLogLines(r) ==
  /\ running
  /\ logTask[r] = "queued"
  /\ logTask' = [logTask EXCEPT ![r] = "done"]
  /\ shownLogs' = r
  /\ UNCHANGED <<running, refreshing, paused, ticked, lag, deadline, shown, history,
                 rounds, snapTask>>

(* Effect::Quit, or the end of the terminal event stream. *)
Quit ==
  /\ running
  /\ running' = FALSE
  /\ UNCHANGED <<appVars, taskVars>>

Operator == Refresh \/ TogglePause \/ Quit
Tasks(r) == SnapCollected(r) \/ SnapSend(r) \/ LogsCollected(r) \/ LogsSend(r)
Loop     == Tick \/ \E r \in Rounds : HandleSnapshots(r) \/ HandleLogLines(r)

Next == Operator \/ Loop \/ TimePasses \/ \E r \in Rounds : Tasks(r)

(* select! polls its branches in random order and a tick falls due every   *)
(* 100 ms, so no branch of the loop starves; the runtime polls every ready *)
(* task.  That a snapshot collection returns at all is an assumption: the  *)
(* layers run under a timeout, the log collector before them does not.     *)
(* Nothing is assumed of the operator.                                     *)
Fairness ==
  /\ WF_vars(Tick) /\ WF_vars(TimePasses)
  /\ \A r \in Rounds :
       /\ WF_vars(HandleSnapshots(r)) /\ WF_vars(HandleLogLines(r))
       /\ WF_vars(SnapCollected(r)) /\ WF_vars(SnapSend(r)) /\ WF_vars(LogsSend(r))

Spec == Init /\ [][Next]_vars
FairSpec == Spec /\ Fairness

-----------------------------------------------------------------------------
(* The state has the types of App's fields and of the two task families. *)
TypeOK ==
  /\ running \in BOOLEAN /\ refreshing \in BOOLEAN /\ paused \in BOOLEAN /\ ticked \in BOOLEAN
  /\ lag \in 0 .. MaxLag
  /\ deadline \in Nat \cup {Unarmed}
  /\ rounds \in Rounds
  /\ snapTask \in [Rounds -> TaskState]
  /\ logTask \in [Rounds -> TaskState]
  /\ shown \in 0 .. MaxRounds
  /\ shownLogs \in 0 .. MaxRounds
  /\ history \in Seq(Rounds) /\ Len(history) <= RingCap

(* App.refreshing tells the truth about the tasks and the channel: while   *)
(* it is set exactly the newest round is being collected, sent or queued,  *)
(* while it is clear none is.  (R and Tick test the flag, the tasks and    *)
(* the Snapshots handler run elsewhere and later.)                         *)
SingleFlight ==
  {r \in Rounds : snapTask[r] \in InFlight} = IF refreshing THEN {rounds} ELSE {}

(* h is the newest rounds up to k, oldest first, RingCap of them at most. *)
IsWindow(h, k) ==
  /\ Len(h) = IF k < RingCap THEN k ELSE RingCap
  /\ \A i \in 1 .. Len(h) : h[i] = k - Len(h) + i

(* The ring buffer is the newest rounds shown, oldest first, none missing  *)
(* and none twice, up to its capacity.                                     *)
HistoryIsWindow == IsWindow(history, shown)

(* The loop implements RefreshRounds: a round starts only once the one     *)
(* before it is on screen, so every round started is shown, in order, and  *)
(* no late answer replaces a newer one.                                    *)
Abstract == INSTANCE RefreshRounds WITH started <- rounds, shown <- shown
RoundsInOrder == Abstract!Spec

(* While paused no step starts a round out of the timer: a round started   *)
(* then is a manual one and leaves the pending deadline alone.             *)
PauseHoldsTimer == [][paused /\ rounds' # rounds => deadline' = deadline]_vars

(* Every round in flight is eventually shown, however full the channel. *)
RefreshCompletes == refreshing ~> (~refreshing \/ ~running)

(* An armed deadline eventually starts a round unless the operator pauses. *)
AutoRefreshFires ==
  (deadline # Unarmed /\ rounds < MaxRounds) ~> (refreshing \/ paused \/ ~running)

(* "Auto-refresh interval (e.g. 5s, 1m). ... default 30s" (cli.rs:42), and *)
(* "Initial manual refresh + completion seeds the auto-refresh deadline"   *)
(* (app_tests.rs:287): an idle, unpaused dashboard refreshes again.        *)
AutoRefreshRecurs ==
  (~refreshing /\ rounds < MaxRounds) ~> (refreshing \/ paused \/ ~running)
=============================================================================
