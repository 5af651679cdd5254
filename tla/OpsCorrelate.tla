---------------------------- MODULE OpsCorrelate ----------------------------
(***************************************************************************)
(* The correlate popup of the nico ops dashboard and the tasks behind it.  *)
(*                                                                         *)
(* Opening the popup for an entity spawns a run: a pump task that resolves *)
(* the configuration, prepares the Sources behind a boot probe (whose      *)
(* paint ticker is a task of its own), and forwards the updates of a       *)
(* driver task, which queries every Source, to the action channel.         *)
(* Closing the popup aborts the pump through CorrelateRunner; an abort     *)
(* takes effect when the task next yields, so a cancelled run may still    *)
(* make some progress, and what it has already sent stays in the channel.  *)
(* The reducer tells updates apart by their entity only.                   *)
(***************************************************************************)
EXTENDS Naturals, Sequences

CONSTANTS
  Entities,    \* entities the operator can correlate
  Sources,     \* names of the prepared Sources
  Panels,      \* overlays that hold no state: detail, help (alike here)
  LogLines,    \* the entities a log line mentions, one sequence per line
  MaxRuns,     \* bound: popups opened in one session
  ChanCap,     \* capacity of the action channel (64 in the code)
  StreamCap,   \* capacity of a CorrelateStream (32 in the code)
  StderrTty,   \* whether the boot probe of a run paints and ticks
  Config,      \* the pseudo-source of a configuration failure
  NoEntity, NoRun, NoPopup, NoChooser

Runs   == 1 .. MaxRuns
Names  == Sources \cup {Config}
Status == {"absent", "pending", "landed", "failed"}

PopupOverlays == {"Correlate", "CorrelateFullscreen"}
Overlays      == PopupOverlays \cup Panels \cup {"None", "Logs", "CorrelateChooser"}

(* CorrelateState.  A run's events and errors are identified by the run    *)
(* and the Source that produced them.                                      *)
Popups == [entity : Entities,
           dots   : [Names -> Status],
           events : SUBSET (Runs \X Names),
           errors : SUBSET (Runs \X Names),
           diagOf : Runs \cup {NoRun},
           done   : BOOLEAN]

Choosers == [entities : Seq(Entities), focus : Nat]

(* Action::CorrelateUpdate: its entity is entityOf[run]. *)
Updates == [run   : Runs,
            kind  : {"Loading", "Landed", "Failed", "Diagnosis", "Done"},
            names : SUBSET Names]

ASSUME CorrelateAssumption ==
  /\ Panels \subseteq {"Detail", "Help"}
  /\ LogLines \subseteq Seq(Entities)
  /\ MaxRuns \in Nat \ {0} /\ ChanCap \in Nat \ {0} /\ StreamCap \in Nat \ {0}
  /\ StderrTty \in BOOLEAN
  /\ Config \notin Sources
  /\ NoRun \notin Nat /\ NoEntity \notin Entities
  /\ NoPopup \notin Popups /\ NoChooser \notin Choosers

VARIABLES
  running,    \* FALSE once run_event_loop has left its loop
  overlay,    \* App.overlay
  popup,      \* App.correlate
  chooser,    \* App.chooser
  runner,     \* CorrelateRunner.handle, the run it would abort
  runs,       \* runs spawned so far
  entityOf,   \* the entity each run was spawned for
  pump,       \* control state of each run's pump task
  outbox,     \* updates the pump holds, not yet in the channel
  ticker,     \* whether the paint ticker of the run's boot probe is alive
  driver,     \* control state of each run's driver task
  todo,       \* Sources the driver still waits for
  stream,     \* updates in each run's CorrelateStream
  cancelled,  \* runs whose pump was aborted
  chan        \* the action channel, oldest first

uiVars   == <<overlay, popup, chooser, runner, runs, entityOf, cancelled>>
taskVars == <<pump, outbox, ticker, driver, todo, stream>>
vars     == <<running, uiVars, taskVars, chan>>

PumpStates   == {"unborn", "resolving", "failing", "probing", "connecting", "pumping",
                 "ended", "dead"}
DriverStates == {"none", "loading", "collecting", "diagnosed", "ended", "dead"}

PumpAlive(r)   == pump[r] \notin {"unborn", "ended", "dead"}
DriverAlive(r) == driver[r] \notin {"none", "ended", "dead"}

Update(r, kind, names) == [run |-> r, kind |-> kind, names |-> names]

-----------------------------------------------------------------------------
Init ==
  /\ running = TRUE
  /\ overlay = "None" /\ popup = NoPopup /\ chooser = NoChooser
  /\ runner = NoRun /\ runs = 0
  /\ entityOf = [r \in Runs |-> NoEntity]
  /\ pump = [r \in Runs |-> "unborn"]
  /\ outbox = [r \in Runs |-> << >>]
  /\ ticker = [r \in Runs |-> FALSE]
  /\ driver = [r \in Runs |-> "none"]
  /\ todo = [r \in Runs |-> {}]
  /\ stream = [r \in Runs |-> << >>]
  /\ cancelled = [r \in Runs |-> FALSE]
  /\ chan = << >>

EmptyPopup(e) ==
  [entity |-> e, dots |-> [n \in Names |-> "absent"], events |-> {}, errors |-> {},
   diagOf |-> NoRun, done |-> FALSE]

Abort_Nothing == UNCHANGED cancelled

(* CorrelateRunner::abort *)
Abort == cancelled' = [r \in Runs |-> cancelled[r] \/ r = runner]

(* Action::OpenCorrelatePopup and its Effect::RunCorrelate: the runner is  *)
(* handed the new task and aborts the one it still had.                    *)
OpenCorrelatePopup(e) ==
  /\ runs < MaxRuns
  /\ overlay' = "Correlate"
  /\ popup' = EmptyPopup(e)
  /\ runs' = runs + 1
  /\ entityOf' = [entityOf EXCEPT ![runs + 1] = e]
  /\ pump' = [pump EXCEPT ![runs + 1] = "resolving"]
  /\ Abort
  /\ runner' = runs + 1
  /\ UNCHANGED <<running, outbox, ticker, driver, todo, stream, chan>>

(* Action::OpenDetail, OpenHelp and ShowLogs. *)
OpenPanel(o) ==
  /\ running /\ overlay = "None"
  /\ overlay' = o
  /\ UNCHANGED <<running, popup, chooser, runner, runs, entityOf, cancelled, taskVars, chan>>

(* Action::Correlate on a row whose finding names entity e. *)
CorrelateRow(e) ==
  /\ running /\ overlay = "None"
  /\ OpenCorrelatePopup(e)
  /\ UNCHANGED chooser

(* Action::Correlate in the logs overlay, on a line that names one entity. *)
CorrelateLogLine ==
  /\ running /\ overlay = "Logs"
  /\ \E line \in LogLines : Len(line) = 1 /\ OpenCorrelatePopup(line[1])
  /\ UNCHANGED chooser

(* The same, on a line that names several: the chooser replaces the logs. *)
OpenChooser ==
  /\ running /\ overlay = "Logs"
  /\ \E line \in LogLines :
       /\ Len(line) > 1
       /\ chooser' = [entities |-> line, focus |-> 1]
  /\ overlay' = "CorrelateChooser"
  /\ UNCHANGED <<running, popup, runner, runs, entityOf, cancelled, taskVars, chan>>

ChooserNavigate_Wraps ==
  /\ running /\ overlay = "CorrelateChooser"
  /\ \E next \in {chooser.focus - 1, chooser.focus + 1} :
       chooser' = [chooser EXCEPT !.focus = next]
  /\ UNCHANGED <<running, overlay, popup, runner, runs, entityOf, cancelled, taskVars, chan>>

(* Action::ChooserNavigate, up or down within the list. *)
ChooserNavigate ==
  /\ running /\ overlay = "CorrelateChooser"
  /\ \E next \in {chooser.focus - 1, chooser.focus + 1} :
       /\ next \in 1 .. Len(chooser.entities)
       /\ chooser' = [chooser EXCEPT !.focus = next]
  /\ UNCHANGED <<running, overlay, popup, runner, runs, entityOf, cancelled, taskVars, chan>>

(* Action::ChooserConfirm *)
ChooserConfirm ==
  /\ running /\ overlay = "CorrelateChooser"
  /\ chooser' = NoChooser
  /\ OpenCorrelatePopup(chooser.entities[chooser.focus])

(* Action::ToggleCorrelateFullscreen *)
ToggleCorrelateFullscreen ==
  /\ running /\ overlay \in PopupOverlays
  /\ overlay' = IF overlay = "Correlate" THEN "CorrelateFullscreen" ELSE "Correlate"
  /\ UNCHANGED <<running, popup, chooser, runner, runs, entityOf, cancelled, taskVars, chan>>

(* Action::CloseOverlay; Effect::CancelCorrelate when a popup was open. *)
CloseOverlay ==
  /\ running /\ overlay # "None"
  /\ overlay' = "None" /\ popup' = NoPopup /\ chooser' = NoChooser
  /\ IF popup # NoPopup THEN Abort /\ runner' = NoRun
                        ELSE UNCHANGED <<cancelled, runner>>
  /\ UNCHANGED <<running, runs, entityOf, taskVars, chan>>

(* Effect::Quit: the loop ends and aborts the run it still has. *)
Quit ==
  /\ running
  /\ running' = FALSE
  /\ Abort /\ runner' = NoRun
  /\ UNCHANGED <<overlay, popup, chooser, runs, entityOf, taskVars, chan>>

-----------------------------------------------------------------------------
(* What the pump sends when the configuration cannot be resolved. *)
ConfigFailure(r) == << Update(r, "Loading", {}), Update(r, "Failed", {Config}),
                       Update(r, "Diagnosis", {}), Update(r, "Done", {}) >>

ResolveFails(r) ==
  /\ running /\ pump[r] = "resolving"
  /\ pump' = [pump EXCEPT ![r] = "failing"]
  /\ outbox' = [outbox EXCEPT ![r] = ConfigFailure(r)]
  /\ UNCHANGED <<running, uiVars, ticker, driver, todo, stream, chan>>

(* resolve_config succeeds; prepare_sources starts its boot probe. *)
StartProbe(r) ==
  /\ running /\ pump[r] = "resolving"
  /\ pump' = [pump EXCEPT ![r] = "probing"]
  /\ ticker' = [ticker EXCEPT ![r] = StderrTty]
  /\ UNCHANGED <<running, uiVars, outbox, driver, todo, stream, chan>>

(* BootProbe::finish_success or finish_failure: the ticker is aborted. *)
FinishProbe(r) ==
  /\ running /\ pump[r] = "probing"
  /\ pump' = [pump EXCEPT ![r] = "connecting"]
  /\ ticker' = [ticker EXCEPT ![r] = FALSE]
  /\ UNCHANGED <<running, uiVars, outbox, driver, todo, stream, chan>>

(* The Sources are built, available or not; run_correlate spawns the driver. *)
StartStream(r) ==
  /\ running /\ pump[r] = "connecting"
  /\ pump' = [pump EXCEPT ![r] = "pumping"]
  /\ driver' = [driver EXCEPT ![r] = "loading"]
  /\ todo' = [todo EXCEPT ![r] = Sources]
  /\ UNCHANGED <<running, uiVars, outbox, ticker, stream, chan>>

(* stream.next().await yields the next update. *)
PumpTake(r) ==
  /\ running /\ pump[r] = "pumping"
  /\ outbox[r] = << >> /\ stream[r] # << >>
  /\ outbox' = [outbox EXCEPT ![r] = <<Head(stream[r])>>]
  /\ stream' = [stream EXCEPT ![r] = Tail(@)]
  /\ UNCHANGED <<running, uiVars, pump, ticker, driver, todo, chan>>

(* tx.send(...).await; the synthetic failure sequence ends the task. *)
PumpSend(r) ==
  /\ running /\ pump[r] \in {"failing", "pumping"}
  /\ outbox[r] # << >> /\ Len(chan) < ChanCap
  /\ chan' = Append(chan, Head(outbox[r]))
  /\ outbox' = [outbox EXCEPT ![r] = Tail(@)]
  /\ pump' = [pump EXCEPT ![r] = IF @ = "failing" /\ Len(outbox[r]) = 1 THEN "ended" ELSE @]
  /\ UNCHANGED <<running, uiVars, ticker, driver, todo, stream>>

(* The stream is exhausted: the driver returned and dropped its sender. *)
PumpEnds(r) ==
  /\ running /\ pump[r] = "pumping"
  /\ outbox[r] = << >> /\ stream[r] = << >> /\ driver[r] = "ended"
  /\ pump' = [pump EXCEPT ![r] = "ended"]
  /\ UNCHANGED <<running, uiVars, outbox, ticker, driver, todo, stream, chan>>

(* The aborted pump is dropped at an await point, its stream with it. *)
PumpDies(r) ==
  /\ running /\ cancelled[r] /\ PumpAlive(r)
  /\ pump' = [pump EXCEPT ![r] = "dead"]
  /\ outbox' = [outbox EXCEPT ![r] = << >>]
  /\ stream' = [stream EXCEPT ![r] = << >>]
  /\ UNCHANGED <<running, uiVars, ticker, driver, todo, chan>>

-----------------------------------------------------------------------------
Emit_Unbounded(r, kind, names) ==
  /\ running /\ pump[r] = "pumping"
  /\ stream' = [stream EXCEPT ![r] = Append(@, Update(r, kind, names))]

(* The driver appends to its stream while the pump holds the receiver. *)
Emit(r, kind, names) ==
  /\ running /\ pump[r] = "pumping" /\ Len(stream[r]) < StreamCap
  /\ stream' = [stream EXCEPT ![r] = Append(@, Update(r, kind, names))]

DriverLoading(r) ==
  /\ driver[r] = "loading"
  /\ Emit(r, "Loading", Sources)
  /\ driver' = [driver EXCEPT ![r] = "collecting"]
  /\ UNCHANGED <<running, uiVars, pump, outbox, ticker, todo, chan>>

DriverCollected_Early(r, s, kind) ==
  /\ driver[r] = "collecting" /\ s \in todo[r]
  /\ Emit(r, kind, {s})
  /\ todo' = [todo EXCEPT ![r] = IF kind = "Failed" THEN {} ELSE @ \ {s}]
  /\ UNCHANGED <<running, uiVars, pump, outbox, ticker, driver, chan>>

DriverCollected_Twice(r, s, kind) ==
  /\ driver[r] = "collecting" /\ s \in todo[r]
  /\ Emit(r, kind, {s})
  /\ todo' = [todo EXCEPT ![r] = IF kind = "Failed" THEN @ ELSE @ \ {s}]
  /\ UNCHANGED <<running, uiVars, pump, outbox, ticker, driver, chan>>

(* Source s answers: its output, or why it is unavailable. *)
DriverCollected(r, s, kind) ==
  /\ driver[r] = "collecting" /\ s \in todo[r]
  /\ Emit(r, kind, {s})
  /\ todo' = [todo EXCEPT ![r] = @ \ {s}]
  /\ UNCHANGED <<running, uiVars, pump, outbox, ticker, driver, chan>>

DriverDiagnoses(r) ==
  /\ driver[r] = "collecting" /\ todo[r] = {}
  /\ Emit(r, "Diagnosis", {})
  /\ driver' = [driver EXCEPT ![r] = "diagnosed"]
  /\ UNCHANGED <<running, uiVars, pump, outbox, ticker, todo, chan>>

DriverDone(r) ==
  /\ driver[r] = "diagnosed"
  /\ Emit(r, "Done", {})
  /\ driver' = [driver EXCEPT ![r] = "ended"]
  /\ UNCHANGED <<running, uiVars, pump, outbox, ticker, todo, chan>>

DriverDies_OnlyCollecting(r) ==
  /\ running /\ pump[r] = "dead" /\ driver[r] = "collecting"
  /\ driver' = [driver EXCEPT ![r] = "dead"]
  /\ UNCHANGED <<running, uiVars, pump, outbox, ticker, todo, stream, chan>>

(* CorrelateStream::drop aborts the driver; its next send would fail too. *)
DriverDies(r) ==
  /\ running /\ pump[r] = "dead" /\ DriverAlive(r)
  /\ driver' = [driver EXCEPT ![r] = "dead"]
  /\ UNCHANGED <<running, uiVars, pump, outbox, ticker, todo, stream, chan>>

-----------------------------------------------------------------------------
(* apply_correlate_update, mark_source *)
Mark(p, names, status) == [n \in Names |-> IF n \in names THEN status ELSE p.dots[n]]

Loaded(p, u) ==
  [p EXCEPT !.dots = [n \in Names |-> IF n \in u.names THEN "pending" ELSE "absent"]]
Landed(p, u) ==
  [p EXCEPT !.dots = Mark(p, u.names, "landed"), !.events = @ \cup ({u.run} \X u.names)]
Failed(p, u) ==
  [p EXCEPT !.dots = Mark(p, u.names, "failed"), !.errors = @ \cup ({u.run} \X u.names)]

Apply(p, u) ==
  CASE u.kind = "Loading"   -> Loaded(p, u)
    [] u.kind = "Landed"    -> Landed(p, u)
    [] u.kind = "Failed"    -> Failed(p, u)
    [] u.kind = "Diagnosis" -> [p EXCEPT !.diagOf = u.run]
    [] u.kind = "Done"      -> [p EXCEPT !.done = TRUE]

Accepts_Any(u) == popup # NoPopup
Accepts_NotDone(u) == popup # NoPopup /\ popup.entity = entityOf[u.run] /\ u.kind # "Done"

(* The reducer's test for a stale update. *)
Accepts(u) == popup # NoPopup /\ popup.entity = entityOf[u.run]

(* Action::CorrelateUpdate, taken from the channel. *)
HandleUpdate ==
  /\ running /\ chan # << >>
  /\ chan' = Tail(chan)
  /\ popup' = IF Accepts(Head(chan)) THEN Apply(popup, Head(chan)) ELSE popup
  /\ UNCHANGED <<running, overlay, chooser, runner, runs, entityOf, cancelled, taskVars>>

Operator ==
  \/ \E o \in Panels \cup {"Logs"} : OpenPanel(o)
  \/ \E e \in Entities : CorrelateRow(e)
  \/ CorrelateLogLine
  \/ OpenChooser \/ ChooserNavigate \/ ChooserConfirm
  \/ ToggleCorrelateFullscreen \/ CloseOverlay \/ Quit

PumpProgress(r) == StartProbe(r) \/ FinishProbe(r) \/ StartStream(r)
                     \/ PumpTake(r) \/ PumpSend(r) \/ PumpEnds(r)
DriverStep(r)   == \/ DriverLoading(r) \/ DriverDiagnoses(r) \/ DriverDone(r)
                   \/ \E s \in Sources, kind \in {"Landed", "Failed"} : DriverCollected(r, s, kind)

Task(r) == ResolveFails(r) \/ PumpProgress(r) \/ PumpDies(r) \/ DriverStep(r) \/ DriverDies(r)

Next == Operator \/ HandleUpdate \/ \E r \in Runs : Task(r)

(* Every ready task is polled and the loop drains its channel.  That the   *)
(* preparation and each Source's collect return is an assumption: the      *)
(* runner puts no timeout around them.  Nothing is assumed of the operator *)
(* or of the configuration being resolvable.                               *)
Fairness ==
  /\ WF_vars(HandleUpdate)
  /\ \A r \in Runs : WF_vars(PumpProgress(r)) /\ WF_vars(PumpDies(r))
                       /\ WF_vars(DriverStep(r)) /\ WF_vars(DriverDies(r))

Spec == Init /\ [][Next]_vars
FairSpec == Spec /\ Fairness

-----------------------------------------------------------------------------
(* The state has the types of App's popup fields, of the tasks' locals and *)
(* of the two channels, which never hold more than their capacity.         *)
TypeOK ==
  /\ running \in BOOLEAN /\ overlay \in Overlays
  /\ popup \in Popups \cup {NoPopup}
  /\ chooser \in Choosers \cup {NoChooser}
  /\ runner \in Runs \cup {NoRun} /\ runs \in 0 .. MaxRuns
  /\ entityOf \in [Runs -> Entities \cup {NoEntity}]
  /\ pump \in [Runs -> PumpStates] /\ driver \in [Runs -> DriverStates]
  /\ outbox \in [Runs -> Seq(Updates)]
  /\ ticker \in [Runs -> BOOLEAN] /\ cancelled \in [Runs -> BOOLEAN]
  /\ todo \in [Runs -> SUBSET Sources]
  /\ stream \in [Runs -> Seq(Updates)] /\ chan \in Seq(Updates)
  /\ \A r \in Runs : Len(stream[r]) <= StreamCap
  /\ Len(chan) <= ChanCap

(* The overlay marker, the popup's state, the chooser's state and the task *)
(* the loop holds belong together: a popup is on screen exactly when it    *)
(* has state and a run of its own entity, a chooser exactly when it has a  *)
(* focused entry.                                                          *)
OverlayOwnsState ==
  running =>
    /\ overlay \in PopupOverlays <=> popup # NoPopup
    /\ popup # NoPopup <=> runner # NoRun
    /\ popup # NoPopup => popup.entity = entityOf[runner]
    /\ overlay = "CorrelateChooser" <=> chooser # NoChooser
    /\ chooser # NoChooser => chooser.focus \in 1 .. Len(chooser.entities)

(* A run nobody looks at has been told to stop: every pump still alive is  *)
(* the one the runner would abort, or is aborted already.                  *)
NoOrphanRun == \A r \in Runs : PumpAlive(r) /\ ~cancelled[r] => r = runner

(* No row, error or diagnosis of another entity is ever in the popup. *)
PopupOnlyItsEntity ==
  popup # NoPopup =>
    /\ \A q \in popup.events \cup popup.errors : entityOf[q[1]] = popup.entity
    /\ popup.diagOf # NoRun => entityOf[popup.diagOf] = popup.entity

(* The popup on screen is the first one of the session for its entity. *)
FirstForEntity ==
  popup # NoPopup /\ \A r \in Runs : r # runner => entityOf[r] # popup.entity

(* A popup that says it is done is complete: every Source has a final dot, *)
(* a landed one its events and a failed one its error, and the diagnosis   *)
(* has been given; or the configuration failed and says so.  (Promised for *)
(* an entity's first popup: a later one may be fed by the earlier run.)    *)
DoneIsComplete ==
  running /\ FirstForEntity /\ popup.done =>
    /\ popup.diagOf = runner
    /\ \/ popup.dots[Config] = "failed"
       \/ \A s \in Sources :
            \/ popup.dots[s] = "landed" /\ <<runner, s>> \in popup.events
            \/ popup.dots[s] = "failed" /\ <<runner, s>> \in popup.errors

(* A dot that has settled stays settled while the popup is open: updates   *)
(* reach the popup in the order the driver emitted them, each once.        *)
DotsSettle ==
  [][\A s \in Sources :
       FirstForEntity /\ popup' # NoPopup /\ runner' = runner
       /\ popup.dots[s] \in {"landed", "failed"} => popup'.dots[s] = popup.dots[s]]_vars

(* An open popup eventually finishes, however long its run waits for room. *)
(* (At most MaxRuns popups follow one another, so this fails exactly if    *)
(* one of them stays open unfinished.)                                     *)
PopupFinishes == []<>(running /\ popup # NoPopup => popup.done)

(* Closing a popup eventually stops both of its run's tasks. *)
CancelledRunsStop ==
  []<>(running => \A r \in Runs : cancelled[r] => ~PumpAlive(r) /\ ~DriverAlive(r))

(* "Stale updates (no popup open, or popup open for a different entity)    *)
(* are dropped silently" (action.rs:103), "Stale update from a previous    *)
(* popup invocation." (app.rs:633): a popup shows its own run's rows only. *)
PopupShowsItsOwnRun ==
  running /\ popup # NoPopup => \A q \in popup.events \cup popup.errors : q[1] = runner

(* "tearing down the popup must abort the runner's per-Source futures so   *)
(* we never leak tasks" (app.rs:450): a dead run leaves no ticker behind.  *)
NoTaskOutlivesItsRun == \A r \in Runs : pump[r] = "dead" => ~ticker[r]
=============================================================================
