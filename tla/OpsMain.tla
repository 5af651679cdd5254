------------------------------ MODULE OpsMain ------------------------------
(***************************************************************************)
(* The process `nico ops` and `nico ops hbn` (lib.rs): the steps from the  *)
(* command line to the loop, each of which may end it; the terminal modes  *)
(* it sets and must give back; and the loop, which draws when the state is *)
(* dirty, waits for an event, a message or a tick, and hands it to the     *)
(* reducer (OpsNav) or to the panel (HbnPanel).                            *)
(*                                                                         *)
(* The tasks behind the messages are modelled in OpsRefresh, LayerFanOut   *)
(* and OpsCorrelate; here their answers arrive whenever those modules let  *)
(* them: a round's snapshots while one is in flight, log lines at any time *)
(* once a round has started, updates of any popup opened so far.           *)
(***************************************************************************)
EXTENDS OpsView, OpsKeys, HbnPanel

CONSTANTS
  Sessions,     \* what operator, cluster and clock do in one session: the sets of
                \* its terminal events, rounds, log panels, correlate updates
                \* and due flags of its ticks
  Widths,       \* widths of the terminal
  HbnAnswers,   \* the rows forgedb answers with
  HbnKeys,      \* the keys pressed in the panel
  MaxFetches    \* bound: rounds of the panel in one session

ASSUME SessionAssumption == \A x \in Sessions :
  /\ \A round \in x.rounds :
       round \in Seq(ToSet(round)) /\ \A layer \in ToSet(round) : layer.checks \in Seq(ToSet(layer.checks))
  /\ \A lines \in x.lines :
       lines \in Seq(ToSet(lines)) /\ \A text \in ToSet(lines) : text \in Seq(ToSet(text))
  /\ \A u \in x.updates : u.kind \in UpdateKinds

ASSUME AnswersAssumption == \A rows \in HbnAnswers : rows \in Seq(HbnRow)

VARIABLES
  mode,      \* "dashboard" or "hbn"
  interval,  \* the --interval flag: "none", "positive", "zero" or "invalid"
  at,        \* the start-up step that comes next, "loop" or "ended"
  code,      \* the exit code
  term,      \* terminal modes: raw, alternate screen, mouse capture
  hook,      \* whether the panic hook is installed
  app,       \* App
  panel,     \* the locals of run_hbn_event_loop
  screen,    \* what was drawn last
  width,     \* columns of the terminal
  session,   \* the session played
  opened,    \* entities a popup was opened on
  note       \* a ShowToast is in the channel

vars == <<mode, interval, at, code, term, hook, app, panel, screen, width, session, opened, note>>

startVars == <<mode, interval, session>>

Cooked == [raw |-> FALSE, alt |-> FALSE, mouse |-> FALSE]
Tui    == [raw |-> TRUE, alt |-> TRUE, mouse |-> TRUE]

PanelSession == [events |-> {}, rounds |-> {}, lines |-> {}, updates |-> {}, ticks |-> {}]

(* The steps of run_ops and run_ops_hbn up to their loops.  The dashboard  *)
(* resolves its interval only after it has entered the alternate screen.   *)
Steps(m) == IF m = "dashboard"
            THEN <<"tty", "theme", "bootstrap", "hook", "terminal", "interval", "loop">>
            ELSE <<"tty", "theme", "config", "interval", "sort", "client", "hook", "terminal", "loop">>

After(m, step) == Steps(m)[SelectInSeq(Steps(m), LAMBDA s : s = step) + 1]

(* Exit codes of a failed step; bootstrap passes on its own. *)
FailCodes(step) == CASE step = "tty" -> {3} [] step = "bootstrap" -> {1, 3} [] OTHER -> {1}

NoScreen == [layout |-> "none"]

Init ==
  /\ mode \in {"dashboard", "hbn"}
  /\ interval \in {"none", "positive", "zero", "invalid"}
  /\ session \in IF mode = "dashboard" THEN Sessions ELSE {PanelSession}
  /\ at = "tty" /\ code = 0 /\ term = Cooked /\ hook = FALSE
  /\ app = NewApp /\ panel = NewPanel("status")
  /\ screen = NoScreen /\ width \in Widths
  /\ opened = {} /\ note = FALSE

(* A step can fail, but an absent or good interval cannot, a bad one must. *)
MayPass(step) == step = "interval" => interval # "invalid"
MayFail(step) == step # "hook" /\ (step = "interval" => interval = "invalid")

(* init_terminal sets one mode after another; it may fail after any.       *)
PartlyUp == {Cooked, [Cooked EXCEPT !.raw = TRUE], Tui}

Restored_Forgets(t) == [t EXCEPT !.raw = FALSE]

(* restore_terminal and restore_terminal_raw *)
Restored(t) == Cooked

StepPasses ==
  /\ at \notin {"loop", "ended"} /\ MayPass(at)
  /\ at' = After(mode, at)
  /\ hook' = (hook \/ at = "hook")
  /\ term' = IF at = "terminal" THEN Tui ELSE term
  /\ app' = IF at' = "loop" THEN [Refresh(NewApp) EXCEPT !.effect = "None"] ELSE app
  /\ panel' \in IF at = "sort" THEN {NewPanel("status"), NewPanel("machine")} ELSE {panel}
  /\ UNCHANGED <<startVars, code, screen, width, opened, note>>

StepFails ==
  /\ at \notin {"loop", "ended"} /\ MayFail(at)
  /\ at' = "ended"
  /\ code' \in FailCodes(at)
  /\ \E t \in IF at = "terminal" THEN PartlyUp ELSE {term} :
       term' = IF at \in {"terminal", "interval"} THEN Restored(t) ELSE t
  /\ UNCHANGED <<startVars, hook, app, panel, screen, width, opened, note>>

-----------------------------------------------------------------------------
(* run_event_loop: it waits only with a clean state, for it draws first.   *)
Waiting(m) == at = "loop" /\ mode = m /\ (m = "dashboard" => ~app.dirty)

(* Leaving the loop, by `break` or by `?`, gives the terminal back. *)
Leave(exit) ==
  /\ at' = "ended" /\ code' = exit /\ term' = Restored(term)
  /\ UNCHANGED <<startVars, hook, panel, screen, opened, note>>

(* The scorecard view records where it drew its cards. *)
DrawDashboard ==
  /\ at = "loop" /\ mode = "dashboard" /\ app.dirty
  /\ screen' = View(app, width)
  /\ app' = [app EXCEPT !.dirty = FALSE,
                        !.regions = IF app.layout = "Scorecard" THEN Regions(app, width) ELSE @]
  /\ UNCHANGED <<startVars, at, code, term, hook, panel, width, opened, note>>

(* dispatch: the reducer, then the effect it asks for.  A failed copy or   *)
(* open puts a toast into the channel, unless that is full.                *)
Dispatched(b) ==
  /\ app' = [b EXCEPT !.effect = "None"]
  /\ \/ b.effect = "Quit" /\ Leave(0)
     \/ /\ b.effect # "Quit"
        /\ opened' = IF b.effect = "RunCorrelate" THEN opened \cup {b.popup.entity} ELSE opened
        /\ term' = CASE b.effect = "EnableMouse"  -> [term EXCEPT !.mouse = TRUE]
                     [] b.effect = "DisableMouse" -> [term EXCEPT !.mouse = FALSE]
                     [] OTHER                     -> term
        /\ note' \in IF b.effect \in {"CopyToClipboard", "OpenUrl"} THEN {note, TRUE} ELSE {note}
        /\ UNCHANGED <<startVars, at, code, hook, panel, screen>>

TerminalEvent ==
  /\ Waiting("dashboard")
  /\ \E event \in session.events :
       /\ width' \in IF event.kind = "resize" THEN Widths ELSE {width}
       /\ Dispatched(Handle(app, Translate(event, app.layout, app.overlay)))

TickFires ==
  /\ Waiting("dashboard") /\ UNCHANGED width
  /\ \E due \in session.ticks : Dispatched(TickArm(app, due))

RoundArrives ==
  /\ Waiting("dashboard") /\ app.refreshing /\ UNCHANGED width
  /\ \E round \in session.rounds :
       Dispatched(SnapshotsArm(app, [i \in DOMAIN round |-> Snapshot(round[i])]))

LogLinesArrive ==
  /\ Waiting("dashboard") /\ UNCHANGED width
  /\ \E lines \in session.lines : Dispatched(LogLinesArm(app, lines))

UpdateArrives ==
  /\ Waiting("dashboard") /\ UNCHANGED width
  /\ \E entity \in opened, u \in session.updates : Dispatched(CorrelateUpdate(app, entity, u))

ToastArrives ==
  /\ Waiting("dashboard") /\ note
  /\ app' = SetToast(app) /\ note' = FALSE
  /\ UNCHANGED <<startVars, at, code, term, hook, panel, screen, width, opened>>

(* A draw that fails ends the process with 1, an input that ends with 0.   *)
LoopFails ==
  /\ at = "loop" /\ UNCHANGED <<app, width>>
  /\ \/ (mode = "dashboard" => app.dirty) /\ Leave(1)
     \/ Waiting(mode) /\ Leave(0)

(* The hook restores the terminal whichever task panics; the loop runs on. *)
TaskPanics ==
  /\ at = "loop" /\ term # Cooked
  /\ term' = Cooked
  /\ UNCHANGED <<startVars, at, code, hook, app, panel, screen, width, opened, note>>

-----------------------------------------------------------------------------
(* run_hbn_event_loop draws on every pass, so its screen is not kept. *)
InPanel(p) ==
  /\ panel' = p
  /\ UNCHANGED <<startVars, at, code, term, hook, app, screen, width, opened, note>>

(* tokio's interval panics on a period of zero, before the first draw. *)
PanelPanics ==
  /\ at = "loop" /\ mode = "hbn" /\ interval = "zero"
  /\ at' = "ended" /\ code' = 101 /\ term' = IF hook THEN Cooked ELSE term
  /\ UNCHANGED <<startVars, hook, app, panel, screen, width, opened, note>>

PanelRuns == Waiting("hbn") /\ interval # "zero"

PanelKeyPressed == PanelRuns /\ \E key \in HbnKeys :
  IF key \in {"q", "esc"} THEN Leave(0) /\ UNCHANGED <<app, width>>
  ELSE panel.started < MaxFetches /\ InPanel(PanelKey(panel, key))

PanelTimer == PanelRuns /\ panel.started < MaxFetches /\ InPanel(PanelRefresh(panel))

RowsArrive ==
  /\ PanelRuns /\ panel.fetch = "running"
  /\ \E rows \in HbnAnswers : InPanel(PanelRows(panel, rows))

ErrorArrives == PanelRuns /\ panel.fetch = "running" /\ InPanel(PanelError(panel))

(* A round whose task dies sends nothing: the panel refreshes no more. *)
FetchDies == PanelRuns /\ panel.fetch = "running" /\ InPanel([panel EXCEPT !.fetch = "dead"])

-----------------------------------------------------------------------------
Next ==
  \/ StepPasses \/ StepFails
  \/ DrawDashboard \/ TerminalEvent \/ TickFires \/ RoundArrives
  \/ LogLinesArrive \/ UpdateArrives \/ ToastArrives
  \/ LoopFails \/ TaskPanics
  \/ PanelPanics \/ PanelKeyPressed \/ PanelTimer \/ RowsArrive \/ ErrorArrives \/ FetchDies

Spec == Init /\ [][Next]_vars

-----------------------------------------------------------------------------
(* The grid focus is on a card, once there is one. *)
FocusInRange == app.snaps = << >> \/ app.focus < Len(app.snaps)

(* Whatever rounds come in after the operator has moved, one without any   *)
(* layer included, every index the reducer keeps points at a card, an      *)
(* incident or a choice that exists.                                       *)
IndicesInRange ==
  /\ FocusInRange
  /\ app.spotlightFocus < Len(Cards(app)) \/ (app.spotlightFocus = 0 /\ Cards(app) = << >>)
  /\ app.chooser.open => app.chooser.focus < Len(app.chooser.entities)

(* A flash is repainted only along with something else. *)
Steady(view) ==
  IF view.layout = "Scorecard"
  THEN [view EXCEPT !.cards = [i \in DOMAIN @ |-> [@[i] EXCEPT !.flash = FALSE]]]
  ELSE view

(* The reducer never forgets to ask for a repaint: while the loop waits,   *)
(* what the operator sees is what the state says, in whichever order keys, *)
(* ticks and answers came, and the cards a click is tested against are the *)
(* ones on screen.  Pulses alone are left to the next repaint.             *)
ScreenIsCurrent ==
  Waiting("dashboard") /\ screen # NoScreen =>
    /\ Steady(screen) = Steady(View(app, width))
    /\ app.layout = "Scorecard" => app.regions = Regions(app, width)

EscTo(a) == Handle(a, Translate([kind |-> "key", what |-> "esc"], a.layout, a.overlay))

(* From wherever the operator has got to, Esc three times leads back to    *)
(* the scorecard, and no popup's run is left behind.                       *)
EscUnwinds ==
  LET home == EscTo(EscTo(EscTo(app)))
  IN  /\ home.overlay = "None" /\ home.layout = "Scorecard" /\ ~home.popup.open
      /\ app.popup.open => "CancelCorrelate" \in {EscTo(app).effect, EscTo(EscTo(app)).effect}

(* The names of the layers highlighted on screen. *)
Highlighted ==
  LET cells == IF screen.layout = "Scorecard" THEN screen.cards ELSE screen.rows
  IN  {cells[i].name : i \in {j \in DOMAIN cells : cells[j].focused}}

Mentions(f) == {found[1] : found \in {InNextCommand(f.next), InMessage(f.message)} \ {<< >>}}

(* `c` and Enter on a row drill into what the operator looks at: the       *)
(* entity is one that a finding of the highlighted layer names, though     *)
(* rounds re-sort the incidents and two layouts keep a focus each.         *)
DrillTargetsHighlight ==
  [][~app.popup.open /\ app'.popup.open /\ app.overlay = "None"
       => \E i \in DOMAIN app.snaps :
            /\ app.snaps[i].name \in Highlighted
            /\ \E k \in DOMAIN app.snaps[i].findings :
                 app'.popup.entity \in Mentions(app.snaps[i].findings[k])]_vars

(* However the process ends, the terminal is as it was found. *)
TerminalRestored == at = "ended" => term = Cooked

(* The panel's rows stand in the order its strip announces, whatever mix   *)
(* of sort keys and late answers produced them.                            *)
RowsSorted ==
  \A i, j \in DOMAIN panel.rows : i < j => ~Before(panel.sort, panel.rows[j], panel.rows[i])

Rounds == INSTANCE RefreshRounds WITH started <- panel.started, shown <- panel.shown

(* The panel's timer and `r` together keep the promise of the dashboard's  *)
(* refresh loop: fetches never overlap, each is shown before the next.     *)
PanelImplementsRounds == Rounds!Spec
=============================================================================
