------------------------------- MODULE OpsNav -------------------------------
(***************************************************************************)
(* App's reducer (app.rs) as an operator on the dashboard's state: what    *)
(* each Action does to the grid focus, the layouts, the overlays, scroll   *)
(* offsets, toasts, pulses, delta badges and the correlate popup, whether  *)
(* it leaves the state dirty, and which Effect it asks of the host loop.   *)
(*                                                                         *)
(* The state is one record.  Indices count from 0 as in the code, so the   *)
(* focused layer is snaps[focus + 1].  Time is counted in ticks: a pulse   *)
(* and a toast hold the ticks they have left.                              *)
(***************************************************************************)
EXTENDS OpsEntities, Sorting

CONSTANTS
  LayerNames,  \* the layers a round may report
  Baseline,    \* the last doctor run: layers to statuses, empty when there is none
  PulseTicks,  \* PULSE_DURATION in ticks
  ToastTicks,  \* TOAST_TTL in ticks
  Frames,      \* frames of the throbber (10 in the code)
  RingCap,     \* RING_CAPACITY (32 in the code)
  ScrollMax    \* where a scroll offset saturates (65535 in the code)

ASSUME NavAssumption ==
  /\ DOMAIN Baseline \subseteq LayerNames
  /\ ToastTicks \in Nat \ {0} /\ PulseTicks \in Nat /\ ScrollMax \in Nat
  /\ Frames \in Nat \ {0} /\ RingCap \in Nat \ {0}

Good == {"Ok", "Skipped"}
Bad  == {"Warn", "Fail"}
Absent == "absent"

NoPopup   == [open |-> FALSE]
NoChooser == [open |-> FALSE]

-----------------------------------------------------------------------------
(* summarize_evidence: one troubled check speaks for itself, several are   *)
(* counted.                                                                *)
Evidence(r) ==
  LET bad == SelectSeq(r.checks, LAMBDA c : c.status \in Bad \cup {"Unknown"})
  IN  CASE bad = << >>   -> [sort |-> "all", status |-> r.status, n |-> Len(r.checks)]
        [] Len(bad) = 1  -> [sort |-> "one", text |-> IF bad[1].value = << >> THEN bad[1].name
                                                     ELSE bad[1].value]
        [] OTHER         -> [sort |-> "many", n |-> Len(bad)]

(* layer_result_to_snapshot: every check that is not Ok is a finding, its  *)
(* message "name: value".                                                  *)
Snapshot(r) ==
  LET troubled == Chosen(r.checks, {i \in DOMAIN r.checks : r.checks[i].status # "Ok"})
      Finding(c) == [status |-> c.status, message |-> c.name \o << ",", " " >> \o c.value,
                     next |-> c.next, link |-> Absent]
  IN  [name |-> r.name, status |-> r.status, evidence |-> Evidence(r),
       findings |-> [k \in DOMAIN troubled |-> Finding(troubled[k])]]

(* compute_deltas_for *)
Deltas(snaps) ==
  [name \in {snaps[i].name : i \in DOMAIN snaps} |->
     LET now  == snaps[SelectInSeq(snaps, LAMBDA s : s.name = name)].status
         prev == IF name \in DOMAIN Baseline THEN Baseline[name] ELSE Absent
     IN  CASE prev \in Good /\ now \in Bad -> "New"
           [] prev \in Bad /\ now \in Good -> "Fixed"
           [] OTHER                        -> "Unchanged"]

(* run_snapshot_from: what the ring buffer keeps of a round. *)
RunStat(snaps) ==
  [i \in DOMAIN snaps |-> [name |-> snaps[i].name, status |-> snaps[i].status,
                           count |-> Len(snaps[i].findings)]]

RingPush(h, run) == IF Len(h) = RingCap THEN Append(Tail(h), run) ELSE Append(h, run)

NewApp ==
  [snaps |-> << >>, focus |-> 0, overlay |-> "None", layout |-> "Scorecard",
   spotlightFocus |-> 0, refreshing |-> FALSE, refreshed |-> FALSE, dirty |-> TRUE,
   paused |-> FALSE, armed |-> FALSE, ticked |-> FALSE, frame |-> 0, history |-> << >>,
   deltas |-> << >>, prevStatus |-> [n \in LayerNames |-> Absent],
   pulses |-> [n \in LayerNames |-> 0], mouse |-> TRUE,
   drillScroll |-> 0, overlayScroll |-> 0, logsScroll |-> 0, regions |-> << >>,
   toast |-> 0, popup |-> NoPopup, chooser |-> NoChooser, logs |-> << >>, effect |-> "None"]

Dirty(a)     == [a EXCEPT !.dirty = TRUE]
Asks(a, eff) == [a EXCEPT !.effect = eff]
SetToast(a)  == [Dirty(a) EXCEPT !.toast = ToastTicks]

Focused(a) == IF a.focus < Len(a.snaps) THEN << a.snaps[a.focus + 1] >> ELSE << >>

LogsDominant(a) ==
  a.layout = "Scorecard" /\ Focused(a) # << >> /\ Focused(a)[1].name = "logs"

Severity(s) == CASE s = "Fail" -> 0 [] s = "Warn" -> 1 [] s = "Unknown" -> 2 [] OTHER -> 3
Novelty(d)  == CASE d = "New" -> 0 [] d = "Fixed" -> 2 [] OTHER -> 1

(* The position of snapshot i among the incident cards: severity, then     *)
(* novelty, then the order of the round, for the sort is stable.           *)
Precedes(a, i, j) ==
  LET Rank(k) == 3 * Severity(a.snaps[k].status) + Novelty(a.deltas[a.snaps[k].name])
  IN  Rank(i) < Rank(j) \/ (Rank(i) = Rank(j) /\ i < j)

(* non_green_snapshots: the incident cards of Spotlight. *)
Cards(a) ==
  LET idx == {i \in DOMAIN a.snaps : a.snaps[i].status \notin Good}
      order == Sorted(idx, {p \in idx \X idx : Precedes(a, p[1], p[2])})
  IN  [k \in DOMAIN order |-> a.snaps[order[k]]]

GreenNames(a) == SelectSeq(a.snaps, LAMBDA s : s.status \in Good)

FocusedCard(a) ==
  IF a.spotlightFocus < Len(Cards(a)) THEN << Cards(a)[a.spotlightFocus + 1] >> ELSE << >>

DrillRow_Grid(a) == Focused(a)

(* focused_for_correlate *)
DrillRow(a) == IF a.layout = "Spotlight" THEN FocusedCard(a) ELSE Focused(a)

(* The first entity any of the texts yields, as a sequence of at most one. *)
FirstOf(found) ==
  LET hits == {k \in DOMAIN found : found[k] # << >>}
  IN  IF hits = {} THEN << >> ELSE found[Min(hits)]

(* focused_entity: a next-command that names one comes before any message. *)
FocusedEntity(a) ==
  IF DrillRow(a) = << >> THEN << >>
  ELSE LET fs == DrillRow(a)[1].findings
       IN  FirstOf([k \in DOMAIN fs |-> InNextCommand(fs[k].next)]
                   \o [k \in DOMAIN fs |-> InMessage(fs[k].message)])

-----------------------------------------------------------------------------
GridCols == 3

(* move_focus: the index the grid focus goes to, itself at an edge. *)
Moved(a, dir) ==
  LET n   == Len(a.snaps)
      cur == IF a.focus < n THEN a.focus ELSE n - 1
  IN  CASE n = 0 -> a.focus
        [] dir = "Left"  /\ n > 0 -> IF cur % GridCols = 0 THEN a.focus ELSE cur - 1
        [] dir = "Right" /\ n > 0 -> IF cur + 1 >= n \/ (cur + 1) % GridCols = 0
                                     THEN a.focus ELSE cur + 1
        [] dir = "Up"    /\ n > 0 -> IF cur < GridCols THEN a.focus ELSE cur - GridCols
        [] OTHER -> IF cur + GridCols >= n THEN a.focus ELSE cur + GridCols

ScrolledTo(offset, dir) ==
  IF dir = "Up" THEN IF offset = 0 THEN 0 ELSE offset - 1
  ELSE IF offset = ScrollMax THEN ScrollMax ELSE offset + 1

(* An offset moves by one; the state is dirty only if it moved. *)
ScrollField(a, field, dir) ==
  IF ScrolledTo(a[field], dir) = a[field] THEN a
  ELSE [Dirty(a) EXCEPT ![field] = ScrolledTo(a[field], dir)]

FocusSpotlight(a, dir) ==
  LET n    == Len(Cards(a))
      next == IF dir = "Up" THEN IF a.spotlightFocus = 0 THEN 0 ELSE a.spotlightFocus - 1
              ELSE IF a.spotlightFocus + 1 < n THEN a.spotlightFocus + 1 ELSE n - 1
  IN  IF n = 0 \/ next = a.spotlightFocus THEN a
      ELSE [Dirty(a) EXCEPT !.spotlightFocus = next]

FocusGrid(a, dir) ==
  LET b == [Dirty(a) EXCEPT !.focus = Moved(a, dir)]
  IN  IF Moved(a, dir) = a.focus THEN a
      ELSE IF LogsDominant(a) /\ ~LogsDominant(b) THEN [b EXCEPT !.logsScroll = 0] ELSE b

(* Action::Focus: Up and Down walk the incident cards in Spotlight and     *)
(* scroll the logs panel while it is what the operator reads.              *)
FocusArm(a, dir) ==
  CASE a.overlay # "None" -> a
    [] a.overlay = "None" /\ a.layout = "Spotlight" /\ dir \in {"Up", "Down"} -> FocusSpotlight(a, dir)
    [] a.overlay = "None" /\ LogsDominant(a) /\ dir \in {"Up", "Down"} -> ScrollField(a, "logsScroll", dir)
    [] OTHER -> FocusGrid(a, dir)

Refresh(a) == IF a.refreshing THEN a ELSE Asks([Dirty(a) EXCEPT !.refreshing = TRUE], "StartRefresh")

Opens(a, overlay) == [Dirty(a) EXCEPT !.overlay = overlay]

OpenDetail(a) == IF a.snaps # << >> /\ a.overlay = "None" THEN Opens(a, "Detail") ELSE a
OpenHelp(a)   == IF a.overlay = "None" THEN Opens(a, "Help") ELSE a
ShowLogs(a)   == IF a.overlay = "None" THEN [Opens(a, "Logs") EXCEPT !.logsScroll = 0] ELSE a

LogLinesArm(a, lines) == [Dirty(a) EXCEPT !.logs = lines, !.logsScroll = 0]

CloseOverlay(a) ==
  IF a.overlay = "None" THEN a
  ELSE LET b == [Opens(a, "None") EXCEPT !.popup = NoPopup, !.chooser = NoChooser]
       IN  IF a.popup.open THEN Asks(b, "CancelCorrelate") ELSE b

(* update_pulses: a layer whose status flipped since it was last seen      *)
(* flashes, once the loop has ticked.                                      *)
PulsesAfter(a, snaps) ==
  [n \in LayerNames |->
     IF a.ticked /\ \E i \in DOMAIN snaps : /\ snaps[i].name = n
                                            /\ a.prevStatus[n] \notin {Absent, snaps[i].status}
     THEN PulseTicks ELSE a.pulses[n]]

PrevStatusAfter(a, snaps) ==
  [n \in LayerNames |-> LET at == SelectInSeq(snaps, LAMBDA s : s.name = n)
                        IN  IF at = 0 THEN a.prevStatus[n] ELSE snaps[at].status]

ClampSpotlight_Never(a) == a

(* clamp_spotlight_focus *)
ClampSpotlight(a) ==
  LET n == Len(Cards(a))
  IN  [a EXCEPT !.spotlightFocus = IF n = 0 THEN 0 ELSE IF @ >= n THEN n - 1 ELSE @]

(* An empty round leaves the grid focus where it was. *)
ClampFocus(a, n) == IF a.focus >= n /\ n > 0 THEN n - 1 ELSE a.focus

(* Action::Snapshots *)
SnapshotsArm(a, snaps) ==
  ClampSpotlight(
    [Dirty(a) EXCEPT !.focus = ClampFocus(a, Len(snaps)),
                     !.pulses = PulsesAfter(a, snaps),
                     !.prevStatus = PrevStatusAfter(a, snaps),
                     !.history = RingPush(@, RunStat(snaps)),
                     !.snaps = snaps, !.refreshing = FALSE, !.refreshed = TRUE,
                     !.armed = @ \/ a.ticked,
                     !.deltas = Deltas(snaps)])

(* Action::Tick.  A due deadline starts a round unless one is in flight or *)
(* the dashboard is paused; while one is, every tick repaints the          *)
(* throbber.                                                               *)
TickArm(a, due) ==
  LET b == [a EXCEPT !.ticked = TRUE,
                     !.frame = IF a.ticked THEN (@ + 1) % Frames ELSE 0,
                     !.pulses = [n \in LayerNames |-> IF @[n] > 0 THEN @[n] - 1 ELSE 0],
                     !.toast = IF @ > 0 THEN @ - 1 ELSE 0,
                     !.dirty = @ \/ a.toast = 1]
  IN  IF b.refreshing THEN Dirty(b)
      ELSE IF ~b.paused /\ b.armed /\ due
      THEN Asks([Dirty(b) EXCEPT !.refreshing = TRUE, !.armed = FALSE], "StartRefresh")
      ELSE b

(* Action::Click: hit-tested against the cards of the last scorecard drawn. *)
Click(a, cell) ==
  LET hit == SelectInSeq(a.regions, LAMBDA r : r = cell)
  IN  IF a.overlay = "None" /\ hit > 0 /\ hit <= Len(a.snaps) /\ hit - 1 # a.focus
      THEN [Dirty(a) EXCEPT !.focus = hit - 1, !.drillScroll = 0, !.logsScroll = 0]
      ELSE a

(* Action::Scroll: the wheel moves the detail overlay, the logs panel or   *)
(* the drill panel; the other overlays do not scroll.                      *)
ScrollArm(a, dir) ==
  CASE a.overlay = "Detail" -> ScrollField(a, "overlayScroll", dir)
    [] a.overlay = "None"   -> ScrollField(a, IF LogsDominant(a) THEN "logsScroll" ELSE "drillScroll", dir)
    [] OTHER                -> a

TogglePause(a) == [Dirty(a) EXCEPT !.paused = ~@]

ToggleMouseCapture(a) ==
  Asks([Dirty(a) EXCEPT !.mouse = ~@], IF a.mouse THEN "DisableMouse" ELSE "EnableMouse")

ShowSpotlight(a) ==
  IF a.layout = "Spotlight" THEN a ELSE [Dirty(a) EXCEPT !.layout = "Spotlight", !.spotlightFocus = 0]

ShowAll_Quiet(a) == [a EXCEPT !.layout = "Scorecard"]

ShowAll(a) == IF a.layout = "Scorecard" THEN a ELSE [Dirty(a) EXCEPT !.layout = "Scorecard"]

CardHas(a, Has(_)) ==
  FocusedCard(a) # << >> /\ \E i \in DOMAIN FocusedCard(a)[1].findings : Has(FocusedCard(a)[1].findings[i])

(* `y` and `o` of Spotlight: the focused incident's command or link, or a  *)
(* toast that it has none.                                                 *)
CopyNextCommand(a) ==
  CASE a.layout # "Spotlight"                    -> a
    [] CardHas(a, LAMBDA f : f.next # << >>)     -> Asks(a, "CopyToClipboard")
    [] OTHER                                     -> SetToast(a)

OpenLink(a) ==
  CASE a.layout # "Spotlight"                    -> a
    [] CardHas(a, LAMBDA f : f.link # Absent)    -> Asks(a, "OpenUrl")
    [] OTHER                                     -> SetToast(a)

EmptyPopup(entity) ==
  [open |-> TRUE, entity |-> entity, sources |-> << >>, events |-> {}, errors |-> {},
   diagnosis |-> FALSE, done |-> FALSE]

OpenPopup(a, entity) ==
  IF a.overlay # "None" THEN a
  ELSE Asks([Opens(a, "Correlate") EXCEPT !.popup = EmptyPopup(entity)], "RunCorrelate")

OpenChooser(a, entities) ==
  IF a.overlay # "None" \/ entities = << >> THEN a
  ELSE [Opens(a, "CorrelateChooser") EXCEPT !.chooser = [open |-> TRUE, entities |-> entities, focus |-> 0]]

(* One entity opens the popup, several the chooser, none a toast. *)
Dispatch(a, b, entities) ==
  CASE Len(entities) = 0 -> SetToast(a)
    [] Len(entities) = 1 -> OpenPopup(b, entities[1])
    [] OTHER             -> OpenChooser(b, entities)

(* `c` in the logs overlay, on the line the scroll offset points at; the   *)
(* overlay closes only for a popup or a chooser.                           *)
CorrelateLogLine(a) ==
  IF a.logsScroll >= Len(a.logs) THEN a
  ELSE Dispatch(a, Opens(a, "None"), InLogLine(a.logs[a.logsScroll + 1]))

(* Action::Correlate on a row; only Spotlight says that it found nothing. *)
CorrelateArm(a) ==
  CASE a.overlay = "Logs"          -> CorrelateLogLine(a)
    [] a.overlay \notin {"Logs", "None"} -> a
    [] OTHER -> IF FocusedEntity(a) # << >> THEN OpenPopup(a, FocusedEntity(a)[1])
                ELSE IF a.layout = "Spotlight" THEN SetToast(a) ELSE a

(* Action::CorrelateEventRow: behind a feature flag, and no surface of the *)
(* dashboard sends it yet.                                                 *)
CorrelateEventRow(a, enabled, text, tags) ==
  IF enabled THEN Dispatch(a, a, InEventRow(text, tags)) ELSE a

ChooserNavigate(a, dir) ==
  LET next == CASE dir = "Up"   -> IF a.chooser.focus = 0 THEN 0 ELSE a.chooser.focus - 1
                [] dir = "Down" -> IF a.chooser.focus + 1 < Len(a.chooser.entities)
                                   THEN a.chooser.focus + 1 ELSE a.chooser.focus
  IN  IF ~a.chooser.open \/ next = a.chooser.focus THEN a
      ELSE [Dirty(a) EXCEPT !.chooser.focus = next]

ChooserConfirm(a) ==
  IF ~a.chooser.open THEN a
  ELSE OpenPopup([Opens(a, "None") EXCEPT !.chooser = NoChooser],
                 a.chooser.entities[a.chooser.focus + 1])

ToggleFullscreen(a) ==
  CASE a.overlay = "Correlate"           -> Opens(a, "CorrelateFullscreen")
    [] a.overlay = "CorrelateFullscreen" -> Opens(a, "Correlate")
    [] OTHER                             -> a

(* mark_source: a Source the strip does not list yet is appended. *)
Marked(sources, name, status) ==
  LET at == SelectInSeq(sources, LAMBDA s : s.name = name)
  IN  IF at > 0 THEN [sources EXCEPT ![at].status = status]
      ELSE Append(sources, [name |-> name, status |-> status])

UpdateKinds == {"Loading", "Landed", "Failed", "Diagnosis", "Done"}

(* apply_correlate_update *)
Applied(p, u) ==
  CASE u.kind = "Loading" ->
         [p EXCEPT !.sources = [i \in DOMAIN u.names |-> [name |-> u.names[i], status |-> "Pending"]]]
    [] u.kind = "Landed" ->
         [p EXCEPT !.sources = Marked(@, u.source, "Landed"), !.events = IF u.any THEN @ \cup {u.source} ELSE @]
    [] u.kind = "Failed" ->
         [p EXCEPT !.sources = Marked(@, u.source, "Failed"), !.errors = @ \cup {u.source}]
    [] u.kind = "Diagnosis" -> [p EXCEPT !.diagnosis = u.found]
    [] u.kind = "Done"      -> [p EXCEPT !.done = TRUE]

CorrelateUpdate(a, entity, u) ==
  IF a.popup.open /\ a.popup.entity = entity THEN [Dirty(a) EXCEPT !.popup = Applied(@, u)] ELSE a

(* App::handle, for the actions the translator sends. *)
Handle(a, action) ==
  CASE action.act = "Refresh"                   -> Refresh(a)
    [] action.act = "Focus"                     -> FocusArm(a, action.dir)
    [] action.act = "OpenDetail"                -> OpenDetail(a)
    [] action.act = "OpenHelp"                  -> OpenHelp(a)
    [] action.act = "ShowLogs"                  -> ShowLogs(a)
    [] action.act = "CloseOverlay"              -> CloseOverlay(a)
    [] action.act = "Resize"                    -> Dirty(a)
    [] action.act = "TogglePause"               -> TogglePause(a)
    [] action.act = "Click"                     -> Click(a, action.cell)
    [] action.act = "Scroll"                    -> ScrollArm(a, action.dir)
    [] action.act = "ToggleMouseCapture"        -> ToggleMouseCapture(a)
    [] action.act = "ShowSpotlight"             -> ShowSpotlight(a)
    [] action.act = "ShowAll"                   -> ShowAll(a)
    [] action.act = "CopyNextCommand"           -> CopyNextCommand(a)
    [] action.act = "OpenLink"                  -> OpenLink(a)
    [] action.act = "Correlate"                 -> CorrelateArm(a)
    [] action.act = "ChooserNavigate"           -> ChooserNavigate(a, action.dir)
    [] action.act = "ChooserConfirm"            -> ChooserConfirm(a)
    [] action.act = "ShowToast"                 -> SetToast(a)
    [] action.act = "ToggleCorrelateFullscreen" -> ToggleFullscreen(a)
    [] action.act = "Quit"                      -> Asks(a, "Quit")
    [] OTHER                                    -> a
=============================================================================
