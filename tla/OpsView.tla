------------------------------ MODULE OpsView ------------------------------
(***************************************************************************)
(* What the dashboard shows (view.rs, widgets.rs, popup.rs and             *)
(* layout_solver.rs) as a function of App: the words, marks, orders and    *)
(* ranges the operator reads.  Colours, spacing and wording are left out,  *)
(* and so is ratatui's own splitting of the area: the inner height of the  *)
(* drill panel is a constant.                                              *)
(***************************************************************************)
EXTENDS OpsNav

CONSTANTS
  DrillRows,      \* inner height of the drill panel
  Crumbs,         \* BREADCRUMB_CAP (10 in the code)
  SparkMax,       \* SPARKLINE_MAX (24 in the code)
  Height          \* rows of the terminal

U16(n) == n % 65536

(* popup.rs and layout_solver.rs: percentages in 16-bit arithmetic. *)
Centered(width, pct) ==
  LET w == U16(width * pct[1]) \div 100
      h == U16(Height * pct[2]) \div 100
  IN  [x |-> (width - w) \div 2, y |-> (Height - h) \div 2, width |-> w, height |-> h]

(* Breakpoint and logs_overlay_pct *)
LogsPct(width) == CASE width < 100 -> <<95, 90>> [] width > 180 -> <<75, 70>> [] OTHER -> <<85, 80>>

PopupPct(overlay, width) ==
  CASE overlay = "Detail"           -> <<80, 80>>
    [] overlay = "Help"             -> <<60, 80>>
    [] overlay = "Correlate"        -> <<80, 70>>
    [] overlay = "CorrelateChooser" -> <<50, 40>>
    [] overlay = "Logs"             -> LogsPct(width)
    [] OTHER                        -> <<100, 100>>

(* grid_cols_for_width *)
ColsFor(width) == CASE width < 60 -> 1 [] width >= 90 -> 3 [] OTHER -> 2

(* overall_verdict and run_verdict: the worst status, Skipped counts as Ok. *)
Verdict(statuses) ==
  CASE "Fail" \in statuses    -> "Fail"
    [] "Warn" \in statuses /\ "Fail" \notin statuses -> "Warn"
    [] "Unknown" \in statuses /\ statuses \cap Bad = {} -> "Unknown"
    [] OTHER -> "Ok"

StatusesIn(layers) == {layers[i].status : i \in DOMAIN layers}

LastN(s, n) == SubSeq(s, IF Len(s) > n THEN Len(s) - n + 1 ELSE 1, Len(s))

(* breadcrumb_verdicts *)
Breadcrumbs(history) ==
  [i \in DOMAIN LastN(history, Crumbs) |-> Verdict(StatusesIn(LastN(history, Crumbs)[i]))]

(* sparkline_for_layer: finding counts of the rounds that reported the     *)
(* layer, scaled to eight glyphs; blank below two of them.                 *)
Sparkline(history, name, width) ==
  LET runs   == SelectSeq(history, LAMBDA run : \E i \in DOMAIN run : run[i].name = name)
      counts == [k \in DOMAIN runs |->
                   runs[k][SelectInSeq(runs[k], LAMBDA l : l.name = name)].count]
      window == LastN(counts, IF width < SparkMax THEN width ELSE SparkMax)
      top    == Max({0} \cup {window[i] : i \in DOMAIN window})
  IN  IF Len(counts) < 2 \/ width = 0 THEN << >>
      ELSE [i \in DOMAIN window |-> IF top = 0 THEN 0 ELSE (window[i] * 7) \div top]

(* throbber_glyph *)
Throbber(a) == CASE a.refreshing -> a.frame [] ~a.refreshing /\ a.refreshed -> Frames [] OTHER -> Frames + 1

Header(a) ==
  [pips     |-> [i \in DOMAIN a.snaps |-> a.snaps[i].status],
   verdict  |-> Verdict(StatusesIn(a.snaps)),
   crumbs   |-> Breadcrumbs(a.history),
   stamp    |-> CASE a.refreshing -> "refreshing" [] ~a.refreshing /\ a.refreshed -> "refreshed" [] OTHER -> "never",
   throbber |-> Throbber(a)]

(* render_scorecard *)
Scorecard(a, i, width) ==
  LET s == a.snaps[i + 1]
  IN  [name |-> s.name, status |-> s.status, evidence |-> s.evidence,
       focused |-> i = a.focus,
       badge |-> IF a.deltas[s.name] = "Unchanged" THEN "none" ELSE a.deltas[s.name],
       flash |-> a.ticked /\ a.pulses[s.name] > 0,
       spark |-> Sparkline(a.history, s.name, (width \div ColsFor(width)) - 2)]

(* render_grid: the cell of every card, row by row. *)
Regions(a, width) ==
  [i \in DOMAIN a.snaps |-> <<(i - 1) \div ColsFor(width), (i - 1) % ColsFor(width)>>]

Grid(a, width) == [i \in DOMAIN a.snaps |-> Scorecard(a, i - 1, width)]

(* finding_lines: three findings in the drill panel, and how many more;    *)
(* all of them in the detail overlay.                                      *)
FindingLines(findings, full) ==
  LET limit == IF full THEN Len(findings) ELSE 3
      shown == SubSeq(findings, 1, IF Len(findings) < limit THEN Len(findings) ELSE limit)
  IN  [lines |-> [i \in DOMAIN shown |-> <<shown[i].status, shown[i].message, shown[i].next>>],
       more |-> Len(findings) - Len(shown)]

(* render_logs_panel: the offset is clamped on use only. *)
LogsPanel(a) ==
  LET total  == Len(a.logs)
      most   == IF total > DrillRows THEN total - DrillRows ELSE 0
      offset == IF a.logsScroll < most THEN a.logsScroll ELSE most
      shown  == IF total - offset < DrillRows THEN total - offset ELSE DrillRows
  IN  [title |-> "logs", from |-> offset + 1, of |-> total,
       lines |-> SubSeq(a.logs, offset + 1, offset + shown)]

Findings(a, full, scroll) ==
  IF Focused(a) = << >> THEN [title |-> "none", scroll |-> scroll]
  ELSE [title |-> Focused(a)[1].name, scroll |-> scroll,
        body |-> FindingLines(Focused(a)[1].findings, full)]

Drill(a) == IF LogsDominant(a) THEN LogsPanel(a) ELSE Findings(a, FALSE, a.drillScroll)

HintBar(a) == IF a.toast > 0 THEN [toast |-> TRUE] ELSE [mouse |-> a.mouse, paused |-> a.paused]

(* The body of the popup, condensed or full: banner, dots, timeline.  The  *)
(* throbber in its title is the dashboard's.                               *)
PopupBody(a) ==
  [entity |-> a.popup.entity, loading |-> ~a.popup.done,
   throbber |-> IF a.popup.done THEN Frames + 1 ELSE Throbber(a),
   diagnosis |-> a.popup.diagnosis, dots |-> a.popup.sources,
   timeline |-> IF a.popup.events = {} /\ a.popup.errors = {} THEN {"empty"}
                ELSE a.popup.events \cup a.popup.errors]

ChooserBody(a) ==
  [i \in DOMAIN a.chooser.entities |->
     [id |-> a.chooser.entities[i].id, type |-> a.chooser.entities[i].type,
      focused |-> i - 1 = a.chooser.focus]]

OverlayBody(a) ==
  CASE a.overlay = "Detail"           -> [detail |-> Findings(a, TRUE, a.overlayScroll)]
    [] a.overlay = "Logs"             -> [logs |-> a.logs, scroll |-> a.logsScroll]
    [] a.overlay = "CorrelateChooser" -> [choices |-> ChooserBody(a)]
    [] a.overlay \in {"Correlate", "CorrelateFullscreen"} -> [popup |-> PopupBody(a)]
    [] OTHER                          -> [keys |-> TRUE]

Overlay(a, width) ==
  [which |-> a.overlay, at |-> Centered(width, PopupPct(a.overlay, width)), body |-> OverlayBody(a)]

Nothing == [which |-> "None"]

(* Spotlight draws every overlay but the detail one. *)
DrawnOverlay(a, width) ==
  IF a.overlay = "None" \/ (a.layout = "Spotlight" /\ a.overlay = "Detail") THEN Nothing
  ELSE Overlay(a, width)

ScorecardView(a, width) ==
  [layout |-> "Scorecard", header |-> Header(a), cards |-> Grid(a, width), drill |-> Drill(a),
   hint |-> HintBar(a), overlay |-> DrawnOverlay(a, width)]

(* render_spotlight_findings: a heading where the severity changes, the    *)
(* first message and the first command of every card.                      *)
IncidentRows(a) ==
  LET cards == Cards(a)
  IN  [i \in DOMAIN cards |->
         [name |-> cards[i].name, status |-> cards[i].status, evidence |-> cards[i].evidence,
          heading |-> i = 1 \/ cards[i - 1].status # cards[i].status,
          focused |-> i - 1 = a.spotlightFocus,
          detail |-> IF cards[i].findings = << >> THEN << >> ELSE cards[i].findings[1].message,
          next |-> FirstOf([k \in DOMAIN cards[i].findings |-> cards[i].findings[k].next])]]

SpotlightView(a, width) ==
  [layout |-> "Spotlight", verdict |-> Verdict(StatusesIn(a.snaps)), rows |-> IncidentRows(a),
   green |-> [i \in DOMAIN GreenNames(a) |-> GreenNames(a)[i].name],
   hint |-> [toast |-> a.toast > 0], overlay |-> DrawnOverlay(a, width)]

(* view::render *)
View(a, width) == IF a.layout = "Scorecard" THEN ScorecardView(a, width) ELSE SpotlightView(a, width)
=============================================================================
