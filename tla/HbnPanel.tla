------------------------------ MODULE HbnPanel ------------------------------
(***************************************************************************)
(* The panel of `nico ops hbn` (hbn_panel.rs and run_hbn_event_loop): one  *)
(* row per DPU, sorted for triage or by machine, refreshed from forgedb on *)
(* a timer and by hand.  The panel's state is one record; a round counts   *)
(* as shown when its answer, rows or an error, has been handled.           *)
(*                                                                         *)
(* A row is what aggregate_row makes of a DPU: machine (a number, in the   *)
(* order of the names), status, age of its drift in seconds, the axes that *)
(* drift, the quarantine state.                                            *)
(***************************************************************************)
EXTENDS Naturals, Sequences, Sorting

Statuses == {"Quarantined", "Unhealthy", "Drift", "Healthy"}
HbnRow   == [machine : Nat, status : Statuses, age : Nat, mh : BOOLEAN, inst : BOOLEAN,
             quarantine : STRING]
Columns  == {"status", "machine"}

StatusRank(status) ==
  CASE status = "Quarantined" -> 3 [] status = "Unhealthy" -> 2
    [] status = "Drift" -> 1       [] status = "Healthy" -> 0

(* Worst first, then the older drift, then the machine. *)
TriageBefore(a, b) ==
  \/ StatusRank(a.status) > StatusRank(b.status)
  \/ /\ StatusRank(a.status) = StatusRank(b.status)
     /\ \/ a.age > b.age
        \/ a.age = b.age /\ a.machine < b.machine

MachineBefore(a, b) == a.machine < b.machine

Before(sort, a, b) == IF sort = "status" THEN TriageBefore(a, b) ELSE MachineBefore(a, b)

(* sort_rows: a stable sort, so rows that tie keep their order. *)
SortRows(rows, sort) ==
  LET First(i, j) == \/ Before(sort, rows[i], rows[j])
                     \/ ~Before(sort, rows[j], rows[i]) /\ i < j
      order == Sorted(DOMAIN rows, {p \in (DOMAIN rows) \X (DOMAIN rows) : First(p[1], p[2])})
  IN  [k \in DOMAIN rows |-> rows[order[k]]]

(* select_layout and grid of cells: the wide table, or machine and status. *)
PanelLayout(width) == IF width >= 90 THEN "wide" ELSE "narrow"

HumanizeAge(secs) ==
  CASE secs < 60   -> <<secs, "s">>
    [] secs >= 3600 -> <<secs \div 3600, "h">>
    [] OTHER       -> <<secs \div 60, "m">>

DriftCell(row) == IF row.mh \/ row.inst THEN HumanizeAge(row.age) ELSE << >>

(* status_string *)
StatusCell(row) ==
  CASE row.status = "Healthy"     -> <<"healthy">>
    [] row.status = "Unhealthy"   -> <<"unhealthy">>
    [] row.status = "Quarantined" -> <<"quarantined", row.quarantine>>
    [] row.status = "Drift"       -> <<"drift", row.mh, row.inst, HumanizeAge(row.age)>>

RowSeverity(status) ==
  CASE status \in {"Quarantined", "Unhealthy"} -> "Fail"
    [] status = "Drift" -> "Warn" [] status = "Healthy" -> "Ok"

RowCells(row, layout) ==
  [machine |-> row.machine, severity |-> RowSeverity(row.status),
   cells |-> IF layout = "wide" THEN [drift |-> DriftCell(row), quarantine |-> row.quarantine]
             ELSE [status |-> StatusCell(row)]]

-----------------------------------------------------------------------------
NewPanel(sort) ==
  [rows |-> << >>, sort |-> sort, error |-> FALSE, refreshing |-> TRUE, refreshed |-> FALSE,
   started |-> 1, shown |-> 0, fetch |-> "running"]

(* render_panel and the status strip. *)
PanelView(p, width) ==
  [layout |-> PanelLayout(width),
   rows |-> [i \in DOMAIN p.rows |-> RowCells(p.rows[i], PanelLayout(width))],
   strip |-> <<p.sort, p.refreshed, p.refreshing, p.error>>]

(* spawn_hbn_refresh *)
Fetch(p) == [p EXCEPT !.refreshing = TRUE, !.started = @ + 1, !.fetch = "running"]

PanelRefresh_Always(p) == Fetch(p)

(* The timer and `r` start a round only when none is in flight. *)
PanelRefresh(p) == IF p.refreshing THEN p ELSE Fetch(p)

Other(sort) == IF sort = "status" THEN "machine" ELSE "status"

PanelSort_LabelOnly(p) == [p EXCEPT !.sort = Other(@)]

(* `s` flips the column and sorts what is shown. *)
PanelSort(p) == [p EXCEPT !.sort = Other(@), !.rows = SortRows(@, Other(p.sort))]

(* HbnTick::Snapshots and HbnTick::Error: an error keeps the old rows. *)
PanelRows(p, rows) ==
  [p EXCEPT !.rows = SortRows(rows, p.sort), !.error = FALSE, !.refreshing = FALSE,
            !.refreshed = TRUE, !.shown = p.started, !.fetch = "idle"]

PanelError(p) ==
  [p EXCEPT !.error = TRUE, !.refreshing = FALSE, !.refreshed = TRUE,
            !.shown = p.started, !.fetch = "idle"]

(* `q` and Esc end the panel; any other key, Ctrl-C included, is ignored.  *)
PanelKey(p, key) ==
  CASE key = "r" -> PanelRefresh(p)
    [] key = "s" -> PanelSort(p)
    [] OTHER     -> p
=============================================================================
