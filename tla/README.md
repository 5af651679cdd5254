# nico-doctor in TLA+

TLA+ models of the `nico` tools - the dashboard `nico ops` with its tasks and channels,
runs of `nico doctor` and `nico correlate` from the command line to the exit code - the
TLC configurations that check them on small instances, and theorems about them checked
by TLAPS. Source paths below are relative to the
repository; `ops/`, `doctor/`, `correlate/`, `common/` stand for `crates/nico-ops/src/` and so on.

## 1. Inventory

| Component | State it keeps | Operations | Hard because |
|---|---|---|---|
| Refresh loop of `nico ops` (`ops/app.rs`, `ops/lib.rs`) | `refreshing`, `paused`, `now`, `next_refresh_at`, history ring; two spawned tasks per round | R, P, tick, Snapshots, LogLines, quit | tasks answer late and out of order through a bounded channel; the timer runs while a round is in flight |
| Correlate popup (`ops/app.rs`, `ops/model.rs`) | `overlay`, `correlate`, `chooser` | open from a row, a log line or the chooser, toggle, close, apply an update | updates of an aborted run are still queued |
| Correlate runner (`ops/correlate_runner.rs`, `ops/lib.rs`) | abort handle, pump task, driver task, stream, ticker of the boot probe | spawn, abort, prepare, emit, forward | cancellation at any await point, two bounded channels in a row |
| Collection round (`ops/data.rs`, `doctor/lib.rs`, `doctor/runner.rs`, `doctor/log_collector.rs`) | pod-log cache, futures in flight, result channel | list pods, fetch logs, run layers under a timeout, collect | a layer hangs, panics or answers at its deadline |
| `nico correlate --tail` (`correlate/tail.rs`, `correlate/lib.rs`) | a cutoff per source, a channel | query, trim and print, poll, send, print, Ctrl-C | events happen between query and poll; polls fail |
| Timeline, exit code, diagnosis (`correlate/timeline.rs`, `correlate.rs`, `diagnosis.rs`) | none | pure functions | boundaries of the trimming |
| Correlate sources (`correlate/sources/`, `event.rs`, `bootstrap.rs`) | none | collect, one per source | a source fails, is restricted or finds nothing, in any mixture |
| Navigation (`ops/app.rs`, `ops/events.rs`) | focus, spotlight focus, scroll offsets, layout, toast, pulses, deltas | keys, mouse, Snapshots | an index outlives the list it points into |
| Rendering (`ops/view.rs`, `widgets.rs`, `popup.rs`, `layout_solver.rs`) | the card regions it drew | draw | drawn only when the state says it is dirty |
| HBN panel (`ops/lib.rs`, `ops/hbn_panel.rs`) | rows, error, sort column, `refreshing` | r, s, timer, answer | a query that hangs; a zero interval |
| Process and terminal (`ops/lib.rs`, `ops/cli.rs`) | raw mode, alternate screen, mouse capture, panic hook | start-up steps, loop, restore | any step may fail, any task panic |
| Boot probe (`common/boot_probe/`) | step states, ticker task | started, finished, skip, finish, fail | lanes run together; a step fails or times out, later ones depend on it |
| Bootstrap (`doctor/bootstrap.rs`, `correlate/bootstrap.rs`, `common/reach.rs`) | port-forward guards, clients, layers | prepare | guards live exactly as long as their owner; a second configuration in the middle |
| Doctor run (`doctor/lib.rs`, `doctor/runner.rs`, `doctor/baseline.rs`) | baseline file | run layers, summarise, exit code, save | the file is written in place |
| Layers (`doctor/layers/`, `dpu.rs`, `log_collector.rs`) | none | collect | an answer that cannot be had is not an empty one |
| Axis verdicts (`doctor/verdicts/`, `dpu*.rs`, `hbn.rs`, `infiniband.rs`) | none | pure functions | precedence of many signals; seven readers of one row |
| Configuration (`common/config.rs`, `deployment_detect.rs`) | none | merge of flag, environment, file, default | precedence, conflicts, detection |
| Theme, wording, perf traces, scripts | none | text | - |

How they meet. The event loop of `nico ops` is one task: `select!` over terminal
events, the action channel and a 100 ms tick, each turned into `App::handle(action)`,
whose optional `Effect` the loop carries out: it spawns a round (a collection round
that sends one `Snapshots`, a panel fetch that sends one `LogLines`), spawns or aborts
a correlate run, or leaves. Everything spawned answers through the one 64-slot
channel. A collection round runs doctor's layers in-process; `nico doctor` runs the
same layers without a channel (`run_once`). A correlate run drives the same sources as
`nico correlate`. Doctor and correlate boot alike: configuration, then the probe, whose
steps connect, validate and open port-forwards and whose results the layers and sources
are built from; the forwards are dropped when these are done. Doctor leaves one thing
behind for its next run, the baseline file its badges compare with.

What makes each component right is listed with the modules below; what can go wrong is
in `PROJECT.json` under `hazards`, at the line where it bites.

## 2. Modules

| Module | Models | Extends / instantiates |
|---|---|---|
| `OpsRefresh` | refresh loop, its tasks, channel and ring | `RefreshRounds` as `Abstract` |
| `RefreshRounds` | the promise: a round starts after the one before it is shown, every round is shown, in order | - |
| `OpsRefreshProofs` | theorems about `OpsRefresh` | `OpsRefresh`, `TLAPS` |
| `OpsCorrelate` | popup, chooser, overlays, runner, pump, driver, ticker, both channels | - |
| `MCOpsCorrelate` | two entities, log lines with none, one and two of them | `OpsCorrelate` |
| `OpsCorrelateProofs` | theorems about `OpsCorrelate`: types, overlays, runs, the order of a run's updates and what its popup shows | `OpsCorrelate`, `TLAPS` |
| `Sorting` | what a sort or a filter of the standard library leaves behind | - |
| `SortingProofs` | that it is a permutation in order | `Sorting`, `TLAPS` |
| `LayerFanOut`, `MCLayerFanOut` | one collection round | `Sorting` |
| `LayerFanOutProofs` | theorems about `LayerFanOut` | `LayerFanOut`, `SortingProofs` |
| `CorrelateTail`, `MCCorrelateTail` | first query, dump, tail | `Sorting` |
| `CorrelateTailProofs` | theorems about `CorrelateTail` | `CorrelateTail`, `SortingProofs` |
| `OpsEntities` | extraction of entities from findings and log lines | - |
| `OpsNav` | the reducer `App::handle` as an operator on its state | `OpsEntities`, `Sorting` |
| `OpsKeys` | the translation tables of `events.rs` | - |
| `OpsView` | what the dashboard shows, as a function of the state | `OpsNav` |
| `HbnPanel` | state and steps of the HBN panel | `Sorting` |
| `OpsMain`, `MCOpsMain` | the process `nico ops`: start-up, terminal, loop, panel | `OpsView`, `OpsKeys`, `HbnPanel`, `RefreshRounds` as `Rounds` |
| `OpsMainProofs` | theorems about `OpsMain`: terminal, panel, screen | `OpsMain`, `SortingProofs` |
| `OpsReducerProofs` | theorems about `OpsMain`: indices, overlays, drilling | `OpsMainProofs` |
| `Config`, `BootProbe` | nico-common: configuration, the probe | `Sorting` |
| `DeploymentDetect` | nico-common: the detection ladder | `Config` |
| `Reach` | nico-common: the way to a service | `Sorting` |
| `DoctorBootstrap` | from the command line to the inputs of the layers | the four above |
| `DpuVerdicts`, `DpuLayers` | the axis verdicts; the commands on one DPU and the fleet layer | `Sorting` |
| `DoctorLayers`, `DoctorRun` | the seven layers; report, exit code, baseline, output | `DpuLayers`, `DoctorBootstrap` |
| `CorrelateSources`, `CorrelateRun` | the sources; arguments, timeline, diagnosis, exit code | `DoctorBootstrap` |
| `NicoRun`, `MCNicoRun` | invocations of doctor and correlate, one after the other | `DoctorRun`, `CorrelateRun` |
| `NicoRunProofs` | theorems about `NicoRun`: types, baseline, screen, refusal, detection, answers, views, health | `NicoRun`, `SortingProofs` |

A definition whose name is another one's with a suffix (`Push_...`, `Emit_Unbounded`,
`Cap_One`) is a plausible bug in that definition, used to confirm that a property
notices it; no specification uses it.

### OpsRefresh

A round is a number. `snapTask[r]` is the task `spawn_refresh` started for it:
collecting, waiting for room in the channel, queued (its one message is in the
channel), done; `logTask[r]` likewise. `Refresh`, `TogglePause`, `Tick`,
`HandleSnapshots`, `HandleLogLines` and `Quit` are the reducer's arms together with
the effect the loop carries out. Time is relative: `lag` is the distance from
`App.now` to the clock, `deadline` what is left to `next_refresh_at`; `Unarmed` is
`None`. What a snapshot contains is reduced to its round.

### OpsCorrelate

`overlay`, `popup`, `chooser`, `runner` are the fields of `App` and `CorrelateRunner`;
a run has a `pump` (the task behind the abort handle), an `outbox` (the update it
holds between the two channels), a `ticker` (the boot probe's paint task), a `driver`
with the sources still `todo`, and a `stream`. An abort sets `cancelled[r]`; `PumpDies`
and, when its receiver is gone, `DriverDies` happen at a later step, since a task
stops only where it awaits. Updates carry their run in the model so that properties can
tell runs apart; the reducer, as in the code, compares entities only (`Accepts`).

### LayerFanOut

`phase` is that of the spawned task: listing pods, fetching logs pod by pod, polling
the layers, ended or unwound by a panic. The task is one future: while it waits in
`send` no layer is polled and no timeout fires, hence the guard `holding = NoLayer` in
`Report`. `MustAct` makes a due timer or an answered call urgent; the caller that
receives is not urgent and may be arbitrarily slow.

### CorrelateTail

An event carries the clock reading at which it happened and is visible to queries from
then on. `Collect` queries the sources in order, one await after the other;
`PrintDump` merges, sorts and trims (`FilterTimeline`); `StartTail` reads the cutoffs;
`PollNews`, `PollUnavailable` and `SendBatch` are the pollers, `PrintMessage` and
`CtrlC` the `select!`. Sorting by timestamp is stable over query order (`Before`).
`PrintDump` also drops the port-forward guards (lib.rs:92), which ends the listeners and
leaves established connections alone: of the sources that connect anew for every query
(`Dialing`) any may be gone from then on, namely those that were reached by a forward. Any
source may be lost for good later (`GoesForGood`); `PollNews` is for those not `gone`.

### OpsEntities, OpsNav, OpsKeys, OpsView, HbnPanel, OpsMain

`OpsNav` has one operator per arm of `App::handle`, from the record `app` (the struct
`App`) to the next one; `effect` is the `Option<Effect>` an arm returns, `dirty` the
flag it sets, and whoever sets neither changes nothing that is shown. `OpsKeys` has a
table per layout and overlay, in the precedence of `Translator::key`: a record from the
keys it binds to the actions they mean. `OpsView` keeps
of a frame what an operator reads off it - cards, marks, rows, ranges of lists, badges -
and the cells in which cards lie. A text is a sequence of words and separators, enough
for the word boundaries of `entity_extraction.rs`.

`OpsMain` puts these into the loop: `at` is the start-up step that comes next (`Steps`
in the order of `run_ops` and `run_ops_hbn`), `term` the terminal modes, `screen` what
was drawn last. `DrawDashboard` is enabled exactly while the state is dirty, everything
else (`Waiting`) only when it is not, which is the order of the code's loop. The tasks
are those of the other modules: a round may answer while `refreshing` is set, log lines
come at any time, updates for whatever a popup has been opened on, so each message may
be as stale as the channel can make it. `TaskPanics` is a panic in a spawned task (the
hook restores the terminal, the loop draws on), `PanelPanics` the panic on a zero
interval. The panel keeps, besides its locals, how many rounds it `started` and has
`shown`, through which it implements `RefreshRounds`.

### Config, DeploymentDetect, Reach, BootProbe, DoctorBootstrap

`Load` merges file, environment and flags as `Config::load` does, with the same order
of errors; `Detect` is the ladder of `detect_deployment_type`. `Reach` resolves a
service to an endpoint: its port, its pod, a forward that opens in time or not, the
in-cluster name. A probe is a record with a state per step; `DoctorBootstrap` says which
steps a session has, when a step may begin (`MayBegin`: the connecting steps in order,
then the validating steps and the lanes together), which ends the world allows
(`Outcomes`), and what an end does to the others (`StepEnds`): a failed connecting step
skips the rest, a detected type rewrites the configuration in the middle of the probe.

### DpuVerdicts, DpuLayers, DoctorLayers, DoctorRun

Pure operators over the rows of forgedb and the answers of the other services. Each
reader of a row - the six commands, the fleet layer, `dpu-health` - has the parser it has
in the code, where they differ too. Moments are seconds in the past. `DoctorRun` turns
the results into summary, exit code, baseline, badges and page or document.

### CorrelateSources, CorrelateRun

A source is an operator from entity and world to events, or to unavailable or
restricted; `CorrelateRun` selects the sources of an entity, boots, collects them one
after the other, sorts, trims, diagnoses and sets the exit code.

### NicoRun

One variable per thing that outlives a step: the `boot`, the `report`, the `prior`
baseline read before the layers, the `file`, what was `shown`. The steps of the probe
are `StepBegin` and `StepEnd`, in any order the lanes allow; saving the baseline is
three steps (truncated, written, or cut short), and `Dies` may come between any two.
`RunsAgain` starts another invocation over the same file. `kept` is a history variable:
the last conclusive report that was written to its end.

## 3. Runs

Passing runs:

| Run | Shows | Bounds, and why they are enough |
|---|---|---|
| `ops_refresh` | `SingleFlight`, `HistoryIsWindow`, refinement of `RefreshRounds`, `PauseHoldsTimer`, `RefreshCompletes`, `AutoRefreshFires` | 4 rounds, channel of 2, ring of 2: the ring evicts twice, both tasks of a round and the log task of an older one compete for the channel; an interval of 2 units with ticks up to 1 late |
| `ops_correlate` | `OverlayOwnsState`, `NoOrphanRun`, `PopupOnlyItsEntity`, `DoneIsComplete`, `DotsSettle`, `PopupFinishes`, `CancelledRunsStop` | 2 popups of the same or different entities, 2 sources, both channels of 1, the tightest: every sender blocks, a run is aborted at each of its steps while another starts. The overlays without a run of their own are alike, so `Panels` is empty and the logs overlay stands for them. The two entities differ in the log lines only, so the constraint `FirstOnDpu` keeps the behaviours whose first popup is of one of them; no symmetry, as liveness is checked |
| `layer_fan_out` | `ResultsConserved`, `CacheTellsPodsApart`, `SnapshotsInLayerOrder`, `FanOutWithinOneTimeout`, `CollectReturns` | 3 layers with a timeout of 2 units, 2 pods with calls of at most 1: results arrive in each order, any subset hangs, any layer panics. The clock `elapsed` saturates at 8, beyond the longest round |
| `correlate_tail` | `PrintedOnce`, `EachSourceInOrder`, `TroubleIsDumped`, `ExitCodeMatchesDump`, `TailCatchesUp` | 2 sources, one of them `Dialing`, 3 events, 3 clock readings, ends of 1 + 1 so that 3 events are trimmed, channel of 1. Only trimming the answers reads a severity, so the constraint `PlainUnlessAnswered` follows an event that is in no answer with one severity |
| `ops_main` | `IndicesInRange`, `ScreenIsCurrent`, `EscUnwinds`, `TerminalRestored`, `RowsSorted`, `DrillTargetsHighlight`, refinement of `RefreshRounds` by the panel | six sessions, each a part of the keyboard with a part of the answers, since all keys at once only multiply states; two rounds that swap the order of the incidents and shrink their number, and one without layers; a pulse and a toast of 1 tick, a ring of 1, scroll offsets that saturate at 2, a drill panel of 2 rows, two widths (one and three columns of cards, two sizes of the logs popup), 4 fetches of the panel |
| `nico_run` | `DetectedEqualsDeclared`, `ScreenTellsProbe`, `RefusalNamesFatalStep`, `HealthyMeansRead`, `ViewsAgree`, `BaselineIsConclusive`, `AnswerIsWhole` | 60 invocations: a cluster where all is well and worlds in each of which one thing or a few went wrong, with the flags, environment and file that meet it; within an invocation every order of the lanes, every step in time or late, killed anywhere. 2 runs in a row over one file; timelines trimmed to 1 + 1, logs to 2 lines; the other constants are the code's |

Runs that end in a violation, each a disagreement between the code and what its text
or tests say (details in `PROJECT.json`, `findings`):

| Run | Property | What happens |
|---|---|---|
| `ops_refresh_unarmed` | `AutoRefreshRecurs` | the first `Snapshots` is handled before the first tick; no deadline is set and the dashboard never refreshes by itself |
| `ops_correlate_stale` | `PopupShowsItsOwnRun` | close and reopen the popup for the same entity: queued updates of the aborted run enter the new popup |
| `ops_correlate_ticker` | `NoTaskOutlivesItsRun` | a run aborted during its boot probe leaves the probe's ticker task behind |
| `layer_fan_out_global` | `WithinGlobalTimeout` | the log calls before the fan-out are under no timeout, and there is no global one. In units of 5 s: three pods, calls of up to 10 s, limit 30 s |
| `correlate_tail_gap` | `TailStartsWhereDumpEnded` | an event after its source's first answer is older than the cutoff the tail starts with |
| `nico_run_severity` | `FailuresAreTold` | an activity fails; the source names its kind `EVENT_TYPE_ACTIVITY_TASK_FAILED`, in which event.rs finds no "Failed", so it is shown as Info, and a long timeline may be trimmed of it |

Deadlock is checked in `nico_run`, whose only idle state is the end of the last run
(`Over`): no probe ever waits for a step that can no longer begin. It is off in the
others: each program may stop (quit, Ctrl-C, the round returns), and the bounded
counters end the rest.

The properties of the two large runs, and what would break them:

- `ScreenIsCurrent`: every arm of the reducer decides for itself whether a repaint is
  due, and clicks are tested against the cards drawn last. A pulse's flash alone may
  outlive its 600 ms until the next repaint (app.rs:485), so it is left out.
- `DrillTargetsHighlight`: two layouts have a focus each, rounds re-sort the incidents
  under the cursor; `c` and Enter must still open what is highlighted.
- `EscUnwinds`: three Esc lead home from any overlay over any layout, and a popup's run
  is cancelled on the way.
- `DetectedEqualsDeclared`: detection ends in a second `Config::load` in the middle of
  the probe, with labels and endpoints of the first already shown.
- `ScreenTellsProbe`, `RefusalNamesFatalStep`: whatever order the lanes end in, the
  block, the log and the JSON document agree with the steps, and a refusal names a step
  that refuses.
- `HealthyMeansRead`: exit code 0 of doctor means that Loki, the health endpoints, the
  gRPC server and the locks were read where their layers were not skipped, and of the DPUs
  that have reported, that each was seen within the freshness limit and none is
  quarantined. A database that is up and has no table `machines` is an empty fleet to the
  code (dpu.rs:219), and so here. Two layers are left out, for they take an API that fails
  for one without news: cluster (cluster.rs:51) and workflows (workflows.rs:85).
- `ViewsAgree`: five clients, the fleet layer and `dpu-health` parse one row by
  themselves. It speaks of DPUs that have reported and whose services say their state;
  beyond that the code's views do differ (section 5).
- `BaselineIsConclusive`: the file is written in place and a run may die in the write.
- `AnswerIsWhole`: sorting, trimming and failed sources lose no event that event.rs rated
  a warning or an error, and exit code 0 means that every source gave its part. What
  event.rs should rate so is another question, and for the failures of Temporal the
  answer is no: `FailuresAreTold`.

`DoneIsComplete` and `DotsSettle` speak of an entity's first popup in a session,
because the stale updates of `ops_correlate_stale` break them for a later one.
`TailCatchesUp` leaves out events that share a timestamp with another of their source:
a poll keeps `ts > cutoff`, so the second of the two is skipped if it comes after the
poll that saw the first.

### Fairness

- Every ready task is polled (tokio), so each step of a task that needs nothing but
  polling is weakly fair: sends once there is room, the pump, the driver, the stream.
- The loop serves its branches: `select!` picks at random among ready branches and a
  tick falls due every 100 ms, so no branch starves (`WF` of `Tick`, `HandleSnapshots`,
  `HandleLogLines`, `HandleUpdate`). In the tail `select!` is biased, but only Ctrl-C is
  ahead of the channel. A poller's `SendBatch` is strongly fair: tokio's channel serves
  its waiting senders in turn.
- Assumed of the environment, not of the code: a collection round returns
  (`SnapCollected`; `LayerFanOut` reduces this to Kubernetes calls that answer within
  `CallTime`), a correlate source answers, and a tailed source that is not `gone` answers
  now and then (`SF` of `PollNews`). Of a source that is gone nothing is assumed: one that
  connects anew after its forward was dropped never answers again, others may be lost at
  any moment, and `TailCatchesUp` says what the tail still owes the rest, and of the lost
  one what it had polled before.
- Nothing is assumed of the operator, and a panel's log fetch need not return.

## 4. Proofs

For every value of the constants admitted by the modules' assumptions:

| Module | Theorem | Says |
|---|---|---|
| `OpsRefreshProofs` | `TypeCorrect` | the types; in particular the ring never exceeds its capacity |
| | `OneRoundInFlight` | `SingleFlight` |
| | `HistoryHoldsNewestRounds` | `HistoryIsWindow` |
| | `LoopImplementsRounds` | `OpsRefresh` implements `RefreshRounds` |
| | `PausedTimerIsHeld` | `PauseHoldsTimer` |
| `OpsCorrelateProofs` | `TypeCorrect` | the types, channel capacities included |
| | `OverlayKeepsItsState` | `OverlayOwnsState` |
| | `EveryRunIsOwned` | `NoOrphanRun` |
| | `PopupKeepsToItsEntity` | `PopupOnlyItsEntity` |
| | `DoneShowsEverything` | `DoneIsComplete` |
| | `SettledDotsStay` | `DotsSettle` |
| `LayerFanOutProofs` | `CacheIsComplete` | `CacheTellsPodsApart` |
| | `ResultsAreConserved` | `ResultsConserved` |
| | `OneTimeoutForAll` | `FanOutWithinOneTimeout` |
| | `SnapshotsAreOrdered` | `SnapshotsInLayerOrder` |
| `CorrelateTailProofs` | `TailTypeCorrect` | the types |
| | `NothingPrintedTwice` | `PrintedOnce` |
| | `SourcesPrintInOrder` | `EachSourceInOrder` |
| | `TroubleAlwaysDumped` | `TroubleIsDumped` |
| | `CodeAgreesWithDump` | `ExitCodeMatchesDump` |
| `SortingProofs` | `SortedIs` | a sorted set has every member once, each after those it follows |
| `OpsMainProofs` | `TerminalGivenBack` | `TerminalRestored` |
| | `PanelKeepsRounds` | the HBN panel implements `RefreshRounds` |
| | `PanelRowsSorted` | `RowsSorted` |
| | `ScreenShowsState` | `ScreenIsCurrent` |
| `OpsReducerProofs` | `IndicesStayInRange` | `IndicesInRange` |
| | `EscLeadsHome` | `EscUnwinds` |
| | `DrillsIntoHighlight` | `DrillTargetsHighlight` |
| `NicoRunProofs` | `TypeCorrect` | the types; in particular a report only in the phases that have one |
| | `BaselineOfConclusiveRun` | `BaselineIsConclusive` |
| | `ScreenIsTrue` | `ScreenTellsProbe` |
| | `RefusalsNameTheirStep` | `RefusalNamesFatalStep` |
| | `DetectionIsDeclaration` | `DetectedEqualsDeclared` |
| | `AnswersAreWhole` | `AnswerIsWhole` |
| | `ViewsAgreeAlways` | `ViewsAgree` |
| | `HealthyRunsHaveRead` | `HealthyMeansRead` |

The assumptions are those the modules state: positive bounds, a channel with a slot
(`LayerFanOut`: a slot per layer, as `streaming_channel` gives it), an entity for every
key of the popup; of what arrives, only its shape: rounds, their checks, log lines and
their words are finite sequences, an update is of one of the five kinds of
`CorrelateUpdate`, forgedb answers with rows of the type `HbnRow`. The tail and the timeline assume that
at least one event of a long dump is kept (5 and 10 in the code). Of what a session of
doctor or correlate meets (`SessionShaped`): lists are in an order, moments are numbers,
a machine has one row (its id is the primary key). The cap of the fleet's findings is any
number.

The provers know no law of `SortSeq`, `SetToSortSeq` and `SelectSeq`, which are defined
by recursion. `Sorting` therefore says what a sort leaves behind without saying how it
gets there: a member's place is one more than the number of those before it (`Place`),
and `Sorted` is the inverse of that. `Orders` is what is asked of the relation, a strict
total order on a finite set; `PlaceGrows` then makes `Place` injective, `PlaceBijective`
onto by counting, and `SortedIs` follows. A filter of a sequence is the sort of the
positions it keeps (`Ascending`, `Chosen`). A stable sort is a sort by the key and then by the
position, so wherever the code sorts, the proof that a comparison `Orders` the positions
is the proof that its ties are broken.

`SingleFlight` alone is not inductive: that the newest round is the only one in flight
says nothing of how far the older ones came, and a step that starts round `r + 1` needs
the task of `r + 1` to be unborn. `FlightInv` adds it: older rounds are done, later
ones unborn, the newest is in flight exactly while `refreshing`, and `shown` is
`rounds` or one less. From it follow single flight, the step-by-step refinement (a
start maps to a start because the flag is clear, an answer to a show because it is the
newest round's) and, with the ring's lemmas, the window.

For the popup, the types and `OverlayOwnsState` are inductive only together:
`ChooserConfirm` takes the entry under the focus, which is an entity only because the
focus is in range, and the popup's entity is that of the run the runner holds.
`NoOrphanRun` follows because whatever closes a popup aborts the run in `runner`, and
`PopupOnlyItsEntity` because an update is applied only if its run's entity is the
popup's, and a run never changes its entity.

`DoneIsComplete` and `DotsSettle` need the order of the updates, across two channels and
the pump between them. `Pipe(r)` is all that run `r` has said and the popup has not seen:
the action channel, the pump's outbox and the stream, oldest first. Three facts about it
are inductive together. `BornInv`: a run no popup has spawned is untouched, the runner's
own is not aborted, and a task holds updates of its own run only. `ShapeInv`: while the
pump lives the updates of `r` in the pipe are in an order the driver can emit them in
(loading first, done last, one answer per Source) and fit the state of the driver: no
answer of a Source in `todo`, no Done before the driver has ended. `FedInv`, for an
entity's first popup: what the popup shows and what is in the pipe do not overlap and
make up what the driver has said: a final dot has its rows and no further answer on the
way, a Source out of `todo` has a final dot or an answer on the way, and a popup that is
done has nothing on the way. The lemmas on the pipe say that moving an update from one
part to the next changes nothing, that taking from the channel removes the run's oldest
update or none of its own, and that a step of another run changes nothing for `r`; the
cases of the step are then about sets of updates.

A collection round needs three invariants. `CacheInv`: a pod is in the cache only if it
was listed, and once the layers run none is left to fetch. `ResultInv`: a layer has
reported exactly if its result is being sent, in the channel, or with the caller, and in
one of these once. `FanOutWithinOneTimeout` needs both a clock and a pigeonhole: the age
of the fan-out passes the timeout only if a due layer is not served, which happens only
while the task waits in `send`, that is while the channel is full; but the results in
the channel are of different layers and that of the one being sent is not among them,
so with a slot per layer the channel is not full.

`SnapshotsInLayerOrder` rests on `JoinInv`: without a panic every layer's result has
reached the caller by the time the channel is closed and empty, so the filter of the
layer order keeps all of it.

For the tail, an event is printed once because each source's events pass the stations of
the tail oldest first. `OrderInv`: of each source, what is in the dump is older than what
was printed after it, that is older than what the channel holds, from its head on, and
that older than the message its poller waits to send. It is inductive only with
`CutoffInv`, by which whatever was printed or is on its way is not newer than the source's
cutoff, while a poll takes only newer ones; `QueueInv`, by which a poller holds one
message at most, of its own source's events and in order; `WorldInv`, which tells the
events that happened apart; and `DumpInv`: the dump is the trimmed timeline of the first
answers. What the trim keeps is a set of positions in the sorted answers, and trouble is
in it whatever the ends are.

For the terminal, `TermInv` says that it is cooked before `init_terminal` and that the
hook is in place from then on; the steps of a mode are pairwise different, so that
`After` leads from each to the next. For the panel, `PanelInv` relates `started`,
`shown` and the state of the fetch, and each step is a start, a show or a stutter. `RowsInv`
adds that what is sorted are rows of the type `HbnRow`, so that `TriageBefore` is total
up to ties.

The reducer's invariant is `ReducerInv`, one part per concern, each over the record of
the reducer alone so that it can be shown arm by arm. `FocusOK`: both focuses are
on a card; most arms leave focus and cards alone (`SameFocus`), a move starts from a
clamped focus, a click is tested against the number of cards, a round clamps before it
replaces them, and a Spotlight has as many cards as there are troubles
(`CardsAreTroubles`), in whatever order. `OverlayOK`: which overlay goes with an open
popup or chooser, over which layouts, and that the chooser's focus is in its list;
`IndicesInRange` and `EscUnwinds` (three applications of `EscStep`) follow.

`ScreenIsCurrent` is not inductive either: a state that draws the same today may draw
differently after the next key. `ScreenInv` remembers the state that was drawn: while the
loop waits, the screen is the view of some `a` that agrees with the present state in
every field that any view reads (`SameView`). Every step then either asks for a
repaint or keeps `SameView` (`Paints`), which is shown for each arm of `App::handle`;
that fields no view reads may differ is what makes it hold. `DrillTargetsHighlight`
puts the two together: the popup is opened on the row under the focus (`OnlyDrillOpens`),
the focus is on a card (`FocusOK`), and the card drawn as focused is that one because the
state that was drawn has the same focus and cards (`RowIsHighlighted`).

For the baseline, `BaselineInv` adds what the phases say of it: a report that is being
saved has a verdict, and while it is being written nothing is remembered as whole.

`ScreenTellsProbe` rests on `BootInv`, whose core is `Told`, a property of a probe alone:
it is well formed, the log has a line for exactly the steps that ended, and what is
painted is `Block` of the probe as it is. Each operation of the tracker keeps it because
it ends in a repaint (`RepaintTells`), and an operation that ends in none changes nothing
the block shows (`SameBlock`). That the viewport cuts nothing off is the lemma
`BlockFits`: the lines of `Block` are counted section by section (`SectionLinesAre`;
`SectionsPartition`: each step lies in one), and come to `RenderedLineCount`, which the
code computes in another place and another way. `SettledCount` adds that a probe whose
steps have all ended counts all of them.

`RefusalNamesFatalStep` rests on `Gate`: before a connecting step has ended nothing after
it begins, once it failed everything after it is skipped, and it is skipped only behind a
failed one. `MayBegin` keeps the first part, `StepEnds` the others. A refused probe has
a failed step among the connecting and the validating ones (`RefusalIs`); `FirstFailure` comes
no later, so it is one of these too, and the steps skipped are those after it if it is a
connecting one. `RefusalInv` adds what the phases say: who goes on is not refused, and who
ends refused has the code, no report, and the document of that probe.

`DetectedEqualsDeclared` compares two loads of the same file and environment. `LoadsAgree`
does it without a boot: if no type was declared, a load that is told of the detected one and
a load that is given it as a flag take the same decision for every key, since the flag changes
no other key (`Declaring`), and a type that was declared nowhere else conflicts with
nothing; the results agree in all but `source`. `DetectInv` says that a boot's
configuration is the first load, or one that was told of a detected type where none was
declared (`LadderIs`: the ladder answers with one of `Types`), and `BootInv` that the
labels shown are those of the configuration.

The last three theorems say what a whole run computes. `ReportInv` ties it to the phases:
a report that is there is what the layers, the sources or the command make of the session
and the configuration; what is shown is made of it; a run that was killed or refused has
neither an answer nor exit code 0. What is left are three facts about operators, with no
state in them.

`AnswerIsWhole` goes the way of an answer. Every source gives a list of events with
moments (`TemporalTimed`, `PostgresTimed` and so on, each from the shape of what it
reads), and so is `AllEvents`, their concatenation. `FlattenSeq` is recursive and the
provers know nothing of it; `FlattenTyped` takes the least length at which it would fail,
which exists because `<` is well-founded (`LeastNumber`), and looks at the step before.
`TimelineIs`: the sort is a permutation in the order of time. `FilteredIs`: the positions
that the trim keeps are all of a short timeline, the positions of trouble in any, and at
least one of what is not empty. `PlacesApart`: a source is not available or tailed, never both.

`ViewsAgree` needs, for each axis, that two ways from the same row meet. `RowIs`: the
query by id gives the one row that has it. A layer's checks begin with its headline
(`FirstCheck`, `ListsJoined` for the pages of `dpu-health`), so that one status of each
is to be compared. `ServicesSame` and `IsolationSame` are where the parsers differ and
the condition `Shown` comes in: the fleet reads a missing state of a service as empty, the
command as "Unknown", and they agree on what has one.

`HealthyMeansRead` is shown from the other end: a layer is Ok only if no check of it is in
trouble (`OkMeans`, from `AggregateOk`), and what could not be read leaves a check in
trouble - one lemma a layer, `LogsRead`, `HealthRead`, `GrpcRead`, `PostgresRead`, `DpuRead`.
The last goes through the whole fleet: its second check is the worst isolation verdict of
all machines that have reported (`FleetSecond`), the worst is Ok only if each is, and a
machine's is Ok only on the last rung of the isolation ladder, that is when it was seen
lately and is not quarantined (`FiveRungs`, `LastRung`, `IsolationOk`, `FleetWell`). The
findings, capped by `FindingsCap`, come after and may hide nothing of that check.

Only model-checked: liveness (`RefreshCompletes`, `AutoRefreshFires`, `PopupFinishes`,
`CancelledRunsStop`, `CollectReturns`, `TailCatchesUp`), since it needs fairness and
ENABLED, which the prover does not handle. Every other property of a passing run has its
theorem. `SelectSeq` and the folds remain in the models only where no proof looks into them;
elsewhere a filter is `Chosen`.

## 5. Not modelled, and why

- Wording, icons, colours, theme tables, widths of columns: no property is about them.
- Elapsed times shown by the probe and by the perf traces (`perf.rs` and the like).
- Limits of queries (5000 log lines, 100 events, 20 workflows) and the durations given
  to `--timeout`: a call answers, fails or is late.
- `recent_namespace_events`, the syntax of flags (clap) and of TOML, SQL and HTTP:
  their results enter as data.
- Single connections: which sources lose theirs when the forwards are dropped, and which
  keep one that lives on, is a choice of `PrintDump`.
- Scripts, workflows, benches.

Where the code does something else than a doc, a comment or a neighbouring part of the
code says, the models follow the code. Six of these are runs (section 3); the others
noticed on the way:

- nico ops: a pulse stays on screen after its 600 ms until something repaints
  (app.rs:485); a click in the spotlight is tested against cards drawn before (app.rs:512);
  `overlay_scroll` is never reset (app.rs:413), `logs_scroll` not by ShowSpotlight and
  ShowAll (ADR-0014); offsets grow beyond the text; `Popup::dismisses` is consulted by
  nobody (popup.rs:70); popup widths are wrong beyond 689 columns (layout_solver.rs:133).
- doctor: ADR-0001 keeps exit code 1 for warnings, a bad configuration or theme exits
  with 1 too (bootstrap.rs:238); `failed_step` is the first in the order of the code, not
  of time (ADR-0013); steps that are skipped for another reason than a failed gate are
  listed as if the gate had failed (json.rs); `standard_steps` has eleven steps, its
  comment says nine; an invalid `reach_mode` in the file is an error although `--mode`
  overrides it (config.rs:556); the k8s log source keeps the oldest 500 lines
  (log_source.rs:154).
- DPU health: `parse_bgp_alerts` needs a `category` (hbn.rs:206) that dpu_health.rs:66
  says a report lacks; an hbn version that does not parse is Ok in the headline and Fail
  in the detail (hbn.rs:390, verdicts/hbn.rs:153); an empty quarantine text counts as
  quarantined in one place only (hbn.rs:286); a DPU never seen counts as seen now
  (dpu_health.rs:609); one NULL `observed_at` fails the query for the whole fleet
  (dpu.rs:164); a database without `machines` is a healthy fleet; `dpu-health` never
  skips for a deployment without forgedb (lib.rs:510); the cap of five findings can hide
  the only one that failed (formatter.rs:79).
- correlate: kinds of Temporal events are compared without the prefix `EVENT_TYPE_` they
  come with (sources/temporal.rs:62), so a completed workflow older than the threshold is
  diagnosed as stuck (diagnosis.rs:131), though a test at diagnosis.rs:340 expects otherwise
  for unprefixed kinds (what it does to severities is `nico_run_severity`); the guard "keeps
  the forward alive for the duration of the tool run" (reach.rs:55) but is dropped before
  the tail (lib.rs:92), which is to "poll each source for new events after the initial
  dump" (tail.rs:34): in port-forward mode a source that connects for each query is lost to
  the tail; probe and
  forwards use the default kube context where a source uses the configured one
  (bootstrap.rs:259, 493); Redfish gets the postgres URL from before the forward
  (bootstrap.rs:535); JSON under `--tail` is decided by the flag alone (lib.rs:211).

## 6. Plan

Done: the refresh loop, the popup and its runs, the collection round, the tail; the
reducer, its keys and its screen; the HBN panel; start-up and terminal; configuration,
detection, reach and probe; layers, verdicts, report and baseline; sources, timeline and
exit code of correlate.

What is left, in this order:

1. `OpsMain` with the tasks of `OpsRefresh` and `OpsCorrelate` in place of answers that
   come at any time, once properties need the exact staleness of a message.
2. Two doctor runs at once over one baseline file.
