---------------------------- MODULE DoctorLayers ----------------------------
(***************************************************************************)
(* The seven layers of nico doctor (bootstrap.rs, layer.rs, layers/) and   *)
(* the clients they ask: from the LayerInputs of a boot to a result each.  *)
(*                                                                         *)
(* Of a world w they read, besides what the boot reads: logs, the lines of *)
(* the pods whose log can be read, oldest first, each [error, warn]; loki, *)
(* whether it answers, and its error lines per pod; workflows, an optional *)
(* list of [status, started, closed]; http, per endpoint whether /healthz  *)
(* and /readyz are below 400 in time; grpc, the addresses that answer the  *)
(* reflection service; pool, [active, max]; locks, an optional list of     *)
(* seconds waited.  Moments and optional values are as in DpuVerdicts.     *)
(***************************************************************************)
EXTENDS DpuLayers, DoctorBootstrap

CONSTANTS
  LogLimit,    \* LOG_LINE_LIMIT (500 in the code)
  LockWarn     \* LOCK_WARN_SECS (5 s)

LayerNames == <<"cluster", "logs", "workflows", "health", "grpc", "postgres", "dpu">>

Ran(checks)  == [skipped |-> FALSE, checks |-> checks]
Skips        == [skipped |-> TRUE, checks |-> << >>]
Unconfigured == Ran(<< Check("config", "Unknown", "Headline") >>)

Head1(name, status) == Check(name, status, "Headline")

Times(n, check) == [i \in 1 .. n |-> check]

-----------------------------------------------------------------------------
(* LogCollectorStage: what every layer of the round reads the logs from.   *)
PodLogs(w, pod) == IF pod \in DOMAIN w.logs THEN w.logs[pod] ELSE << >>

Live(pods) == Chosen(pods, {i \in DOMAIN pods : ~pods[i].succeeded})

LogsOf(w, pods) == [name \in {pods[i].name : i \in DOMAIN pods} |-> PodLogs(w, name)]

LogCache(w, client, ns) ==
  LogsOf(w, IF client THEN Live(Or(ListPods(w.net, ns), << >>)) ELSE << >>)

-----------------------------------------------------------------------------
(* cluster: a list that could not be read counts as an empty one.          *)
WarningEvents(events, since) ==
  SelectSeq(events, LAMBDA e : e.type = <<"Warning">> /\ e.ts # << >> /\ e.ts[1] <= since)

Restarting(pods) == SelectSeq(pods, LAMBDA p : p.restartCount > 0)

(* top_k_restarting: the three that restarted most, the earlier one first. *)
TopRestarting(pods) ==
  LET ps    == Restarting(pods)
      order == SortSeq([i \in DOMAIN ps |-> i], LAMBDA i, j :
                 ps[i].restartCount > ps[j].restartCount \/ (ps[i].restartCount = ps[j].restartCount /\ i < j))
  IN  AtMost([k \in DOMAIN ps |-> ps[order[k]]], 3)

LogTails(pods, cache) ==
  SelectSeq(TopRestarting(pods), LAMBDA p :
    p.name \in DOMAIN cache /\ \E i \in DOMAIN cache[p.name] : cache[p.name][i].error \/ cache[p.name][i].warn)

(* group_events_by_pod: one group for each object, and one for no object.  *)
EventGroups(events) == {events[i].object : i \in DOMAIN events}

ClusterChecks(pods, events, cache) ==
  LET idle == SelectSeq(pods, LAMBDA p : ~p.ready)
  IN  << Head1("pods_ready", OkIf(idle = << >>, "Warn")),
         Head1("recent_restarts", OkIf(Restarting(pods) = << >>, "Warn")),
         Head1("warning_events", OkIf(events = << >>, "Warn")) >>
      \o Times(Len(Restarting(pods)), Detail("pod_restart", "Warn"))
      \o Times(Len(LogTails(pods, cache)), Detail("pod_log_tail", "Warn"))
      \o Times(Len(idle), Detail("pod_not_ready", "Warn"))
      \o Times(Cardinality(EventGroups(events)), Detail("pod_event", "Warn"))

ClusterLayer(w, in, since, cache) ==
  IF ~in.client THEN Unconfigured
  ELSE Ran(ClusterChecks(Live(Or(ListPods(w.net, in.namespace), << >>)),
                         WarningEvents(Or(ListEvents(w.net, in.namespace), << >>), since), cache))

-----------------------------------------------------------------------------
(* logs: Loki, or the cluster when Loki does not answer; entries are the   *)
(* number of error lines per pod, and an answer is an optional value.      *)
LokiEntries(w, in) == IF in.loki # << >> /\ w.loki.up THEN << w.loki.lines >> ELSE << >>

(* entries_from_cache looks at the oldest lines of each pod only. *)
ErrorLines(lines) == Len(SelectSeq(AtMost(lines, LogLimit), LAMBDA line : line.error))

CacheEntries(cache) == [pod \in DOMAIN cache |-> ErrorLines(cache[pod])]

(* K8sLogSource: an empty cache makes it list and read by itself, and then *)
(* the pods that succeeded too.                                            *)
K8sEntries(w, in, cache) ==
  LET listed == IF in.client THEN ListPods(w.net, in.namespace) ELSE << >>
  IN  IF DOMAIN cache # {} THEN << CacheEntries(cache) >>
      ELSE IF listed = << >> THEN << >> ELSE << CacheEntries(LogsOf(w, listed[1])) >>

(* best_effort_chain of build_log_source *)
LogEntries(w, in, cache) == FirstGiven(<<LokiEntries(w, in), K8sEntries(w, in, cache)>>)

LogChecks_Silent(entries, primary) ==
  LET noisy == {pod \in DOMAIN entries : entries[pod] > 0}
  IN  << Head1("error_lines", OkIf(noisy = {}, "Warn")) >> \o Times(Cardinality(noisy), Detail("pod_error", "Warn"))

LogChecks(entries, primary) ==
  LET noisy == {pod \in DOMAIN entries : entries[pod] > 0}
  IN  << Head1("error_lines", OkIf(noisy = {}, "Warn")), Head1("source", OkIf(primary, "Warn")) >>
      \o Times(Cardinality(noisy), Detail("pod_error", "Warn"))

LogsLayer(w, in, cache) ==
  IF ~in.client /\ in.loki = << >> THEN Unconfigured
  ELSE Ran(LogChecks(Or(LogEntries(w, in, cache), << >>), LokiEntries(w, in) # << >>))

-----------------------------------------------------------------------------
(* workflows: the two queries Temporal answers, a page of 100 at most.     *)
TemporalReads(w, at) == w.workflows # << >> /\ at.host \in w.net.open

StuckWorkflows(ws, threshold) == SelectSeq(ws, LAMBDA x : x.status = "Running" /\ x.started > threshold)
FailedWorkflows(ws, since)    == SelectSeq(ws, LAMBDA x : x.status = "Failed" /\ x.closed < since)

WorkflowChecks(stuck, failed) ==
  << Head1("stuck", OkIf(stuck = << >>, "Warn")), Head1("failed", OkIf(failed = << >>, "Warn")) >>
  \o Times(Len(stuck), Detail("stuck_workflow", "Warn"))
  \o Times(Len(failed), Head1("failed_workflow", "Warn"))

WorkflowsLayer(w, in, since) ==
  LET ws == IF TemporalReads(w, in.temporal) THEN w.workflows[1] ELSE << >>
  IN  IF in.type # << >> /\ ~TemporalPresent(in.type[1]) THEN Skips
      ELSE Ran(WorkflowChecks(AtMost(StuckWorkflows(ws, in.stuck), 100), AtMost(FailedWorkflows(ws, since), 100)))

-----------------------------------------------------------------------------
(* health: /readyz is asked of the services whose /healthz is well.        *)
Wellness(w, name) ==
  CASE ~w.http[name].healthz                          -> "Fail"
    [] w.http[name].healthz /\ ~w.http[name].readyz   -> "Warn"
    [] OTHER                                          -> "Ok"

HealthProbes(w, names) ==
  LET outcomes == [i \in DOMAIN names |-> Wellness(w, names[i])]
      bad      == Chosen(outcomes, {i \in DOMAIN outcomes : outcomes[i] # "Ok"})
  IN  << Head1("endpoints", Aggregate(Range(outcomes))) >> \o [i \in DOMAIN bad |-> Head1("service", bad[i])]

EndpointsLayer(w, in) ==
  CASE in.endpoints \notin {<< >>, << << >> >>}               -> Ran(HealthProbes(w, in.endpoints[1]))
    [] in.endpoints \in {<< >>, << << >> >>} /\ in.manager    -> Skips
    [] OTHER                                                  -> Unconfigured

-----------------------------------------------------------------------------
GrpcLayer(w, in) ==
  IF in.grpc = << >> THEN Unconfigured
  ELSE Ran(IF in.grpc[1] \in w.grpc
           THEN << Head1("reachable", "Ok"), Head1("services", "Ok"), Head1("methods", "Ok") >>
           ELSE << Head1("reachable", "Fail") >>)

(* postgres and dpu read one database, at the address the boot left.       *)
PoolCheck(pool) == Head1("pool", OkIf(pool.max <= 0 \/ 10 * pool.active < 9 * pool.max, "Warn"))

LockChecks(waits) ==
  LET long == SelectSeq(waits, LAMBDA secs : secs >= LockWarn)
  IN  << Head1("locks", OkIf(long = << >>, "Warn")) >> \o Times(Len(long), Head1("lock_wait", "Warn"))

DbAt(w, url) == [w.db EXCEPT !.up = @ /\ url.host \in w.net.open]

PostgresLayer(w, in) ==
  IF ~in.postgres.absolute THEN Unconfigured
  ELSE IF ~DbAt(w, in.postgres).up THEN Ran(<< Head1("pool", "Unknown") >>)
  ELSE Ran(<< PoolCheck(w.pool) >>
           \o IF w.locks = << >> THEN << Head1("locks", "Unknown") >> ELSE LockChecks(w.locks[1]))

(* forgedb_skip_layer *)
NoForgedb(type) == type # << >> /\ ~ForgedbPresent(type[1])

DpuFleetLayer(w, in) ==
  CASE NoForgedb(in.type)                              -> Skips
    [] ~NoForgedb(in.type) /\ ~in.postgres.absolute    -> Unconfigured
    [] OTHER -> Ran(FleetLayer(DbAt(w, in.postgres), in.fabric))

-----------------------------------------------------------------------------
(* prepare_layers and Layer::run; a layer that runs into the timeout of    *)
(* the runner is Unknown, with no check.                                   *)
Outcome(name, w, in, since, cache) ==
  CASE name \in in.skip      -> Skips
    [] name \notin in.skip   ->
         CASE name = "cluster"   -> ClusterLayer(w, in, since, cache)
           [] name = "logs"      -> LogsLayer(w, in, cache)
           [] name = "workflows" -> WorkflowsLayer(w, in, since)
           [] name = "health"    -> EndpointsLayer(w, in)
           [] name = "grpc"      -> GrpcLayer(w, in)
           [] name = "postgres"  -> PostgresLayer(w, in)
           [] name = "dpu"       -> DpuFleetLayer(w, in)

LayerResult(name, outcome) ==
  [name |-> name, checks |-> outcome.checks,
   status |-> IF outcome.skipped THEN "Skipped" ELSE Aggregate(StatusesOf(outcome.checks))]

TimedOutLayer(name) == [name |-> name, checks |-> << >>, status |-> "Unknown"]

DoctorReport(w, in, since, late) ==
  LET cache == LogCache(w, in.client, in.namespace)
  IN  [i \in DOMAIN LayerNames |->
         IF LayerNames[i] \in late THEN TimedOutLayer(LayerNames[i])
         ELSE LayerResult(LayerNames[i], Outcome(LayerNames[i], w, in, since, cache))]
=============================================================================
