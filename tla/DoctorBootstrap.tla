--------------------------- MODULE DoctorBootstrap ---------------------------
(***************************************************************************)
(* nico-doctor bootstrap.rs and preflight.rs: from the command line, the   *)
(* environment and the file to what the layers are built from, by way of   *)
(* the boot probe.                                                         *)
(*                                                                         *)
(* A world w is what a run finds outside: kubeconfig and api (whether they *)
(* work), shape (DeploymentDetect), token, namespaces and rbac (what the   *)
(* API server says of the credentials), net (Reach), db (DpuLayers, with   *)
(* fabric: some machine has an InfiniBand interface).  A boot b is         *)
(* [cfg, probe, detected].                                                 *)
(***************************************************************************)
EXTENDS Config, DeploymentDetect, Reach, BootProbe

CONSTANT PgUrl  \* what a postgres URL says, for each text that is one

(* --mode is read before anything else, and the file's is never shown as   *)
(* the source of the mode.                                                 *)
ModeKnown(flags) == Given(flags, "reach_mode") = << >> \/ flags["reach_mode"] \in ReachModes

ReachSource(env, flags) ==
  CASE "reach_mode" \in DOMAIN flags                               -> "flag"
    [] "reach_mode" \notin DOMAIN flags /\ "reach_mode" \in DOMAIN env -> "env"
    [] OTHER -> "auto"

BootConfig(s) == IF ModeKnown(s.flags) THEN Load(s.file, s.env, s.flags, << >>) ELSE [ok |-> FALSE]

ProbeMode(cfg, tty) ==
  CASE cfg.format = "json" -> "json" [] cfg.format # "json" /\ ~tty -> "plain" [] OTHER -> "tty"

Banner(s, cfg) ==
  [reach |-> <<cfg.reach, ReachSource(s.env, s.flags)>>, namespace |-> cfg.texts["namespace"],
   grpc |-> cfg.texts["grpc_address"], type |-> cfg.type, source |-> cfg.source,
   warnings |-> Warnings(cfg)]

StartProbe(s, cfg) ==
  [cfg |-> cfg, detected |-> << >>, probe |-> NewProbe(ProbeMode(cfg, s.tty), StandardSteps, Banner(s, cfg))]

-----------------------------------------------------------------------------
(* What the work of a step comes to.                                       *)
Pg(cfg) == PgUrl[cfg.texts["postgres_url"][1]]

TemporalForward(net, cfg) ==
  Address(net, cfg.reach, "temporal", cfg.texts["temporal_k8s_namespace"][1], TemporalPort)

PostgresForward(net, cfg) == PostgresUrl(net, cfg.reach, Pg(cfg), cfg.texts["postgres_namespace"][1])

LokiForward(net, cfg) == Address(net, cfg.reach, "loki", cfg.texts["namespace"][1], LokiPort)

(* detect_deployment_type_step asks the cluster only if nobody else spoke. *)
Detect(w, type) ==
  CASE type # << >> -> [ok |-> TRUE, type |-> << >>]
    [] type = << >> -> [ok |-> Ladder(w.shape).ok /\ Ladder(w.shape).matched # << >>,
                        type |-> Ladder(w.shape).matched]

(* KubePreflightClient: of the token only a 401 is held against it. *)
Credentials(w)      == w.token # "expired"
NamespaceExists(w, ns) == ns \in w.namespaces
RbacAllows(w)       == w.rbac

Answers(w, cfg, id) ==
  CASE id = "LoadKubeconfig"         -> w.kubeconfig
    [] id = "ReachApiServer"         -> w.api
    [] id = "DetectDeploymentType"   -> Detect(w, cfg.type).ok
    [] id = "Credentials"            -> Credentials(w)
    [] id = "NamespaceExists"        -> NamespaceExists(w, cfg.texts["namespace"][1])
    [] id = "Rbac"                   -> RbacAllows(w)
    [] id = "PortForwardWorkflows"   -> TemporalForward(w.net, cfg).ok
    [] id = "PortForwardPostgres"    -> PostgresForward(w.net, cfg).ok
    [] id = "ReachPostgres"          -> PostgresAnswers(w.net, PostgresForward(w.net, cfg).url)
    [] id = "DetectInfinibandPresent" -> w.db.up

(* A step that would succeed fails when its budget is shorter than it      *)
(* takes: of a forward the network says so, of the others w.late names     *)
(* those that race their budget.                                           *)
Outcomes(w, cfg, id) ==
  LET fast == [w EXCEPT !.net.slow = {}]
  IN  {CASE Answers(w, cfg, id) -> "Passed"
         [] ~Answers(w, cfg, id) /\ Answers(fast, cfg, id) -> "TimedOut"
         [] OTHER -> "Failed"}
      \cup IF id \in w.late THEN {"TimedOut"} ELSE {}

-----------------------------------------------------------------------------
(* The order of the steps: connecting one by one, then validating and      *)
(* serving together; within serving postgres is a chain of three.          *)
Awaited(id) ==
  CASE id = "ReachApiServer"          -> {"LoadKubeconfig"}
    [] id = "DetectDeploymentType"    -> {"ReachApiServer"}
    [] id = "ReachPostgres"           -> {"PortForwardPostgres"}
    [] id = "DetectInfinibandPresent" -> {"ReachPostgres"}
    [] id \in Range(Validating) \cup {"PortForwardWorkflows", "PortForwardGrpc", "PortForwardPostgres"} ->
         {"DetectDeploymentType"}
    [] OTHER -> {}

MayBegin(p, id) == p.steps[id] = "Pending" /\ \A other \in Awaited(id) : p.steps[other] \in Terminal

(* should_skip_workflows_pf and should_probe_infiniband *)
SkipsWorkflows(type) == type # << >> /\ ~TemporalPresent(type[1])

ProbesInfiniband(type, reachable) ==
  reachable /\ type \notin {<< >>, <<"force">>} /\ ForgedbPresent(type[1])

(* probe_infiniband_present: no table is no fabric. *)
FabricSeen(w) == w.db.table /\ w.db.fabric

(* The steps that end as skipped without having begun. *)
Declines(b, id) ==
  \/ id = "PortForwardGrpc"
  \/ id = "PortForwardWorkflows" /\ SkipsWorkflows(b.cfg.type)
  \/ id = "ReachPostgres" /\ b.probe.steps["PortForwardPostgres"] # "Passed"
  \/ id = "DetectInfinibandPresent"
       /\ ~ProbesInfiniband(b.cfg.type, b.probe.steps["ReachPostgres"] = "Passed")

StepBegins(b, id) ==
  [b EXCEPT !.probe = IF Declines(b, id) THEN SetState(@, id, "Skipped") ELSE Started(@, id)]

(* A connecting step that fails skips every step after it. *)
After(p, id) == {p.ids[j] : j \in {j \in DOMAIN p.ids : \E i \in DOMAIN p.ids : i < j /\ p.ids[i] = id}}

(* With the type detected the configuration is loaded a second time, and   *)
(* the labels and the warnings follow it.                                  *)
Redetected_Ignored(s, b, type) == b.cfg

Redetected(s, b, type) == Load(s.file, s.env, s.flags, type)

Reloaded(s, b, type) ==
  LET cfg      == Redetected(s, b, type)
      texts    == cfg.texts
      warnings == Warnings(cfg) \o IF texts["grpc_address"] = << >> THEN << >> ELSE <<"grpc">>
      p1 == SetGrpc(SetNamespace(b.probe, texts["namespace"]), texts["grpc_address"])
  IN  [cfg |-> cfg, detected |-> type, probe |-> SetWarnings(SetType(p1, cfg.type, cfg.source), warnings)]

StepEnds(s, b, id, outcome) ==
  LET p    == b.probe
      done == SetState(p, id, outcome)
  IN  CASE id \in Range(Connecting) /\ outcome \in Failures ->
             [b EXCEPT !.probe = SkipRemaining(done, After(p, id))]
        [] id = "DetectDeploymentType" /\ outcome = "Passed" ->
             Reloaded(s, [b EXCEPT !.probe = done], Detect(s.w, b.cfg.type).type)
        [] id = "DetectInfinibandPresent" /\ outcome = "Passed" ->
             [b EXCEPT !.probe = SetState(SetInfinibandPresent(p, <<FabricSeen(s.w)>>), id, outcome)]
        [] OTHER -> [b EXCEPT !.probe = done]

Settled(p) == \A id \in DOMAIN p.steps : p.steps[id] \in Terminal

(* A run goes on without a kubeconfig and without what serving offers; it  *)
(* is refused when another connecting step, or a validating one, failed.   *)
Degraded(p) == p.steps["LoadKubeconfig"] \in Failures

Refused(p) ==
  ~Degraded(p) /\ \E id \in Range(Connecting \o Validating) : p.steps[id] \in Failures

BootFinished(b) ==
  LET ns == b.cfg.texts["namespace"][1]
  IN  [b EXCEPT !.probe = IF AnyFailed(@) THEN FinishFailure(@, ns) ELSE FinishSuccess(@, ns)]

-----------------------------------------------------------------------------
(* What the probe leaves behind: an address for each service, forwarded or *)
(* as configured, the guards of the forwards, and whether there is fabric. *)
Manager(b) == b.probe.steps["ReachApiServer"] = "Passed"

Forwarded(b, id, forward) == IF b.probe.steps[id] = "Passed" THEN forward.guards ELSE << >>

TemporalAt(w, b) ==
  IF b.probe.steps["PortForwardWorkflows"] = "Passed"
  THEN [host |-> TemporalForward(w.net, b.cfg).host, port |-> TemporalPort]
  ELSE [host |-> b.cfg.texts["temporal_address"], port |-> TemporalPort]

PostgresAt(w, b) ==
  IF b.probe.steps["PortForwardPostgres"] = "Passed" THEN PostgresForward(w.net, b.cfg).url ELSE Pg(b.cfg)

ProbeGuards(w, b) ==
  Forwarded(b, "PortForwardWorkflows", TemporalForward(w.net, b.cfg))
  \o Forwarded(b, "PortForwardPostgres", PostgresForward(w.net, b.cfg))

(* LOKI_URL goes before a forward; without either there is no URL, and the *)
(* client says so to whoever asks.                                         *)
LokiAt(s, b) ==
  CASE "loki_url" \in DOMAIN s.env -> [url |-> << s.env["loki_url"] >>, guards |-> << >>]
    [] "loki_url" \notin DOMAIN s.env /\ Manager(b) /\ LokiForward(s.w.net, b.cfg).ok ->
         [url |-> << "forwarded" >>, guards |-> LokiForward(s.w.net, b.cfg).guards]
    [] OTHER -> [url |-> << >>, guards |-> << >>]

(* NICO_HEALTH_ENDPOINTS, else what the cluster has; a list that could not *)
(* be read and one that is empty are both none.                            *)
EndpointsAt(s, b) ==
  LET found == HttpEndpoints(s.w.net, b.cfg.reach, b.cfg.texts["namespace"][1])
  IN  CASE "health_endpoints" \in DOMAIN s.env -> [list |-> << s.env["health_endpoints"] >>, guards |-> << >>]
        [] "health_endpoints" \notin DOMAIN s.env /\ Manager(b) /\ found.ok ->
             [list   |-> IF found.endpoints = << >> THEN << >> ELSE << found.endpoints >>,
              guards |-> found.guards]
        [] OTHER -> [list |-> << >>, guards |-> << >>]

Guards(s, b) == ProbeGuards(s.w, b) \o LokiAt(s, b).guards \o EndpointsAt(s, b).guards

(* LayerInputs *)
LayerInputs(s, b) ==
  [client    |-> ~Degraded(b.probe),
   manager   |-> Manager(b),
   namespace |-> b.cfg.texts["namespace"][1],
   loki      |-> LokiAt(s, b).url,
   endpoints |-> EndpointsAt(s, b).list,
   temporal  |-> TemporalAt(s.w, b),
   stuck     |-> b.cfg.stuck,
   postgres  |-> PostgresAt(s.w, b),
   grpc      |-> b.cfg.texts["grpc_address"],
   type      |-> b.cfg.type,
   fabric    |-> b.probe.ib,
   skip      |-> s.skip]
=============================================================================
