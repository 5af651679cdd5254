------------------------------ MODULE DoctorRun ------------------------------
(***************************************************************************)
(* nico-doctor lib.rs, runner.rs, baseline.rs and formatter.rs: what a run *)
(* makes of the results of its layers: the exit code, the baseline file,   *)
(* the badges, the page or the document; and the six commands that look at *)
(* one DPU without a boot.                                                 *)
(*                                                                         *)
(* The baseline file is [kind, statuses]: "missing", "torn" (a write that  *)
(* was cut short) or "whole".  Of the page the wording, the icons and the  *)
(* colours are left out.                                                   *)
(***************************************************************************)
EXTENDS DoctorLayers

(* resolve_theme_with: NO_COLOR goes before the flag, the flag before      *)
(* NICO_THEME; none when the name is unknown.                              *)
Themes == {"default", "dracula", "nord", "gruvbox"}

Theme(env, flags) ==
  IF "no_color" \in DOMAIN env THEN <<"no-color">>
  ELSE SelectSeq(FirstGiven(<<Given(flags, "theme"), Given(env, "theme"), <<"default">>>>),
                 LAMBDA name : name \in Themes)

(* What does not parse as a look-back window counts as the default. *)
DoctorSince(flags) ==
  LET given == Given(flags, "since") IN IF given \in {<< >>, << Unparsable >>} THEN 600 ELSE given[1]

(* Report::summary_status and exit_code *)
SummaryStatus(report) == Aggregate(StatusesOf(report))

ExitCode(report) ==
  LET status == SummaryStatus(report)
  IN  CASE status \in {"Ok", "Skipped"} -> 0 [] status = "Warn" -> 1
        [] status = "Fail" -> 2             [] status = "Unknown" -> 3

-----------------------------------------------------------------------------
(* The baseline: read before the layers run, written in place after them   *)
(* by the runs that could tell how things are.                             *)
NoFile == [kind |-> "missing", statuses |-> << >>]
Torn   == [kind |-> "torn", statuses |-> << >>]

LoadBaseline(file) == IF file.kind = "whole" THEN << file.statuses >> ELSE << >>

Written(report) ==
  [kind     |-> "whole",
   statuses |-> [name \in {report[i].name : i \in DOMAIN report} |->
                   LET i == CHOOSE j \in DOMAIN report : report[j].name = name IN report[i].status]]

Saves_Always(report) == TRUE
Saves(report) == ExitCode(report) # 3

(* compute_deltas_for: an unknown status is neither well nor ill. *)
Ill  == {"Warn", "Fail"}
Well == {"Ok", "Skipped"}

DeltaOf(prior, layer) ==
  LET was == IF prior # << >> /\ layer.name \in DOMAIN prior[1] THEN << prior[1][layer.name] >> ELSE << >>
  IN  CASE was # << >> /\ was[1] \in Well /\ layer.status \in Ill -> "new"
        [] was # << >> /\ was[1] \in Ill /\ layer.status \in Well -> "fixed"
        [] OTHER -> "unchanged"

ComputeDeltas(report, prior) == [i \in DOMAIN report |-> DeltaOf(prior, report[i])]

NoDeltas(report) == [i \in DOMAIN report |-> "unchanged"]

-----------------------------------------------------------------------------
(* format_report.  With --spotlight a quiet layer has no line unless its   *)
(* badge changed; without --verbose the first findings of each layer       *)
(* follow below.                                                           *)
Hidden(layer, delta, spotlight) == spotlight /\ layer.status \in Well /\ delta = "unchanged"

LayerLine(layer, delta, verbose) ==
  [name |-> layer.name, status |-> layer.status, badge |-> delta,
   summary |-> SelectSeq(layer.checks, LAMBDA c : c.kind = "Headline"),
   details |-> IF verbose /\ layer.status # "Skipped" THEN layer.checks ELSE << >>]

BadChecks(layer) == SelectSeq(layer.checks, LAMBDA c : c.status # "Ok")

FindingsBlock(layer) ==
  [name |-> layer.name, shown |-> AtMost(BadChecks(layer), FindingsCap),
   more |-> Len(BadChecks(layer)) - Len(AtMost(BadChecks(layer), FindingsCap))]

Tally(report, status) ==
  FoldLeft(LAMBDA n, layer : n + Len(SelectSeq(layer.checks, LAMBDA c : c.status = status)), 0, report)

FormatReport(report, deltas, verbose, spotlight) ==
  LET shown == SelectSeq([i \in DOMAIN report |-> i], LAMBDA i : ~Hidden(report[i], deltas[i], spotlight))
      ill   == SelectSeq(report, LAMBDA l : l.status # "Skipped" /\ BadChecks(l) # << >>)
  IN  [lines    |-> [k \in DOMAIN shown |-> LayerLine(report[shown[k]], deltas[shown[k]], verbose)],
       findings |-> IF verbose THEN << >> ELSE [k \in DOMAIN ill |-> FindingsBlock(ill[k])],
       status   |-> SummaryStatus(report),
       warnings |-> Tally(report, "Warn"), failures |-> Tally(report, "Fail")]

(* build_capabilities *)
Capabilities(dt) ==
  [cluster_namespace |-> DefaultClusterNamespace(dt), grpc_address |-> DefaultGrpcAddress(dt),
   temporal_k8s_namespace |-> DefaultTemporalK8sNamespace(dt),
   forgedb_present |-> ForgedbPresent(dt), temporal_present |-> TemporalPresent(dt)]

(* format_json_with_capabilities *)
FormatJson(report, ns, deltas, type) ==
  [namespace    |-> ns,
   summary      |-> [status \in {"Ok", "Warn", "Fail", "Skipped", "Unknown"} |->
                       Len(SelectSeq(report, LAMBDA l : l.status = status))],
   layers       |-> [i \in DOMAIN report |->
                       [name |-> report[i].name, status |-> report[i].status, delta |-> deltas[i],
                        checks |-> report[i].checks]],
   capabilities |-> IF type = << >> THEN << >> ELSE << Capabilities(type[1]) >>]

Output(cfg, s, report, deltas) ==
  IF cfg.format = "json" THEN FormatJson(report, cfg.texts["namespace"], deltas, cfg.type)
  ELSE FormatReport(report, deltas, "verbose" \in DOMAIN s.flags, "spotlight" \in DOMAIN s.flags)

-----------------------------------------------------------------------------
(* The commands about one DPU: run_hbn, run_dpu_isolation, run_dpu_cert,   *)
(* run_dpu_health, run_dpu_services and run_infiniband.  They know fewer   *)
(* flags, forward nothing and detect nothing.                              *)
Drills == {"hbn", "dpu-isolation", "dpu-cert", "dpu-health", "dpu-services", "infiniband"}

DoctorOverrides == {"namespace", "context", "postgres_url", "color", "format", "deployment_type"}

MinimalConfig(s, keys) == Load(s.file, s.env, Restrict(s.flags, keys \cap DOMAIN s.flags), << >>)

(* --freshness, --warn, --stale or --dhcp-stale, each with a default. *)
BadThreshold(s) == Given(s.flags, "threshold") = << Unparsable >>

Drilled(command, db, id) ==
  CASE command = "hbn"           -> HbnLayer(db, id)
    [] command = "dpu-isolation" -> IsolationLayer(db, id)
    [] command = "dpu-cert"      -> CertLayer(db, id)
    [] command = "dpu-health"    -> HealthLayer(db, id, << >>)
    [] command = "dpu-services"  -> ServicesLayer(db, id)
    [] command = "infiniband"    -> IbLayer(db, id)

(* All but dpu-health say that a deployment has no forgedb. *)
DrillSkips(command, cfg) == command # "dpu-health" /\ NoForgedb(cfg.type)

DrillFails(s, command, cfg) ==
  ~cfg.ok \/ BadThreshold(s) \/ (~DrillSkips(command, cfg) /\ ~Pg(cfg).absolute)

DrillReport(s, command, cfg, late) ==
  IF DrillSkips(command, cfg) THEN << LayerResult(command, Skips) >>
  ELSE IF command \in late THEN << TimedOutLayer(command) >>
  ELSE << LayerResult(command, Ran(Drilled(command, DbAt(s.w, Pg(cfg)), s.flags["id"]))) >>

(* What a command ends with: the code, and the report there is, if any. *)
Drill(s, command, late) ==
  LET cfg    == MinimalConfig(s, DoctorOverrides)
      report == DrillReport(s, command, cfg, late)
  IN  IF DrillFails(s, command, cfg) THEN [code |-> 1, report |-> << >>, output |-> << >>]
      ELSE [code |-> ExitCode(report), report |-> report,
            output |-> << Output(cfg, s, report, NoDeltas(report)) >>]
=============================================================================
