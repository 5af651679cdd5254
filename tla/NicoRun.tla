------------------------------- MODULE NicoRun -------------------------------
(***************************************************************************)
(* Invocations of `nico doctor` and `nico correlate`, one after the other  *)
(* (nico main.rs, nico-doctor lib.rs and bootstrap.rs, nico-correlate      *)
(* lib.rs and bootstrap.rs): the arguments and the configuration, the boot *)
(* probe step by step with its concurrent lanes, the layers or the         *)
(* sources, the baseline file, and what is printed.                        *)
(*                                                                         *)
(* An invocation is [program, command, s], with command a member of Drills *)
(* or "hbn-config-drift" where one is given, and s a session: flags, env,  *)
(* file, tty, skip and the world w (DoctorBootstrap, DoctorLayers,         *)
(* CorrelateSources).                                                      *)
(***************************************************************************)
EXTENDS DoctorRun, CorrelateRun

CONSTANTS
  Invocations,   \* the first invocation is one of these
  Reruns,        \* those that may follow one another
  MaxRuns        \* bound: how many follow one another

ASSUME RunsAssumption == MaxRuns \in Nat \ {0}

(* What a session meets outside has the shape of what it asks for: lists   *)
(* are in an order, moments are numbers, a machine has one row.            *)
SessionShaped(ses) ==
  /\ SourcesShaped(ses.w) /\ DbShaped(ses.w.db)
  /\ "health_endpoints" \in DOMAIN ses.env => IsList(ses.env["health_endpoints"])

ASSUME InvocationsAssumption == \A i \in Invocations \cup Reruns : SessionShaped(i.s)

VARIABLES
  phase,     \* "start", "probing", "working", "saving", "writing", "reporting" or "done"
  inv,       \* the invocation
  boot,      \* an optional boot: [cfg, probe, detected]
  report,    \* an optional report of doctor, or results of correlate
  prior,     \* the baseline as it was read before the layers ran
  file,      \* the baseline file
  shown,     \* what was printed on stdout, if anything
  code,      \* the exit code, once there is one
  runs,      \* how many invocations there have been
  kept       \* history: the last report that was conclusive and whole on disk

vars == <<phase, inv, boot, report, prior, file, shown, code, runs, kept>>

s      == inv.s
Doctor == inv.program = "doctor"
B      == boot[1]
Probe  == boot[1].probe

Killed == -1

-----------------------------------------------------------------------------
Begun(i) ==
  /\ phase = "start" /\ inv = i
  /\ boot = << >> /\ report = << >> /\ prior = << >> /\ shown = << >> /\ code = << >>

Init ==
  /\ \E i \in Invocations : Begun(i)
  /\ file = NoFile /\ kept = << >> /\ runs = 1

Exit(c, output) == phase' = "done" /\ code' = << c >> /\ shown' = output

Rest == UNCHANGED <<inv, runs>>

(* An unknown theme is the first thing that ends a run. *)
BadTheme ==
  /\ phase = "start" /\ Theme(s.env, s.flags) = << >>
  /\ Exit(1, << >>) /\ UNCHANGED <<boot, report, prior, file, kept>> /\ Rest

Ready == phase = "start" /\ Theme(s.env, s.flags) # << >>

(* The commands about one DPU: one query, no probe and no baseline. *)
LooksAtDpu ==
  /\ Ready /\ Doctor /\ inv.command \in Drills
  /\ \E late \in SUBSET (s.w.late \cap {inv.command}) :
       LET result == Drill(s, inv.command, late)
       IN  Exit(result.code, result.output) /\ report' = << result.report >>
  /\ UNCHANGED <<boot, prior, file, kept>> /\ Rest

LooksAtDrift ==
  /\ Ready /\ ~Doctor /\ inv.command = "hbn-config-drift"
  /\ Exit(HbnConfigDrift(s).code, HbnConfigDrift(s).rows)
  /\ UNCHANGED <<boot, report, prior, file, kept>> /\ Rest

Whole == Ready /\ inv.command = "none"

(* A configuration that cannot be had ends the run. *)
Complains ==
  /\ Whole
  /\ \/ Doctor /\ ~BootConfig(s).ok /\ Exit(1, << >>)
     \/ ~Doctor /\ Complaint(s) # << >> /\ Exit(Complaint(s)[1], << >>)
  /\ UNCHANGED <<boot, report, prior, file, kept>> /\ Rest

Configures ==
  /\ Whole
  /\ \/ Doctor /\ BootConfig(s).ok /\ boot' = << StartProbe(s, BootConfig(s)) >>
     \/ ~Doctor /\ Complaint(s) = << >> /\ boot' = << StartCorrelate(s, CorrelateConfig(s)) >>
  /\ phase' = "probing"
  /\ UNCHANGED <<report, prior, file, shown, code, kept>> /\ Rest

-----------------------------------------------------------------------------
(* The boot probe.  The lanes run together: any step whose turn has come   *)
(* may begin, and any that is under way may end.                           *)
ProbeStep == UNCHANGED <<phase, report, prior, file, shown, code, kept>> /\ Rest

StepBegin(id) ==
  /\ phase = "probing" /\ id \in DOMAIN Probe.steps
  /\ \/ Doctor /\ MayBegin(Probe, id) /\ boot' = << StepBegins(B, id) >>
     \/ ~Doctor /\ CorrelateMayBegin(Probe, id) /\ boot' = << CorrelateBegins(B, id) >>
  /\ ProbeStep

StepEnd(id) ==
  /\ phase = "probing" /\ id \in DOMAIN Probe.steps /\ Probe.steps[id] = "Active"
  /\ \E outcome \in Outcomes(s.w, B.cfg, id) :
       boot' = << IF Doctor THEN StepEnds(s, B, id, outcome) ELSE CorrelateEnds(B, id, outcome) >>
  /\ ProbeStep

(* With every step settled the probe is taken down: with a document of the *)
(* failure, or of the success.  Only doctor refuses to go on.              *)
Settles == phase = "probing" /\ Settled(Probe)

BootRefuses ==
  /\ Settles /\ Doctor /\ Refused(Probe)
  /\ boot' = << BootFinished(B) >>
  /\ Exit(3, IF B.cfg.format = "json" THEN BootFinished(B).probe.outcome ELSE << >>)
  /\ UNCHANGED <<report, prior, file, kept>> /\ Rest

GoesOn ==
  /\ Settles /\ ~(Doctor /\ Refused(Probe))
  /\ boot' = << BootFinished(B) >>
  /\ phase' = "working"
  /\ prior' = IF Doctor THEN LoadBaseline(file) ELSE << >>
  /\ UNCHANGED <<report, file, shown, code, kept>> /\ Rest

-----------------------------------------------------------------------------
(* The layers of doctor, of which some may run into the timeout; the       *)
(* forwards are let go after them.                                         *)
LayersRun ==
  /\ phase = "working" /\ Doctor
  /\ \E late \in SUBSET (s.w.late \cap Range(LayerNames)) :
       LET result == DoctorReport(s.w, LayerInputs(s, B), DoctorSince(s.flags), late)
       IN  report' = << result >> /\ phase' = IF Saves(result) THEN "saving" ELSE "reporting"
  /\ UNCHANGED <<boot, prior, file, shown, code, kept>> /\ Rest

(* baseline::save writes in place: the old text goes before the new one is *)
(* there.  What goes wrong is a warning.                                   *)
SaveBegins ==
  /\ phase = "saving" /\ phase' = "writing" /\ file' = Torn /\ kept' = << >>
  /\ UNCHANGED <<boot, report, prior, shown, code>> /\ Rest

SaveRefused ==
  /\ phase = "saving" /\ phase' = "reporting"
  /\ UNCHANGED <<boot, report, prior, file, shown, code, kept>> /\ Rest

SaveEnds ==
  /\ phase = "writing" /\ phase' = "reporting"
  /\ file' = Written(report[1])
  /\ kept' = IF ExitCode(report[1]) = 3 THEN kept ELSE report
  /\ UNCHANGED <<boot, report, prior, shown, code>> /\ Rest

SaveBreaks ==
  /\ phase = "writing" /\ phase' = "reporting"
  /\ UNCHANGED <<boot, report, prior, file, shown, code, kept>> /\ Rest

DoctorReports ==
  /\ phase = "reporting" /\ Doctor
  /\ Exit(ExitCode(report[1]), << Output(B.cfg, s, report[1], ComputeDeltas(report[1], prior)) >>)
  /\ UNCHANGED <<boot, report, prior, file, kept>> /\ Rest

(* The sources of correlate, one after the other. *)
SourcesCollect ==
  /\ phase = "working" /\ ~Doctor
  /\ report' = << CollectAll(s, B) >> /\ phase' = "reporting"
  /\ UNCHANGED <<boot, prior, file, shown, code, kept>> /\ Rest

CorrelateReports ==
  /\ phase = "reporting" /\ ~Doctor
  /\ Exit(CorrelateCode(report[1]), << CorrelateOutput(s, B.cfg, report[1]) >>)
  /\ UNCHANGED <<boot, report, prior, file, kept>> /\ Rest

(* The process may be killed at any moment; what it wrote stays. *)
Dies ==
  /\ phase \notin {"start", "done"}
  /\ Exit(Killed, << >>) /\ UNCHANGED <<boot, report, prior, file, kept>> /\ Rest

(* Another invocation finds the file the last one left. *)
RunsAgain ==
  /\ phase = "done" /\ inv \in Reruns /\ runs < MaxRuns /\ runs' = runs + 1
  /\ \E i \in Reruns :
       /\ inv' = i /\ phase' = "start"
       /\ boot' = << >> /\ report' = << >> /\ prior' = << >> /\ shown' = << >> /\ code' = << >>
  /\ UNCHANGED <<file, kept>>

Over == phase = "done" /\ UNCHANGED vars

Next ==
  \/ BadTheme \/ LooksAtDpu \/ LooksAtDrift \/ Complains \/ Configures
  \/ \E id \in Range(StandardSteps) : StepBegin(id) \/ StepEnd(id)
  \/ BootRefuses \/ GoesOn \/ LayersRun \/ SaveBegins \/ SaveRefused \/ SaveEnds \/ SaveBreaks \/ DoctorReports
  \/ SourcesCollect \/ CorrelateReports \/ Dies \/ RunsAgain \/ Over

Spec == Init /\ [][Next]_vars
-----------------------------------------------------------------------------
(* What a run of any kind keeps to. *)

(* The types of what a run holds: a boot from the moment it is configured, *)
(* a report once the layers or the sources are done, a code at the end.    *)
TypeOK ==
  /\ phase \in {"start", "probing", "working", "saving", "writing", "reporting", "done"}
  /\ (phase = "done") = (code # << >>)
  /\ phase \notin {"start", "done"} => boot # << >>
  /\ phase \in {"start", "probing", "working"} => report = << >>
  /\ phase \in {"saving", "writing", "reporting"} => report # << >>
  /\ file.kind \in {"missing", "torn", "whole"} /\ runs \in 1 .. MaxRuns

Declaring(flags, type) ==
  [key \in DOMAIN flags \cup {"deployment_type"} |-> IF key = "deployment_type" THEN type ELSE flags[key]]

(* A type the probe detects configures a run as if it had been declared    *)
(* with --deployment-type, all but the label that says where it comes from *)
(* (the second Config::load of bootstrap.rs); the second load never fails, *)
(* and the block on the terminal shows the values it gave.                 *)
DetectedEqualsDeclared ==
  boot # << >> /\ B.detected # << >> =>
    LET declared == Load(s.file, s.env, Declaring(s.flags, B.detected[1]), << >>)
    IN  /\ B.cfg.ok /\ declared.ok /\ B.cfg = [declared EXCEPT !.source = "auto"]
        /\ Probe.type = B.detected /\ Probe.namespace = B.cfg.texts["namespace"]
        /\ Probe.grpc = B.cfg.texts["grpc_address"]

(* What is on the terminal is always the probe as it is, header, warnings  *)
(* and bar included, at the height its viewport has; the log has one line  *)
(* for each step that ended and none for another; and a run goes on only   *)
(* when every step has ended (orchestrate.rs, render.rs).                  *)
ScreenTellsProbe ==
  boot # << >> =>
    /\ Probe.painted # << >> => Probe.painted = << Block(Probe) >>
    /\ \A id \in DOMAIN Probe.steps :
         Probe.lines[id] = IF Probe.mode = "plain" /\ Probe.steps[id] \in Terminal THEN 1 ELSE 0
    /\ phase \notin {"probing", "done"} =>
         Settled(Probe) /\ ~Probe.ticking /\ CompletedCount(Probe) = Len(Probe.ids)

(* Whichever lane fails first, a refused run names a step that refuses it, *)
(* not one a run can do without, and everything after a failed connecting  *)
(* step is skipped (failure_document of json.rs, bootstrap.rs 716-745).    *)
RefusalNamesFatalStep ==
  boot # << >> /\ Probe.outcome # << >> /\ Doctor /\ Refused(Probe) =>
    LET document == Probe.outcome[1]
    IN  /\ code = <<3>> /\ report = << >> /\ ~document.ok
        /\ document.failed \in Range(Connecting \o Validating)
        /\ Probe.steps[document.failed] \in Failures
        /\ document.failed \in Range(Connecting) =>
             Range(document.skipped) = After(Probe, document.failed)

(* Exit code 0 of doctor says that whatever was not skipped was read: Loki, *)
(* the health endpoints, the gRPC server and the locks; and of the machines *)
(* that have reported, that each was seen lately and none is quarantined.   *)
(* A database without the table of machines is that of a fleet of none      *)
(* (dpu.rs 219-227).  Nothing is said of the cluster and the workflows:     *)
(* these layers take an API that fails for one that has nothing to tell     *)
(* (cluster.rs 51-60, workflows.rs 85-90).                                  *)
HealthyMeansRead ==
  phase = "done" /\ Doctor /\ inv.command = "none" /\ code = <<0>> =>
    LET in == LayerInputs(s, B)
        Ok(name) == \E i \in DOMAIN report[1] : report[1][i].name = name /\ report[1][i].status = "Ok"
        Fresh(m) == ~Quarantined(m) /\ m.seen # << >> /\ ~Stale(m.seen, SeenFresh)
    IN  /\ Ok("logs")     => LokiEntries(s.w, in) # << >>
        /\ Ok("health")   => \A i \in DOMAIN in.endpoints[1] : s.w.http[in.endpoints[1][i]].healthz
        /\ Ok("grpc")     => in.grpc[1] \in s.w.grpc
        /\ Ok("postgres") => DbAt(s.w, in.postgres).up /\ s.w.locks # << >>
        /\ Ok("dpu")      => /\ DbAt(s.w, in.postgres).up
                             /\ s.w.db.table =>
                                  \A i \in DOMAIN s.w.db.rows : s.w.db.rows[i].observed => Fresh(s.w.db.rows[i])

(* The verdict a command gives on one axis of a DPU is the one the fleet    *)
(* layer and dpu-health give, for every DPU that has reported and whose     *)
(* services say their state (dpu.rs, dpu_health.rs and the five clients     *)
(* read the same row by queries of their own).                              *)
AxisOf ==
  [command \in Drills \ {"dpu-health"} |->
     CASE command = "dpu-isolation" -> "dpu_isolation"
       [] command = "dpu-cert"      -> "dpu_cert"
       [] command = "dpu-services"  -> "dpu_services"
       [] OTHER                     -> command]

Shown(m) == m.observed /\ m.seen # << >> /\ \A i \in DOMAIN m.services : m.services[i].state # << >>

ViewsAgree ==
  phase = "done" /\ inv.command \in Drills /\ report \notin {<< >>, << << >> >>} =>
    \A i \in DOMAIN s.w.db.rows :
      LET m         == s.w.db.rows[i]
          checks    == report[1][1].checks
          Fleet(axis) == FleetSummaries(<<m>>, axis)[1].status
      IN  m.id = s.flags["id"] /\ Shown(m) /\ Len(checks) > 1 =>
            /\ inv.command \in DOMAIN AxisOf => checks[1].status = Fleet(AxisOf[inv.command])
            /\ inv.command = "dpu-health" =>
                 \A k \in 1 .. 4 : checks[k].status = Fleet(checks[k].name)

(* The baseline file is the last conclusive report that was written to its  *)
(* end, or it is no baseline at all: whatever run was killed or could not   *)
(* write, a badge never compares with half a report, nor with one of a run  *)
(* that could not tell (lib.rs 165-171, baseline.rs).                       *)
BaselineIsConclusive ==
  /\ (file.kind = "whole") = (kept # << >>)
  /\ kept # << >> => SummaryStatus(kept[1]) # "Unknown" /\ file = Written(kept[1])
  /\ phase = "working" /\ Doctor /\ prior # << >> => kept # << >> /\ prior[1] = Written(kept[1]).statuses

(* The answer of correlate: exit code 0 only if every source asked gave its *)
(* part and there is an event; the timeline is in order, has only what the  *)
(* sources gave, all of it if it is short, and of a long one every event    *)
(* that event.rs rated a warning or an error; and what is not available is  *)
(* never counted as restricted.  What event.rs should rate so, of Temporal, *)
(* is FailuresAreTold.                                                      *)
AnswerIsWhole ==
  phase = "done" /\ ~Doctor /\ report # << >> /\ shown # << >> =>
    LET out == shown[1]
        all == AllEvents(report[1])
    IN  /\ code = <<0>> => out.events # << >> /\ out.unavailable = << >>
        /\ \A i, j \in DOMAIN out.events : i < j => out.events[i].at >= out.events[j].at
        /\ Range(out.events) \subseteq Range(all)
        /\ {e \in Range(all) : e.severity \in Trouble} \subseteq Range(out.events)
        /\ Len(all) <= FirstN + LastN => Len(out.events) = Len(all)
        /\ Range(out.restricted) \cap Range(out.unavailable) = {}
        /\ Range(out.tail) \cap Range(out.unavailable) = {}

(* Whatever fails in a workflow is told as an error, and so is not trimmed: *)
(* `activity_task_failed_maps_to_error_severity` and                        *)
(* `workflow_failed_maps_to_error_event` (sources/temporal.rs),             *)
(* `temporal_failed_is_error` (event.rs) and `always_includes_error_events` *)
(* (timeline.rs) say so.  But event_type_name of temporal.rs names a kind   *)
(* EVENT_TYPE_ACTIVITY_TASK_FAILED, which has no "Failed" in it.            *)
FailureTypes == {"WorkflowExecutionFailed", "ActivityTaskFailed"}

FailuresAreTold ==
  phase = "done" /\ ~Doctor /\ report # << >> /\ shown # << >> =>
    \A i \in DOMAIN report[1] :
      Attempted(s.flags)[i] = "temporal" /\ report[1][i].available =>
        \A k \in DOMAIN s.w.history[1] :
          LET h == s.w.history[1][k]
          IN  h.type \in FailureTypes =>
                \E e \in Range(shown[1].events) :
                  e.source = "temporal" /\ e.at = When(h.at) /\ e.severity = "Error"
=============================================================================
