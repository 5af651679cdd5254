----------------------------- MODULE DpuLayers -----------------------------
(***************************************************************************)
(* The DPU layers of nico doctor: the drill-down on one axis of one DPU,   *)
(* the summary of one DPU (`dpu-health`), and the fleet layer (`dpu`).     *)
(* Each asks forgedb, and turns the rows into checks by way of the shared  *)
(* verdicts.                                                               *)
(*                                                                         *)
(* db is what a query meets: whether the database answers, whether it has  *)
(* the `machines` table, and its rows.                                     *)
(***************************************************************************)
EXTENDS DpuVerdicts

CONSTANTS
  DhcpStale,     \* --dhcp-stale (4 h)
  StuckGrace,    \* [dpu] probe_stuck_grace
  FindingsCap    \* FINDINGS_CAP (5 in the code)

ASSUME FindingsAssumption == FindingsCap \in Nat

Check(name, status, kind) == [name |-> name, status |-> status, kind |-> kind]
Detail(name, status)      == Check(name, status, "Detail")
Headline(summary)         == Check(summary.axis, summary.status, "Headline")

OkIf(holds, else) == IF holds THEN "Ok" ELSE else

(* aggregate_status: the worst of the checks, details included. *)
Aggregate(statuses) ==
  CASE "Fail" \in statuses -> "Fail"
    [] "Fail" \notin statuses /\ "Warn" \in statuses -> "Warn"
    [] statuses \cap {"Fail", "Warn"} = {} /\ "Unknown" \in statuses -> "Unknown"
    [] OTHER -> "Ok"

StatusesOf(checks) == {checks[i].status : i \in DOMAIN checks}

(* assemble_error_checks and assemble_no_status_checks *)
Unavailable(axis) == << Check(axis, "Unknown", "Headline") >>

RowsOf(db, id) == Chosen(db.rows, {i \in DOMAIN db.rows : db.rows[i].id = id})

(* WHERE network_status_observation IS NOT NULL *)
Observed(rows) == Chosen(rows, {i \in DOMAIN rows : rows[i].observed})

-----------------------------------------------------------------------------
(* Snapshots: the columns each client reads of a row. *)
IsolationSnapshot(m) ==
  [registered |-> TRUE, scouted |-> m.seen # << >>, quarantine |-> m.quarantine, seen |-> m.seen]

Unregistered == [registered |-> FALSE, scouted |-> FALSE, quarantine |-> << >>, seen |-> << >>]

(* The three queries turn an empty error into none. *)
NullIf(text) == IF text = <<"">> THEN << >> ELSE text

HbnSnapshot(m, seen) ==
  [hbn |-> m.hbn, error |-> NullIf(m.error), bgp |-> BgpAlerts(m.report), seen |-> seen,
   quarantine |-> m.quarantine, hostApplied |-> m.hostApplied, hostDesired |-> m.hostDesired,
   instApplied |-> m.instApplied, instDesired |-> m.instDesired]

ServicesSnapshot(m, default) == [seen |-> m.svcSeen, services |-> Services(m.services, default)]

IbSnapshot(m) == [seen |-> m.ibSeen, ufm |-> m.ufm, ports |-> Ports(m.ports), alerts |-> IbAlerts(m.report)]

-----------------------------------------------------------------------------
(* The drill-downs: dpu_cert, dpu_isolation, hbn, dpu_services, infiniband *)
CertChecks(expiry) ==
  << Headline(CertVerdict(expiry)) >>
  \o IF expiry = << >> THEN << >> ELSE << Detail("expiry", "Ok"), Detail("warn-threshold", "Ok") >>

IsolationChecks(s) ==
  << Headline(IsolationVerdict(s)) >>
  \o (IF Quarantined(s) THEN << Detail("quarantine-state", "Ok") >> ELSE << >>)
  \o (IF s.seen = << >> THEN << >> ELSE << Detail("last-seen", "Ok"), Detail("freshness-threshold", "Ok") >>)

(* Every signal keeps its row below the headline.  The version rows take a *)
(* version that is not one for the oldest there is.                        *)
HbnChecks(s) ==
  << Headline(HbnVerdict(s)) >>
  \o (IF s.error \in {<< >>, <<"">>} THEN << >> ELSE << Detail("network_config_error", "Fail") >>)
  \o << Detail("version_nvue", OkIf(~Older(s.hbn, NvueMinimum), "Fail")),
        Detail("version_fmds", OkIf(~Older(s.hbn, FmdsMinimum), "Warn")),
        Detail("managed_host_config", OkIf(~HostDrift(s), "Fail")),
        Detail("instance_network_config", OkIf(~InstDrift(s), "Fail")),
        Detail("bgp", OkIf(s.bgp = << >>, "Fail")),
        Detail("quarantine", OkIf(~Quarantined(s), "Fail")),
        Detail("last_seen", OkIf(Age(s.seen) <= SeenFresh, "Warn")) >>

(* service_detail *)
ServiceCheck(svc, stale) ==
  CASE svc.removed # << >> -> Detail("service_removed", "Ok")
    [] svc.removed = << >> /\ svc.state \in {"Terminating", "Terminated"} -> Detail("service_lifecycle", "Ok")
    [] OTHER -> Detail("service_state", OkIf(Bucket(svc, stale) # "degraded", "Warn"))

(* The rows follow the names of the services; the order is left out. *)
ServicesChecks(s) ==
  LET stale == Stale(s.seen, ServicesStale)
  IN  << Headline(ServicesVerdict(s)) >>
      \o (IF stale THEN << Detail("observation_stale", "Warn") >> ELSE << >>)
      \o [i \in DOMAIN s.services |-> ServiceCheck(s.services[i], stale)]

IbChecks(s) ==
  << Headline(IbVerdict(s)) >>
  \o [i \in DOMAIN s.ports |-> Detail("port", OkIf(~BadPort(s.ports[i]), "Fail"))]
  \o [i \in DOMAIN s.alerts |-> Detail("ib_alert", "Warn")]
  \o (IF s.seen = << >> THEN << >> ELSE << Detail("observed_at", "Ok") >>)
  \o (IF Stale(s.seen, IbStale) THEN << Detail("freshness", "Warn") >> ELSE << >>)

(* Each layer's collect.  A database that does not answer, or for HBN a    *)
(* row observed at no known time, is an error; a missing table or row is   *)
(* not registered, not observed or unknown, as the axis has it.            *)
CertLayer(db, id) ==
  LET rows == RowsOf(db, id)
  IN  IF ~db.up THEN Unavailable("dpu_cert")
      ELSE CertChecks(IF ~db.table \/ rows = << >> THEN << >> ELSE rows[1].expiry)

IsolationLayer(db, id) ==
  LET rows == RowsOf(db, id)
  IN  IF ~db.up THEN Unavailable("dpu_isolation")
      ELSE IsolationChecks(IF ~db.table \/ rows = << >> THEN Unregistered ELSE IsolationSnapshot(rows[1]))

HbnLayer(db, id) ==
  LET rows == Observed(RowsOf(db, id))
  IN  IF ~db.up \/ ~db.table \/ rows = << >> \/ rows[1].seen = << >> THEN Unavailable("hbn")
      ELSE HbnChecks(HbnSnapshot(rows[1], rows[1].seen[1]))

ServicesLayer(db, id) ==
  LET rows == RowsOf(db, id)
  IN  IF ~db.up \/ ~db.table \/ rows = << >> THEN Unavailable("dpu_services")
      ELSE ServicesChecks(ServicesSnapshot(rows[1], "Unknown"))

IbLayer(db, id) ==
  LET rows == RowsOf(db, id)
  IN  IF ~db.up \/ ~db.table \/ rows = << >> THEN Unavailable("infiniband")
      ELSE IbChecks(IbSnapshot(rows[1]))

-----------------------------------------------------------------------------
(* dpu_health: one headline per axis, then what no axis reports.  fabric   *)
(* says whether the boot probe found InfiniBand; none is "not detected".   *)
Seen(m) == IF m.seen = << >> THEN 0 ELSE m.seen[1]

IbHeadline(m, fabric) ==
  CASE fabric = <<FALSE>> -> << >>
    [] fabric = <<TRUE>>  -> << Headline(IbVerdict(IbSnapshot(m))) >>
    [] OTHER              -> << Check("infiniband", "Unknown", "Headline") >>

AgentDetails(m) ==
  (IF m.superseded = << >> THEN << >> ELSE << Detail("agent_version_drift", "Warn") >>)
  \o [i \in DOMAIN AgentAlerts(m.report) |->
        Detail(<<"alert", Category(Grouped(AgentAlerts(m.report))[i].id[1])>>, "Fail")]
  \o LET late == Chosen(m.leases, {i \in DOMAIN m.leases : Stale(m.leases[i], DhcpStale)})
     IN  [i \in DOMAIN late |-> Detail("dhcp_stale", "Warn")]

HealthChecks(m, fabric) ==
  << Headline(CertVerdict(m.expiry)),
     Headline(IsolationVerdict(IsolationSnapshot(m))),
     Headline(HbnVerdict(HbnSnapshot(m, Seen(m)))),
     Headline(ServicesVerdict(ServicesSnapshot(m, ""))) >>
  \o IbHeadline(m, fabric) \o AgentDetails(m)

HealthLayer(db, id, fabric) ==
  LET rows == RowsOf(db, id)
  IN  IF ~db.up \/ ~db.table \/ rows = << >> THEN Unavailable("dpu_health")
      ELSE HealthChecks(rows[1], fabric)

-----------------------------------------------------------------------------
(* The fleet layer: the worst verdict of every axis, the worst findings,   *)
(* and the DPUs stuck in PostConfigCheckWait.                              *)
FleetIsolation_SeenOnly(m) ==
  IsolationVerdict([registered |-> TRUE, scouted |-> TRUE, quarantine |-> << >>, seen |-> m.seen])

FleetIsolation(m) ==
  IsolationVerdict([registered |-> TRUE, scouted |-> TRUE, quarantine |-> m.quarantine, seen |-> m.seen])

FleetSummaries(rows, axis) ==
  [i \in DOMAIN rows |->
     CASE axis = "dpu_cert"      -> CertVerdict(rows[i].expiry)
       [] axis = "dpu_isolation" -> FleetIsolation(rows[i])
       [] axis = "hbn"           -> HbnVerdict(HbnSnapshot(rows[i], rows[i].seen[1]))
       [] axis = "dpu_services"  -> ServicesVerdict(ServicesSnapshot(rows[i], ""))
       [] axis = "infiniband"    -> IbVerdict(IbSnapshot(rows[i]))]

FleetAxes(fabric) ==
  <<"dpu_cert", "dpu_isolation", "hbn", "dpu_services">>
  \o IF fabric = <<FALSE>> THEN << >> ELSE <<"infiniband">>

StatusRank(status) ==
  CASE status = "Fail" -> 0 [] status = "Warn" -> 1 [] status = "Unknown" -> 2
    [] status = "Ok" -> 3   [] status = "Skipped" -> 4

AtMost(s, n) == SubSeq(s, 1, IF Len(s) < n THEN Len(s) ELSE n)

(* How many of n findings are shown. *)
Capped(n) == IF n < FindingsCap THEN n ELSE FindingsCap

(* Every verdict that is not well, as <<axis, row>>: worst first, then by  *)
(* axis; a stable sort, capped.                                            *)
Findings(rows, fabric) ==
  LET axes == FleetAxes(fabric)
      V(p) == FleetSummaries(rows, axes[p[1]])[p[2]]
      bad  == {p \in (DOMAIN axes) \X (DOMAIN rows) : V(p).status \notin {"Ok", "Skipped"}}
      Key(p) == (Len(axes) * StatusRank(V(p).status) + p[1]) * (Len(rows) + 1) + p[2]
      order  == Sorted(bad, {d \in bad \X bad : Key(d[1]) < Key(d[2])})
  IN  [k \in 1 .. Capped(Cardinality(bad)) |-> Detail(axes[order[k][1]], V(order[k]).status)]

(* collect_stuck: <<row, alert>>; their order, longest first, is left out. *)
Stuck(rows) ==
  LET Waits(report) == {k \in DOMAIN report : /\ report[k].id = <<"PostConfigCheckWait">>
                                              /\ Stale(report[k].since, StuckGrace)}
  IN  UNION {{i} \X Waits(rows[i].report) : i \in DOMAIN rows}

AxisHeadlines(rows, fabric) ==
  [k \in DOMAIN FleetAxes(fabric) |->
     LET verdicts == FleetSummaries(rows, FleetAxes(fabric)[k])
     IN  Check(FleetAxes(fabric)[k], Aggregate(StatusesOf(verdicts)), "Headline")]

FleetChecks(rows, fabric) ==
  AxisHeadlines(rows, fabric)
  \o << Check("probe-stuck", OkIf(Stuck(rows) = {}, "Fail"), "Headline") >>
  \o Findings(rows, fabric)
  \o [i \in 1 .. Capped(Cardinality(Stuck(rows))) |-> Detail("probe-stuck", "Fail")]

FleetLayer_Lenient(db, fabric) ==
  LET rows == IF db.table THEN Observed(db.rows) ELSE << >>
      seen == Chosen(rows, {i \in DOMAIN rows : rows[i].seen # << >>})
  IN  IF ~db.up THEN Unavailable("dpu") ELSE FleetChecks(seen, fabric)

(* One row observed at no known time fails the query for the whole fleet.  *)
FleetLayer(db, fabric) ==
  LET rows == IF db.table THEN Observed(db.rows) ELSE << >>
  IN  IF ~db.up \/ \E i \in DOMAIN rows : rows[i].seen = << >> THEN Unavailable("dpu")
      ELSE FleetChecks(rows, fabric)

-----------------------------------------------------------------------------
(* aggregate_row: what the HBN panel of nico ops shows of a row. *)
PanelRow(m) ==
  LET s == HbnSnapshot(m, m.seen[1])
  IN  [machine |-> m.id, mh |-> HostDrift(s), inst |-> InstDrift(s), quarantine |-> m.quarantine,
       age |-> IF Drifts(s) THEN Age(m.seen[1]) ELSE 0,
       status |-> CASE m.quarantine # << >>                      -> "Quarantined"
                    [] m.quarantine = << >> /\ s.error # << >>   -> "Unhealthy"
                    [] OTHER -> IF Drifts(s) THEN "Drift" ELSE "Healthy"]
-----------------------------------------------------------------------------
(* What the database holds has the shape of its tables: a machine has one  *)
(* row, and the columns that are lists hold lists.                         *)
DbShaped(db) ==
  /\ {"up", "table", "rows"} \subseteq DOMAIN db
  /\ db.rows \in Seq(Range(db.rows))
  /\ \A i, j \in DOMAIN db.rows : db.rows[i].id = db.rows[j].id => i = j
  /\ \A i \in DOMAIN db.rows :
       LET m == db.rows[i]
       IN  /\ m.services \in Seq(Range(m.services)) /\ m.ports \in Seq(Range(m.ports))
           /\ m.report \in Seq(Range(m.report)) /\ m.leases \in Seq(Range(m.leases))
=============================================================================
