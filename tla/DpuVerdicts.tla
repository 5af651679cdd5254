---------------------------- MODULE DpuVerdicts ----------------------------
(***************************************************************************)
(* The verdict of each per-DPU axis (verdicts/) and what a row of forgedb's *)
(* `machines` table becomes on its way there (dpu_cert.rs, dpu_isolation.rs, *)
(* hbn.rs, dpu_services.rs, infiniband.rs, dpu_health.rs).                 *)
(*                                                                         *)
(* An optional value is a sequence of at most one element.  A moment is    *)
(* the number of seconds it lies in the past, negative in the future.  A   *)
(* row of `machines` is a record:                                          *)
(*   id, observed (the agent has reported), seen, expiry, quarantine,      *)
(*   error, hbn (the version of the component), hostApplied, hostDesired,  *)
(*   instApplied, instDesired, report (the agent's alerts, in order),      *)
(*   svcSeen, services, ibSeen, ufm, ports, version, superseded, leases    *)
(***************************************************************************)
EXTENDS Integers, Sequences, FiniteSetsExt, SequencesExt, Sorting

CONSTANTS
  CertWarn,       \* DEFAULT_WARN_THRESHOLD of dpu_cert.rs (30 days)
  SeenFresh,      \* DEFAULT_FRESHNESS_THRESHOLD of hbn.rs and dpu_isolation.rs (90 s)
  ServicesStale,  \* DEFAULT_OBSERVATION_STALE_THRESHOLD of dpu_services.rs (5 min)
  IbStale,        \* DEFAULT_OBSERVATION_STALE_THRESHOLD of infiniband.rs (4 h)
  NvueMinimum,    \* NVUE_MINIMUM_HBN_VERSION
  FmdsMinimum,    \* FMDS_MINIMUM_HBN_VERSION
  AlertIds,       \* the probe ids an agent reports, in alphabetical order
  Family          \* what an id starts with or contains: "Bgp", "Cert",
                  \* "Interface", "Ib" or "none"

LidUnassigned == 65535

Age(moment) == IF moment < 0 THEN 0 ELSE moment

-----------------------------------------------------------------------------
(* Versions: the numbers before and after "-doca"; a part that is not a    *)
(* number counts as 0 and a missing one as 0.                              *)
Part(v, i) == IF i \in DOMAIN v THEN v[i] ELSE 0

TupleLess(v, w) ==
  \E i \in 1 .. Len(v) + Len(w) :
    Part(v, i) < Part(w, i) /\ \A j \in 1 .. i - 1 : Part(v, j) = Part(w, j)

(* compare_hbn_versions(v, w) = Less *)
Older(v, w) ==
  TupleLess(v.head, w.head) \/ (~TupleLess(w.head, v.head) /\ TupleLess(v.tail, w.tail))

(* version_below_minimum: a text without a digit is never below. *)
BelowMinimum(v) == v.digits /\ Older(v, NvueMinimum)

-----------------------------------------------------------------------------
(* The agent's report: each reader takes the entries it understands.  An   *)
(* entry without an id is nobody's.                                        *)
Identified(report) == Chosen(report, {i \in DOMAIN report : report[i].id # << >>})

(* parse_bgp_alerts goes by the category of an entry, *)
BgpAlerts(report) ==
  LET known == Identified(report) IN Chosen(known, {i \in DOMAIN known : known[i].category = <<"bgp">>})

(* parse_ib_alerts by the prefix of its id. *)
IbAlerts(report) ==
  LET known == Identified(report) IN Chosen(known, {i \in DOMAIN known : Family[known[i].id[1]] = "Ib"})

HbnOwned == {"BgpPeerDown", "BgpRoutesMissing", "BgpStateInvalid", "NetworkConfigError"}

(* The alerts dpu_health keeps: neither HBN's nor InfiniBand's. *)
AgentAlerts(report) ==
  LET known == Identified(report)
  IN  Chosen(known, {i \in DOMAIN known : known[i].id[1] \notin HbnOwned /\ Family[known[i].id[1]] # "Ib"})

(* AgentAlert::category *)
Category(id) ==
  CASE id \in {"HeartbeatTimeout", "StaleAgentVersion", "MissingReport", "MalformedReport"} -> "agent"
    [] id = "IbPortDown"                   -> "ib_fabric"
    [] id \in {"Quarantine", "Maintenance"} -> "operator"
    [] id = "SkuValidation"                -> "sku"
    [] OTHER -> CASE Family[id] = "Bgp"       -> "bgp"
                  [] Family[id] = "Cert"      -> "cert"
                  [] Family[id] = "Interface" -> "interface"
                  [] OTHER                    -> "other"

Categories == <<"agent", "bgp", "cert", "ib_fabric", "interface", "operator", "other", "sku">>

At(s, x) == SelectInSeq(s, LAMBDA y : y = x)

(* By category, then by id, then as reported. *)
Grouped(alerts) ==
  LET Key(a) == Len(AlertIds) * At(Categories, Category(a.id[1])) + At(AlertIds, a.id[1])
      order == SortSeq([i \in DOMAIN alerts |-> i], LAMBDA i, j :
                 Key(alerts[i]) < Key(alerts[j]) \/ (Key(alerts[i]) = Key(alerts[j]) /\ i < j))
  IN  [k \in DOMAIN alerts |-> alerts[order[k]]]

(* parse_services and parse_extension_services differ in one point: what a *)
(* service without a state is taken to be.                                 *)
Services(listed, default) ==
  LET named == Chosen(listed, {i \in DOMAIN listed : listed[i].name # << >>})
  IN  [i \in DOMAIN named |->
         [name |-> named[i].name[1], removed |-> named[i].removed,
          state |-> IF named[i].state = << >> THEN default ELSE named[i].state[1]]]

(* parse_ports: a port without a LID has none assigned.  A number is kept as *)
(* [high, low], its halves of 32 bits, of which `as u32` leaves the low one. *)
Ports(listed) ==
  [i \in DOMAIN listed |->
     [fabric |-> listed[i].fabric,
      lid |-> IF listed[i].lid = << >> THEN LidUnassigned ELSE listed[i].lid[1].low]]

-----------------------------------------------------------------------------
(* A verdict is the first rung of its ladder that holds. *)
Rung(holds, status, why) == [holds |-> holds, status |-> status, why |-> why]

Verdict(axis, ladder) ==
  LET rung == ladder[Min({i \in DOMAIN ladder : ladder[i].holds})]
  IN  [axis |-> axis, status |-> rung.status, why |-> rung.why]

Stale(seen, threshold) == seen # << >> /\ Age(seen[1]) > threshold

(* cert_verdict *)
CertVerdict(expiry) ==
  LET Within(secs) == expiry # << >> /\ -expiry[1] <= secs
  IN  Verdict("dpu_cert",
        << Rung(expiry = << >>,   "Unknown", "no observation"),
           Rung(Within(0),        "Fail",    "expired"),
           Rung(Within(CertWarn), "Warn",    "expiring"),
           Rung(TRUE,             "Ok",      "healthy") >>)

Quarantined(s) == s.quarantine \notin {<< >>, <<"">>}

(* assess and isolation_verdict *)
IsolationVerdict(s) ==
  Verdict("dpu_isolation",
    << Rung(~s.registered,                                "Unknown", "not registered"),
       Rung(~s.scouted,                                   "Unknown", "scout incomplete"),
       Rung(Quarantined(s),                               "Fail",    "quarantined"),
       Rung(s.seen = << >> \/ Stale(s.seen, SeenFresh),   "Fail",    "lost"),
       Rung(TRUE,                                         "Ok",      "healthy") >>)

HostDrift(s) == s.hostApplied # s.hostDesired
InstDrift(s) == s.instApplied # s.instDesired
Drifts(s)    == HostDrift(s) \/ InstDrift(s)

(* hbn_verdict *)
HbnVerdict(s) ==
  Verdict("hbn",
    << Rung(s.error \notin {<< >>, <<"">>}, "Fail", "config error"),
       Rung(BelowMinimum(s.hbn),            "Fail", "version"),
       Rung(Drifts(s),                      "Fail", "drift"),
       Rung(s.bgp # << >>,                  "Fail", "bgp"),
       Rung(Quarantined(s),                 "Fail", "quarantined"),
       Rung(Age(s.seen) > SeenFresh,        "Warn", "stale"),
       Rung(TRUE,                           "Ok",   "ok") >>)

(* classify: how a service counts in the headline. *)
Bucket(svc, stale) ==
  CASE svc.removed # << >> \/ svc.state \in {"Terminating", "Terminated"} -> "silent"
    [] svc.removed = << >> /\ svc.state = "Running"                       -> "ready"
    [] svc.removed = << >> /\ svc.state \in {"Pending", "Unknown"} /\ ~stale -> "silent"
    [] OTHER -> "degraded"

(* services_verdict: how many are ready, how many degraded, of how many. *)
InBucket(s, bucket) == Len(SelectSeq(s.services, LAMBDA x : Bucket(x, Stale(s.seen, ServicesStale)) = bucket))

ServicesVerdict(s) ==
  LET counts == <<InBucket(s, "ready"), InBucket(s, "degraded"), Len(s.services)>>
  IN  Verdict("dpu_services", << Rung(InBucket(s, "degraded") > 0, "Warn", counts), Rung(TRUE, "Ok", counts) >>)

BadPort(p) == ~p.fabric \/ p.lid = LidUnassigned

(* ib_verdict, fail_reason and warn_reason *)
IbVerdict(s) ==
  Verdict("infiniband",
    << Rung(s.seen = << >> /\ s.ports = << >>,             "Unknown", "no observation"),
       Rung(\E i \in DOMAIN s.ports : BadPort(s.ports[i]), "Fail",    "port"),
       Rung(Stale(s.seen, IbStale),                        "Warn",    "stale"),
       Rung(s.ufm = <<FALSE>>,                             "Warn",    "ufm"),
       Rung(s.alerts # << >>,                              "Warn",    "alerts"),
       Rung(TRUE,                                          "Ok",      "healthy") >>)
=============================================================================
