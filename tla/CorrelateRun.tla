----------------------------- MODULE CorrelateRun -----------------------------
(***************************************************************************)
(* nico-correlate lib.rs, bootstrap.rs, correlate.rs, timeline.rs and      *)
(* diagnosis.rs: from the arguments to the sources, and from what these    *)
(* say to the timeline, the diagnosis and the exit code; and the command   *)
(* hbn-config-drift.                                                       *)
(*                                                                         *)
(* The flags of a session also hold id, [text, type], with the type its    *)
(* shape tells, if any; type; sources, a list; since, a list of            *)
(* [count, unit]; pod.                                                     *)
(***************************************************************************)
EXTENDS CorrelateSources

CONSTANTS
  FirstN,         \* how many events the timeline keeps at its start (5 in the code)
  LastN,          \* and at its end (10)
  MaxRestarts     \* K8S_RESTART_THRESHOLD (5)

ASSUME TimelineAssumption == FirstN \in Nat /\ LastN \in Nat /\ FirstN + LastN > 0

-----------------------------------------------------------------------------
(* parse_since: a bare number is seconds; otherwise every number needs a   *)
(* unit.  Nothing at all is a window of no time.                           *)
UnitSecs == [h |-> 3600, m |-> 60, s |-> 1]

ParseSince(terms) ==
  LET numbers == \A i \in DOMAIN terms : terms[i].count # Unparsable
  IN  CASE ~numbers -> Unparsable
        [] numbers /\ Len(terms) = 1 /\ terms[1].unit = "" -> terms[1].count
        [] numbers /\ \A i \in DOMAIN terms : terms[i].unit \in DOMAIN UnitSecs ->
             FoldLeft(LAMBDA sum, t : sum + t.count * UnitSecs[t.unit], 0, terms)
        [] OTHER -> Unparsable

Hour == << [count |-> 1, unit |-> "h"] >>

(* --sources: nothing and `all` among others are all of them. *)
AskedFor(flags)   == Range(Or(Given(flags, "sources"), << >>))
UseAll(flags)     == AskedFor(flags) = {} \/ "all" \in AskedFor(flags)
Attempts(flags, name) == UseAll(flags) \/ name \in AskedFor(flags)
Attempted(flags)  == Chosen(Sources, {i \in DOMAIN Sources : Attempts(flags, Sources[i])})
Restricted(flags) == Chosen(Sources, {i \in DOMAIN Sources : ~Attempts(flags, Sources[i])})

(* The type of the id: as said, or by its shape. *)
IdTypes == {"workflow", "host", "dpu", "request"}

IdType(flags) ==
  IF "type" \in DOMAIN flags THEN SelectSeq(<<flags["type"]>>, LAMBDA t : t \in IdTypes) ELSE flags["id"].type

CorrelateOverrides == {"color", "format", "reach_mode", "timeouts"}

CorrelateConfig(s) == Load(s.file, s.env, Restrict(s.flags, CorrelateOverrides \cap DOMAIN s.flags), << >>)

Since(flags) == ParseSince(Or(Given(flags, "since"), Hour))

(* resolve_config: the first complaint there is, as an exit code. *)
Complaints(s) ==
  << [holds |-> ~ModeKnown(s.flags),                                         code |-> 1],
     [holds |-> ModeKnown(s.flags) /\ ~CorrelateConfig(s).ok,                code |-> 1],
     [holds |-> Since(s.flags) = Unparsable,                                 code |-> 1],
     [holds |-> ~UseAll(s.flags) /\ ~(AskedFor(s.flags) \subseteq Range(Sources)), code |-> 1],
     [holds |-> "id" \notin DOMAIN s.flags,                                  code |-> 2],
     [holds |-> "id" \in DOMAIN s.flags /\ IdType(s.flags) = << >>,          code |-> 1] >>

Complaint(s) ==
  LET made == SelectSeq(Complaints(s), LAMBDA c : c.holds)
  IN  IF made = << >> THEN << >> ELSE << Head(made).code >>

-----------------------------------------------------------------------------
(* prepare_sources: five steps, the connecting ones one by one, then the   *)
(* workflows beside the chain of postgres.  No failure is a refusal.       *)
StartCorrelate(s, cfg) ==
  [cfg |-> cfg, detected |-> << >>,
   probe |-> NewProbe(ProbeMode(cfg, s.tty), CorrelateSteps, Banner(s, cfg))]

CorrelateAwaits(id) ==
  CASE id = "ReachApiServer" -> {"LoadKubeconfig"}
    [] id = "ReachPostgres"  -> {"PortForwardPostgres"}
    [] id \in {"PortForwardWorkflows", "PortForwardPostgres"} -> {"ReachApiServer"}
    [] OTHER -> {}

CorrelateMayBegin(p, id) ==
  p.steps[id] = "Pending" /\ \A other \in CorrelateAwaits(id) : p.steps[other] \in Terminal

CorrelateBegins(b, id) ==
  LET declined == id = "ReachPostgres" /\ b.probe.steps["PortForwardPostgres"] # "Passed"
  IN  [b EXCEPT !.probe = IF declined THEN SetState(@, id, "Skipped") ELSE Started(@, id)]

CorrelateEnds(b, id, outcome) ==
  LET done == SetState(b.probe, id, outcome)
      cut  == id \in {"LoadKubeconfig", "ReachApiServer"} /\ outcome \in Failures
  IN  [b EXCEPT !.probe = IF cut THEN SkipRemaining(done, After(done, id)) ELSE done]

(* Each source has what it needs or is replaced by one that is not there.  *)
Collected(s, b, name) ==
  LET id   == s.flags["id"].text
      type == IdType(s.flags)[1]
      url  == PostgresAt(s.w, b)
      client == b.probe.steps["LoadKubeconfig"] = "Passed"
  IN  CASE name = "temporal" -> TemporalSource(s.w, TemporalAt(s.w, b))
        [] name = "postgres" -> PostgresSource(s.w, url, id, type)
        [] name = "k8s"      -> K8sSource(s.w, b.cfg, id)
        [] name = "loki"     -> LokiSource(s.w, LokiAt(s, b), client, id, Since(s.flags), Given(s.flags, "pod"))
        [] name = "redfish"  -> RedfishSource(s, b.cfg, id, type)

(* collect_all, one after the other *)
CollectAll(s, b) == [i \in DOMAIN Attempted(s.flags) |-> Collected(s, b, Attempted(s.flags)[i])]

CorrelateGuards(s, b) == ProbeGuards(s.w, b) \o LokiAt(s, b).guards

-----------------------------------------------------------------------------
(* What the results come to. *)
AllEvents(results) == FlattenSeq([i \in DOMAIN results |-> results[i].events])
AllState(results)  == FlattenSeq([i \in DOMAIN results |-> results[i].state])

(* filter_timeline: by time, and of a long one the start, the end and the  *)
(* trouble in between.                                                     *)
Trouble == {"Error", "Warning"}

Timeline(events) ==
  LET Older(i, j) == events[i].at > events[j].at \/ (events[i].at = events[j].at /\ i < j)
      order == Sorted(DOMAIN events, {p \in (DOMAIN events) \X (DOMAIN events) : Older(p[1], p[2])})
  IN  [k \in DOMAIN events |-> events[order[k]]]

Kept_Ends(sorted) == {i \in DOMAIN sorted : i <= FirstN \/ i > Len(sorted) - LastN}

Kept(sorted) ==
  {i \in DOMAIN sorted : \/ Len(sorted) <= FirstN + LastN
                         \/ i <= FirstN \/ i > Len(sorted) - LastN
                         \/ sorted[i].severity \in Trouble}

FilterTimeline(events) == Chosen(Timeline(events), Kept(Timeline(events)))

(* exit_code *)
CorrelateCode(results) ==
  CASE AllEvents(results) = << >> -> 1
    [] AllEvents(results) # << >> /\ \E i \in DOMAIN results : ~results[i].available -> 2
    [] OTHER -> 0

-----------------------------------------------------------------------------
(* diagnosis.rs: four rules, the first that matches. *)
Diagnosis(pattern, activity, error) == << [pattern |-> pattern, activity |-> activity, error |-> error] >>

CrashLoop(state) ==
  LET looping == SelectSeq(state, LAMBDA e :
                   e.source = "k8s" /\ (e.value.status = "CrashLoopBackOff" \/ e.value.restarts > MaxRestarts))
  IN  IF looping = << >> THEN << >> ELSE Diagnosis("k8s_crash_loop", << >>, << Head(looping).key >>)

(* The words of an activity and of an error that the second rule asks for. *)
ProvisioningTimeout(events) ==
  LET matching == SelectSeq(events, LAMBDA e :
                    /\ e.activity # << >> /\ "Provision" \in Marks(e.activity[1])
                    /\ e.error # << >> /\ "timeout" \in Marks(e.error[1]))
  IN  IF Len(matching) < 2 THEN << >>
      ELSE Diagnosis("provisioning_timeout", Head(matching).activity, Head(matching).error)

(* The first activity that used up its retries, if all its errors agree. *)
RetryExhaustion(events) ==
  LET exhausted == SelectSeq(events, LAMBDA e : e.exhausted /\ e.activity # << >> /\ e.error # << >>)
      errors    == SelectSeq(events, LAMBDA e : e.activity = Head(exhausted).activity /\ e.error # << >>)
  IN  IF exhausted = << >> THEN << >>
      ELSE IF \E i \in DOMAIN errors : errors[i].error # errors[1].error THEN << >>
      ELSE Diagnosis("activity_retry_exhaustion", errors[1].activity, errors[1].error)

(* No end and no error among the events of Temporal, and none is recent. *)
StuckWorkflow(events, threshold) ==
  LET own == SelectSeq(events, LAMBDA e : e.source = "temporal")
      ends == \E i \in DOMAIN own :
                "WorkflowExecutionCompleted" \in Marks(own[i].kind) \/ own[i].severity = "Error"
  IN  IF own = << >> \/ ends \/ \E i \in DOMAIN own : own[i].at <= threshold THEN << >>
      ELSE Diagnosis("stuck_workflow", << >>, << >>)

Diagnose(events, state, threshold) ==
  FirstGiven(<<CrashLoop(state), ProvisioningTimeout(events), RetryExhaustion(events),
               StuckWorkflow(events, threshold)>>)

-----------------------------------------------------------------------------
(* What is printed: the timeline, the state by source, the sources and     *)
(* those that are restricted or unavailable, and the diagnosis.            *)
StateOf(state, source) == SelectSeq(state, LAMBDA e : e.source = source)

NotAvailable(results, flags) ==
  LET names == Attempted(flags) IN Chosen(names, {i \in DOMAIN names : ~results[i].available})

(* The sources --tail goes on with. *)
Tailed(s, results) ==
  LET names == Attempted(s.flags)
  IN  IF "tail" \in DOMAIN s.flags THEN Chosen(names, {i \in DOMAIN names : results[i].available}) ELSE << >>

(* format, for people: the state by source, and what was asked.            *)
CorrelatePage(s, state) ==
  [blocks  |-> [source \in {"postgres", "redfish", "k8s", "loki"} |-> StateOf(state, source)],
   sources |-> Attempted(s.flags)]

(* format_json *)
CorrelateDocument(s, state) ==
  [id |-> s.flags["id"].text, type |-> IdType(s.flags), state |-> state]

CorrelateOutput(s, cfg, results) ==
  LET events == FilterTimeline(AllEvents(results))
      state  == AllState(results)
  IN  [events |-> events, restricted |-> Restricted(s.flags),
       unavailable |-> NotAvailable(results, s.flags), tail |-> Tailed(s, results),
       diagnosis |-> Diagnose(events, state, cfg.stuck),
       form |-> IF cfg.format = "json" THEN CorrelateDocument(s, state) ELSE CorrelatePage(s, state)]

-----------------------------------------------------------------------------
(* run_hbn_config_drift: two axes, applied against desired, in one query.  *)
(* A machine nobody has seen is not stale, nor is one seen in the future.  *)
DriftFresh == 90

DriftRows(m) ==
  LET stale == m.seen # << >> /\ m.seen[1] > DriftFresh
      Row(axis, applied, desired) ==
        [axis |-> axis, applied |-> applied, desired |-> desired,
         status |-> IF applied = desired THEN "no-drift" ELSE "drift", stale |-> stale]
  IN  << Row("managed_host_config", m.hostApplied, m.hostDesired),
         Row("instance_network_config", m.instApplied, m.instDesired) >>

DriftOverrides == {"postgres_url", "color", "format"}

DriftConfig(s) == Load(s.file, s.env, Restrict(s.flags, DriftOverrides \cap DOMAIN s.flags), << >>)

DriftQuery(s, cfg) ==
  LET rows == IF s.w.db.table THEN SelectSeq(s.w.db.rows, LAMBDA m : m.id = s.flags["id"].text) ELSE << >>
  IN  IF ~Readable(s.w, Pg(cfg)) \/ rows = << >> THEN [code |-> 1, rows |-> << >>]
      ELSE [code |-> 0, rows |-> DriftRows(rows[1])]

HbnConfigDrift(s) ==
  LET cfg == DriftConfig(s)
  IN  IF ~cfg.ok \/ Given(s.flags, "threshold") = << Unparsable >> THEN [code |-> 1, rows |-> << >>]
      ELSE IF cfg.type # << >> /\ ~ForgedbPresent(cfg.type[1]) THEN [code |-> 0, rows |-> << >>]
      ELSE DriftQuery(s, cfg)
=============================================================================
