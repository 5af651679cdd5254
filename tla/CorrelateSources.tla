--------------------------- MODULE CorrelateSources ---------------------------
(***************************************************************************)
(* nico-correlate source.rs, sources/ and event.rs: what each source says  *)
(* of one entity, as a list of events and of state entries, or that it is  *)
(* not available.                                                          *)
(*                                                                         *)
(* Of a world w the sources read, besides what a boot reads:               *)
(*   history    an optional list of history events of the workflow:        *)
(*              [type, at (optional), id, schedules (an optional name),    *)
(*              fails (optional: [of, message (optional), exhausted])]     *)
(*   changes    an optional list of moments, the entity's state history    *)
(*   contexts   the networks behind the named kube contexts                *)
(*   serial     the pods that are serial consoles                          *)
(*   loki.log   the lines Loki has of the entity, [at, pod]                *)
(*   bmc        per host an optional system log, [at, id, severity], each  *)
(*              optional; hosts, the host of a DPU                         *)
(* and in db.rows the rows of the entity.  A moment is the number of       *)
(* seconds it lies in the past; one that is missing counts as now.         *)
(***************************************************************************)
EXTENDS DoctorBootstrap

CONSTANT
  WordsIn      \* for each kind a source makes up: which of the words below are in it

Sources == <<"temporal", "postgres", "k8s", "loki", "redfish">>

Now == 0

When(at) == Or(at, Now)

(* Whether the database behind a URL can be read. *)
Readable(w, url) == url.absolute /\ url.host \in w.net.open /\ w.db.up

-----------------------------------------------------------------------------
(* event.rs: the severity goes by words in the kind.  The kinds of         *)
(* Temporal are the names of the protocol, in capitals, and hold none of   *)
(* them, whatever happened.                                                *)
EventTypeName(type) ==
  CASE type = "WorkflowExecutionStarted"   -> "EVENT_TYPE_WORKFLOW_EXECUTION_STARTED"
    [] type = "WorkflowExecutionCompleted" -> "EVENT_TYPE_WORKFLOW_EXECUTION_COMPLETED"
    [] type = "WorkflowExecutionFailed"    -> "EVENT_TYPE_WORKFLOW_EXECUTION_FAILED"
    [] type = "ActivityTaskScheduled"      -> "EVENT_TYPE_ACTIVITY_TASK_SCHEDULED"
    [] type = "ActivityTaskFailed"         -> "EVENT_TYPE_ACTIVITY_TASK_FAILED"
    [] OTHER                               -> "UnknownEventType"

Marks(kind) == IF kind \in DOMAIN WordsIn THEN WordsIn[kind] ELSE {}

Classify(source, kind) ==
  LET Has(marks) == Marks(kind) \cap marks # {}
  IN  CASE source = "temporal" -> IF Has({"Failed", "TimedOut"}) THEN "Error" ELSE "Info"
        [] source = "postgres" -> IF Has({"fail", "error", "delete"}) THEN "Warning" ELSE "Info"
        [] source = "redfish"  -> IF Has({"Fault", "Critical", "Failed"}) THEN "Error"
                                  ELSE IF Has({"Warning", "Degraded"}) THEN "Warning" ELSE "Info"
        [] source = "k8s"      -> "Warning"
        [] OTHER               -> "Info"

(* An event; its tags are what the rules of the diagnosis look at. *)
NoTags == [activity |-> << >>, error |-> << >>, exhausted |-> FALSE]

Tagged(at, source, kind, tags) ==
  [at |-> at, source |-> source, kind |-> kind, severity |-> Classify(source, kind),
   activity |-> tags.activity, error |-> tags.error, exhausted |-> tags.exhausted]

Plain(at, source, kind) == Tagged(at, source, kind, NoTags)

Entry(source, key, value) == [source |-> source, key |-> key, value |-> value]

(* SourceResult *)
Gave(events, state) == [available |-> TRUE, events |-> events, state |-> state]
Unavailing          == [available |-> FALSE, events |-> << >>, state |-> << >>]

-----------------------------------------------------------------------------
(* temporal: of a failed activity the name is that of the event that       *)
(* scheduled it.                                                           *)
Scheduled(history, id) ==
  LET named == SelectSeq(history, LAMBDA h : h.id = id /\ h.schedules \notin {<< >>, <<"">>})
  IN  IF named = << >> THEN << >> ELSE Last(named).schedules

HistoryTags(history, h) ==
  IF h.fails = << >> THEN NoTags
  ELSE [activity |-> Scheduled(history, h.fails[1].of),
        error |-> SelectSeq(h.fails[1].message, LAMBDA m : m # ""), exhausted |-> h.fails[1].exhausted]

ConvertHistory(history) ==
  [i \in DOMAIN history |->
     Tagged(When(history[i].at), "temporal", EventTypeName(history[i].type), HistoryTags(history, history[i]))]

TemporalSource(w, at) ==
  IF w.history = << >> \/ at.host \notin w.net.open THEN Unavailing
  ELSE Gave(ConvertHistory(w.history[1]), << >>)

-----------------------------------------------------------------------------
(* postgres: the rows and the history of a machine; a table that is not    *)
(* there has none, and the other types of id have no table.                *)
Machines == {"host", "dpu"}

StateChange(at) == Plain(at, "postgres", "state_change")

PostgresSource(w, url, id, type) ==
  LET rows    == IF type \in Machines /\ w.db.table
                 THEN Chosen(w.db.rows, {i \in DOMAIN w.db.rows : w.db.rows[i].id = id}) ELSE << >>
      changes == IF type \in Machines THEN Or(w.changes, << >>) ELSE << >>
  IN  IF ~Readable(w, url) THEN Unavailing
      ELSE Gave([i \in DOMAIN changes |-> StateChange(changes[i])],
                [i \in DOMAIN rows |-> Entry("postgres", "machines", rows[i].id)])

-----------------------------------------------------------------------------
(* k8s: the pods with the label of the entity, in every namespace, and     *)
(* their warnings; a list of events that cannot be read is an empty one.   *)
EntityPods(net, id) ==
  LET names == SetToSeq(DOMAIN net.pods)
      In(ns) == [i \in DOMAIN net.pods[ns] |-> <<ns, net.pods[ns][i]>>]
      all == FlattenSeq([k \in DOMAIN names |-> In(names[k])])
  IN  Chosen(all, {i \in DOMAIN all : id \in all[i][2].labels})

PodStateEntry(pod) ==
  Entry("k8s", pod.name,
        [status |-> IF pod.crashLoop THEN "CrashLoopBackOff" ELSE Or(pod.phase, "Unknown"),
         restarts |-> pod.restartCount])

WarningsOf(net, p) ==
  LET raw == Or(ListEvents(net, p[1]), << >>)
      own == Chosen(raw, {i \in DOMAIN raw : /\ raw[i].object = <<p[2].name>>
                                              /\ raw[i].type = <<"Warning">> /\ raw[i].reason # << >>})
  IN  [i \in DOMAIN own |-> Plain(When(own[i].ts), "k8s", own[i].reason[1])]

(* It has a client of its own, for the context that is configured. *)
ContextNet(w, cfg) ==
  CASE cfg.texts["context"] = << >> -> IF w.kubeconfig THEN << w.net >> ELSE << >>
    [] OTHER -> Given(w.contexts, cfg.texts["context"][1])

K8sSource(w, cfg, id) ==
  LET net  == ContextNet(w, cfg)
      pods == EntityPods(net[1], id)
  IN  IF net = << >> THEN Unavailing
      ELSE IF ~net[1].lists THEN Unavailing
      ELSE Gave(FlattenSeq([i \in DOMAIN pods |-> WarningsOf(net[1], pods[i])]),
                [i \in DOMAIN pods |-> PodStateEntry(RawPod(pods[i][2]))])

-----------------------------------------------------------------------------
(* loki: the lines of the window, of the pods that match; or those the     *)
(* cluster has, from the client of the boot.  A pattern is the pods it is  *)
(* a match of, as a regular expression for one and as a part for the other. *)
InWindow(line, since) == line.at <= since

LokiLines(w, since, pattern) ==
  LET log   == w.loki.log
      lines == Chosen(log, {i \in DOMAIN log : /\ InWindow(log[i], since)
                                               /\ pattern = << >> \/ log[i].pod \in pattern[1].whole})
  IN  [i \in DOMAIN lines |->
         Plain(lines[i].at, "loki", IF lines[i].pod \in w.serial THEN "SerialConsoleLog" ELSE "Log")]

(* stream_logs: what each pod of the entity wrote, pod after pod. *)
Streamed(w, pod, since) ==
  LET log   == IF pod \in DOMAIN w.logs THEN w.logs[pod] ELSE << >>
      lines == Chosen(log, {i \in DOMAIN log : InWindow(log[i], since)})
  IN  [k \in DOMAIN lines |-> Plain(lines[k].at, "k8s-logs", "Log")]

StreamedLines(w, id, since, pattern) ==
  LET all  == EntityPods(w.net, id)
      pods == Chosen(all, {i \in DOMAIN all : pattern = << >> \/ all[i][2].name \in pattern[1].part})
  IN  FlattenSeq([i \in DOMAIN pods |-> Streamed(w, pods[i][2].name, since)])

LokiSource(w, at, client, id, since, pattern) ==
  CASE at.url = << >>                              -> Unavailing
    [] at.url # << >> /\ w.loki.up                 -> Gave(LokiLines(w, since, pattern), << >>)
    [] at.url # << >> /\ ~w.loki.up /\ client /\ w.net.lists ->
         Gave(StreamedLines(w, id, since, pattern), << Entry("loki", "fallback", "fallback") >>)
    [] OTHER -> Unavailing

-----------------------------------------------------------------------------
(* redfish: the host of a DPU is looked up in the database as configured,  *)
(* not as forwarded; a log that cannot be read is an empty one.            *)
HostOf(w, cfg, id, type) ==
  CASE type = "host" -> << id >>
    [] type = "dpu"  -> IF Readable(w, Pg(cfg)) THEN Given(w.hosts, id) ELSE << >>

LogEntry(entry) ==
  Plain(When(entry.at), "redfish", Or(FirstGiven(<<entry.id, entry.severity>>), "Event"))

RedfishQuery(w, cfg, id, type) ==
  LET host == HostOf(w, cfg, id, type)
      log  == Or(w.bmc[host[1]], << >>)
  IN  IF host = << >> THEN Unavailing
      ELSE IF host[1] \notin DOMAIN w.bmc THEN Unavailing
      ELSE Gave([i \in DOMAIN log |-> LogEntry(log[i])], << Entry("redfish", host[1], "system") >>)

RedfishSource(s, cfg, id, type) ==
  CASE "redfish_url" \notin DOMAIN s.env                              -> Unavailing
    [] "redfish_url" \in DOMAIN s.env /\ type \notin Machines         -> Gave(<< >>, << >>)
    [] OTHER -> RedfishQuery(s.w, cfg, id, type)

-----------------------------------------------------------------------------
(* What the sources find has the shape of their answers: a list is in an   *)
(* order and what it holds has a time, if it may lack one.                 *)
Timed(list) == IsList(list) /\ \A i \in DOMAIN list : list[i].at \in Int

Dated(list) == IsList(list) /\ \A i \in DOMAIN list : IsMoment(list[i].at)

SourcesShaped(w) ==
  /\ NetShaped(w.net) /\ \A name \in DOMAIN w.contexts : NetShaped(w.contexts[name])
  /\ w.history # << >> => Dated(w.history[1])
  /\ w.changes # << >> => IsList(w.changes[1]) /\ Range(w.changes[1]) \subseteq Int
  /\ Timed(w.loki.log)
  /\ \A pod \in DOMAIN w.logs : Timed(w.logs[pod])
  /\ \A host \in DOMAIN w.bmc : w.bmc[host] # << >> => Dated(w.bmc[host][1])
=============================================================================
