-------------------------------- MODULE Reach --------------------------------
(***************************************************************************)
(* nico-common reach.rs, bootstrap.rs, k8s.rs and temporal.rs: how a       *)
(* program gets from where it runs to the services of the cluster, and     *)
(* what it takes of the pods and events it lists there.                    *)
(*                                                                         *)
(* net is what the network and the API server do during a run:             *)
(*   lists     whether services may be listed,                             *)
(*   services  per namespace, in the order of the list: name (an optional  *)
(*             value), headless, selector (an optional set of labels) and  *)
(*             ports, each a port with an optional name,                   *)
(*   pods      per namespace: name, labels, phase, containers,             *)
(*   slow      the ports whose forward takes longer than its budget,       *)
(*   open      the hosts that accept a connection in time.                 *)
(* An optional value is a sequence of at most one element.                 *)
(***************************************************************************)
EXTENDS Naturals, Sequences, SequencesExt, FiniteSetsExt, Functions, Sorting

TemporalPort == 7233
PostgresPort == 5432
LokiPort     == 3100

-----------------------------------------------------------------------------
(* Postgres URLs: absolute (it has a scheme and an @), a host, an optional *)
(* port (what is not a number is none), a path and a query.                *)

(* replace_pg_host looks for a slash: a query without a path is dropped.   *)
ReplacePgHost(url, host, port) ==
  IF ~url.absolute THEN << >>
  ELSE << [url EXCEPT !.host = host, !.port = <<port>>, !.query = IF url.path THEN @ ELSE FALSE] >>

(* parse_pg_host_port *)
HasHostPort(url) == url.absolute /\ url.port # << >>

(* probe_postgres, within its budget *)
PostgresAnswers(net, url) == HasHostPort(url) /\ url.host \in net.open

-----------------------------------------------------------------------------
(* What is listed in a namespace; in one that is not there, nothing.       *)
Items(listing, ns) == IF ns \in DOMAIN listing THEN listing[ns] ELSE << >>

(* find_pod_for_service: the first running pod of the selector.            *)
PodsOf(net, ns, svc) ==
  SelectSeq(Items(net.pods, ns), LAMBDA p : svc.selector # << >> /\ svc.selector[1] \subseteq p.labels)

RunningPod(net, ns, svc) ==
  LET running == SelectSeq(PodsOf(net, ns, svc), LAMBDA p : p.phase = <<"Running">>)
  IN  IF running = << >> THEN << >> ELSE << Head(running).name >>

(* forward_service_port and open_port_forward under run_with_budget: the   *)
(* guard of a forward, none when it fails or is too slow.  The task behind *)
(* a guard accepts connections until the guard is dropped.                 *)
ForwardService(net, ns, svc, port) ==
  IF RunningPod(net, ns, svc) = << >> \/ port \in net.slow THEN << >>
  ELSE << [pod |-> RunningPod(net, ns, svc)[1], port |-> port] >>

PortNumbers(svc) == {svc.ports[i].port : i \in DOMAIN svc.ports}

(* forward_by_port: the first named service with the port, or none; if its *)
(* pod does not run, no other is tried.                                    *)
ForwardByPort(net, ns, port) ==
  LET having == SelectSeq(Items(net.services, ns), LAMBDA s : s.name # << >> /\ port \in PortNumbers(s))
  IN  IF ~net.lists \/ having = << >> THEN << >> ELSE ForwardService(net, ns, Head(having), port)

Unreached == [ok |-> FALSE]

Reached(host, port, guards) == [ok |-> TRUE, host |-> host, port |-> port, guards |-> guards]

(* temporal_address and loki_url *)
Address(net, mode, host, ns, port) ==
  LET forward == ForwardByPort(net, ns, port)
  IN  CASE mode = "in-cluster" -> Reached(<<host, ns>>, port, << >>)
        [] mode = "port-forward" /\ forward # << >> -> Reached(<<"localhost">>, port, forward)
        [] OTHER -> Unreached

(* postgres_url: a URL that cannot be rewritten fails after the forward is *)
(* open, and takes its guard with it.                                      *)
PostgresUrl(net, mode, base, ns) ==
  LET at  == Address(net, mode, "postgresql", ns, PostgresPort)
      url == ReplacePgHost(base, at.host, PostgresPort)
  IN  IF ~at.ok THEN Unreached
      ELSE IF url = << >> THEN Unreached
           ELSE [ok |-> TRUE, url |-> url[1], guards |-> at.guards]

-----------------------------------------------------------------------------
WebNames == {"http", "http-metrics", "web"}   \* names with "http" or "web" in them

(* http_port_from: never a port or a name with a client of its own. *)
HttpPort(p) ==
  /\ p.port \notin {PostgresPort, TemporalPort, LokiPort, 1080, 1081}
  /\ p.name \notin {<<"grpc">>, <<"proxy">>}
  /\ p.port \in {80, 443, 8080, 8443} \/ (p.name # << >> /\ p.name[1] \in WebNames)

HttpPorts(s) == SelectSeq(s.ports, HttpPort)

(* discover_http_services: the first such port of each named service. *)
HttpServices(net, ns) ==
  LET listed  == Items(net.services, ns)
      serving == Chosen(listed, {i \in DOMAIN listed :
                   listed[i].name # << >> /\ ~listed[i].headless /\ HttpPorts(listed[i]) # << >>})
  IN  [i \in DOMAIN serving |-> [svc |-> serving[i], port |-> HttpPorts(serving[i])[1].port]]

(* http_endpoints: a service that cannot be forwarded is left out with a   *)
(* warning.  Only a refused list is an error.                              *)
HttpEndpoints(net, mode, ns) ==
  LET Guard(s)  == ForwardService(net, ns, s.svc, s.port)
      found     == HttpServices(net, ns)
      forwarded == Chosen(found, {i \in DOMAIN found : mode = "in-cluster" \/ Guard(found[i]) # << >>})
  IN  IF ~net.lists THEN Unreached
      ELSE [ok        |-> TRUE,
            endpoints |-> [i \in DOMAIN forwarded |-> forwarded[i].svc.name[1]],
            guards    |-> IF mode = "in-cluster" THEN << >>
                          ELSE [i \in DOMAIN forwarded |-> Guard(forwarded[i])[1]]]

-----------------------------------------------------------------------------
(* map_pod and map_event of k8s.rs.  containers is an optional sequence;   *)
(* restart counts below zero count as zero.                                *)
RawPod(p) ==
  LET cs == IF p.containers = << >> THEN << >> ELSE p.containers[1]
  IN  [name |-> p.name, phase |-> p.phase, succeeded |-> p.phase = <<"Succeeded">>,
       ready        |-> cs # << >> /\ \A i \in DOMAIN cs : cs[i].ready,
       restartCount |-> FoldLeft(LAMBDA sum, c : sum + c.restarts, 0, cs),
       crashLoop    |-> \E i \in DOMAIN cs : cs[i].waiting = "CrashLoopBackOff"]

RawEvent(e) ==
  [ts |-> IF e.last # << >> THEN e.last ELSE e.first, type |-> e.type, reason |-> e.reason,
   message |-> e.message, object |-> e.object]

(* An answer of a client: what it lists, or nothing at all. *)
Answer(ok, items) == IF ok THEN << items >> ELSE << >>

ListPods(net, ns) ==
  LET pods == Items(net.pods, ns) IN Answer(net.lists, [i \in DOMAIN pods |-> RawPod(pods[i])])

ListEvents(net, ns) ==
  LET events == Items(net.events, ns) IN Answer(net.lists, [i \in DOMAIN events |-> RawEvent(events[i])])

-----------------------------------------------------------------------------
(* What the API server answers has the shape of its lists: everything is   *)
(* listed in an order, and a time is a number of seconds, if it is there.  *)
IsList(x)     == x \in Seq(Range(x))
IsMoment(at)  == at = << >> \/ at[1] \in Int

NetShaped(net) ==
  /\ IsFiniteSet(DOMAIN net.pods)
  /\ \A ns \in DOMAIN net.pods : IsList(net.pods[ns])
  /\ \A ns \in DOMAIN net.services : IsList(net.services[ns])
  /\ \A ns \in DOMAIN net.events :
       /\ IsList(net.events[ns])
       /\ \A i \in DOMAIN net.events[ns] :
            IsMoment(net.events[ns][i].last) /\ IsMoment(net.events[ns][i].first)
=============================================================================
