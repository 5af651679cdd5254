---------------------------- MODULE LayerFanOut ----------------------------
(***************************************************************************)
(* One collection round: data::collect of nico ops over run_streaming of   *)
(* nico doctor.  A spawned task first fills the pod-log cache, pod after   *)
(* pod, then polls every layer concurrently under one timeout each and     *)
(* sends each result as it is ready; the caller collects the results by    *)
(* name until the channel closes and lists them in layer order.            *)
(*                                                                         *)
(* The task polls its layers only between sends, so while it waits for     *)
(* room in the channel no layer's timeout can fire.                        *)
(***************************************************************************)
EXTENDS Naturals, FiniteSets, SequencesExt, Sorting

CONSTANTS
  Order,         \* the layers, in LAYER_ORDER
  Pods,          \* the pods of the namespace
  MayPanic,      \* whether a layer may panic
  Timeout,       \* opts.timeout, in time units
  CallTime,      \* bound: a Kubernetes call answers within this time
  MaxElapsed,    \* bound: the round's clock saturates here
  GlobalTimeout, \* the wall-clock limit of a whole run (ADR-0006)
  NoLayer,
  Pending        \* data::collect has not returned

Layers   == ToSet(Order)
Statuses == {"own", "Unknown"}   \* whatever the layer answers, or its timeout's Unknown

ASSUME FanOutAssumption ==
  /\ Order \in Seq(Layers) /\ IsInjective(Order)
  /\ NoLayer \notin Layers
  /\ MayPanic \in BOOLEAN
  /\ Timeout \in Nat \ {0} /\ CallTime \in Nat /\ MaxElapsed \in Nat /\ GlobalTimeout \in Nat

VARIABLES
  phase,     \* of the spawned task: listing, logs, fanout, ended, panicked
  listed,    \* the pods list_pods named, without those that succeeded
  cache,     \* RunOpts.pod_logs: a pod's lines, "empty", or "absent"
  callAge,   \* age of the Kubernetes call in flight
  layer,     \* idle, running, reported or dropped
  verdict,   \* the status a layer reported, "none" before
  holding,   \* the layer whose result is being sent
  fanAge,    \* time since the fan-out began
  elapsed,   \* time since the round began
  chan,      \* results in the channel: layer names
  byName,    \* names the caller has received
  snaps      \* what data::collect returned, Pending before

taskVars == <<phase, listed, cache, callAge, layer, verdict, holding, fanAge>>
vars     == <<taskVars, elapsed, chan, byName, snaps>>

Running == {l \in Layers : layer[l] = "running"}

Unfetched == {p \in listed : cache[p] = "absent"}

Cap_One == 1

(* layers.len().max(1) *)
Cap == IF Layers = {} THEN 1 ELSE Cardinality(Layers)

-----------------------------------------------------------------------------
(* Without a LogCollectorStage there is nothing to list or to fetch. *)
Init ==
  /\ phase \in {"listing", "logs"}
  /\ listed = {}
  /\ cache = [p \in Pods |-> "absent"]
  /\ callAge = 0
  /\ layer = [l \in Layers |-> "idle"]
  /\ verdict = [l \in Layers |-> "none"]
  /\ holding = NoLayer
  /\ fanAge = 0 /\ elapsed = 0
  /\ chan = << >> /\ byName = {} /\ snaps = Pending

(* list_pods answers with the pods that have not succeeded, or fails. *)
ListPods ==
  /\ phase = "listing"
  /\ phase' = "logs" /\ callAge' = 0
  /\ listed' \in SUBSET Pods
  /\ UNCHANGED <<cache, layer, verdict, holding, fanAge, elapsed, chan, byName, snaps>>

(* pod_logs of one pod; a failed call leaves an empty entry. *)
PodLogs(p, answer) ==
  /\ phase = "logs" /\ p \in Unfetched
  /\ callAge' = 0
  /\ cache' = [cache EXCEPT ![p] = answer]
  /\ UNCHANGED <<phase, listed, layer, verdict, holding, fanAge, elapsed, chan, byName, snaps>>

FanOut_BesideCollector ==
  /\ phase = "logs"
  /\ phase' = "fanout"
  /\ layer' = [l \in Layers |-> "running"]
  /\ UNCHANGED <<listed, cache, callAge, verdict, holding, fanAge, elapsed, chan, byName, snaps>>

FanOut ==
  /\ phase = "logs" /\ Unfetched = {}
  /\ phase' = "fanout"
  /\ layer' = [l \in Layers |-> "running"]
  /\ UNCHANGED <<listed, cache, callAge, verdict, holding, fanAge, elapsed, chan, byName, snaps>>

(* in_flight.next() yields layer l's result. *)
Report(l, status) ==
  /\ phase = "fanout" /\ holding = NoLayer /\ layer[l] = "running"
  /\ layer' = [layer EXCEPT ![l] = "reported"]
  /\ verdict' = [verdict EXCEPT ![l] = status]
  /\ holding' = l
  /\ UNCHANGED <<phase, listed, cache, callAge, fanAge, elapsed, chan, byName, snaps>>

LayerReturns(l) == Report(l, "own")

LayerTimesOut(l) == fanAge >= Timeout /\ Report(l, "Unknown")

(* A layer panics: the task unwinds with every future still in flight.  *)
LayerPanics(l) ==
  /\ MayPanic
  /\ phase = "fanout" /\ holding = NoLayer /\ layer[l] = "running"
  /\ phase' = "panicked"
  /\ layer' = [k \in Layers |-> IF layer[k] = "running" THEN "dropped" ELSE layer[k]]
  /\ UNCHANGED <<listed, cache, callAge, verdict, holding, fanAge, elapsed, chan, byName, snaps>>

SendResult_Twice ==
  /\ holding # NoLayer /\ Len(chan) < Cap
  /\ chan' = Append(chan, holding)
  /\ holding' \in {holding, NoLayer}
  /\ UNCHANGED <<phase, listed, cache, callAge, layer, verdict, fanAge, elapsed, byName, snaps>>

SendResult ==
  /\ holding # NoLayer /\ Len(chan) < Cap
  /\ chan' = Append(chan, holding)
  /\ holding' = NoLayer
  /\ UNCHANGED <<phase, listed, cache, callAge, layer, verdict, fanAge, elapsed, byName, snaps>>

(* Every future has been yielded: the task returns and drops its sender. *)
EndStream ==
  /\ phase = "fanout" /\ holding = NoLayer /\ Running = {}
  /\ phase' = "ended"
  /\ UNCHANGED <<listed, cache, callAge, layer, verdict, holding, fanAge, elapsed, chan, byName,
                 snaps>>

Receive ==
  /\ chan # << >> /\ snaps = Pending
  /\ chan' = Tail(chan)
  /\ byName' = byName \cup {Head(chan)}
  /\ UNCHANGED <<taskVars, elapsed, snaps>>

Join_AwaitsAll ==
  /\ phase \in {"ended", "panicked"} /\ chan = << >> /\ snaps = Pending
  /\ byName = Layers
  /\ snaps' = Order
  /\ UNCHANGED <<taskVars, elapsed, chan, byName>>

Join_MapOrder ==
  /\ phase \in {"ended", "panicked"} /\ chan = << >> /\ snaps = Pending
  /\ snaps' \in {s \in [1 .. Cardinality(byName) -> byName] : IsInjective(s)}
  /\ UNCHANGED <<taskVars, elapsed, chan, byName>>

(* The layers among names, in LAYER_ORDER. *)
InLayerOrder(names) == Chosen(Order, {i \in DOMAIN Order : Order[i] \in names})

(* The channel is closed and empty; the results are listed in layer order  *)
(* and the task's outcome, a panic included, is ignored.                   *)
Join ==
  /\ phase \in {"ended", "panicked"} /\ chan = << >> /\ snaps = Pending
  /\ snaps' = InLayerOrder(byName)
  /\ UNCHANGED <<taskVars, elapsed, chan, byName>>

-----------------------------------------------------------------------------
CallPending == phase = "listing" \/ (phase = "logs" /\ Unfetched # {})

(* A step of the task that needs nothing but the task to be polled; time   *)
(* does not pass while one is possible.                                    *)
MustAct ==
  \/ CallPending /\ callAge >= CallTime
  \/ phase = "logs" /\ Unfetched = {}
  \/ phase = "fanout" /\ holding = NoLayer /\ (Running = {} \/ fanAge >= Timeout)
  \/ holding # NoLayer /\ Len(chan) < Cap

(* One time unit passes.  The caller may be slow: it is not urgent. *)
TimePasses ==
  /\ snaps = Pending
  /\ ~MustAct
  /\ elapsed' = IF elapsed < MaxElapsed THEN elapsed + 1 ELSE elapsed
  /\ callAge' = IF CallPending THEN callAge + 1 ELSE callAge
  /\ fanAge' = IF phase = "fanout" /\ fanAge <= Timeout THEN fanAge + 1 ELSE fanAge
  /\ UNCHANGED <<phase, listed, cache, layer, verdict, holding, chan, byName, snaps>>

Task == \/ ListPods \/ \E p \in Pods, answer \in {"lines", "empty"} : PodLogs(p, answer)
        \/ FanOut \/ SendResult \/ EndStream
        \/ \E l \in Layers : LayerTimesOut(l)

Next == \/ Task \/ Receive \/ Join \/ TimePasses
        \/ \E l \in Layers : LayerReturns(l) \/ LayerPanics(l)

(* The runtime polls both tasks and time passes.  A Kubernetes call        *)
(* answers; a layer need not, its timeout does.                            *)
Fairness == WF_vars(Task) /\ WF_vars(Receive) /\ WF_vars(Join) /\ WF_vars(TimePasses)

Spec == Init /\ [][Next]_vars
FairSpec == Spec /\ Fairness

-----------------------------------------------------------------------------
(* No result of run_streaming is lost or doubled: a layer has a verdict    *)
(* exactly when it has reported, and that result is in one place: being    *)
(* sent, in the channel, or with the caller.                               *)
ResultsConserved ==
  /\ \A l \in Layers : verdict[l] \in Statuses <=> layer[l] = "reported"
  /\ \A l \in Layers : layer[l] = "reported" <=>
       Cardinality({i \in 1 .. Len(chan) : chan[i] = l})
         + (IF holding = l THEN 1 ELSE 0) + (IF l \in byName THEN 1 ELSE 0) = 1

(* When the layers start, the log cache of log_collector::collect has an   *)
(* entry for every listed pod and for no other: a failed fetch is not      *)
(* mistaken for a pod never seen.                                          *)
CacheTellsPodsApart ==
  phase \in {"fanout", "ended", "panicked"} => \A p \in Pods : cache[p] # "absent" <=> p \in listed

(* What collect returns is the layer order, without a gap unless a layer   *)
(* panicked, whatever order the results arrived in.                        *)
SnapshotsInLayerOrder ==
  snaps # Pending =>
    /\ phase = "ended" => snaps = Order
    /\ \A i, j \in 1 .. Len(snaps) : i < j =>
         \E m, n \in 1 .. Len(Order) : m < n /\ snaps[i] = Order[m] /\ snaps[j] = Order[n]
    /\ ToSet(snaps) = {l \in Layers : layer[l] = "reported"}

(* All layers together take one timeout, not one each, and a caller that   *)
(* is slow to receive does not stretch it.                                 *)
FanOutWithinOneTimeout == phase = "fanout" => fanAge <= Timeout

(* A round ends even if every layer hangs or one panics. *)
CollectReturns == <>(snaps # Pending)

(* "The whole tool run is wrapped in a single tokio::time::timeout         *)
(* (default 30 seconds)" (ADR-0006:30): nothing is still pending then.     *)
WithinGlobalTimeout == phase \in {"listing", "logs", "fanout"} => elapsed <= GlobalTimeout
=============================================================================
