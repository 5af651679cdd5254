-------------------------- MODULE LayerFanOutProofs --------------------------
(***************************************************************************)
(* Theorems about one collection round, for every set of layers and pods   *)
(* and every timeout.                                                      *)
(***************************************************************************)
EXTENDS LayerFanOut, SortingProofs

USE FanOutAssumption

Phases == {"listing", "logs", "fanout", "ended", "panicked"}
InChan(l) == \E i \in 1 .. Len(chan) : chan[i] = l

(* The cache has entries for listed pods only, and for all of them once    *)
(* the layers run.                                                         *)
CacheInv ==
  /\ phase \in Phases
  /\ listed \subseteq Pods /\ cache \in [Pods -> {"lines", "empty", "absent"}]
  /\ \A p \in Pods : cache[p] # "absent" => p \in listed
  /\ phase = "listing" => listed = {}
  /\ phase \in {"fanout", "ended", "panicked"} => Unfetched = {}

(* A layer that has reported is in exactly one of three places: its result *)
(* is being sent, in the channel, once, or with the caller.                *)
ResultInv ==
  /\ layer \in [Layers -> {"idle", "running", "reported", "dropped"}]
  /\ verdict \in [Layers -> Statuses \cup {"none"}]
  /\ \A l \in Layers : verdict[l] \in Statuses <=> layer[l] = "reported"
  /\ chan \in Seq(Layers)
  /\ \A i, j \in 1 .. Len(chan) : chan[i] = chan[j] => i = j
  /\ holding \in Layers \cup {NoLayer} /\ byName \subseteq Layers
  /\ ~InChan(holding) /\ holding \notin byName
  /\ \A l \in byName : ~InChan(l)
  /\ \A l \in Layers : layer[l] = "reported" <=> l = holding \/ l \in byName \/ InChan(l)
  /\ phase \in {"listing", "logs"} => \A l \in Layers : layer[l] = "idle"

-----------------------------------------------------------------------------
(* Within one collection round, from the moment the layers run, the log    *)
(* cache has an entry for exactly the pods that were listed: a fetch that  *)
(* failed has an empty one, and is not taken for an unknown pod            *)
(* (log_collector::collect comes before the fan-out).  Nothing is kept     *)
(* from one round to the next.                                             *)
THEOREM CacheIsComplete == Spec => []CacheTellsPodsApart
<1>1. Init => CacheInv
  BY DEF Init, CacheInv, Phases, Unfetched
<1>2. CacheInv /\ [Next]_vars => CacheInv'
  <2> SUFFICES ASSUME CacheInv, [Next]_vars PROVE CacheInv'
    OBVIOUS
  <2>1. CASE ListPods
    BY <2>1 DEF ListPods, CacheInv, Phases, Unfetched
  <2>2. ASSUME NEW p \in Pods, NEW answer \in {"lines", "empty"}, PodLogs(p, answer) PROVE CacheInv'
    BY <2>2 DEF PodLogs, CacheInv, Phases, Unfetched
  <2>3. CASE FanOut
    BY <2>3 DEF FanOut, CacheInv, Phases, Unfetched
  <2>4. ASSUME NEW l \in Layers, LayerReturns(l) \/ LayerTimesOut(l) PROVE CacheInv'
    BY <2>4 DEF LayerReturns, LayerTimesOut, Report, CacheInv, Unfetched
  <2>5. ASSUME NEW l \in Layers, LayerPanics(l) PROVE CacheInv'
    BY <2>5 DEF LayerPanics, CacheInv, Phases, Unfetched
  <2>6. CASE EndStream
    BY <2>6 DEF EndStream, CacheInv, Phases, Unfetched
  <2>7. CASE SendResult \/ Receive \/ Join \/ TimePasses \/ UNCHANGED vars
    BY <2>7 DEF SendResult, Receive, Join, TimePasses, vars, taskVars, CacheInv, Unfetched
  <2> QED
    BY <2>1, <2>2, <2>3, <2>4, <2>5, <2>6, <2>7 DEF Next, Task
<1>3. CacheInv => CacheTellsPodsApart
  BY DEF CacheInv, CacheTellsPodsApart, Unfetched
<1> QED
  BY <1>1, <1>2, <1>3, PTL DEF Spec

-----------------------------------------------------------------------------
(* A layer starts to report: its result is new everywhere. *)
LEMMA ReportKeeps ==
  ASSUME ResultInv, NEW l \in Layers, NEW status \in Statuses, Report(l, status)
  PROVE  ResultInv'
<1> USE DEF Report
<1>1. l \notin byName /\ ~InChan(l) /\ l # NoLayer
  BY DEF ResultInv
<1>2. \A k : InChan(k)' <=> InChan(k)
  BY DEF InChan
<1>3. \A k \in Layers : /\ layer'[k] = IF k = l THEN "reported" ELSE layer[k]
                        /\ verdict'[k] = IF k = l THEN status ELSE verdict[k]
  BY DEF ResultInv
<1> QED
  BY <1>1, <1>2, <1>3 DEF ResultInv, Statuses

(* Sending moves a result from the task to the channel. *)
LEMMA SendKeeps == ASSUME ResultInv, SendResult PROVE ResultInv'
<1> USE DEF SendResult
<1>1. holding \in Layers /\ holding # NoLayer /\ chan \in Seq(Layers)
  BY DEF ResultInv
<1>2. /\ chan' \in Seq(Layers) /\ Len(chan') = Len(chan) + 1
      /\ \A i \in 1 .. Len(chan') : chan'[i] = IF i <= Len(chan) THEN chan[i] ELSE holding
  BY <1>1
<1>3. Len(chan) \in Nat
  BY <1>1
<1>4. \A k : InChan(k)' <=> InChan(k) \/ k = holding
  BY <1>2, <1>3 DEF InChan
<1>5. \A i, j \in 1 .. Len(chan') : chan'[i] = chan'[j] => i = j
  BY <1>2, <1>3 DEF ResultInv, InChan
<1>6. ~InChan(NoLayer) /\ NoLayer \notin byName
  BY <1>1 DEF ResultInv, InChan
<1> QED
  BY <1>1, <1>2, <1>4, <1>5, <1>6 DEF ResultInv

(* Receiving moves a result from the channel to the caller. *)
LEMMA ReceiveKeeps == ASSUME ResultInv, Receive PROVE ResultInv'
<1> USE DEF Receive, taskVars
<1>1. chan \in Seq(Layers) /\ chan # << >> /\ Len(chan) \in Nat \ {0}
  BY DEF ResultInv
<1>2. /\ chan' \in Seq(Layers) /\ Len(chan') = Len(chan) - 1
      /\ \A i \in 1 .. Len(chan') : chan'[i] = chan[i + 1]
  BY <1>1
<1>3. Head(chan) = chan[1] /\ Head(chan) \in Layers
  BY <1>1
<1>4. \A k : InChan(k) <=> InChan(k)' \/ k = Head(chan)
  <2>1. ASSUME NEW k, InChan(k) PROVE InChan(k)' \/ k = Head(chan)
    <3>1. PICK i \in 1 .. Len(chan) : chan[i] = k
      BY <2>1 DEF InChan
    <3>2. CASE i = 1
      BY <3>1, <3>2, <1>3
    <3>3. CASE i # 1
      <4>1. i - 1 \in 1 .. Len(chan') /\ chan'[i - 1] = k
        BY <3>1, <3>3, <1>1, <1>2
      <4> QED
        BY <4>1 DEF InChan
    <3> QED
      BY <3>2, <3>3
  <2>2. ASSUME NEW k, InChan(k)' PROVE InChan(k)
    BY <2>2, <1>1, <1>2 DEF InChan
  <2>3. InChan(Head(chan))
    BY <1>1, <1>3 DEF InChan
  <2> QED
    BY <2>1, <2>2, <2>3
<1>5. \A k : k = Head(chan) => ~InChan(k)'
  BY <1>1, <1>2, <1>3 DEF ResultInv, InChan
<1>6. \A i, j \in 1 .. Len(chan') : chan'[i] = chan'[j] => i = j
  BY <1>1, <1>2 DEF ResultInv
<1>7. \A k \in byName' : ~InChan(k)'
  BY <1>4, <1>5 DEF ResultInv
<1> QED
  BY <1>2, <1>3, <1>4, <1>5, <1>6, <1>7 DEF ResultInv

LEMMA ResultInvariant == Spec => []ResultInv
<1>1. Init => ResultInv
  BY DEF Init, ResultInv, InChan, Statuses
<1>2. ResultInv /\ [Next]_vars => ResultInv'
  <2> SUFFICES ASSUME ResultInv, [Next]_vars PROVE ResultInv'
    OBVIOUS
  <2>1. ASSUME NEW l \in Layers, LayerReturns(l) \/ LayerTimesOut(l) PROVE ResultInv'
    BY <2>1, ReportKeeps DEF LayerReturns, LayerTimesOut, Statuses
  <2>2. CASE SendResult
    BY <2>2, SendKeeps
  <2>3. CASE Receive
    BY <2>3, ReceiveKeeps
  <2>4. CASE FanOut
    BY <2>4 DEF FanOut, ResultInv, InChan
  <2>5. ASSUME NEW l \in Layers, LayerPanics(l) PROVE ResultInv'
    BY <2>5 DEF LayerPanics, ResultInv, InChan
  <2>6. CASE ListPods \/ \E p \in Pods, answer \in {"lines", "empty"} : PodLogs(p, answer)
    BY <2>6 DEF ListPods, PodLogs, ResultInv, InChan
  <2>7. CASE EndStream \/ Join \/ TimePasses \/ UNCHANGED vars
    BY <2>7 DEF EndStream, Join, TimePasses, vars, taskVars, ResultInv, InChan
  <2> QED
    BY <2>1, <2>2, <2>3, <2>4, <2>5, <2>6, <2>7 DEF Next, Task
<1> QED
  BY <1>1, <1>2, PTL DEF Spec

(* No result of run_streaming is lost or doubled, however results, slow    *)
(* callers and panics interleave.                                          *)
THEOREM ResultsAreConserved == Spec => []ResultsConserved
<1>1. ResultInv => ResultsConserved
  <2> SUFFICES ASSUME ResultInv, NEW l \in Layers
               PROVE  layer[l] = "reported" <=>
                        Cardinality({i \in 1 .. Len(chan) : chan[i] = l})
                          + (IF holding = l THEN 1 ELSE 0) + (IF l \in byName THEN 1 ELSE 0) = 1
    BY DEF ResultInv, ResultsConserved
  <2> DEFINE Here == {i \in 1 .. Len(chan) : chan[i] = l}
  <2>1. Cardinality(Here) = IF InChan(l) THEN 1 ELSE 0
    <3>1. CASE InChan(l)
      <4>1. PICK i \in 1 .. Len(chan) : chan[i] = l
        BY <3>1 DEF InChan
      <4>2. Here = {i}
        BY <4>1 DEF ResultInv
      <4> QED
        BY <3>1, <4>2, FS_Singleton
    <3>2. CASE ~InChan(l)
      <4>1. Here = {}
        BY <3>2 DEF InChan
      <4> QED
        BY <3>2, <4>1, FS_EmptySet
    <3> QED
      BY <3>1, <3>2
  <2>2. ~(InChan(l) /\ holding = l) /\ ~(InChan(l) /\ l \in byName) /\ ~(holding = l /\ l \in byName)
    BY DEF ResultInv
  <2>3. layer[l] = "reported" <=> l = holding \/ l \in byName \/ InChan(l)
    BY DEF ResultInv
  <2> HIDE DEF Here
  <2> QED
    BY <2>1, <2>2, <2>3 DEF Here
<1> QED
  BY <1>1, ResultInvariant, PTL

-----------------------------------------------------------------------------
(* There are finitely many layers, for they stand in a sequence. *)
LEMMA LayersFinite == IsFiniteSet(Layers)
<1>1. Order \in [1 .. Len(Order) -> Layers] /\ Len(Order) \in Nat
  OBVIOUS
<1>2. Order \in Surjection(1 .. Len(Order), Layers)
  BY <1>1 DEF Surjection, Layers, ToSet
<1> QED
  BY <1>1, <1>2, FS_Interval, FS_Surjection

(* A task that holds a result finds room in the channel: what is in it     *)
(* comes from the other layers, each of which reports once.                *)
LEMMA RoomToSend == ASSUME ResultInv, holding # NoLayer PROVE Len(chan) < Cap
<1> DEFINE n == Len(chan)
           f == [i \in 1 .. n + 1 |-> IF i <= n THEN chan[i] ELSE holding]
<1>1. holding \in Layers /\ chan \in Seq(Layers) /\ n \in Nat
  BY DEF ResultInv
<1>2. f \in Injection(1 .. n + 1, Layers)
  <2>1. f \in [1 .. n + 1 -> Layers]
    BY <1>1
  <2>2. \A i, j \in 1 .. n + 1 : f[i] = f[j] => i = j
    BY <1>1 DEF ResultInv, InChan
  <2> QED
    BY <2>1, <2>2 DEF Injection, IsInjective
<1>3. Cardinality(1 .. n + 1) <= Cardinality(Layers) /\ Cardinality(1 .. n + 1) = n + 1
  <2> HIDE DEF f
  <2> QED
    BY <1>1, <1>2, LayersFinite, FS_Injection, FS_Interval
<1>4. Cardinality(Layers) \in Nat /\ Cap = Cardinality(Layers)
  BY <1>1, LayersFinite, FS_CardinalityType DEF Cap
<1> QED
  BY <1>1, <1>3, <1>4

ClockInv ==
  /\ fanAge \in Nat
  /\ phase \in {"listing", "logs"} => fanAge = 0
  /\ phase = "fanout" => fanAge <= Timeout

(* All layers together take one timeout: the one thing that could keep a   *)
(* due timeout from firing is a task that waits in send, and it never      *)
(* waits there, since the channel has a slot for every layer.              *)
THEOREM OneTimeoutForAll == Spec => []FanOutWithinOneTimeout
<1>1. Init => ClockInv
  BY DEF Init, ClockInv
<1>2. ResultInv /\ ClockInv /\ [Next]_vars => ClockInv'
  <2> SUFFICES ASSUME ResultInv, ClockInv, [Next]_vars PROVE ClockInv'
    OBVIOUS
  <2>1. CASE TimePasses
    <3>1. CASE phase = "fanout"
      <4>1. fanAge < Timeout
        BY <2>1, <3>1, RoomToSend DEF TimePasses, MustAct, ClockInv
      <4> QED
        BY <2>1, <3>1, <4>1 DEF TimePasses, ClockInv
    <3>2. CASE phase # "fanout"
      BY <2>1, <3>2 DEF TimePasses, ClockInv
    <3> QED
      BY <3>1, <3>2
  <2>2. CASE ListPods \/ FanOut \/ EndStream
    BY <2>2 DEF ListPods, FanOut, EndStream, ClockInv
  <2>3. ASSUME NEW l \in Layers, LayerReturns(l) \/ LayerTimesOut(l) \/ LayerPanics(l) PROVE ClockInv'
    BY <2>3 DEF LayerReturns, LayerTimesOut, LayerPanics, Report, ClockInv
  <2>4. CASE SendResult \/ \E p \in Pods, answer \in {"lines", "empty"} : PodLogs(p, answer)
    BY <2>4 DEF SendResult, PodLogs, ClockInv
  <2>5. CASE Receive \/ Join \/ UNCHANGED vars
    BY <2>5 DEF Receive, Join, vars, taskVars, ClockInv
  <2> QED
    BY <2>1, <2>2, <2>3, <2>4, <2>5 DEF Next, Task
<1>3. ClockInv => FanOutWithinOneTimeout
  BY DEF ClockInv, FanOutWithinOneTimeout
<1> QED
  BY <1>1, <1>2, <1>3, ResultInvariant, PTL DEF Spec

-----------------------------------------------------------------------------
(* InLayerOrder lists the names it is given, each once, in LAYER_ORDER,    *)
(* and all of them as LAYER_ORDER does.                                    *)
LEMMA InLayerOrderIs ==
  ASSUME NEW names \in SUBSET Layers
  PROVE  LET s == InLayerOrder(names)
         IN  /\ DOMAIN s = 1 .. Len(s) /\ Range(s) = names
             /\ \A i, j \in 1 .. Len(s) : i < j =>
                  \E m, n \in 1 .. Len(Order) : m < n /\ s[i] = Order[m] /\ s[j] = Order[n]
             /\ names = Layers => s = Order
<1> DEFINE kept == {i \in DOMAIN Order : Order[i] \in names}
           s    == InLayerOrder(names)
<1>1. DOMAIN Order = 1 .. Len(Order) /\ Order \in Seq(Layers) /\ \A i \in DOMAIN Order : Order[i] \in Layers
  BY DEF Layers
<1>2. kept \in SUBSET (DOMAIN Order) /\ s = Chosen(Order, kept)
  BY DEF InLayerOrder
<1>3. \A l \in names : \E i \in kept : Order[i] = l
  BY DEF Layers, ToSet
<1>4. \A i \in kept : Order[i] \in names
  OBVIOUS
<1>5. names = Layers => kept = DOMAIN Order
  BY <1>1
<1> HIDE DEF kept, s
<1>6. /\ s \in Seq(Layers) /\ Range(s) = {Order[i] : i \in kept}
      /\ \A k, l \in DOMAIN s : k < l => \E i, j \in kept : i < j /\ s[k] = Order[i] /\ s[l] = Order[j]
      /\ kept = DOMAIN Order => s = Order
  BY <1>1, <1>2, ChosenIs
<1>7. DOMAIN s = 1 .. Len(s)
  BY <1>6
<1>8. Range(s) = names
  BY <1>3, <1>4, <1>6
<1>9. \A i, j \in 1 .. Len(s) : i < j =>
        \E m, n \in 1 .. Len(Order) : m < n /\ s[i] = Order[m] /\ s[j] = Order[n]
  BY <1>1, <1>2, <1>6, <1>7
<1> QED
  BY <1>5, <1>6, <1>7, <1>8, <1>9 DEF s

(* Once the stream has ended nothing more is on its way to the caller, and *)
(* unless a layer panicked every layer has reported; what collect returns  *)
(* lists what the caller received.                                         *)
JoinInv ==
  /\ phase = "fanout" => \A l \in Layers : layer[l] \in {"running", "reported"}
  /\ phase = "ended" => \A l \in Layers : layer[l] = "reported"
  /\ phase \in {"ended", "panicked"} => holding = NoLayer
  /\ snaps # Pending =>
       phase \in {"ended", "panicked"} /\ chan = << >> /\ snaps = InLayerOrder(byName)

(* What collect returns is the layer order, whatever order the results     *)
(* arrived in and however slow the caller was; it has a gap only where a   *)
(* panic took a layer's result.                                            *)
THEOREM SnapshotsAreOrdered == Spec => []SnapshotsInLayerOrder
<1>1. Init => JoinInv
  BY DEF Init, JoinInv
<1>2. ResultInv /\ JoinInv /\ [Next]_vars => JoinInv'
  <2> SUFFICES ASSUME ResultInv, JoinInv, [Next]_vars PROVE JoinInv'
    OBVIOUS
  <2>1. ASSUME NEW l \in Layers, LayerReturns(l) \/ LayerTimesOut(l) PROVE JoinInv'
    BY <2>1 DEF LayerReturns, LayerTimesOut, Report, JoinInv, ResultInv
  <2>2. CASE SendResult
    BY <2>2 DEF SendResult, JoinInv
  <2>3. CASE Receive
    BY <2>3 DEF Receive, taskVars, JoinInv
  <2>4. CASE FanOut
    BY <2>4 DEF FanOut, JoinInv
  <2>5. ASSUME NEW l \in Layers, LayerPanics(l) PROVE JoinInv'
    BY <2>5 DEF LayerPanics, JoinInv
  <2>6. CASE ListPods \/ \E p \in Pods, answer \in {"lines", "empty"} : PodLogs(p, answer)
    BY <2>6 DEF ListPods, PodLogs, JoinInv
  <2>7. CASE EndStream
    BY <2>7 DEF EndStream, JoinInv, Running
  <2>8. CASE Join
    BY <2>8 DEF Join, taskVars, JoinInv
  <2>9. CASE TimePasses \/ UNCHANGED vars
    BY <2>9 DEF TimePasses, vars, taskVars, JoinInv
  <2> QED
    BY <2>1, <2>2, <2>3, <2>4, <2>5, <2>6, <2>7, <2>8, <2>9 DEF Next, Task
<1>3. ResultInv /\ JoinInv => SnapshotsInLayerOrder
  <2> SUFFICES ASSUME ResultInv, JoinInv, snaps # Pending
               PROVE  /\ phase = "ended" => snaps = Order
                      /\ \A i, j \in 1 .. Len(snaps) : i < j =>
                           \E m, n \in 1 .. Len(Order) : m < n /\ snaps[i] = Order[m] /\ snaps[j] = Order[n]
                      /\ ToSet(snaps) = {l \in Layers : layer[l] = "reported"}
    BY DEF SnapshotsInLayerOrder
  <2>1. holding = NoLayer /\ chan = << >> /\ snaps = InLayerOrder(byName) /\ byName \in SUBSET Layers
    BY DEF JoinInv, ResultInv
  <2>2. \A l \in Layers : l # NoLayer /\ ~InChan(l)
    BY <2>1 DEF InChan
  <2>3. byName = {l \in Layers : layer[l] = "reported"}
    BY <2>1, <2>2 DEF ResultInv
  <2>4. phase = "ended" => byName = Layers
    BY <2>3 DEF JoinInv
  <2> DEFINE s == InLayerOrder(byName)
  <2>5. /\ DOMAIN s = 1 .. Len(s) /\ Range(s) = byName
        /\ \A i, j \in 1 .. Len(s) : i < j =>
             \E m, n \in 1 .. Len(Order) : m < n /\ s[i] = Order[m] /\ s[j] = Order[n]
        /\ byName = Layers => s = Order
    BY <2>1, InLayerOrderIs
  <2> HIDE DEF s
  <2>6. snaps = s
    BY <2>1 DEF s
  <2>7. /\ DOMAIN snaps = 1 .. Len(snaps) /\ Range(snaps) = byName
        /\ \A i, j \in 1 .. Len(snaps) : i < j =>
             \E m, n \in 1 .. Len(Order) : m < n /\ snaps[i] = Order[m] /\ snaps[j] = Order[n]
        /\ byName = Layers => snaps = Order
    BY <2>5, <2>6
  <2>8. ToSet(snaps) = byName
    BY <2>7 DEF ToSet, Range
  <2> QED
    BY <2>3, <2>4, <2>7, <2>8
<1> QED
  BY <1>1, <1>2, <1>3, ResultInvariant, PTL DEF Spec
=============================================================================
