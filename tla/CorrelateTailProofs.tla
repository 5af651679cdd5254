------------------------ MODULE CorrelateTailProofs ------------------------
(***************************************************************************)
(* Theorems about `nico correlate --tail`, for any sources, number of      *)
(* events, clock readings, ends of the dump and channel capacity.  The     *)
(* stations an event passes are the first answer and the dump, or a poll,  *)
(* a poller's message, the channel and the output.  The invariant says     *)
(* that they hold different events, older ones further down the line, and  *)
(* that a source's cutoff is behind none that has left the source.         *)
(***************************************************************************)
EXTENDS CorrelateTail, SortingProofs, WellFoundedInduction

-----------------------------------------------------------------------------
(* Rank inverts Order. *)
LEMMA RankIs == ASSUME NEW s \in Sources PROVE Rank(s) \in Nat /\ Order[Rank(s)] = s
<1>1. DOMAIN Order = 1 .. Len(Order) /\ Len(Order) \in Nat
  BY TailAssumption
<1>2. \E i \in DOMAIN Order : Order[i] = s
  BY DEF Sources, ToSet
<1>3. Rank(s) \in DOMAIN Order /\ Order[Rank(s)] = s
  BY <1>2 DEF Rank
<1> QED
  BY <1>1, <1>3

(* Time, place of the source and number make up one number to compare. *)
LEMMA EventParts ==
  ASSUME NEW e \in Event
  PROVE  e.ts \in Nat /\ e.n \in Nat /\ e.src \in Sources /\ Rank(e.src) \in Nat
BY RankIs, TailAssumption DEF Event

(* Events told apart are in a strict total order, the one of the timeline. *)
LEMMA BeforeOrders ==
  ASSUME NEW S \in SUBSET Event, \A d, e \in S : d.src = e.src /\ d.ts = e.ts /\ d.n = e.n => d = e
  PROVE  Orders({p \in S \X S : Before(p[1], p[2])}, S)
<1> DEFINE R == {p \in S \X S : Before(p[1], p[2])}
<1>1. \A d, e \in S : <<d, e>> \in R <=> Before(d, e)
  OBVIOUS
<1>2. \A e \in S : e.ts \in Nat /\ e.n \in Nat /\ e.src \in Sources /\ Rank(e.src) \in Nat
  BY EventParts
<1>3. \A d, e \in S : d.src # e.src => Rank(d.src) # Rank(e.src)
  BY <1>2, RankIs
<1> HIDE DEF R
<1>4. \A x \in S : ~Before(x, x)
  BY <1>2 DEF Before
<1>5. \A x, y \in S : x # y => Before(x, y) \/ Before(y, x)
  BY <1>2, <1>3 DEF Before
<1>6. \A x, y, z \in S : Before(x, y) /\ Before(y, z) => Before(x, z)
  <2> TAKE x, y, z \in S
  <2> USE <1>2
  <2>1. ASSUME Before(x, y), Before(y, z), x.ts = y.ts, y.ts = z.ts PROVE Before(x, z)
    BY <2>1, <1>3 DEF Before
  <2> QED
    BY <2>1 DEF Before
<1>7. Orders(R, S)
  BY <1>1, <1>4, <1>5, <1>6 DEF Orders
<1> QED
  BY <1>7 DEF R

(* A sequence without repetition in which each source's events keep their  *)
(* order in time.                                                          *)
InOrder(m) ==
  \A i, j \in DOMAIN m : i < j => m[i] # m[j] /\ (m[i].src = m[j].src => m[i].ts <= m[j].ts)

(* Events of one source with the same time have different numbers. *)
Distinct(S) == \A d, e \in S : d.src = e.src /\ d.ts = e.ts /\ d.n = e.n => d = e

(* The timeline has every event once, in the order of time. *)
LEMMA TimelineIs ==
  ASSUME NEW S \in SUBSET Event, IsFiniteSet(S), Distinct(S)
  PROVE  /\ Timeline(S) \in Seq(Event) /\ Range(Timeline(S)) = S
         /\ Len(Timeline(S)) = Cardinality(S)
         /\ InOrder(Timeline(S))
<1> DEFINE R == {p \in S \X S : Before(p[1], p[2])}
           t == Timeline(S)
<1>1. Orders(R, S)
  BY BeforeOrders DEF Distinct
<1>2. \A d, e : <<d, e>> \in R => Before(d, e) /\ d \in S /\ e \in S
  OBVIOUS
<1>3. t = Sorted(S, R)
  BY DEF Timeline
<1> HIDE DEF R, t
<1>4. /\ t \in Seq(S) /\ Len(t) = Cardinality(S) /\ Range(t) = S
      /\ \A i, j \in 1 .. Len(t) : i < j <=> <<t[i], t[j]>> \in R
      /\ \A i, j \in 1 .. Len(t) : t[i] = t[j] => i = j
  BY <1>1, <1>3, SortedIs
<1>5. t \in Seq(Event) /\ DOMAIN t = 1 .. Len(t) /\ Len(t) \in Nat
  BY <1>4, SeqMonotonic
<1>6. ASSUME NEW i \in DOMAIN t, NEW j \in DOMAIN t, i < j
      PROVE  t[i] # t[j] /\ (t[i].src = t[j].src => t[i].ts <= t[j].ts)
  <2>1. Before(t[i], t[j]) /\ t[i] \in Event /\ t[j] \in Event
    BY <1>2, <1>4, <1>5, <1>6
  <2>2. i # j
    BY <1>5, <1>6
  <2>3. t[i] # t[j]
    BY <2>2, <1>4, <1>5
  <2>4. t[i].ts \in Nat /\ t[j].ts \in Nat
    BY <2>1, EventParts
  <2> QED
    BY <2>1, <2>3, <2>4 DEF Before
<1>7. InOrder(t)
  BY <1>6 DEF InOrder
<1> QED
  BY <1>4, <1>5, <1>7 DEF t

(* The timeline is empty exactly when there is nothing to show. *)
LEMMA TimelineEmpty ==
  ASSUME NEW S \in SUBSET Event, IsFiniteSet(S), Distinct(S)
  PROVE  Timeline(S) = << >> <=> S = {}
<1>1. Timeline(S) \in Seq(Event) /\ Len(Timeline(S)) = Cardinality(S)
  BY TimelineIs
<1>2. Cardinality(S) = 0 <=> S = {}
  BY FS_EmptySet
<1> QED
  BY <1>1, <1>2, EmptySeq

(* Trimming keeps every trouble, invents and repeats nothing, keeps the    *)
(* order and leaves nothing only where there was nothing.                  *)
LEMMA FilterTimelineIs ==
  ASSUME NEW S \in SUBSET Event, IsFiniteSet(S), Distinct(S)
  PROVE  LET t == FilterTimeline(S)
         IN  /\ t \in Seq(Event) /\ Range(t) \subseteq S
             /\ \A e \in S : e.sev = "trouble" => e \in Range(t)
             /\ InOrder(t)
             /\ t = << >> <=> S = {}
<1> DEFINE t    == Timeline(S)
           ends == 1 .. FirstN \cup (Len(t) - LastN + 1) .. Len(t)
           keep == {i \in DOMAIN t : i \in ends \/ t[i].sev = "trouble"}
           T    == {t[i] : i \in keep}
<1>1. /\ t \in Seq(Event) /\ Range(t) = S /\ InOrder(t)
      /\ DOMAIN t = 1 .. Len(t) /\ Len(t) \in Nat
  BY TimelineIs
<1>2. FirstN \in Nat /\ LastN \in Nat /\ FirstN + LastN > 0
  BY TailAssumption
<1>3. t = << >> <=> S = {}
  BY TimelineEmpty
<1>4. FilterTimeline(S) = IF Len(t) <= FirstN + LastN THEN t ELSE Timeline(T)
  BY DEF FilterTimeline
<1> HIDE DEF t
<1>5. \A e \in S : \E i \in DOMAIN t : t[i] = e
  BY <1>1 DEF Range
<1>6. \A i \in DOMAIN t : t[i] \in S
  BY <1>1 DEF Range
<1>7. CASE Len(t) <= FirstN + LastN
  BY <1>1, <1>3, <1>4, <1>7
<1>8. CASE ~(Len(t) <= FirstN + LastN)
  <2>1. T \in SUBSET S
    BY <1>6
  <2>2. IsFiniteSet(T)
    <3> HIDE DEF T
    <3> QED
      BY <2>1, FS_Subset
  <2>3. T \in SUBSET Event /\ Distinct(T)
    <3> HIDE DEF T
    <3> QED
      BY <2>1 DEF Distinct
  <2>4. \A e \in S : e.sev = "trouble" => e \in T
    BY <1>5
  <2>5. T # {} /\ S # {}
    <3>1. PICK i \in DOMAIN t : i \in ends
      <4>1. Len(t) > 0
        BY <1>1, <1>2, <1>8
      <4>2. CASE FirstN > 0
        <5>1. 1 \in DOMAIN t /\ 1 \in ends
          BY <1>1, <1>2, <4>1, <4>2
        <5> QED
          BY <5>1
      <4>3. CASE LastN > 0
        <5>1. Len(t) \in DOMAIN t /\ Len(t) \in (Len(t) - LastN + 1) .. Len(t)
          BY <1>1, <1>2, <4>1, <4>3
        <5>2. Len(t) \in ends
          BY <5>1
        <5> HIDE DEF ends
        <5> QED
          BY <5>1, <5>2
      <4> QED
        BY <1>2, <4>2, <4>3
    <3>2. t[i] \in T
      BY <3>1
    <3> HIDE DEF T
    <3> QED
      BY <3>2, <2>1
  <2>6. FilterTimeline(S) = Timeline(T)
    BY <1>4, <1>8
  <2> HIDE DEF T
  <2> QED
    BY <2>1, <2>2, <2>3, <2>4, <2>5, <2>6, TimelineIs, TimelineEmpty
<1> QED
  BY <1>7, <1>8

-----------------------------------------------------------------------------
(* Every non-empty set of bounded numbers has a greatest member. *)
LEMMA MaxOf ==
  ASSUME NEW N \in Nat, NEW S \in SUBSET (0 .. N), S # {}
  PROVE  Max(S) \in S /\ \A y \in S : y <= Max(S)
<1> DEFINE T    == {N - x : x \in S}
           less == OpToRel(<, Nat)
<1>1. T \in SUBSET Nat /\ T # {}
  <2>1. \A x \in S : x \in 0 .. N
    OBVIOUS
  <2>2. \A x \in 0 .. N : N - x \in Nat
    OBVIOUS
  <2>3. \A x \in S : N - x \in Nat
    BY <2>1, <2>2
  <2> HIDE DEF less
  <2> QED
    BY <2>3
<1>2. IsWellFoundedOn(less, Nat)
  BY NatLessThanWellFounded
<1>3. \A x, y \in Nat : <<y, x>> \in less <=> y < x
  BY DEF OpToRel
<1>4. PICK t \in T : \A y \in T : ~(<<y, t>> \in less)
  <2> HIDE DEF T, less
  <2> QED
    BY <1>1, <1>2, WFMin
<1>5. \A y \in T : ~(y < t)
  <2> HIDE DEF T, less
  <2> QED
    BY <1>1, <1>3, <1>4
<1>6. PICK x \in S : t = N - x
  BY <1>4
<1>7. \A y \in S : y <= x
  <2> TAKE y \in S
  <2>1. ~(N - y < N - x)
    BY <1>5, <1>6
  <2>2. x \in 0 .. N /\ y \in 0 .. N
    OBVIOUS
  <2> QED
    BY <2>1, <2>2
<1>8. \E z \in S : \A y \in S : z >= y
  BY <1>6, <1>7
<1> QED
  BY <1>8 DEF Max

(* The newest of some events is the time of one of them, and none is later. *)
LEMMA NewestIs ==
  ASSUME NEW S \in SUBSET Event, S # {}
  PROVE  Newest(S) \in 0 .. MaxTime /\ \A e \in S : e.ts <= Newest(S)
<1> DEFINE T == {e.ts : e \in S}
<1>1. T \in SUBSET (0 .. MaxTime) /\ T # {}
  BY DEF Event
<1>2. MaxTime \in Nat
  BY TailAssumption
<1>3. Newest(S) = Max(T)
  BY DEF Newest
<1>4. \A e \in S : e.ts \in T
  OBVIOUS
<1> HIDE DEF T
<1> QED
  BY <1>1, <1>2, <1>3, <1>4, MaxOf

-----------------------------------------------------------------------------
(* What has happened is finitely many events, none of them in the future;  *)
(* those of one source at one reading are numbered without a gap, so no    *)
(* two of them are confused.                                               *)
WorldInv ==
  /\ IsFiniteSet(happened) /\ Distinct(happened)
  /\ \A e \in happened : e.ts <= now /\ e.n <= Cardinality({d \in Of(happened, e.src) : d.ts = e.ts})

(* A source answers with nothing but its own events, and the dump, once it *)
(* is printed, is the trimmed timeline of the answers.                     *)
DumpInv ==
  /\ \A s \in Sources : answers[s] \subseteq Of(happened, s)
  /\ dump = IF phase = "querying" THEN << >> ELSE FilterTimeline(Collected)

(* The messages that the pollers wait to send. *)
Waiting == UNION {Range(batch[s]) : s \in Sources}

(* Nothing is tailed before the tail begins; a poller holds at most one    *)
(* message, of its own source's events; each message, and the output, has  *)
(* every source's events in order.                                         *)
QueueInv ==
  /\ phase \in {"querying", "dumped", "ended"} =>
       output = << >> /\ chan = << >> /\ \A s \in Sources : batch[s] = << >>
  /\ \A s \in Sources : Len(batch[s]) <= 1 /\ \A m \in Range(batch[s]) : Range(m) \subseteq Of(happened, s)
  /\ \A m \in Range(chan) : Range(m) \subseteq happened
  /\ Range(output) \subseteq happened
  /\ \A m \in Waiting \cup Range(chan) : InOrder(m)
  /\ InOrder(output)

(* Nothing of a tailed source that was printed or is on its way is newer   *)
(* than the source's cutoff.                                               *)
CutoffInv ==
  phase \in {"tailing", "stopped"} =>
    \A e \in Range(dump) \cup Range(output) \cup Held : e.src \in Tailed => e.ts <= cutoff[e.src]

(* Of each source, what is in A is older than what is in B. *)
Earlier(A, B) == \A d \in A, e \in B : d.src = e.src => d.ts < e.ts

(* The stations of the tail hold each source's events oldest first: the    *)
(* dump, the output, the channel from its head, the pollers' messages.     *)
OrderInv ==
  /\ Earlier(Range(dump), Range(output) \cup Held)
  /\ Earlier(Range(output), Held)
  /\ \A i, j \in DOMAIN chan : i < j => Earlier(Range(chan[i]), Range(chan[j]))
  /\ \A m \in Range(chan), b \in Waiting : Earlier(Range(m), Range(b))

(* The inductive invariant. *)
IInv == TypeOK /\ WorldInv /\ DumpInv /\ QueueInv /\ CutoffInv /\ OrderInv

(* What is kept for a trimmed or whole timeline of events that happened. *)
LEMMA Past ==
  ASSUME TypeOK, WorldInv, NEW S \in SUBSET happened
  PROVE  S \in SUBSET Event /\ IsFiniteSet(S) /\ Distinct(S)
BY FS_Subset DEF TypeOK, WorldInv, Distinct

(* The sources have told only of what has happened. *)
LEMMA CollectedIs == ASSUME TypeOK, DumpInv PROVE Collected \subseteq happened
BY DEF TypeOK, DumpInv, Collected, Range, Of

(* The dump, once printed, is what FilterTimelineIs says. *)
LEMMA DumpIs ==
  ASSUME TypeOK, WorldInv, DumpInv, phase # "querying"
  PROVE  /\ dump \in Seq(Event) /\ Range(dump) \subseteq Collected /\ InOrder(dump)
         /\ \A e \in Collected : e.sev = "trouble" => e \in Range(dump)
         /\ dump = << >> <=> Collected = {}
<1> DEFINE S == Collected
<1>1. S \in SUBSET Event /\ IsFiniteSet(S) /\ Distinct(S)
  BY CollectedIs, Past
<1>2. dump = FilterTimeline(S)
  BY DEF DumpInv
<1> HIDE DEF S
<1>3. /\ dump \in Seq(Event) /\ Range(dump) \subseteq S
      /\ \A e \in S : e.sev = "trouble" => e \in Range(dump)
      /\ InOrder(dump)
      /\ dump = << >> <=> S = {}
  BY <1>1, <1>2, FilterTimelineIs
<1> QED
  BY <1>3 DEF S

(* The news of a poll are a message in order that starts after the cutoff. *)
LEMMA NewsIs ==
  ASSUME TypeOK, WorldInv, NEW s \in Sources, NEW new, new = {e \in Of(happened, s) : e.ts > cutoff[s]}
  PROVE  /\ Timeline(new) \in Seq(Event) /\ Range(Timeline(new)) = new /\ InOrder(Timeline(new))
         /\ \A e \in new : e \in happened /\ e.src = s /\ e.ts > cutoff[s]
         /\ new # {} => Newest(new) \in 0 .. MaxTime /\ \A e \in new : e.ts <= Newest(new)
<1>1. new \in SUBSET happened /\ \A e \in new : e \in happened /\ e.src = s /\ e.ts > cutoff[s]
  BY DEF Of
<1>2. new \in SUBSET Event /\ IsFiniteSet(new) /\ Distinct(new)
  BY <1>1, Past
<1> QED
  BY <1>1, <1>2, TimelineIs, NewestIs

-----------------------------------------------------------------------------
(* The first cutoff of a source is a reading of the clock that is not      *)
(* older than anything the dump shows of it.                               *)
LEMMA FirstCutoffIs ==
  ASSUME TypeOK, NEW s \in Sources
  PROVE  /\ FirstCutoff(s, now) \in 0 .. MaxTime
         /\ \A e \in Range(dump) : e.src = s => e.ts <= FirstCutoff(s, now)
<1> DEFINE shown == Of(Range(dump), s)
<1>1. shown \in SUBSET Event /\ \A e \in Range(dump) : e.src = s => e \in shown
  BY DEF TypeOK, Of, Range
<1>2. FirstCutoff(s, now) = IF shown = {} THEN now ELSE Newest(shown)
  BY DEF FirstCutoff
<1>3. now \in 0 .. MaxTime
  BY DEF TypeOK
<1> HIDE DEF shown
<1> QED
  BY <1>1, <1>2, <1>3, NewestIs

(* The types, which need to know that what is printed is a timeline. *)
LEMMA TypeStep == ASSUME TypeOK, WorldInv, DumpInv, [Next]_vars PROVE TypeOK'
<1>0. MaxTime \in Nat /\ Ties \in Nat /\ Len(Order) \in Nat /\ DOMAIN Order = 1 .. Len(Order)
      /\ \A i \in DOMAIN Order : Order[i] \in Sources
  BY TailAssumption
<1>1. ASSUME TimePasses PROVE TypeOK'
  <2>1. now' \in 0 .. MaxTime
    BY <1>0, <1>1 DEF TimePasses, TypeOK
  <2> QED
    BY <1>1, <2>1 DEF TimePasses, TypeOK, first
<1>2. ASSUME NEW s \in Sources, NEW sev \in Severities, Happen(s, sev) PROVE TypeOK'
  <2> DEFINE n == Cardinality({e \in Of(happened, s) : e.ts = now}) + 1
             v == [src |-> s, ts |-> now, n |-> n, sev |-> sev]
  <2>1. n <= Ties /\ happened' = happened \cup {v}
    BY <1>2 DEF Happen
  <2>2. n \in Nat /\ n >= 1
    <3> DEFINE S == {e \in Of(happened, s) : e.ts = now}
    <3>1. S \in SUBSET happened
      BY DEF Of
    <3> HIDE DEF S
    <3>2. Cardinality(S) \in Nat
      BY <3>1, FS_Subset, FS_CardinalityType DEF WorldInv
    <3> QED
      BY <3>2 DEF S
  <2>3. v \in Event
    <3> HIDE DEF n
    <3> QED
      BY <2>1, <2>2, <1>0 DEF Event, TypeOK
  <2> HIDE DEF v
  <2> QED
    BY <1>2, <2>1, <2>3 DEF Happen, TypeOK, first
<1>3. ASSUME Collect PROVE TypeOK'
  <2>1. asked' \in 0 .. Len(Order) /\ Order[asked + 1] \in Sources
    <3>1. asked \in 0 .. Len(Order) /\ asked < Len(Order) /\ asked' = asked + 1
      BY <1>3 DEF Collect, TypeOK
    <3>2. asked + 1 \in 1 .. Len(Order)
      BY <1>0, <3>1
    <3> QED
      BY <1>0, <3>1, <3>2
  <2>2. answers' \in [Sources -> SUBSET Event] /\ failed' \subseteq Sources
    BY <1>3, <2>1 DEF Collect, TypeOK, Of
  <2> QED
    BY <1>3, <2>1, <2>2 DEF Collect, TypeOK, world
<1>4. ASSUME PrintDump PROVE TypeOK'
  <2>1. FilterTimeline(Collected) \in Seq(Event)
    <3> DEFINE S == Collected
    <3>1. S \in SUBSET Event /\ IsFiniteSet(S) /\ Distinct(S)
      BY CollectedIs, Past
    <3> HIDE DEF S
    <3>2. FilterTimeline(S) \in Seq(Event)
      BY <3>1, FilterTimelineIs
    <3> QED
      BY <3>2 DEF S
  <2>2. gone' \subseteq Sources
    BY <1>4, TailAssumption DEF PrintDump
  <2> QED
    BY <1>4, <2>1, <2>2 DEF PrintDump, TypeOK
<1>5. ASSUME StartTail PROVE TypeOK'
  <2>1. cutoff' \in [Sources -> 0 .. MaxTime]
    BY <1>0, <1>5, FirstCutoffIs DEF StartTail
  <2> QED
    BY <1>5, <2>1 DEF StartTail, TypeOK, world, first
<1>6. ASSUME NEW s \in Sources, PollNews(s) PROVE TypeOK'
  <2> DEFINE new == {e \in Of(happened, s) : e.ts > cutoff[s]}
  <2>1. new # {} /\ batch' = [batch EXCEPT ![s] = <<Timeline(new)>>] /\ cutoff' = [cutoff EXCEPT ![s] = Newest(new)]
    BY <1>6 DEF PollNews
  <2>2. Timeline(new) \in Seq(Event) /\ Newest(new) \in 0 .. MaxTime
    <3>1. \A S : S = new => Timeline(S) \in Seq(Event) /\ (S # {} => Newest(S) \in 0 .. MaxTime)
      BY NewsIs
    <3> QED
      BY <3>1, <2>1
  <2> HIDE DEF new
  <2>3. batch' \in [Sources -> Seq(Seq(Event))] /\ cutoff' \in [Sources -> 0 .. MaxTime]
    BY <2>1, <2>2 DEF TypeOK
  <2> QED
    BY <1>6, <2>3 DEF PollNews, TypeOK, world, first
<1>7. ASSUME NEW s \in Sources, PollUnavailable(s) PROVE TypeOK'
  <2>1. batch' \in [Sources -> Seq(Seq(Event))]
    BY <1>7 DEF PollUnavailable, TypeOK
  <2> QED
    BY <1>7, <2>1 DEF PollUnavailable, TypeOK, world, first
<1>8. ASSUME NEW s \in Sources, SendBatch(s) PROVE TypeOK'
  <2>1. batch' \in [Sources -> Seq(Seq(Event))] /\ chan' \in Seq(Seq(Event))
    BY <1>8 DEF SendBatch, TypeOK
  <2> QED
    BY <1>8, <2>1 DEF SendBatch, TypeOK, world, first
<1>9. ASSUME PrintMessage PROVE TypeOK'
  <2>1. Head(chan) \in Seq(Event) /\ chan' \in Seq(Seq(Event)) /\ output' \in Seq(Event)
    BY <1>9 DEF PrintMessage, TypeOK
  <2> QED
    BY <1>9, <2>1 DEF PrintMessage, TypeOK, world, first
<1>10. CASE WithoutTail \/ CtrlC
  BY <1>10 DEF WithoutTail, CtrlC, TypeOK, world, first
<1>11. CASE UNCHANGED vars
  BY <1>11 DEF vars, TypeOK
<1>12. ASSUME NEW s \in Sources, GoesForGood(s) PROVE TypeOK'
  BY <1>12 DEF GoesForGood, TypeOK, first
<1> QED
  BY <1>1, <1>2, <1>3, <1>4, <1>5, <1>6, <1>7, <1>8, <1>9, <1>10, <1>11, <1>12 DEF Next, Environment

(* The world only ever grows, and a new event gets the next number. *)
LEMMA WorldStep == ASSUME TypeOK, WorldInv, [Next]_vars PROVE WorldInv' /\ happened \subseteq happened'
<1>0. now \in Nat /\ \A e \in happened : e.ts \in Nat /\ e.n \in Nat
  BY TailAssumption, EventParts DEF TypeOK
<1>a. \A e \in happened : e.ts <= now
  BY DEF WorldInv
<1>1. ASSUME TimePasses PROVE WorldInv' /\ happened \subseteq happened'
  <2>1. now' = now + 1 /\ happened' = happened
    BY <1>1 DEF TimePasses
  <2>2. \A e \in happened : e.ts <= now + 1
    BY <1>0, <1>a
  <2> QED
    BY <2>1, <2>2 DEF WorldInv, Of
<1>2. ASSUME NEW s \in Sources, NEW sev \in Severities, Happen(s, sev) PROVE WorldInv' /\ happened \subseteq happened'
  <2> DEFINE at(H, e) == {d \in Of(H, e.src) : d.ts = e.ts}
             same == {d \in Of(happened, s) : d.ts = now}
             n == Cardinality(same) + 1
             v == [src |-> s, ts |-> now, n |-> n, sev |-> sev]
  <2>1. happened' = happened \cup {v} /\ now' = now
    BY <1>2 DEF Happen
  <2>2. same \in SUBSET happened /\ IsFiniteSet(happened)
    BY DEF Of, WorldInv
  <2>3. IsFiniteSet(same) /\ Cardinality(same) \in Nat
    <3> HIDE DEF same
    <3> QED
      BY <2>2, FS_Subset, FS_CardinalityType
  <2>4. n \in Nat /\ \A e \in happened : e.src = s /\ e.ts = now => e.n < n
    <3>1. \A e \in happened : e.src = s /\ e.ts = now => e.n <= Cardinality(same)
      BY DEF WorldInv
    <3> HIDE DEF same
    <3> QED
      BY <1>0, <2>3, <3>1
  <2>5. v.src = s /\ v.ts = now /\ v.n = n
    OBVIOUS
  <2>6. v \notin happened
    <3> HIDE DEF v, n
    <3> QED
      BY <2>4, <2>5
  <2>7. \A e \in happened : ~(e.src = v.src /\ e.ts = v.ts /\ e.n = v.n)
    <3> HIDE DEF v, n
    <3> QED
      BY <2>4, <2>5, <1>0
  <2>8. IsFiniteSet(happened') /\ Distinct(happened')
    <3>1. IsFiniteSet(happened')
      <4> HIDE DEF v
      <4> QED
        BY <2>1, <2>2, FS_AddElement
    <3> HIDE DEF v, n
    <3> QED
      BY <2>1, <2>7, <3>1 DEF Distinct, WorldInv
  <2>9. ASSUME NEW e \in happened PROVE e.n <= Cardinality(at(happened', e))
    <3>1. at(happened, e) \in SUBSET at(happened', e) /\ at(happened', e) \in SUBSET happened'
      BY <2>1 DEF Of
    <3>2. e.n <= Cardinality(at(happened, e))
      BY DEF WorldInv
    <3> HIDE DEF at
    <3>3. IsFiniteSet(at(happened', e))
      BY <2>8, <3>1, FS_Subset
    <3>4. /\ Cardinality(at(happened, e)) <= Cardinality(at(happened', e))
          /\ IsFiniteSet(at(happened, e))
      BY <3>1, <3>3, FS_Subset
    <3>5. Cardinality(at(happened, e)) \in Nat /\ Cardinality(at(happened', e)) \in Nat
      BY <3>3, <3>4, FS_CardinalityType
    <3> QED
      BY <1>0, <3>2, <3>4, <3>5
  <2>10. v.n <= Cardinality(at(happened', v))
    <3>1. at(happened', v) = same \cup {v} /\ v \notin same
      <4> HIDE DEF v, n
      <4> QED
        BY <2>1, <2>5, <2>6 DEF Of
    <3> HIDE DEF v, at, same
    <3>2. Cardinality(at(happened', v)) = Cardinality(same) + 1
      BY <2>3, <3>1, FS_AddElement
    <3>3. v.n = Cardinality(same) + 1
      BY <2>5
    <3> QED
      BY <2>3, <3>2, <3>3
  <2>11. ASSUME NEW e \in happened' PROVE e.ts <= now' /\ e.n <= Cardinality(at(happened', e))
    <3> HIDE DEF v, n, at
    <3>1. e \in happened \/ e = v
      BY <2>1
    <3>2. e.ts <= now
      BY <1>0, <1>a, <2>5, <3>1
    <3> QED
      BY <2>1, <2>9, <2>10, <3>1, <3>2
  <2> HIDE DEF v, n, same
  <2> QED
    BY <2>1, <2>8, <2>11 DEF WorldInv
<1>3. CASE UNCHANGED <<now, happened>>
  BY <1>3 DEF WorldInv
<1> QED
  BY <1>1, <1>2, <1>3 DEF Next, Environment, GoesForGood, vars, world, Collect, PrintDump, WithoutTail, StartTail,
    PollNews, PollUnavailable, SendBatch, PrintMessage, CtrlC

(* The answers stay within what has happened, and once the dump is printed *)
(* neither it nor the answers change.                                      *)
LEMMA DumpStep == ASSUME TypeOK, WorldInv, DumpInv, [Next]_vars PROVE DumpInv'
<1>1. happened \subseteq happened'
  BY WorldStep
<1>2. CASE UNCHANGED <<answers, dump>> /\ (phase = "querying" <=> phase' = "querying")
  <2>1. Collected' = Collected
    BY <1>2 DEF Collected
  <2> QED
    BY <1>1, <1>2, <2>1 DEF DumpInv, Of
<1>3. CASE Collect
  <2>1. happened' = happened /\ phase' = "querying" /\ phase = "querying" /\ dump' = dump
    BY <1>3 DEF Collect, world
  <2>2. \A s \in Sources : answers'[s] = answers[s] \/ answers'[s] = Of(happened, s)
    BY <1>3 DEF Collect, TypeOK
  <2> QED
    BY <2>1, <2>2 DEF DumpInv
<1>4. CASE PrintDump
  BY <1>4 DEF PrintDump, DumpInv, Of, Collected
<1>5. Next => Collect \/ PrintDump \/ (UNCHANGED <<answers, dump>> /\ (phase = "querying" <=> phase' = "querying"))
  BY DEF Next, Environment, first, TimePasses, Happen, GoesForGood, WithoutTail, StartTail, PollNews, PollUnavailable,
    SendBatch, PrintMessage, CtrlC
<1> QED
  BY <1>2, <1>3, <1>4, <1>5 DEF vars

-----------------------------------------------------------------------------
(* What any poll does, with or without news: a message m of events of s,   *)
(* in order, newer than the cutoff and not newer than the next one.        *)
Polled(s, m, c) ==
  /\ phase = "tailing" /\ s \in Tailed /\ batch[s] = << >>
  /\ m \in Seq(Event) /\ InOrder(m) /\ Range(m) \subseteq Of(happened, s)
  /\ c \in Nat /\ cutoff[s] <= c /\ \A e \in Range(m) : cutoff[s] < e.ts /\ e.ts <= c
  /\ batch' = [batch EXCEPT ![s] = <<m>>]
  /\ cutoff' = [cutoff EXCEPT ![s] = c]
  /\ UNCHANGED <<world, phase, first, began, chan, output>>

(* Both polls are of this kind. *)
LEMMA PollIs ==
  ASSUME TypeOK, WorldInv, NEW s \in Sources, PollNews(s) \/ PollUnavailable(s)
  PROVE  \E m, c : Polled(s, m, c)
<1>0. cutoff[s] \in Nat /\ MaxTime \in Nat
  BY TailAssumption DEF TypeOK
<1>1. CASE PollNews(s)
  <2> DEFINE new == {e \in Of(happened, s) : e.ts > cutoff[s]}
             m   == Timeline(new)
             c   == Newest(new)
  <2>1. /\ phase = "tailing" /\ s \in Tailed /\ batch[s] = << >> /\ new # {}
        /\ batch' = [batch EXCEPT ![s] = <<m>>] /\ cutoff' = [cutoff EXCEPT ![s] = c]
        /\ UNCHANGED <<world, phase, first, began, chan, output>>
    BY <1>1 DEF PollNews
  <2>2. /\ m \in Seq(Event) /\ Range(m) = new /\ InOrder(m)
        /\ \A e \in new : e \in happened /\ e.src = s /\ e.ts > cutoff[s]
        /\ new # {} => c \in 0 .. MaxTime /\ \A e \in new : e.ts <= c
    <3>1. \A S : S = new =>
            /\ Timeline(S) \in Seq(Event) /\ Range(Timeline(S)) = S /\ InOrder(Timeline(S))
            /\ \A e \in S : e \in happened /\ e.src = s /\ e.ts > cutoff[s]
            /\ S # {} => Newest(S) \in 0 .. MaxTime /\ \A e \in S : e.ts <= Newest(S)
      BY NewsIs
    <3> HIDE DEF new
    <3> QED
      BY <3>1
  <2>3. new \subseteq Of(happened, s) /\ \A e \in new : e.ts \in Nat
    BY <2>2, EventParts DEF TypeOK
  <2> HIDE DEF new, m, c
  <2>4. c \in Nat /\ cutoff[s] <= c
    <3>1. PICK e \in new : TRUE
      BY <2>1
    <3>2. c \in Nat /\ cutoff[s] < e.ts /\ e.ts <= c /\ e.ts \in Nat
      BY <2>1, <2>2, <2>3, <1>0
    <3> QED
      BY <3>2, <1>0
  <2>5. \A e \in Range(m) : cutoff[s] < e.ts /\ e.ts <= c
    BY <2>1, <2>2, <2>3, <1>0
  <2>6. Polled(s, m, c)
    BY <2>1, <2>2, <2>3, <2>4, <2>5 DEF Polled
  <2> QED
    BY <2>6
<1>2. CASE PollUnavailable(s)
  <2>1. << >> \in Seq(Event) /\ InOrder(<< >>) /\ Range(<< >>) = {}
    BY DEF InOrder, Range
  <2>2. cutoff' = [cutoff EXCEPT ![s] = cutoff[s]]
    BY <1>2 DEF PollUnavailable, TypeOK
  <2>3. /\ phase = "tailing" /\ s \in Tailed /\ batch[s] = << >> /\ batch' = [batch EXCEPT ![s] = << << >> >>]
        /\ UNCHANGED <<world, phase, first, began, chan, output>>
    BY <1>2 DEF PollUnavailable
  <2> DEFINE m == << >>
  <2> HIDE DEF m
  <2>4. m \in Seq(Event) /\ InOrder(m) /\ Range(m) = {} /\ batch' = [batch EXCEPT ![s] = <<m>>]
    BY <2>1, <2>3 DEF m
  <2> DEFINE c == cutoff[s]
  <2>5. /\ Range(m) \subseteq Of(happened, s) /\ c \in Nat /\ cutoff[s] <= c
        /\ \A e \in Range(m) : cutoff[s] < e.ts /\ e.ts <= c
    BY <1>0, <2>4
  <2>6. cutoff' = [cutoff EXCEPT ![s] = c]
    BY <2>2
  <2> HIDE DEF c
  <2>7. Polled(s, m, c)
    BY <2>3, <2>4, <2>5, <2>6 DEF Polled
  <2> QED
    BY <2>7
<1> QED
  BY <1>1, <1>2

(* What some messages contain. *)
LEMMA ContentIs == ASSUME NEW X PROVE \A e : e \in UNION {Range(m) : m \in X} <=> \E m \in X : e \in Range(m)
OBVIOUS

(* Held is what the messages contain. *)
LEMMA HeldIs == \A e : e \in Held <=> \E m \in Waiting \cup Range(chan) : e \in Range(m)
<1> DEFINE X == Waiting \cup Range(chan)
<1>1. Held = UNION {Range(m) : m \in X}
  BY DEF Held, Waiting
<1>2. \A e : e \in UNION {Range(m) : m \in X} <=> \E m \in X : e \in Range(m)
  BY ContentIs
<1> QED
  BY <1>1, <1>2

(* And so it is after a step. *)
LEMMA HeldNext == \A e : e \in Held' <=> \E m \in Waiting' \cup Range(chan') : e \in Range(m)
<1> DEFINE X == Waiting' \cup Range(chan')
<1>1. Held' = UNION {Range(m) : m \in X}
  BY DEF Held, Waiting
<1>2. \A e : e \in UNION {Range(m) : m \in X} <=> \E m \in X : e \in Range(m)
  BY ContentIs
<1> QED
  BY <1>1, <1>2

(* A poll adds its message to those that wait. *)
LEMMA PollAdds ==
  ASSUME TypeOK, NEW s \in Sources, NEW m, NEW c, Polled(s, m, c)
  PROVE  /\ Waiting' = Waiting \cup {m} /\ Held' = Held \cup Range(m)
         /\ batch'[s] = <<m>> /\ \A r \in Sources \ {s} : batch'[r] = batch[r]
<1>1. batch'[s] = <<m>> /\ \A r \in Sources \ {s} : batch'[r] = batch[r]
  BY DEF Polled, TypeOK
<1>2. Range(<<m>>) = {m} /\ Range(batch[s]) = {}
  <2>1. batch[s] = << >>
    BY DEF Polled
  <2> QED
    BY <2>1 DEF Range
<1>3. Waiting' = Waiting \cup {m}
  <2>1. \A x : x \in Waiting' <=> \E r \in Sources : x \in Range(batch'[r])
    BY DEF Waiting
  <2>2. \A x : x \in Waiting <=> \E r \in Sources : x \in Range(batch[r])
    BY DEF Waiting
  <2>3. \A x : x \in Waiting' <=> x \in Waiting \/ x = m
    BY <1>1, <1>2, <2>1, <2>2
  <2> QED
    BY <2>3
<1>4. chan' = chan
  BY DEF Polled
<1>5. \A e : e \in Held' <=> \E x \in Waiting' \cup Range(chan') : e \in Range(x)
  BY HeldNext
<1>6. \A e : e \in Held' <=> e \in Held \/ e \in Range(m)
  BY <1>3, <1>4, <1>5, HeldIs
<1> QED
  BY <1>1, <1>3, <1>6

(* A send moves the one message of a poller to the channel's end. *)
LEMMA SendMoves ==
  ASSUME TypeOK, QueueInv, NEW s \in Sources, SendBatch(s)
  PROVE  /\ batch' = [batch EXCEPT ![s] = << >>]
         /\ \E b \in Waiting :
              /\ b \in Range(batch[s]) /\ Range(chan') = Range(chan) \cup {b}
              /\ Len(chan') = Len(chan) + 1 /\ chan'[Len(chan) + 1] = b
              /\ \A i \in DOMAIN chan : chan'[i] = chan[i]
         /\ Waiting' \subseteq Waiting /\ Held' \subseteq Held
         /\ \A x \in Waiting' : \E r \in Sources \ {s} : x \in Range(batch[r])
<1>1. batch[s] \in Seq(Seq(Event)) /\ Len(batch[s]) <= 1 /\ batch[s] # << >> /\ chan \in Seq(Seq(Event))
  BY DEF TypeOK, QueueInv, SendBatch
<1>2. chan' = chan \o batch[s] /\ batch' = [batch EXCEPT ![s] = << >>]
  BY DEF SendBatch
<1> DEFINE B == batch[s]
           b == B[1]
<1>3. Len(B) = 1 /\ b \in Seq(Event) /\ Range(B) = {b} /\ b \in Waiting
  <2>1. Len(B) = 1 /\ DOMAIN B = 1 .. 1
    <3>1. B \in Seq(Seq(Event)) /\ B # << >> /\ Len(B) <= 1
      BY <1>1
    <3> HIDE DEF B
    <3>2. Len(B) \in Nat \ {0}
      BY <3>1, EmptySeq
    <3>3. \A n \in Nat \ {0} : n <= 1 => n = 1
      OBVIOUS
    <3>4. Len(B) = 1
      BY <3>1, <3>2, <3>3, Zenon
    <3> QED
      BY <3>1, <3>4, LenProperties
  <2>2. b \in Seq(Event) /\ Range(B) = {b}
    BY <1>1, <2>1 DEF Range
  <2> QED
    BY <2>1, <2>2 DEF Waiting
<1>4. batch'[s] = << >> /\ \A r \in Sources \ {s} : batch'[r] = batch[r]
  BY <1>2 DEF TypeOK
<1>5. /\ Len(chan') = Len(chan) + 1 /\ chan'[Len(chan) + 1] = b /\ \A i \in DOMAIN chan : chan'[i] = chan[i]
      /\ Range(chan') = Range(chan) \cup {b}
  <2>1. B \in Seq(Seq(Event)) /\ chan' = chan \o B
    BY <1>1, <1>2
  <2> HIDE DEF B
  <2>2. Len(chan \o B) = Len(chan) + Len(B) /\ Range(chan \o B) = Range(chan) \cup Range(B)
    BY <1>1, <2>1, ConcatProperties, RangeConcatenation
  <2>3. \A i \in 1 .. Len(chan) + Len(B) : (chan \o B)[i] = IF i <= Len(chan) THEN chan[i] ELSE B[i - Len(chan)]
    BY <1>1, <2>1, ConcatProperties
  <2>4. Len(chan) \in Nat /\ DOMAIN chan = 1 .. Len(chan)
    BY <1>1
  <2>5. (chan \o B)[Len(chan) + 1] = B[1] /\ \A i \in 1 .. Len(chan) : (chan \o B)[i] = chan[i]
    <3> DEFINE n == Len(chan)
               C == chan \o B
    <3>1. Len(B) = 1 /\ n \in Nat
      BY <1>3, <2>4
    <3>2. \A i \in 1 .. n + 1 : C[i] = IF i <= n THEN chan[i] ELSE B[i - n]
      BY <2>3, <3>1
    <3>3. n + 1 \in 1 .. n + 1 /\ ~(n + 1 <= n) /\ (n + 1) - n = 1
      BY <3>1
    <3>4. \A i \in 1 .. n : i \in 1 .. n + 1 /\ i <= n
      BY <3>1
    <3> HIDE DEF n, C
    <3>5. C[n + 1] = B[1]
      BY <3>2, <3>3
    <3>6. \A i \in 1 .. n : C[i] = chan[i]
      BY <3>2, <3>4
    <3> QED
      BY <3>5, <3>6 DEF n, C
  <2> QED
    BY <1>3, <2>1, <2>2, <2>4, <2>5
<1>6. \A x \in Waiting' : \E r \in Sources \ {s} : x \in Range(batch[r])
  <2>1. \A x \in Waiting' : \E r \in Sources : x \in Range(batch'[r])
    BY DEF Waiting
  <2>2. Range(<< >>) = {}
    BY DEF Range
  <2> QED
    BY <1>4, <2>1, <2>2
<1>7. Waiting' \subseteq Waiting
  BY <1>6 DEF Waiting
<1>8. Held' \subseteq Held
  <2>1. \A e : e \in Held' <=> \E x \in Waiting' \cup Range(chan') : e \in Range(x)
    BY HeldNext
  <2> HIDE DEF b
  <2> QED
    BY <1>3, <1>5, <1>7, <2>1, HeldIs
<1>9. b \in Range(batch[s])
  BY <1>3
<1> HIDE DEF b
<1> QED
  BY <1>2, <1>3, <1>5, <1>6, <1>7, <1>8, <1>9

(* Printing takes the channel's head. *)
LEMMA PrintTakes ==
  ASSUME TypeOK, PrintMessage
  PROVE  LET m == Head(chan)
         IN  /\ m \in Seq(Event) /\ m = chan[1] /\ 1 \in DOMAIN chan /\ output' = output \o m
             /\ DOMAIN chan' = 1 .. Len(chan) - 1 /\ Len(chan) \in Nat \ {0} /\ DOMAIN chan = 1 .. Len(chan)
             /\ \A i \in DOMAIN chan' : chan'[i] = chan[i + 1] /\ i + 1 \in DOMAIN chan
             /\ Range(output') = Range(output) \cup Range(m)
             /\ Range(m) \subseteq Held /\ Held' \subseteq Held /\ m \in Range(chan)
             /\ Waiting' = Waiting /\ Range(chan') \subseteq Range(chan)
<1> DEFINE m == Head(chan)
<1>1. chan \in Seq(Seq(Event)) /\ chan # << >> /\ output \in Seq(Event) /\ chan' = Tail(chan) /\ batch' = batch
      /\ output' = output \o m
  BY DEF TypeOK, PrintMessage
<1>2. m \in Seq(Event) /\ m = chan[1] /\ 1 \in DOMAIN chan /\ Len(chan) \in Nat \ {0} /\ DOMAIN chan = 1 .. Len(chan)
  BY <1>1
<1>3. DOMAIN chan' = 1 .. Len(chan) - 1 /\ \A i \in DOMAIN chan' : chan'[i] = chan[i + 1] /\ i + 1 \in DOMAIN chan
  BY <1>1, <1>2
<1> HIDE DEF m
<1>4. Range(output') = Range(output) \cup Range(m)
  BY <1>1, <1>2, RangeConcatenation
<1>5. m \in Range(chan) /\ Range(chan') \subseteq Range(chan)
  BY <1>2, <1>3 DEF Range
<1>6. Waiting' = Waiting
  BY <1>1 DEF Waiting
<1>7. \A e : e \in Held' <=> \E x \in Waiting' \cup Range(chan') : e \in Range(x)
  BY HeldNext
<1>8. Range(m) \subseteq Held /\ Held' \subseteq Held
  BY <1>5, <1>6, <1>7, HeldIs
<1> QED
  BY <1>1, <1>2, <1>3, <1>4, <1>5, <1>6, <1>8 DEF m

-----------------------------------------------------------------------------
(* The phases with a tail, and those without. *)
Tailing    == {"tailing", "stopped"}
NotTailing == {"querying", "dumped", "ended"}

(* A step polls, sends, prints, begins the tail, or leaves the messages,   *)
(* the output and the cutoffs alone, and the dump once the tail has begun. *)
Elsewhere ==
  /\ UNCHANGED <<batch, chan, output, cutoff>>
  /\ phase' \in NotTailing => phase \in NotTailing
  /\ phase' \in Tailing => phase \in Tailing /\ UNCHANGED <<asked, failed>>
  /\ dump' = dump \/ phase' = "dumped"

(* Only polls, sends, prints and the start of the tail are not elsewhere.  *)
LEMMA StepKinds ==
  ASSUME [Next]_vars
  PROVE  \/ \E s \in Sources : PollNews(s) \/ PollUnavailable(s)
         \/ \E s \in Sources : SendBatch(s)
         \/ PrintMessage \/ StartTail \/ Elsewhere
<1> USE DEF Elsewhere, Tailing, NotTailing
<1>1. Environment => Elsewhere
  BY DEF Environment, TimePasses, Happen, GoesForGood, first
<1>2. Collect \/ PrintDump \/ WithoutTail \/ CtrlC => Elsewhere
  BY DEF Collect, PrintDump, WithoutTail, CtrlC, first, world
<1>3. UNCHANGED vars => Elsewhere
  BY DEF vars
<1> QED
  BY <1>1, <1>2, <1>3 DEF Next

(* Neither world, dump nor sources asked change while the tail is at work. *)
LEMMA TailFrame ==
  ASSUME TypeOK, NEW s, (\E m, c : Polled(s, m, c)) \/ SendBatch(s) \/ PrintMessage
  PROVE  /\ phase = "tailing" /\ phase' = "tailing" /\ UNCHANGED <<dump, happened>> /\ Tailed' = Tailed
         /\ (SendBatch(s) \/ PrintMessage) => UNCHANGED cutoff
         /\ (SendBatch(s) \/ \E m, c : Polled(s, m, c)) => UNCHANGED output
         /\ (\E m, c : Polled(s, m, c)) => UNCHANGED chan
<1>1. /\ phase = "tailing" /\ UNCHANGED <<phase, dump, happened, asked, failed>>
  BY DEF Polled, SendBatch, PrintMessage, world, first
<1>2. Tailed' = Tailed
  BY <1>1 DEF Tailed
<1> QED
  BY <1>1, <1>2 DEF Polled, SendBatch, PrintMessage

(* A concatenation is in order when its parts are and the first part's     *)
(* events of a source are older than the second's.                         *)
LEMMA OrderConcat ==
  ASSUME NEW a \in Seq(Event), NEW b \in Seq(Event), InOrder(a), InOrder(b), Earlier(Range(a), Range(b))
  PROVE  InOrder(a \o b)
<1> DEFINE m == a \o b
           k == Len(a)
<1>1. /\ k \in Nat /\ Len(b) \in Nat /\ DOMAIN a = 1 .. k /\ DOMAIN b = 1 .. Len(b)
      /\ m \in Seq(Event) /\ DOMAIN m = 1 .. k + Len(b)
      /\ \A i \in 1 .. k + Len(b) : m[i] = IF i <= k THEN a[i] ELSE b[i - k]
  BY ConcatProperties, LenProperties
<1> HIDE DEF m, k
<1>2. \A i \in DOMAIN m : (i <= k => i \in DOMAIN a /\ m[i] = a[i]) /\ (i > k => i - k \in DOMAIN b /\ m[i] = b[i - k])
  <2> TAKE i \in DOMAIN m
  <2>1. i \in 1 .. k + Len(b)
    BY <1>1
  <2> QED
    BY <1>1, <2>1
<1>3. ASSUME NEW i \in DOMAIN m, NEW j \in DOMAIN m, i < j
      PROVE  m[i] # m[j] /\ (m[i].src = m[j].src => m[i].ts <= m[j].ts)
  <2>0. i \in Nat /\ j \in Nat
    BY <1>1
  <2>1. CASE j <= k
    <3>1. i <= k
      BY <1>1, <1>3, <2>0, <2>1
    <3> QED
      BY <1>2, <1>3, <2>1, <3>1 DEF InOrder
  <2>2. CASE i > k
    <3>1. j > k /\ i - k < j - k
      BY <1>1, <1>3, <2>0, <2>2
    <3> QED
      BY <1>2, <2>2, <3>1 DEF InOrder
  <2>3. CASE i <= k /\ j > k
    <3>1. m[i] \in Range(a) /\ m[j] \in Range(b)
      BY <1>2, <2>3 DEF Range
    <3>2. m[i].src = m[j].src => m[i].ts < m[j].ts
      BY <3>1 DEF Earlier
    <3>3. m[i].ts \in Nat /\ m[j].ts \in Nat
      BY <1>1, EventParts
    <3> QED
      BY <3>2, <3>3
  <2> QED
    BY <1>1, <2>0, <2>1, <2>2, <2>3
<1>4. InOrder(m)
  BY <1>3 DEF InOrder
<1> QED
  BY <1>4 DEF m

(* The messages stay within what has happened, single and in order. *)
LEMMA QueueStep ==
  ASSUME TypeOK, WorldInv, DumpInv, QueueInv, OrderInv, [Next]_vars
  PROVE  QueueInv'
<1>1. happened \subseteq happened' /\ \A s \in Sources : Of(happened, s) \subseteq Of(happened', s)
  BY WorldStep DEF Of
<1>2. ASSUME NEW s \in Sources, PollNews(s) \/ PollUnavailable(s) PROVE QueueInv'
  <2>1. PICK m, c : Polled(s, m, c)
    BY <1>2, PollIs
  <2>2. phase' = "tailing" /\ UNCHANGED <<happened, chan, output>>
    BY <2>1, TailFrame
  <2>3. /\ Waiting' = Waiting \cup {m}
        /\ batch'[s] = <<m>> /\ \A r \in Sources \ {s} : batch'[r] = batch[r]
    BY <2>1, PollAdds
  <2>4. InOrder(m) /\ Range(m) \subseteq Of(happened, s)
    BY <2>1 DEF Polled
  <2>5. Len(<<m>>) <= 1 /\ Range(<<m>>) = {m}
    BY DEF Range
  <2>6. \A r \in Sources : Len(batch'[r]) <= 1 /\ \A x \in Range(batch'[r]) : Range(x) \subseteq Of(happened, r)
    <3> TAKE r \in Sources
    <3>1. CASE r = s
      <4>1. Len(batch'[r]) <= 1 /\ Range(batch'[r]) = {m}
        BY <2>3, <2>5, <3>1
      <4> QED
        BY <2>4, <3>1, <4>1
    <3>2. CASE r # s
      BY <2>3, <3>2 DEF QueueInv
    <3> QED
      BY <3>1, <3>2
  <2>7. \A x \in Waiting' \cup Range(chan') : InOrder(x)
    BY <2>2, <2>3, <2>4 DEF QueueInv
  <2>8. phase' \notin {"querying", "dumped", "ended"}
    BY <2>2
  <2> QED
    BY <2>2, <2>6, <2>7, <2>8 DEF QueueInv
<1>3. ASSUME NEW s \in Sources, SendBatch(s) PROVE QueueInv'
  <2>1. phase' = "tailing" /\ UNCHANGED <<happened, output>>
    BY <1>3, TailFrame
  <2>2. PICK b \in Waiting : b \in Range(batch[s]) /\ Range(chan') = Range(chan) \cup {b}
    BY <1>3, SendMoves
  <2>3. batch' = [batch EXCEPT ![s] = << >>] /\ Waiting' \subseteq Waiting
    BY <1>3, SendMoves
  <2>4. Range(b) \subseteq happened
    BY <2>2 DEF QueueInv, Of
  <2>5. Len(<< >>) = 0 /\ Range(<< >>) = {}
    BY DEF Range
  <2>6. \A r \in Sources : batch'[r] = IF r = s THEN << >> ELSE batch[r]
    BY <2>3 DEF TypeOK
  <2>7. \A r \in Sources : Len(batch'[r]) <= 1 /\ \A x \in Range(batch'[r]) : Range(x) \subseteq Of(happened, r)
    BY <2>5, <2>6 DEF QueueInv
  <2>8. \A x \in Waiting' \cup Range(chan') : InOrder(x)
    BY <2>2, <2>3 DEF QueueInv
  <2>9. \A x \in Range(chan') : Range(x) \subseteq happened
    BY <2>2, <2>4 DEF QueueInv
  <2>10. phase' \notin {"querying", "dumped", "ended"}
    BY <2>1
  <2> QED
    BY <2>1, <2>7, <2>8, <2>9, <2>10 DEF QueueInv
<1>4. ASSUME PrintMessage PROVE QueueInv'
  <2>1. phase' = "tailing" /\ UNCHANGED <<happened, batch>>
    BY <1>4 DEF PrintMessage, world
  <2> DEFINE m == Head(chan)
  <2>2. /\ m \in Seq(Event) /\ m \in Range(chan) /\ output' = output \o m
        /\ Range(output') = Range(output) \cup Range(m) /\ Range(m) \subseteq Held
        /\ Waiting' = Waiting /\ Range(chan') \subseteq Range(chan)
    BY <1>4, PrintTakes
  <2> HIDE DEF m
  <2>3. InOrder(output')
    <3>1. InOrder(m) /\ InOrder(output) /\ output \in Seq(Event)
      BY <2>2 DEF QueueInv, TypeOK
    <3>2. Earlier(Range(output), Range(m))
      BY <2>2 DEF OrderInv, Earlier
    <3> QED
      BY <2>2, <3>1, <3>2, OrderConcat
  <2>4. Range(output') \subseteq happened /\ \A x \in Range(chan') : Range(x) \subseteq happened
    BY <2>2 DEF QueueInv
  <2>5. \A x \in Waiting' \cup Range(chan') : InOrder(x)
    BY <2>2 DEF QueueInv
  <2>6. phase' \notin {"querying", "dumped", "ended"}
    BY <2>1
  <2> QED
    BY <2>1, <2>3, <2>4, <2>5, <2>6 DEF QueueInv
<1>5. CASE StartTail \/ Elsewhere
  <2>1. UNCHANGED <<batch, chan, output>> /\ (phase' \in NotTailing => phase \in NotTailing)
    BY <1>5 DEF StartTail, Elsewhere, NotTailing
  <2>2. Waiting' = Waiting
    BY <2>1 DEF Waiting
  <2> QED
    BY <1>1, <2>1, <2>2 DEF QueueInv, NotTailing
<1> QED
  BY <1>2, <1>3, <1>4, <1>5, StepKinds

(* The cutoffs keep up with what is printed and on its way. *)
LEMMA CutoffStep ==
  ASSUME TypeOK, WorldInv, DumpInv, QueueInv, CutoffInv, [Next]_vars
  PROVE  CutoffInv'
<1> DEFINE All == Range(dump) \cup Range(output) \cup Held
<1>0. phase \in Tailing => \A e \in All : e.src \in Tailed => e.ts <= cutoff[e.src]
  BY DEF CutoffInv, Tailing
<1>a. Held \subseteq happened
  <2>1. ASSUME NEW e \in Held PROVE e \in happened
    <3>1. PICK m \in Waiting \cup Range(chan) : e \in Range(m)
      BY HeldIs
    <3>2. CASE m \in Range(chan)
      BY <3>1, <3>2 DEF QueueInv
    <3>3. CASE m \in Waiting
      <4>1. PICK r \in Sources : m \in Range(batch[r])
        BY <3>3 DEF Waiting
      <4> QED
        BY <3>1, <4>1 DEF QueueInv, Of
    <3> QED
      BY <3>1, <3>2, <3>3
  <2> QED
    BY <2>1
<1>b. \A e \in All : e \in Event /\ e.ts \in Nat /\ e.src \in Sources /\ cutoff[e.src] \in Nat
  <2>1. Range(dump) \subseteq Event
    BY RangeOfSeq DEF TypeOK
  <2>2. All \subseteq Event
    BY <1>a, <2>1 DEF QueueInv, TypeOK
  <2>3. \A r \in Sources : cutoff[r] \in Nat
    BY TailAssumption DEF TypeOK
  <2> HIDE DEF All
  <2> QED
    BY <2>2, <2>3, EventParts
<1>c. ASSUME phase' \in Tailing => \A e \in All' : e.src \in Tailed' => e.ts <= cutoff'[e.src]
      PROVE  CutoffInv'
  BY <1>c DEF CutoffInv, Tailing
<1>1. ASSUME NEW s \in Sources, PollNews(s) \/ PollUnavailable(s) PROVE CutoffInv'
  <2>1. PICK m, c : Polled(s, m, c)
    BY <1>1, PollIs
  <2>2. phase = "tailing" /\ UNCHANGED <<dump, output>> /\ Tailed' = Tailed
    BY <2>1, TailFrame
  <2>3. Held' = Held \cup Range(m)
    BY <2>1, PollAdds
  <2>4. /\ Range(m) \subseteq Of(happened, s) /\ c \in Nat /\ cutoff[s] <= c
        /\ \A e \in Range(m) : cutoff[s] < e.ts /\ e.ts <= c
        /\ cutoff' = [cutoff EXCEPT ![s] = c]
    BY <2>1 DEF Polled
  <2>5. \A r \in Sources : cutoff'[r] = IF r = s THEN c ELSE cutoff[r]
    BY <2>4 DEF TypeOK
  <2>6. All' = All \cup Range(m)
    BY <2>2, <2>3
  <2>7. \A e \in Range(m) : e.src = s
    BY <2>4 DEF Of
  <2> HIDE DEF All
  <2>8. ASSUME NEW e \in All', e.src \in Tailed PROVE e.ts <= cutoff'[e.src]
    <3>1. CASE e \in Range(m)
      BY <2>4, <2>5, <2>7, <3>1
    <3>2. CASE e \in All
      <4>1. e.ts <= cutoff[e.src] /\ e.ts \in Nat /\ e.src \in Sources /\ cutoff[e.src] \in Nat
        BY <1>0, <1>b, <2>2, <2>8, <3>2 DEF Tailing
      <4> QED
        BY <2>4, <2>5, <4>1
    <3> QED
      BY <2>6, <3>1, <3>2
  <2> QED
    BY <1>c, <2>2, <2>8
<1>2. ASSUME NEW s, (s \in Sources /\ SendBatch(s)) \/ PrintMessage PROVE CutoffInv'
  <2>1. phase = "tailing" /\ UNCHANGED <<dump, cutoff>> /\ Tailed' = Tailed
    BY <1>2, TailFrame
  <2>2. All' \subseteq All
    <3>1. CASE s \in Sources /\ SendBatch(s)
      <4>1. output' = output
        BY <3>1, TailFrame
      <4> QED
        BY <2>1, <3>1, <4>1, SendMoves
    <3>2. CASE PrintMessage
      <4> DEFINE m == Head(chan)
      <4>1. Range(output') = Range(output) \cup Range(m) /\ Range(m) \subseteq Held /\ Held' \subseteq Held
        BY <3>2, PrintTakes
      <4> HIDE DEF m
      <4> QED
        BY <2>1, <4>1
    <3> QED
      BY <1>2, <3>1, <3>2
  <2> HIDE DEF All
  <2> QED
    BY <1>0, <1>c, <2>1, <2>2 DEF Tailing
<1>3. CASE StartTail
  <2>1. /\ UNCHANGED <<dump, batch, chan, output, asked, failed>> /\ phase = "dumped"
        /\ cutoff' = [s \in Sources |-> IF s \in Tailed THEN FirstCutoff(s, now) ELSE 0]
    BY <1>3 DEF StartTail, first
  <2>2. output' = << >> /\ chan' = << >> /\ \A s \in Sources : batch'[s] = << >>
    BY <2>1 DEF QueueInv
  <2>3. Range(<< >>) = {}
    BY DEF Range
  <2>4. Waiting' \cup Range(chan') = {} /\ Range(output') = {}
    BY <2>2, <2>3 DEF Waiting
  <2>5. Held' = {}
    BY <2>4, HeldNext
  <2>6. All' = Range(dump)
    BY <2>1, <2>4, <2>5
  <2>7. Tailed' = Tailed
    BY <2>1 DEF Tailed
  <2>8. ASSUME NEW e \in Range(dump), e.src \in Tailed PROVE e.ts <= cutoff'[e.src]
    <3>1. e.src \in Sources
      BY <1>b
    <3>2. e.ts <= FirstCutoff(e.src, now)
      BY <3>1, FirstCutoffIs
    <3> QED
      BY <2>1, <2>8, <3>1, <3>2
  <2> HIDE DEF All
  <2> QED
    BY <1>c, <2>6, <2>7, <2>8
<1>4. CASE Elsewhere
  <2>1. /\ UNCHANGED <<batch, chan, output, cutoff>>
        /\ phase' \in Tailing => phase \in Tailing /\ UNCHANGED <<asked, failed>>
        /\ dump' = dump \/ phase' = "dumped"
    BY <1>4 DEF Elsewhere
  <2>2. Held' = Held
    BY <2>1 DEF Held
  <2>3. phase' \in Tailing => All' = All /\ Tailed' = Tailed
    BY <2>1, <2>2 DEF Tailed, Tailing
  <2> HIDE DEF All
  <2> QED
    BY <1>0, <1>c, <2>1, <2>3
<1> QED
  BY <1>1, <1>2, <1>3, <1>4, StepKinds, Zenon

(* The stations of the tail stay in order. *)
LEMMA OrderStep ==
  ASSUME TypeOK, WorldInv, DumpInv, QueueInv, CutoffInv, OrderInv, [Next]_vars
  PROVE  OrderInv'
<1>0. \A e \in Range(dump) \cup Range(output) \cup Held :
        phase = "tailing" /\ e.src \in Tailed => e.ts <= cutoff[e.src]
  BY DEF CutoffInv
<1>a. \A e \in Range(dump) \cup Range(output) \cup Held : e.ts \in Nat
  <2>1. Range(dump) \subseteq Event /\ Range(output) \subseteq Event
    BY RangeOfSeq DEF TypeOK
  <2>2. ASSUME NEW m \in Waiting \cup Range(chan) PROVE Range(m) \subseteq Event
    <3>1. m \in Seq(Event)
      BY DEF Waiting, Range, TypeOK
    <3> QED
      BY <3>1, RangeOfSeq
  <2>3. Held \subseteq Event
    BY <2>2, HeldIs
  <2> QED
    BY <2>1, <2>3, EventParts
<1>1. ASSUME NEW s \in Sources, PollNews(s) \/ PollUnavailable(s) PROVE OrderInv'
  <2>1. PICK m, c : Polled(s, m, c)
    BY <1>1, PollIs
  <2>2. phase = "tailing" /\ UNCHANGED <<dump, output, chan>>
    BY <2>1, TailFrame
  <2>3. Held' = Held \cup Range(m) /\ Waiting' = Waiting \cup {m}
    BY <2>1, PollAdds
  <2>4. /\ s \in Tailed /\ batch[s] = << >> /\ Range(m) \subseteq Of(happened, s)
        /\ \A e \in Range(m) : cutoff[s] < e.ts
    BY <2>1 DEF Polled
  <2>5. \A e \in Range(m) : e.src = s /\ e.ts \in Nat
    BY <2>4, EventParts DEF Of, TypeOK
  <2>6. cutoff[s] \in Nat
    BY TailAssumption DEF TypeOK
  <2>7. \A d \in Range(dump) \cup Range(output) \cup Held, e \in Range(m) : d.src = e.src => d.ts < e.ts
    BY <1>0, <1>a, <2>2, <2>4, <2>5, <2>6
  <2>8. Earlier(Range(dump), Range(output) \cup Held') /\ Earlier(Range(output), Held')
    BY <2>3, <2>7 DEF OrderInv, Earlier
  <2>9. \A x \in Range(chan), b \in Waiting' : Earlier(Range(x), Range(b))
    <3>1. \A x \in Range(chan) : Range(x) \subseteq Held
      BY HeldIs
    <3> QED
      BY <2>3, <2>7, <3>1 DEF OrderInv, Earlier
  <2> QED
    BY <2>2, <2>8, <2>9 DEF OrderInv
<1>2. ASSUME NEW s \in Sources, SendBatch(s) PROVE OrderInv'
  <2>1. UNCHANGED <<dump, output>>
    BY <1>2, TailFrame
  <2>2. PICK b \in Waiting :
          /\ b \in Range(batch[s]) /\ Range(chan') = Range(chan) \cup {b}
          /\ Len(chan') = Len(chan) + 1 /\ chan'[Len(chan) + 1] = b
          /\ \A i \in DOMAIN chan : chan'[i] = chan[i]
    BY <1>2, SendMoves
  <2>3. /\ Waiting' \subseteq Waiting /\ Held' \subseteq Held
        /\ \A x \in Waiting' : \E r \in Sources \ {s} : x \in Range(batch[r])
    BY <1>2, SendMoves
  <2>4. /\ DOMAIN chan = 1 .. Len(chan) /\ Len(chan) \in Nat /\ DOMAIN chan' = 1 .. Len(chan) + 1
    <3>1. chan \in Seq(Seq(Event)) /\ chan' \in Seq(Seq(Event))
      <4>1. TypeOK'
        BY TypeStep
      <4> QED
        BY <4>1 DEF TypeOK
    <3> QED
      BY <2>2, <3>1
  <2>5. \A i, j \in DOMAIN chan' : i < j => Earlier(Range(chan'[i]), Range(chan'[j]))
    <3> TAKE i, j \in DOMAIN chan'
    <3> HAVE i < j
    <3>1. i \in DOMAIN chan /\ (j \in DOMAIN chan \/ j = Len(chan) + 1)
      BY <2>4
    <3>2. CASE j \in DOMAIN chan
      BY <2>2, <3>1, <3>2 DEF OrderInv
    <3>3. CASE j = Len(chan) + 1
      <4>1. chan'[i] = chan[i] /\ chan'[j] = b /\ chan[i] \in Range(chan)
        BY <2>2, <3>1, <3>3 DEF Range
      <4> QED
        BY <4>1 DEF OrderInv
    <3> QED
      BY <3>1, <3>2, <3>3
  <2>6. ASSUME NEW x \in Range(chan'), NEW w \in Waiting' PROVE Earlier(Range(x), Range(w))
    <3>1. CASE x \in Range(chan)
      BY <2>3, <3>1 DEF OrderInv
    <3>2. CASE x = b
      <4>1. PICK r \in Sources \ {s} : w \in Range(batch[r])
        BY <2>3
      <4>2. Range(w) \subseteq Of(happened, r) /\ Range(b) \subseteq Of(happened, s)
        BY <2>2, <4>1 DEF QueueInv
      <4>3. \A d \in Range(b), e \in Range(w) : d.src # e.src
        BY <4>2 DEF Of
      <4> QED
        BY <3>2, <4>3 DEF Earlier
    <3> QED
      BY <2>2, <3>1, <3>2
  <2> QED
    BY <2>1, <2>3, <2>5, <2>6 DEF OrderInv, Earlier
<1>3. ASSUME PrintMessage PROVE OrderInv'
  <2> DEFINE m == Head(chan)
  <2>1. /\ m = chan[1] /\ 1 \in DOMAIN chan
        /\ DOMAIN chan' = 1 .. Len(chan) - 1 /\ Len(chan) \in Nat \ {0} /\ DOMAIN chan = 1 .. Len(chan)
        /\ \A i \in DOMAIN chan' : chan'[i] = chan[i + 1] /\ i + 1 \in DOMAIN chan
        /\ Range(output') = Range(output) \cup Range(m)
        /\ Range(m) \subseteq Held /\ Held' \subseteq Held /\ m \in Range(chan)
        /\ Waiting' = Waiting /\ Range(chan') \subseteq Range(chan)
    BY <1>3, PrintTakes
  <2> HIDE DEF m
  <2>2. dump' = dump
    BY <1>3 DEF PrintMessage, first
  <2>3. Earlier(Range(m), Held')
    <3>1. ASSUME NEW d \in Range(m), NEW e \in Held', d.src = e.src PROVE d.ts < e.ts
      <4>1. PICK x \in Waiting' \cup Range(chan') : e \in Range(x)
        BY HeldNext
      <4>2. CASE x \in Waiting'
        BY <2>1, <3>1, <4>1, <4>2 DEF OrderInv, Earlier
      <4>3. CASE x \in Range(chan')
        <5>1. PICK i \in DOMAIN chan' : x = chan'[i]
          BY <4>3 DEF Range
        <5>2. x = chan[i + 1] /\ i + 1 \in DOMAIN chan /\ 1 < i + 1
          BY <2>1, <5>1
        <5> QED
          BY <2>1, <3>1, <4>1, <5>2 DEF OrderInv, Earlier
      <4> QED
        BY <4>1, <4>2, <4>3
    <3> QED
      BY <3>1 DEF Earlier
  <2>4. Earlier(Range(dump), Range(output') \cup Held') /\ Earlier(Range(output'), Held')
    BY <2>1, <2>3 DEF OrderInv, Earlier
  <2>5. \A i, j \in DOMAIN chan' : i < j => Earlier(Range(chan'[i]), Range(chan'[j]))
    <3> TAKE i, j \in DOMAIN chan'
    <3> HAVE i < j
    <3>1. i + 1 < j + 1
      BY <2>1
    <3> QED
      BY <2>1, <3>1 DEF OrderInv
  <2> QED
    BY <2>1, <2>2, <2>4, <2>5 DEF OrderInv
<1>4. CASE StartTail \/ Elsewhere
  <2>1. UNCHANGED <<batch, chan, output>> /\ (dump' = dump \/ phase' = "dumped")
    BY <1>4 DEF StartTail, Elsewhere, first
  <2>2. Held' = Held /\ Waiting' = Waiting
    BY <2>1 DEF Held, Waiting
  <2>3. CASE dump' = dump
    BY <2>1, <2>2, <2>3 DEF OrderInv
  <2>4. CASE phase' = "dumped"
    <3>1. QueueInv'
      BY QueueStep
    <3>2. output' = << >> /\ chan' = << >> /\ \A s \in Sources : batch'[s] = << >>
      BY <2>4, <3>1 DEF QueueInv
    <3>3. Range(<< >>) = {}
      BY DEF Range
    <3>4. Waiting' \cup Range(chan') = {} /\ Range(output') = {}
      BY <3>2, <3>3 DEF Waiting
    <3>5. Held' = {}
      BY <3>4, HeldNext
    <3> QED
      BY <2>1, <2>2, <3>4, <3>5 DEF OrderInv, Earlier
  <2> QED
    BY <2>1, <2>3, <2>4
<1> QED
  BY <1>1, <1>2, <1>3, <1>4, StepKinds, Zenon

-----------------------------------------------------------------------------
(* Nothing has happened and nothing is printed when the command starts. *)
LEMMA StartsRight == ASSUME Init PROVE IInv
<1>1. MaxTime \in Nat /\ Len(Order) \in Nat
  BY TailAssumption
<1>2. Range(<< >>) = {} /\ InOrder(<< >>)
  BY DEF Range, InOrder
<1>3. TypeOK
  BY <1>1 DEF Init, TypeOK
<1>4. WorldInv
  BY FS_EmptySet DEF Init, WorldInv, Distinct
<1>5. DumpInv
  BY DEF Init, DumpInv
<1>6. Waiting = {} /\ Range(chan) = {} /\ Range(output) = {} /\ Range(dump) = {} /\ DOMAIN chan = {}
  BY <1>2 DEF Init, Waiting
<1>7. Held = {}
  BY <1>6, HeldIs
<1>8. QueueInv
  <2>1. output = << >> /\ chan = << >> /\ \A s \in Sources : batch[s] = << >>
    BY DEF Init
  <2>2. Len(<< >>) <= 1
    OBVIOUS
  <2> QED
    BY <1>2, <1>6, <2>1, <2>2 DEF QueueInv
<1>9. CutoffInv
  BY DEF Init, CutoffInv
<1>10. OrderInv
  BY <1>6, <1>7 DEF OrderInv, Earlier
<1> QED
  BY <1>3, <1>4, <1>5, <1>8, <1>9, <1>10 DEF IInv

(* Every step of the command keeps the invariant. *)
LEMMA Invariant == Spec => []IInv
<1>1. Init => IInv
  BY StartsRight
<1>2. IInv /\ [Next]_vars => IInv'
  BY TypeStep, WorldStep, DumpStep, QueueStep, CutoffStep, OrderStep DEF IInv
<1> QED
  BY <1>1, <1>2, PTL DEF Spec

-----------------------------------------------------------------------------
(* Every state of the command is of the right types: no cutoff is beyond   *)
(* the clock and nothing is printed that is not an event.                  *)
THEOREM TailTypeCorrect == Spec => []TypeOK
BY Invariant, PTL DEF IInv

(* A sequence in order has nothing twice. *)
LEMMA OrderInjective == ASSUME NEW m \in Seq(Event), InOrder(m) PROVE IsInjective(m)
<1>1. DOMAIN m = 1 .. Len(m) /\ Len(m) \in Nat
  OBVIOUS
<1>2. ASSUME NEW i \in DOMAIN m, NEW j \in DOMAIN m, m[i] = m[j] PROVE i = j
  <2>1. ~(i < j) /\ ~(j < i)
    BY <1>2 DEF InOrder
  <2> QED
    BY <1>1, <2>1
<1> QED
  BY <1>2 DEF IsInjective

(* No line is printed twice, in the dump, by the tail, or by both: a first *)
(* cutoff is not older than anything the dump shows of its source, and     *)
(* each poll asks for what is newer than all that its source has sent.     *)
THEOREM NothingPrintedTwice == Spec => []PrintedOnce
<1>1. IInv => PrintedOnce
  <2> SUFFICES ASSUME IInv PROVE PrintedOnce
    OBVIOUS
  <2> USE DEF IInv
  <2>1. dump \in Seq(Event) /\ InOrder(dump)
    <3>1. CASE phase = "querying"
      BY <3>1 DEF DumpInv, TypeOK, InOrder
    <3>2. CASE phase # "querying"
      BY <3>2, DumpIs
    <3> QED
      BY <3>1, <3>2
  <2>2. output \in Seq(Event) /\ InOrder(output)
    BY DEF TypeOK, QueueInv
  <2>3. Earlier(Range(dump), Range(output))
    BY DEF OrderInv, Earlier
  <2> DEFINE lines == dump \o output
  <2>4. lines \in Seq(Event) /\ InOrder(lines) /\ Range(lines) = Range(dump) \cup Range(output)
    <3>1. InOrder(dump \o output)
      BY <2>1, <2>2, <2>3, OrderConcat
    <3> QED
      BY <2>1, <2>2, <3>1, ConcatProperties, RangeConcatenation
  <2>5. \A d \in Range(dump) \cup Range(output) : d.ts \in Nat
    BY <2>1, <2>2, RangeOfSeq, EventParts
  <2>6. \A d \in Range(dump) \cup Range(output), e \in Held : d.src = e.src => d.ts < e.ts
    BY DEF OrderInv, Earlier
  <2> HIDE DEF lines
  <2>7. IsInjective(lines)
    BY <2>4, OrderInjective
  <2>8. Held \cap Range(lines) = {}
    BY <2>4, <2>5, <2>6
  <2> QED
    BY <2>7, <2>8 DEF PrintedOnce, lines
<1> QED
  BY <1>1, Invariant, PTL

(* However polls and sends interleave and however long the channel makes   *)
(* them wait, the tail prints each source's events in the order in which   *)
(* they happened.                                                          *)
THEOREM SourcesPrintInOrder == Spec => []EachSourceInOrder
<1>1. IInv => EachSourceInOrder
  BY DEF IInv, QueueInv, InOrder, EachSourceInOrder
<1> QED
  BY <1>1, Invariant, PTL

(* Every Warning or Error of the first answers is in the dump, for every   *)
(* first_n and last_n that do not both vanish.                             *)
THEOREM TroubleAlwaysDumped == Spec => []TroubleIsDumped
<1>1. IInv => TroubleIsDumped
  BY DumpIs DEF IInv, TroubleIsDumped
<1> QED
  BY <1>1, Invariant, PTL

(* Exit code 1 goes with an empty dump and with no other, 0 never with a   *)
(* source that did not answer, whatever the tail prints later.             *)
THEOREM CodeAgreesWithDump == Spec => []ExitCodeMatchesDump
<1>1. IInv => ExitCodeMatchesDump
  BY DumpIs DEF IInv, ExitCodeMatchesDump, ExitCode
<1> QED
  BY <1>1, Invariant, PTL
=============================================================================
