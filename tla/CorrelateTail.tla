--------------------------- MODULE CorrelateTail ---------------------------
(***************************************************************************)
(* nico correlate <id> --tail.  The sources are queried one after another, *)
(* the merged timeline is trimmed and printed, and then one poller per     *)
(* source that answered prints what is newer than a cutoff, until Ctrl-C.  *)
(*                                                                         *)
(* An event carries the clock reading at which it happened and is visible  *)
(* to queries from then on; Ties events of a source may share a reading,   *)
(* as the second-grained timestamps of Kubernetes do.                      *)
(*                                                                         *)
(* A source may be reached through a forwarded port.  The forwards are     *)
(* closed when the sources have answered, before the tail: connections     *)
(* made by then live on until they break, new ones are refused for good.   *)
(***************************************************************************)
EXTENDS Naturals, FiniteSets, SequencesExt, FiniteSetsExt, Sorting

CONSTANTS
  Order,      \* the sources, in the order they are queried
  Dialing,    \* those that connect anew for every query, as Temporal's client does
  FirstN,     \* filter_timeline's first_n
  LastN,      \* filter_timeline's last_n
  Cap,        \* capacity of the tail channel
  Ties,       \* bound: events of one source at one clock reading
  MaxEvents,  \* bound: events in all
  MaxTime     \* bound: the clock stops here

Sources    == ToSet(Order)
Severities == {"info", "trouble"}   \* trouble: Warning or Error
Event      == [src : Sources, ts : 0 .. MaxTime, n : 1 .. Ties, sev : Severities]

ASSUME TailAssumption ==
  /\ Order \in Seq(Sources) /\ IsInjective(Order) /\ Dialing \subseteq Sources
  /\ FirstN \in Nat /\ LastN \in Nat /\ FirstN + LastN > 0
  /\ Cap \in Nat \ {0} /\ Ties \in Nat /\ MaxEvents \in Nat /\ MaxTime \in Nat

VARIABLES
  now,       \* the clock
  happened,  \* the events that have happened at the sources
  gone,      \* the sources that can be reached no more, for good
  phase,     \* querying, dumped, tailing, stopped or ended
  asked,     \* how many sources have answered the first query
  answers,   \* the events each of them answered with
  failed,    \* the sources that answered Unavailable
  dump,      \* the trimmed timeline, as printed
  began,     \* the clock when run_tail began, 0 before
  cutoff,    \* each tailed source's cutoff; 0 before
  batch,     \* << >>, or the one message a poller waits to send
  chan,      \* the tail channel
  output     \* the events printed while tailing

vars == <<now, happened, gone, phase, asked, answers, failed, dump, began, cutoff, batch, chan,
          output>>
world == <<now, happened, gone>>
first == <<asked, answers, failed, dump>>

Of(S, s)  == {e \in S : e.src = s}
Newest(S) == Max({e.ts : e \in S})
Rank(s)   == CHOOSE i \in DOMAIN Order : Order[i] = s
Tailed    == {Order[i] : i \in 1 .. asked} \ failed

(* A stable sort by timestamp of the answers in query order. *)
Before(d, e) == \/ d.ts < e.ts
                \/ d.ts = e.ts /\ Rank(d.src) < Rank(e.src)
                \/ d.ts = e.ts /\ d.src = e.src /\ d.n < e.n

Timeline(S) == Sorted(S, {p \in S \X S : Before(p[1], p[2])})

FilterTimeline_OnlyEnds(S) ==
  LET t == Timeline(S)
  IN  IF Len(t) <= FirstN + LastN THEN t
      ELSE SubSeq(t, 1, FirstN) \o SubSeq(t, Len(t) - LastN + 1, Len(t))

(* The first and the last events of a timeline, and its troubles. *)
FilterTimeline(S) ==
  LET t    == Timeline(S)
      ends == 1 .. FirstN \cup (Len(t) - LastN + 1) .. Len(t)
      keep == {i \in DOMAIN t : i \in ends \/ t[i].sev = "trouble"}
  IN  IF Len(t) <= FirstN + LastN THEN t ELSE Timeline({t[i] : i \in keep})

-----------------------------------------------------------------------------
Init ==
  /\ now = 0 /\ happened = {} /\ gone = {}
  /\ phase = "querying" /\ asked = 0
  /\ answers = [s \in Sources |-> {}] /\ failed = {}
  /\ dump = << >>
  /\ began = 0 /\ cutoff = [s \in Sources |-> 0]
  /\ batch = [s \in Sources |-> << >>]
  /\ chan = << >> /\ output = << >>

(* An event happens at source s, now. *)
Happen(s, sev) ==
  LET n == Cardinality({e \in Of(happened, s) : e.ts = now}) + 1
  IN  /\ phase \notin {"stopped", "ended"}
      /\ n <= Ties /\ Cardinality(happened) < MaxEvents
      /\ happened' = happened \cup {[src |-> s, ts |-> now, n |-> n, sev |-> sev]}
      /\ UNCHANGED <<now, gone, phase, first, began, cutoff, batch, chan, output>>

TimePasses ==
  /\ phase \notin {"stopped", "ended"} /\ now < MaxTime
  /\ now' = now + 1
  /\ UNCHANGED <<happened, gone, phase, first, began, cutoff, batch, chan, output>>

(* A connection that would have to be made again through a closed forward  *)
(* breaks, or the source is gone altogether.                               *)
GoesForGood(s) ==
  /\ phase = "tailing" /\ s \notin gone
  /\ gone' = gone \cup {s}
  /\ UNCHANGED <<now, happened, phase, first, began, cutoff, batch, chan, output>>

(* collect_all awaits one source after another. *)
Collect ==
  /\ phase = "querying" /\ asked < Len(Order)
  /\ asked' = asked + 1
  /\ LET s == Order[asked + 1]
     IN  \/ answers' = [answers EXCEPT ![s] = Of(happened, s)] /\ UNCHANGED failed
         \/ failed' = failed \cup {s} /\ UNCHANGED answers
  /\ UNCHANGED <<world, phase, dump, began, cutoff, batch, chan, output>>

Collected == UNION Range(answers)

ExitCode_Unavailable == IF failed # {} THEN 2 ELSE IF Collected = {} THEN 1 ELSE 0

(* exit_code, of the first answers whether or not a tail follows. *)
ExitCode == IF Collected = {} THEN 1 ELSE IF failed # {} THEN 2 ELSE 0

(* The forwards are dropped, whichever of the sources had one, and the     *)
(* timeline is printed.                                                    *)
PrintDump ==
  /\ phase = "querying" /\ asked = Len(Order)
  /\ phase' = "dumped"
  /\ \E forwarded \in SUBSET Dialing : gone' = forwarded
  /\ dump' = FilterTimeline(Collected)
  /\ UNCHANGED <<now, happened, asked, answers, failed, began, cutoff, batch, chan, output>>

WithoutTail ==
  /\ phase = "dumped"
  /\ phase' = "ended"
  /\ UNCHANGED <<world, first, began, cutoff, batch, chan, output>>

FirstCutoff_RoundsUp(s, start) ==
  LET shown == Of(Range(dump), s) IN IF shown = {} THEN start + 1 ELSE Newest(shown)

(* A source's first cutoff is its newest printed event, or the moment at   *)
(* which run_tail began when none of its events was printed.               *)
FirstCutoff(s, start) ==
  LET shown == Of(Range(dump), s) IN IF shown = {} THEN start ELSE Newest(shown)

StartTail ==
  /\ phase = "dumped"
  /\ phase' = IF Tailed = {} THEN "ended" ELSE "tailing"
  /\ began' = now
  /\ cutoff' = [s \in Sources |-> IF s \in Tailed THEN FirstCutoff(s, now) ELSE 0]
  /\ UNCHANGED <<world, first, batch, chan, output>>

PollNews_ArrivalOrder(s) ==
  LET new == {e \in Of(happened, s) : e.ts > cutoff[s]}
  IN  /\ phase = "tailing" /\ s \in Tailed \ gone /\ batch[s] = << >>
      /\ new # {}
      /\ \E order \in {f \in [1 .. Cardinality(new) -> new] : IsInjective(f)} :
           batch' = [batch EXCEPT ![s] = <<order>>]
      /\ cutoff' = [cutoff EXCEPT ![s] = Newest(new)]
      /\ UNCHANGED <<world, phase, first, began, chan, output>>

PollNews_AtCutoff(s) ==
  LET new == {e \in Of(happened, s) : e.ts >= cutoff[s]}
  IN  /\ phase = "tailing" /\ s \in Tailed \ gone /\ batch[s] = << >>
      /\ new # {}
      /\ batch' = [batch EXCEPT ![s] = <<Timeline(new)>>]
      /\ cutoff' = [cutoff EXCEPT ![s] = Newest(new)]
      /\ UNCHANGED <<world, phase, first, began, chan, output>>

(* A poller wakes and its source answers with something new. *)
PollNews(s) ==
  LET new == {e \in Of(happened, s) : e.ts > cutoff[s]}
  IN  /\ phase = "tailing" /\ s \in Tailed \ gone /\ batch[s] = << >>
      /\ new # {}
      /\ batch' = [batch EXCEPT ![s] = <<Timeline(new)>>]
      /\ cutoff' = [cutoff EXCEPT ![s] = Newest(new)]
      /\ UNCHANGED <<world, phase, first, began, chan, output>>

(* The source answers Unavailable, now or ever after: an error message,    *)
(* without events.                                                         *)
PollUnavailable(s) ==
  /\ phase = "tailing" /\ s \in Tailed /\ batch[s] = << >>
  /\ batch' = [batch EXCEPT ![s] = << << >> >>]
  /\ UNCHANGED <<world, phase, first, began, cutoff, chan, output>>

SendBatch_Try(s) ==
  /\ phase = "tailing" /\ batch[s] # << >>
  /\ chan' = IF Len(chan) < Cap THEN chan \o batch[s] ELSE chan
  /\ batch' = [batch EXCEPT ![s] = << >>]
  /\ UNCHANGED <<world, phase, first, began, cutoff, output>>

SendBatch(s) ==
  /\ phase = "tailing" /\ batch[s] # << >> /\ Len(chan) < Cap
  /\ chan' = chan \o batch[s]
  /\ batch' = [batch EXCEPT ![s] = << >>]
  /\ UNCHANGED <<world, phase, first, began, cutoff, output>>

PrintMessage ==
  /\ phase = "tailing" /\ chan # << >>
  /\ output' = output \o Head(chan)
  /\ chan' = Tail(chan)
  /\ UNCHANGED <<world, phase, first, began, cutoff, batch>>

CtrlC ==
  /\ phase = "tailing"
  /\ phase' = "stopped"
  /\ UNCHANGED <<world, first, began, cutoff, batch, chan, output>>

Environment ==
  TimePasses \/ \E s \in Sources : GoesForGood(s) \/ \E sev \in Severities : Happen(s, sev)

Next ==
  \/ Environment
  \/ Collect \/ PrintDump \/ WithoutTail \/ StartTail
  \/ \E s \in Sources : PollNews(s) \/ PollUnavailable(s) \/ SendBatch(s)
  \/ PrintMessage \/ CtrlC

(* Pollers and printer are polled by the runtime; a poller wakes every     *)
(* five seconds.  A source answers now and then as long as it is not gone; *)
(* nothing keeps it from going, at any moment of the tail.                 *)
Fairness ==
  /\ WF_vars(PrintMessage)
  /\ \A s \in Sources : SF_vars(PollNews(s)) /\ SF_vars(SendBatch(s))

Spec == Init /\ [][Next]_vars
FairSpec == Spec /\ Fairness

-----------------------------------------------------------------------------
TypeOK ==
  /\ now \in 0 .. MaxTime /\ happened \subseteq Event /\ gone \subseteq Sources
  /\ phase \in {"querying", "dumped", "tailing", "stopped", "ended"}
  /\ asked \in 0 .. Len(Order)
  /\ answers \in [Sources -> SUBSET Event] /\ failed \subseteq Sources
  /\ dump \in Seq(Event)
  /\ began \in 0 .. MaxTime /\ cutoff \in [Sources -> 0 .. MaxTime]
  /\ batch \in [Sources -> Seq(Seq(Event))]
  /\ chan \in Seq(Seq(Event)) /\ output \in Seq(Event)

(* The events a poller or the channel holds. *)
Held == UNION {Range(m) : m \in (UNION {Range(batch[s]) : s \in Sources}) \cup Range(chan)}

(* No line is printed twice: what the dump showed is not tailed again, and *)
(* a poll does not repeat an earlier one, queued or printed.               *)
PrintedOnce ==
  /\ IsInjective(dump \o output)
  /\ Held \cap Range(dump \o output) = {}

(* Each source's lines come in the order in which its events happened,     *)
(* from the tail's first line on, however polls and sends interleave.      *)
EachSourceInOrder ==
  \A i, j \in DOMAIN output :
    i < j /\ output[i].src = output[j].src => output[i].ts <= output[j].ts

(* No trouble a source has told of is left out: every Warning or Error of  *)
(* the first answers is in the dump, wherever in the timeline it lies.     *)
TroubleIsDumped ==
  phase # "querying" =>
    \A e \in Collected : e.sev = "trouble" => e \in Range(dump)

(* The exit code and the dump agree: 1 exactly when nothing was found, 0   *)
(* only when every source answered.                                        *)
ExitCodeMatchesDump ==
  phase # "querying" =>
    /\ ExitCode = 1 <=> dump = << >>
    /\ ExitCode = 0 => failed = {}

(* Whatever is newer than a source's first cutoff is printed in the end,   *)
(* unless the user stops the tail or the source goes before it was polled: *)
(* a full channel or a failed poll only delays it, and what was polled is  *)
(* printed though the source go.  Not so for events that share a           *)
(* timestamp: one that comes after a poll has seen the other is skipped.   *)
Owed(s) ==
  /\ phase = "tailing" /\ s \in Tailed
  /\ \E e \in Of(happened, s) \ Range(output) :
       /\ e.ts > FirstCutoff(s, began)
       /\ s \in gone => e.ts <= cutoff[s]
       /\ \A d \in Of(happened, s) : d.ts = e.ts => d = e

TailCatchesUp == \A s \in Sources : []<>~Owed(s)

(* "the tail starts exactly where the initial dump ended" (tail.rs:36): an *)
(* event that happened after its source's first answer is not older than   *)
(* the cutoff the tail begins with.                                        *)
TailStartsWhereDumpEnded ==
  [][StartTail => \A s \in Tailed : \A e \in Of(happened, s) \ answers[s] : e.ts >= cutoff'[s]]_vars
=============================================================================
