------------------------------ MODULE BootProbe ------------------------------
(***************************************************************************)
(* nico-common boot_probe/: the steps of a boot, their states, and what    *)
(* the terminal, the log or the JSON document shows of them.               *)
(*                                                                         *)
(* A probe is a record: mode ("tty", "plain" or "json"); ids, its steps in *)
(* order; steps, a function from the steps to their states; reach, the     *)
(* mode and where it comes from; namespace and grpc, what two labels say;  *)
(* type and source; warnings; ib; lines, how often the log had a line for  *)
(* a step; painted, the block on the terminal; ticking; outcome.  Elapsed  *)
(* times, wording and colours are left out.                                *)
(***************************************************************************)
EXTENDS Naturals, Sequences, SequencesExt, FiniteSetsExt, Sorting

(* The three sections, and standard_steps, in order, which nico doctor walks *)
Connecting == <<"LoadKubeconfig", "ReachApiServer", "DetectDeploymentType">>
Validating == <<"Credentials", "NamespaceExists", "Rbac">>
Serving    == <<"PortForwardWorkflows", "PortForwardGrpc", "PortForwardPostgres",
                "ReachPostgres", "DetectInfinibandPresent">>
Sections   == <<Range(Connecting), Range(Validating), Range(Serving)>>

StandardSteps == Connecting \o Validating \o Serving

(* correlate_steps of nico-correlate *)
CorrelateSteps ==
  <<"LoadKubeconfig", "ReachApiServer", "PortForwardWorkflows", "PortForwardPostgres", "ReachPostgres">>

(* StepState: a failure says whether it was the budget that ran out. *)
Failures == {"Failed", "TimedOut"}
Terminal == {"Passed", "Skipped"} \cup Failures

StepsIn(p, states) == Chosen(p.ids, {i \in DOMAIN p.ids : p.steps[p.ids[i]] \in states})

CompletedCount(p) == Len(StepsIn(p, Terminal))
AnyFailed(p)      == StepsIn(p, Failures) # << >>

FirstFailure_Last(p) == Last(StepsIn(p, Failures))

(* The first in the order of the steps, not in time. *)
FirstFailure(p) == Head(StepsIn(p, Failures))

-----------------------------------------------------------------------------
(* BootProbeBlock::lines *)
Glyph(state) ==
  CASE state = "Pending" -> "empty" [] state = "Active" -> "throbber" [] state = "Passed" -> "check"
    [] state \in Failures -> "cross" [] state = "Skipped" -> "dash"

Label(p, id) ==
  CASE id = "NamespaceExists" -> <<id, p.namespace>>
    [] id = "PortForwardGrpc" -> <<id, p.grpc>>
    [] OTHER                  -> <<id>>

HeaderLine(p) ==
  [reach |-> p.reach,
   type  |-> IF p.type = << >> THEN <<"auto">> ELSE <<p.type[1], p.source>>,
   ib    |-> CASE p.ib = <<TRUE>> -> "present" [] p.ib = <<FALSE>> -> "absent" [] p.ib = << >> -> "unknown"]

Rows(p, section) == Chosen(p.ids, {i \in DOMAIN p.ids : p.ids[i] \in section})

SectionLines(p, rows) ==
  IF rows = << >> THEN << >>
  ELSE <<"blank", "section">> \o [i \in DOMAIN rows |-> <<Glyph(p.steps[rows[i]]), Label(p, rows[i])>>]

(* bar_line: a chit is filled from the moment its step starts, while the   *)
(* count goes by the steps that have ended.                                *)
BarLine(p) ==
  [chits |-> [i \in DOMAIN p.ids |-> p.steps[p.ids[i]] # "Pending"],
   done  |-> CompletedCount(p), of |-> Len(p.ids)]

Block(p) ==
  LET lines == [k \in DOMAIN Sections |-> SectionLines(p, Rows(p, Sections[k]))]
  IN  << HeaderLine(p) >> \o p.warnings \o lines[1] \o lines[2] \o lines[3] \o <<"blank", BarLine(p)>>

(* rendered_line_count, the height the viewport is opened with *)
RenderedLineCount(p) ==
  LET present == {k \in DOMAIN Sections : \E i \in DOMAIN p.ids : p.ids[i] \in Sections[k]}
  IN  1 + Len(p.warnings) + 2 * Cardinality(present) + Len(p.ids) + 2

(* repaint_tty: a viewport of another height replaces the one there is. *)
Repaint(p) ==
  IF p.mode = "tty" THEN [p EXCEPT !.painted = << SubSeq(Block(p), 1, RenderedLineCount(p)) >>] ELSE p

(* emit_log_for each of ids; transition_line: pending and active steps     *)
(* have none.                                                              *)
EmitLog(p, ids) ==
  LET told == {id \in ids : p.mode = "plain" /\ p.steps[id] \in Terminal}
  IN  [p EXCEPT !.lines = [id \in DOMAIN p.lines |-> IF id \in told THEN p.lines[id] + 1 ELSE p.lines[id]]]

-----------------------------------------------------------------------------
(* BootProbe::new and start_ticking; banner has the reach, the labels, the *)
(* type and its source, and the warnings.                                  *)
NewProbe(mode, ids, banner) ==
  [mode |-> mode, ids |-> ids, steps |-> [id \in Range(ids) |-> "Pending"], lines |-> [id \in Range(ids) |-> 0],
   reach |-> banner.reach, namespace |-> banner.namespace, grpc |-> banner.grpc, type |-> banner.type,
   source |-> banner.source, warnings |-> banner.warnings, ib |-> << >>,
   painted |-> << >>, ticking |-> mode = "tty", outcome |-> << >>]

SetStates(p, ids, state) ==
  LET steps == [id \in DOMAIN p.steps |-> IF id \in ids THEN state ELSE p.steps[id]]
  IN  Repaint(EmitLog([p EXCEPT !.steps = steps], ids))

(* Tracker::finished and, to "Active", Tracker::started *)
SetState(p, id, state) == SetStates(p, {id}, state)

Started(p, id) == SetState(p, id, "Active")

(* Tracker::skip_remaining: only what has not started is skipped. *)
SkipRemaining(p, ids) ==
  SetStates(p, {id \in ids \cap DOMAIN p.steps : p.steps[id] = "Pending"}, "Skipped")

SetNamespace(p, ns)        == Repaint([p EXCEPT !.namespace = ns])
SetGrpc(p, addr)           == Repaint([p EXCEPT !.grpc = addr])
SetType(p, type, source)   == Repaint([p EXCEPT !.type = type, !.source = source])
SetWarnings_Silent(p, ws)  == [p EXCEPT !.warnings = ws]
SetWarnings(p, ws)         == Repaint([p EXCEPT !.warnings = ws])
SetInfinibandPresent(p, v) == Repaint([p EXCEPT !.ib = v])

(* failure_document and success_document: the siblings of the failed step  *)
(* are the others of its section.                                          *)
SectionOf(id) == CHOOSE k \in DOMAIN Sections : id \in Sections[k]

StepValue(p, id) == <<id, p.steps[id]>>

FailureDocument(p, ns) ==
  LET failed   == FirstFailure(p)
      siblings == Chosen(p.ids, {i \in DOMAIN p.ids : SectionOf(p.ids[i]) = SectionOf(failed) /\ p.ids[i] # failed})
  IN  [ok |-> FALSE, namespace |-> ns, failed |-> failed, timedOut |-> p.steps[failed] = "TimedOut",
       siblings |-> [i \in DOMAIN siblings |-> StepValue(p, siblings[i])],
       skipped  |-> StepsIn(p, {"Skipped"})]

SuccessDocument(p, ns) ==
  [ok |-> TRUE, namespace |-> ns, steps |-> [i \in DOMAIN p.ids |-> StepValue(p, p.ids[i])]]

(* finish_failure and finish_success stop the ticker and leave the last    *)
(* block where it is; a card or a receipt goes below it.                   *)
Finish(p, document) == [p EXCEPT !.ticking = FALSE, !.outcome = << document >>]

FinishFailure(p, ns) == Finish(p, FailureDocument(p, ns))
FinishSuccess(p, ns) == Finish(p, SuccessDocument(p, ns))
=============================================================================
