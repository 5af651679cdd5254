---------------------------- MODULE OpsEntities ----------------------------
(***************************************************************************)
(* Where the correlate popup finds the entity it opens on: the extraction  *)
(* primitive of nico ops (entity_extraction.rs), the finding fallback of   *)
(* model.rs, and the identifier prefixes of nico correlate (id.rs).        *)
(*                                                                         *)
(* A text is a sequence of words and separators.  A word is a maximal run  *)
(* of the characters [A-Za-z0-9_-]; a separator is one other character, of *)
(* which the code tells five sorts apart: " " and "," may stand on either  *)
(* side of an identifier, "[" only before it, "]" only after it, "/" on    *)
(* neither; " " also splits a text into chunks.                            *)
(***************************************************************************)
EXTENDS Naturals, Sequences, SequencesExt

CONSTANT Stem   \* the words, each with what it starts with

ASSUME StemAssumption ==
  \A w \in DOMAIN Stem : Stem[w] \in {"hp", "wf", "host", "dpu", "req", "machine", "plain"}

IsWord(x) == x \in DOMAIN Stem

IdTypeOf(stem) ==
  CASE stem \in {"hp", "wf"} -> "Workflow"
    [] stem = "host"         -> "Host"
    [] stem = "dpu"          -> "Dpu"
    [] stem = "req"          -> "Request"
    [] OTHER                 -> "none"

(* detect_id_type of a chunk that starts with a word (or is empty): the    *)
(* prefix decides whatever follows, while a machine id, at least 26        *)
(* characters without a prefix, must be a word of its own.                 *)
DetectIdType(chunk) ==
  IF chunk = << >> THEN "none"
  ELSE IF Stem[chunk[1]] = "machine" /\ Len(chunk) = 1 THEN "Host"
  ELSE IdTypeOf(Stem[chunk[1]])

(* trim_outer_punct *)
Trimmed(chunk) ==
  LET words == {i \in DOMAIN chunk : IsWord(chunk[i])}
  IN  IF words = {} THEN << >> ELSE SubSeq(chunk, Min(words), Max(words))

Chunks(text) ==
  LET cuts == SetToSortSeq({0, Len(text) + 1} \cup {i \in DOMAIN text : text[i] = " "}, <)
  IN  [k \in 1 .. Len(cuts) - 1 |-> Trimmed(SubSeq(text, cuts[k] + 1, cuts[k + 1] - 1))]

Entity(chunk, confidence) ==
  [id |-> chunk, type |-> DetectIdType(chunk), confidence |-> confidence]

(* The first chunk that is an identifier, as a sequence of at most one. *)
FirstEntity(chunks, confidence) ==
  LET found == {k \in DOMAIN chunks : DetectIdType(chunks[k]) # "none"}
  IN  IF found = {} THEN << >> ELSE << Entity(chunks[Min(found)], confidence) >>

InSpotlightRow(text) == FirstEntity(<< Trimmed(text) >>, "Explicit")

(* The last argument of a command line that is an identifier. *)
InNextCommand(text) == FirstEntity(Reverse(Chunks(text)), "Parsed")

(* extract_entity_from_finding, on a Finding's message. *)
InMessage(text) == FirstEntity(Chunks(text), "Heuristic")

LeftBoundary  == {" ", ",", "["}
RightBoundary == {" ", ",", "]"}

(* log_line_matches: every word that is an identifier between boundaries. *)
InLogLine(text) ==
  LET Bounded(i) == /\ i = 1 \/ text[i - 1] \in LeftBoundary
                    /\ i = Len(text) \/ text[i + 1] \in RightBoundary
      hits == {i \in DOMAIN text : /\ IsWord(text[i])
                                   /\ Bounded(i)
                                   /\ DetectIdType(<< text[i] >>) # "none"}
  IN  [k \in 1 .. Cardinality(hits) |->
         Entity(<< text[SetToSortSeq(hits, <)[k]] >>, "Heuristic")]

TagLabels == << "host_id", "dpu_id", "workflow_id", "request_id" >>
LabelType == << "Host", "Dpu", "Workflow", "Request" >>

(* tag_lookup: the first tag of each label counts, in the table's order,   *)
(* and only with a value.                                                  *)
FromTags(tags) ==
  LET First(label) == SelectInSeq(tags, LAMBDA t : t.label = label)
      set == {k \in 1 .. 4 : First(TagLabels[k]) > 0 /\ tags[First(TagLabels[k])].value # << >>}
  IN  IF set = {} THEN << >>
      ELSE << [id |-> tags[First(TagLabels[Min(set)])].value,
               type |-> LabelType[Min(set)], confidence |-> "Explicit"] >>

(* An event row: its tags, or else what its text mentions. *)
InEventRow(text, tags) == IF FromTags(tags) # << >> THEN FromTags(tags) ELSE InLogLine(text)
=============================================================================
