---------------------------- MODULE NicoRunProofs ----------------------------
(***************************************************************************)
(* Theorems about invocations one after the other, for every set of        *)
(* invocations, every world they meet and every number of reruns.          *)
(***************************************************************************)
EXTENDS NicoRun, SortingProofs, WellFoundedInduction

StepNames == Range(Connecting) \cup Range(Validating) \cup Range(Serving)

(* The steps one by one, and that each belongs to one section.             *)
LEMMA StepsAre ==
  /\ Range(Connecting) = {"LoadKubeconfig", "ReachApiServer", "DetectDeploymentType"}
  /\ Range(Validating) = {"Credentials", "NamespaceExists", "Rbac"}
  /\ Range(Serving) = {"PortForwardWorkflows", "PortForwardGrpc", "PortForwardPostgres",
                       "ReachPostgres", "DetectInfinibandPresent"}
  /\ StandardSteps \in Seq(StepNames) /\ CorrelateSteps \in Seq(StepNames) /\ DOMAIN StandardSteps = 1 .. 11
  /\ \A i \in 1 .. 3 : StandardSteps[i] = Connecting[i]
  /\ \A i \in 4 .. 6 : StandardSteps[i] = Validating[i - 3]
  /\ \A i \in 7 .. 11 : StandardSteps[i] = Serving[i - 6]
  /\ Range(StandardSteps) = StepNames
  /\ Range(CorrelateSteps) \subseteq Range(StandardSteps)
<1>1. Range(Connecting) = {"LoadKubeconfig", "ReachApiServer", "DetectDeploymentType"}
  BY DEF Connecting, Range
<1>2. Range(Validating) = {"Credentials", "NamespaceExists", "Rbac"}
  BY DEF Validating, Range
<1>3. Range(Serving) = {"PortForwardWorkflows", "PortForwardGrpc", "PortForwardPostgres",
                        "ReachPostgres", "DetectInfinibandPresent"}
  BY DEF Serving, Range
<1>4. /\ Connecting \in Seq(StepNames) /\ Len(Connecting) = 3
      /\ Validating \in Seq(StepNames) /\ Len(Validating) = 3
      /\ Serving \in Seq(StepNames) /\ Len(Serving) = 5
      /\ CorrelateSteps \in Seq(StepNames)
  <2>1. Connecting \in Seq(Range(Connecting)) /\ Len(Connecting) = 3
    BY <1>1 DEF Connecting
  <2>2. Validating \in Seq(Range(Validating)) /\ Len(Validating) = 3
    BY <1>2 DEF Validating
  <2>3. Serving \in Seq(Range(Serving)) /\ Len(Serving) = 5
    BY <1>3 DEF Serving
  <2>4. /\ {"LoadKubeconfig", "ReachApiServer", "PortForwardWorkflows", "PortForwardPostgres",
            "ReachPostgres"} \subseteq StepNames
        /\ CorrelateSteps \in Seq({"LoadKubeconfig", "ReachApiServer", "PortForwardWorkflows",
                                   "PortForwardPostgres", "ReachPostgres"})
    BY <1>1, <1>3 DEF CorrelateSteps, StepNames
  <2>5. \A T : T \subseteq StepNames => Seq(T) \subseteq Seq(StepNames)
    OBVIOUS
  <2> QED
    BY <2>1, <2>2, <2>3, <2>4, <2>5 DEF StepNames
<1> DEFINE opening == Connecting \o Validating
<1>5. /\ opening \in Seq(StepNames) /\ Len(opening) = 6
      /\ \A i \in 1 .. 6 : opening[i] = IF i <= 3 THEN Connecting[i] ELSE Validating[i - 3]
  <2>1. /\ opening \in Seq(StepNames) /\ Len(opening) = Len(Connecting) + Len(Validating)
        /\ \A i \in 1 .. Len(Connecting) + Len(Validating) :
              opening[i] = IF i <= Len(Connecting) THEN Connecting[i] ELSE Validating[i - Len(Connecting)]
    BY <1>4, ConcatProperties, Zenon
  <2> HIDE DEF opening
  <2> QED
    BY <1>4, <2>1
<1> HIDE DEF opening
<1>6. /\ StandardSteps \in Seq(StepNames) /\ Len(StandardSteps) = 11
      /\ \A i \in 1 .. 6 : StandardSteps[i] = opening[i]
      /\ \A i \in 7 .. 11 : StandardSteps[i] = Serving[i - 6]
  <2>1. StandardSteps = opening \o Serving
    BY DEF StandardSteps, opening
  <2>2. /\ opening \o Serving \in Seq(StepNames) /\ Len(opening \o Serving) = Len(opening) + Len(Serving)
        /\ \A i \in 1 .. Len(opening) + Len(Serving) :
              (opening \o Serving)[i] = IF i <= Len(opening) THEN opening[i] ELSE Serving[i - Len(opening)]
    BY <1>4, <1>5, ConcatProperties, Zenon
  <2>3. /\ StandardSteps \in Seq(StepNames) /\ Len(StandardSteps) = Len(opening) + Len(Serving)
        /\ \A i \in 1 .. Len(opening) + Len(Serving) :
              StandardSteps[i] = IF i <= Len(opening) THEN opening[i] ELSE Serving[i - Len(opening)]
    BY <2>1, <2>2, Zenon
  <2> QED
    BY <1>4, <1>5, <2>3
<1>7. /\ \A i \in 1 .. 3 : StandardSteps[i] = Connecting[i]
      /\ \A i \in 4 .. 6 : StandardSteps[i] = Validating[i - 3]
  BY <1>5, <1>6
<1>8. DOMAIN StandardSteps = 1 .. 11
  BY <1>6
<1>9. DOMAIN Connecting = 1 .. 3 /\ DOMAIN Validating = 1 .. 3 /\ DOMAIN Serving = 1 .. 5
  BY <1>4
<1>10. Range(StandardSteps) = StepNames
  <2>1. ASSUME NEW i \in 1 .. 11
        PROVE  StandardSteps[i] \in StepNames
    <3>1. CASE i \in 1 .. 3
      BY <1>7, <1>9, <3>1 DEF Range, StepNames
    <3>2. CASE i \in 4 .. 6
      <4>1. i - 3 \in 1 .. 3
        BY <3>2
      <4> QED
        BY <1>7, <1>9, <3>2, <4>1 DEF Range, StepNames
    <3>3. CASE i \in 7 .. 11
      <4>1. i - 6 \in 1 .. 5
        BY <3>3
      <4> QED
        BY <1>6, <1>9, <3>3, <4>1 DEF Range, StepNames
    <3>4. i \in 1 .. 3 \/ i \in 4 .. 6 \/ i \in 7 .. 11
      OBVIOUS
    <3> QED
      BY <3>1, <3>2, <3>3, <3>4
  <2>2. ASSUME NEW i \in 1 .. 3 PROVE Connecting[i] \in Range(StandardSteps)
    BY <1>7, <1>8 DEF Range
  <2>3. ASSUME NEW i \in 1 .. 3 PROVE Validating[i] \in Range(StandardSteps)
    <3>1. i + 3 \in 4 .. 6 /\ i + 3 \in 1 .. 11 /\ (i + 3) - 3 = i
      OBVIOUS
    <3>2. StandardSteps[i + 3] = Validating[i]
      BY <1>7, <3>1
    <3> QED
      BY <1>8, <3>1, <3>2 DEF Range
  <2>4. ASSUME NEW i \in 1 .. 5 PROVE Serving[i] \in Range(StandardSteps)
    <3>1. i + 6 \in 7 .. 11 /\ i + 6 \in 1 .. 11 /\ (i + 6) - 6 = i
      OBVIOUS
    <3>2. StandardSteps[i + 6] = Serving[i]
      BY <1>6, <3>1
    <3> QED
      BY <1>8, <3>1, <3>2 DEF Range
  <2>5. Range(StandardSteps) \subseteq StepNames
    BY <1>8, <2>1 DEF Range
  <2>6. /\ Range(Connecting) \subseteq Range(StandardSteps) /\ Range(Validating) \subseteq Range(StandardSteps)
        /\ Range(Serving) \subseteq Range(StandardSteps)
    BY <1>9, <2>2, <2>3, <2>4 DEF Range
  <2> QED
    BY <2>5, <2>6 DEF StepNames
<1>11. Range(CorrelateSteps) \subseteq Range(StandardSteps)
  <2>1. Range(CorrelateSteps) = {"LoadKubeconfig", "ReachApiServer", "PortForwardWorkflows",
                                 "PortForwardPostgres", "ReachPostgres"}
    BY DEF CorrelateSteps, Range
  <2> QED
    BY <1>1, <1>3, <1>10, <2>1 DEF StepNames
<1> QED
  BY <1>1, <1>2, <1>3, <1>4, <1>6, <1>7, <1>8, <1>10, <1>11

(* Three sets that have nothing in common add up.                          *)
LEMMA ThreeParts ==
  ASSUME NEW S1, NEW S2, NEW S3, IsFiniteSet(S1), IsFiniteSet(S2), IsFiniteSet(S3),
         S1 \cap S2 = {}, S1 \cap S3 = {}, S2 \cap S3 = {}
  PROVE  /\ Cardinality(S1 \cup S2 \cup S3) = Cardinality(S1) + Cardinality(S2) + Cardinality(S3)
         /\ Cardinality(S1) \in Nat /\ Cardinality(S2) \in Nat /\ Cardinality(S3) \in Nat
<1>1. Cardinality(S1) \in Nat /\ Cardinality(S2) \in Nat /\ Cardinality(S3) \in Nat
  BY FS_CardinalityType
<1>2. Cardinality({}) = 0
  BY FS_EmptySet
<1> DEFINE U == S1 \cup S2
<1>3. /\ IsFiniteSet(U)
      /\ Cardinality(U) = Cardinality(S1) + Cardinality(S2) - Cardinality(S1 \cap S2)
  BY FS_Union, Zenon
<1>4. U \cap S3 = {} /\ U \cup S3 = S1 \cup S2 \cup S3
  OBVIOUS
<1> HIDE DEF U
<1>5. Cardinality(U \cup S3) = Cardinality(U) + Cardinality(S3) - Cardinality(U \cap S3)
  BY <1>3, FS_Union, Zenon
<1>6. Cardinality(S1 \cap S2) = 0 /\ Cardinality(U \cap S3) = 0
  BY <1>2, <1>4, Zenon
<1>7. Cardinality(U) = Cardinality(S1) + Cardinality(S2)
  BY <1>1, <1>3, <1>6
<1>8. Cardinality(U \cup S3) = Cardinality(U) + Cardinality(S3)
  BY <1>1, <1>5, <1>6, <1>7
<1> QED
  BY <1>1, <1>4, <1>7, <1>8

-----------------------------------------------------------------------------
(* What a probe is made of. *)
Fields == {"mode", "ids", "steps", "lines", "reach", "namespace", "grpc", "type", "source", "warnings",
           "ib", "painted", "ticking", "outcome"}

States == {"Pending", "Active"} \cup Terminal

WarningNames == Range(Enforced) \cup {"grpc"}

(* A probe of one of the two programs, before its last change was shown:   *)
(* the log has its lines, and only a terminal has a block.                 *)
Formed(p) ==
  /\ DOMAIN p = Fields
  /\ p.ids \in {StandardSteps, CorrelateSteps}
  /\ p.steps \in [Range(p.ids) -> States]
  /\ DOMAIN p.lines = Range(p.ids)
  /\ \A id \in Range(p.ids) : p.lines[id] = IF p.mode = "plain" /\ p.steps[id] \in Terminal THEN 1 ELSE 0
  /\ p.warnings \in Seq(WarningNames)
  /\ p.mode # "tty" => p.painted = << >>

(* And once it was shown. *)
Told(p) == Formed(p) /\ (p.painted # << >> => p.painted = << Block(p) >>)

(* What the block is painted from. *)
Alike(p, q) ==
  /\ q.ids = p.ids /\ q.steps = p.steps /\ q.warnings = p.warnings /\ q.reach = p.reach
  /\ q.type = p.type /\ q.source = p.source /\ q.ib = p.ib /\ q.namespace = p.namespace /\ q.grpc = p.grpc

(* Two probes that agree on that have the same block.                      *)
LEMMA SameBlock == ASSUME NEW p, NEW q, Alike(p, q) PROVE Block(q) = Block(p)
<1>1. HeaderLine(q) = HeaderLine(p)
  BY DEF Alike, HeaderLine
<1>2. \A section : Rows(q, section) = Rows(p, section)
  BY DEF Alike, Rows
<1>3. \A states : StepsIn(q, states) = StepsIn(p, states)
  BY DEF Alike, StepsIn
<1>4. BarLine(q) = BarLine(p)
  BY <1>3 DEF Alike, BarLine, CompletedCount
<1>5. \A id : Label(q, id) = Label(p, id)
  BY DEF Alike, Label
<1>6. \A rows : SectionLines(q, rows) = SectionLines(p, rows)
  BY <1>5 DEF Alike, SectionLines
<1> DEFINE linesOf(r) == [k \in DOMAIN Sections |-> SectionLines(r, Rows(r, Sections[k]))]
<1>7. \A section : SectionLines(q, Rows(q, section)) = SectionLines(p, Rows(p, section))
  BY <1>2, <1>6, Zenon
<1>8. linesOf(q) = linesOf(p)
  BY <1>7
<1>9. /\ Block(q) = << HeaderLine(q) >> \o q.warnings \o linesOf(q)[1] \o linesOf(q)[2] \o linesOf(q)[3]
                    \o <<"blank", BarLine(q)>>
      /\ Block(p) = << HeaderLine(p) >> \o p.warnings \o linesOf(p)[1] \o linesOf(p)[2] \o linesOf(p)[3]
                    \o <<"blank", BarLine(p)>>
  BY DEF Block
<1>10. q.warnings = p.warnings
  BY DEF Alike
<1> HIDE DEF linesOf
<1> QED
  BY <1>1, <1>4, <1>8, <1>9, <1>10, Zenon

PlacesIn(p, section) == {i \in DOMAIN p.ids : p.ids[i] \in section}

(* The positions of a section, as many as its rows.                        *)
LEMMA RowsOfSection ==
  ASSUME NEW p, NEW T, p.ids \in Seq(T), NEW section
  PROVE  /\ IsFiniteSet(PlacesIn(p, section)) /\ Cardinality(PlacesIn(p, section)) \in Nat
         /\ Rows(p, section) \in Seq(T) /\ Len(Rows(p, section)) = Cardinality(PlacesIn(p, section))
         /\ (Rows(p, section) = << >> <=> PlacesIn(p, section) = {})
<1> DEFINE at == PlacesIn(p, section)
           rows == Rows(p, section)
<1>1. at \in SUBSET DOMAIN p.ids /\ rows = Chosen(p.ids, at)
  BY DEF Rows, PlacesIn
<1> HIDE DEF at, rows
<1>2. /\ rows \in Seq(T) /\ IsFiniteSet(at) /\ Cardinality(at) \in Nat /\ Len(rows) = Cardinality(at)
  BY <1>1, ChosenIs
<1>3. (at = {}) <=> (Cardinality(at) = 0)
  BY <1>2, FS_EmptySet
<1>4. (rows = << >>) <=> (Len(rows) = 0)
  BY <1>2
<1>5. rows = << >> <=> at = {}
  BY <1>2, <1>3, <1>4
<1> QED
  BY <1>2, <1>5 DEF at, rows

(* Six sequences one after the other.                                      *)
LEMMA SixJoined ==
  ASSUME NEW T, NEW a \in Seq(T), NEW b \in Seq(T), NEW c \in Seq(T),
         NEW d \in Seq(T), NEW e \in Seq(T), NEW f \in Seq(T)
  PROVE  /\ a \o b \o c \o d \o e \o f \in Seq(T)
         /\ Len(a \o b \o c \o d \o e \o f) = Len(a) + Len(b) + Len(c) + Len(d) + Len(e) + Len(f)
<1>1. \A x, y \in Seq(T) : x \o y \in Seq(T) /\ Len(x \o y) = Len(x) + Len(y)
  BY ConcatProperties
<1> DEFINE ab == a \o b
           abc == ab \o c
           abcd == abc \o d
           abcde == abcd \o e
<1>2. ab \in Seq(T) /\ Len(ab) = Len(a) + Len(b)
  BY <1>1
<1> HIDE DEF ab
<1>3. abc \in Seq(T) /\ Len(abc) = Len(ab) + Len(c)
  BY <1>1, <1>2
<1> HIDE DEF abc
<1>4. abcd \in Seq(T) /\ Len(abcd) = Len(abc) + Len(d)
  BY <1>1, <1>3
<1> HIDE DEF abcd
<1>5. abcde \in Seq(T) /\ Len(abcde) = Len(abcd) + Len(e)
  BY <1>1, <1>4
<1> HIDE DEF abcde
<1>6. abcde \o f \in Seq(T) /\ Len(abcde \o f) = Len(abcde) + Len(f)
  BY <1>1, <1>5
<1>7. Len(abcde \o f) = Len(a) + Len(b) + Len(c) + Len(d) + Len(e) + Len(f)
  BY <1>2, <1>3, <1>4, <1>5, <1>6
<1> QED
  BY <1>6, <1>7 DEF ab, abc, abcd, abcde

(* A section has a blank line, its name and its rows, or it is not there.  *)
LEMMA SectionLinesAre ==
  ASSUME NEW p, NEW T, NEW rows \in Seq(T)
  PROVE  /\ \E U : SectionLines(p, rows) \in Seq(U)
         /\ Len(SectionLines(p, rows)) = IF rows = << >> THEN 0 ELSE 2 + Len(rows)
<1> DEFINE Row(i) == <<Glyph(p.steps[rows[i]]), Label(p, rows[i])>>
           body == [i \in DOMAIN rows |-> Row(i)]
           head == <<"blank", "section">>
           U    == {"blank", "section"} \cup {Row(i) : i \in DOMAIN rows}
<1>1. DOMAIN rows = 1 .. Len(rows) /\ Len(rows) \in Nat
  OBVIOUS
<1>2. SectionLines(p, rows) = IF rows = << >> THEN << >> ELSE head \o body
  BY DEF SectionLines
<1> HIDE DEF Row
<1>3. body \in Seq(U) /\ Len(body) = Len(rows)
  BY <1>1
<1>4. head \in Seq(U) /\ Len(head) = 2 /\ << >> \in Seq(U) /\ Len(<< >>) = 0
  OBVIOUS
<1> HIDE DEF body, head, U
<1>5. head \o body \in Seq(U) /\ Len(head \o body) = Len(head) + Len(body)
  BY <1>3, <1>4, ConcatProperties
<1>6. CASE rows = << >>
  BY <1>2, <1>4, <1>6
<1>7. CASE rows # << >>
  BY <1>2, <1>3, <1>4, <1>5, <1>7
<1> QED
  BY <1>6, <1>7

(* The positions of the three sections are all there are: each step is in  *)
(* one section and one only.                                               *)
LEMMA SectionsPartition ==
  ASSUME NEW ids \in Seq(StepNames)
  PROVE  LET at(k) == {i \in DOMAIN ids : ids[i] \in Sections[k]}
         IN  /\ at(1) \cup at(2) \cup at(3) = DOMAIN ids
             /\ at(1) \cap at(2) = {} /\ at(1) \cap at(3) = {} /\ at(2) \cap at(3) = {}
<1>1. Sections[1] = Range(Connecting) /\ Sections[2] = Range(Validating) /\ Sections[3] = Range(Serving)
  BY DEF Sections
<1>2. \A i \in DOMAIN ids : ids[i] \in StepNames
  OBVIOUS
<1>3. \A x \in StepNames : x \in Sections[1] \/ x \in Sections[2] \/ x \in Sections[3]
  BY <1>1 DEF StepNames
<1>4. \A x : ~(x \in Sections[1] /\ x \in Sections[2]) /\ ~(x \in Sections[1] /\ x \in Sections[3])
             /\ ~(x \in Sections[2] /\ x \in Sections[3])
  BY <1>1, StepsAre
<1> QED
  BY <1>2, <1>3, <1>4, Zenon

(* One, two or three sections have rows, those that have any.               *)
LEMMA PresentSections ==
  ASSUME NEW present \in SUBSET (1 .. 3)
  PROVE  Cardinality(present) = (IF 1 \in present THEN 1 ELSE 0) + (IF 2 \in present THEN 1 ELSE 0)
                                + (IF 3 \in present THEN 1 ELSE 0)
<1> DEFINE part(k) == present \cap {k}
<1>1. ASSUME NEW k \in 1 .. 3
      PROVE  IsFiniteSet(part(k)) /\ Cardinality(part(k)) = IF k \in present THEN 1 ELSE 0
  <2>1. IsFiniteSet({}) /\ Cardinality({}) = 0 /\ IsFiniteSet({k}) /\ Cardinality({k}) = 1
    BY FS_EmptySet, FS_Singleton
  <2>2. part(k) = IF k \in present THEN {k} ELSE {}
    OBVIOUS
  <2> QED
    BY <2>1, <2>2, Zenon
<1>2. part(1) \cap part(2) = {} /\ part(1) \cap part(3) = {} /\ part(2) \cap part(3) = {}
  OBVIOUS
<1>3. part(1) \cup part(2) \cup part(3) = present
  <2>1. \A x \in present : x = 1 \/ x = 2 \/ x = 3
    OBVIOUS
  <2> QED
    BY <2>1, Zenon
<1>4. 1 \in 1 .. 3 /\ 2 \in 1 .. 3 /\ 3 \in 1 .. 3
  OBVIOUS
<1>5. /\ IsFiniteSet(part(1)) /\ Cardinality(part(1)) = IF 1 \in present THEN 1 ELSE 0
      /\ IsFiniteSet(part(2)) /\ Cardinality(part(2)) = IF 2 \in present THEN 1 ELSE 0
      /\ IsFiniteSet(part(3)) /\ Cardinality(part(3)) = IF 3 \in present THEN 1 ELSE 0
  BY <1>1, <1>4, Zenon
<1> HIDE DEF part
<1>6. Cardinality(part(1) \cup part(2) \cup part(3))
        = Cardinality(part(1)) + Cardinality(part(2)) + Cardinality(part(3))
  BY <1>2, <1>5, ThreeParts
<1> QED
  BY <1>3, <1>5, <1>6

(* The viewport is as high as the block: nothing of the block is cut off.  *)
LEMMA BlockFits ==
  ASSUME NEW p, p.ids \in Seq(StepNames), p.warnings \in Seq(WarningNames)
  PROVE  SubSeq(Block(p), 1, RenderedLineCount(p)) = Block(p)
<1> DEFINE at(k) == PlacesIn(p, Sections[k])
           rows(k) == Rows(p, Sections[k])
           lines(k) == SectionLines(p, rows(k))
           present == {k \in DOMAIN Sections : \E i \in DOMAIN p.ids : p.ids[i] \in Sections[k]}
           header == HeaderLine(p)
           bar == BarLine(p)
<1>1. Block(p) = << header >> \o p.warnings \o lines(1) \o lines(2) \o lines(3) \o <<"blank", bar>>
  <2> DEFINE all == [k \in DOMAIN Sections |-> lines(k)]
  <2>1. DOMAIN Sections = 1 .. 3
    BY DEF Sections
  <2>2. Block(p) = << header >> \o p.warnings \o all[1] \o all[2] \o all[3] \o <<"blank", bar>>
    BY DEF Block
  <2> HIDE DEF lines, header, bar
  <2>3. all[1] = lines(1) /\ all[2] = lines(2) /\ all[3] = lines(3)
    BY <2>1
  <2> HIDE DEF all
  <2> QED
    BY <2>2, <2>3, Zenon
<1>2. RenderedLineCount(p) = 1 + Len(p.warnings) + 2 * Cardinality(present) + Len(p.ids) + 2
  BY DEF RenderedLineCount
<1>3. ASSUME NEW k
      PROVE  /\ IsFiniteSet(at(k)) /\ Cardinality(at(k)) \in Nat
             /\ rows(k) \in Seq(StepNames) /\ Len(rows(k)) = Cardinality(at(k))
             /\ (rows(k) = << >> <=> at(k) = {})
  BY RowsOfSection
<1>4. /\ at(1) \cup at(2) \cup at(3) = DOMAIN p.ids
      /\ at(1) \cap at(2) = {} /\ at(1) \cap at(3) = {} /\ at(2) \cap at(3) = {}
  BY SectionsPartition DEF PlacesIn
<1>5. present = {k \in 1 .. 3 : at(k) # {}}
  <2>1. DOMAIN Sections = 1 .. 3
    BY DEF Sections
  <2>2. \A k : (\E i \in DOMAIN p.ids : p.ids[i] \in Sections[k]) <=> at(k) # {}
    BY DEF PlacesIn
  <2> HIDE DEF at
  <2> QED
    BY <2>1, <2>2, Zenon
<1> HIDE DEF at
<1>6. Len(p.ids) = Cardinality(at(1)) + Cardinality(at(2)) + Cardinality(at(3))
  <2>1. Cardinality(DOMAIN p.ids) = Len(p.ids)
    <3>1. DOMAIN p.ids = 1 .. Len(p.ids) /\ Len(p.ids) \in Nat
      OBVIOUS
    <3> QED
      BY <3>1, FS_Interval
  <2>2. IsFiniteSet(at(1)) /\ IsFiniteSet(at(2)) /\ IsFiniteSet(at(3))
    BY <1>3, Zenon
  <2>3. Cardinality(at(1) \cup at(2) \cup at(3)) = Cardinality(at(1)) + Cardinality(at(2)) + Cardinality(at(3))
    BY <1>4, <2>2, ThreeParts
  <2> QED
    BY <1>4, <2>1, <2>3
<1> HIDE DEF rows
<1>7. ASSUME NEW k
      PROVE  /\ \E U : lines(k) \in Seq(U)
             /\ Len(lines(k)) = IF rows(k) = << >> THEN 0 ELSE 2 + Len(rows(k))
  BY <1>3, SectionLinesAre
<1> HIDE DEF lines, header, bar, present
<1>8. Cardinality(present) = (IF at(1) # {} THEN 1 ELSE 0) + (IF at(2) # {} THEN 1 ELSE 0)
                              + (IF at(3) # {} THEN 1 ELSE 0)
  <2>1. present \in SUBSET (1 .. 3)
    BY <1>5
  <2>2. Cardinality(present) = (IF 1 \in present THEN 1 ELSE 0) + (IF 2 \in present THEN 1 ELSE 0)
                                + (IF 3 \in present THEN 1 ELSE 0)
    BY <2>1, PresentSections
  <2>3. (1 \in present <=> at(1) # {}) /\ (2 \in present <=> at(2) # {}) /\ (3 \in present <=> at(3) # {})
    BY <1>5
  <2> QED
    BY <2>2, <2>3
<1>9. ASSUME NEW k
      PROVE  Len(lines(k)) = 2 * (IF at(k) # {} THEN 1 ELSE 0) + Cardinality(at(k))
  <2>1. Cardinality({}) = 0
    BY FS_EmptySet
  <2>2. CASE at(k) = {}
    <3>1. rows(k) = << >> /\ Cardinality(at(k)) = 0
      BY <1>3, <2>1, <2>2, Zenon
    <3> QED
      BY <1>7, <2>2, <3>1
  <2>3. CASE at(k) # {}
    <3>1. rows(k) # << >> /\ Len(rows(k)) = Cardinality(at(k)) /\ Cardinality(at(k)) \in Nat
      BY <1>3, <2>3, Zenon
    <3> QED
      BY <1>7, <2>3, <3>1
  <2> QED
    BY <2>2, <2>3
<1>10. PICK U1, U2, U3 : lines(1) \in Seq(U1) /\ lines(2) \in Seq(U2) /\ lines(3) \in Seq(U3)
  BY <1>7, Zenon
<1> DEFINE U == {header, bar, "blank"} \cup WarningNames \cup U1 \cup U2 \cup U3
<1>11. /\ << header >> \in Seq(U) /\ Len(<< header >>) = 1 /\ p.warnings \in Seq(U)
       /\ lines(1) \in Seq(U) /\ lines(2) \in Seq(U) /\ lines(3) \in Seq(U)
       /\ <<"blank", bar>> \in Seq(U) /\ Len(<<"blank", bar>>) = 2
  <2>1. \A S, T : S \subseteq T => Seq(S) \subseteq Seq(T)
    OBVIOUS
  <2>2. WarningNames \subseteq U /\ U1 \subseteq U /\ U2 \subseteq U /\ U3 \subseteq U
    OBVIOUS
  <2>3. << header >> \in Seq(U) /\ Len(<< header >>) = 1
    OBVIOUS
  <2>4. <<"blank", bar>> \in Seq(U) /\ Len(<<"blank", bar>>) = 2
    OBVIOUS
  <2> HIDE DEF U
  <2>5. p.warnings \in Seq(U) /\ lines(1) \in Seq(U) /\ lines(2) \in Seq(U) /\ lines(3) \in Seq(U)
    BY <1>10, <2>1, <2>2
  <2> QED
    BY <2>3, <2>4, <2>5
<1> HIDE DEF U
<1>12. /\ Block(p) \in Seq(U)
       /\ Len(Block(p)) = 1 + Len(p.warnings) + Len(lines(1)) + Len(lines(2)) + Len(lines(3)) + 2
  BY <1>1, <1>11, SixJoined
<1>13. Len(Block(p)) = RenderedLineCount(p)
  <2>1. Cardinality(at(1)) \in Nat /\ Cardinality(at(2)) \in Nat /\ Cardinality(at(3)) \in Nat
    BY <1>3, Zenon
  <2>2. /\ Len(lines(1)) = 2 * (IF at(1) # {} THEN 1 ELSE 0) + Cardinality(at(1))
        /\ Len(lines(2)) = 2 * (IF at(2) # {} THEN 1 ELSE 0) + Cardinality(at(2))
        /\ Len(lines(3)) = 2 * (IF at(3) # {} THEN 1 ELSE 0) + Cardinality(at(3))
    BY <1>9, Zenon
  <2>3. Len(p.warnings) \in Nat
    OBVIOUS
  <2> DEFINE n1 == IF at(1) # {} THEN 1 ELSE 0
             n2 == IF at(2) # {} THEN 1 ELSE 0
             n3 == IF at(3) # {} THEN 1 ELSE 0
  <2>4. n1 \in Nat /\ n2 \in Nat /\ n3 \in Nat
    OBVIOUS
  <2>5. /\ Len(lines(1)) = 2 * n1 + Cardinality(at(1)) /\ Len(lines(2)) = 2 * n2 + Cardinality(at(2))
        /\ Len(lines(3)) = 2 * n3 + Cardinality(at(3)) /\ Cardinality(present) = n1 + n2 + n3
    BY <1>8, <2>2
  <2> HIDE DEF n1, n2, n3
  <2>6. \A x, y, z \in Nat : 2 * (x + y + z) = 2 * x + 2 * y + 2 * z /\ 2 * x \in Nat
    OBVIOUS
  <2>7. /\ 2 * (n1 + n2 + n3) = 2 * n1 + 2 * n2 + 2 * n3
        /\ 2 * n1 \in Nat /\ 2 * n2 \in Nat /\ 2 * n3 \in Nat
    BY <2>4, <2>6, Zenon
  <2> DEFINE w == Len(p.warnings)
             c1 == Cardinality(at(1))
             c2 == Cardinality(at(2))
             c3 == Cardinality(at(3))
             d1 == 2 * n1
             d2 == 2 * n2
             d3 == 2 * n3
  <2>8. /\ Len(Block(p)) = 1 + w + (d1 + c1) + (d2 + c2) + (d3 + c3) + 2
        /\ RenderedLineCount(p) = 1 + w + (d1 + d2 + d3) + (c1 + c2 + c3) + 2
    BY <1>2, <1>6, <1>12, <2>5, <2>7, Zenon
  <2>9. /\ w \in Nat /\ c1 \in Nat /\ c2 \in Nat /\ c3 \in Nat
        /\ d1 \in Nat /\ d2 \in Nat /\ d3 \in Nat
    BY <2>1, <2>3, <2>7
  <2> HIDE DEF w, c1, c2, c3, d1, d2, d3
  <2>10. 1 + w + (d1 + c1) + (d2 + c2) + (d3 + c3) + 2
           = 1 + w + (d1 + d2 + d3) + (c1 + c2 + c3) + 2
    BY <2>9
  <2> QED
    BY <2>8, <2>10, Zenon
<1> QED
  BY <1>12, <1>13, SubSeqFull

-----------------------------------------------------------------------------
(* What a change of a probe leaves alone.                                  *)
Continues(p, q) == q.ids = p.ids /\ q.mode = p.mode /\ q.ticking = p.ticking /\ q.outcome = p.outcome

SameLabels(p, q) == q.type = p.type /\ q.namespace = p.namespace /\ q.grpc = p.grpc

(* The ids of a probe are steps, each with a state.                        *)
LEMMA IdsAreSteps ==
  ASSUME NEW p, Formed(p)
  PROVE  /\ p.ids \in Seq(StepNames) /\ DOMAIN p.steps = Range(p.ids) /\ Range(p.ids) \subseteq StepNames
         /\ p.warnings \in Seq(WarningNames)
BY StepsAre DEF Formed

(* A repaint shows the probe as it is.                                     *)
LEMMA RepaintTells ==
  ASSUME NEW p, Formed(p)
  PROVE  /\ Told(Repaint(p)) /\ Continues(p, Repaint(p)) /\ SameLabels(p, Repaint(p))
         /\ Repaint(p).steps = p.steps
<1>1. CASE p.mode # "tty"
  <2>1. Repaint(p) = p /\ p.painted = << >>
    BY <1>1 DEF Repaint, Formed
  <2> QED
    BY <2>1 DEF Told, Continues, SameLabels
<1>2. CASE p.mode = "tty"
  <2> DEFINE q == [p EXCEPT !.painted = << Block(p) >>]
  <2>1. Repaint(p) = q
    BY <1>2, BlockFits, IdsAreSteps DEF Repaint
  <2>2. DOMAIN p = Fields
    BY DEF Formed
  <2>3. q.painted = << Block(p) >> /\ DOMAIN q = Fields
    BY <2>2 DEF Fields
  <2>4. /\ q.mode = p.mode /\ q.ids = p.ids /\ q.steps = p.steps /\ q.lines = p.lines
        /\ q.warnings = p.warnings
    BY <2>2 DEF Fields
  <2>5. /\ q.reach = p.reach /\ q.type = p.type /\ q.source = p.source /\ q.ib = p.ib
        /\ q.namespace = p.namespace /\ q.grpc = p.grpc
    BY <2>2 DEF Fields
  <2>6. q.ticking = p.ticking /\ q.outcome = p.outcome
    BY <2>2 DEF Fields
  <2> HIDE DEF q
  <2>7. Block(q) = Block(p)
    BY <2>4, <2>5, SameBlock DEF Alike
  <2>8. Formed(q)
    BY <1>2, <2>3, <2>4 DEF Formed
  <2> QED
    BY <2>1, <2>3, <2>4, <2>5, <2>6, <2>7, <2>8 DEF Told, Continues, SameLabels
<1> QED
  BY <1>1, <1>2

(* Steps that have not ended take a new state, and the log has a line for  *)
(* each that ends with it.                                                 *)
LEMMA StatesAreTold ==
  ASSUME NEW p, Formed(p), NEW ids, NEW state \in States,
         \A id \in ids : id \in DOMAIN p.steps /\ p.steps[id] \notin Terminal
  PROVE  /\ Told(SetStates(p, ids, state)) /\ Continues(p, SetStates(p, ids, state))
         /\ SameLabels(p, SetStates(p, ids, state))
         /\ SetStates(p, ids, state).steps =
              [id \in DOMAIN p.steps |-> IF id \in ids THEN state ELSE p.steps[id]]
<1> DEFINE steps == [id \in DOMAIN p.steps |-> IF id \in ids THEN state ELSE p.steps[id]]
           p1    == [p EXCEPT !.steps = steps]
           told  == {id \in ids : p1.mode = "plain" /\ p1.steps[id] \in Terminal}
           lines == [id \in DOMAIN p1.lines |-> IF id \in told THEN p1.lines[id] + 1 ELSE p1.lines[id]]
           p2    == [p1 EXCEPT !.lines = lines]
<1>1. SetStates(p, ids, state) = Repaint(p2)
  BY DEF SetStates, EmitLog
<1>2. DOMAIN p = Fields /\ DOMAIN p.lines = Range(p.ids) /\ DOMAIN p.steps = Range(p.ids)
  BY DEF Formed
<1>3. steps \in [Range(p.ids) -> States]
  BY <1>2 DEF Formed
<1>4. \A id \in Range(p.ids) : steps[id] = IF id \in ids THEN state ELSE p.steps[id]
  BY <1>2
<1> HIDE DEF steps
<1>5. DOMAIN p1 = Fields /\ p1.steps = steps /\ p1.lines = p.lines /\ p1.mode = p.mode /\ p1.ids = p.ids
  BY <1>2 DEF Fields
<1>6. /\ p1.warnings = p.warnings /\ p1.painted = p.painted /\ p1.ticking = p.ticking /\ p1.outcome = p.outcome
      /\ p1.type = p.type /\ p1.namespace = p.namespace /\ p1.grpc = p.grpc
  BY <1>2 DEF Fields
<1> HIDE DEF p1
<1>7. told = {id \in ids : p.mode = "plain" /\ steps[id] \in Terminal}
  BY <1>5
<1>8. DOMAIN lines = Range(p.ids) /\
      \A id \in Range(p.ids) : lines[id] = IF id \in told THEN p.lines[id] + 1 ELSE p.lines[id]
  BY <1>2, <1>5
<1> HIDE DEF told, lines
<1>9. /\ DOMAIN p2 = Fields /\ p2.lines = lines /\ p2.steps = steps /\ p2.mode = p.mode /\ p2.ids = p.ids
      /\ p2.warnings = p.warnings /\ p2.painted = p.painted
  BY <1>5, <1>6 DEF Fields
<1>10. /\ p2.ticking = p.ticking /\ p2.outcome = p.outcome
       /\ p2.type = p.type /\ p2.namespace = p.namespace /\ p2.grpc = p.grpc
  BY <1>5, <1>6 DEF Fields
<1> HIDE DEF p2
<1>11. ASSUME NEW id \in Range(p.ids)
       PROVE  lines[id] = IF p.mode = "plain" /\ steps[id] \in Terminal THEN 1 ELSE 0
  <2>1. p.lines[id] = IF p.mode = "plain" /\ p.steps[id] \in Terminal THEN 1 ELSE 0
    BY DEF Formed
  <2>2. CASE id \in ids
    <3>1. p.lines[id] = 0
      BY <1>2, <2>1, <2>2
    <3>2. id \in told <=> p.mode = "plain" /\ steps[id] \in Terminal
      BY <1>7, <2>2
    <3> QED
      BY <1>8, <3>1, <3>2
  <2>3. CASE id \notin ids
    <3>1. id \notin told /\ steps[id] = p.steps[id]
      BY <1>4, <1>7, <2>3
    <3> QED
      BY <1>8, <2>1, <3>1
  <2> QED
    BY <2>2, <2>3
<1>12. p.ids \in {StandardSteps, CorrelateSteps} /\ p.warnings \in Seq(WarningNames)
       /\ (p.mode # "tty" => p.painted = << >>)
  BY DEF Formed
<1>13. Formed(p2)
  BY <1>3, <1>8, <1>9, <1>11, <1>12 DEF Formed
<1>14. /\ Told(Repaint(p2)) /\ Continues(p2, Repaint(p2)) /\ SameLabels(p2, Repaint(p2))
       /\ Repaint(p2).steps = p2.steps
  BY <1>13, RepaintTells
<1> QED
  BY <1>1, <1>9, <1>10, <1>14 DEF Continues, SameLabels, steps

(* What the banner and the header say changes, and the block with it.      *)
LEMMA LabelsAreTold ==
  ASSUME NEW p, Formed(p), NEW x
  PROVE  /\ LET q == SetNamespace(p, x)
            IN  /\ Told(q) /\ Continues(p, q) /\ q.steps = p.steps
                /\ q.namespace = x /\ q.grpc = p.grpc /\ q.type = p.type
         /\ LET q == SetGrpc(p, x)
            IN  /\ Told(q) /\ Continues(p, q) /\ q.steps = p.steps
                /\ q.namespace = p.namespace /\ q.grpc = x /\ q.type = p.type
         /\ LET q == SetInfinibandPresent(p, x)
            IN  Told(q) /\ Continues(p, q) /\ q.steps = p.steps /\ SameLabels(p, q)
         /\ x \in Seq(WarningNames) =>
              LET q == SetWarnings(p, x)
              IN  Told(q) /\ Continues(p, q) /\ q.steps = p.steps /\ SameLabels(p, q)
<1>1. DOMAIN p = Fields
  BY DEF Formed
<1>2. LET q == SetNamespace(p, x)
      IN  /\ Told(q) /\ Continues(p, q) /\ q.steps = p.steps
          /\ q.namespace = x /\ q.grpc = p.grpc /\ q.type = p.type
  <2> DEFINE q == [p EXCEPT !.namespace = x]
  <2>1. /\ DOMAIN q = Fields /\ q.ids = p.ids /\ q.mode = p.mode /\ q.ticking = p.ticking
        /\ q.outcome = p.outcome /\ q.steps = p.steps /\ q.lines = p.lines
    BY <1>1 DEF Fields
  <2>2. /\ q.warnings = p.warnings /\ q.painted = p.painted /\ q.namespace = x /\ q.grpc = p.grpc
        /\ q.type = p.type
    BY <1>1 DEF Fields
  <2> HIDE DEF q
  <2>3. Formed(q)
    BY <2>1, <2>2 DEF Formed
  <2>4. SetNamespace(p, x) = Repaint(q)
    BY DEF SetNamespace, q
  <2> QED
    BY <2>1, <2>2, <2>3, <2>4, RepaintTells DEF Continues, SameLabels
<1>3. LET q == SetGrpc(p, x)
      IN  /\ Told(q) /\ Continues(p, q) /\ q.steps = p.steps
          /\ q.namespace = p.namespace /\ q.grpc = x /\ q.type = p.type
  <2> DEFINE q == [p EXCEPT !.grpc = x]
  <2>1. /\ DOMAIN q = Fields /\ q.ids = p.ids /\ q.mode = p.mode /\ q.ticking = p.ticking
        /\ q.outcome = p.outcome /\ q.steps = p.steps /\ q.lines = p.lines
    BY <1>1 DEF Fields
  <2>2. /\ q.warnings = p.warnings /\ q.painted = p.painted /\ q.namespace = p.namespace /\ q.grpc = x
        /\ q.type = p.type
    BY <1>1 DEF Fields
  <2> HIDE DEF q
  <2>3. Formed(q)
    BY <2>1, <2>2 DEF Formed
  <2>4. SetGrpc(p, x) = Repaint(q)
    BY DEF SetGrpc, q
  <2> QED
    BY <2>1, <2>2, <2>3, <2>4, RepaintTells DEF Continues, SameLabels
<1>4. LET q == SetInfinibandPresent(p, x)
      IN  Told(q) /\ Continues(p, q) /\ q.steps = p.steps /\ SameLabels(p, q)
  <2> DEFINE q == [p EXCEPT !.ib = x]
  <2>1. /\ DOMAIN q = Fields /\ q.ids = p.ids /\ q.mode = p.mode /\ q.ticking = p.ticking
        /\ q.outcome = p.outcome /\ q.steps = p.steps /\ q.lines = p.lines
    BY <1>1 DEF Fields
  <2>2. /\ q.warnings = p.warnings /\ q.painted = p.painted /\ q.namespace = p.namespace /\ q.grpc = p.grpc
        /\ q.type = p.type
    BY <1>1 DEF Fields
  <2> HIDE DEF q
  <2>3. Formed(q)
    BY <2>1, <2>2 DEF Formed
  <2>4. SetInfinibandPresent(p, x) = Repaint(q)
    BY DEF SetInfinibandPresent, q
  <2> QED
    BY <2>1, <2>2, <2>3, <2>4, RepaintTells DEF Continues, SameLabels
<1>5. ASSUME x \in Seq(WarningNames)
      PROVE  LET q == SetWarnings(p, x)
             IN  Told(q) /\ Continues(p, q) /\ q.steps = p.steps /\ SameLabels(p, q)
  <2> DEFINE q == [p EXCEPT !.warnings = x]
  <2>1. /\ DOMAIN q = Fields /\ q.ids = p.ids /\ q.mode = p.mode /\ q.ticking = p.ticking
        /\ q.outcome = p.outcome /\ q.steps = p.steps /\ q.lines = p.lines
    BY <1>1 DEF Fields
  <2>2. /\ q.warnings = x /\ q.painted = p.painted /\ q.namespace = p.namespace /\ q.grpc = p.grpc
        /\ q.type = p.type
    BY <1>1 DEF Fields
  <2> HIDE DEF q
  <2>3. Formed(q)
    BY <1>5, <2>1, <2>2 DEF Formed
  <2>4. SetWarnings(p, x) = Repaint(q)
    BY DEF SetWarnings, q
  <2> QED
    BY <2>1, <2>2, <2>3, <2>4, RepaintTells DEF Continues, SameLabels
<1> QED
  BY <1>2, <1>3, <1>4, <1>5

(* And the type.                                                           *)
LEMMA TypeIsTold ==
  ASSUME NEW p, Formed(p), NEW x, NEW source
  PROVE  LET q == SetType(p, x, source)
         IN  /\ Told(q) /\ Continues(p, q) /\ q.steps = p.steps
             /\ q.namespace = p.namespace /\ q.grpc = p.grpc /\ q.type = x
<1>1. DOMAIN p = Fields
  BY DEF Formed
<1> DEFINE q == [p EXCEPT !.type = x, !.source = source]
<1>2. /\ DOMAIN q = Fields /\ q.ids = p.ids /\ q.mode = p.mode /\ q.ticking = p.ticking
      /\ q.outcome = p.outcome /\ q.steps = p.steps /\ q.lines = p.lines
  BY <1>1 DEF Fields
<1>3. /\ q.warnings = p.warnings /\ q.painted = p.painted /\ q.namespace = p.namespace /\ q.grpc = p.grpc
      /\ q.type = x
  BY <1>1 DEF Fields
<1> HIDE DEF q
<1>4. Formed(q)
  BY <1>2, <1>3 DEF Formed
<1>5. SetType(p, x, source) = Repaint(q)
  BY DEF SetType, q
<1> QED
  BY <1>2, <1>3, <1>4, <1>5, RepaintTells DEF Continues, SameLabels

(* A new probe has nothing on the screen or in the log.                    *)
LEMMA NewProbeTold ==
  ASSUME NEW mode, NEW ids \in {StandardSteps, CorrelateSteps}, NEW banner,
         banner.warnings \in Seq(WarningNames)
  PROVE  LET p == NewProbe(mode, ids, banner)
         IN  /\ Told(p) /\ p.ids = ids /\ p.outcome = << >>
             /\ DOMAIN p.steps = Range(ids) /\ \A id \in Range(ids) : p.steps[id] = "Pending"
<1> DEFINE p == NewProbe(mode, ids, banner)
<1>1. DOMAIN p = Fields
  BY DEF NewProbe, Fields
<1>2. /\ p.ids = ids /\ p.outcome = << >> /\ p.painted = << >> /\ p.warnings = banner.warnings
      /\ p.steps = [id \in Range(ids) |-> "Pending"] /\ p.lines = [id \in Range(ids) |-> 0]
  BY DEF NewProbe
<1> HIDE DEF p
<1>3. "Pending" \in States /\ "Pending" \notin Terminal
  BY DEF States, Terminal, Failures
<1>4. /\ p.steps \in [Range(p.ids) -> States] /\ DOMAIN p.lines = Range(p.ids)
      /\ \A id \in Range(p.ids) : p.steps[id] = "Pending" /\ p.lines[id] = 0
  BY <1>2, <1>3
<1>5. Formed(p)
  BY <1>1, <1>2, <1>3, <1>4 DEF Formed
<1> QED
  BY <1>2, <1>4, <1>5 DEF Told, p

(* Of the warnings there are those of the keys a type enforces, and one    *)
(* about gRPC.                                                             *)
LEMMA WarningsAre ==
  ASSUME NEW cfg, NEW x
  PROVE  /\ Warnings(cfg) \in Seq(WarningNames)
         /\ Warnings(cfg) \o (IF x THEN << >> ELSE <<"grpc">>) \in Seq(WarningNames)
<1>1. PICK S \in SUBSET (DOMAIN Enforced) : Warnings(cfg) = Chosen(Enforced, S)
  BY DEF Warnings
<1>2. Enforced \in Seq(Range(Enforced))
  BY DEF Enforced, Range
<1>3. Chosen(Enforced, S) \in Seq(Range(Enforced))
  BY <1>2, ChosenIs
<1>4. Range(Enforced) \subseteq WarningNames /\ "grpc" \in WarningNames
  BY DEF WarningNames
<1>5. Warnings(cfg) \in Seq(WarningNames)
  BY <1>1, <1>3, <1>4
<1>6. << >> \in Seq(WarningNames) /\ <<"grpc">> \in Seq(WarningNames)
  BY <1>4
<1> QED
  BY <1>5, <1>6, ConcatProperties

(* The states.                                                             *)
LEMMA StatesAre ==
  /\ States = {"Pending", "Active", "Passed", "Skipped", "Failed", "TimedOut"}
  /\ Terminal = {"Passed", "Skipped", "Failed", "TimedOut"} /\ Failures = {"Failed", "TimedOut"}
BY DEF States, Terminal, Failures

(* A state of one step.                                                    *)
LEMMA StateIsTold ==
  ASSUME NEW p, Formed(p), NEW id \in DOMAIN p.steps, p.steps[id] \notin Terminal, NEW state \in States
  PROVE  /\ Told(SetState(p, id, state)) /\ Continues(p, SetState(p, id, state))
         /\ SameLabels(p, SetState(p, id, state))
         /\ SetState(p, id, state).steps =
              [x \in DOMAIN p.steps |-> IF x = id THEN state ELSE p.steps[x]]
<1> DEFINE q == SetStates(p, {id}, state)
<1>1. \A x \in {id} : x \in DOMAIN p.steps /\ p.steps[x] \notin Terminal
  OBVIOUS
<1>2. q.steps = [x \in DOMAIN p.steps |-> IF x \in {id} THEN state ELSE p.steps[x]]
      /\ Told(q) /\ Continues(p, q) /\ SameLabels(p, q)
  BY <1>1, StatesAreTold
<1>3. SetState(p, id, state) = q
  BY DEF SetState
<1> HIDE DEF q
<1> QED
  BY <1>2, <1>3

(* What is skipped is what has not started.                                *)
LEMMA SkipIsTold ==
  ASSUME NEW p, Formed(p), NEW ids
  PROVE  /\ Told(SkipRemaining(p, ids)) /\ Continues(p, SkipRemaining(p, ids))
         /\ SameLabels(p, SkipRemaining(p, ids))
         /\ SkipRemaining(p, ids).steps =
              [x \in DOMAIN p.steps |-> IF x \in ids /\ p.steps[x] = "Pending" THEN "Skipped" ELSE p.steps[x]]
<1> DEFINE left == {id \in ids \cap DOMAIN p.steps : p.steps[id] = "Pending"}
           q    == SetStates(p, left, "Skipped")
<1>1. \A id \in left : id \in DOMAIN p.steps /\ p.steps[id] \notin Terminal
  BY StatesAre
<1>2. \A x \in DOMAIN p.steps : x \in left <=> x \in ids /\ p.steps[x] = "Pending"
  OBVIOUS
<1>3. "Skipped" \in States
  BY StatesAre
<1>4. SkipRemaining(p, ids) = q
  BY DEF SkipRemaining
<1> HIDE DEF left
<1>5. q.steps = [x \in DOMAIN p.steps |-> IF x \in left THEN "Skipped" ELSE p.steps[x]]
      /\ Told(q) /\ Continues(p, q) /\ SameLabels(p, q)
  BY <1>1, <1>3, StatesAreTold
<1> HIDE DEF q
<1> QED
  BY <1>2, <1>4, <1>5

-----------------------------------------------------------------------------
(* What goes from one step of a boot to the next.                          *)
IsBoot(b) == DOMAIN b = {"cfg", "detected", "probe"} /\ Told(b.probe)

Follows(b, r) == IsBoot(r) /\ Continues(b.probe, r.probe)

SameConfig(b, r) == r.cfg = b.cfg /\ r.detected = b.detected /\ SameLabels(b.probe, r.probe)

(* A boot with another probe.                                              *)
LEMMA ProbeReplaced ==
  ASSUME NEW b, IsBoot(b), NEW q, Told(q)
  PROVE  LET r == [b EXCEPT !.probe = q]
         IN  IsBoot(r) /\ r.probe = q /\ r.cfg = b.cfg /\ r.detected = b.detected
BY DEF IsBoot

(* A step that begins is active, or skipped if it is declined, which no    *)
(* connecting step of doctor is.                                           *)
LEMMA BeginsAre ==
  ASSUME NEW b, IsBoot(b), NEW id \in DOMAIN b.probe.steps, b.probe.steps[id] = "Pending",
         NEW r, r = StepBegins(b, id) \/ r = CorrelateBegins(b, id)
  PROVE  /\ Follows(b, r) /\ SameConfig(b, r)
         /\ \E state \in {"Active", "Skipped"} :
              /\ r.probe.steps = [x \in DOMAIN b.probe.steps |-> IF x = id THEN state ELSE b.probe.steps[x]]
              /\ r = StepBegins(b, id) /\ id \in Range(Connecting) => state = "Active"
<1>1. PICK state \in {"Active", "Skipped"} :
        /\ r = [b EXCEPT !.probe = SetState(b.probe, id, state)]
        /\ r = StepBegins(b, id) /\ id \in Range(Connecting) => state = "Active"
  <2>1. id \in Range(Connecting) => ~Declines(b, id)
    BY StepsAre DEF Declines
  <2>2. CASE r = StepBegins(b, id)
    BY <2>1, <2>2 DEF StepBegins, Started
  <2>3. CASE r # StepBegins(b, id)
    BY <2>3 DEF CorrelateBegins, Started
  <2> QED
    BY <2>2, <2>3
<1> DEFINE q == SetState(b.probe, id, state)
<1>2. Formed(b.probe) /\ b.probe.steps[id] \notin Terminal /\ state \in States
  BY StatesAre DEF IsBoot, Told
<1>3. /\ Told(q) /\ Continues(b.probe, q) /\ SameLabels(b.probe, q)
      /\ q.steps = [x \in DOMAIN b.probe.steps |-> IF x = id THEN state ELSE b.probe.steps[x]]
  BY <1>2, StateIsTold
<1> HIDE DEF q
<1>4. r = [b EXCEPT !.probe = q]
  BY <1>1 DEF q
<1>5. IsBoot(r) /\ r.probe = q /\ r.cfg = b.cfg /\ r.detected = b.detected
  BY <1>3, <1>4, ProbeReplaced
<1> QED
  BY <1>1, <1>3, <1>5 DEF Follows, SameConfig

(* The state of each step when one of them ends: a connecting step that    *)
(* fails takes what has not begun with it.                                 *)
EndsIn(p, id, outcome, x) ==
  IF x = id THEN outcome
  ELSE IF id \in Range(Connecting) /\ outcome \in Failures /\ x \in After(p, id) /\ p.steps[x] = "Pending"
       THEN "Skipped" ELSE p.steps[x]

(* A step comes before another, not before itself.                         *)
LEMMA NotAfterItself == ASSUME NEW p, p.ids = StandardSteps, NEW id PROVE id \notin After(p, id)
<1> SUFFICES ASSUME NEW i \in DOMAIN StandardSteps, NEW j \in DOMAIN StandardSteps,
                    i < j, StandardSteps[i] = StandardSteps[j]
             PROVE  FALSE
  BY DEF After
<1> QED
  BY DEF StandardSteps, Connecting, Validating, Serving

(* A boot whose configuration was loaded with a type, and says so.         *)
LoadedWith(ses, type, r) ==
  /\ r.cfg = Load(ses.file, ses.env, ses.flags, type) /\ r.detected = type
  /\ r.probe.type = r.cfg.type /\ r.probe.namespace = r.cfg.texts["namespace"]
  /\ r.probe.grpc = r.cfg.texts["grpc_address"]

(* With the type detected the probe says what the new configuration says.  *)
LEMMA ReloadedIs ==
  ASSUME NEW ses, NEW b, IsBoot(b), NEW type, NEW r, r = Reloaded(ses, b, type)
  PROVE  Follows(b, r) /\ r.probe.steps = b.probe.steps /\ LoadedWith(ses, type, r)
<1> DEFINE cfg == Redetected(ses, b, type)
           ns  == cfg.texts["namespace"]
           at  == cfg.texts["grpc_address"]
           warnings == Warnings(cfg) \o IF at = << >> THEN << >> ELSE <<"grpc">>
           p0 == b.probe
           p1 == SetNamespace(p0, ns)
           p2 == SetGrpc(p1, at)
           p3 == SetType(p2, cfg.type, cfg.source)
           p4 == SetWarnings(p3, warnings)
<1>1. r = [cfg |-> cfg, detected |-> type, probe |-> p4]
  BY DEF Reloaded
<1>2. cfg = Load(ses.file, ses.env, ses.flags, type)
  BY DEF Redetected
<1>3. warnings \in Seq(WarningNames)
  BY WarningsAre
<1> HIDE DEF cfg, ns, at, warnings
<1>4. Told(p0) /\ Formed(p0)
  BY DEF IsBoot, Told
<1>5. /\ Told(p1) /\ Continues(p0, p1) /\ p1.steps = p0.steps
      /\ p1.namespace = ns /\ p1.grpc = p0.grpc /\ p1.type = p0.type
  BY <1>4, LabelsAreTold
<1> HIDE DEF p1
<1>6. /\ Told(p2) /\ Continues(p1, p2) /\ p2.steps = p1.steps
      /\ p2.namespace = p1.namespace /\ p2.grpc = at /\ p2.type = p1.type
  BY <1>5, LabelsAreTold DEF Told
<1> HIDE DEF p2
<1>7. /\ Told(p3) /\ Continues(p2, p3) /\ p3.steps = p2.steps
      /\ p3.namespace = p2.namespace /\ p3.grpc = p2.grpc /\ p3.type = cfg.type
  BY <1>6, TypeIsTold DEF Told
<1> HIDE DEF p3
<1>8. Told(p4) /\ Continues(p3, p4) /\ p4.steps = p3.steps /\ SameLabels(p3, p4)
  BY <1>3, <1>7, LabelsAreTold DEF Told
<1> HIDE DEF p4
<1>9. DOMAIN r = {"cfg", "detected", "probe"} /\ r.cfg = cfg /\ r.detected = type /\ r.probe = p4
  BY <1>1
<1> HIDE DEF p0
<1>10. Continues(p0, p4) /\ p4.steps = p0.steps
  BY <1>5, <1>6, <1>7, <1>8 DEF Continues
<1>11. p4.type = cfg.type /\ p4.namespace = ns /\ p4.grpc = at
  BY <1>5, <1>6, <1>7, <1>8 DEF SameLabels
<1>12. Follows(b, r)
  BY <1>8, <1>9, <1>10 DEF Follows, IsBoot, p0
<1> QED
  BY <1>2, <1>9, <1>10, <1>11, <1>12 DEF LoadedWith, p0, ns, at

(* What the end of the detection does to the configuration.                *)
Redetects(ses, b, r) == LoadedWith(ses, Detect(ses.w, b.cfg.type).type, r)

(* A step of doctor that ends.                                             *)
LEMMA EndsAre ==
  ASSUME NEW ses, NEW b, IsBoot(b), b.probe.ids = StandardSteps,
         NEW id \in DOMAIN b.probe.steps, b.probe.steps[id] = "Active",
         NEW outcome \in {"Passed", "Failed", "TimedOut"},
         NEW r, r = StepEnds(ses, b, id, outcome)
  PROVE  /\ Follows(b, r)
         /\ r.probe.steps = [x \in DOMAIN b.probe.steps |-> EndsIn(b.probe, id, outcome, x)]
         /\ SameConfig(b, r) \/ Redetects(ses, b, r)
<1> DEFINE p    == b.probe
           done == SetState(p, id, outcome)
           cut  == id \in Range(Connecting) /\ outcome \in Failures
<1>1. Formed(p) /\ Told(p) /\ p.steps[id] \notin Terminal /\ outcome \in States
  BY StatesAre DEF IsBoot, Told
<1>2. /\ Told(done) /\ Continues(p, done) /\ SameLabels(p, done)
      /\ done.steps = [x \in DOMAIN p.steps |-> IF x = id THEN outcome ELSE p.steps[x]]
  BY <1>1, StateIsTold
<1>3. ~cut => [x \in DOMAIN p.steps |-> EndsIn(p, id, outcome, x)] = done.steps
  <2> SUFFICES ASSUME ~cut
               PROVE  [x \in DOMAIN p.steps |-> EndsIn(p, id, outcome, x)] = done.steps
    OBVIOUS
  <2>1. \A x : EndsIn(p, id, outcome, x) = IF x = id THEN outcome ELSE p.steps[x]
    BY DEF EndsIn
  <2> QED
    BY <1>2, <2>1
<1> HIDE DEF done
<1>4. CASE cut
  <2> DEFINE after == After(p, id)
             q == SkipRemaining(done, after)
  <2>1. id \in Range(Connecting) /\ outcome \in Failures
    BY <1>4
  <2>2. r = [b EXCEPT !.probe = q]
    BY <2>1, StepsAre, StatesAre DEF StepEnds, done
  <2>3. id \notin after
    BY NotAfterItself
  <2> HIDE DEF after
  <2>4. /\ Told(q) /\ Continues(done, q) /\ SameLabels(done, q)
        /\ q.steps = [x \in DOMAIN done.steps |->
                        IF x \in after /\ done.steps[x] = "Pending" THEN "Skipped" ELSE done.steps[x]]
    <3>1. Formed(done)
      BY <1>2 DEF Told
    <3> QED
      BY <3>1, SkipIsTold, Zenon
  <2>5. q.steps = [x \in DOMAIN p.steps |-> EndsIn(p, id, outcome, x)]
    <3>1. DOMAIN done.steps = DOMAIN p.steps
      BY <1>2
    <3>2. ASSUME NEW x \in DOMAIN p.steps
          PROVE  (IF x \in after /\ done.steps[x] = "Pending" THEN "Skipped" ELSE done.steps[x])
                   = EndsIn(p, id, outcome, x)
      BY <1>2, <2>1, <2>3, StatesAre DEF EndsIn, after
    <3> QED
      BY <2>4, <3>1, <3>2
  <2> HIDE DEF q
  <2>6. IsBoot(r) /\ r.probe = q /\ r.cfg = b.cfg /\ r.detected = b.detected
    BY <2>2, <2>4, ProbeReplaced
  <2>7. Continues(p, q) /\ SameLabels(p, q)
    BY <1>2, <2>4 DEF Continues, SameLabels
  <2> QED
    BY <2>5, <2>6, <2>7 DEF Follows, SameConfig
<1>5. CASE ~cut /\ id = "DetectDeploymentType" /\ outcome = "Passed"
  <2> DEFINE b1 == [b EXCEPT !.probe = done]
             type == Detect(ses.w, b.cfg.type).type
  <2>1. r = Reloaded(ses, b1, type)
    BY <1>5, StatesAre DEF StepEnds, done
  <2>2. IsBoot(b1) /\ b1.probe = done /\ b1.cfg = b.cfg /\ b1.detected = b.detected
    BY <1>2, ProbeReplaced
  <2> HIDE DEF b1, type
  <2>3. Follows(b1, r) /\ r.probe.steps = b1.probe.steps /\ LoadedWith(ses, type, r)
    BY <2>1, <2>2, ReloadedIs
  <2>4. Follows(b, r)
    BY <1>2, <2>2, <2>3 DEF Follows, Continues
  <2> QED
    BY <1>3, <1>5, <2>2, <2>3, <2>4 DEF Redetects, type
<1>6. CASE ~cut /\ ~(id = "DetectDeploymentType" /\ outcome = "Passed")
           /\ id = "DetectInfinibandPresent" /\ outcome = "Passed"
  <2> DEFINE p1 == SetInfinibandPresent(p, <<FabricSeen(ses.w)>>)
             q  == SetState(p1, id, outcome)
  <2>1. r = [b EXCEPT !.probe = q]
    BY <1>6, StepsAre, StatesAre DEF StepEnds
  <2>2. Told(p1) /\ Continues(p, p1) /\ p1.steps = p.steps /\ SameLabels(p, p1)
    BY <1>1, LabelsAreTold
  <2> HIDE DEF p1
  <2>3. /\ Told(q) /\ Continues(p1, q) /\ SameLabels(p1, q)
        /\ q.steps = [x \in DOMAIN p1.steps |-> IF x = id THEN outcome ELSE p1.steps[x]]
    <3>1. Formed(p1) /\ id \in DOMAIN p1.steps /\ p1.steps[id] \notin Terminal
      BY <1>1, <2>2 DEF Told
    <3> QED
      BY <1>1, <3>1, StateIsTold
  <2> HIDE DEF q
  <2>4. q.steps = done.steps
    BY <1>2, <2>2, <2>3
  <2>5. IsBoot(r) /\ r.probe = q /\ r.cfg = b.cfg /\ r.detected = b.detected
    BY <2>1, <2>3, ProbeReplaced
  <2>6. Continues(p, q) /\ SameLabels(p, q)
    BY <2>2, <2>3 DEF Continues, SameLabels
  <2> QED
    BY <1>3, <1>6, <2>4, <2>5, <2>6 DEF Follows, SameConfig
<1>7. CASE ~cut /\ ~(id = "DetectDeploymentType" /\ outcome = "Passed")
           /\ ~(id = "DetectInfinibandPresent" /\ outcome = "Passed")
  <2>1. r = [b EXCEPT !.probe = done]
    BY <1>7 DEF StepEnds, done
  <2>2. IsBoot(r) /\ r.probe = done /\ r.cfg = b.cfg /\ r.detected = b.detected
    BY <1>2, <2>1, ProbeReplaced
  <2> QED
    BY <1>2, <1>3, <1>7, <2>2 DEF Follows, SameConfig
<1> QED
  BY <1>4, <1>5, <1>6, <1>7

(* A step of correlate that ends.                                          *)
LEMMA CorrelateEndsAre ==
  ASSUME NEW b, IsBoot(b), NEW id \in DOMAIN b.probe.steps, b.probe.steps[id] = "Active",
         NEW outcome \in {"Passed", "Failed", "TimedOut"},
         NEW r, r = CorrelateEnds(b, id, outcome)
  PROVE  Follows(b, r) /\ SameConfig(b, r)
<1> DEFINE p    == b.probe
           done == SetState(p, id, outcome)
           after == After(done, id)
           q    == SkipRemaining(done, after)
<1>1. Formed(p) /\ p.steps[id] \notin Terminal /\ outcome \in States
  BY StatesAre DEF IsBoot, Told
<1>2. Told(done) /\ Formed(done) /\ Continues(p, done) /\ SameLabels(p, done)
  <2>1. id \in DOMAIN p.steps
    OBVIOUS
  <2> HIDE DEF p
  <2>2. Told(done) /\ Continues(p, done) /\ SameLabels(p, done)
    BY <1>1, <2>1, StateIsTold
  <2> QED
    BY <2>2 DEF Told
<1>3. r = [b EXCEPT !.probe = q] \/ r = [b EXCEPT !.probe = done]
  BY DEF CorrelateEnds
<1> HIDE DEF done, after
<1>4. Told(q) /\ Continues(done, q) /\ SameLabels(done, q)
  BY <1>2, SkipIsTold
<1> HIDE DEF q
<1>5. Continues(p, q) /\ SameLabels(p, q)
  BY <1>2, <1>4 DEF Continues, SameLabels
<1>6. PICK q1 : r = [b EXCEPT !.probe = q1] /\ Told(q1) /\ Continues(p, q1) /\ SameLabels(p, q1)
  BY <1>2, <1>3, <1>4, <1>5
<1>7. IsBoot(r) /\ r.probe = q1 /\ r.cfg = b.cfg /\ r.detected = b.detected
  BY <1>6, ProbeReplaced
<1> QED
  BY <1>6, <1>7 DEF Follows, SameConfig

(* A boot that starts has its configuration, and all its steps before it.  *)
Fresh(b, cfg, ids) ==
  /\ IsBoot(b) /\ b.cfg = cfg /\ b.detected = << >> /\ b.probe.ids = ids /\ b.probe.outcome = << >>
  /\ DOMAIN b.probe.steps = Range(ids) /\ \A id \in Range(ids) : b.probe.steps[id] = "Pending"

(* Both programs start so.                                                 *)
LEMMA StartsAre ==
  ASSUME NEW ses, NEW cfg
  PROVE  Fresh(StartProbe(ses, cfg), cfg, StandardSteps) /\ Fresh(StartCorrelate(ses, cfg), cfg, CorrelateSteps)
<1> DEFINE mode   == ProbeMode(cfg, ses.tty)
           banner == Banner(ses, cfg)
<1>1. banner.warnings \in Seq(WarningNames)
  BY WarningsAre DEF Banner
<1>2. /\ StartProbe(ses, cfg) =
           [cfg |-> cfg, detected |-> << >>, probe |-> NewProbe(mode, StandardSteps, banner)]
      /\ StartCorrelate(ses, cfg) =
           [cfg |-> cfg, detected |-> << >>, probe |-> NewProbe(mode, CorrelateSteps, banner)]
  BY DEF StartProbe, StartCorrelate
<1> HIDE DEF mode, banner
<1>3. ASSUME NEW ids \in {StandardSteps, CorrelateSteps}, NEW b,
             b = [cfg |-> cfg, detected |-> << >>, probe |-> NewProbe(mode, ids, banner)]
      PROVE  Fresh(b, cfg, ids)
  <2> DEFINE p == NewProbe(mode, ids, banner)
  <2>1. /\ Told(p) /\ p.ids = ids /\ p.outcome = << >>
        /\ DOMAIN p.steps = Range(ids) /\ \A id \in Range(ids) : p.steps[id] = "Pending"
    BY <1>1, NewProbeTold
  <2>2. DOMAIN b = {"cfg", "detected", "probe"} /\ b.cfg = cfg /\ b.detected = << >> /\ b.probe = p
    BY <1>3
  <2> HIDE DEF p
  <2> QED
    BY <2>1, <2>2 DEF Fresh, IsBoot
<1> QED
  BY <1>2, <1>3

(* A probe that is taken down keeps its screen.                            *)
LEMMA FinishedIs ==
  ASSUME NEW b, IsBoot(b), NEW r, r = BootFinished(b)
  PROVE  /\ IsBoot(r) /\ SameConfig(b, r) /\ r.probe.ids = b.probe.ids /\ r.probe.steps = b.probe.steps
         /\ r.probe.ticking = FALSE
         /\ AnyFailed(b.probe) =>
              r.probe.outcome = << FailureDocument(b.probe, b.cfg.texts["namespace"][1]) >>
<1> DEFINE p  == b.probe
           ns == b.cfg.texts["namespace"][1]
           document == IF AnyFailed(p) THEN FailureDocument(p, ns) ELSE SuccessDocument(p, ns)
           q  == [p EXCEPT !.ticking = FALSE, !.outcome = << document >>]
<1>1. r = [b EXCEPT !.probe = q]
  BY DEF BootFinished, FinishFailure, FinishSuccess, Finish
<1>2. AnyFailed(p) => document = FailureDocument(p, ns)
  OBVIOUS
<1> HIDE DEF document
<1>3. DOMAIN p = Fields /\ Formed(p) /\ Told(p)
  BY DEF IsBoot, Told, Formed
<1>4. /\ DOMAIN q = Fields /\ q.ids = p.ids /\ q.mode = p.mode /\ q.ticking = FALSE
      /\ q.outcome = << document >> /\ q.steps = p.steps /\ q.lines = p.lines
  BY <1>3 DEF Fields
<1>5. /\ q.warnings = p.warnings /\ q.painted = p.painted /\ q.namespace = p.namespace /\ q.grpc = p.grpc
      /\ q.type = p.type
  BY <1>3 DEF Fields
<1>6. q.reach = p.reach /\ q.source = p.source /\ q.ib = p.ib
  BY <1>3 DEF Fields
<1> HIDE DEF q
<1>7. Block(q) = Block(p)
  BY <1>4, <1>5, <1>6, SameBlock DEF Alike
<1>8. Formed(q)
  BY <1>3, <1>4, <1>5 DEF Formed
<1>9. Told(q)
  BY <1>3, <1>5, <1>7, <1>8 DEF Told
<1>10. IsBoot(r) /\ r.probe = q /\ r.cfg = b.cfg /\ r.detected = b.detected
  BY <1>1, <1>9, ProbeReplaced
<1> QED
  BY <1>2, <1>4, <1>5, <1>10 DEF SameConfig, SameLabels

(* A probe whose steps have all ended counts all of them.                  *)
LEMMA SettledCount == ASSUME NEW p, Told(p), Settled(p) PROVE CompletedCount(p) = Len(p.ids)
<1> DEFINE S == {i \in DOMAIN p.ids : p.steps[p.ids[i]] \in Terminal}
<1>1. p.ids \in Seq(StepNames) /\ DOMAIN p.steps = Range(p.ids)
  BY IdsAreSteps DEF Told
<1>2. S = DOMAIN p.ids
  BY <1>1 DEF Settled, Range
<1>3. Chosen(p.ids, DOMAIN p.ids) = p.ids
  BY <1>1, ChosenIs
<1>4. StepsIn(p, Terminal) = Chosen(p.ids, S)
  BY DEF StepsIn
<1> QED
  BY <1>2, <1>3, <1>4 DEF CompletedCount

(* What a step comes to.                                                   *)
LEMMA OutcomesAre == ASSUME NEW w, NEW cfg, NEW id PROVE Outcomes(w, cfg, id) \subseteq {"Passed", "Failed", "TimedOut"}
<1> DEFINE can == Answers(w, cfg, id)
           could == Answers([w EXCEPT !.net.slow = {}], cfg, id)
           slow == id \in w.late
<1>1. Outcomes(w, cfg, id) =
        {CASE can -> "Passed" [] ~can /\ could -> "TimedOut" [] OTHER -> "Failed"}
          \cup IF slow THEN {"TimedOut"} ELSE {}
  BY DEF Outcomes
<1> HIDE DEF can, could, slow
<1> QED
  BY <1>1
(* What carries the baseline from one invocation to the next: a whole file *)
(* and a remembered report go together and the report is conclusive; only  *)
(* a report that Saves gets as far as the file, and while it is being      *)
(* written nothing is remembered; and what a run has read before its       *)
(* layers is what the file still says.                                     *)
BaselineInv ==
  /\ file.kind = "whole" <=> kept # << >>
  /\ kept # << >> => ExitCode(kept[1]) # 3 /\ file = Written(kept[1])
  /\ phase \in {"saving", "writing"} => report # << >> /\ Saves(report[1])
  /\ phase = "writing" => kept = << >>
  /\ phase = "working" /\ Doctor /\ prior # << >> =>
       kept # << >> /\ prior[1] = Written(kept[1]).statuses

-----------------------------------------------------------------------------
(* A written file is whole, and neither a torn nor a missing one is.       *)
LEMMA FileKinds ==
  /\ Torn.kind = "torn" /\ NoFile.kind = "missing"
  /\ \A r : Written(r).kind = "whole"
BY DEF Torn, NoFile, Written

(* An exit code other than 3 says that the summary is not Unknown.         *)
LEMMA ConclusiveCode == ASSUME NEW r, ExitCode(r) # 3 PROVE SummaryStatus(r) # "Unknown"
BY DEF ExitCode

(* A phase goes with what the run holds, and a code with its end.          *)
THEOREM TypeCorrect == Spec => []TypeOK
<1>1. Init => TypeOK
  BY FileKinds, RunsAssumption DEF Init, Begun, TypeOK
<1>2. TypeOK /\ [Next]_vars => TypeOK'
  <2> SUFFICES ASSUME TypeOK, [Next]_vars PROVE TypeOK'
    OBVIOUS
  <2> USE DEF TypeOK, Exit, Rest
  <2>1. CASE BadTheme
    BY <2>1 DEF BadTheme
  <2>2. CASE LooksAtDpu
    BY <2>2 DEF LooksAtDpu, Ready
  <2>3. CASE LooksAtDrift
    BY <2>3 DEF LooksAtDrift, Ready
  <2>4. CASE Complains
    <3>1. phase = "start" /\ phase' = "done" /\ code' # << >> /\ UNCHANGED <<report, file, runs>>
      BY <2>4 DEF Complains, Whole, Ready
    <3> QED
      BY <3>1
  <2>5. CASE Configures
    <3>1. \E b : boot' = << b >>
      BY <2>5 DEF Configures
    <3> QED
      BY <2>5, <3>1 DEF Configures, Whole, Ready
  <2>6. ASSUME NEW id, StepBegin(id) PROVE TypeOK'
    BY <2>6 DEF StepBegin, ProbeStep
  <2>7. ASSUME NEW id, StepEnd(id) PROVE TypeOK'
    BY <2>7 DEF StepEnd, ProbeStep
  <2>8. CASE BootRefuses
    BY <2>8 DEF BootRefuses, Settles
  <2>9. CASE GoesOn
    BY <2>9 DEF GoesOn, Settles
  <2>10. CASE LayersRun
    BY <2>10 DEF LayersRun
  <2>11. CASE SaveBegins
    BY <2>11, FileKinds DEF SaveBegins
  <2>12. CASE SaveRefused
    BY <2>12 DEF SaveRefused
  <2>13. CASE SaveEnds
    BY <2>13, FileKinds DEF SaveEnds
  <2>14. CASE SaveBreaks
    BY <2>14 DEF SaveBreaks
  <2>15. CASE DoctorReports
    BY <2>15 DEF DoctorReports
  <2>16. CASE SourcesCollect
    BY <2>16 DEF SourcesCollect
  <2>17. CASE CorrelateReports
    BY <2>17 DEF CorrelateReports
  <2>18. CASE Dies
    BY <2>18 DEF Dies
  <2>19. CASE RunsAgain
    BY <2>19, RunsAssumption DEF RunsAgain
  <2>20. CASE UNCHANGED vars
    BY <2>20 DEF vars
  <2> QED
    BY <2>1, <2>2, <2>3, <2>4, <2>5, <2>6, <2>7, <2>8, <2>9, <2>10, <2>11, <2>12, <2>13, <2>14,
       <2>15, <2>16, <2>17, <2>18, <2>19, <2>20 DEF Next, Over
<1> QED
  BY <1>1, <1>2, PTL DEF Spec

-----------------------------------------------------------------------------
(* An action that keeps the file, the memory and the report, and ends the  *)
(* run or leads to no phase that BaselineInv speaks of, keeps BaselineInv. *)
LEMMA ElsewhereKept ==
  ASSUME BaselineInv, UNCHANGED <<file, kept>>, phase' \notin {"saving", "writing", "working"}
  PROVE  BaselineInv'
BY DEF BaselineInv

(* BaselineInv holds throughout. *)
LEMMA BaselineInvariant == Spec => []BaselineInv
<1>1. Init => BaselineInv
  BY FileKinds DEF Init, Begun, BaselineInv
<1>2. BaselineInv /\ [Next]_vars => BaselineInv'
  <2> SUFFICES ASSUME BaselineInv, [Next]_vars PROVE BaselineInv'
    OBVIOUS
  <2>1. CASE BadTheme \/ LooksAtDpu \/ LooksAtDrift \/ Complains \/ Configures
    BY <2>1, ElsewhereKept DEF BadTheme, LooksAtDpu, LooksAtDrift, Complains, Configures, Exit
  <2>2. ASSUME NEW id, StepBegin(id) \/ StepEnd(id) PROVE BaselineInv'
    BY <2>2, ElsewhereKept DEF StepBegin, StepEnd, ProbeStep
  <2>3. CASE BootRefuses \/ DoctorReports \/ CorrelateReports \/ Dies \/ RunsAgain
    BY <2>3, ElsewhereKept DEF BootRefuses, DoctorReports, CorrelateReports, Dies, RunsAgain, Exit
  <2>4. CASE GoesOn
    <3>1. UNCHANGED <<file, kept, inv>> /\ phase' = "working"
      BY <2>4 DEF GoesOn, Rest
    <3>2. ASSUME Doctor', prior' # << >>
          PROVE  kept # << >> /\ prior'[1] = Written(kept[1]).statuses
      <4>1. prior' = LoadBaseline(file)
        BY <2>4, <3>1, <3>2 DEF GoesOn, Doctor
      <4>2. file.kind = "whole" /\ prior' = << file.statuses >>
        BY <4>1, <3>2 DEF LoadBaseline
      <4> QED
        BY <4>2 DEF BaselineInv
    <3> QED
      BY <3>1, <3>2 DEF BaselineInv
  <2>5. CASE LayersRun
    <3>1. PICK result : report' = << result >> /\ phase' = IF Saves(result) THEN "saving" ELSE "reporting"
      BY <2>5 DEF LayersRun
    <3>2. UNCHANGED <<file, kept>>
      BY <2>5 DEF LayersRun
    <3>3. report' # << >> /\ report'[1] = result
      BY <3>1
    <3> QED
      BY <3>1, <3>2, <3>3 DEF BaselineInv
  <2>6. CASE SourcesCollect
    BY <2>6, ElsewhereKept DEF SourcesCollect
  <2>7. CASE SaveBegins
    BY <2>7, FileKinds DEF SaveBegins, BaselineInv
  <2>8. CASE SaveRefused \/ SaveBreaks
    BY <2>8, ElsewhereKept DEF SaveRefused, SaveBreaks
  <2>9. CASE SaveEnds
    <3>1. file' = Written(report[1]) /\ phase' = "reporting" /\ Saves(report[1]) /\ report # << >>
      BY <2>9 DEF SaveEnds, BaselineInv
    <3>2. kept' = report
      BY <2>9, <3>1 DEF SaveEnds, Saves
    <3> QED
      BY <3>1, <3>2, FileKinds DEF BaselineInv, Saves
  <2>10. CASE UNCHANGED vars
    BY <2>10 DEF vars, BaselineInv, Doctor
  <2> QED
    BY <2>1, <2>2, <2>3, <2>4, <2>5, <2>6, <2>7, <2>8, <2>9, <2>10 DEF Next, Over
<1> QED
  BY <1>1, <1>2, PTL DEF Spec

(* Whatever is killed, refused or cut short, and whatever a run could not  *)
(* tell: a whole baseline is the last conclusive report, and badges        *)
(* compare with nothing else (baseline.rs, lib.rs 165-171).                *)
THEOREM BaselineOfConclusiveRun == Spec => []BaselineIsConclusive
<1>1. BaselineInv => BaselineIsConclusive
  BY ConclusiveCode DEF BaselineInv, BaselineIsConclusive
<1> QED
  BY <1>1, BaselineInvariant, PTL

-----------------------------------------------------------------------------

-----------------------------------------------------------------------------
(* The boot in the phases of a run: none at the start; from its beginning  *)
(* on it has the steps of its program and a screen that shows them; while  *)
(* it probes it has no outcome; and a run that goes on has settled it.     *)
BootInv ==
  /\ phase = "start" => boot = << >>
  /\ boot # << >> => IsBoot(B) /\ Probe.ids = IF Doctor THEN StandardSteps ELSE CorrelateSteps
  /\ phase = "probing" => boot # << >> /\ Probe.outcome = << >>
  /\ phase \notin {"start", "probing", "done"} => boot # << >> /\ Settled(Probe) /\ ~Probe.ticking

(* Actions after the probe, and those that end a run, leave the boot alone. *)
LEMMA BootRests ==
  ASSUME BootInv, UNCHANGED <<boot, inv>>,
         phase' = "done" \/ (phase \notin {"start", "probing", "done"} /\ phase' \notin {"start", "probing"})
  PROVE  BootInv'
<1>1. B' = B /\ Probe' = Probe /\ (Doctor' <=> Doctor)
  BY DEF B, Probe, Doctor
<1>2. CASE phase' = "done"
  BY <1>1, <1>2 DEF BootInv
<1>3. CASE phase \notin {"start", "probing", "done"} /\ phase' \notin {"start", "probing"}
  BY <1>1, <1>3 DEF BootInv
<1> QED
  BY <1>2, <1>3

(* A boot that is replaced by one that follows it.                         *)
LEMMA BootFollows ==
  ASSUME BootInv, boot # << >>, UNCHANGED inv, NEW r, boot' = << r >>, IsBoot(r), r.probe.ids = Probe.ids
  PROVE  boot' # << >> /\ B' = r /\ Probe' = r.probe /\ IsBoot(B')
         /\ Probe'.ids = IF Doctor' THEN StandardSteps ELSE CorrelateSteps
<1>1. boot' # << >> /\ B' = r /\ Probe' = r.probe /\ (Doctor' <=> Doctor)
  BY DEF B, Probe, Doctor
<1> QED
  BY <1>1 DEF BootInv

(* What a step of the probe does to the boot there is.                     *)
LEMMA ProbeSteps ==
  ASSUME BootInv, NEW id, StepBegin(id) \/ StepEnd(id)
  PROVE  /\ phase = "probing" /\ id \in DOMAIN Probe.steps
         /\ UNCHANGED <<phase, inv, report, code>> /\ boot # << >>
         /\ \E r : /\ boot' = << r >> /\ Follows(B, r)
                   /\ \/ SameConfig(B, r)
                      \/ Doctor /\ Redetects(s, B, r)
                   /\ Doctor =>
                        \/ /\ Probe.steps[id] = "Pending" /\ MayBegin(Probe, id)
                           /\ \E state \in {"Active", "Skipped"} :
                                /\ r.probe.steps = [x \in DOMAIN Probe.steps |-> IF x = id THEN state ELSE Probe.steps[x]]
                                /\ id \in Range(Connecting) => state = "Active"
                        \/ /\ Probe.steps[id] = "Active"
                           /\ \E outcome \in {"Passed", "Failed", "TimedOut"} :
                                r.probe.steps = [x \in DOMAIN Probe.steps |-> EndsIn(Probe, id, outcome, x)]
<1>1. /\ phase = "probing" /\ id \in DOMAIN Probe.steps /\ UNCHANGED <<phase, inv, report, code>>
      /\ boot # << >>
  BY DEF StepBegin, StepEnd, ProbeStep, Rest, BootInv
<1>2. IsBoot(B) /\ (Doctor => Probe.ids = StandardSteps) /\ Probe = B.probe
  BY <1>1 DEF BootInv, Probe, B
<1>3. CASE StepBegin(id)
  <2>1. PICK r : /\ boot' = << r >>
                 /\ \/ Doctor /\ MayBegin(Probe, id) /\ r = StepBegins(B, id)
                    \/ ~Doctor /\ CorrelateMayBegin(Probe, id) /\ r = CorrelateBegins(B, id)
    BY <1>3 DEF StepBegin
  <2>2. B.probe.steps[id] = "Pending"
    BY <1>2, <2>1 DEF MayBegin, CorrelateMayBegin
  <2>3. /\ Follows(B, r) /\ SameConfig(B, r)
        /\ \E state \in {"Active", "Skipped"} :
             /\ r.probe.steps = [x \in DOMAIN B.probe.steps |-> IF x = id THEN state ELSE B.probe.steps[x]]
             /\ r = StepBegins(B, id) /\ id \in Range(Connecting) => state = "Active"
    BY <1>1, <1>2, <2>1, <2>2, BeginsAre
  <2>4. Doctor => r = StepBegins(B, id) /\ MayBegin(Probe, id)
    BY <2>1
  <2> QED
    BY <1>1, <1>2, <2>1, <2>2, <2>3, <2>4
<1>4. CASE StepEnd(id)
  <2>1. Probe.steps[id] = "Active"
    BY <1>4 DEF StepEnd
  <2>2. PICK outcome \in Outcomes(s.w, B.cfg, id) :
          boot' = << IF Doctor THEN StepEnds(s, B, id, outcome) ELSE CorrelateEnds(B, id, outcome) >>
    BY <1>4 DEF StepEnd
  <2>3. outcome \in {"Passed", "Failed", "TimedOut"}
    BY OutcomesAre
  <2>4. CASE Doctor
    <3>1. PICK r : boot' = << r >> /\ r = StepEnds(s, B, id, outcome)
      BY <2>2, <2>4
    <3>2. /\ Follows(B, r)
          /\ r.probe.steps = [x \in DOMAIN B.probe.steps |-> EndsIn(B.probe, id, outcome, x)]
          /\ SameConfig(B, r) \/ Redetects(s, B, r)
      <4>1. IsBoot(B) /\ B.probe.ids = StandardSteps
        BY <1>2, <2>4
      <4>2. id \in DOMAIN B.probe.steps /\ B.probe.steps[id] = "Active"
        BY <1>1, <1>2, <2>1
      <4>3. r = StepEnds(s, B, id, outcome)
        BY <3>1
      <4> QED
        BY <2>3, <4>1, <4>2, <4>3, EndsAre
    <3> QED
      BY <1>1, <1>2, <2>1, <2>3, <2>4, <3>1, <3>2
  <2>5. CASE ~Doctor
    <3>1. PICK r : boot' = << r >> /\ r = CorrelateEnds(B, id, outcome)
      BY <2>2, <2>5
    <3>2. Follows(B, r) /\ SameConfig(B, r)
      BY <1>1, <1>2, <2>1, <2>3, <3>1, CorrelateEndsAre
    <3> QED
      BY <1>1, <2>5, <3>1, <3>2
  <2> QED
    BY <2>4, <2>5
<1> QED
  BY <1>3, <1>4

(* The boot is as BootInv says all along.                                  *)
LEMMA BootInvariant == Spec => []BootInv
<1>1. Init => BootInv
  BY DEF Init, Begun, BootInv
<1>2. BootInv /\ [Next]_vars => BootInv'
  <2> SUFFICES ASSUME BootInv, [Next]_vars PROVE BootInv'
    OBVIOUS
  <2>1. CASE BadTheme \/ LooksAtDpu \/ LooksAtDrift \/ Complains \/ DoctorReports \/ CorrelateReports \/ Dies
    BY <2>1, BootRests DEF BadTheme, LooksAtDpu, LooksAtDrift, Complains, DoctorReports, CorrelateReports,
       Dies, Exit, Rest
  <2>2. CASE LayersRun \/ SaveBegins \/ SaveRefused \/ SaveEnds \/ SaveBreaks \/ SourcesCollect
    BY <2>2, BootRests DEF LayersRun, SaveBegins, SaveRefused, SaveEnds, SaveBreaks, SourcesCollect, Rest
  <2>3. CASE Configures
    <3>1. phase' = "probing" /\ UNCHANGED inv
      BY <2>3 DEF Configures, Rest
    <3>2. PICK b, cfg, ids : /\ boot' = << b >> /\ Fresh(b, cfg, ids)
                             /\ ids = IF Doctor THEN StandardSteps ELSE CorrelateSteps
      BY <2>3, StartsAre DEF Configures
    <3>3. boot' # << >> /\ B' = b /\ Probe' = b.probe /\ (Doctor' <=> Doctor)
      BY <3>1, <3>2 DEF B, Probe, Doctor
    <3> QED
      BY <3>1, <3>2, <3>3 DEF BootInv, Fresh
  <2>4. ASSUME NEW id, StepBegin(id) \/ StepEnd(id) PROVE BootInv'
    <3>1. phase = "probing" /\ UNCHANGED <<phase, inv>> /\ boot # << >>
      BY <2>4, ProbeSteps
    <3>2. PICK r : boot' = << r >> /\ Follows(B, r)
      BY <2>4, ProbeSteps
    <3>3. IsBoot(r) /\ r.probe.ids = Probe.ids /\ r.probe.outcome = << >>
      BY <3>1, <3>2 DEF Follows, Continues, Probe, B, BootInv
    <3>4. boot' # << >> /\ B' = r /\ Probe' = r.probe /\ IsBoot(B')
          /\ Probe'.ids = IF Doctor' THEN StandardSteps ELSE CorrelateSteps
      BY <3>1, <3>2, <3>3, BootFollows
    <3> QED
      BY <3>1, <3>3, <3>4 DEF BootInv
  <2>5. CASE BootRefuses \/ GoesOn
    <3>1. /\ phase = "probing" /\ phase' \in {"done", "working"} /\ Settled(Probe) /\ UNCHANGED inv
          /\ boot' = << BootFinished(B) >>
      BY <2>5 DEF BootRefuses, GoesOn, Settles, Exit, Rest
    <3> DEFINE r == BootFinished(B)
    <3>2. boot # << >> /\ IsBoot(B) /\ Probe = B.probe
      BY <3>1 DEF BootInv, Probe, B
    <3>3. IsBoot(r) /\ r.probe.ids = Probe.ids /\ r.probe.steps = Probe.steps /\ r.probe.ticking = FALSE
      BY <3>2, FinishedIs
    <3> HIDE DEF r
    <3>4. boot' # << >> /\ B' = r /\ Probe' = r.probe /\ IsBoot(B')
          /\ Probe'.ids = IF Doctor' THEN StandardSteps ELSE CorrelateSteps
      BY <3>1, <3>2, <3>3, BootFollows DEF r
    <3>5. Settled(Probe')
      BY <3>1, <3>3, <3>4 DEF Settled
    <3> QED
      BY <3>1, <3>3, <3>4, <3>5 DEF BootInv
  <2>6. CASE RunsAgain
    BY <2>6 DEF RunsAgain, BootInv
  <2>7. CASE UNCHANGED vars
    BY <2>7 DEF vars, BootInv, B, Probe, Doctor
  <2> QED
    BY <2>1, <2>2, <2>3, <2>4, <2>5, <2>6, <2>7 DEF Next, Over
<1> QED
  BY <1>1, <1>2, PTL DEF Spec

(* At every step of every boot the terminal shows the probe as it is, the  *)
(* log has one line for each step that ended, and nothing goes on before   *)
(* they all have (orchestrate.rs, render.rs).                              *)
THEOREM ScreenIsTrue == Spec => []ScreenTellsProbe
<1>1. BootInv => ScreenTellsProbe
  <2> SUFFICES ASSUME BootInv, boot # << >>
               PROVE  /\ Probe.painted # << >> => Probe.painted = << Block(Probe) >>
                      /\ \A id \in DOMAIN Probe.steps :
                           Probe.lines[id] = IF Probe.mode = "plain" /\ Probe.steps[id] \in Terminal THEN 1 ELSE 0
                      /\ phase \notin {"probing", "done"} =>
                           Settled(Probe) /\ ~Probe.ticking /\ CompletedCount(Probe) = Len(Probe.ids)
    BY DEF ScreenTellsProbe
  <2>1. Told(Probe) /\ Formed(Probe) /\ phase # "start"
    BY DEF BootInv, IsBoot, Told, B, Probe
  <2>2. DOMAIN Probe.steps = Range(Probe.ids)
    BY <2>1, IdsAreSteps
  <2>3. phase \notin {"probing", "done"} =>
          Settled(Probe) /\ ~Probe.ticking /\ CompletedCount(Probe) = Len(Probe.ids)
    BY <2>1, SettledCount DEF BootInv
  <2> QED
    BY <2>1, <2>2, <2>3 DEF Told, Formed
<1> QED
  BY <1>1, BootInvariant, PTL

-----------------------------------------------------------------------------
(* The order in which the lanes let a step begin.                          *)

(* What comes after each of the connecting steps.                          *)
LEMMA AfterIs ==
  ASSUME NEW p, p.ids = StandardSteps
  PROVE  /\ After(p, "LoadKubeconfig") = StepNames \ {"LoadKubeconfig"}
         /\ After(p, "ReachApiServer") = StepNames \ {"LoadKubeconfig", "ReachApiServer"}
         /\ After(p, "DetectDeploymentType") = StepNames \ Range(Connecting)
<1>1. /\ StandardSteps[1] = "LoadKubeconfig" /\ StandardSteps[2] = "ReachApiServer"
      /\ StandardSteps[3] = "DetectDeploymentType"
  BY StepsAre DEF Connecting
<1>2. \A i, j \in 1 .. 11 : StandardSteps[i] = StandardSteps[j] => i = j
  BY DEF StandardSteps, Connecting, Validating, Serving
<1>3. StepNames = {StandardSteps[j] : j \in 1 .. 11}
  BY StepsAre DEF Range
<1>4. ASSUME NEW i \in 1 .. 11
      PROVE  After(p, StandardSteps[i]) = {StandardSteps[j] : j \in {j \in 1 .. 11 : i < j}}
  <2>1. DOMAIN p.ids = 1 .. 11 /\ p.ids = StandardSteps
    BY StepsAre
  <2>2. ASSUME NEW j \in 1 .. 11
        PROVE  (\E k \in 1 .. 11 : k < j /\ StandardSteps[k] = StandardSteps[i]) <=> i < j
    BY <1>2
  <2>3. {j \in 1 .. 11 : \E k \in 1 .. 11 : k < j /\ StandardSteps[k] = StandardSteps[i]}
          = {j \in 1 .. 11 : i < j}
    BY <2>2
  <2>4. After(p, StandardSteps[i]) =
          {StandardSteps[j] : j \in {j \in 1 .. 11 :
             \E k \in 1 .. 11 : k < j /\ StandardSteps[k] = StandardSteps[i]}}
    BY <2>1, Zenon DEF After
  <2> QED
    BY <2>3, <2>4, Zenon
<1>5. After(p, "LoadKubeconfig") = {StandardSteps[j] : j \in {j \in 1 .. 11 : 1 < j}}
  BY <1>1, <1>4
<1>6. After(p, "ReachApiServer") = {StandardSteps[j] : j \in {j \in 1 .. 11 : 2 < j}}
  BY <1>1, <1>4
<1>7. After(p, "DetectDeploymentType") = {StandardSteps[j] : j \in {j \in 1 .. 11 : 3 < j}}
  BY <1>1, <1>4
<1>8. \A j \in 1 .. 11 : (1 < j <=> j # 1) /\ (2 < j <=> j # 1 /\ j # 2) /\ (3 < j <=> j # 1 /\ j # 2 /\ j # 3)
  OBVIOUS
<1>9. \A j \in 1 .. 11 :
        /\ StandardSteps[j] = "LoadKubeconfig" <=> j = 1
        /\ StandardSteps[j] = "ReachApiServer" <=> j = 2
        /\ StandardSteps[j] = "DetectDeploymentType" <=> j = 3
  BY <1>1, <1>2
<1>10. After(p, "LoadKubeconfig") = StepNames \ {"LoadKubeconfig"}
  BY <1>3, <1>5, <1>8, <1>9
<1>11. After(p, "ReachApiServer") = StepNames \ {"LoadKubeconfig", "ReachApiServer"}
  BY <1>3, <1>6, <1>8, <1>9
<1>12. After(p, "DetectDeploymentType") = StepNames \ Range(Connecting)
  BY <1>3, <1>7, <1>8, <1>9, StepsAre
<1> QED
  BY <1>10, <1>11, <1>12

(* Of two connecting steps one comes after the other, and what comes after *)
(* one of them awaits it, or something that comes after it too.            *)
LEMMA LanesAre ==
  ASSUME NEW p, p.ids = StandardSteps, NEW c \in Range(Connecting)
  PROVE  /\ c \notin After(p, c) /\ c \in StepNames /\ After(p, c) \subseteq StepNames
         /\ \A d \in Range(Connecting) : c = d \/ c \in After(p, d) \/ d \in After(p, c)
         /\ \A id \in After(p, c) : \E other \in Awaited(id) : other = c \/ other \in After(p, c)
<1>1. Range(Connecting) \subseteq StepNames
  BY DEF StepNames
<1>2. c \in {"LoadKubeconfig", "ReachApiServer", "DetectDeploymentType"}
  BY StepsAre
<1>3. After(p, c) \in {StepNames \ {"LoadKubeconfig"}, StepNames \ {"LoadKubeconfig", "ReachApiServer"},
                       StepNames \ {"LoadKubeconfig", "ReachApiServer", "DetectDeploymentType"}}
  BY <1>2, AfterIs, StepsAre
<1>4. c \notin After(p, c) /\ c \in StepNames /\ After(p, c) \subseteq StepNames
  BY <1>1, <1>2, AfterIs, StepsAre
<1>5. \A d \in Range(Connecting) : c = d \/ c \in After(p, d) \/ d \in After(p, c)
  BY <1>1, <1>2, AfterIs, StepsAre
<1>6. ASSUME NEW id \in After(p, c)
      PROVE  \E other \in Awaited(id) : other = c \/ other \in After(p, c)
  <2>1. id \in {"ReachApiServer", "DetectDeploymentType", "Credentials", "NamespaceExists", "Rbac",
                "PortForwardWorkflows", "PortForwardGrpc", "PortForwardPostgres", "ReachPostgres",
                "DetectInfinibandPresent"}
    BY <1>2, <1>3, StepsAre, AfterIs DEF StepNames
  <2>2. CASE id = "ReachApiServer"
    <3>1. c = "LoadKubeconfig" /\ "LoadKubeconfig" \in Awaited(id)
      BY <1>2, <2>2, AfterIs, StepsAre DEF Awaited
    <3> QED
      BY <3>1
  <2>3. CASE id = "DetectDeploymentType"
    <3>1. c \in {"LoadKubeconfig", "ReachApiServer"} /\ "ReachApiServer" \in Awaited(id)
      BY <1>2, <2>3, AfterIs, StepsAre DEF Awaited
    <3>2. "ReachApiServer" = c \/ "ReachApiServer" \in After(p, c)
      BY <1>1, <3>1, AfterIs, StepsAre
    <3> QED
      BY <3>1, <3>2
  <2>4. CASE id \in {"Credentials", "NamespaceExists", "Rbac", "PortForwardWorkflows", "PortForwardGrpc",
                     "PortForwardPostgres"}
    <3>1. "DetectDeploymentType" \in Awaited(id)
      BY <2>4, StepsAre DEF Awaited
    <3>2. "DetectDeploymentType" = c \/ "DetectDeploymentType" \in After(p, c)
      BY <1>1, <1>2, AfterIs, StepsAre
    <3> QED
      BY <3>1, <3>2
  <2>5. CASE id = "ReachPostgres"
    <3>1. "PortForwardPostgres" \in Awaited(id)
      BY <2>5, StepsAre DEF Awaited
    <3>2. "PortForwardPostgres" \in After(p, c)
      BY <1>3, StepsAre DEF StepNames
    <3> QED
      BY <3>1, <3>2
  <2>6. CASE id = "DetectInfinibandPresent"
    <3>1. "ReachPostgres" \in Awaited(id)
      BY <2>6, StepsAre DEF Awaited
    <3>2. "ReachPostgres" \in After(p, c)
      BY <1>3, StepsAre DEF StepNames
    <3> QED
      BY <3>1, <3>2
  <2> QED
    BY <2>1, <2>2, <2>3, <2>4, <2>5, <2>6
<1> QED
  BY <1>4, <1>5, <1>6

(* Until a connecting step has ended nothing after it has begun; if it     *)
(* failed everything after it is skipped, and nothing else skips it.       *)
Gate(p) ==
  \A c \in Range(Connecting) :
    /\ p.steps[c] \notin Terminal => \A x \in After(p, c) : p.steps[x] = "Pending"
    /\ p.steps[c] \in Failures => \A x \in After(p, c) : p.steps[x] = "Skipped"
    /\ p.steps[c] = "Skipped" => \E d \in Range(Connecting) : p.steps[d] \in Failures /\ c \in After(p, d)

(* A step that may begin keeps the gate.                                   *)
LEMMA GateAtBegin ==
  ASSUME NEW p, p.ids = StandardSteps, Gate(p), NEW q, q.ids = p.ids, DOMAIN p.steps = StepNames,
         NEW id \in StepNames, MayBegin(p, id),
         NEW state \in {"Active", "Skipped"}, id \in Range(Connecting) => state = "Active",
         q.steps = [x \in DOMAIN p.steps |-> IF x = id THEN state ELSE p.steps[x]]
  PROVE  Gate(q)
<1> SUFFICES ASSUME NEW c \in Range(Connecting)
             PROVE  /\ q.steps[c] \notin Terminal => \A x \in After(p, c) : q.steps[x] = "Pending"
                    /\ q.steps[c] \in Failures => \A x \in After(p, c) : q.steps[x] = "Skipped"
                    /\ q.steps[c] = "Skipped" =>
                         \E d \in Range(Connecting) : q.steps[d] \in Failures /\ c \in After(p, d)
  <2>1. \A c : After(q, c) = After(p, c)
    BY DEF After
  <2> QED
    BY <2>1 DEF Gate
<1>1. c \notin After(p, c) /\ c \in StepNames /\ After(p, c) \subseteq StepNames
  BY LanesAre
<1>2. \A x \in StepNames : q.steps[x] = IF x = id THEN state ELSE p.steps[x]
  OBVIOUS
<1>3. p.steps[id] = "Pending" /\ \A other \in Awaited(id) : p.steps[other] \in Terminal
  BY DEF MayBegin
<1>4. ASSUME p.steps[c] \notin Terminal PROVE id \notin After(p, c)
  <2>1. \A x \in After(p, c) : p.steps[x] = "Pending"
    BY <1>4 DEF Gate
  <2>2. "Pending" \notin Terminal
    BY StatesAre
  <2>3. ASSUME id \in After(p, c) PROVE FALSE
    <3>1. PICK other \in Awaited(id) : other = c \/ other \in After(p, c)
      BY <2>3, LanesAre
    <3> QED
      BY <1>3, <1>4, <2>1, <2>2, <3>1
  <2> QED
    BY <2>3
<1>5. ASSUME q.steps[c] \notin Terminal PROVE \A x \in After(p, c) : q.steps[x] = "Pending"
  <2>1. p.steps[c] \notin Terminal
    BY <1>1, <1>2, <1>3, <1>5, StatesAre
  <2> QED
    BY <1>1, <1>2, <1>4, <2>1 DEF Gate
<1>6. ASSUME q.steps[c] \in Failures PROVE \A x \in After(p, c) : q.steps[x] = "Skipped"
  <2>1. c # id /\ p.steps[c] \in Failures
    BY <1>1, <1>2, <1>6, StatesAre
  <2>2. \A x \in After(p, c) : p.steps[x] = "Skipped" /\ x # id
    BY <1>3, <2>1 DEF Gate
  <2> QED
    BY <1>1, <1>2, <2>2
<1>7. ASSUME q.steps[c] = "Skipped"
      PROVE  \E d \in Range(Connecting) : q.steps[d] \in Failures /\ c \in After(p, d)
  <2>1. c # id /\ p.steps[c] = "Skipped"
    BY <1>1, <1>2, <1>7
  <2>2. PICK d \in Range(Connecting) : p.steps[d] \in Failures /\ c \in After(p, d)
    BY <2>1 DEF Gate
  <2>3. d # id /\ d \in StepNames
    BY <1>3, <2>2, StatesAre DEF StepNames
  <2> QED
    BY <1>2, <2>2, <2>3
<1> QED
  BY <1>5, <1>6, <1>7

(* And so does one that ends.                                              *)
LEMMA GateAtEnd ==
  ASSUME NEW p, p.ids = StandardSteps, Gate(p), NEW q, q.ids = p.ids, DOMAIN p.steps = StepNames,
         NEW id \in StepNames, p.steps[id] = "Active", NEW outcome \in {"Passed", "Failed", "TimedOut"},
         q.steps = [x \in DOMAIN p.steps |-> EndsIn(p, id, outcome, x)]
  PROVE  Gate(q)
<1> DEFINE cut == id \in Range(Connecting) /\ outcome \in Failures
<1> SUFFICES ASSUME NEW c \in Range(Connecting)
             PROVE  /\ q.steps[c] \notin Terminal => \A x \in After(p, c) : q.steps[x] = "Pending"
                    /\ q.steps[c] \in Failures => \A x \in After(p, c) : q.steps[x] = "Skipped"
                    /\ q.steps[c] = "Skipped" =>
                         \E d \in Range(Connecting) : q.steps[d] \in Failures /\ c \in After(p, d)
  <2>1. \A c : After(q, c) = After(p, c)
    BY DEF After
  <2> QED
    BY <2>1 DEF Gate
<1>1. c \notin After(p, c) /\ c \in StepNames /\ After(p, c) \subseteq StepNames
  BY LanesAre
<1>2. id \in Range(Connecting) => \A x \in After(p, id) : p.steps[x] = "Pending"
  BY StatesAre DEF Gate
<1>3. \A x \in StepNames :
        q.steps[x] = IF x = id THEN outcome ELSE IF cut /\ x \in After(p, id) THEN "Skipped" ELSE p.steps[x]
  BY <1>2 DEF EndsIn
<1>4. id \in After(p, c) => p.steps[c] \in Terminal /\ p.steps[c] \notin Failures
  BY StatesAre DEF Gate
<1>5. id \in Range(Connecting) => c = id \/ c \in After(p, id) \/ id \in After(p, c)
  BY LanesAre
<1> HIDE DEF cut
<1>6. ASSUME q.steps[c] \notin Terminal PROVE \A x \in After(p, c) : q.steps[x] = "Pending"
  <2>1. c # id /\ p.steps[c] \notin Terminal /\ ~(cut /\ c \in After(p, id))
    BY <1>1, <1>3, <1>6, StatesAre
  <2>2. id \notin After(p, c) /\ ~cut
    BY <1>4, <1>5, <2>1 DEF cut
  <2> QED
    BY <1>1, <1>3, <2>1, <2>2 DEF Gate
<1>7. ASSUME q.steps[c] \in Failures PROVE \A x \in After(p, c) : q.steps[x] = "Skipped"
  <2>1. CASE c = id
    <3>1. cut
      BY <1>1, <1>3, <1>7, <2>1 DEF cut
    <3> QED
      BY <1>1, <1>3, <2>1, <3>1
  <2>2. CASE c # id
    <3>1. ~(cut /\ c \in After(p, id)) /\ p.steps[c] \in Failures
      BY <1>1, <1>3, <1>7, <2>2, StatesAre
    <3>2. id \notin After(p, c) /\ ~cut
      BY <1>4, <1>5, <2>2, <3>1 DEF cut
    <3> QED
      BY <1>1, <1>3, <3>1, <3>2 DEF Gate
  <2> QED
    BY <2>1, <2>2
<1>8. ASSUME q.steps[c] = "Skipped"
      PROVE  \E d \in Range(Connecting) : q.steps[d] \in Failures /\ c \in After(p, d)
  <2>1. CASE cut /\ c \in After(p, id)
    BY <1>3, <2>1, StatesAre DEF cut
  <2>2. CASE ~(cut /\ c \in After(p, id))
    <3>1. p.steps[c] = "Skipped"
      BY <1>1, <1>3, <1>8, <2>2, StatesAre
    <3>2. PICK d \in Range(Connecting) : p.steps[d] \in Failures /\ c \in After(p, d)
      BY <3>1 DEF Gate
    <3>3. d # id /\ d \in StepNames /\ ~(cut /\ d \in After(p, id))
      BY <1>2, <3>2, StatesAre DEF StepNames, cut
    <3> QED
      BY <1>3, <3>2, <3>3
  <2> QED
    BY <2>1, <2>2
<1> QED
  BY <1>6, <1>7, <1>8

-----------------------------------------------------------------------------
(* The opening steps, which a refusal is about.                            *)
LEMMA OpeningIs ==
  /\ Range(Connecting \o Validating) = Range(Connecting) \cup Range(Validating)
  /\ \A i \in 1 .. 6 : StandardSteps[i] \in Range(Connecting \o Validating)
  /\ \A id \in Range(Connecting \o Validating) : \E i \in 1 .. 6 : StandardSteps[i] = id
<1>1. Connecting \in Seq(StepNames) /\ Validating \in Seq(StepNames)
  <2>1. Connecting \in Seq(Range(Connecting)) /\ Validating \in Seq(Range(Validating))
    BY StepsAre DEF Connecting, Validating
  <2>2. \A T : T \subseteq StepNames => Seq(T) \subseteq Seq(StepNames)
    OBVIOUS
  <2> QED
    BY <2>1, <2>2 DEF StepNames
<1>2. Range(Connecting \o Validating) = Range(Connecting) \cup Range(Validating)
  BY <1>1, RangeConcatenation
<1>3. /\ StandardSteps[1] = "LoadKubeconfig" /\ StandardSteps[2] = "ReachApiServer"
      /\ StandardSteps[3] = "DetectDeploymentType"
  BY StepsAre DEF Connecting
<1>4. /\ StandardSteps[4] = "Credentials" /\ StandardSteps[5] = "NamespaceExists"
      /\ StandardSteps[6] = "Rbac"
  BY StepsAre DEF Validating
<1>5. \A i \in 1 .. 6 : i \in {1, 2, 3, 4, 5, 6}
  OBVIOUS
<1>6. \A i \in 1 .. 6 : StandardSteps[i] \in Range(Connecting) \cup Range(Validating)
  BY <1>3, <1>4, <1>5, StepsAre
<1>7. \A id \in Range(Connecting) \cup Range(Validating) : \E i \in 1 .. 6 : StandardSteps[i] = id
  BY <1>3, <1>4, StepsAre
<1> QED
  BY <1>2, <1>6, <1>7

(* The steps in some states are those in these states; the first of them   *)
(* is there if any is, and comes before the others.                        *)
LEMMA StepsInAre ==
  ASSUME NEW p, Told(p), p.ids = StandardSteps, NEW states
  PROVE  /\ Range(StepsIn(p, states)) = {id \in StepNames : p.steps[id] \in states}
         /\ (StepsIn(p, states) # << >>) <=> (\E i \in 1 .. 11 : p.steps[StandardSteps[i]] \in states)
         /\ StepsIn(p, states) # << >> =>
              \E i \in 1 .. 11 :
                /\ Head(StepsIn(p, states)) = StandardSteps[i] /\ p.steps[StandardSteps[i]] \in states
                /\ \A j \in 1 .. 11 : p.steps[StandardSteps[j]] \in states => i <= j
<1> DEFINE S == {i \in DOMAIN p.ids : p.steps[p.ids[i]] \in states}
           c == Chosen(p.ids, S)
<1>1. StepsIn(p, states) = c
  BY DEF StepsIn
<1>2. p.ids \in Seq(StepNames) /\ S \in SUBSET (DOMAIN p.ids)
  BY StepsAre
<1>3. \A i : i \in S <=> i \in 1 .. 11 /\ p.steps[StandardSteps[i]] \in states
  BY StepsAre
<1> HIDE DEF S
<1>4. /\ c \in Seq(StepNames) /\ Cardinality(S) \in Nat /\ Len(c) = Cardinality(S) /\ IsFiniteSet(S)
      /\ Range(c) = {p.ids[i] : i \in S}
      /\ S # {} => \E i \in S : c[1] = p.ids[i] /\ \A j \in S : i <= j
  BY <1>2, ChosenIs
<1>5. (S = {}) <=> (Cardinality(S) = 0)
  BY <1>4, FS_EmptySet
<1> HIDE DEF c
<1>6. (c # << >>) <=> (S # {})
  BY <1>4, <1>5
<1>7. c # << >> => Head(c) = c[1]
  BY <1>4
<1>8. StepNames = {StandardSteps[j] : j \in 1 .. 11}
  BY StepsAre DEF Range
<1>9. Range(c) = {id \in StepNames : p.steps[id] \in states}
  BY <1>3, <1>4, <1>8
<1>10. (c # << >>) <=> (\E i \in 1 .. 11 : p.steps[StandardSteps[i]] \in states)
  BY <1>3, <1>6
<1>11. ASSUME c # << >>
       PROVE  \E i \in 1 .. 11 :
                /\ Head(c) = StandardSteps[i] /\ p.steps[StandardSteps[i]] \in states
                /\ \A j \in 1 .. 11 : p.steps[StandardSteps[j]] \in states => i <= j
  <2>1. PICK i \in S : c[1] = p.ids[i] /\ \A j \in S : i <= j
    BY <1>4, <1>6, <1>11
  <2> QED
    BY <1>3, <1>7, <1>11, <2>1
<1> QED
  BY <1>1, <1>9, <1>10, <1>11

(* A refused boot has failed, and the first of its failures is one that    *)
(* refuses it; what that one skips is everything after it.                 *)
LEMMA RefusalIs ==
  ASSUME NEW p, Told(p), p.ids = StandardSteps, Gate(p), Refused(p)
  PROVE  /\ AnyFailed(p)
         /\ FirstFailure(p) \in Range(Connecting \o Validating) /\ p.steps[FirstFailure(p)] \in Failures
         /\ FirstFailure(p) \in Range(Connecting) =>
              Range(StepsIn(p, {"Skipped"})) = After(p, FirstFailure(p))
<1> DEFINE failed == FirstFailure(p)
<1>1. PICK id \in Range(Connecting \o Validating) : p.steps[id] \in Failures
  BY DEF Refused
<1>2. PICK k \in 1 .. 6 : StandardSteps[k] = id
  BY OpeningIs
<1>3. k \in 1 .. 11 /\ p.steps[StandardSteps[k]] \in Failures
  BY <1>1, <1>2
<1>4. StepsIn(p, Failures) # << >>
  BY <1>3, StepsInAre
<1>5. PICK i \in 1 .. 11 :
        /\ failed = StandardSteps[i] /\ p.steps[StandardSteps[i]] \in Failures
        /\ \A j \in 1 .. 11 : p.steps[StandardSteps[j]] \in Failures => i <= j
  BY <1>4, StepsInAre DEF FirstFailure
<1>6. i \in 1 .. 6
  BY <1>2, <1>3, <1>5
<1>7. failed \in Range(Connecting \o Validating) /\ p.steps[failed] \in Failures
  BY <1>5, <1>6, OpeningIs
<1> HIDE DEF failed
<1>8. ASSUME failed \in Range(Connecting)
      PROVE  Range(StepsIn(p, {"Skipped"})) = After(p, failed)
  <2>1. \A x \in After(p, failed) : p.steps[x] = "Skipped"
    BY <1>7, <1>8 DEF Gate
  <2>2. ASSUME NEW x \in StepNames, p.steps[x] = "Skipped" PROVE x \in After(p, failed)
    <3>1. CASE x \in Range(Connecting)
      <4>1. PICK d \in Range(Connecting) : p.steps[d] \in Failures /\ x \in After(p, d)
        BY <2>2, <3>1 DEF Gate
      <4>2. d = failed
        <5>1. p.steps[d] # "Skipped" /\ p.steps[failed] # "Skipped"
          BY <1>7, <4>1, StatesAre
        <5>2. d \in After(p, failed) => p.steps[d] = "Skipped"
          BY <2>1
        <5>3. failed \in After(p, d) => p.steps[failed] = "Skipped"
          BY <4>1 DEF Gate
        <5> QED
          BY <1>8, <5>1, <5>2, <5>3, LanesAre
      <4> QED
        BY <4>1, <4>2
    <3>2. CASE x \notin Range(Connecting)
      BY <1>8, <3>2, AfterIs, StepsAre
    <3> QED
      BY <3>1, <3>2
  <2>3. After(p, failed) \subseteq StepNames
    BY <1>8, LanesAre
  <2>4. Range(StepsIn(p, {"Skipped"})) = {x \in StepNames : p.steps[x] \in {"Skipped"}}
    BY StepsInAre
  <2> QED
    BY <2>1, <2>2, <2>3, <2>4
<1> QED
  BY <1>4, <1>7, <1>8 DEF AnyFailed, failed

(* Two probes with the same states have the same document.                 *)
LEMMA DocumentSame ==
  ASSUME NEW p, NEW q, q.ids = p.ids, q.steps = p.steps, NEW ns
  PROVE  /\ FailureDocument(q, ns) = FailureDocument(p, ns)
         /\ FirstFailure(q) = FirstFailure(p) /\ \A states : StepsIn(q, states) = StepsIn(p, states)
         /\ Refused(q) <=> Refused(p)
         /\ Gate(q) <=> Gate(p)
         /\ \A id : After(q, id) = After(p, id)
<1>1. \A states : StepsIn(q, states) = StepsIn(p, states)
  BY DEF StepsIn
<1>2. FirstFailure(q) = FirstFailure(p)
  BY <1>1 DEF FirstFailure
<1>3. FailureDocument(q, ns) = FailureDocument(p, ns)
  BY <1>1, <1>2 DEF FailureDocument, StepValue
<1>4. \A id : After(q, id) = After(p, id)
  BY DEF After
<1>5. Refused(q) <=> Refused(p)
  BY DEF Refused, Degraded
<1>6. Gate(q) <=> Gate(p)
  BY <1>4 DEF Gate
<1> QED
  BY <1>1, <1>2, <1>3, <1>4, <1>5, <1>6

-----------------------------------------------------------------------------
(* What leads doctor to refuse: the gate, all along; nobody goes on with a *)
(* refused boot, and who ends with one says so and has no report.          *)
RefusalInv ==
  boot # << >> /\ Doctor =>
    /\ Gate(Probe)
    /\ phase \notin {"start", "probing", "done"} => ~Refused(Probe)
    /\ phase = "done" /\ Probe.outcome # << >> /\ Refused(Probe) =>
         /\ code = <<3>> /\ report = << >>
         /\ Probe.outcome = << FailureDocument(Probe, B.cfg.texts["namespace"][1]) >>

(* What leaves the boot alone and does not end a refused run.              *)
LEMMA RefusalRests ==
  ASSUME BootInv, RefusalInv, UNCHANGED <<boot, inv>>, phase # "done",
         phase' = "done" \/ (phase \notin {"start", "probing", "done"} /\ phase' \notin {"start", "probing"})
  PROVE  RefusalInv'
<1>1. B' = B /\ Probe' = Probe /\ (Doctor' <=> Doctor)
  BY DEF B, Probe, Doctor
<1>2. boot # << >> => Probe.outcome = << >> \/ phase \notin {"start", "probing", "done"}
  BY DEF BootInv
<1> QED
  BY <1>1, <1>2 DEF RefusalInv

(* The refusals are as RefusalInv says all along.                          *)
LEMMA RefusalInvariant == Spec => []RefusalInv
<1>1. Init => RefusalInv
  BY DEF Init, Begun, RefusalInv
<1>2. TypeOK /\ BootInv /\ RefusalInv /\ [Next]_vars => RefusalInv'
  <2> SUFFICES ASSUME TypeOK, BootInv, RefusalInv, [Next]_vars PROVE RefusalInv'
    OBVIOUS
  <2>1. CASE BadTheme \/ LooksAtDpu \/ LooksAtDrift \/ Complains \/ DoctorReports \/ CorrelateReports \/ Dies
    BY <2>1, RefusalRests DEF BadTheme, LooksAtDpu, LooksAtDrift, Complains, DoctorReports, CorrelateReports,
       Dies, Exit, Rest, Whole, Ready
  <2>2. CASE LayersRun \/ SaveBegins \/ SaveRefused \/ SaveEnds \/ SaveBreaks \/ SourcesCollect
    BY <2>2, RefusalRests DEF LayersRun, SaveBegins, SaveRefused, SaveEnds, SaveBreaks, SourcesCollect, Rest
  <2>3. CASE Configures
    <3>1. phase' = "probing" /\ UNCHANGED inv
      BY <2>3 DEF Configures, Rest
    <3>2. PICK b, cfg, ids : /\ boot' = << b >> /\ Fresh(b, cfg, ids)
                             /\ ids = IF Doctor THEN StandardSteps ELSE CorrelateSteps
      BY <2>3, StartsAre DEF Configures
    <3>3. boot' # << >> /\ B' = b /\ Probe' = b.probe /\ (Doctor' <=> Doctor)
      BY <3>1, <3>2 DEF B, Probe, Doctor
    <3>4. ASSUME Doctor PROVE Gate(b.probe)
      <4>1. b.probe.ids = StandardSteps /\ \A id \in StepNames : b.probe.steps[id] = "Pending"
        BY <3>2, <3>4, StepsAre DEF Fresh
      <4>2. "Pending" \notin Terminal /\ "Pending" \notin Failures
        BY StatesAre
      <4>3. \A c \in Range(Connecting) : c \in StepNames /\ After(b.probe, c) \subseteq StepNames
        BY <4>1, LanesAre
      <4> QED
        BY <4>1, <4>2, <4>3 DEF Gate
    <3> QED
      BY <3>1, <3>3, <3>4 DEF RefusalInv
  <2>4. ASSUME NEW id, StepBegin(id) \/ StepEnd(id) PROVE RefusalInv'
    <3>1. phase = "probing" /\ UNCHANGED <<phase, inv>> /\ boot # << >> /\ id \in DOMAIN Probe.steps
      BY <2>4, ProbeSteps
    <3>2. PICK r :
            /\ boot' = << r >> /\ Follows(B, r)
            /\ Doctor =>
                 \/ /\ Probe.steps[id] = "Pending" /\ MayBegin(Probe, id)
                    /\ \E state \in {"Active", "Skipped"} :
                         /\ r.probe.steps = [x \in DOMAIN Probe.steps |-> IF x = id THEN state ELSE Probe.steps[x]]
                         /\ id \in Range(Connecting) => state = "Active"
                 \/ /\ Probe.steps[id] = "Active"
                    /\ \E outcome \in {"Passed", "Failed", "TimedOut"} :
                         r.probe.steps = [x \in DOMAIN Probe.steps |-> EndsIn(Probe, id, outcome, x)]
      BY <2>4, ProbeSteps
    <3>3. boot' # << >> /\ Probe' = r.probe /\ (Doctor' <=> Doctor)
      BY <3>1, <3>2 DEF B, Probe, Doctor
    <3>4. ASSUME Doctor PROVE Gate(r.probe)
      <4>1. /\ Probe.ids = StandardSteps /\ r.probe.ids = Probe.ids /\ DOMAIN Probe.steps = StepNames
            /\ Gate(Probe)
        <5>1. Told(Probe) /\ Probe.ids = StandardSteps /\ Gate(Probe)
          BY <3>1, <3>4 DEF BootInv, RefusalInv, IsBoot, Probe, B
        <5>2. DOMAIN Probe.steps = Range(Probe.ids)
          BY <5>1, IdsAreSteps DEF Told
        <5> QED
          BY <3>2, <5>1, <5>2, StepsAre DEF Follows, Continues, Probe, B
      <4>2. CASE Probe.steps[id] = "Pending" /\ MayBegin(Probe, id)
                   /\ \E state \in {"Active", "Skipped"} :
                        /\ r.probe.steps = [x \in DOMAIN Probe.steps |-> IF x = id THEN state ELSE Probe.steps[x]]
                        /\ id \in Range(Connecting) => state = "Active"
        BY <3>1, <4>1, <4>2, GateAtBegin
      <4>3. CASE Probe.steps[id] = "Active"
                   /\ \E outcome \in {"Passed", "Failed", "TimedOut"} :
                        r.probe.steps = [x \in DOMAIN Probe.steps |-> EndsIn(Probe, id, outcome, x)]
        BY <3>1, <4>1, <4>3, GateAtEnd
      <4> QED
        BY <3>2, <3>4, <4>2, <4>3
    <3> QED
      BY <3>1, <3>3, <3>4 DEF RefusalInv
  <2>5. CASE BootRefuses \/ GoesOn
    <3>1. /\ phase = "probing" /\ UNCHANGED <<inv, report>> /\ boot' = << BootFinished(B) >>
          /\ \/ phase' = "done" /\ code' = <<3>>
             \/ phase' = "working" /\ ~(Doctor /\ Refused(Probe))
      BY <2>5 DEF BootRefuses, GoesOn, Settles, Exit, Rest
    <3> DEFINE r == BootFinished(B)
    <3>2. boot # << >> /\ IsBoot(B) /\ Probe = B.probe
      BY <3>1 DEF BootInv, Probe, B
    <3>3. /\ IsBoot(r) /\ r.probe.ids = Probe.ids /\ r.probe.steps = Probe.steps /\ r.cfg = B.cfg
          /\ AnyFailed(Probe) => r.probe.outcome = << FailureDocument(Probe, B.cfg.texts["namespace"][1]) >>
      BY <3>2, FinishedIs DEF SameConfig
    <3> HIDE DEF r
    <3>4. boot' # << >> /\ B' = r /\ Probe' = r.probe /\ (Doctor' <=> Doctor)
      BY <3>1, <3>2 DEF B, Probe, Doctor, r
    <3>5. (Refused(r.probe) <=> Refused(Probe)) /\ (Gate(r.probe) <=> Gate(Probe))
      BY <3>3, DocumentSame
    <3>6. report' = << >>
      BY <3>1 DEF TypeOK
    <3>7. ASSUME Doctor
          PROVE  /\ Gate(Probe')
                 /\ phase' \notin {"start", "probing", "done"} => ~Refused(Probe')
                 /\ phase' = "done" /\ Refused(Probe') =>
                      /\ code' = <<3>>
                      /\ Probe'.outcome = << FailureDocument(Probe', B'.cfg.texts["namespace"][1]) >>
      <4>1. Told(Probe) /\ Probe.ids = StandardSteps /\ Gate(Probe)
        BY <3>2, <3>7 DEF BootInv, RefusalInv, IsBoot
      <4>2. Refused(Probe) => AnyFailed(Probe)
        BY <4>1, RefusalIs
      <4>3. \A ns : FailureDocument(r.probe, ns) = FailureDocument(Probe, ns)
        BY <3>3, DocumentSame
      <4> QED
        BY <3>1, <3>3, <3>4, <3>5, <3>7, <4>1, <4>2, <4>3
    <3> QED
      BY <3>4, <3>6, <3>7 DEF RefusalInv
  <2>6. CASE RunsAgain
    BY <2>6 DEF RunsAgain, RefusalInv
  <2>7. CASE UNCHANGED vars
    BY <2>7 DEF vars, RefusalInv, B, Probe, Doctor
  <2> QED
    BY <2>1, <2>2, <2>3, <2>4, <2>5, <2>6, <2>7 DEF Next, Over
<1> QED
  BY <1>1, <1>2, BootInvariant, TypeCorrect, PTL DEF Spec

(* Whichever lane fails first, a refusal names a step that refuses the run *)
(* and not one it can do without, and all that comes after a failed        *)
(* connecting step is skipped (json.rs, bootstrap.rs 716-745).             *)
THEOREM RefusalsNameTheirStep == Spec => []RefusalNamesFatalStep
<1>1. TypeOK /\ BootInv /\ RefusalInv => RefusalNamesFatalStep
  <2> SUFFICES ASSUME TypeOK, BootInv, RefusalInv,
                      boot # << >>, Probe.outcome # << >>, Doctor, Refused(Probe),
                      NEW document, document = Probe.outcome[1]
               PROVE  /\ code = <<3>> /\ report = << >> /\ ~document.ok
                      /\ document.failed \in Range(Connecting \o Validating)
                      /\ Probe.steps[document.failed] \in Failures
                      /\ document.failed \in Range(Connecting) =>
                           Range(document.skipped) = After(Probe, document.failed)
    BY DEF RefusalNamesFatalStep
  <2>1. phase = "done"
    BY DEF BootInv, RefusalInv
  <2>2. /\ code = <<3>> /\ report = << >> /\ Gate(Probe)
        /\ document = FailureDocument(Probe, B.cfg.texts["namespace"][1])
    BY <2>1 DEF RefusalInv
  <2>3. Told(Probe) /\ Probe.ids = StandardSteps
    BY DEF BootInv, IsBoot, Probe, B
  <2>4. /\ document.ok = FALSE /\ document.failed = FirstFailure(Probe)
        /\ document.skipped = StepsIn(Probe, {"Skipped"})
    BY <2>2 DEF FailureDocument
  <2> QED
    BY <2>2, <2>3, <2>4, RefusalIs
<1> QED
  BY <1>1, BootInvariant, RefusalInvariant, TypeCorrect, PTL

-----------------------------------------------------------------------------
(* Of some options the first that is given is one of them.                 *)
LEMMA FirstGivenIs ==
  ASSUME NEW T, NEW options \in Seq(T)
  PROVE  /\ FirstGiven(options) \in T \cup {<< >>}
         /\ Len(options) > 0 /\ options[1] # << >> => FirstGiven(options) = options[1]
<1> DEFINE given == {i \in DOMAIN options : options[i] # << >>}
<1>1. given \in SUBSET (DOMAIN options) /\ DOMAIN options = 1 .. Len(options)
  OBVIOUS
<1>2. FirstGiven(options) = IF given = {} THEN << >> ELSE options[Min(given)]
  BY DEF FirstGiven
<1>3. Len(options) > 0 /\ options[1] # << >> => 1 \in given
  BY <1>1
<1> HIDE DEF given
<1>4. ASSUME given # {} PROVE Min(given) \in given /\ \A j \in given : Min(given) <= j
  <2>1. \E i \in given : \A j \in given : i <= j
    <3>1. given # {} =>
            \E i \in given : Chosen(options, given)[1] = options[i] /\ \A j \in given : i <= j
      BY <1>1, ChosenIs, Zenon
    <3> QED
      BY <1>4, <3>1
  <2> QED
    BY <2>1 DEF Min
<1>5. FirstGiven(options) \in T \cup {<< >>}
  BY <1>1, <1>2, <1>4
<1>6. ASSUME 1 \in given PROVE FirstGiven(options) = options[1]
  <2>1. Min(given) = 1
    BY <1>1, <1>4, <1>6
  <2> QED
    BY <1>2, <1>6, <2>1
<1> QED
  BY <1>3, <1>5, <1>6

(* What the ladder answers: a type, or none.                               *)
TypeOrNone == {<< >>} \cup {<<t>> : t \in Types}

(* The ladder comes to a type or to none.                                  *)
LEMMA LadderIs == ASSUME NEW shape PROVE Ladder(shape).matched \in TypeOrNone
<1>1. /\ << >> \in TypeOrNone /\ <<"full">> \in TypeOrNone /\ <<"core-only">> \in TypeOrNone
      /\ <<"rest-only-mock">> \in TypeOrNone
  BY DEF TypeOrNone, Types
<1>2. ASSUME NEW core, NEW rest PROVE Matched(core, rest) \in TypeOrNone
  BY <1>1 DEF Matched
<1>3. NamespaceInventory(shape) \in TypeOrNone /\ CrdInventory(shape) \in TypeOrNone
  BY <1>2 DEF NamespaceInventory, CrdInventory
<1>4. WorkloadProbe(shape) \in TypeOrNone
  BY <1>1 DEF WorkloadProbe
<1> DEFINE rungs == <<WorkloadProbe(shape), NamespaceInventory(shape), CrdInventory(shape)>>
<1>5. rungs \in Seq(TypeOrNone)
  BY <1>3, <1>4
<1>6. Ladder(shape).matched = FirstGiven(rungs)
  BY DEF Ladder
<1> HIDE DEF rungs
<1>7. FirstGiven(rungs) \in TypeOrNone \cup {<< >>}
  BY <1>5, FirstGivenIs
<1> QED
  BY <1>1, <1>6, <1>7

(* A flag that declares a type changes nothing else.                       *)
LEMMA DeclaringIs ==
  ASSUME NEW flags, NEW t
  PROVE  /\ Given(Declaring(flags, t), "deployment_type") = <<t>>
         /\ \A key : key # "deployment_type" => Given(Declaring(flags, t), key) = Given(flags, key)
         /\ "deployment_type" \in DOMAIN Declaring(flags, t)
<1> DEFINE d == Declaring(flags, t)
<1>1. DOMAIN d = DOMAIN flags \cup {"deployment_type"} /\ d["deployment_type"] = t
  BY DEF Declaring
<1>2. \A key \in DOMAIN flags : key # "deployment_type" => d[key] = flags[key]
  BY DEF Declaring
<1> HIDE DEF d
<1> QED
  BY <1>1, <1>2 DEF Given, d

(* The flag is what decides.                                               *)
LEMMA DeclaredIs == ASSUME NEW ini, NEW env, NEW flags, NEW t PROVE Declared(ini, env, Declaring(flags, t)) = <<t>>
<1> DEFINE d == Declaring(flags, t)
           options == <<Given(d, "deployment_type"), Given(env, "deployment_type"), Given(ini, "deployment_type")>>
<1>1. options \in Seq({Given(d, "deployment_type"), Given(env, "deployment_type"), Given(ini, "deployment_type")})
  OBVIOUS
<1>2. Len(options) > 0 /\ options[1] = <<t>> /\ <<t>> # << >>
  BY DeclaringIs
<1>3. Declared(ini, env, d) = FirstGiven(options)
  BY DEF Declared
<1> HIDE DEF options
<1> QED
  BY <1>1, <1>2, <1>3, FirstGivenIs

(* What Config::load rejects does not depend on which type is declared.    *)
LEMMA RejectedSame ==
  ASSUME NEW ini, NEW env, NEW flags, NEW t \in Types, ~Rejected(ini, env, flags)
  PROVE  ~Rejected(ini, env, Declaring(flags, t))
<1> DEFINE d == Declaring(flags, t)
<1>1. ~BadType(ini, env, d)
  BY DeclaredIs DEF BadType
<1>2. TimeoutSpec(d) = TimeoutSpec(flags)
  BY DeclaringIs DEF TimeoutSpec
<1>3. BadSpec(d) <=> BadSpec(flags)
  BY <1>2 DEF BadSpec
<1> HIDE DEF d
<1> QED
  BY <1>1, <1>3 DEF Rejected, d

(* The type that Config::load settles on: the declared one, or the         *)
(* detected one where none is.                                             *)
LEMMA ResolvesIs ==
  ASSUME NEW ses, NEW t \in Types
  PROVE  /\ ResolveType(ses.file, ses.env, Declaring(ses.flags, t), << >>).type = <<t>>
         /\ ResolveType(ses.file, ses.env, ses.flags, << >>).type = << >> =>
              ResolveType(ses.file, ses.env, ses.flags, <<t>>) = [type |-> <<t>>, source |-> "auto"]
<1> DEFINE d == Declaring(ses.flags, t)
<1>1. Declared(ses.file, ses.env, d) = <<t>>
  BY DeclaredIs
<1>2. <<t>> \notin {<< >>, <<"auto">>}
  BY DEF Types
<1>3. ResolveType(ses.file, ses.env, d, << >>).type = <<t>>
  BY <1>1, <1>2 DEF ResolveType
<1>4. ASSUME ResolveType(ses.file, ses.env, ses.flags, << >>).type = << >>
      PROVE  ResolveType(ses.file, ses.env, ses.flags, <<t>>) = [type |-> <<t>>, source |-> "auto"]
  <2> DEFINE said == Declared(ses.file, ses.env, ses.flags)
  <2>1. said \in {<< >>, <<"auto">>}
    BY <1>4 DEF ResolveType
  <2> QED
    BY <2>1 DEF ResolveType
<1> QED
  BY <1>3, <1>4

LoadedFields == {"ok", "type", "source", "texts", "stuck", "refresh", "color", "format", "reach", "timeouts", "dpu"}

Configuration(type, source, texts, stuck, refresh, color, format, reach, timeouts, dpu) ==
  [ok |-> TRUE, type |-> type, source |-> source, texts |-> texts, stuck |-> stuck, refresh |-> refresh,
   color |-> color, format |-> format, reach |-> reach, timeouts |-> timeouts, dpu |-> dpu]

(* Of a configuration the source alone can be replaced.                    *)
LEMMA SourceReplaced ==
  ASSUME NEW a, NEW c, NEW e, NEW f, NEW g, NEW h, NEW k, NEW l, NEW m, NEW x, NEW y
  PROVE  Configuration(a, y, c, e, f, g, h, k, l, m)
           = [Configuration(a, x, c, e, f, g, h, k, l, m) EXCEPT !.source = y]
<1> DEFINE new == Configuration(a, y, c, e, f, g, h, k, l, m)
           old == Configuration(a, x, c, e, f, g, h, k, l, m)
<1>1. DOMAIN new = LoadedFields /\ new = [field \in DOMAIN new |-> new[field]]
  BY DEF LoadedFields, Configuration
<1>2. DOMAIN old = LoadedFields
  BY DEF LoadedFields, Configuration
<1>3. /\ new.ok = old.ok /\ new.type = old.type /\ new.texts = old.texts /\ new.stuck = old.stuck
      /\ new.refresh = old.refresh /\ new.source = y
  BY DEF Configuration
<1>4. /\ new.color = old.color /\ new.format = old.format /\ new.reach = old.reach
      /\ new.timeouts = old.timeouts /\ new.dpu = old.dpu
  BY DEF Configuration
<1> HIDE DEF new, old
<1>5. \A field \in LoadedFields : new[field] = IF field = "source" THEN y ELSE old[field]
  BY <1>3, <1>4 DEF LoadedFields
<1>6. [old EXCEPT !.source = y] = [field \in LoadedFields |-> IF field = "source" THEN y ELSE old[field]]
  BY <1>2
<1> QED
  BY <1>1, <1>5, <1>6 DEF new, old

(* Loaded once with a type that was detected, and once with the same type  *)
(* declared, a configuration is the same but for the source of its type.   *)
LEMMA LoadsAgree ==
  ASSUME NEW ses, NEW t,
         ~Rejected(ses.file, ses.env, ses.flags), ~Rejected(ses.file, ses.env, Declaring(ses.flags, t)),
         ResolveType(ses.file, ses.env, ses.flags, <<t>>).type
           = ResolveType(ses.file, ses.env, Declaring(ses.flags, t), << >>).type,
         ResolveType(ses.file, ses.env, ses.flags, <<t>>).source = "auto"
  PROVE  /\ Load(ses.file, ses.env, ses.flags, <<t>>).ok = TRUE
         /\ Load(ses.file, ses.env, Declaring(ses.flags, t), << >>).ok = TRUE
         /\ Load(ses.file, ses.env, ses.flags, <<t>>)
              = [Load(ses.file, ses.env, Declaring(ses.flags, t), << >>) EXCEPT !.source = "auto"]
<1> DEFINE ini   == ses.file
           env   == ses.env
           flags == ses.flags
           other == Declaring(flags, t)
           type  == ResolveType(ini, env, flags, <<t>>).type
           origin == ResolveType(ini, env, other, << >>).source
           Loaded(f, source) ==
             Configuration(type, source, [key \in TextKeys |-> Setting(ini, env, f, type, key)],
               Setting(ini, env, f, type, "stuck_threshold")[1], Setting(ini, env, f, type, "tui_refresh")[1],
               Word(ini, f, "color", {"always", "never"}, "auto"), Word(ini, f, "format", {"json"}, "human"),
               ReachMode(ini, env, f), [step \in DOMAIN Timeouts |-> TimeoutOf(ini, env, f, step)],
               [key \in DOMAIN DpuDefaults |-> Or(Below(ini, env, key), DpuDefaults[key])])
<1>1. Load(ini, env, flags, <<t>>) = Loaded(flags, "auto")
  BY DEF Load, Configuration
<1>2. Load(ini, env, other, << >>) = Loaded(other, origin)
  BY DEF Load, Configuration
<1>3. \A key : key # "deployment_type" => Given(other, key) = Given(flags, key)
  BY DeclaringIs
<1> HIDE DEF ini, env, flags, other, type, origin
<1>4. \A key \in TextKeys \cup {"stuck_threshold", "tui_refresh"} :
        Setting(ini, env, other, type, key) = Setting(ini, env, flags, type, key)
  BY <1>3 DEF Setting, TextKeys
<1>5. /\ Word(ini, other, "color", {"always", "never"}, "auto") = Word(ini, flags, "color", {"always", "never"}, "auto")
      /\ Word(ini, other, "format", {"json"}, "human") = Word(ini, flags, "format", {"json"}, "human")
  BY <1>3 DEF Word
<1>6. ReachMode(ini, env, other) = ReachMode(ini, env, flags)
  BY <1>3 DEF ReachMode
<1>7. TimeoutSpec(other) = TimeoutSpec(flags)
  BY <1>3 DEF TimeoutSpec
<1>8. \A step : TimeoutOf(ini, env, other, step) = TimeoutOf(ini, env, flags, step)
  BY <1>7 DEF TimeoutOf
<1>9. Loaded(other, "auto") = Loaded(flags, "auto")
  BY <1>4, <1>5, <1>6, <1>8
<1>10. Loaded(other, "auto") = [Loaded(other, origin) EXCEPT !.source = "auto"]
  BY SourceReplaced
<1>11. \A f, source : Loaded(f, source).ok = TRUE
  BY DEF Configuration
<1> HIDE DEF Loaded
<1>12. /\ Load(ini, env, flags, <<t>>).ok = TRUE /\ Load(ini, env, other, << >>).ok = TRUE
       /\ Load(ini, env, flags, <<t>>) = [Load(ini, env, other, << >>) EXCEPT !.source = "auto"]
  BY <1>1, <1>2, <1>9, <1>10, <1>11
<1> QED
  BY <1>12, Zenon DEF ini, env, flags, other

-----------------------------------------------------------------------------
(* What the detection of doctor leaves: the configuration as it was first  *)
(* loaded, or that of a type that was detected where none was declared.    *)
DetectInv ==
  boot # << >> =>
    /\ ~Doctor => B.detected = << >>
    /\ Doctor => /\ ~Rejected(s.file, s.env, s.flags)
                 /\ B.detected = << >> => B.cfg = Load(s.file, s.env, s.flags, << >>)
                 /\ B.detected # << >> =>
                      /\ LoadedWith(s, B.detected, B) /\ B.detected \in TypeOrNone
                      /\ ResolveType(s.file, s.env, s.flags, << >>).type = << >>

(* A load that is not rejected has the type that was resolved.             *)
LEMMA LoadedType ==
  ASSUME NEW ses, NEW detected
  PROVE  /\ Rejected(ses.file, ses.env, ses.flags) => Load(ses.file, ses.env, ses.flags, detected).ok = FALSE
         /\ ~Rejected(ses.file, ses.env, ses.flags) =>
              Load(ses.file, ses.env, ses.flags, detected).type = ResolveType(ses.file, ses.env, ses.flags, detected).type
<1>1. Rejected(ses.file, ses.env, ses.flags) => Load(ses.file, ses.env, ses.flags, detected).ok = FALSE
  BY DEF Load
<1>2. ASSUME ~Rejected(ses.file, ses.env, ses.flags)
      PROVE  Load(ses.file, ses.env, ses.flags, detected).type = ResolveType(ses.file, ses.env, ses.flags, detected).type
  BY <1>2 DEF Load
<1> QED
  BY <1>1, <1>2

(* A boot that is replaced by one of the same configuration.               *)
LEMMA DetectRests ==
  ASSUME DetectInv, UNCHANGED inv, boot # << >>, boot' # << >>, SameConfig(B, B')
  PROVE  DetectInv'
<1>1. (Doctor' <=> Doctor) /\ s' = s
  BY DEF Doctor, s
<1>2. B'.cfg = B.cfg /\ B'.detected = B.detected
  BY DEF SameConfig
<1>3. \A type : LoadedWith(s, type, B) => LoadedWith(s, type, B')
  BY DEF LoadedWith, SameConfig, SameLabels
<1> QED
  BY <1>1, <1>2, <1>3 DEF DetectInv

(* A detection.                                                            *)
LEMMA DetectsIs ==
  ASSUME DetectInv, UNCHANGED inv, boot # << >>, boot' # << >>, Doctor, Redetects(s, B, B')
  PROVE  DetectInv'
<1> DEFINE type == Detect(s.w, B.cfg.type).type
<1>1. Doctor' /\ s' = s
  BY DEF Doctor, s
<1>2. LoadedWith(s, type, B') /\ B'.detected = type /\ B'.cfg = Load(s.file, s.env, s.flags, type)
  BY DEF Redetects, LoadedWith
<1>3. type = << >> \/ (B.cfg.type = << >> /\ type \in TypeOrNone)
  <2>1. CASE B.cfg.type # << >>
    BY <2>1 DEF Detect
  <2>2. CASE B.cfg.type = << >>
    BY <2>2, LadderIs DEF Detect
  <2> QED
    BY <2>1, <2>2
<1> HIDE DEF type
<1>4. ASSUME B.cfg.type = << >>
      PROVE  ResolveType(s.file, s.env, s.flags, << >>).type = << >>
  <2>1. CASE B.detected = << >>
    <3>1. ~Rejected(s.file, s.env, s.flags) /\ B.cfg = Load(s.file, s.env, s.flags, << >>)
      BY <2>1 DEF DetectInv
    <3>2. Load(s.file, s.env, s.flags, << >>).type = ResolveType(s.file, s.env, s.flags, << >>).type
      BY <3>1, LoadedType, Zenon
    <3> QED
      BY <1>4, <3>1, <3>2
  <2>2. CASE B.detected # << >>
    BY <2>2 DEF DetectInv
  <2> QED
    BY <2>1, <2>2
<1> QED
  BY <1>1, <1>2, <1>3, <1>4 DEF DetectInv

(* The detection is as DetectInv says all along.                           *)
LEMMA DetectInvariant == Spec => []DetectInv
<1>1. Init => DetectInv
  BY DEF Init, Begun, DetectInv
<1>2. BootInv /\ DetectInv /\ [Next]_vars => DetectInv'
  <2> SUFFICES ASSUME BootInv, DetectInv, [Next]_vars PROVE DetectInv'
    OBVIOUS
  <2>1. CASE UNCHANGED <<boot, inv>>
    BY <2>1 DEF DetectInv, B, Probe, Doctor, s
  <2>2. CASE Configures
    <3>1. UNCHANGED inv
      BY <2>2 DEF Configures, Rest
    <3>2. PICK b, cfg : /\ boot' = << b >> /\ b.cfg = cfg /\ b.detected = << >>
                        /\ Doctor => cfg = BootConfig(s) /\ cfg.ok
      <4>1. CASE Doctor
        <5>1. BootConfig(s).ok /\ boot' = << StartProbe(s, BootConfig(s)) >>
          BY <2>2, <4>1 DEF Configures
        <5> QED
          BY <5>1, StartsAre DEF Fresh
      <4>2. CASE ~Doctor
        <5>1. boot' = << StartCorrelate(s, CorrelateConfig(s)) >>
          BY <2>2, <4>2 DEF Configures
        <5> QED
          BY <4>2, <5>1, StartsAre DEF Fresh
      <4> QED
        BY <4>1, <4>2
    <3>3. B' = b /\ (Doctor' <=> Doctor) /\ s' = s
      BY <3>1, <3>2 DEF B, Doctor, s
    <3>4. Doctor => /\ cfg = Load(s.file, s.env, s.flags, << >>)
                    /\ ~Rejected(s.file, s.env, s.flags)
      <4>1. Rejected(s.file, s.env, s.flags) => Load(s.file, s.env, s.flags, << >>).ok = FALSE
        BY LoadedType, Zenon
      <4>2. Doctor => cfg = Load(s.file, s.env, s.flags, << >>) /\ cfg.ok
        BY <3>2 DEF BootConfig
      <4> QED
        BY <4>1, <4>2
    <3> QED
      BY <3>2, <3>3, <3>4 DEF DetectInv
  <2>3. ASSUME NEW id, StepBegin(id) \/ StepEnd(id) PROVE DetectInv'
    <3>1. UNCHANGED inv /\ boot # << >>
      BY <2>3, ProbeSteps
    <3>2. PICK r : boot' = << r >> /\ (SameConfig(B, r) \/ (Doctor /\ Redetects(s, B, r)))
      BY <2>3, ProbeSteps
    <3>3. boot' # << >> /\ B' = r
      BY <3>2 DEF B
    <3> QED
      BY <3>1, <3>2, <3>3, DetectRests, DetectsIs
  <2>4. CASE BootRefuses \/ GoesOn
    <3>1. phase = "probing" /\ UNCHANGED inv /\ boot' = << BootFinished(B) >>
      BY <2>4 DEF BootRefuses, GoesOn, Settles, Rest
    <3>2. boot # << >> /\ boot' # << >> /\ IsBoot(B) /\ B' = BootFinished(B)
      BY <3>1 DEF BootInv, B
    <3>3. SameConfig(B, B')
      BY <3>2, FinishedIs
    <3> QED
      BY <3>1, <3>2, <3>3, DetectRests
  <2>5. CASE RunsAgain
    BY <2>5 DEF RunsAgain, DetectInv
  <2>6. CASE BadTheme \/ LooksAtDpu \/ LooksAtDrift \/ Complains \/ DoctorReports \/ CorrelateReports \/ Dies
    BY <2>1, <2>6 DEF BadTheme, LooksAtDpu, LooksAtDrift, Complains, DoctorReports, CorrelateReports, Dies, Rest
  <2>7. CASE LayersRun \/ SaveBegins \/ SaveRefused \/ SaveEnds \/ SaveBreaks \/ SourcesCollect
    BY <2>1, <2>7 DEF LayersRun, SaveBegins, SaveRefused, SaveEnds, SaveBreaks, SourcesCollect, Rest
  <2>8. CASE UNCHANGED vars
    BY <2>1, <2>8 DEF vars
  <2> QED
    BY <2>2, <2>3, <2>4, <2>5, <2>6, <2>7, <2>8 DEF Next, Over
<1> QED
  BY <1>1, <1>2, BootInvariant, PTL DEF Spec

(* A detected type configures a run as if it had been declared, all but    *)
(* the label of its source, and the terminal shows what it configured: the *)
(* second load never fails (bootstrap.rs, config.rs).                      *)
THEOREM DetectionIsDeclaration == Spec => []DetectedEqualsDeclared
<1>1. DetectInv => DetectedEqualsDeclared
  <2> SUFFICES ASSUME DetectInv, boot # << >>, B.detected # << >>,
                      NEW declared, declared = Load(s.file, s.env, Declaring(s.flags, B.detected[1]), << >>)
               PROVE  /\ B.cfg.ok /\ declared.ok /\ B.cfg = [declared EXCEPT !.source = "auto"]
                      /\ Probe.type = B.detected /\ Probe.namespace = B.cfg.texts["namespace"]
                      /\ Probe.grpc = B.cfg.texts["grpc_address"]
    BY DEF DetectedEqualsDeclared
  <2>1. /\ ~Rejected(s.file, s.env, s.flags) /\ LoadedWith(s, B.detected, B) /\ B.detected \in TypeOrNone
        /\ ResolveType(s.file, s.env, s.flags, << >>).type = << >>
    BY DEF DetectInv
  <2>2. PICK t \in Types : B.detected = <<t>>
    BY <2>1 DEF TypeOrNone
  <2>3. declared = Load(s.file, s.env, Declaring(s.flags, t), << >>)
        /\ B.cfg = Load(s.file, s.env, s.flags, <<t>>)
    BY <2>1, <2>2 DEF LoadedWith
  <2>4. ~Rejected(s.file, s.env, Declaring(s.flags, t))
    BY <2>1, RejectedSame
  <2>5. /\ ResolveType(s.file, s.env, Declaring(s.flags, t), << >>).type = <<t>>
        /\ ResolveType(s.file, s.env, s.flags, <<t>>) = [type |-> <<t>>, source |-> "auto"]
    BY <2>1, ResolvesIs, Zenon
  <2>6. B.cfg.ok = TRUE /\ declared.ok = TRUE /\ B.cfg = [declared EXCEPT !.source = "auto"]
    <3>1. /\ ResolveType(s.file, s.env, s.flags, <<t>>).type = <<t>>
          /\ ResolveType(s.file, s.env, s.flags, <<t>>).source = "auto"
      BY <2>5
    <3>2. /\ Load(s.file, s.env, s.flags, <<t>>).ok = TRUE
          /\ Load(s.file, s.env, Declaring(s.flags, t), << >>).ok = TRUE
          /\ Load(s.file, s.env, s.flags, <<t>>)
               = [Load(s.file, s.env, Declaring(s.flags, t), << >>) EXCEPT !.source = "auto"]
      <4>1. ResolveType(s.file, s.env, s.flags, <<t>>).type
              = ResolveType(s.file, s.env, Declaring(s.flags, t), << >>).type
        BY <2>5, <3>1
      <4> QED
        BY <2>1, <2>4, <3>1, <4>1, LoadsAgree, Zenon
    <3> QED
      BY <2>3, <3>2
  <2>7. B.cfg.type = <<t>>
    <3>1. B.cfg.type = ResolveType(s.file, s.env, s.flags, <<t>>).type
      BY <2>1, <2>3, LoadedType, Zenon
    <3> QED
      BY <2>5, <3>1
  <2> QED
    BY <2>1, <2>2, <2>6, <2>7 DEF LoadedWith, Probe, B
<1> QED
  BY <1>1, DetectInvariant, PTL

-----------------------------------------------------------------------------
(* The step of FlattenSeq: what is flattened so far, then the next. *)
Flattens(g, n, ss) == g = [i \in 1 .. n |-> IF i = 1 THEN ss[i] ELSE g[i - 1] \o ss[i]]

(* A set of numbers that has a member has a least one. *)
LEMMA LeastNumber ==
  ASSUME NEW S \in SUBSET Nat, S # {}
  PROVE  \E n \in S : \A m \in S : n <= m
<1>1. PICK n \in S : \A m \in S : ~(<<m, n>> \in OpToRel(<, Nat))
  BY WFMin, NatLessThanWellFounded
<1>2. \A m \in S : ~(m < n)
  BY <1>1 DEF OpToRel
<1> QED
  BY <1>2

(* The function that FlattenSeq defines by recursion exists, *)
LEMMA FlattensExists ==
  ASSUME NEW ss, NEW n \in Nat
  PROVE  \E g : Flattens(g, n, ss)
<1> DEFINE Bad == {m \in Nat : ~\E g : Flattens(g, m, ss)}
<1> SUFFICES ASSUME Bad # {} PROVE FALSE
  OBVIOUS
<1>1. PICK m \in Bad : \A k \in Bad : m <= k
  BY LeastNumber
<1>2. m \in Nat /\ ~\E g : Flattens(g, m, ss)
  OBVIOUS
<1>3. CASE m = 0
  <2>1. Flattens([i \in 1 .. 0 |-> ss[i]], 0, ss)
    BY DEF Flattens
  <2> QED
    BY <1>2, <1>3, <2>1
<1>4. CASE m # 0
  <2>1. m - 1 \in Nat /\ m - 1 < m
    BY <1>2, <1>4
  <2>2. m - 1 \notin Bad
    BY <1>1, <1>2, <2>1
  <2>3. PICK g : Flattens(g, m - 1, ss)
    BY <2>1, <2>2
  <2> DEFINE h == [i \in 1 .. m |-> IF i = 1 THEN ss[i] ELSE g[i - 1] \o ss[i]]
  <2>4. ASSUME NEW i \in 1 .. (m - 1) PROVE h[i] = g[i]
    <3>1. i \in 1 .. m
      BY <1>2
    <3>2. g[i] = IF i = 1 THEN ss[i] ELSE g[i - 1] \o ss[i]
      BY <2>3 DEF Flattens
    <3> QED
      BY <3>1, <3>2
  <2>5. ASSUME NEW i \in 1 .. m, i # 1 PROVE h[i - 1] = g[i - 1]
    <3>1. i - 1 \in 1 .. (m - 1)
      BY <1>2, <2>5
    <3> QED
      BY <2>4, <3>1
  <2>6. ASSUME NEW i \in 1 .. m
        PROVE  (IF i = 1 THEN ss[i] ELSE g[i - 1] \o ss[i]) = IF i = 1 THEN ss[i] ELSE h[i - 1] \o ss[i]
    <3> HIDE DEF h
    <3> QED
      BY <2>5
  <2>7. h = [i \in 1 .. m |-> IF i = 1 THEN ss[i] ELSE h[i - 1] \o ss[i]]
    <3>1. h = [i \in 1 .. m |-> IF i = 1 THEN ss[i] ELSE g[i - 1] \o ss[i]]
      OBVIOUS
    <3> HIDE DEF h
    <3> QED
      BY <2>6, <3>1
  <2>8. Flattens(h, m, ss)
    <3> HIDE DEF h
    <3> QED
      BY <2>7 DEF Flattens
  <2> QED
    BY <1>2, <2>8
<1> QED
  BY <1>3, <1>4

(* FlattenSeq is the last value of that function. *)
LEMMA FlattenUnfolds ==
  ASSUME NEW ss, Len(ss) \in Nat \ {0}
  PROVE  \E g : Flattens(g, Len(ss), ss) /\ FlattenSeq(ss) = g[Len(ss)]
<1> DEFINE g == CHOOSE g : g = [i \in 1 .. Len(ss) |-> IF i = 1 THEN ss[i] ELSE g[i - 1] \o ss[i]]
<1>1. \E f : f = [i \in 1 .. Len(ss) |-> IF i = 1 THEN ss[i] ELSE f[i - 1] \o ss[i]]
  BY FlattensExists DEF Flattens
<1>2. Flattens(g, Len(ss), ss)
  BY <1>1, Zenon DEF Flattens
<1>3. FlattenSeq(ss) = g[Len(ss)]
  BY Zenon DEF FlattenSeq
<1> QED
  BY <1>2, <1>3
(* Flattening lists of members of T gives a list of members of T. *)
LEMMA FlattenTyped ==
  ASSUME NEW T, NEW ss \in Seq(Seq(T))
  PROVE  FlattenSeq(ss) \in Seq(T)
<1> DEFINE n == Len(ss)
<1>1. n \in Nat /\ DOMAIN ss = 1 .. n /\ \A i \in 1 .. n : ss[i] \in Seq(T)
  OBVIOUS
<1>2. CASE n = 0
  <2>1. ss = << >>
    BY <1>2
  <2>2. FlattenSeq(ss) = ss
    BY <1>2, Zenon DEF FlattenSeq
  <2>3. << >> \in Seq(T)
    OBVIOUS
  <2>4. FlattenSeq(ss) = << >>
    BY <2>1, <2>2, Zenon
  <2> QED
    BY <2>3, <2>4, Zenon
<1>3. CASE n # 0
  <2>1. PICK g : Flattens(g, n, ss) /\ FlattenSeq(ss) = g[n]
    BY <1>1, <1>3, FlattenUnfolds
  <2> DEFINE Bad == {i \in 1 .. n : g[i] \notin Seq(T)}
  <2>2. Bad = {}
    <3> SUFFICES ASSUME Bad # {} PROVE FALSE
      OBVIOUS
    <3>1. Bad \in SUBSET Nat
      BY <1>1
    <3>2. PICK i \in Bad : \A j \in Bad : i <= j
      BY <3>1, LeastNumber
    <3>3. i \in 1 .. n /\ i \in Nat /\ g[i] \notin Seq(T)
      BY <1>1
    <3>4. g[i] = IF i = 1 THEN ss[i] ELSE g[i - 1] \o ss[i]
      BY <2>1, <3>3 DEF Flattens
    <3>5. i # 1
      BY <1>1, <3>3, <3>4
    <3>6. i - 1 \in 1 .. n /\ i - 1 < i
      BY <1>1, <3>3, <3>5
    <3>7. g[i - 1] \in Seq(T)
      BY <3>2, <3>3, <3>6
    <3>8. g[i - 1] \o ss[i] \in Seq(T)
      BY <1>1, <3>3, <3>7, ConcatProperties
    <3> QED
      BY <3>3, <3>4, <3>5, <3>8
  <2>3. n \in 1 .. n
    BY <1>1, <1>3
  <2> QED
    BY <2>1, <2>2, <2>3
<1> QED
  BY <1>2, <1>3

(* A finite set as a list has its members. *)
LEMMA SetListed ==
  ASSUME NEW S, IsFiniteSet(S)
  PROVE  SetToSeq(S) \in Seq(S)
<1> DEFINE n == Cardinality(S)
<1>1. n \in Nat /\ ExistsBijection(1 .. n, S)
  BY FS_CardinalityType
<1>2. PICK f : f \in Bijection(1 .. n, S)
  BY <1>1 DEF ExistsBijection
<1>3. f \in [1 .. n -> S] /\ IsInjective(f)
  BY <1>2 DEF Bijection, Injection, IsInjective
<1>4. SetToSeq(S) \in [1 .. n -> S]
  BY <1>3 DEF SetToSeq
<1> HIDE DEF n
<1> QED
  BY <1>1, <1>4

-----------------------------------------------------------------------------
(* A list made entry by entry from another is one, as long as the other. *)
LEMMA ListMade ==
  ASSUME NEW l, IsList(l), NEW f, f = [i \in DOMAIN l |-> f[i]]
  PROVE  IsList(f) /\ DOMAIN f = DOMAIN l /\ Len(f) = Len(l)
<1>1. Len(l) \in Nat /\ DOMAIN l = 1 .. Len(l)
  BY DEF IsList
<1>2. DOMAIN f = 1 .. Len(l)
  BY <1>1
<1>3. f \in [1 .. Len(l) -> Range(f)]
  BY <1>1, <1>2 DEF Range
<1> QED
  BY <1>1, <1>2, <1>3 DEF IsList

(* A filter of a list is a list, of entries chosen. *)
LEMMA ListChosen ==
  ASSUME NEW l, IsList(l), NEW S \in SUBSET (DOMAIN l)
  PROVE  /\ IsList(Chosen(l, S))
         /\ \A k \in DOMAIN Chosen(l, S) : \E i \in S : Chosen(l, S)[k] = l[i]
         /\ \A i \in S : \E k \in DOMAIN Chosen(l, S) : Chosen(l, S)[k] = l[i]
         /\ Range(Chosen(l, S)) = {l[i] : i \in S}
<1>1. l \in Seq(Range(l))
  BY DEF IsList
<1> DEFINE c == Chosen(l, S)
<1>2. c \in Seq(Range(l)) /\ Range(c) = {l[i] : i \in S}
  BY <1>1, ChosenIs
<1> HIDE DEF c
<1>3. \A k \in DOMAIN c : c[k] \in Range(c)
  BY DEF Range
<1>4. c \in Seq(Range(c))
  BY <1>2, SeqOfRange DEF Range
<1>5. IsList(c)
  BY <1>4 DEF IsList
<1>6. \A k \in DOMAIN c : \E i \in S : c[k] = l[i]
  BY <1>2, <1>3
<1>7. \A i \in S : \E k \in DOMAIN c : c[k] = l[i]
  BY <1>2 DEF Range
<1> QED
  BY <1>2, <1>5, <1>6, <1>7 DEF c

(* A filter of timed entries is timed, *)
LEMMA TimedChosen ==
  ASSUME NEW l, Timed(l), NEW S \in SUBSET (DOMAIN l)
  PROVE  Timed(Chosen(l, S))
<1>1. IsList(l) /\ \A i \in DOMAIN l : l[i].at \in Int
  BY DEF Timed
<1> DEFINE c == Chosen(l, S)
<1>2. IsList(c) /\ \A k \in DOMAIN c : \E i \in S : c[k] = l[i]
  BY <1>1, ListChosen
<1> HIDE DEF c
<1>3. ASSUME NEW k \in DOMAIN c PROVE c[k].at \in Int
  <2>1. PICK i \in S : c[k] = l[i]
    BY <1>2
  <2> QED
    BY <1>1, <2>1
<1>4. Timed(c)
  BY <1>2, <1>3 DEF Timed
<1> QED
  BY <1>4 DEF c

(* and so are lists of them, one after the other. *)
LEMMA TimedFlattened ==
  ASSUME NEW ss, IsList(ss), \A i \in DOMAIN ss : Timed(ss[i])
  PROVE  Timed(FlattenSeq(ss))
<1> DEFINE T == {e \in UNION {Range(ss[i]) : i \in DOMAIN ss} : e.at \in Int}
<1>1. ASSUME NEW i \in DOMAIN ss PROVE ss[i] \in Seq(T)
  <2>1. ss[i] \in Seq(Range(ss[i])) /\ \A k \in DOMAIN ss[i] : ss[i][k].at \in Int
    BY DEF Timed, IsList
  <2>2. Len(ss[i]) \in Nat /\ DOMAIN ss[i] = 1 .. Len(ss[i])
    BY <2>1
  <2>3. \A k \in DOMAIN ss[i] : ss[i][k] \in T
    BY <2>1 DEF Range
  <2>4. ss[i] = [k \in 1 .. Len(ss[i]) |-> ss[i][k]]
    BY <2>1, <2>2
  <2> HIDE DEF T
  <2>5. ss[i] \in [1 .. Len(ss[i]) -> T]
    BY <2>2, <2>3, <2>4
  <2> QED
    BY <2>2, <2>5
<1>2. Len(ss) \in Nat /\ DOMAIN ss = 1 .. Len(ss) /\ ss = [i \in 1 .. Len(ss) |-> ss[i]]
  BY DEF IsList
<1>3. ss \in Seq(Seq(T))
  <2> HIDE DEF T
  <2> QED
    BY <1>1, <1>2
<1> DEFINE f == FlattenSeq(ss)
<1>4. f \in Seq(T)
  <2> HIDE DEF T
  <2> QED
    BY <1>3, FlattenTyped
<1>5. \A e \in T : e.at \in Int
  OBVIOUS
<1> HIDE DEF T, f
<1>6. \A i \in DOMAIN f : f[i] \in T
  BY <1>4
<1>7. f \in Seq(Range(f))
  BY <1>4, SeqOfRange
<1>8. Timed(f)
  BY <1>5, <1>6, <1>7 DEF Timed, IsList
<1> QED
  BY <1>8 DEF f

-----------------------------------------------------------------------------
(* What a source gives is timed: an answer, or nothing.                    *)
LEMMA NothingTimed == Timed(<< >>) /\ Timed(Unavailing.events)
<1>1. << >> \in Seq(Range(<< >>))
  OBVIOUS
<1>2. Timed(<< >>)
  BY <1>1 DEF Timed, IsList
<1> QED
  BY <1>2 DEF Unavailing

(* A moment that may be missing counts as a number. *)
LEMMA WhenIs == ASSUME NEW at, IsMoment(at) PROVE When(at) \in Int
  BY DEF When, Or, Now, IsMoment

(* The events of Temporal, *)
LEMMA TemporalTimed ==
  ASSUME NEW w, SourcesShaped(w), NEW at
  PROVE  Timed(TemporalSource(w, at).events)
<1> DEFINE h == w.history[1]
           c == ConvertHistory(h)
<1>1. CASE w.history = << >> \/ at.host \notin w.net.open
  <2>1. TemporalSource(w, at) = Unavailing
    BY <1>1, Zenon DEF TemporalSource
  <2> QED
    BY <2>1, NothingTimed, Zenon
<1>2. CASE ~(w.history = << >> \/ at.host \notin w.net.open)
  <2>1. TemporalSource(w, at) = Gave(c, << >>)
    BY <1>2, Zenon DEF TemporalSource
  <2>2. TemporalSource(w, at).events = c
    BY <2>1 DEF Gave
  <2>3. IsList(h) /\ \A i \in DOMAIN h : IsMoment(h[i].at)
    BY <1>2 DEF SourcesShaped, Dated
  <2> HIDE DEF h
  <2>4. c = [i \in DOMAIN h |-> Tagged(When(h[i].at), "temporal", EventTypeName(h[i].type), HistoryTags(h, h[i]))]
    BY DEF ConvertHistory
  <2> HIDE DEF c
  <2>5. DOMAIN c = DOMAIN h /\ c = [i \in DOMAIN h |-> c[i]]
    BY <2>4
  <2>6. ASSUME NEW i \in DOMAIN h PROVE c[i].at \in Int
    <3>1. c[i].at = When(h[i].at)
      BY <2>4 DEF Tagged
    <3> QED
      BY <2>3, <3>1, WhenIs
  <2>7. IsList(c)
    BY <2>3, <2>5, ListMade
  <2> QED
    BY <2>2, <2>5, <2>6, <2>7 DEF Timed
<1> QED
  BY <1>1, <1>2

(* of the database, *)
LEMMA PostgresTimed ==
  ASSUME NEW w, SourcesShaped(w), NEW url, NEW id, NEW type
  PROVE  Timed(PostgresSource(w, url, id, type).events)
<1> DEFINE changes == IF type \in Machines THEN Or(w.changes, << >>) ELSE << >>
           c == [i \in DOMAIN changes |-> StateChange(changes[i])]
<1>1. CASE ~Readable(w, url)
  <2>1. PostgresSource(w, url, id, type) = Unavailing
    BY <1>1, Zenon DEF PostgresSource
  <2> QED
    BY <2>1, NothingTimed, Zenon
<1>2. CASE Readable(w, url)
  <2>1. PostgresSource(w, url, id, type).events = c
    BY <1>2 DEF PostgresSource, Gave
  <2>2. changes = << >> \/ (w.changes # << >> /\ changes = w.changes[1])
    BY DEF Or
  <2>3. IsList(changes) /\ \A i \in DOMAIN changes : changes[i] \in Int
    <3>1. CASE changes = << >>
      BY <3>1, NothingTimed DEF Timed
    <3>2. CASE w.changes # << >> /\ changes = w.changes[1]
      BY <3>2, Zenon DEF SourcesShaped, Range
    <3> QED
      BY <2>2, <3>1, <3>2
  <2> HIDE DEF changes
  <2>4. \A i \in DOMAIN changes : c[i].at = changes[i]
    BY DEF StateChange, Plain, Tagged
  <2>5. DOMAIN c = DOMAIN changes /\ c = [i \in DOMAIN changes |-> c[i]]
    OBVIOUS
  <2> HIDE DEF c
  <2>6. IsList(c)
    BY <2>3, <2>5, ListMade
  <2> QED
    BY <2>1, <2>3, <2>4, <2>5, <2>6 DEF Timed
<1> QED
  BY <1>1, <1>2

-----------------------------------------------------------------------------
(* The items of a namespace that is not there are an empty list. *)
LEMMA EventsListed ==
  ASSUME NEW net, NetShaped(net), NEW ns
  PROVE  LET raw == Or(ListEvents(net, ns), << >>)
         IN  IsList(raw) /\ \A i \in DOMAIN raw : IsMoment(raw[i].ts)
<1> DEFINE events == Items(net.events, ns)
           listed == [i \in DOMAIN events |-> RawEvent(events[i])]
           raw == Or(ListEvents(net, ns), << >>)
<1>1. events = << >> \/ (ns \in DOMAIN net.events /\ events = net.events[ns])
  BY DEF Items
<1>2. IsList(events) /\ \A i \in DOMAIN events : IsMoment(events[i].last) /\ IsMoment(events[i].first)
  <2>1. CASE events = << >>
    BY <2>1, NothingTimed DEF Timed
  <2>2. CASE ns \in DOMAIN net.events /\ events = net.events[ns]
    <3> HIDE DEF events
    <3> QED
      BY <2>2, Zenon DEF NetShaped
  <2> QED
    BY <1>1, <2>1, <2>2
<1>3. ListEvents(net, ns) = Answer(net.lists, listed)
  BY DEF ListEvents
<1>4. raw = << >> \/ raw = listed
  BY <1>3 DEF Answer, Or
<1> HIDE DEF events, raw
<1>5. DOMAIN listed = DOMAIN events /\ listed = [i \in DOMAIN events |-> listed[i]]
  OBVIOUS
<1>6. \A i \in DOMAIN events : listed[i].ts = IF events[i].last # << >> THEN events[i].last ELSE events[i].first
  BY DEF RawEvent
<1> HIDE DEF listed
<1>7. IsList(listed)
  BY <1>2, <1>5, ListMade
<1>8. \A i \in DOMAIN listed : IsMoment(listed[i].ts)
  BY <1>2, <1>5, <1>6
<1>9. IsList(raw) /\ \A i \in DOMAIN raw : IsMoment(raw[i].ts)
  <2>1. CASE raw = << >>
    BY <2>1, NothingTimed DEF Timed
  <2>2. CASE raw = listed
    BY <1>7, <1>8, <2>2
  <2> QED
    BY <1>4, <2>1, <2>2
<1> QED
  BY <1>9 DEF raw

(* The warnings of a pod are timed. *)
LEMMA WarningsTimed ==
  ASSUME NEW net, NetShaped(net), NEW p
  PROVE  Timed(WarningsOf(net, p))
<1> DEFINE raw == Or(ListEvents(net, p[1]), << >>)
           S   == {i \in DOMAIN raw : /\ raw[i].object = <<p[2].name>>
                                      /\ raw[i].type = <<"Warning">> /\ raw[i].reason # << >>}
           own == Chosen(raw, S)
           c   == WarningsOf(net, p)
<1>1. IsList(raw) /\ \A i \in DOMAIN raw : IsMoment(raw[i].ts)
  BY EventsListed
<1>2. c = [i \in DOMAIN own |-> Plain(When(own[i].ts), "k8s", own[i].reason[1])]
  BY Zenon DEF WarningsOf
<1>3. S \in SUBSET (DOMAIN raw)
  OBVIOUS
<1> HIDE DEF raw, S, c
<1>4. IsList(own) /\ \A k \in DOMAIN own : \E i \in S : own[k] = raw[i]
  BY <1>1, <1>3, ListChosen
<1>5. ASSUME NEW k \in DOMAIN own PROVE When(own[k].ts) \in Int
  <2>1. PICK i \in S : own[k] = raw[i]
    BY <1>4
  <2>2. IsMoment(own[k].ts)
    BY <1>1, <1>3, <2>1
  <2> QED
    BY <2>2, WhenIs
<1> HIDE DEF own
<1>6. DOMAIN c = DOMAIN own /\ c = [i \in DOMAIN own |-> c[i]]
  BY <1>2
<1>7. \A i \in DOMAIN own : c[i].at = When(own[i].ts)
  BY <1>2 DEF Plain, Tagged
<1>8. IsList(c)
  BY <1>4, <1>6, ListMade
<1>9. Timed(c)
  BY <1>5, <1>6, <1>7, <1>8 DEF Timed
<1> QED
  BY <1>9 DEF c

(* The pods of an entity are a list, whatever the namespaces they run in. *)
LEMMA PodsListed ==
  ASSUME NEW net, NetShaped(net), NEW id
  PROVE  IsList(EntityPods(net, id))
<1> DEFINE names == SetToSeq(DOMAIN net.pods)
           In(ns) == [i \in DOMAIN net.pods[ns] |-> <<ns, net.pods[ns][i]>>]
           ss  == [k \in DOMAIN names |-> In(names[k])]
           all == FlattenSeq(ss)
           S   == {i \in DOMAIN all : id \in all[i][2].labels}
           T   == UNION {Range(ss[k]) : k \in DOMAIN ss}
<1>1. IsFiniteSet(DOMAIN net.pods) /\ \A ns \in DOMAIN net.pods : IsList(net.pods[ns])
  BY DEF NetShaped
<1>2. names \in Seq(DOMAIN net.pods)
  BY <1>1, SetListed
<1> HIDE DEF names
<1>3. Len(names) \in Nat /\ DOMAIN names = 1 .. Len(names) /\ \A k \in DOMAIN names : names[k] \in DOMAIN net.pods
  BY <1>2
<1>4. ASSUME NEW k \in DOMAIN names PROVE IsList(ss[k])
  <2> DEFINE ns == names[k]
             f  == In(ns)
  <2>1. IsList(net.pods[ns])
    BY <1>1, <1>3
  <2>2. f = [i \in DOMAIN net.pods[ns] |-> f[i]]
    OBVIOUS
  <2>3. ss[k] = f
    OBVIOUS
  <2> HIDE DEF f, ns
  <2>4. IsList(f)
    BY <2>1, <2>2, ListMade
  <2> QED
    BY <2>3, <2>4
<1>5. ss = [k \in 1 .. Len(names) |-> ss[k]] /\ DOMAIN ss = 1 .. Len(names)
  BY <1>3
<1>6. EntityPods(net, id) = Chosen(all, S)
  BY Zenon DEF EntityPods, names
<1> HIDE DEF ss
<1>7. ASSUME NEW k \in DOMAIN ss PROVE ss[k] \in Seq(T)
  <2>1. ss[k] \in Seq(Range(ss[k])) /\ Range(ss[k]) \subseteq T
    BY <1>3, <1>4, <1>5, <1>7 DEF IsList
  <2> HIDE DEF T
  <2> QED
    BY <2>1, SeqMonotonic
<1> HIDE DEF T
<1>8. ss \in Seq(Seq(T))
  BY <1>3, <1>5, <1>7
<1>9. all \in Seq(T)
  BY <1>8, FlattenTyped
<1>10. S \in SUBSET (DOMAIN all)
  OBVIOUS
<1> HIDE DEF all, S
<1>11. IsList(all)
  BY <1>9, SeqOfRange DEF IsList
<1>12. IsList(Chosen(all, S))
  BY <1>10, <1>11, ListChosen
<1> QED
  BY <1>6, <1>12

(* of Kubernetes, *)
LEMMA K8sTimed ==
  ASSUME NEW w, SourcesShaped(w), NEW cfg, NEW id
  PROVE  Timed(K8sSource(w, cfg, id).events)
<1> DEFINE net  == ContextNet(w, cfg)
           pods == EntityPods(net[1], id)
           ss   == [i \in DOMAIN pods |-> WarningsOf(net[1], pods[i])]
<1>1. CASE net = << >> \/ ~net[1].lists
  <2>1. K8sSource(w, cfg, id) = Unavailing
    BY <1>1, Zenon DEF K8sSource
  <2> QED
    BY <2>1, NothingTimed, Zenon
<1>2. CASE ~(net = << >> \/ ~net[1].lists)
  <2>1. K8sSource(w, cfg, id).events = FlattenSeq(ss)
    BY <1>2 DEF K8sSource, Gave
  <2>2. NetShaped(net[1])
    <3>1. net = << w.net >> \/ \E name \in DOMAIN w.contexts : net = << w.contexts[name] >>
      BY <1>2 DEF ContextNet, Given
    <3> QED
      BY <3>1 DEF SourcesShaped
  <2> HIDE DEF net
  <2>3. IsList(pods)
    BY <2>2, PodsListed
  <2>4. ss = [i \in DOMAIN pods |-> ss[i]] /\ DOMAIN ss = DOMAIN pods
    OBVIOUS
  <2> HIDE DEF pods
  <2>5. \A i \in DOMAIN pods : Timed(ss[i])
    BY <2>2, WarningsTimed
  <2> HIDE DEF ss
  <2>6. IsList(ss)
    BY <2>3, <2>4, ListMade
  <2> QED
    BY <2>1, <2>4, <2>5, <2>6, TimedFlattened
<1> QED
  BY <1>1, <1>2

-----------------------------------------------------------------------------
(* Lines made into events, each at its own time, are timed. *)
LEMMA LinesTimed ==
  ASSUME NEW l, Timed(l), NEW f, f = [i \in DOMAIN l |-> f[i]], \A i \in DOMAIN l : f[i].at = l[i].at
  PROVE  Timed(f)
<1>1. IsList(f) /\ DOMAIN f = DOMAIN l
  BY ListMade DEF Timed
<1> QED
  BY <1>1 DEF Timed

(* of Loki, *)
LEMMA LokiTimed ==
  ASSUME NEW w, SourcesShaped(w), NEW since, NEW pattern
  PROVE  Timed(LokiLines(w, since, pattern))
<1> DEFINE log == w.loki.log
           S   == {i \in DOMAIN log : /\ InWindow(log[i], since)
                                      /\ pattern = << >> \/ log[i].pod \in pattern[1].whole}
           lines == Chosen(log, S)
           f == LokiLines(w, since, pattern)
<1>1. Timed(log)
  BY DEF SourcesShaped
<1>2. S \in SUBSET (DOMAIN log)
  OBVIOUS
<1>3. f = [i \in DOMAIN lines |-> Plain(lines[i].at, "loki", IF lines[i].pod \in w.serial THEN "SerialConsoleLog" ELSE "Log")]
  BY Zenon DEF LokiLines
<1> HIDE DEF log, S, f
<1>4. Timed(lines)
  BY <1>1, <1>2, TimedChosen
<1> HIDE DEF lines
<1>5. f = [i \in DOMAIN lines |-> f[i]] /\ \A i \in DOMAIN lines : f[i].at = lines[i].at
  BY <1>3 DEF Plain, Tagged
<1>6. Timed(f)
  BY <1>4, <1>5, LinesTimed
<1> QED
  BY <1>6 DEF f

(* of the logs the cluster has in its place, *)
LEMMA StreamTimed ==
  ASSUME NEW w, SourcesShaped(w), NEW pod, NEW since
  PROVE  Timed(Streamed(w, pod, since))
<1> DEFINE log == IF pod \in DOMAIN w.logs THEN w.logs[pod] ELSE << >>
           S   == {i \in DOMAIN log : InWindow(log[i], since)}
           lines == Chosen(log, S)
           f == Streamed(w, pod, since)
<1>1. Timed(log)
  <2>1. CASE pod \in DOMAIN w.logs
    BY <2>1, Zenon DEF SourcesShaped
  <2>2. CASE pod \notin DOMAIN w.logs
    BY <2>2, NothingTimed, Zenon
  <2> QED
    BY <2>1, <2>2
<1>2. S \in SUBSET (DOMAIN log)
  OBVIOUS
<1>3. f = [k \in DOMAIN lines |-> Plain(lines[k].at, "k8s-logs", "Log")]
  BY Zenon DEF Streamed
<1> HIDE DEF log, S, f
<1>4. Timed(lines)
  BY <1>1, <1>2, TimedChosen
<1> HIDE DEF lines
<1>5. f = [i \in DOMAIN lines |-> f[i]] /\ \A i \in DOMAIN lines : f[i].at = lines[i].at
  BY <1>3 DEF Plain, Tagged
<1>6. Timed(f)
  BY <1>4, <1>5, LinesTimed
<1> QED
  BY <1>6 DEF f

(* all of them together, *)
LEMMA StreamsTimed ==
  ASSUME NEW w, SourcesShaped(w), NEW id, NEW since, NEW pattern
  PROVE  Timed(StreamedLines(w, id, since, pattern))
<1> DEFINE all  == EntityPods(w.net, id)
           S    == {i \in DOMAIN all : pattern = << >> \/ all[i][2].name \in pattern[1].part}
           pods == Chosen(all, S)
           ss   == [i \in DOMAIN pods |-> Streamed(w, pods[i][2].name, since)]
<1>1. IsList(all)
  BY PodsListed DEF SourcesShaped
<1>2. S \in SUBSET (DOMAIN all)
  OBVIOUS
<1>3. StreamedLines(w, id, since, pattern) = FlattenSeq(ss)
  BY Zenon DEF StreamedLines
<1> HIDE DEF all, S
<1>4. IsList(pods)
  BY <1>1, <1>2, ListChosen
<1> HIDE DEF pods
<1>5. ss = [i \in DOMAIN pods |-> ss[i]] /\ DOMAIN ss = DOMAIN pods
  OBVIOUS
<1>6. \A i \in DOMAIN pods : Timed(ss[i])
  BY StreamTimed
<1> HIDE DEF ss
<1>7. IsList(ss)
  BY <1>4, <1>5, ListMade
<1> QED
  BY <1>3, <1>5, <1>6, <1>7, TimedFlattened

(* and so what Loki gives. *)
LEMMA LokiSourceTimed ==
  ASSUME NEW w, SourcesShaped(w), NEW at, NEW client, NEW id, NEW since, NEW pattern
  PROVE  Timed(LokiSource(w, at, client, id, since, pattern).events)
<1> DEFINE r == LokiSource(w, at, client, id, since, pattern)
<1>1. \/ r = Unavailing
      \/ \E state : r = Gave(LokiLines(w, since, pattern), state)
      \/ \E state : r = Gave(StreamedLines(w, id, since, pattern), state)
  BY Zenon DEF LokiSource
<1> HIDE DEF r
<1>2. \/ r = Unavailing
      \/ r.events = LokiLines(w, since, pattern)
      \/ r.events = StreamedLines(w, id, since, pattern)
  BY <1>1 DEF Gave
<1>3. Timed(r.events)
  BY <1>2, NothingTimed, LokiTimed, StreamsTimed
<1> QED
  BY <1>3 DEF r

(* and of the controller of a host. *)
LEMMA RedfishTimed ==
  ASSUME NEW ses, SourcesShaped(ses.w), NEW cfg, NEW id, NEW type
  PROVE  Timed(RedfishSource(ses, cfg, id, type).events)
<1> DEFINE host == HostOf(ses.w, cfg, id, type)
           log  == Or(ses.w.bmc[host[1]], << >>)
           c    == [i \in DOMAIN log |-> LogEntry(log[i])]
           r    == RedfishSource(ses, cfg, id, type)
<1>1. \/ r = Unavailing \/ r = Gave(<< >>, << >>)
      \/ host[1] \in DOMAIN ses.w.bmc /\ \E state : r = Gave(c, state)
  BY Zenon DEF RedfishSource, RedfishQuery
<1> HIDE DEF host, r
<1>2. ASSUME host[1] \in DOMAIN ses.w.bmc PROVE Timed(c)
  <2>1. log = << >> \/ (ses.w.bmc[host[1]] # << >> /\ log = ses.w.bmc[host[1]][1])
    BY DEF Or
  <2>2. IsList(log) /\ \A i \in DOMAIN log : IsMoment(log[i].at)
    <3>1. CASE log = << >>
      BY <3>1, NothingTimed DEF Timed
    <3>2. CASE ses.w.bmc[host[1]] # << >> /\ log = ses.w.bmc[host[1]][1]
      <4>1. Dated(ses.w.bmc[host[1]][1])
        BY <1>2, <3>2, Zenon DEF SourcesShaped
      <4> HIDE DEF log
      <4> QED
        BY <3>2, <4>1 DEF Dated
    <3> QED
      BY <2>1, <3>1, <3>2
  <2> HIDE DEF log
  <2>3. DOMAIN c = DOMAIN log /\ c = [i \in DOMAIN log |-> c[i]]
    OBVIOUS
  <2>4. ASSUME NEW i \in DOMAIN log PROVE c[i].at \in Int
    <3>1. c[i].at = When(log[i].at)
      BY DEF LogEntry, Plain, Tagged
    <3> QED
      BY <2>2, <3>1, WhenIs
  <2> HIDE DEF c
  <2>5. IsList(c)
    BY <2>2, <2>3, ListMade
  <2> QED
    BY <2>3, <2>4, <2>5 DEF Timed
<1> HIDE DEF c
<1>3. \/ r = Unavailing \/ r.events = << >>
      \/ host[1] \in DOMAIN ses.w.bmc /\ r.events = c
  BY <1>1 DEF Gave
<1>4. Timed(r.events)
  BY <1>2, <1>3, NothingTimed
<1> QED
  BY <1>4 DEF r

-----------------------------------------------------------------------------
(* Whatever source is asked, its events are timed. *)
LEMMA CollectedTimed ==
  ASSUME NEW ses, SourcesShaped(ses.w), NEW b, NEW name \in Range(Sources)
  PROVE  Timed(Collected(ses, b, name).events)
<1> DEFINE w == ses.w
           r == Collected(ses, b, name)
<1>1. SourcesShaped(w)
  OBVIOUS
<1>2. name \in {"temporal", "postgres", "k8s", "loki", "redfish"}
  BY DEF Sources, Range
<1>3. \/ \E at : r = TemporalSource(w, at)
      \/ \E url, id, type : r = PostgresSource(w, url, id, type)
      \/ \E cfg, id : r = K8sSource(w, cfg, id)
      \/ \E at, client, id, since, pattern : r = LokiSource(w, at, client, id, since, pattern)
      \/ \E cfg, id, type : r = RedfishSource(ses, cfg, id, type)
  BY <1>2, Zenon DEF Collected
<1>4. (\E cfg, id, type : r = RedfishSource(ses, cfg, id, type)) => Timed(r.events)
  BY RedfishTimed
<1> HIDE DEF w, r
<1>5. Timed(r.events)
  BY <1>1, <1>3, <1>4, TemporalTimed, PostgresTimed, K8sTimed, LokiSourceTimed
<1> QED
  BY <1>5 DEF r

(* The sources asked, each once, and those that are not asked. *)
LEMMA AttemptedAre ==
  ASSUME NEW flags
  PROVE  /\ IsList(Attempted(flags)) /\ Range(Attempted(flags)) \subseteq Range(Sources)
         /\ \A i, j \in DOMAIN Attempted(flags) : Attempted(flags)[i] = Attempted(flags)[j] => i = j
         /\ Range(Attempted(flags)) \cap Range(Restricted(flags)) = {}
<1> DEFINE S == {i \in DOMAIN Sources : Attempts(flags, Sources[i])}
           N == {i \in DOMAIN Sources : ~Attempts(flags, Sources[i])}
           T == Range(Sources)
           a == Attempted(flags)
           r == Restricted(flags)
<1>1. Sources \in Seq(T) /\ DOMAIN Sources = 1 .. 5
  BY DEF Sources, Range
<1>2. \A i, j \in DOMAIN Sources : Sources[i] = Sources[j] => i = j
  BY DEF Sources
<1>3. S \in SUBSET (DOMAIN Sources) /\ N \in SUBSET (DOMAIN Sources) /\ S \cap N = {}
  OBVIOUS
<1>4. a = Chosen(Sources, S) /\ r = Chosen(Sources, N)
  BY Zenon DEF Attempted, Restricted
<1> HIDE DEF S, N, T, a, r
<1>5. /\ a \in Seq(T) /\ Range(a) = {Sources[i] : i \in S}
  BY <1>1, <1>3, <1>4, ChosenIs
<1>13. \A k, l \in DOMAIN a : k < l => \E i, j \in S : i < j /\ a[k] = Sources[i] /\ a[l] = Sources[j]
  BY <1>1, <1>3, <1>4, ChosenIs
<1>6. Range(r) = {Sources[i] : i \in N}
  BY <1>1, <1>3, <1>4, ChosenIs
<1>7. IsList(a)
  BY <1>5, SeqOfRange DEF IsList
<1>8. ASSUME NEW k \in DOMAIN a, NEW l \in DOMAIN a, k < l PROVE a[k] # a[l]
  <2>1. PICK i \in S, j \in S : i < j /\ a[k] = Sources[i] /\ a[l] = Sources[j]
    BY <1>13, <1>8
  <2>2. i \in 1 .. 5 /\ j \in 1 .. 5
    BY <1>1, <1>3
  <2> QED
    BY <1>1, <1>2, <2>1, <2>2
<1>9. DOMAIN a \subseteq Nat
  BY <1>5
<1>10. \A i, j \in DOMAIN a : a[i] = a[j] => i = j
  BY <1>8, <1>9
<1>11. Range(a) \subseteq Range(Sources)
  BY <1>3, <1>5 DEF Range
<1>12. Range(a) \cap Range(r) = {}
  BY <1>2, <1>3, <1>5, <1>6
<1> QED
  BY <1>7, <1>10, <1>11, <1>12 DEF a, r

(* The timeline has what the sources gave, the latest first. *)
LEMMA TimelineIs ==
  ASSUME NEW es, Timed(es)
  PROVE  LET t == Timeline(es)
         IN  /\ IsList(t) /\ Len(t) = Len(es) /\ Range(t) = Range(es)
             /\ \A i, j \in DOMAIN t : i < j => t[i].at >= t[j].at
             /\ \A i \in DOMAIN t : t[i].at \in Int
<1> DEFINE D == DOMAIN es
           Newer(i, j) == es[i].at > es[j].at \/ (es[i].at = es[j].at /\ i < j)
           R == {p \in D \X D : Newer(p[1], p[2])}
           order == Sorted(D, R)
           t == Timeline(es)
<1>1. IsList(es) /\ \A i \in D : es[i].at \in Int
  BY DEF Timed
<1>2. Len(es) \in Nat /\ D = 1 .. Len(es) /\ es = [i \in 1 .. Len(es) |-> es[i]]
  BY <1>1 DEF IsList
<1>3. IsFiniteSet(D) /\ Cardinality(D) = Len(es)
  <2> DEFINE n == Len(es)
  <2>1. n \in Nat /\ D = 1 .. n
    BY <1>2
  <2> HIDE DEF D, n
  <2>2. IsFiniteSet(D) /\ Cardinality(D) = n
    BY <2>1, FS_Interval
  <2> QED
    BY <2>2 DEF n
<1>4. t = [k \in D |-> es[order[k]]]
  BY Zenon DEF Timeline
<1>5. \A i, j \in D : <<i, j>> \in R <=> Newer(i, j)
  OBVIOUS
<1> HIDE DEF D, R, t
<1>6. \A x \in D : <<x, x>> \notin R
  BY <1>1, <1>2, <1>5
<1>7. \A x, y \in D : x # y => <<x, y>> \in R \/ <<y, x>> \in R
  BY <1>1, <1>2, <1>5
<1>8. ASSUME NEW x \in D, NEW y \in D, NEW z \in D, <<x, y>> \in R, <<y, z>> \in R PROVE <<x, z>> \in R
  <2>1. Newer(x, y) /\ Newer(y, z)
    BY <1>5, <1>8
  <2>2. es[x].at \in Int /\ es[y].at \in Int /\ es[z].at \in Int /\ x \in Nat /\ y \in Nat /\ z \in Nat
    BY <1>1, <1>2
  <2>3. Newer(x, z)
    BY <2>1, <2>2
  <2> QED
    BY <1>5, <2>3
<1>9. Orders(R, D)
  BY <1>6, <1>7, <1>8 DEF Orders
<1>10. /\ order \in Seq(D) /\ Len(order) = Cardinality(D) /\ Range(order) = D
       /\ \A i, j \in 1 .. Len(order) : i < j <=> <<order[i], order[j]>> \in R
  BY <1>3, <1>9, SortedIs
<1> HIDE DEF order
<1>11. DOMAIN order = D /\ \A k \in D : order[k] \in D
  BY <1>2, <1>3, <1>10
<1>12. DOMAIN t = D /\ \A k \in D : t[k] = es[order[k]]
  BY <1>4
<1>13. t = [k \in DOMAIN es |-> t[k]]
  BY <1>4 DEF D
<1>14. IsList(t) /\ Len(t) = Len(es)
  BY <1>1, <1>13, ListMade
<1>15. Range(t) = Range(es)
  <2>1. \A k \in D : \E i \in D : order[i] = k
    BY <1>10, <1>11 DEF Range
  <2>2. \A k \in D : t[k] \in Range(es)
    BY <1>11, <1>12 DEF Range, D
  <2>3. \A k \in D : es[k] \in Range(t)
    BY <1>12, <2>1 DEF Range
  <2> QED
    BY <1>12, <2>2, <2>3 DEF Range, D
<1>16. ASSUME NEW i \in DOMAIN t, NEW j \in DOMAIN t, i < j PROVE t[i].at >= t[j].at
  <2>1. <<order[i], order[j]>> \in R
    BY <1>2, <1>3, <1>10, <1>12, <1>16
  <2>2. Newer(order[i], order[j])
    BY <1>5, <1>11, <1>12, <2>1
  <2>3. es[order[i]].at \in Int /\ es[order[j]].at \in Int
    BY <1>1, <1>11, <1>12 DEF D
  <2> QED
    BY <1>12, <2>2, <2>3
<1>17. \A i \in DOMAIN t : t[i].at \in Int
  BY <1>1, <1>11, <1>12 DEF D
<1> QED
  BY <1>14, <1>15, <1>16, <1>17 DEF t

(* What is kept of it: all of a short one, never nothing of one that has   *)
(* something, and all that is trouble.                                     *)
LEMMA FilteredIs ==
  ASSUME NEW es, Timed(es)
  PROVE  LET f == FilterTimeline(es)
         IN  /\ \A i, j \in DOMAIN f : i < j => f[i].at >= f[j].at
             /\ Range(f) \subseteq Range(es)
             /\ {e \in Range(es) : e.severity \in Trouble} \subseteq Range(f)
             /\ Len(es) <= FirstN + LastN => Len(f) = Len(es)
             /\ es # << >> => f # << >>
<1> DEFINE t == Timeline(es)
           S == Kept(t)
           f == FilterTimeline(es)
<1>1. /\ IsList(t) /\ Len(t) = Len(es) /\ Range(t) = Range(es)
      /\ \A i, j \in DOMAIN t : i < j => t[i].at >= t[j].at
  BY TimelineIs
<1>2. f = Chosen(t, S)
  BY Zenon DEF FilterTimeline
<1> HIDE DEF t, f
<1>3. S \in SUBSET (DOMAIN t)
  BY DEF Kept
<1>4. Len(t) \in Nat /\ DOMAIN t = 1 .. Len(t) /\ t \in Seq(Range(t))
  BY <1>1 DEF IsList
<1>5. \A i \in DOMAIN t : i \in S <=> (Len(t) <= FirstN + LastN \/ i <= FirstN \/ i > Len(t) - LastN \/ t[i].severity \in Trouble)
  BY DEF Kept
<1> HIDE DEF S
<1>6. /\ f \in Seq(Range(t)) /\ Range(f) = {t[i] : i \in S}
      /\ \A k, l \in DOMAIN f : k < l => \E i, j \in S : i < j /\ f[k] = t[i] /\ f[l] = t[j]
      /\ S = DOMAIN t => f = t
  BY <1>2, <1>3, <1>4, ChosenIs
<1>7. ASSUME NEW i \in DOMAIN f, NEW j \in DOMAIN f, i < j PROVE f[i].at >= f[j].at
  <2>1. PICK k \in S, l \in S : k < l /\ f[i] = t[k] /\ f[j] = t[l]
    BY <1>6, <1>7
  <2> QED
    BY <1>1, <1>3, <2>1
<1>8. Range(f) \subseteq Range(es)
  BY <1>1, <1>3, <1>6 DEF Range
<1>9. ASSUME NEW e \in Range(es), e.severity \in Trouble PROVE e \in Range(f)
  <2>1. PICK i \in DOMAIN t : t[i] = e
    BY <1>1 DEF Range
  <2>2. i \in S
    BY <1>5, <1>9, <2>1
  <2> QED
    BY <1>6, <2>1, <2>2
<1>10. ASSUME Len(es) <= FirstN + LastN PROVE Len(f) = Len(es)
  <2>1. S = DOMAIN t
    BY <1>1, <1>3, <1>5, <1>10
  <2> QED
    BY <1>1, <1>6, <2>1
<1>11. ASSUME es # << >> PROVE f # << >>
  <2>1. Len(es) \in Nat /\ Len(es) # 0
    BY <1>11 DEF Timed, IsList
  <2>2. \E i \in DOMAIN t : i \in S
    <3>1. FirstN \in Nat /\ LastN \in Nat /\ (1 <= FirstN \/ 1 <= LastN)
      BY TimelineAssumption
    <3>2. 1 \in DOMAIN t /\ Len(t) \in DOMAIN t
      BY <1>1, <1>4, <2>1
    <3>3. 1 <= FirstN => 1 \in S
      BY <1>5, <3>2
    <3>4. 1 <= LastN => Len(t) > Len(t) - LastN
      BY <1>4, <3>1
    <3>5. 1 <= LastN => Len(t) \in S
      BY <1>5, <3>2, <3>4
    <3> QED
      BY <3>1, <3>2, <3>3, <3>5
  <2>3. Range(f) # {}
    <3>1. PICK i \in S : TRUE
      BY <2>2
    <3>2. t[i] \in {t[j] : j \in S}
      OBVIOUS
    <3> QED
      BY <1>6, <3>2
  <2>4. f = << >> => Range(f) = {}
    BY DEF Range
  <2> QED
    BY <2>3, <2>4
<1> QED
  BY <1>7, <1>8, <1>9, <1>10, <1>11 DEF f

-----------------------------------------------------------------------------
(* A place of the list asked for is in the list of those not available or  *)
(* in the list the tail goes on with, never in both.                       *)
LEMMA PlacesApart ==
  ASSUME NEW a, IsList(a), \A i, j \in DOMAIN a : a[i] = a[j] => i = j,
         NEW S \in SUBSET (DOMAIN a), NEW N \in SUBSET (DOMAIN a), S \cap N = {}
  PROVE  Range(Chosen(a, S)) \cap Range(Chosen(a, N)) = {}
<1>1. Range(Chosen(a, S)) = {a[i] : i \in S} /\ Range(Chosen(a, N)) = {a[i] : i \in N}
  BY ListChosen
<1> QED
  BY <1>1

(* The fields of what is printed that do not depend on the format. *)
LEMMA OutputIs ==
  ASSUME NEW ses, NEW cfg, NEW results
  PROVE  LET out == CorrelateOutput(ses, cfg, results)
         IN  /\ out.events = FilterTimeline(AllEvents(results))
             /\ out.restricted = Restricted(ses.flags)
             /\ out.unavailable = NotAvailable(results, ses.flags)
             /\ out.tail = Tailed(ses, results)
BY DEF CorrelateOutput

(* What the sources gave, one list after the other, is timed. *)
LEMMA AllTimed ==
  ASSUME NEW ses, SourcesShaped(ses.w), NEW b
  PROVE  Timed(AllEvents(CollectAll(ses, b)))
<1> DEFINE names == Attempted(ses.flags)
           r  == CollectAll(ses, b)
           ss == [i \in DOMAIN r |-> r[i].events]
<1>1. IsList(names) /\ Range(names) \subseteq Range(Sources)
  BY AttemptedAre
<1>2. r = [i \in DOMAIN names |-> Collected(ses, b, names[i])]
  BY Zenon DEF CollectAll
<1>3. AllEvents(r) = FlattenSeq(ss)
  BY Zenon DEF AllEvents
<1> HIDE DEF names, r
<1>4. DOMAIN r = DOMAIN names
  BY <1>2
<1>5. ASSUME NEW i \in DOMAIN names PROVE Timed(ss[i])
  <2>1. names[i] \in Range(Sources)
    BY <1>1 DEF Range
  <2>2. Timed(Collected(ses, b, names[i]).events)
    BY <2>1, CollectedTimed
  <2> QED
    BY <1>2, <1>4, <2>2
<1>6. ss = [i \in DOMAIN names |-> ss[i]] /\ DOMAIN ss = DOMAIN names
  BY <1>4
<1> HIDE DEF ss
<1>7. IsList(ss)
  BY <1>1, <1>6, ListMade
<1>8. Timed(AllEvents(r))
  BY <1>3, <1>5, <1>6, <1>7, TimedFlattened
<1> QED
  BY <1>8 DEF r

(* An answer is whole. *)
IsWhole(out, results, c) ==
  LET all == AllEvents(results)
  IN  /\ c = << 0 >> => out.events # << >> /\ out.unavailable = << >>
      /\ \A i, j \in DOMAIN out.events : i < j => out.events[i].at >= out.events[j].at
      /\ Range(out.events) \subseteq Range(all)
      /\ {e \in Range(all) : e.severity \in Trouble} \subseteq Range(out.events)
      /\ Len(all) <= FirstN + LastN => Len(out.events) = Len(all)
      /\ Range(out.restricted) \cap Range(out.unavailable) = {}
      /\ Range(out.tail) \cap Range(out.unavailable) = {}

(* What correlate answers from what its sources gave is whole. *)
LEMMA AnswerOf ==
  ASSUME NEW ses, SourcesShaped(ses.w), NEW b, NEW cfg,
         NEW results, results = CollectAll(ses, b)
  PROVE  IsWhole(CorrelateOutput(ses, cfg, results), results, << CorrelateCode(results) >>)
<1> DEFINE names == Attempted(ses.flags)
           out   == CorrelateOutput(ses, cfg, results)
           all   == AllEvents(results)
           f     == FilterTimeline(all)
           lost  == {i \in DOMAIN names : ~results[i].available}
           gave  == {i \in DOMAIN names : results[i].available}
<1>1. /\ IsList(names) /\ Range(names) \cap Range(Restricted(ses.flags)) = {}
      /\ \A i, j \in DOMAIN names : names[i] = names[j] => i = j
  BY AttemptedAre
<1>2. DOMAIN results = DOMAIN names
  BY DEF CollectAll
<1>3. Timed(all)
  BY AllTimed
<1>4. /\ out.events = f /\ out.restricted = Restricted(ses.flags)
      /\ out.unavailable = NotAvailable(results, ses.flags) /\ out.tail = Tailed(ses, results)
  BY OutputIs
<1>5. out.unavailable = Chosen(names, lost)
  BY <1>4, Zenon DEF NotAvailable
<1>6. out.tail = Chosen(names, gave) \/ out.tail = << >>
  BY <1>4, Zenon DEF Tailed
<1>7. lost \in SUBSET (DOMAIN names) /\ gave \in SUBSET (DOMAIN names) /\ gave \cap lost = {}
  OBVIOUS
<1>8. (\A i \in DOMAIN results : results[i].available) => lost = {}
  BY <1>2
<1>9. CorrelateCode(results) = 0 => all # << >> /\ \A i \in DOMAIN results : results[i].available
  BY DEF CorrelateCode
<1> HIDE DEF names, out, all, lost, gave
<1>10. /\ \A i, j \in DOMAIN f : i < j => f[i].at >= f[j].at
       /\ Range(f) \subseteq Range(all)
       /\ {e \in Range(all) : e.severity \in Trouble} \subseteq Range(f)
       /\ Len(all) <= FirstN + LastN => Len(f) = Len(all)
       /\ all # << >> => f # << >>
  BY <1>3, FilteredIs
<1> HIDE DEF f
<1>11. Range(Chosen(names, lost)) = {names[i] : i \in lost}
  BY <1>1, <1>7, ListChosen
<1>12. ASSUME << CorrelateCode(results) >> = << 0 >> PROVE out.events # << >> /\ out.unavailable = << >>
  <2>1. CorrelateCode(results) = 0
    BY <1>12
  <2>2. lost = {} /\ all # << >>
    BY <1>8, <1>9, <2>1
  <2>3. Range(Chosen(names, lost)) = {}
    BY <1>11, <2>2
  <2>4. IsList(Chosen(names, lost))
    BY <1>1, <1>7, ListChosen
  <2>5. Chosen(names, lost) = << >>
    BY <2>3, <2>4 DEF IsList
  <2> QED
    BY <1>4, <1>5, <1>10, <2>2, <2>5
<1>13. Range(out.restricted) \cap Range(out.unavailable) = {}
  <2>1. Range(out.unavailable) \subseteq Range(names)
    BY <1>5, <1>7, <1>11 DEF Range
  <2> QED
    BY <1>1, <1>4, <2>1
<1>14. Range(out.tail) \cap Range(out.unavailable) = {}
  <2>1. CASE out.tail = Chosen(names, gave)
    BY <1>1, <1>5, <1>7, <2>1, PlacesApart
  <2>2. CASE out.tail = << >>
    BY <2>2 DEF Range
  <2> QED
    BY <1>6, <2>1, <2>2
<1> QED
  BY <1>4, <1>10, <1>12, <1>13, <1>14 DEF IsWhole, out, all

-----------------------------------------------------------------------------
(* Two lists, one after the other: the first keeps its places. *)
LEMMA ListsJoined ==
  ASSUME NEW a, IsList(a), NEW c, IsList(c)
  PROVE  /\ IsList(a \o c) /\ Len(a \o c) = Len(a) + Len(c) /\ Len(a) \in Nat /\ Len(c) \in Nat
         /\ \A i \in DOMAIN a : i \in DOMAIN (a \o c) /\ (a \o c)[i] = a[i]
         /\ \A i \in DOMAIN c : Len(a) + i \in DOMAIN (a \o c) /\ (a \o c)[Len(a) + i] = c[i]
<1> DEFINE T == Range(a) \cup Range(c)
<1>1. a \in Seq(T) /\ c \in Seq(T)
  <2>1. a \in Seq(Range(a)) /\ c \in Seq(Range(c)) /\ Range(a) \subseteq T /\ Range(c) \subseteq T
    BY DEF IsList
  <2> HIDE DEF T
  <2> QED
    BY <2>1, SeqMonotonic
<1> HIDE DEF T
<1>2. a \o c \in Seq(T) /\ Len(a \o c) = Len(a) + Len(c) /\ Len(a) \in Nat /\ Len(c) \in Nat
  BY <1>1, ConcatProperties
<1>3. IsList(a \o c)
  BY <1>2, SeqOfRange DEF IsList
<1>4. \A i \in DOMAIN a : i \in DOMAIN (a \o c) /\ (a \o c)[i] = a[i]
  BY <1>1, <1>2
<1>5. \A i \in DOMAIN c : Len(a) + i \in DOMAIN (a \o c) /\ (a \o c)[Len(a) + i] = c[i]
  BY <1>1, <1>2
<1> QED
  BY <1>2, <1>3, <1>4, <1>5

(* Lists written out. *)
LEMMA ShortLists ==
  /\ IsList(<< >>)
  /\ \A a : IsList(<<a>>) /\ Len(<<a>>) = 1 /\ 1 \in DOMAIN <<a>>
  /\ \A a, c : IsList(<<a, c>>) /\ Len(<<a, c>>) = 2 /\ 1 \in DOMAIN <<a, c>> /\ 2 \in DOMAIN <<a, c>>
BY DEF IsList, Range

(* A check above a list of others is the first of them. *)
LEMMA FirstCheck ==
  ASSUME NEW x, NEW c, IsList(c)
  PROVE  IsList(<<x>> \o c) /\ (<<x>> \o c)[1] = x /\ Len(<<x>> \o c) = 1 + Len(c) /\ 1 \in DOMAIN (<<x>> \o c)
<1> DEFINE a == <<x>>
<1>1. IsList(a) /\ Len(a) = 1 /\ 1 \in DOMAIN a /\ a[1] = x
  BY ShortLists
<1> HIDE DEF a
<1>2. IsList(a \o c) /\ Len(a \o c) = Len(a) + Len(c) /\ \A i \in DOMAIN a : i \in DOMAIN (a \o c) /\ (a \o c)[i] = a[i]
  BY <1>1, ListsJoined, Zenon
<1>3. IsList(a \o c) /\ (a \o c)[1] = x /\ Len(a \o c) = 1 + Len(c) /\ 1 \in DOMAIN (a \o c)
  BY <1>1, <1>2, Zenon
<1> QED
  BY <1>3 DEF a

-----------------------------------------------------------------------------
(* The row of a machine is the one its id gives, observed as it is.        *)
LEMMA RowIs ==
  ASSUME NEW db, DbShaped(db), NEW i \in DOMAIN db.rows, NEW m, m = db.rows[i]
  PROVE  LET rows == RowsOf(db, m.id)
         IN  /\ rows # << >> /\ rows[1] = m
             /\ m.observed => Observed(rows) # << >> /\ Observed(rows)[1] = m
<1> DEFINE S    == {j \in DOMAIN db.rows : db.rows[j].id = m.id}
           rows == RowsOf(db, m.id)
           O    == {j \in DOMAIN rows : rows[j].observed}
           seen == Observed(rows)
<1>1. db.rows \in Seq(Range(db.rows)) /\ \A j, k \in DOMAIN db.rows : db.rows[j].id = db.rows[k].id => j = k
  BY DEF DbShaped
<1>2. S = {i} /\ S \in SUBSET (DOMAIN db.rows)
  BY <1>1
<1>3. rows = Chosen(db.rows, S)
  BY Zenon DEF RowsOf
<1>4. IsList(db.rows)
  BY <1>1 DEF IsList
<1> HIDE DEF S, rows
<1>5. /\ IsList(rows) /\ \A k \in DOMAIN rows : rows[k] = m
      /\ \E k \in DOMAIN rows : rows[k] = m
  BY <1>2, <1>3, <1>4, ListChosen
<1>6. rows # << >> /\ 1 \in DOMAIN rows
  BY <1>5 DEF IsList
<1>7. seen = Chosen(rows, O)
  BY Zenon DEF Observed
<1>8. O \in SUBSET (DOMAIN rows)
  OBVIOUS
<1>9. m.observed => 1 \in O
  BY <1>5, <1>6
<1> HIDE DEF O, seen
<1>10. /\ IsList(seen) /\ \A k \in DOMAIN seen : \E j \in O : seen[k] = rows[j]
       /\ \A j \in O : \E k \in DOMAIN seen : seen[k] = rows[j]
  BY <1>5, <1>7, <1>8, ListChosen
<1>11. ASSUME m.observed PROVE seen # << >> /\ seen[1] = m
  <2>1. \E k \in DOMAIN seen : TRUE
    BY <1>9, <1>10, <1>11
  <2>2. seen # << >> /\ 1 \in DOMAIN seen
    BY <1>10, <2>1 DEF IsList
  <2> QED
    BY <1>5, <1>8, <1>10, <2>2
<1> QED
  BY <1>5, <1>6, <1>11 DEF rows, seen

(* The database at an address holds what the database holds. *)
LEMMA DbAtIs ==
  ASSUME NEW w, DbShaped(w.db), NEW url
  PROVE  DbShaped(DbAt(w, url)) /\ DbAt(w, url).rows = w.db.rows /\ DbAt(w, url).table = w.db.table
<1> DEFINE db == w.db
           at == DbAt(w, url)
<1>1. at = [db EXCEPT !.up = @ /\ url.host \in w.net.open]
  BY DEF DbAt
<1> HIDE DEF db, at
<1>2. {"up", "table", "rows"} \subseteq DOMAIN db
  BY DEF DbShaped, db
<1>3. DOMAIN at = DOMAIN db /\ at.rows = db.rows /\ at.table = db.table
  BY <1>1, <1>2
<1>4. DbShaped(at)
  BY <1>3, Zenon DEF DbShaped, db
<1> QED
  BY <1>3, <1>4 DEF at, db

-----------------------------------------------------------------------------
(* The summary of one row in the fleet, axis by axis. *)
LEMMA FleetOfOne ==
  ASSUME NEW m
  PROVE  /\ FleetSummaries(<<m>>, "dpu_cert")[1] = CertVerdict(m.expiry)
         /\ FleetSummaries(<<m>>, "dpu_isolation")[1] = FleetIsolation(m)
         /\ FleetSummaries(<<m>>, "hbn")[1] = HbnVerdict(HbnSnapshot(m, m.seen[1]))
         /\ FleetSummaries(<<m>>, "dpu_services")[1] = ServicesVerdict(ServicesSnapshot(m, ""))
         /\ FleetSummaries(<<m>>, "infiniband")[1] = IbVerdict(IbSnapshot(m))
<1> DEFINE rows == <<m>>
<1>1. 1 \in DOMAIN rows /\ rows[1] = m
  OBVIOUS
<1> HIDE DEF rows
<1>2. /\ FleetSummaries(rows, "dpu_cert")[1] = CertVerdict(m.expiry)
      /\ FleetSummaries(rows, "dpu_isolation")[1] = FleetIsolation(m)
      /\ FleetSummaries(rows, "hbn")[1] = HbnVerdict(HbnSnapshot(m, m.seen[1]))
      /\ FleetSummaries(rows, "dpu_services")[1] = ServicesVerdict(ServicesSnapshot(m, ""))
      /\ FleetSummaries(rows, "infiniband")[1] = IbVerdict(IbSnapshot(m))
  BY <1>1 DEF FleetSummaries
<1> QED
  BY <1>2 DEF rows

(* A machine that was seen is scouted, *)
LEMMA IsolationSame ==
  ASSUME NEW m, m.seen # << >>
  PROVE  IsolationVerdict(IsolationSnapshot(m)) = FleetIsolation(m)
<1>1. IsolationSnapshot(m) = [registered |-> TRUE, scouted |-> TRUE, quarantine |-> m.quarantine, seen |-> m.seen]
  BY DEF IsolationSnapshot
<1> QED
  BY <1>1, Zenon DEF FleetIsolation

(* and what a service without a state is taken to be does not matter to    *)
(* one whose services all have one.                                        *)
LEMMA ServicesSame ==
  ASSUME NEW m, IsList(m.services), \A i \in DOMAIN m.services : m.services[i].state # << >>, NEW default
  PROVE  /\ ServicesSnapshot(m, default) = ServicesSnapshot(m, "")
         /\ IsList(ServicesSnapshot(m, default).services)
<1> DEFINE listed == m.services
           S      == {i \in DOMAIN listed : listed[i].name # << >>}
           named  == Chosen(listed, S)
           given  == Services(listed, default)
           plain  == Services(listed, "")
<1>1. IsList(listed) /\ \A i \in DOMAIN listed : listed[i].state # << >>
  OBVIOUS
<1>2. S \in SUBSET (DOMAIN listed)
  OBVIOUS
<1>3. /\ given = [i \in DOMAIN named |->
                    [name |-> named[i].name[1], removed |-> named[i].removed,
                     state |-> IF named[i].state = << >> THEN default ELSE named[i].state[1]]]
      /\ plain = [i \in DOMAIN named |->
                    [name |-> named[i].name[1], removed |-> named[i].removed,
                     state |-> IF named[i].state = << >> THEN "" ELSE named[i].state[1]]]
  BY Zenon DEF Services
<1> HIDE DEF listed, S, given, plain
<1>4. IsList(named) /\ \A k \in DOMAIN named : \E i \in S : named[k] = listed[i]
  BY <1>1, <1>2, ListChosen
<1>5. \A k \in DOMAIN named : named[k].state # << >>
  BY <1>1, <1>2, <1>4
<1> HIDE DEF named
<1>6. given = plain
  BY <1>3, <1>5
<1>7. given = [i \in DOMAIN named |-> given[i]]
  BY <1>3
<1>8. IsList(given)
  BY <1>4, <1>7, ListMade
<1>9. ServicesSnapshot(m, default) = [seen |-> m.svcSeen, services |-> given]
  BY Zenon DEF ServicesSnapshot, given, listed
<1>10. ServicesSnapshot(m, "") = [seen |-> m.svcSeen, services |-> plain]
  BY Zenon DEF ServicesSnapshot, plain, listed
<1>11. ServicesSnapshot(m, default).services = given
  BY <1>9
<1>12. ServicesSnapshot(m, default) = ServicesSnapshot(m, "")
  BY <1>6, <1>9, <1>10, Zenon
<1> QED
  BY <1>8, <1>11, <1>12, Zenon

-----------------------------------------------------------------------------
(* What each command has at the top of its checks.                         *)
LEMMA NoAnswer == \A axis : Len(Unavailable(axis)) = 1
BY DEF Unavailable

(* More than one check is not one check. *)
LEMMA NotTheOne == ASSUME NEW c, Len(c) > 1, NEW d, Len(d) = 1 PROVE c # d
<1> SUFFICES ASSUME c = d PROVE FALSE
  OBVIOUS
<1>1. Len(c) = 1
  BY Zenon
<1> QED
  BY <1>1

(* dpu-cert: the verdict on the certificate, *)
LEMMA CertDrill ==
  ASSUME NEW db, DbShaped(db), NEW i \in DOMAIN db.rows, NEW m, m = db.rows[i],
         Len(CertLayer(db, m.id)) > 1
  PROVE  CertLayer(db, m.id)[1] = Headline(CertVerdict(m.expiry))
<1> DEFINE rows == RowsOf(db, m.id)
           c    == CertLayer(db, m.id)
<1>1. rows # << >> /\ rows[1] = m
  BY RowIs
<1> HIDE DEF rows
<1>2. c = Unavailable("dpu_cert") \/ c = CertChecks(<< >>) \/ c = CertChecks(m.expiry)
  BY <1>1, Zenon DEF CertLayer, rows
<1>3. CertChecks(<< >>) = << Headline(CertVerdict(<< >>)) >> \o << >>
  BY DEF CertChecks
<1>4. Len(CertChecks(<< >>)) = 1
  BY <1>3
<1>5. \/ CertChecks(m.expiry) = << Headline(CertVerdict(m.expiry)) >> \o << >>
      \/ CertChecks(m.expiry) = << Headline(CertVerdict(m.expiry)) >> \o << Detail("expiry", "Ok"), Detail("warn-threshold", "Ok") >>
  BY Zenon DEF CertChecks
<1>6. CertChecks(m.expiry)[1] = Headline(CertVerdict(m.expiry))
  BY <1>5, FirstCheck, ShortLists
<1> HIDE DEF c
<1>7. Len(c) > 1
  BY DEF c
<1>8. c = CertChecks(m.expiry)
  BY <1>2, <1>4, <1>7, NoAnswer, NotTheOne, Zenon
<1> QED
  BY <1>6, <1>8 DEF c

(* dpu-isolation: on the isolation, *)
LEMMA IsolationDrill ==
  ASSUME NEW db, DbShaped(db), NEW i \in DOMAIN db.rows, NEW m, m = db.rows[i],
         Len(IsolationLayer(db, m.id)) > 1
  PROVE  IsolationLayer(db, m.id)[1] = Headline(IsolationVerdict(IsolationSnapshot(m)))
<1> DEFINE rows == RowsOf(db, m.id)
           c    == IsolationLayer(db, m.id)
           x    == IsolationSnapshot(m)
<1>1. rows # << >> /\ rows[1] = m
  BY RowIs
<1> HIDE DEF rows
<1>2. c = Unavailable("dpu_isolation") \/ c = IsolationChecks(Unregistered) \/ c = IsolationChecks(x)
  BY <1>1, Zenon DEF IsolationLayer, rows
<1>3. ASSUME NEW y
      PROVE  /\ IsolationChecks(y)[1] = Headline(IsolationVerdict(y))
             /\ ~Quarantined(y) /\ y.seen = << >> => Len(IsolationChecks(y)) = 1
  <2> DEFINE a == << Headline(IsolationVerdict(y)) >>
             q == IF Quarantined(y) THEN << Detail("quarantine-state", "Ok") >> ELSE << >>
             s2 == IF y.seen = << >> THEN << >> ELSE << Detail("last-seen", "Ok"), Detail("freshness-threshold", "Ok") >>
  <2>1. IsolationChecks(y) = (a \o q) \o s2
    BY DEF IsolationChecks
  <2>2. IsList(q) /\ IsList(s2)
    BY ShortLists
  <2>3. ~Quarantined(y) /\ y.seen = << >> => q = << >> /\ s2 = << >>
    OBVIOUS
  <2> HIDE DEF q, s2
  <2>4. IsList(a \o q) /\ (a \o q)[1] = Headline(IsolationVerdict(y)) /\ Len(a \o q) = 1 + Len(q) /\ 1 \in DOMAIN (a \o q)
    BY <2>2, FirstCheck
  <2> DEFINE aq == a \o q
  <2> HIDE DEF a, aq
  <2>5. ((aq) \o s2)[1] = aq[1] /\ Len(aq \o s2) = Len(aq) + Len(s2)
    BY <2>2, <2>4, ListsJoined DEF aq
  <2>6. ~Quarantined(y) /\ y.seen = << >> => Len(aq \o s2) = 1
    BY <2>3, <2>4, <2>5 DEF aq
  <2> QED
    BY <2>1, <2>4, <2>5, <2>6 DEF aq
<1>4. Len(IsolationChecks(Unregistered)) = 1
  <2>1. ~Quarantined(Unregistered) /\ Unregistered.seen = << >>
    BY DEF Quarantined, Unregistered
  <2> QED
    BY <1>3, <2>1
<1> HIDE DEF c, x
<1>5. Len(c) > 1
  BY DEF c
<1>6. c = IsolationChecks(x)
  BY <1>2, <1>4, <1>5, NoAnswer, NotTheOne, Zenon
<1>7. IsolationChecks(x)[1] = Headline(IsolationVerdict(x))
  BY <1>3
<1> QED
  BY <1>6, <1>7 DEF c, x

-----------------------------------------------------------------------------
(* What comes after does not move what is first. *)
LEMMA FirstKept ==
  ASSUME NEW a, IsList(a), 1 \in DOMAIN a, NEW c, IsList(c)
  PROVE  IsList(a \o c) /\ 1 \in DOMAIN (a \o c) /\ (a \o c)[1] = a[1]
<1>1. IsList(a \o c) /\ \A i \in DOMAIN a : i \in DOMAIN (a \o c) /\ (a \o c)[i] = a[i]
  BY ListsJoined, Zenon
<1> QED
  BY <1>1, Zenon

(* Seven checks written out are a list. *)
LEMMA SevenList ==
  ASSUME NEW a, NEW b, NEW c, NEW d, NEW e, NEW f, NEW g
  PROVE  IsList(<<a, b, c, d, e, f, g>>)
BY DEF IsList, Range

(* hbn: the verdict on HBN, as it was last seen, *)
LEMMA HbnDrill ==
  ASSUME NEW db, DbShaped(db), NEW i \in DOMAIN db.rows, NEW m, m = db.rows[i], m.observed,
         Len(HbnLayer(db, m.id)) > 1
  PROVE  HbnLayer(db, m.id)[1] = Headline(HbnVerdict(HbnSnapshot(m, m.seen[1])))
<1> DEFINE rows == Observed(RowsOf(db, m.id))
           c    == HbnLayer(db, m.id)
           x    == HbnSnapshot(m, m.seen[1])
           a == << Headline(HbnVerdict(x)) >>
           q == IF x.error \in {<< >>, <<"">>} THEN << >> ELSE << Detail("network_config_error", "Fail") >>
           seven == << Detail("version_nvue", OkIf(~Older(x.hbn, NvueMinimum), "Fail")),
                       Detail("version_fmds", OkIf(~Older(x.hbn, FmdsMinimum), "Warn")),
                       Detail("managed_host_config", OkIf(~HostDrift(x), "Fail")),
                       Detail("instance_network_config", OkIf(~InstDrift(x), "Fail")),
                       Detail("bgp", OkIf(x.bgp = << >>, "Fail")),
                       Detail("quarantine", OkIf(~Quarantined(x), "Fail")),
                       Detail("last_seen", OkIf(Age(x.seen) <= SeenFresh, "Warn")) >>
<1>1. rows # << >> /\ rows[1] = m
  BY RowIs
<1> HIDE DEF rows, x
<1>2. c = Unavailable("hbn") \/ c = HbnChecks(x)
  BY <1>1, Zenon DEF HbnLayer, rows, x
<1>3. HbnChecks(x) = (a \o q) \o seven
  BY Zenon DEF HbnChecks
<1>4. IsList(a) /\ 1 \in DOMAIN a /\ IsList(q) /\ IsList(seven) /\ a[1] = Headline(HbnVerdict(x))
  <2>1. IsList(a) /\ 1 \in DOMAIN a /\ IsList(q)
    BY ShortLists, Zenon
  <2>2. IsList(seven)
    BY SevenList
  <2>3. a[1] = Headline(HbnVerdict(x))
    OBVIOUS
  <2> QED
    BY <2>1, <2>2, <2>3, Zenon
<1> HIDE DEF a, q, seven, c
<1>5. IsList(a \o q) /\ 1 \in DOMAIN (a \o q) /\ (a \o q)[1] = a[1]
  BY <1>4, FirstKept, Zenon
<1>6. ((a \o q) \o seven)[1] = (a \o q)[1]
  BY <1>4, <1>5, FirstKept, Zenon
<1>7. Len(c) > 1
  BY DEF c
<1>8. c = HbnChecks(x)
  BY <1>2, <1>7, NoAnswer, NotTheOne, Zenon
<1>9. c[1] = Headline(HbnVerdict(x))
  BY <1>3, <1>4, <1>5, <1>6, <1>8, Zenon
<1> QED
  BY <1>9, Zenon DEF c, x

(* dpu-services: on the services, *)
LEMMA ServicesDrill ==
  ASSUME NEW db, DbShaped(db), NEW i \in DOMAIN db.rows, NEW m, m = db.rows[i],
         \A k \in DOMAIN m.services : m.services[k].state # << >>,
         Len(ServicesLayer(db, m.id)) > 1
  PROVE  ServicesLayer(db, m.id)[1] = Headline(ServicesVerdict(ServicesSnapshot(m, "")))
<1> DEFINE rows == RowsOf(db, m.id)
           c    == ServicesLayer(db, m.id)
           x    == ServicesSnapshot(m, "Unknown")
           stale == Stale(x.seen, ServicesStale)
           a == << Headline(ServicesVerdict(x)) >>
           q == IF stale THEN << Detail("observation_stale", "Warn") >> ELSE << >>
           z == [k \in DOMAIN x.services |-> ServiceCheck(x.services[k], stale)]
<1>1. rows # << >> /\ rows[1] = m
  BY RowIs
<1>2. IsList(m.services)
  BY DEF DbShaped, IsList
<1>3. x = ServicesSnapshot(m, "") /\ IsList(x.services)
  BY <1>2, ServicesSame
<1> HIDE DEF rows, x
<1>4. c = Unavailable("dpu_services") \/ c = ServicesChecks(x)
  BY <1>1, Zenon DEF ServicesLayer, rows, x
<1>5. ServicesChecks(x) = (a \o q) \o z
  BY Zenon DEF ServicesChecks
<1>6. IsList(a) /\ 1 \in DOMAIN a /\ IsList(q) /\ a[1] = Headline(ServicesVerdict(x))
  <2>1. IsList(a) /\ 1 \in DOMAIN a /\ IsList(q)
    BY ShortLists, Zenon
  <2>2. a[1] = Headline(ServicesVerdict(x))
    OBVIOUS
  <2> QED
    BY <2>1, <2>2, Zenon
<1> HIDE DEF stale
<1>7. z = [k \in DOMAIN x.services |-> z[k]]
  OBVIOUS
<1> HIDE DEF a, q, z, c
<1>8. IsList(z)
  BY <1>3, <1>7, ListMade, Zenon
<1>9. IsList(a \o q) /\ 1 \in DOMAIN (a \o q) /\ (a \o q)[1] = a[1]
  BY <1>6, FirstKept, Zenon
<1>10. ((a \o q) \o z)[1] = (a \o q)[1]
  BY <1>8, <1>9, FirstKept, Zenon
<1>11. Len(c) > 1
  BY DEF c
<1>12. c = ServicesChecks(x)
  BY <1>4, <1>11, NoAnswer, NotTheOne, Zenon
<1>13. c[1] = Headline(ServicesVerdict(x))
  BY <1>5, <1>6, <1>9, <1>10, <1>12, Zenon
<1> QED
  BY <1>3, <1>13, Zenon DEF c

(* The alerts a reader takes of a report are a list. *)
LEMMA AlertsListed ==
  ASSUME NEW r, IsList(r)
  PROVE  IsList(IbAlerts(r)) /\ IsList(AgentAlerts(r))
<1> DEFINE I == {i \in DOMAIN r : r[i].id # << >>}
           k == Identified(r)
           S == {i \in DOMAIN k : Family[k[i].id[1]] = "Ib"}
           A == {i \in DOMAIN k : k[i].id[1] \notin HbnOwned /\ Family[k[i].id[1]] # "Ib"}
<1>1. k = Chosen(r, I) /\ I \in SUBSET (DOMAIN r)
  BY DEF Identified
<1> HIDE DEF k, I
<1>2. IsList(k)
  BY <1>1, ListChosen
<1>3. IbAlerts(r) = Chosen(k, S) /\ AgentAlerts(r) = Chosen(k, A)
  BY Zenon DEF IbAlerts, AgentAlerts, k
<1>4. S \in SUBSET (DOMAIN k) /\ A \in SUBSET (DOMAIN k)
  OBVIOUS
<1> HIDE DEF S, A
<1>5. IsList(Chosen(k, S)) /\ IsList(Chosen(k, A))
  BY <1>2, <1>4, ListChosen
<1> QED
  BY <1>3, <1>5, Zenon

(* infiniband: and on the ports. *)
LEMMA IbDrill ==
  ASSUME NEW db, DbShaped(db), NEW i \in DOMAIN db.rows, NEW m, m = db.rows[i],
         Len(IbLayer(db, m.id)) > 1
  PROVE  IbLayer(db, m.id)[1] = Headline(IbVerdict(IbSnapshot(m)))
<1> DEFINE rows == RowsOf(db, m.id)
           c    == IbLayer(db, m.id)
           x    == IbSnapshot(m)
           a == << Headline(IbVerdict(x)) >>
           ps == [k \in DOMAIN x.ports |-> Detail("port", OkIf(~BadPort(x.ports[k]), "Fail"))]
           as == [k \in DOMAIN x.alerts |-> Detail("ib_alert", "Warn")]
           at == IF x.seen = << >> THEN << >> ELSE << Detail("observed_at", "Ok") >>
           fr == IF Stale(x.seen, IbStale) THEN << Detail("freshness", "Warn") >> ELSE << >>
<1>1. rows # << >> /\ rows[1] = m
  BY RowIs
<1>2. IsList(m.ports) /\ IsList(m.report)
  BY DEF DbShaped, IsList
<1>3. x.ports = Ports(m.ports) /\ x.alerts = IbAlerts(m.report)
  BY DEF IbSnapshot
<1>4. Ports(m.ports) = [k \in DOMAIN m.ports |-> Ports(m.ports)[k]]
  BY DEF Ports
<1>5. IsList(x.ports) /\ IsList(x.alerts)
  BY <1>2, <1>3, <1>4, ListMade, AlertsListed
<1> HIDE DEF rows, x
<1>6. c = Unavailable("infiniband") \/ c = IbChecks(x)
  BY <1>1, Zenon DEF IbLayer, rows, x
<1>7. IbChecks(x) = (((a \o ps) \o as) \o at) \o fr
  BY Zenon DEF IbChecks
<1>8. IsList(a) /\ 1 \in DOMAIN a /\ IsList(at) /\ IsList(fr)
  BY ShortLists, Zenon
<1>9. a[1] = Headline(IbVerdict(x))
  OBVIOUS
<1>10. ps = [k \in DOMAIN x.ports |-> ps[k]] /\ as = [k \in DOMAIN x.alerts |-> as[k]]
  OBVIOUS
<1> HIDE DEF a, ps, as, at, fr, c
<1>11. IsList(ps) /\ IsList(as)
  BY <1>5, <1>10, ListMade, Zenon
<1>12. IsList(a \o ps) /\ 1 \in DOMAIN (a \o ps) /\ (a \o ps)[1] = a[1]
  BY <1>8, <1>11, FirstKept
<1>13. IsList((a \o ps) \o as) /\ 1 \in DOMAIN ((a \o ps) \o as) /\ ((a \o ps) \o as)[1] = (a \o ps)[1]
  BY <1>11, <1>12, FirstKept, Zenon
<1>14. /\ IsList(((a \o ps) \o as) \o at) /\ 1 \in DOMAIN (((a \o ps) \o as) \o at)
       /\ (((a \o ps) \o as) \o at)[1] = ((a \o ps) \o as)[1]
  BY <1>8, <1>13, FirstKept, Zenon
<1>15. ((((a \o ps) \o as) \o at) \o fr)[1] = (((a \o ps) \o as) \o at)[1]
  BY <1>8, <1>14, FirstKept, Zenon
<1>16. Len(c) > 1
  BY DEF c
<1>17. c = IbChecks(x)
  BY <1>6, <1>16, NoAnswer, NotTheOne, Zenon
<1>18. c[1] = Headline(IbVerdict(x))
  BY <1>7, <1>9, <1>12, <1>13, <1>14, <1>15, <1>17, Zenon
<1> QED
  BY <1>18, Zenon DEF c, x

-----------------------------------------------------------------------------
(* What no axis reports follows the headlines as a list. *)
LEMMA DetailsListed ==
  ASSUME NEW m, IsList(m.report), IsList(m.leases)
  PROVE  IsList(AgentDetails(m))
<1> DEFINE drift == IF m.superseded = << >> THEN << >> ELSE << Detail("agent_version_drift", "Warn") >>
           known == AgentAlerts(m.report)
           alerts == [i \in DOMAIN known |-> Detail(<<"alert", Category(Grouped(known)[i].id[1])>>, "Fail")]
           L == {i \in DOMAIN m.leases : Stale(m.leases[i], DhcpStale)}
           late == Chosen(m.leases, L)
           stale == [i \in DOMAIN late |-> Detail("dhcp_stale", "Warn")]
<1>1. IsList(drift)
  BY ShortLists, Zenon
<1>2. IsList(known)
  BY AlertsListed, Zenon
<1>3. L \in SUBSET (DOMAIN m.leases)
  OBVIOUS
<1>4. AgentDetails(m) = (drift \o alerts) \o stale
  BY Zenon DEF AgentDetails
<1> DEFINE leases == m.leases
<1> HIDE DEF L, leases
<1>5. IsList(leases) /\ L \in SUBSET (DOMAIN leases) /\ late = Chosen(leases, L)
  BY <1>3, Zenon DEF leases
<1> HIDE DEF late
<1>6. IsList(late)
  BY <1>5, ListChosen
<1> HIDE DEF known
<1>7. alerts = [i \in DOMAIN known |-> alerts[i]] /\ stale = [i \in DOMAIN late |-> stale[i]]
  OBVIOUS
<1> HIDE DEF drift, alerts, stale
<1>8. IsList(alerts) /\ IsList(stale)
  BY <1>2, <1>6, <1>7, ListMade, Zenon
<1>9. IsList(drift \o alerts)
  BY <1>1, <1>8, ListsJoined, Zenon
<1>10. IsList((drift \o alerts) \o stale)
  BY <1>8, <1>9, ListsJoined, Zenon
<1> QED
  BY <1>4, <1>10, Zenon

(* Four checks written out are a list. *)
LEMMA FourList ==
  ASSUME NEW a, NEW b, NEW c, NEW d
  PROVE  LET f == <<a, b, c, d>>
         IN  IsList(f) /\ DOMAIN f = 1 .. 4 /\ f[1] = a /\ f[2] = b /\ f[3] = c /\ f[4] = d
BY DEF IsList, Range

(* dpu-health: the four verdicts, one after the other. *)
LEMMA HealthDrill ==
  ASSUME NEW db, DbShaped(db), NEW i \in DOMAIN db.rows, NEW m, m = db.rows[i], m.seen # << >>,
         Len(HealthLayer(db, m.id, << >>)) > 1
  PROVE  /\ HealthLayer(db, m.id, << >>)[1] = Headline(CertVerdict(m.expiry))
         /\ HealthLayer(db, m.id, << >>)[2] = Headline(FleetIsolation(m))
         /\ HealthLayer(db, m.id, << >>)[3] = Headline(HbnVerdict(HbnSnapshot(m, m.seen[1])))
         /\ HealthLayer(db, m.id, << >>)[4] = Headline(ServicesVerdict(ServicesSnapshot(m, "")))
<1> DEFINE rows == RowsOf(db, m.id)
           c    == HealthLayer(db, m.id, << >>)
           h1 == Headline(CertVerdict(m.expiry))
           h2 == Headline(IsolationVerdict(IsolationSnapshot(m)))
           h3 == Headline(HbnVerdict(HbnSnapshot(m, Seen(m))))
           h4 == Headline(ServicesVerdict(ServicesSnapshot(m, "")))
           four == <<h1, h2, h3, h4>>
           ib == IbHeadline(m, << >>)
           more == AgentDetails(m)
<1>1. rows # << >> /\ rows[1] = m
  BY RowIs
<1>2. IsList(m.report) /\ IsList(m.leases)
  BY DEF DbShaped, IsList
<1>3. IsList(more)
  BY <1>2, DetailsListed, Zenon
<1>4. h3 = Headline(HbnVerdict(HbnSnapshot(m, m.seen[1])))
  BY DEF Seen
<1>5. h2 = Headline(FleetIsolation(m))
  BY IsolationSame, Zenon
<1>6. IsList(ib)
  <2>1. ib = << Check("infiniband", "Unknown", "Headline") >>
    BY DEF IbHeadline
  <2> QED
    BY <2>1, ShortLists, Zenon
<1>7. c = Unavailable("dpu_health") \/ c = HealthChecks(m, << >>)
  BY <1>1, Zenon DEF HealthLayer
<1>8. HealthChecks(m, << >>) = (four \o ib) \o more
  BY Zenon DEF HealthChecks
<1>9. Len(c) > 1
  OBVIOUS
<1> HIDE DEF c, rows, h1, h2, h3, h4, ib, more
<1>10. IsList(four) /\ DOMAIN four = 1 .. 4 /\ four[1] = h1 /\ four[2] = h2 /\ four[3] = h3 /\ four[4] = h4
  BY FourList
<1>11. c = HealthChecks(m, << >>)
  BY <1>7, <1>9, NoAnswer, NotTheOne, Zenon
<1> HIDE DEF four
<1>12. ASSUME NEW k \in 1 .. 4 PROVE c[k] = four[k]
  <2>1. IsList(four \o ib) /\ \A i1 \in DOMAIN four : i1 \in DOMAIN (four \o ib) /\ (four \o ib)[i1] = four[i1]
    BY <1>6, <1>10, ListsJoined, Zenon
  <2>2. k \in DOMAIN (four \o ib) /\ (four \o ib)[k] = four[k]
    BY <1>10, <2>1, Zenon
  <2> DEFINE five == four \o ib
  <2> HIDE DEF five
  <2>3. IsList(five)
    BY <2>1, Zenon DEF five
  <2>4. \A i1 \in DOMAIN five : (five \o more)[i1] = five[i1]
    BY <1>3, <2>3, ListsJoined, Zenon
  <2>5. (five \o more)[k] = five[k]
    BY <2>2, <2>4, Zenon DEF five
  <2>6. c = five \o more
    BY <1>8, <1>11, Zenon DEF five
  <2>7. five[k] = four[k]
    BY <2>2, Zenon DEF five
  <2> QED
    BY <2>5, <2>6, <2>7, Zenon
<1>13. 1 \in 1 .. 4 /\ 2 \in 1 .. 4 /\ 3 \in 1 .. 4 /\ 4 \in 1 .. 4
  OBVIOUS
<1>14. c[1] = h1 /\ c[2] = h2 /\ c[3] = h3 /\ c[4] = h4
  BY <1>10, <1>12, <1>13, Zenon
<1>15. /\ c[1] = h1 /\ c[2] = Headline(FleetIsolation(m))
       /\ c[3] = Headline(HbnVerdict(HbnSnapshot(m, m.seen[1]))) /\ c[4] = h4
  BY <1>4, <1>5, <1>14, Zenon
<1> QED
  BY <1>15, Zenon DEF c, h1, h4

-----------------------------------------------------------------------------
(* A verdict bears the name of its axis. *)
LEMMA AxisNamed ==
  ASSUME NEW m
  PROVE  /\ CertVerdict(m.expiry).axis = "dpu_cert" /\ FleetIsolation(m).axis = "dpu_isolation"
         /\ HbnVerdict(HbnSnapshot(m, m.seen[1])).axis = "hbn"
         /\ ServicesVerdict(ServicesSnapshot(m, "")).axis = "dpu_services"
<1>1. \A axis, ladder : Verdict(axis, ladder).axis = axis
  BY DEF Verdict
<1>2. /\ \E l : CertVerdict(m.expiry) = Verdict("dpu_cert", l)
      /\ \E l : FleetIsolation(m) = Verdict("dpu_isolation", l)
      /\ \E l : HbnVerdict(HbnSnapshot(m, m.seen[1])) = Verdict("hbn", l)
      /\ \E l : ServicesVerdict(ServicesSnapshot(m, "")) = Verdict("dpu_services", l)
  BY Zenon DEF CertVerdict, FleetIsolation, IsolationVerdict, HbnVerdict, ServicesVerdict
<1> QED
  BY <1>1, <1>2, Zenon

(* A headline has the status and the name of its verdict. *)
LEMMA HeadlineIs == ASSUME NEW v PROVE Headline(v).status = v.status /\ Headline(v).name = v.axis
BY DEF Headline, Check

(* The axis of a command about one. *)
LEMMA AxisIs ==
  /\ DOMAIN AxisOf = Drills \ {"dpu-health"}
  /\ AxisOf["hbn"] = "hbn" /\ AxisOf["dpu-isolation"] = "dpu_isolation" /\ AxisOf["dpu-cert"] = "dpu_cert"
  /\ AxisOf["dpu-services"] = "dpu_services" /\ AxisOf["infiniband"] = "infiniband"
BY DEF AxisOf, Drills

(* The verdict a command has on one machine is the one the fleet has.      *)
SameView(command, checks, m) ==
  /\ command \in DOMAIN AxisOf => checks[1].status = FleetSummaries(<<m>>, AxisOf[command])[1].status
  /\ command = "dpu-health" =>
       \A k \in 1 .. 4 : checks[k].status = FleetSummaries(<<m>>, checks[k].name)[1].status

(* That holds of every machine that has reported.                          *)
LEMMA ViewsOf ==
  ASSUME NEW db, DbShaped(db), NEW i \in DOMAIN db.rows, NEW m, m = db.rows[i], Shown(m),
         NEW command \in Drills, NEW checks, checks = Drilled(command, db, m.id), Len(checks) > 1
  PROVE  SameView(command, checks, m)
<1>1. m.observed /\ m.seen # << >> /\ \A k \in DOMAIN m.services : m.services[k].state # << >>
  BY Zenon DEF Shown
<1>2. command \in {"hbn", "dpu-isolation", "dpu-cert", "dpu-health", "dpu-services", "infiniband"}
  BY DEF Drills
<1>3. /\ command = "hbn" => checks = HbnLayer(db, m.id)
      /\ command = "dpu-isolation" => checks = IsolationLayer(db, m.id)
      /\ command = "dpu-cert" => checks = CertLayer(db, m.id)
      /\ command = "dpu-services" => checks = ServicesLayer(db, m.id)
      /\ command = "infiniband" => checks = IbLayer(db, m.id)
      /\ command = "dpu-health" => checks = HealthLayer(db, m.id, << >>)
  BY <1>2 DEF Drilled
<1> DEFINE verdict(axis) == FleetSummaries(<<m>>, axis)[1]
<1>4. /\ verdict("dpu_cert") = CertVerdict(m.expiry) /\ verdict("dpu_isolation") = FleetIsolation(m)
      /\ verdict("hbn") = HbnVerdict(HbnSnapshot(m, m.seen[1]))
      /\ verdict("dpu_services") = ServicesVerdict(ServicesSnapshot(m, ""))
      /\ verdict("infiniband") = IbVerdict(IbSnapshot(m))
  BY FleetOfOne, Zenon
<1> HIDE DEF verdict
<1>5. command = "hbn" => checks[1].status = verdict("hbn").status
  <2> SUFFICES ASSUME command = "hbn" PROVE checks[1].status = verdict("hbn").status
    OBVIOUS
  <2>1. checks = HbnLayer(db, m.id) /\ Len(HbnLayer(db, m.id)) > 1
    BY <1>3, Zenon
  <2>2. checks[1] = Headline(HbnVerdict(HbnSnapshot(m, m.seen[1])))
    BY <1>1, <2>1, HbnDrill
  <2>4. Headline(HbnVerdict(HbnSnapshot(m, m.seen[1]))).status = HbnVerdict(HbnSnapshot(m, m.seen[1])).status
    BY HeadlineIs, Zenon
  <2> QED
    BY <1>4, <2>2, <2>4
<1>6. command = "dpu-isolation" => checks[1].status = verdict("dpu_isolation").status
  <2> SUFFICES ASSUME command = "dpu-isolation" PROVE checks[1].status = verdict("dpu_isolation").status
    OBVIOUS
  <2>1. checks = IsolationLayer(db, m.id) /\ Len(IsolationLayer(db, m.id)) > 1
    BY <1>3, Zenon
  <2>2. checks[1] = Headline(IsolationVerdict(IsolationSnapshot(m)))
    BY <2>1, IsolationDrill
  <2>3. checks[1] = Headline(FleetIsolation(m))
    BY <1>1, <2>2, IsolationSame, Zenon
  <2>4. Headline(FleetIsolation(m)).status = FleetIsolation(m).status
    BY HeadlineIs, Zenon
  <2> QED
    BY <1>4, <2>3, <2>4
<1>7. command = "dpu-cert" => checks[1].status = verdict("dpu_cert").status
  <2> SUFFICES ASSUME command = "dpu-cert" PROVE checks[1].status = verdict("dpu_cert").status
    OBVIOUS
  <2>1. checks = CertLayer(db, m.id) /\ Len(CertLayer(db, m.id)) > 1
    BY <1>3, Zenon
  <2>2. checks[1] = Headline(CertVerdict(m.expiry))
    BY <2>1, CertDrill
  <2>4. Headline(CertVerdict(m.expiry)).status = CertVerdict(m.expiry).status
    BY HeadlineIs, Zenon
  <2> QED
    BY <1>4, <2>2, <2>4
<1>8. command = "dpu-services" => checks[1].status = verdict("dpu_services").status
  <2> SUFFICES ASSUME command = "dpu-services" PROVE checks[1].status = verdict("dpu_services").status
    OBVIOUS
  <2>1. checks = ServicesLayer(db, m.id) /\ Len(ServicesLayer(db, m.id)) > 1
    BY <1>3, Zenon
  <2>2. checks[1] = Headline(ServicesVerdict(ServicesSnapshot(m, "")))
    BY <1>1, <2>1, ServicesDrill
  <2>4. Headline(ServicesVerdict(ServicesSnapshot(m, ""))).status = ServicesVerdict(ServicesSnapshot(m, "")).status
    BY HeadlineIs, Zenon
  <2> QED
    BY <1>4, <2>2, <2>4
<1>9. command = "infiniband" => checks[1].status = verdict("infiniband").status
  <2> SUFFICES ASSUME command = "infiniband" PROVE checks[1].status = verdict("infiniband").status
    OBVIOUS
  <2>1. checks = IbLayer(db, m.id) /\ Len(IbLayer(db, m.id)) > 1
    BY <1>3, Zenon
  <2>2. checks[1] = Headline(IbVerdict(IbSnapshot(m)))
    BY <2>1, IbDrill
  <2>4. Headline(IbVerdict(IbSnapshot(m))).status = IbVerdict(IbSnapshot(m)).status
    BY HeadlineIs, Zenon
  <2> QED
    BY <1>4, <2>2, <2>4
<1>10. ASSUME command = "dpu-health"
       PROVE  \A k \in 1 .. 4 : checks[k].status = verdict(checks[k].name).status
  <2>1. checks = HealthLayer(db, m.id, << >>) /\ Len(HealthLayer(db, m.id, << >>)) > 1
    BY <1>3, <1>10, Zenon
  <2>8. m.seen # << >> /\ Len(HealthLayer(db, m.id, << >>)) > 1
    BY <1>1, <2>1, Zenon
  <2>9. /\ HealthLayer(db, m.id, << >>)[1] = Headline(CertVerdict(m.expiry))
        /\ HealthLayer(db, m.id, << >>)[2] = Headline(FleetIsolation(m))
        /\ HealthLayer(db, m.id, << >>)[3] = Headline(HbnVerdict(HbnSnapshot(m, m.seen[1])))
        /\ HealthLayer(db, m.id, << >>)[4] = Headline(ServicesVerdict(ServicesSnapshot(m, "")))
    <3>1. \A d, m1 : \A i1 \in DOMAIN d.rows :
            DbShaped(d) /\ m1 = d.rows[i1] /\ m1.seen # << >> /\ Len(HealthLayer(d, m1.id, << >>)) > 1 =>
              /\ HealthLayer(d, m1.id, << >>)[1] = Headline(CertVerdict(m1.expiry))
              /\ HealthLayer(d, m1.id, << >>)[2] = Headline(FleetIsolation(m1))
              /\ HealthLayer(d, m1.id, << >>)[3] = Headline(HbnVerdict(HbnSnapshot(m1, m1.seen[1])))
              /\ HealthLayer(d, m1.id, << >>)[4] = Headline(ServicesVerdict(ServicesSnapshot(m1, "")))
      BY HealthDrill, Zenon
    <3>2. DbShaped(db) /\ m = db.rows[i] /\ i \in DOMAIN db.rows
      OBVIOUS
    <3> QED
      BY <2>8, <3>1, <3>2, Zenon
  <2>2. /\ checks[1] = Headline(CertVerdict(m.expiry)) /\ checks[2] = Headline(FleetIsolation(m))
        /\ checks[3] = Headline(HbnVerdict(HbnSnapshot(m, m.seen[1])))
        /\ checks[4] = Headline(ServicesVerdict(ServicesSnapshot(m, "")))
    BY <2>1, <2>9, Zenon
  <2>3. /\ checks[1].name = "dpu_cert" /\ checks[2].name = "dpu_isolation"
        /\ checks[3].name = "hbn" /\ checks[4].name = "dpu_services"
    <3>1. \A v : Headline(v).name = v.axis
      BY HeadlineIs, Zenon
    <3> QED
      BY <2>2, <3>1, AxisNamed, Zenon
  <2>4. /\ checks[1].status = verdict("dpu_cert").status /\ checks[2].status = verdict("dpu_isolation").status
        /\ checks[3].status = verdict("hbn").status /\ checks[4].status = verdict("dpu_services").status
    <3>1. checks[1].status = verdict("dpu_cert").status
      <4>1. Headline(CertVerdict(m.expiry)).status = CertVerdict(m.expiry).status
        BY HeadlineIs, Zenon
      <4> QED
        BY <1>4, <2>2, <4>1
    <3>2. checks[2].status = verdict("dpu_isolation").status
      <4>1. Headline(FleetIsolation(m)).status = FleetIsolation(m).status
        BY HeadlineIs, Zenon
      <4> QED
        BY <1>4, <2>2, <4>1
    <3>3. checks[3].status = verdict("hbn").status
      <4>1. Headline(HbnVerdict(HbnSnapshot(m, m.seen[1]))).status = HbnVerdict(HbnSnapshot(m, m.seen[1])).status
        BY HeadlineIs, Zenon
      <4> QED
        BY <1>4, <2>2, <4>1
    <3>4. checks[4].status = verdict("dpu_services").status
      <4>1. Headline(ServicesVerdict(ServicesSnapshot(m, ""))).status = ServicesVerdict(ServicesSnapshot(m, "")).status
        BY HeadlineIs, Zenon
      <4> QED
        BY <1>4, <2>2, <4>1
    <3> QED
      BY <3>1, <3>2, <3>3, <3>4, Zenon
  <2>5. /\ checks[1].status = verdict(checks[1].name).status /\ checks[2].status = verdict(checks[2].name).status
        /\ checks[3].status = verdict(checks[3].name).status /\ checks[4].status = verdict(checks[4].name).status
    BY <2>3, <2>4, Zenon
  <2>6. \A k \in 1 .. 4 : k = 1 \/ k = 2 \/ k = 3 \/ k = 4
    OBVIOUS
  <2> QED
    BY <2>5, <2>6, Zenon
<1>11. command \in DOMAIN AxisOf => command # "dpu-health"
  BY AxisIs
<1>12. command \in DOMAIN AxisOf => checks[1].status = verdict(AxisOf[command]).status
  BY <1>2, <1>5, <1>6, <1>7, <1>8, <1>9, <1>11, AxisIs, Zenon
<1> QED
  BY <1>10, <1>12, Zenon DEF verdict, SameView

-----------------------------------------------------------------------------
(* The statuses that a layer cannot have in a check and still be Ok.       *)
Troubled == {"Fail", "Warn", "Unknown"}

(* The worst of some statuses is Ok only without trouble among them.       *)
LEMMA AggregateOk ==
  ASSUME NEW statuses
  PROVE  /\ Aggregate(statuses) = "Ok" => statuses \cap Troubled = {}
         /\ "Fail" \in statuses => Aggregate(statuses) = "Fail"
<1>1. \/ Aggregate(statuses) = "Fail" /\ "Fail" \in statuses
      \/ "Fail" \notin statuses /\ (Aggregate(statuses) # "Ok" \/ statuses \cap {"Fail", "Warn", "Unknown"} = {})
  BY DEF Aggregate
<1> QED
  BY <1>1 DEF Troubled

(* A layer that is Ok was not skipped, and none of its checks is in        *)
(* trouble.                                                                *)
LEMMA OkMeans ==
  ASSUME NEW name, NEW o, LayerResult(name, o).status = "Ok"
  PROVE  ~o.skipped /\ \A i \in DOMAIN o.checks : o.checks[i].status \notin Troubled
<1> DEFINE statuses == StatusesOf(o.checks)
<1>1. LayerResult(name, o).status = IF o.skipped THEN "Skipped" ELSE Aggregate(statuses)
  BY DEF LayerResult
<1>2. ~o.skipped /\ Aggregate(statuses) = "Ok"
  BY <1>1
<1>3. statuses \cap Troubled = {}
  BY <1>2, AggregateOk, Zenon
<1> QED
  BY <1>2, <1>3 DEF StatusesOf

(* What the layers of a report are: each is the result of its outcome, or  *)
(* it was too late.                                                        *)
LEMMA ReportOk ==
  ASSUME NEW w, NEW in, NEW since, NEW late, NEW r, r = DoctorReport(w, in, since, late),
         NEW i \in DOMAIN r, NEW name, r[i].name = name, r[i].status = "Ok"
  PROVE  /\ name \in Range(LayerNames) /\ name \notin in.skip
         /\ LET o == Outcome(name, w, in, since, LogCache(w, in.client, in.namespace))
            IN  ~o.skipped /\ \A k \in DOMAIN o.checks : o.checks[k].status \notin Troubled
<1> DEFINE cache == LogCache(w, in.client, in.namespace)
           o(n) == Outcome(n, w, in, since, cache)
<1>1. r = [k \in DOMAIN LayerNames |->
             IF LayerNames[k] \in late THEN TimedOutLayer(LayerNames[k])
             ELSE LayerResult(LayerNames[k], o(LayerNames[k]))]
  BY Zenon DEF DoctorReport
<1> HIDE DEF o, cache
<1>2. i \in DOMAIN LayerNames
  BY <1>1
<1> DEFINE n == LayerNames[i]
<1>3. r[i] = TimedOutLayer(n) \/ r[i] = LayerResult(n, o(n))
  BY <1>1, <1>2
<1>4. n \in Range(LayerNames)
  BY <1>2 DEF Range
<1> HIDE DEF n
<1>5. r[i] = LayerResult(n, o(n)) /\ n = name
  BY <1>3 DEF TimedOutLayer, LayerResult
<1>6. LayerResult(name, o(name)).status = "Ok"
  BY <1>5
<1>7. ~o(name).skipped /\ \A k \in DOMAIN o(name).checks : o(name).checks[k].status \notin Troubled
  BY <1>6, OkMeans, Zenon
<1>8. name \notin in.skip
  <2> SUFFICES ASSUME name \in in.skip PROVE FALSE
    OBVIOUS
  <2>1. o(name) = Skips
    BY DEF Outcome, o
  <2> QED
    BY <1>7, <2>1 DEF Skips
<1> QED
  BY <1>4, <1>5, <1>7, <1>8 DEF o, cache

(* A layer that ran has the checks it was given. *)
LEMMA RanIs ==
  /\ \A checks : Ran(checks).checks = checks
  /\ Skips.skipped
  /\ Unconfigured.checks = << Check("config", "Unknown", "Headline") >>
BY DEF Ran, Skips, Unconfigured

(* A check has the status it was made with. *)
LEMMA CheckIs == \A name, status, kind : Check(name, status, kind).status = status
BY DEF Check

(* A list with a check in trouble at its first or second place.            *)
LEMMA TroubleAt ==
  ASSUME NEW checks, NEW k \in DOMAIN checks, NEW name, NEW status \in Troubled, NEW kind,
         checks[k] = Check(name, status, kind), \A i \in DOMAIN checks : checks[i].status \notin Troubled
  PROVE  FALSE
BY CheckIs

(* One check that is Unknown or that fails is trouble. *)
LEMMA OneTroubled ==
  ASSUME NEW name, NEW status \in Troubled, NEW kind, NEW checks, checks = << Check(name, status, kind) >>,
         \A i \in DOMAIN checks : checks[i].status \notin Troubled
  PROVE  FALSE
<1>1. 1 \in DOMAIN checks /\ checks[1] = Check(name, status, kind)
  OBVIOUS
<1> QED
  BY <1>1, TroubleAt, Zenon

(* A layer without what it needs is in trouble. *)
LEMMA UnconfiguredTroubled ==
  ASSUME \A i \in DOMAIN Unconfigured.checks : Unconfigured.checks[i].status \notin Troubled
  PROVE  FALSE
<1>1. Unconfigured.checks = << Check("config", "Unknown", "Headline") >>
  BY RanIs
<1>2. "Unknown" \in Troubled
  BY DEF Troubled
<1> QED
  BY <1>1, <1>2, OneTroubled, Zenon

-----------------------------------------------------------------------------
(* grpc: the server answered. *)
LEMMA GrpcRead ==
  ASSUME NEW w, NEW in, NEW o, o = GrpcLayer(w, in),
         \A k \in DOMAIN o.checks : o.checks[k].status \notin Troubled
  PROVE  in.grpc[1] \in w.grpc
<1>1. CASE in.grpc = << >>
  <2>1. o = Unconfigured
    BY <1>1, Zenon DEF GrpcLayer
  <2> QED
    BY <2>1, UnconfiguredTroubled, Zenon
<1>2. CASE in.grpc # << >> /\ in.grpc[1] \notin w.grpc
  <2>1. o = Ran(<< Head1("reachable", "Fail") >>)
    BY <1>2, Zenon DEF GrpcLayer
  <2>2. o.checks = << Check("reachable", "Fail", "Headline") >>
    BY <2>1, RanIs, Zenon DEF Head1
  <2>3. "Fail" \in Troubled
    BY DEF Troubled
  <2> QED
    BY <2>2, <2>3, OneTroubled, Zenon
<1> QED
  BY <1>1, <1>2

(* postgres: the database is up and its locks could be read. *)
LEMMA PostgresRead ==
  ASSUME NEW w, NEW in, NEW o, o = PostgresLayer(w, in),
         \A k \in DOMAIN o.checks : o.checks[k].status \notin Troubled
  PROVE  DbAt(w, in.postgres).up /\ w.locks # << >>
<1>0. "Unknown" \in Troubled
  BY DEF Troubled
<1>1. CASE ~in.postgres.absolute
  <2>1. o = Unconfigured
    BY <1>1, Zenon DEF PostgresLayer
  <2> QED
    BY <2>1, UnconfiguredTroubled, Zenon
<1>2. CASE in.postgres.absolute /\ ~DbAt(w, in.postgres).up
  <2>1. o = Ran(<< Head1("pool", "Unknown") >>)
    BY <1>2, Zenon DEF PostgresLayer
  <2>2. o.checks = << Check("pool", "Unknown", "Headline") >>
    BY <2>1, RanIs, Zenon DEF Head1
  <2> QED
    BY <1>0, <2>2, OneTroubled, Zenon
<1>3. CASE in.postgres.absolute /\ DbAt(w, in.postgres).up /\ w.locks = << >>
  <2> DEFINE c == << PoolCheck(w.pool) >> \o << Head1("locks", "Unknown") >>
  <2>1. o = Ran(c)
    BY <1>3, Zenon DEF PostgresLayer
  <2>2. o.checks = c
    BY <2>1, RanIs, Zenon
  <2>3. 2 \in DOMAIN c /\ c[2] = Check("locks", "Unknown", "Headline")
    BY DEF Head1
  <2> HIDE DEF c
  <2> QED
    BY <1>0, <2>2, <2>3, TroubleAt, Zenon
<1> QED
  BY <1>1, <1>2, <1>3

-----------------------------------------------------------------------------
(* dpu: each machine that has reported was seen lately and is not held.    *)
SeenWell(m) == ~Quarantined(m) /\ m.seen # << >> /\ ~Stale(m.seen, SeenFresh)

(* A rung is what it was made of, and a verdict takes the first that holds. *)
LEMMA RungIs == \A holds, status, why : Rung(holds, status, why).holds = holds /\ Rung(holds, status, why).status = status
BY DEF Rung

LEMMA VerdictIs ==
  ASSUME NEW axis, NEW ladder
  PROVE  Verdict(axis, ladder).status = ladder[Min({i \in DOMAIN ladder : ladder[i].holds})].status
BY DEF Verdict

LEMMA FiveRungs ==
  ASSUME NEW a, NEW b, NEW c, NEW d, NEW e
  PROVE  LET f == <<a, b, c, d, e>>
         IN  DOMAIN f = 1 .. 5 /\ f[1] = a /\ f[2] = b /\ f[3] = c /\ f[4] = d /\ f[5] = e
OBVIOUS

(* On a ladder of four rungs of trouble and one of none, a verdict without *)
(* trouble says that none of the four holds.                               *)
LEMMA LastRung ==
  ASSUME NEW ladder, DOMAIN ladder = 1 .. 5, ladder[5].holds = TRUE,
         \A i \in 1 .. 4 : ladder[i].status \in Troubled,
         NEW axis, Verdict(axis, ladder).status \notin Troubled
  PROVE  \A i \in 1 .. 4 : ~ladder[i].holds
<1> DEFINE held == {i \in DOMAIN ladder : ladder[i].holds}
<1>1. ladder[Min(held)].status \notin Troubled
  BY VerdictIs
<1>2. held \in SUBSET (1 .. 5) /\ 5 \in held /\ \A i \in 1 .. 4 : ladder[i].holds => i \in held
  OBVIOUS
<1> HIDE DEF held
<1>3. Min(held) \in held /\ \A j \in held : Min(held) <= j
  <2>1. \E n \in held : \A j \in held : n <= j
    <3>1. held \in SUBSET Nat /\ held # {}
      BY <1>2
    <3> QED
      BY <3>1, LeastNumber
  <2> QED
    BY <2>1 DEF Min
<1>4. Min(held) \notin 1 .. 4
  BY <1>1
<1>5. ASSUME NEW i \in 1 .. 4, i \in held PROVE FALSE
  <2> DEFINE least == Min(held)
  <2>1. least \in 1 .. 5 /\ least <= i /\ least \notin 1 .. 4
    BY <1>2, <1>3, <1>4, <1>5
  <2> HIDE DEF least
  <2> QED
    BY <2>1
<1> QED
  BY <1>2, <1>5, Zenon

(* A machine whose isolation is in no trouble is well. *)
LEMMA IsolationOk ==
  ASSUME NEW m, FleetIsolation(m).status \notin Troubled
  PROVE  SeenWell(m)
<1> DEFINE x == [registered |-> TRUE, scouted |-> TRUE, quarantine |-> m.quarantine, seen |-> m.seen]
           out  == ~x.registered
           bare == ~x.scouted
           apart == Quarantined(x)
           lost == x.seen = << >> \/ Stale(x.seen, SeenFresh)
           r1 == Rung(out, "Unknown", "not registered")
           r2 == Rung(bare, "Unknown", "scout incomplete")
           r3 == Rung(apart, "Fail", "quarantined")
           r4 == Rung(lost, "Fail", "lost")
           r5 == Rung(TRUE, "Ok", "healthy")
           l  == <<r1, r2, r3, r4, r5>>
<1>1. x.quarantine = m.quarantine /\ x.seen = m.seen
  OBVIOUS
<1>2. FleetIsolation(m) = IsolationVerdict(x)
  BY Zenon DEF FleetIsolation
<1> HIDE DEF x
<1>3. FleetIsolation(m) = Verdict("dpu_isolation", l)
  BY <1>2, Zenon DEF IsolationVerdict
<1> HIDE DEF out, bare, apart, lost
<1>4. /\ r1.status = "Unknown" /\ r2.status = "Unknown" /\ r3.status = "Fail" /\ r4.status = "Fail"
      /\ r3.holds = apart /\ r4.holds = lost /\ r5.holds = TRUE
  BY RungIs, Zenon
<1> HIDE DEF r1, r2, r3, r4, r5
<1>5. DOMAIN l = 1 .. 5 /\ l[1] = r1 /\ l[2] = r2 /\ l[3] = r3 /\ l[4] = r4 /\ l[5] = r5
  BY FiveRungs
<1> HIDE DEF l
<1>6. \A i \in 1 .. 4 : l[i].status \in Troubled
  <2>1. \A i \in 1 .. 4 : i = 1 \/ i = 2 \/ i = 3 \/ i = 4
    OBVIOUS
  <2>2. "Unknown" \in Troubled /\ "Fail" \in Troubled
    BY DEF Troubled
  <2> QED
    BY <1>4, <1>5, <2>1, <2>2, Zenon
<1>7. Verdict("dpu_isolation", l).status \notin Troubled
  BY <1>3, Zenon
<1>8. \A i \in 1 .. 4 : ~l[i].holds
  BY <1>4, <1>5, <1>6, <1>7, LastRung, Zenon
<1>9. 3 \in 1 .. 4 /\ 4 \in 1 .. 4
  OBVIOUS
<1>10. ~apart /\ ~lost
  BY <1>4, <1>5, <1>8, <1>9, Zenon
<1>11. Quarantined(x) <=> Quarantined(m)
  BY <1>1, Zenon DEF Quarantined
<1> QED
  BY <1>1, <1>10, <1>11, Zenon DEF SeenWell, apart, lost

(* What counts up to a number is a list. *)
LEMMA CountedList ==
  ASSUME NEW n \in Nat, NEW f, f = [k \in 1 .. n |-> f[k]]
  PROVE  IsList(f)
<1>1. f \in [1 .. n -> Range(f)]
  BY DEF Range
<1> QED
  BY <1>1 DEF IsList

(* A finite set of findings, capped. *)
LEMMA CappedIs ==
  ASSUME NEW S, IsFiniteSet(S)
  PROVE  Capped(Cardinality(S)) \in Nat
<1>1. Cardinality(S) \in Nat
  BY FS_CardinalityType
<1> QED
  BY <1>1, FindingsAssumption DEF Capped

(* The places of a list are finitely many. *)
LEMMA PlacesFinite ==
  ASSUME NEW l, IsList(l)
  PROVE  IsFiniteSet(DOMAIN l)
<1>1. Len(l) \in Nat /\ DOMAIN l = 1 .. Len(l)
  BY DEF IsList
<1> QED
  BY <1>1, FS_Interval

(* The stuck alerts are finitely many. *)
LEMMA StuckFinite ==
  ASSUME NEW rows, IsList(rows), \A i \in DOMAIN rows : IsList(rows[i].report)
  PROVE  IsFiniteSet(Stuck(rows))
<1> DEFINE waits(i) == {k \in DOMAIN rows[i].report : /\ rows[i].report[k].id = <<"PostConfigCheckWait">>
                                                      /\ Stale(rows[i].report[k].since, StuckGrace)}
           part(i) == {i} \X waits(i)
           T == DOMAIN rows
           U == {part(i) : i \in T}
           f == [i \in T |-> part(i)]
<1>1. Stuck(rows) = UNION U
  BY DEF Stuck
<1>2. IsFiniteSet(T)
  BY PlacesFinite
<1>3. ASSUME NEW i \in T PROVE IsFiniteSet(part(i))
  <2>1. IsFiniteSet(DOMAIN rows[i].report)
    BY PlacesFinite
  <2>2. waits(i) \in SUBSET (DOMAIN rows[i].report)
    OBVIOUS
  <2> HIDE DEF waits
  <2>3. IsFiniteSet(waits(i))
    BY <2>1, <2>2, FS_Subset
  <2>4. IsFiniteSet({i})
    BY FS_Singleton
  <2> QED
    BY <2>3, <2>4, FS_Product
<1> HIDE DEF T, part
<1>4. f \in Surjection(T, U)
  BY DEF Surjection
<1>5. \A u \in U : IsFiniteSet(u)
  BY <1>3
<1> HIDE DEF f, U
<1>6. IsFiniteSet(U)
  BY <1>2, <1>4, FS_Surjection
<1> QED
  BY <1>1, <1>5, <1>6, FS_UNION

(* The second check of the fleet layer is the worst isolation of any row.  *)
LEMMA FleetSecond ==
  ASSUME NEW rows, IsList(rows), \A i \in DOMAIN rows : IsList(rows[i].report), NEW fabric
  PROVE  /\ 2 \in DOMAIN FleetChecks(rows, fabric)
         /\ FleetChecks(rows, fabric)[2].status = Aggregate(StatusesOf(FleetSummaries(rows, "dpu_isolation")))
<1> DEFINE four  == <<"dpu_cert", "dpu_isolation", "hbn", "dpu_services">>
           more  == IF fabric = <<FALSE>> THEN << >> ELSE <<"infiniband">>
           axes  == FleetAxes(fabric)
           head  == AxisHeadlines(rows, fabric)
           probe == << Check("probe-stuck", OkIf(Stuck(rows) = {}, "Fail"), "Headline") >>
           found == Findings(rows, fabric)
           n     == Capped(Cardinality(Stuck(rows)))
           stuck == [i \in 1 .. n |-> Detail("probe-stuck", "Fail")]
           worst == Aggregate(StatusesOf(FleetSummaries(rows, "dpu_isolation")))
<1>1. IsList(axes) /\ 2 \in DOMAIN axes /\ axes[2] = "dpu_isolation"
  <2>1. axes = four \o more
    BY DEF FleetAxes
  <2>2. IsList(four) /\ 2 \in DOMAIN four /\ four[2] = "dpu_isolation"
    BY FourList
  <2>3. IsList(more)
    BY ShortLists, Zenon
  <2> HIDE DEF four, more, axes
  <2>4. /\ IsList(four \o more)
        /\ \A i \in DOMAIN four : i \in DOMAIN (four \o more) /\ (four \o more)[i] = four[i]
    BY <2>2, <2>3, ListsJoined, Zenon
  <2> QED
    BY <2>1, <2>2, <2>4, Zenon
<1>2. IsList(head) /\ 2 \in DOMAIN head /\ head[2].status = worst
  <2>1. head = [k \in DOMAIN axes |-> Check(axes[k], Aggregate(StatusesOf(FleetSummaries(rows, axes[k]))), "Headline")]
    BY Zenon DEF AxisHeadlines
  <2> HIDE DEF axes, head
  <2>2. head = [k \in DOMAIN axes |-> head[k]]
    BY <2>1, Zenon
  <2>3. IsList(head)
    BY <1>1, <2>2, ListMade, Zenon
  <2>4. 2 \in DOMAIN head /\ head[2] = Check("dpu_isolation", worst, "Headline")
    BY <1>1, <2>1, Zenon
  <2>5. Check("dpu_isolation", worst, "Headline").status = worst
    BY CheckIs, Zenon
  <2> HIDE DEF worst
  <2> QED
    BY <2>3, <2>4, <2>5, Zenon
<1>3. IsList(probe)
  BY ShortLists, Zenon
<1>4. IsList(found)
  <2> DEFINE V(p) == FleetSummaries(rows, axes[p[1]])[p[2]]
             bad  == {p \in (DOMAIN axes) \X (DOMAIN rows) : V(p).status \notin {"Ok", "Skipped"}}
             Key(p) == (Len(axes) * StatusRank(V(p).status) + p[1]) * (Len(rows) + 1) + p[2]
             order  == Sorted(bad, {d \in bad \X bad : Key(d[1]) < Key(d[2])})
             c      == Capped(Cardinality(bad))
  <2>1. found = [k \in 1 .. c |-> Detail(axes[order[k][1]], V(order[k]).status)]
    BY Zenon DEF Findings
  <2>2. bad \in SUBSET ((DOMAIN axes) \X (DOMAIN rows))
    OBVIOUS
  <2> HIDE DEF axes, bad, order, V
  <2>3. IsFiniteSet(DOMAIN axes) /\ IsFiniteSet(DOMAIN rows)
    BY <1>1, PlacesFinite
  <2>4. IsFiniteSet((DOMAIN axes) \X (DOMAIN rows))
    BY <2>3, FS_Product
  <2>5. IsFiniteSet(bad)
    BY <2>2, <2>4, FS_Subset
  <2>6. c \in Nat
    BY <2>5, CappedIs
  <2> HIDE DEF c, found
  <2>7. found = [k \in 1 .. c |-> found[k]]
    BY <2>1, Zenon
  <2> QED
    BY <2>6, <2>7, CountedList, Zenon
<1>5. IsList(stuck)
  <2>1. n \in Nat
    BY StuckFinite, CappedIs
  <2>2. stuck = [k \in 1 .. n |-> stuck[k]]
    OBVIOUS
  <2> HIDE DEF n, stuck
  <2> QED
    BY <2>1, <2>2, CountedList, Zenon
<1>6. FleetChecks(rows, fabric) = ((head \o probe) \o found) \o stuck
  BY Zenon DEF FleetChecks
<1> HIDE DEF head, probe, found, n, stuck, worst
<1>7. /\ IsList(head \o probe)
      /\ \A i \in DOMAIN head : i \in DOMAIN (head \o probe) /\ (head \o probe)[i] = head[i]
  BY <1>2, <1>3, ListsJoined, Zenon
<1>8. 2 \in DOMAIN (head \o probe) /\ (head \o probe)[2] = head[2]
  BY <1>2, <1>7, Zenon
<1> DEFINE a == head \o probe
<1> HIDE DEF a
<1>9. IsList(a) /\ 2 \in DOMAIN a /\ a[2] = head[2]
  BY <1>7, <1>8 DEF a
<1>10. /\ IsList(a \o found)
       /\ \A i \in DOMAIN a : i \in DOMAIN (a \o found) /\ (a \o found)[i] = a[i]
  BY <1>4, <1>9, ListsJoined, Zenon
<1> DEFINE d == a \o found
<1> HIDE DEF d
<1>11. IsList(d) /\ 2 \in DOMAIN d /\ d[2] = head[2]
  BY <1>9, <1>10, Zenon DEF d
<1> DEFINE whole == FleetChecks(rows, fabric)
<1>12. \A i \in DOMAIN d : i \in DOMAIN (d \o stuck) /\ (d \o stuck)[i] = d[i]
  BY <1>5, <1>11, ListsJoined, Zenon
<1>13. whole = d \o stuck
  BY <1>6, Zenon DEF a, d
<1>14. 2 \in DOMAIN (d \o stuck) /\ (d \o stuck)[2] = d[2]
  BY <1>11, <1>12
<1> HIDE DEF whole
<1>15. 2 \in DOMAIN whole /\ whole[2].status = worst
  BY <1>2, <1>11, <1>13, <1>14, Zenon
<1> QED
  BY <1>15, Zenon DEF worst, whole

(* With no check of the fleet in trouble, no machine of it is.             *)
LEMMA FleetWell ==
  ASSUME NEW db, DbShaped(db), NEW fabric, db.up, db.table,
         NEW c, c = FleetLayer(db, fabric), \A k \in DOMAIN c : c[k].status \notin Troubled,
         NEW i \in DOMAIN db.rows, db.rows[i].observed
  PROVE  SeenWell(db.rows[i])
<1> DEFINE S    == {j \in DOMAIN db.rows : db.rows[j].observed}
           rows == Observed(db.rows)
           sums == FleetSummaries(rows, "dpu_isolation")
<1>1. IsList(db.rows) /\ \A j \in DOMAIN db.rows : IsList(db.rows[j].report)
  BY DEF DbShaped, IsList
<1>2. rows = Chosen(db.rows, S) /\ S \in SUBSET (DOMAIN db.rows) /\ i \in S
  BY Zenon DEF Observed
<1> HIDE DEF S, rows
<1>3. /\ IsList(rows) /\ \A k \in DOMAIN rows : \E j \in S : rows[k] = db.rows[j]
      /\ \A j \in S : \E k \in DOMAIN rows : rows[k] = db.rows[j]
  BY <1>1, <1>2, ListChosen
<1>4. \A k \in DOMAIN rows : IsList(rows[k].report)
  BY <1>1, <1>2, <1>3, Zenon
<1>5. PICK k \in DOMAIN rows : rows[k] = db.rows[i]
  BY <1>2, <1>3, Zenon
<1>6. c = Unavailable("dpu") \/ c = FleetChecks(rows, fabric)
  BY Zenon DEF FleetLayer, rows
<1>7. c # Unavailable("dpu")
  <2> SUFFICES ASSUME c = Unavailable("dpu") PROVE FALSE
    OBVIOUS
  <2>1. c = << Check("dpu", "Unknown", "Headline") >> /\ "Unknown" \in Troubled
    BY DEF Unavailable, Troubled
  <2> QED
    BY <2>1, OneTroubled, Zenon
<1>8. Aggregate(StatusesOf(sums)) \notin Troubled
  <2>1. 2 \in DOMAIN FleetChecks(rows, fabric) /\ FleetChecks(rows, fabric)[2].status = Aggregate(StatusesOf(sums))
    BY <1>3, <1>4, FleetSecond
  <2>2. c = FleetChecks(rows, fabric)
    BY <1>6, <1>7, Zenon
  <2> HIDE DEF sums
  <2> QED
    BY <2>1, <2>2, Zenon
<1>9. \A u \in StatusesOf(sums) : u \notin Troubled
  <2>1. Aggregate(StatusesOf(sums)) \in Troubled \cup {"Ok"}
    BY Zenon DEF Aggregate, Troubled
  <2>2. Aggregate(StatusesOf(sums)) = "Ok"
    BY <1>8, <2>1, Zenon
  <2> HIDE DEF sums
  <2>3. StatusesOf(sums) \cap Troubled = {}
    BY <2>2, AggregateOk, Zenon
  <2> QED
    BY <2>3
<1>10. k \in DOMAIN sums /\ sums[k] = FleetIsolation(rows[k])
  BY <1>5 DEF FleetSummaries
<1>11. FleetIsolation(rows[k]).status \notin Troubled
  <2> HIDE DEF sums
  <2>1. sums[k].status \in StatusesOf(sums)
    BY <1>10 DEF StatusesOf
  <2> QED
    BY <1>9, <1>10, <2>1
<1> QED
  BY <1>5, <1>11, IsolationOk, Zenon

(* An Ok fleet layer has asked the database, and found no machine held or  *)
(* out of sight.                                                           *)
LEMMA DpuRead ==
  ASSUME NEW w, DbShaped(w.db), NEW in, NEW o, o = DpuFleetLayer(w, in), ~o.skipped,
         \A k \in DOMAIN o.checks : o.checks[k].status \notin Troubled
  PROVE  /\ DbAt(w, in.postgres).up
         /\ w.db.table => \A i \in DOMAIN w.db.rows : w.db.rows[i].observed => SeenWell(w.db.rows[i])
<1> DEFINE db == DbAt(w, in.postgres)
           c  == FleetLayer(db, in.fabric)
<1>1. CASE NoForgedb(in.type)
  <2>1. o = Skips
    BY <1>1 DEF DpuFleetLayer
  <2> QED
    BY <2>1, RanIs, Zenon
<1>2. CASE ~NoForgedb(in.type) /\ ~in.postgres.absolute
  <2>1. o = Unconfigured
    BY <1>2 DEF DpuFleetLayer
  <2> QED
    BY <2>1, UnconfiguredTroubled, Zenon
<1>3. CASE ~NoForgedb(in.type) /\ in.postgres.absolute
  <2>1. o = Ran(c)
    BY <1>3 DEF DpuFleetLayer
  <2>2. o.checks = c
    BY <2>1, RanIs, Zenon
  <2>3. db.up
    <3> SUFFICES ASSUME ~db.up PROVE FALSE
      OBVIOUS
    <3>1. c = << Check("dpu", "Unknown", "Headline") >> /\ "Unknown" \in Troubled
      BY DEF FleetLayer, Unavailable, Troubled
    <3> HIDE DEF c, db
    <3> QED
      BY <2>2, <3>1, OneTroubled, Zenon
  <2>4. DbShaped(db) /\ db.rows = w.db.rows /\ db.table = w.db.table
    BY DbAtIs, Zenon
  <2> HIDE DEF db
  <2>5. \A k \in DOMAIN c : c[k].status \notin Troubled
    BY <2>2
  <2> HIDE DEF c
  <2>6. ASSUME w.db.table, NEW i \in DOMAIN w.db.rows, w.db.rows[i].observed
        PROVE  SeenWell(w.db.rows[i])
    <3>1. db.table /\ i \in DOMAIN db.rows /\ db.rows[i].observed /\ db.rows[i] = w.db.rows[i]
      BY <2>4, <2>6
    <3>2. c = FleetLayer(db, in.fabric)
      BY DEF c
    <3>3. SeenWell(db.rows[i])
      BY <2>3, <2>4, <2>5, <3>1, <3>2, FleetWell, Zenon
    <3> QED
      BY <3>1, <3>3
  <2> QED
    BY <2>3, <2>6 DEF db
<1> QED
  BY <1>1, <1>2, <1>3

-----------------------------------------------------------------------------
(* A list has finitely many places, and what is made of them is finite.    *)
LEMMA NamesFinite ==
  ASSUME NEW w, NEW pods, IsList(pods)
  PROVE  IsFiniteSet(DOMAIN LogsOf(w, pods))
<1> DEFINE S == {pods[i].name : i \in 1 .. Len(pods)}
           n == Len(pods)
<1>1. n \in Nat /\ DOMAIN pods = 1 .. n
  BY DEF IsList
<1>2. DOMAIN LogsOf(w, pods) = {pods[i].name : i \in 1 .. n}
  BY <1>1 DEF LogsOf
<1> HIDE DEF n
<1>3. IsFiniteSet(1 .. n)
  BY <1>1, FS_Interval
<1> DEFINE T == 1 .. n
           U == {pods[i].name : i \in T}
<1>4. IsFiniteSet(T)
  BY <1>3
<1> HIDE DEF T
<1> DEFINE f == [i \in T |-> pods[i].name]
<1>5. f \in Surjection(T, U)
  BY DEF Surjection
<1> HIDE DEF f, U
<1>6. IsFiniteSet(U)
  BY <1>4, <1>5, FS_Surjection
<1> QED
  BY <1>2, <1>6 DEF T, U

(* The pods of a namespace are listed, all of them or the living ones.     *)
LEMMA LivingListed ==
  ASSUME NEW net, NetShaped(net), NEW ns
  PROVE  LET given == ListPods(net, ns)
         IN  /\ IsList(Or(given, << >>)) /\ IsList(Live(Or(given, << >>)))
             /\ given # << >> => IsList(given[1])
<1> DEFINE pods == Items(net.pods, ns)
           made == [i \in DOMAIN pods |-> RawPod(pods[i])]
           given == ListPods(net, ns)
           l == Or(given, << >>)
           S == {i \in DOMAIN l : ~l[i].succeeded}
<1>1. IsList(pods)
  <2>1. IsList(<< >>)
    BY ShortLists, Zenon
  <2>2. \A n \in DOMAIN net.pods : IsList(net.pods[n])
    BY Zenon DEF NetShaped
  <2> QED
    BY <2>1, <2>2, Zenon DEF Items
<1>2. made = [i \in DOMAIN pods |-> made[i]]
  OBVIOUS
<1>3. given = Answer(net.lists, made)
  BY Zenon DEF ListPods
<1> HIDE DEF pods, made, given
<1>4. IsList(made)
  BY <1>1, <1>2, ListMade, Zenon
<1>5. given = << >> \/ given = << made >>
  BY <1>3, Zenon DEF Answer
<1>6. given # << >> => given[1] = made
  BY <1>5
<1>7. IsList(<< >>)
  BY ShortLists, Zenon
<1>8. IsList(l)
  BY <1>4, <1>6, <1>7, Zenon DEF Or
<1>9. Live(l) = Chosen(l, S) /\ S \in SUBSET (DOMAIN l)
  BY DEF Live
<1> HIDE DEF l, S
<1>10. IsList(Live(l))
  BY <1>8, <1>9, ListChosen
<1> QED
  BY <1>4, <1>6, <1>8, <1>10, Zenon DEF l, given

(* Logs are cached for finitely many pods, and read for finitely many.     *)
LEMMA EntriesFinite ==
  ASSUME NEW w, NetShaped(w.net), NEW in, LokiEntries(w, in) = << >>
  PROVE  IsFiniteSet(DOMAIN Or(LogEntries(w, in, LogCache(w, in.client, in.namespace)), << >>))
<1> DEFINE given == ListPods(w.net, in.namespace)
           cache == LogCache(w, in.client, in.namespace)
           k8s   == K8sEntries(w, in, cache)
           e     == LogEntries(w, in, cache)
           pods  == IF in.client THEN Live(Or(given, << >>)) ELSE << >>
<1>1. /\ IsList(Or(given, << >>)) /\ IsList(Live(Or(given, << >>)))
      /\ given # << >> => IsList(given[1])
  BY LivingListed
<1>2. IsList(pods)
  BY <1>1, ShortLists, Zenon
<1>3. cache = LogsOf(w, pods)
  BY Zenon DEF LogCache
<1> HIDE DEF pods, given
<1>4. IsFiniteSet(DOMAIN cache)
  BY <1>2, <1>3, NamesFinite, Zenon
<1> DEFINE listed == IF in.client THEN given ELSE << >>
<1>5. \/ k8s = << >> \/ k8s = << CacheEntries(cache) >>
      \/ listed # << >> /\ k8s = << CacheEntries(LogsOf(w, listed[1])) >>
  BY Zenon DEF K8sEntries, given
<1>6. listed # << >> => IsList(listed[1])
  BY <1>1, Zenon
<1> HIDE DEF listed, cache
<1>7. \A c : DOMAIN CacheEntries(c) = DOMAIN c
  BY DEF CacheEntries
<1>8. k8s = << >> \/ (k8s # << >> /\ IsFiniteSet(DOMAIN k8s[1]))
  <2>1. CASE k8s = << CacheEntries(cache) >>
    <3>1. k8s # << >> /\ k8s[1] = CacheEntries(cache)
      BY <2>1
    <3> QED
      BY <1>4, <1>7, <3>1, Zenon
  <2>2. CASE listed # << >> /\ k8s = << CacheEntries(LogsOf(w, listed[1])) >>
    <3>1. k8s # << >> /\ k8s[1] = CacheEntries(LogsOf(w, listed[1]))
      BY <2>2
    <3>2. IsFiniteSet(DOMAIN LogsOf(w, listed[1]))
      BY <1>6, <2>2, NamesFinite, Zenon
    <3> QED
      BY <1>7, <3>1, <3>2, Zenon
  <2> QED
    BY <1>5, <2>1, <2>2, Zenon
<1>9. e = FirstGiven(<< << >>, k8s >>)
  BY Zenon DEF LogEntries
<1> HIDE DEF k8s, e
<1>10. e = << >> \/ e = k8s
  <2> DEFINE options == << << >>, k8s >>
  <2>1. options \in Seq({<< >>, k8s})
    OBVIOUS
  <2> HIDE DEF options
  <2>2. FirstGiven(options) \in {<< >>, k8s} \cup {<< >>}
    BY <2>1, FirstGivenIs
  <2> QED
    BY <1>9, <2>2, Zenon DEF options
<1>11. DOMAIN << >> = {}
  OBVIOUS
<1>12. IsFiniteSet(DOMAIN << >>)
  BY <1>11, FS_EmptySet, Zenon
<1>13. IsFiniteSet(DOMAIN Or(e, << >>))
  BY <1>8, <1>10, <1>12, Zenon DEF Or
<1> QED
  BY <1>13, Zenon DEF e, cache

(* logs: Loki answered.  The cluster in its place is a warning. *)
LEMMA LogsRead ==
  ASSUME NEW w, NetShaped(w.net), NEW in, NEW o, o = LogsLayer(w, in, LogCache(w, in.client, in.namespace)),
         \A k \in DOMAIN o.checks : o.checks[k].status \notin Troubled
  PROVE  LokiEntries(w, in) # << >>
<1> DEFINE entries == Or(LogEntries(w, in, LogCache(w, in.client, in.namespace)), << >>)
           primary == LokiEntries(w, in) # << >>
<1> SUFFICES ASSUME LokiEntries(w, in) = << >> PROVE FALSE
  OBVIOUS
<1>1. IsFiniteSet(DOMAIN entries)
  BY EntriesFinite, Zenon
<1>2. o = Unconfigured \/ o = Ran(LogChecks(entries, primary))
  BY Zenon DEF LogsLayer
<1>3. ~primary
  OBVIOUS
<1> HIDE DEF entries, primary
<1>4. CASE o = Unconfigured
  BY <1>4, UnconfiguredTroubled, Zenon
<1>5. CASE o = Ran(LogChecks(entries, primary))
  <2> DEFINE noisy == {pod \in DOMAIN entries : entries[pod] > 0}
             n == Cardinality(noisy)
             a == << Head1("error_lines", OkIf(noisy = {}, "Warn")), Head1("source", OkIf(primary, "Warn")) >>
             t == Times(n, Detail("pod_error", "Warn"))
             c == a \o t
  <2>1. o.checks = c
    <3>1. LogChecks(entries, primary) = c
      BY Zenon DEF LogChecks
    <3> QED
      BY <1>5, <3>1, RanIs, Zenon
  <2>2. noisy \subseteq DOMAIN entries
    OBVIOUS
  <2>3. a[2] = Check("source", "Warn", "Headline")
    BY <1>3 DEF Head1, OkIf
  <2>4. IsList(a) /\ 2 \in DOMAIN a
    BY ShortLists, Zenon
  <2> HIDE DEF noisy, a
  <2>5. n \in Nat
    BY <1>1, <2>2, FS_Subset, FS_CardinalityType
  <2> HIDE DEF n
  <2>6. IsList(t)
    BY <2>5 DEF Times, IsList, Range
  <2> HIDE DEF t
  <2>7. 2 \in DOMAIN (a \o t) /\ (a \o t)[2] = a[2]
    <3>1. \A i \in DOMAIN a : i \in DOMAIN (a \o t) /\ (a \o t)[i] = a[i]
      BY <2>4, <2>6, ListsJoined, Zenon
    <3> QED
      BY <2>4, <3>1, Zenon
  <2>8. 2 \in DOMAIN c /\ c[2] = Check("source", "Warn", "Headline")
    BY <2>3, <2>7, Zenon
  <2>9. "Warn" \in Troubled
    BY DEF Troubled
  <2> HIDE DEF c
  <2> QED
    BY <2>1, <2>8, <2>9, TroubleAt, Zenon
<1> QED
  BY <1>2, <1>4, <1>5, Zenon

-----------------------------------------------------------------------------
(* The endpoints a boot found, or was given, are listed.                   *)
LEMMA EndpointsListed ==
  ASSUME NEW ses, SessionShaped(ses), NEW b
  PROVE  LET list == EndpointsAt(ses, b).list IN list # << >> => IsList(list[1])
<1> DEFINE net  == ses.w.net
           mode == b.cfg.reach
           ns   == b.cfg.texts["namespace"][1]
           services == Items(net.services, ns)
           S     == {i \in DOMAIN services :
                      services[i].name # << >> /\ ~services[i].headless /\ HttpPorts(services[i]) # << >>}
           serving == Chosen(services, S)
           http  == HttpServices(net, ns)
           Guard(v) == ForwardService(net, ns, v.svc, v.port)
           F     == {i \in DOMAIN http : mode = "in-cluster" \/ Guard(http[i]) # << >>}
           forwarded == Chosen(http, F)
           names == [i \in DOMAIN forwarded |-> forwarded[i].svc.name[1]]
           found == HttpEndpoints(net, mode, ns)
           list  == EndpointsAt(ses, b).list
<1>1. NetShaped(net) /\ ("health_endpoints" \in DOMAIN ses.env => IsList(ses.env["health_endpoints"]))
  BY DEF SessionShaped, SourcesShaped
<1>2. IsList(services)
  <2>1. IsList(<< >>)
    BY ShortLists, Zenon
  <2>2. \A n \in DOMAIN net.services : IsList(net.services[n])
    BY <1>1, Zenon DEF NetShaped
  <2> QED
    BY <2>1, <2>2, Zenon DEF Items
<1>3. S \in SUBSET (DOMAIN services)
  OBVIOUS
<1>4. http = [i \in DOMAIN serving |-> [svc |-> serving[i], port |-> HttpPorts(serving[i])[1].port]]
  BY Zenon DEF HttpServices
<1>5. found.ok => found.endpoints = names
  BY DEF HttpEndpoints, Unreached
<1>6. F \in SUBSET (DOMAIN http)
  OBVIOUS
<1>7. names = [i \in DOMAIN forwarded |-> names[i]]
  OBVIOUS
<1>8. \/ list = << >>
      \/ "health_endpoints" \in DOMAIN ses.env /\ list = << ses.env["health_endpoints"] >>
      \/ found.ok /\ list = << found.endpoints >>
  BY DEF EndpointsAt
<1> HIDE DEF services, S, http, F, names, found, list
<1>9. IsList(serving)
  BY <1>2, <1>3, ListChosen
<1>10. http = [i \in DOMAIN serving |-> http[i]]
  BY <1>4
<1> HIDE DEF serving
<1>11. IsList(http)
  BY <1>9, <1>10, ListMade
<1>12. IsList(forwarded)
  BY <1>6, <1>11, ListChosen
<1> HIDE DEF forwarded
<1>13. IsList(names)
  BY <1>7, <1>12, ListMade
<1>14. list # << >> => IsList(list[1])
  BY <1>1, <1>5, <1>8, <1>13
<1> QED
  BY <1>14 DEF list

(* health: every endpoint asked is well, as far as /healthz says.          *)
LEMMA HealthRead ==
  ASSUME NEW w, NEW in, in.endpoints # << >> => IsList(in.endpoints[1]), NEW o, o = EndpointsLayer(w, in),
         ~o.skipped, \A k \in DOMAIN o.checks : o.checks[k].status \notin Troubled
  PROVE  \A i \in DOMAIN in.endpoints[1] : w.http[in.endpoints[1][i]].healthz
<1> DEFINE names == in.endpoints[1]
<1>1. CASE in.endpoints \in {<< >>, << << >> >>}
  <2>1. o = Skips \/ o = Unconfigured
    BY <1>1 DEF EndpointsLayer
  <2> QED
    BY <2>1, RanIs, UnconfiguredTroubled, Zenon
<1>2. CASE in.endpoints \notin {<< >>, << << >> >>}
  <2> DEFINE outcomes == [i \in DOMAIN names |-> Wellness(w, names[i])]
             S   == {i \in DOMAIN outcomes : outcomes[i] # "Ok"}
             bad == Chosen(outcomes, S)
             h   == Head1("endpoints", Aggregate(Range(outcomes)))
             t   == [i \in DOMAIN bad |-> Head1("service", bad[i])]
             c   == << h >> \o t
  <2>1. o = Ran(HealthProbes(w, names))
    BY <1>2 DEF EndpointsLayer
  <2>2. HealthProbes(w, names) = c
    BY Zenon DEF HealthProbes
  <2>3. o.checks = c
    BY <2>1, <2>2, RanIs, Zenon
  <2>4. IsList(names)
    BY <1>2
  <2>5. \A i \in DOMAIN names : outcomes[i] = Wellness(w, names[i])
    OBVIOUS
  <2>6. outcomes = [i \in DOMAIN names |-> outcomes[i]] /\ DOMAIN outcomes = DOMAIN names
    OBVIOUS
  <2>7. S \in SUBSET (DOMAIN outcomes)
    OBVIOUS
  <2>8. t = [i \in DOMAIN bad |-> t[i]]
    OBVIOUS
  <2> HIDE DEF names, outcomes, S
  <2>9. IsList(outcomes)
    BY <2>4, <2>6, ListMade
  <2>10. IsList(bad)
    BY <2>7, <2>9, ListChosen
  <2> HIDE DEF bad, t
  <2>11. IsList(t)
    BY <2>8, <2>10, ListMade
  <2>12. h.status = Aggregate(Range(outcomes))
    BY CheckIs, Zenon DEF Head1
  <2> HIDE DEF h
  <2>13. c[1] = h /\ 1 \in DOMAIN c
    BY <2>11, FirstCheck, Zenon
  <2> HIDE DEF c
  <2>14. Aggregate(Range(outcomes)) \notin Troubled
    BY <2>3, <2>12, <2>13, Zenon
  <2>15. "Fail" \notin Range(outcomes)
    BY <2>14, AggregateOk DEF Troubled
  <2>16. ASSUME NEW i \in DOMAIN names PROVE w.http[names[i]].healthz
    <3> SUFFICES ASSUME ~w.http[names[i]].healthz PROVE FALSE
      OBVIOUS
    <3>1. Wellness(w, names[i]) = "Fail"
      BY DEF Wellness
    <3>2. outcomes[i] = "Fail" /\ i \in DOMAIN outcomes
      BY <2>5, <2>6, <3>1
    <3> QED
      BY <2>15, <3>2 DEF Range
  <2> QED
    BY <2>16 DEF names
<1> QED
  BY <1>1, <1>2

-----------------------------------------------------------------------------
(* What the report of an invocation is, from the moment there is one: the  *)
(* layers of doctor, run on what the boot left; the sources of correlate,  *)
(* and the answer made of them; or the checks of a command.  Only a run    *)
(* without a command goes beyond its start, and a run that was killed or   *)
(* refused neither answers nor ends with code 0.                           *)
LayersOf(r, ses, b) ==
  \E late : r = << DoctorReport(ses.w, LayerInputs(ses, b), DoctorSince(ses.flags), late) >>

(* The answer of correlate, with the results it is made of. *)
AnswerIs(r, ses, b, out, c) ==
  /\ r = << CollectAll(ses, b) >> /\ out = << CorrelateOutput(ses, b.cfg, r[1]) >>
  /\ c = << CorrelateCode(r[1]) >>

(* The report of a command about one DPU. *)
DrillIs(r, i) == \E late : r = << Drill(i.s, i.command, late).report >>

(* All of it together. *)
ReportInv ==
  /\ inv \in Invocations \cup Reruns
  /\ phase \notin {"start", "done"} => inv.command = "none"
  /\ phase \in {"saving", "writing"} => Doctor
  /\ Doctor /\ phase \in {"saving", "writing", "reporting"} => LayersOf(report, s, B)
  /\ Doctor /\ phase = "done" /\ inv.command = "none" /\ code = << 0 >> => LayersOf(report, s, B)
  /\ ~Doctor /\ phase = "reporting" => report = << CollectAll(s, B) >>
  /\ ~Doctor /\ phase = "done" /\ report # << >> /\ shown # << >> => AnswerIs(report, s, B, shown, code)
  /\ phase = "done" /\ inv.command \in Drills /\ report # << >> => DrillIs(report, inv)

(* A run that ends without an answer keeps ReportInv. *)
LEMMA EndsSilent ==
  ASSUME ReportInv, UNCHANGED <<inv, report>>, phase' = "done", code' # << 0 >>,
         Doctor \/ report = << >> \/ shown' = << >>, inv.command = "none" \/ report = << >>
  PROVE  ReportInv'
<1>1. (Doctor' <=> Doctor) /\ "none" \notin Drills
  BY DEF Doctor, Drills
<1> QED
  BY <1>1 DEF ReportInv

(* ReportInv holds throughout. *)
LEMMA ReportInvariant == Spec => []ReportInv
<1>1. Init => ReportInv
  BY DEF Init, Begun, ReportInv
<1>2. ReportInv /\ TypeOK /\ [Next]_vars => ReportInv'
  <2> SUFFICES ASSUME ReportInv, TypeOK, [Next]_vars PROVE ReportInv'
    OBVIOUS
  <2>0. "none" \notin Drills /\ (phase = "start" => report = << >>)
    BY DEF Drills, TypeOK
  <2>1. CASE BadTheme
    <3>1. phase = "start" /\ phase' = "done" /\ code' = <<1>> /\ UNCHANGED <<inv, report>>
      BY <2>1 DEF BadTheme, Exit, Rest
    <3>2. code' # << 0 >>
      BY <3>1
    <3> QED
      BY <2>0, <3>1, <3>2, EndsSilent
  <2>2. CASE LooksAtDpu
    <3>1. PICK late : report' = << Drill(s, inv.command, late).report >>
      BY <2>2 DEF LooksAtDpu
    <3>2. phase' = "done" /\ Doctor /\ inv.command \in Drills /\ UNCHANGED inv
      BY <2>2 DEF LooksAtDpu, Exit, Rest
    <3>3. DrillIs(report', inv')
      BY <3>1, <3>2 DEF DrillIs, s
    <3>4. Doctor' /\ inv'.command # "none"
      BY <2>0, <3>2 DEF Doctor
    <3> QED
      BY <3>2, <3>3, <3>4 DEF ReportInv
  <2>3. CASE LooksAtDrift
    <3>1. phase' = "done" /\ ~Doctor /\ report = << >> /\ UNCHANGED <<inv, report>>
      BY <2>0, <2>3 DEF LooksAtDrift, Ready, Exit, Rest
    <3>2. ~Doctor'
      BY <3>1 DEF Doctor
    <3> QED
      BY <3>1, <3>2 DEF ReportInv
  <2>4. CASE Complains
    <3>1. /\ phase' = "done" /\ report = << >> /\ UNCHANGED <<inv, report>> /\ inv.command = "none"
          /\ Doctor => code' = <<1>>
      BY <2>0, <2>4 DEF Complains, Whole, Ready, Exit, Rest
    <3>2. Doctor => code' # << 0 >>
      BY <3>1
    <3>3. Doctor' <=> Doctor
      BY <3>1 DEF Doctor
    <3> QED
      BY <2>0, <3>1, <3>2, <3>3 DEF ReportInv
  <2>5. CASE Configures
    <3>1. phase' = "probing" /\ UNCHANGED inv /\ inv.command = "none"
      BY <2>5 DEF Configures, Whole, Rest
    <3> QED
      BY <3>1 DEF ReportInv
  <2>6. ASSUME NEW id, StepBegin(id) \/ StepEnd(id) PROVE ReportInv'
    <3>1. phase = "probing" /\ phase' = "probing" /\ UNCHANGED inv
      BY <2>6 DEF StepBegin, StepEnd, ProbeStep, Rest
    <3> QED
      BY <3>1 DEF ReportInv
  <2>7. CASE BootRefuses
    <3>1. phase = "probing" /\ phase' = "done" /\ code' = <<3>> /\ Doctor /\ UNCHANGED <<inv, report>>
      BY <2>7 DEF BootRefuses, Settles, Exit, Rest
    <3>2. code' # << 0 >> /\ inv.command = "none"
      BY <3>1 DEF ReportInv
    <3> QED
      BY <3>1, <3>2, EndsSilent
  <2>8. CASE GoesOn
    <3>1. phase = "probing" /\ phase' = "working" /\ UNCHANGED inv
      BY <2>8 DEF GoesOn, Settles, Rest
    <3> QED
      BY <3>1 DEF ReportInv
  <2>9. CASE LayersRun
    <3>1. PICK late : /\ report' = << DoctorReport(s.w, LayerInputs(s, B), DoctorSince(s.flags), late) >>
                      /\ phase' \in {"saving", "reporting"}
      BY <2>9 DEF LayersRun
    <3>2. phase = "working" /\ Doctor /\ UNCHANGED <<inv, boot>>
      BY <2>9 DEF LayersRun, Rest
    <3>3. Doctor' /\ s' = s /\ B' = B
      BY <3>2 DEF Doctor, s, B
    <3>4. LayersOf(report', s', B')
      BY <3>1, <3>3, Zenon DEF LayersOf
    <3> QED
      BY <3>1, <3>2, <3>3, <3>4 DEF ReportInv
  <2>10. CASE SaveBegins \/ SaveRefused \/ SaveEnds \/ SaveBreaks
    <3>1. /\ phase \in {"saving", "writing"} /\ phase' \in {"writing", "reporting"}
          /\ UNCHANGED <<inv, boot, report>>
      BY <2>10 DEF SaveBegins, SaveRefused, SaveEnds, SaveBreaks, Rest
    <3>2. (Doctor' <=> Doctor) /\ s' = s /\ B' = B
      BY <3>1 DEF Doctor, s, B
    <3>3. phase \in {"saving", "writing"} => Doctor
      BY DEF ReportInv
    <3> QED
      BY <3>1, <3>2, <3>3 DEF ReportInv
  <2>11. CASE DoctorReports
    <3>1. phase = "reporting" /\ phase' = "done" /\ Doctor /\ UNCHANGED <<inv, boot, report>>
      BY <2>11 DEF DoctorReports, Exit, Rest
    <3>2. Doctor' /\ s' = s /\ B' = B
      BY <3>1 DEF Doctor, s, B
    <3>3. inv.command = "none"
      BY <3>1 DEF ReportInv
    <3> QED
      BY <2>0, <3>1, <3>2, <3>3 DEF ReportInv
  <2>12. CASE SourcesCollect
    <3>1. /\ phase = "working" /\ phase' = "reporting" /\ ~Doctor /\ UNCHANGED <<inv, boot>>
          /\ report' = << CollectAll(s, B) >>
      BY <2>12 DEF SourcesCollect, Rest
    <3>2. ~Doctor' /\ s' = s /\ B' = B
      BY <3>1 DEF Doctor, s, B
    <3> QED
      BY <3>1, <3>2 DEF ReportInv
  <2>13. CASE CorrelateReports
    <3>1. /\ phase = "reporting" /\ phase' = "done" /\ ~Doctor /\ UNCHANGED <<inv, boot, report>>
          /\ shown' = << CorrelateOutput(s, B.cfg, report[1]) >> /\ code' = << CorrelateCode(report[1]) >>
      BY <2>13 DEF CorrelateReports, Exit, Rest
    <3>2. ~Doctor' /\ s' = s /\ B' = B
      BY <3>1 DEF Doctor, s, B
    <3>3. inv.command = "none" /\ report = << CollectAll(s, B) >>
      BY <3>1 DEF ReportInv
    <3>4. AnswerIs(report', s', B', shown', code')
      BY <3>1, <3>2, <3>3, Zenon DEF AnswerIs
    <3> QED
      BY <2>0, <3>1, <3>2, <3>3, <3>4 DEF ReportInv
  <2>14. CASE Dies
    <3>1. phase \notin {"start", "done"} /\ phase' = "done" /\ code' = << Killed >> /\ shown' = << >>
          /\ UNCHANGED <<inv, report>>
      BY <2>14 DEF Dies, Exit, Rest
    <3>2. code' # << 0 >> /\ inv.command = "none"
      BY <3>1 DEF ReportInv, Killed
    <3> QED
      BY <3>1, <3>2, EndsSilent
  <2>15. CASE RunsAgain
    BY <2>15 DEF RunsAgain, ReportInv
  <2>16. CASE UNCHANGED vars
    <3>1. UNCHANGED <<phase, inv, boot, report, shown, code>> /\ (Doctor' <=> Doctor) /\ s' = s /\ B' = B
      BY <2>16 DEF vars, Doctor, s, B
    <3> QED
      BY <3>1 DEF ReportInv
  <2> QED
    BY <2>1, <2>2, <2>3, <2>4, <2>5, <2>6, <2>7, <2>8, <2>9, <2>10, <2>11, <2>12, <2>13, <2>14,
       <2>15, <2>16 DEF Next, Over
<1> QED
  BY <1>1, <1>2, TypeCorrect, PTL DEF Spec

-----------------------------------------------------------------------------
(* Whatever a session meets: exit code 0 of correlate says that each       *)
(* source gave its part and that there is an event, and every answer is in *)
(* order, made of what the sources gave, with every event that event.rs    *)
(* rated a warning or an error, however it is trimmed (correlate lib.rs    *)
(* 178-296, timeline.rs).  Of Temporal it rates none so: FailuresAreTold.  *)
THEOREM AnswersAreWhole == Spec => []AnswerIsWhole
<1>1. ReportInv => AnswerIsWhole
  <2> SUFFICES ASSUME ReportInv, phase = "done" /\ ~Doctor /\ report # << >> /\ shown # << >>
               PROVE  AnswerIsWhole
    BY DEF AnswerIsWhole
  <2>1. AnswerIs(report, s, B, shown, code) /\ SourcesShaped(s.w)
    BY InvocationsAssumption DEF ReportInv, SessionShaped, s
  <2> DEFINE results == report[1]
             out     == shown[1]
  <2>2. results = CollectAll(s, B) /\ out = CorrelateOutput(s, B.cfg, results) /\ code = << CorrelateCode(results) >>
    BY <2>1 DEF AnswerIs
  <2> HIDE DEF results, out
  <2>3. IsWhole(CorrelateOutput(s, B.cfg, results), results, << CorrelateCode(results) >>)
    BY <2>1, <2>2, AnswerOf
  <2>4. IsWhole(out, results, code)
    BY <2>2, <2>3, Zenon
  <2> QED
    BY <2>4, Zenon DEF IsWhole, AnswerIsWhole, results, out
<1> QED
  BY <1>1, ReportInvariant, PTL

-----------------------------------------------------------------------------
(* More than one check of a command comes from its query.                  *)
LEMMA DrillChecks ==
  ASSUME NEW ses, NEW command, NEW late, NEW d, d = Drill(ses, command, late).report,
         d # << >>, Len(d[1].checks) > 1
  PROVE  \E url : d[1].checks = Drilled(command, DbAt(ses.w, url), ses.flags["id"])
<1> DEFINE cfg == MinimalConfig(ses, DoctorOverrides)
           made == DrillReport(ses, command, cfg, late)
           c == Drilled(command, DbAt(ses.w, Pg(cfg)), ses.flags["id"])
<1>1. d = << >> \/ d = made
  BY DEF Drill
<1>2. d = made
  BY <1>1
<1>3. \/ made = << LayerResult(command, Skips) >> \/ made = << TimedOutLayer(command) >>
      \/ made = << LayerResult(command, Ran(c)) >>
  BY Zenon DEF DrillReport
<1> HIDE DEF made, cfg
<1>4. \A o : LayerResult(command, o).checks = o.checks
  BY DEF LayerResult
<1>5. Len(Skips.checks) = 0 /\ Len(TimedOutLayer(command).checks) = 0
  BY DEF Skips, TimedOutLayer
<1>6. Ran(c).checks = c
  BY RanIs, Zenon
<1> HIDE DEF c
<1>7. d[1] = LayerResult(command, Skips) \/ d[1] = TimedOutLayer(command) \/ d[1] = LayerResult(command, Ran(c))
  BY <1>2, <1>3
<1>8. d[1].checks = Skips.checks \/ d[1].checks = TimedOutLayer(command).checks \/ d[1].checks = c
  BY <1>4, <1>6, <1>7, Zenon
<1>9. d[1].checks = c
  BY <1>5, <1>8
<1> QED
  BY <1>9 DEF c

(* For every DPU that has reported and whose services say their state: the *)
(* command of an axis, dpu-health and the fleet layer agree on it, though  *)
(* each reads its row by a query of its own (dpu.rs, dpu_health.rs and the *)
(* five clients).                                                          *)
THEOREM ViewsAgreeAlways == Spec => []ViewsAgree
<1>1. ReportInv => ViewsAgree
  <2> DEFINE Agree(i) ==
               LET m         == s.w.db.rows[i]
                   checks    == report[1][1].checks
                   Fleet(axis) == FleetSummaries(<<m>>, axis)[1].status
               IN  m.id = s.flags["id"] /\ Shown(m) /\ Len(checks) > 1 =>
                     /\ inv.command \in DOMAIN AxisOf => checks[1].status = Fleet(AxisOf[inv.command])
                     /\ inv.command = "dpu-health" =>
                          \A k \in 1 .. 4 : checks[k].status = Fleet(checks[k].name)
  <2>0. SUFFICES ASSUME ReportInv, phase = "done" /\ inv.command \in Drills /\ report \notin {<< >>, << << >> >>},
                        NEW i \in DOMAIN s.w.db.rows
                 PROVE  Agree(i)
    BY Zenon DEF ViewsAgree
  <2> DEFINE m      == s.w.db.rows[i]
             checks == report[1][1].checks
             Same   == /\ inv.command \in DOMAIN AxisOf =>
                            checks[1].status = FleetSummaries(<<m>>, AxisOf[inv.command])[1].status
                       /\ inv.command = "dpu-health" =>
                            \A k \in 1 .. 4 : checks[k].status = FleetSummaries(<<m>>, checks[k].name)[1].status
  <2> SUFFICES ASSUME m.id = s.flags["id"], Shown(m), Len(checks) > 1 PROVE Same
    BY Zenon
  <2>1. DbShaped(s.w.db)
    BY <2>0, InvocationsAssumption DEF ReportInv, SessionShaped, s
  <2>2. PICK late : report = << Drill(s, inv.command, late).report >>
    BY <2>0 DEF ReportInv, DrillIs, s
  <2> DEFINE d == report[1]
  <2>3. d = Drill(s, inv.command, late).report /\ d # << >>
    BY <2>0, <2>2
  <2>4. Len(d[1].checks) > 1 /\ checks = d[1].checks
    OBVIOUS
  <2> HIDE DEF d
  <2>5. PICK url : d[1].checks = Drilled(inv.command, DbAt(s.w, url), s.flags["id"])
    BY <2>3, <2>4, DrillChecks
  <2> DEFINE db == DbAt(s.w, url)
             command == inv.command
  <2>6. DbShaped(db) /\ db.rows = s.w.db.rows
    BY <2>1, DbAtIs
  <2>7. checks = Drilled(command, db, m.id) /\ command \in Drills
    BY <2>0, <2>4, <2>5, Zenon
  <2>8. i \in DOMAIN db.rows /\ m = db.rows[i]
    <3> HIDE DEF db
    <3> QED
      BY <2>6
  <2>11. Shown(m) /\ Len(checks) > 1
    OBVIOUS
  <2> HIDE DEF db, command, m, checks
  <2>9. SameView(command, checks, m)
    BY <2>6, <2>7, <2>8, <2>11, ViewsOf
  <2> QED
    BY <2>9, Zenon DEF SameView, command
<1> QED
  BY <1>1, ReportInvariant, PTL

-----------------------------------------------------------------------------
(* Exit code 0 of doctor says that Loki, each health endpoint, the gRPC    *)
(* server and the locks were read where they were not skipped, and that    *)
(* every machine that has reported was seen lately and is not quarantined, *)
(* if there is a table of machines (layers/, runner.rs).                   *)
THEOREM HealthyRunsHaveRead == Spec => []HealthyMeansRead
<1>1. ReportInv => HealthyMeansRead
  <2> SUFFICES ASSUME ReportInv, phase = "done", Doctor, inv.command = "none", code = << 0 >>
               PROVE  HealthyMeansRead
    BY DEF HealthyMeansRead
  <2> DEFINE in    == LayerInputs(s, B)
             r     == report[1]
             since == DoctorSince(s.flags)
             cache == LogCache(s.w, in.client, in.namespace)
             Ok(name) == \E i \in DOMAIN r : r[i].name = name /\ r[i].status = "Ok"
             o(name)  == Outcome(name, s.w, in, since, cache)
  <2>1. SessionShaped(s) /\ NetShaped(s.w.net)
    BY InvocationsAssumption DEF ReportInv, SessionShaped, SourcesShaped, s
  <2>2. PICK late : report = << DoctorReport(s.w, in, since, late) >>
    BY DEF ReportInv, LayersOf
  <2>3. r = DoctorReport(s.w, in, since, late)
    BY <2>2
  <2>4. in.endpoints # << >> => IsList(in.endpoints[1])
    <3>1. in.endpoints = EndpointsAt(s, B).list
      BY DEF LayerInputs
    <3> QED
      BY <2>1, <3>1, EndpointsListed
  <2> HIDE DEF in, r, since
  <2>5. ASSUME NEW name, Ok(name)
        PROVE  /\ name \in Range(LayerNames) /\ name \notin in.skip
               /\ ~o(name).skipped /\ \A k \in DOMAIN o(name).checks : o(name).checks[k].status \notin Troubled
    BY <2>3, <2>5, ReportOk, Zenon
  <2> HIDE DEF Ok, o
  <2>6. ASSUME Ok("logs") PROVE LokiEntries(s.w, in) # << >>
    <3>1. o("logs") = LogsLayer(s.w, in, cache)
      BY <2>5, <2>6 DEF o, Outcome
    <3> QED
      BY <2>1, <2>5, <2>6, <3>1, LogsRead, Zenon
  <2>7. ASSUME Ok("health") PROVE \A i \in DOMAIN in.endpoints[1] : s.w.http[in.endpoints[1][i]].healthz
    <3>1. o("health") = EndpointsLayer(s.w, in)
      BY <2>5, <2>7 DEF o, Outcome
    <3> QED
      BY <2>4, <2>5, <2>7, <3>1, HealthRead, Zenon
  <2>8. ASSUME Ok("grpc") PROVE in.grpc[1] \in s.w.grpc
    <3>1. o("grpc") = GrpcLayer(s.w, in)
      BY <2>5, <2>8 DEF o, Outcome
    <3> QED
      BY <2>5, <2>8, <3>1, GrpcRead, Zenon
  <2>9. ASSUME Ok("postgres") PROVE DbAt(s.w, in.postgres).up /\ s.w.locks # << >>
    <3>1. o("postgres") = PostgresLayer(s.w, in)
      BY <2>5, <2>9 DEF o, Outcome
    <3> QED
      BY <2>5, <2>9, <3>1, PostgresRead, Zenon
  <2>10. ASSUME Ok("dpu")
         PROVE  /\ DbAt(s.w, in.postgres).up
                /\ s.w.db.table => \A i \in DOMAIN s.w.db.rows : s.w.db.rows[i].observed => SeenWell(s.w.db.rows[i])
    <3>1. o("dpu") = DpuFleetLayer(s.w, in)
      BY <2>5, <2>10 DEF o, Outcome
    <3>2. DbShaped(s.w.db)
      BY <2>1 DEF SessionShaped
    <3> QED
      BY <2>5, <2>10, <3>1, <3>2, DpuRead, Zenon
  <2> QED
    BY <2>6, <2>7, <2>8, <2>9, <2>10, Zenon DEF HealthyMeansRead, Ok, in, r, SeenWell
<1> QED
  BY <1>1, ReportInvariant, PTL
=============================================================================
