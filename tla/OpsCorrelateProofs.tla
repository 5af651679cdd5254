------------------------- MODULE OpsCorrelateProofs -------------------------
(***************************************************************************)
(* Theorems about the correlate popup for any entities, Sources, log       *)
(* lines, number of runs and channel capacities.                           *)
(***************************************************************************)
EXTENDS OpsCorrelate, SequenceTheorems, TLAPS

USE CorrelateAssumption

-----------------------------------------------------------------------------
(* An update built from a run, a kind and Source names is an Updates. *)
LEMMA UpdateType ==
  ASSUME NEW r \in Runs, NEW names \in SUBSET Names,
         NEW kind \in {"Loading", "Landed", "Failed", "Diagnosis", "Done"}
  PROVE  Update(r, kind, names) \in Updates
BY DEF Update, Updates

(* The config failure sequence is a sequence of updates. *)
LEMMA ConfigFailureType == \A r \in Runs : ConfigFailure(r) \in Seq(Updates)
<1> SUFFICES ASSUME NEW r \in Runs PROVE ConfigFailure(r) \in Seq(Updates)
  OBVIOUS
<1>1. {} \in SUBSET Names /\ {Config} \in SUBSET Names
  BY DEF Names
<1>2. /\ Update(r, "Loading", {}) \in Updates
      /\ Update(r, "Failed", {Config}) \in Updates
      /\ Update(r, "Diagnosis", {}) \in Updates
      /\ Update(r, "Done", {}) \in Updates
  BY <1>1, UpdateType
<1> QED
  BY <1>2 DEF ConfigFailure

(* A fresh popup has the type of CorrelateState. *)
LEMMA EmptyPopupType == \A e \in Entities : EmptyPopup(e) \in Popups
BY DEF EmptyPopup, Popups, Status

(* Applying an update keeps the popup's type and its entity. *)
LEMMA ApplyType ==
  ASSUME NEW p \in Popups, NEW u \in Updates
  PROVE  Apply(p, u) \in Popups /\ Apply(p, u).entity = p.entity
<1>1. CASE u.kind = "Loading"
  BY <1>1 DEF Apply, Loaded, Popups, Updates, Status
<1>2. CASE u.kind = "Landed"
  <2>1. Apply(p, u) = Landed(p, u)
    BY <1>2 DEF Apply
  <2>2. Mark(p, u.names, "landed") \in [Names -> Status]
    BY DEF Mark, Status, Popups, Updates
  <2>3. p.events \cup ({u.run} \X u.names) \in SUBSET (Runs \X Names)
    BY DEF Popups, Updates
  <2> QED
    BY <2>1, <2>2, <2>3 DEF Landed, Popups
<1>3. CASE u.kind = "Failed"
  <2>1. Apply(p, u) = Failed(p, u)
    BY <1>3 DEF Apply
  <2>2. Mark(p, u.names, "failed") \in [Names -> Status]
    BY DEF Mark, Status, Popups, Updates
  <2>3. p.errors \cup ({u.run} \X u.names) \in SUBSET (Runs \X Names)
    BY DEF Popups, Updates
  <2> QED
    BY <2>1, <2>2, <2>3 DEF Failed, Popups
<1>4. CASE u.kind = "Diagnosis"
  BY <1>4 DEF Apply, Popups, Updates
<1>5. CASE u.kind = "Done"
  BY <1>5 DEF Apply, Popups, Updates
<1> QED
  BY <1>1, <1>2, <1>3, <1>4, <1>5 DEF Updates

(* Opening a popup keeps the types of everything but the chooser. *)
LEMMA OpenType ==
  ASSUME TypeOK, NEW e \in Entities, OpenCorrelatePopup(e), chooser' \in Choosers \cup {NoChooser}
  PROVE  TypeOK'
<1>1. runs + 1 \in Runs /\ runs' \in 0 .. MaxRuns
  BY DEF TypeOK, OpenCorrelatePopup, Runs
<1>2. popup' \in Popups \cup {NoPopup}
  BY EmptyPopupType DEF OpenCorrelatePopup
<1>3. cancelled' \in [Runs -> BOOLEAN]
  BY DEF OpenCorrelatePopup, Abort, TypeOK
<1> QED
  BY <1>1, <1>2, <1>3 DEF OpenCorrelatePopup, TypeOK, PumpStates, Overlays, PopupOverlays

(* The driver's stream keeps its type and its capacity. *)
LEMMA EmitType ==
  ASSUME TypeOK, NEW r \in Runs, NEW names \in SUBSET Names,
         NEW kind \in {"Loading", "Landed", "Failed", "Diagnosis", "Done"}, Emit(r, kind, names)
  PROVE  /\ stream' \in [Runs -> Seq(Updates)]
         /\ \A q \in Runs : Len(stream'[q]) <= StreamCap
<1>1. stream[r] \in Seq(Updates) /\ Len(stream[r]) < StreamCap
  BY DEF TypeOK, Emit
<1>2. /\ Append(stream[r], Update(r, kind, names)) \in Seq(Updates)
      /\ Len(Append(stream[r], Update(r, kind, names))) = Len(stream[r]) + 1
  BY <1>1, UpdateType, AppendProperties
<1> QED
  BY <1>1, <1>2 DEF TypeOK, Emit

-----------------------------------------------------------------------------
(* Types are kept, given that the chooser's focus is an entry of its list. *)
LEMMA TypeStep == TypeOK /\ OverlayOwnsState /\ [Next]_vars => TypeOK'
<1> SUFFICES ASSUME TypeOK, OverlayOwnsState, [Next]_vars PROVE TypeOK'
  OBVIOUS
<1> USE DEF uiVars, taskVars
<1>1. CASE Operator
  <2>1. ASSUME NEW o \in Panels \cup {"Logs"}, OpenPanel(o) PROVE TypeOK'
    BY <2>1 DEF OpenPanel, TypeOK, Overlays
  <2>2. ASSUME NEW e \in Entities, CorrelateRow(e) PROVE TypeOK'
    BY <2>2, OpenType DEF CorrelateRow, TypeOK
  <2>3. CASE CorrelateLogLine
    <3>1. PICK line \in LogLines : Len(line) = 1 /\ OpenCorrelatePopup(line[1])
      BY <2>3 DEF CorrelateLogLine
    <3>2. line[1] \in Entities
      BY <3>1
    <3> QED
      BY <2>3, <3>1, <3>2, OpenType DEF CorrelateLogLine, TypeOK
  <2>4. CASE OpenChooser
    BY <2>4 DEF OpenChooser, TypeOK, Overlays, Choosers
  <2>5. CASE ChooserNavigate
    <3>1. chooser \in Choosers
      BY <2>5 DEF ChooserNavigate, OverlayOwnsState, TypeOK
    <3>2. PICK next \in 1 .. Len(chooser.entities) : chooser' = [chooser EXCEPT !.focus = next]
      BY <2>5 DEF ChooserNavigate
    <3>3. chooser' \in Choosers
      BY <3>1, <3>2 DEF Choosers
    <3> QED
      BY <2>5, <3>3 DEF ChooserNavigate, TypeOK
  <2>6. CASE ChooserConfirm
    <3>1. chooser \in Choosers /\ chooser.focus \in 1 .. Len(chooser.entities)
      BY <2>6 DEF ChooserConfirm, OverlayOwnsState, TypeOK
    <3>2. chooser.entities[chooser.focus] \in Entities
      BY <3>1 DEF Choosers
    <3> QED
      BY <2>6, <3>2, OpenType DEF ChooserConfirm
  <2>7. CASE ToggleCorrelateFullscreen
    BY <2>7 DEF ToggleCorrelateFullscreen, TypeOK, Overlays, PopupOverlays
  <2>8. CASE CloseOverlay
    BY <2>8 DEF CloseOverlay, Abort, TypeOK, Overlays
  <2>9. CASE Quit
    BY <2>9 DEF Quit, Abort, TypeOK
  <2> QED
    BY <1>1, <2>1, <2>2, <2>3, <2>4, <2>5, <2>6, <2>7, <2>8, <2>9 DEF Operator
<1>2. CASE HandleUpdate
  <2>1. Head(chan) \in Updates /\ chan' \in Seq(Updates) /\ Len(chan') <= ChanCap
    BY <1>2, HeadTailProperties DEF HandleUpdate, TypeOK
  <2>2. popup' \in Popups \cup {NoPopup}
    BY <1>2, <2>1, ApplyType DEF HandleUpdate, Accepts, TypeOK
  <2> QED
    BY <1>2, <2>1, <2>2 DEF HandleUpdate, TypeOK
<1>3. ASSUME NEW r \in Runs, Task(r) PROVE TypeOK'
  <2>1. CASE ResolveFails(r)
    BY <2>1, ConfigFailureType DEF ResolveFails, TypeOK, PumpStates
  <2>2. CASE StartProbe(r) \/ FinishProbe(r) \/ PumpEnds(r)
    BY <2>2 DEF StartProbe, FinishProbe, PumpEnds, TypeOK, PumpStates
  <2>3. CASE StartStream(r)
    BY <2>3 DEF StartStream, TypeOK, PumpStates, DriverStates
  <2>4. CASE PumpTake(r)
    <3>1. /\ Head(stream[r]) \in Updates /\ Tail(stream[r]) \in Seq(Updates)
          /\ Len(Tail(stream[r])) <= StreamCap
      BY <2>4, HeadTailProperties DEF PumpTake, TypeOK
    <3> QED
      BY <2>4, <3>1 DEF PumpTake, TypeOK
  <2>5. CASE PumpSend(r)
    <3>1. Head(outbox[r]) \in Updates /\ Tail(outbox[r]) \in Seq(Updates)
      BY <2>5, HeadTailProperties DEF PumpSend, TypeOK
    <3>2. chan' \in Seq(Updates) /\ Len(chan') <= ChanCap
      BY <2>5, <3>1, AppendProperties DEF PumpSend, TypeOK
    <3> QED
      BY <2>5, <3>1, <3>2 DEF PumpSend, TypeOK, PumpStates
  <2>6. CASE PumpDies(r)
    BY <2>6 DEF PumpDies, TypeOK, PumpStates
  <2>7. CASE DriverLoading(r)
    <3>1. Sources \in SUBSET Names
      BY DEF Names
    <3> QED
      BY <2>7, <3>1, EmitType DEF DriverLoading, Emit, TypeOK, DriverStates
  <2>8. CASE DriverDiagnoses(r)
    BY <2>8, EmitType DEF DriverDiagnoses, Emit, TypeOK, DriverStates
  <2>9. CASE DriverDone(r)
    BY <2>9, EmitType DEF DriverDone, Emit, TypeOK, DriverStates
  <2>10. ASSUME NEW s \in Sources, NEW kind \in {"Landed", "Failed"}, DriverCollected(r, s, kind)
         PROVE  TypeOK'
    <3>1. {s} \in SUBSET Names
      BY DEF Names
    <3> QED
      BY <2>10, <3>1, EmitType DEF DriverCollected, Emit, TypeOK
  <2>11. CASE DriverDies(r)
    BY <2>11 DEF DriverDies, TypeOK, DriverStates
  <2> QED
    BY <1>3, <2>1, <2>2, <2>3, <2>4, <2>5, <2>6, <2>7, <2>8, <2>9, <2>10, <2>11
       DEF Task, PumpProgress, DriverStep
<1>4. CASE UNCHANGED vars
  BY <1>4 DEF vars, TypeOK
<1> QED
  BY <1>1, <1>2, <1>3, <1>4 DEF Next

(* Opening a popup keeps overlay, popup and run together, when the chooser *)
(* is gone.                                                                *)
LEMMA OpenOwnsState ==
  ASSUME TypeOK, NEW e \in Entities, OpenCorrelatePopup(e), chooser' = NoChooser
  PROVE  OverlayOwnsState'
<1>1. runs + 1 \in Runs /\ runs + 1 # NoRun
  BY DEF TypeOK, OpenCorrelatePopup, Runs
<1>2. popup' = EmptyPopup(e) /\ popup' # NoPopup /\ popup'.entity = e
  BY EmptyPopupType DEF OpenCorrelatePopup, EmptyPopup
<1>3. entityOf'[runner'] = e
  BY <1>1 DEF OpenCorrelatePopup, TypeOK
<1> QED
  BY <1>1, <1>2, <1>3 DEF OpenCorrelatePopup, OverlayOwnsState, PopupOverlays

(* The overlay marker, the popup, the chooser and the runner stay together. *)
LEMMA OverlayStep == TypeOK /\ OverlayOwnsState /\ [Next]_vars => OverlayOwnsState'
<1> SUFFICES ASSUME TypeOK, OverlayOwnsState, [Next]_vars PROVE OverlayOwnsState'
  OBVIOUS
<1> USE DEF uiVars, taskVars
<1>1. CASE Operator
  <2>1. ASSUME NEW o \in Panels \cup {"Logs"}, OpenPanel(o) PROVE OverlayOwnsState'
    BY <2>1 DEF OpenPanel, OverlayOwnsState, PopupOverlays
  <2>2. ASSUME NEW e \in Entities, CorrelateRow(e) PROVE OverlayOwnsState'
    BY <2>2, OpenOwnsState DEF CorrelateRow, OverlayOwnsState
  <2>3. CASE CorrelateLogLine
    <3>1. PICK line \in LogLines : Len(line) = 1 /\ OpenCorrelatePopup(line[1])
      BY <2>3 DEF CorrelateLogLine
    <3>2. line[1] \in Entities
      BY <3>1
    <3> QED
      BY <2>3, <3>1, <3>2, OpenOwnsState DEF CorrelateLogLine, OverlayOwnsState
  <2>4. CASE OpenChooser
    <3>1. PICK line \in LogLines :
            Len(line) > 1 /\ chooser' = [entities |-> line, focus |-> 1]
      BY <2>4 DEF OpenChooser
    <3>2. chooser' \in Choosers /\ chooser' # NoChooser
      BY <3>1 DEF Choosers
    <3>3. chooser'.focus \in 1 .. Len(chooser'.entities)
      BY <3>1
    <3> QED
      BY <2>4, <3>2, <3>3 DEF OpenChooser, OverlayOwnsState, PopupOverlays
  <2>5. CASE ChooserNavigate
    <3>1. chooser \in Choosers
      BY <2>5 DEF ChooserNavigate, OverlayOwnsState, TypeOK
    <3>2. PICK next \in 1 .. Len(chooser.entities) : chooser' = [chooser EXCEPT !.focus = next]
      BY <2>5 DEF ChooserNavigate
    <3>3. chooser' \in Choosers /\ chooser'.focus \in 1 .. Len(chooser'.entities)
      BY <3>1, <3>2 DEF Choosers
    <3> QED
      BY <2>5, <3>3 DEF ChooserNavigate, OverlayOwnsState, PopupOverlays
  <2>6. CASE ChooserConfirm
    <3>1. chooser \in Choosers /\ chooser.focus \in 1 .. Len(chooser.entities)
      BY <2>6 DEF ChooserConfirm, OverlayOwnsState, TypeOK
    <3>2. chooser.entities[chooser.focus] \in Entities
      BY <3>1 DEF Choosers
    <3> QED
      BY <2>6, <3>2, OpenOwnsState DEF ChooserConfirm
  <2>7. CASE ToggleCorrelateFullscreen
    BY <2>7 DEF ToggleCorrelateFullscreen, OverlayOwnsState, PopupOverlays
  <2>8. CASE CloseOverlay
    BY <2>8 DEF CloseOverlay, OverlayOwnsState, PopupOverlays
  <2>9. CASE Quit
    BY <2>9 DEF Quit, OverlayOwnsState
  <2> QED
    BY <1>1, <2>1, <2>2, <2>3, <2>4, <2>5, <2>6, <2>7, <2>8, <2>9 DEF Operator
<1>2. CASE HandleUpdate
  <2>1. Head(chan) \in Updates
    BY <1>2, HeadTailProperties DEF HandleUpdate, TypeOK
  <2>2. popup # NoPopup => popup' # NoPopup /\ popup'.entity = popup.entity
    BY <1>2, <2>1, ApplyType DEF HandleUpdate, TypeOK
  <2>3. popup = NoPopup => popup' = NoPopup
    BY <1>2 DEF HandleUpdate, Accepts
  <2> QED
    BY <1>2, <2>2, <2>3 DEF HandleUpdate, OverlayOwnsState
<1>3. ASSUME NEW r \in Runs, Task(r) PROVE OverlayOwnsState'
  <2>1. UNCHANGED <<running, uiVars>>
    BY <1>3 DEF Task, PumpProgress, DriverStep, ResolveFails, StartProbe, FinishProbe, StartStream,
                PumpTake, PumpSend, PumpEnds, PumpDies, DriverLoading, DriverCollected,
                DriverDiagnoses, DriverDone, DriverDies, Emit
  <2> QED
    BY <2>1 DEF OverlayOwnsState
<1>4. CASE UNCHANGED vars
  BY <1>4 DEF vars, OverlayOwnsState
<1> QED
  BY <1>1, <1>2, <1>3, <1>4 DEF Next

(* Types and overlay are one inductive invariant: confirming the chooser   *)
(* opens a popup for an entity only because its focus is in range.         *)
LEMMA CoreHolds == Spec => [](TypeOK /\ OverlayOwnsState)
<1>1. Init => TypeOK /\ OverlayOwnsState
  <2> SUFFICES ASSUME Init PROVE TypeOK /\ OverlayOwnsState
    OBVIOUS
  <2>1. chan \in Seq(Updates) /\ Len(chan) <= ChanCap
    BY DEF Init
  <2>2. /\ outbox \in [Runs -> Seq(Updates)] /\ stream \in [Runs -> Seq(Updates)]
        /\ \A r \in Runs : Len(stream[r]) <= StreamCap
    BY DEF Init
  <2> QED
    BY <2>1, <2>2 DEF Init, TypeOK, OverlayOwnsState, Overlays, PopupOverlays, PumpStates,
                      DriverStates
<1> QED
  BY <1>1, TypeStep, OverlayStep, PTL DEF Spec

(* The state keeps the types of App's popup fields, of the tasks' locals   *)
(* and of the two bounded channels.                                        *)
THEOREM TypeCorrect == Spec => []TypeOK
BY CoreHolds, PTL

(* A popup is on screen exactly when App holds its state and the runner a  *)
(* run of the same entity; a chooser exactly when it has a focused entry.  *)
THEOREM OverlayKeepsItsState == Spec => []OverlayOwnsState
BY CoreHolds, PTL

-----------------------------------------------------------------------------
(* Every pump still alive is the runner's or has been aborted: neither     *)
(* opening a popup over another nor closing one loses a task.              *)
THEOREM EveryRunIsOwned == Spec => []NoOrphanRun
<1>1. Init => NoOrphanRun
  BY DEF Init, NoOrphanRun, PumpAlive
<1>2. TypeOK /\ OverlayOwnsState /\ NoOrphanRun /\ [Next]_vars => NoOrphanRun'
  <2> SUFFICES ASSUME TypeOK, OverlayOwnsState, NoOrphanRun, [Next]_vars PROVE NoOrphanRun'
    OBVIOUS
  <2> USE DEF uiVars, taskVars
  <2>1. ASSUME NEW e, OpenCorrelatePopup(e) PROVE NoOrphanRun'
    BY <2>1 DEF OpenCorrelatePopup, Abort, NoOrphanRun, PumpAlive, TypeOK, Runs
  <2>2. CASE CloseOverlay \/ Quit
    BY <2>2 DEF CloseOverlay, Quit, Abort, NoOrphanRun, PumpAlive
  <2>3. CASE Operator
    BY <2>1, <2>2, <2>3 DEF Operator, OpenPanel, CorrelateRow, CorrelateLogLine, OpenChooser,
       ChooserNavigate, ChooserConfirm, ToggleCorrelateFullscreen, NoOrphanRun, PumpAlive
  <2>4. CASE HandleUpdate \/ UNCHANGED vars
    BY <2>4 DEF HandleUpdate, vars, NoOrphanRun, PumpAlive
  <2>5. ASSUME NEW r \in Runs, Task(r) PROVE NoOrphanRun'
    <3>1. UNCHANGED <<runner, cancelled>>
      BY <2>5 DEF Task, PumpProgress, DriverStep, ResolveFails, StartProbe, FinishProbe,
                  StartStream, PumpTake, PumpSend, PumpEnds, PumpDies, DriverLoading,
                  DriverCollected, DriverDiagnoses, DriverDone, DriverDies, Emit
    <3>2. \A q \in Runs : (PumpAlive(q))' => PumpAlive(q)
      BY <2>5 DEF Task, PumpProgress, DriverStep, ResolveFails, StartProbe, FinishProbe,
                  StartStream, PumpTake, PumpSend, PumpEnds, PumpDies, DriverLoading,
                  DriverCollected, DriverDiagnoses, DriverDone, DriverDies, Emit,
                  PumpAlive, TypeOK
    <3> QED
      BY <3>1, <3>2 DEF NoOrphanRun
  <2> QED
    BY <2>3, <2>4, <2>5 DEF Next
<1> QED
  BY <1>1, <1>2, CoreHolds, PTL DEF Spec

(* Applying an update of the popup's own entity brings in no other. *)
LEMMA ApplyOwnEntity ==
  ASSUME TypeOK, popup # NoPopup, PopupOnlyItsEntity, NEW u \in Updates,
         popup.entity = entityOf[u.run]
  PROVE  LET p == Apply(popup, u)
         IN  /\ \A q \in p.events \cup p.errors : entityOf[q[1]] = p.entity
             /\ p.diagOf # NoRun => entityOf[p.diagOf] = p.entity
<1> DEFINE p == Apply(popup, u)
<1>1. popup \in Popups
  BY DEF TypeOK
<1>2. /\ \A q \in popup.events \cup popup.errors : entityOf[q[1]] = popup.entity
      /\ popup.diagOf # NoRun => entityOf[popup.diagOf] = popup.entity
  BY DEF PopupOnlyItsEntity
<1>3. p.entity = popup.entity
  BY <1>1, ApplyType
<1>4. /\ p.events \subseteq popup.events \cup ({u.run} \X u.names)
      /\ p.errors \subseteq popup.errors \cup ({u.run} \X u.names)
      /\ p.diagOf \in {popup.diagOf, u.run}
  <2>1. CASE u.kind = "Loading"
    BY <1>1, <2>1 DEF Apply, Loaded, Popups
  <2>2. CASE u.kind = "Landed"
    BY <1>1, <2>2 DEF Apply, Landed, Popups
  <2>3. CASE u.kind = "Failed"
    BY <1>1, <2>3 DEF Apply, Failed, Popups
  <2>4. CASE u.kind = "Diagnosis"
    BY <1>1, <2>4 DEF Apply, Popups
  <2>5. CASE u.kind = "Done"
    BY <1>1, <2>5 DEF Apply, Popups
  <2> QED
    BY <2>1, <2>2, <2>3, <2>4, <2>5 DEF Updates
<1>5. \A q \in {u.run} \X u.names : q[1] = u.run
  OBVIOUS
<1> QED
  BY <1>2, <1>3, <1>4, <1>5

(* Whatever stale updates are in the channel, no row, error or diagnosis   *)
(* of another entity reaches the popup.                                    *)
THEOREM PopupKeepsToItsEntity == Spec => []PopupOnlyItsEntity
<1>1. Init => PopupOnlyItsEntity
  BY DEF Init, PopupOnlyItsEntity
<1>2. TypeOK /\ OverlayOwnsState /\ PopupOnlyItsEntity /\ [Next]_vars => PopupOnlyItsEntity'
  <2> SUFFICES ASSUME TypeOK, OverlayOwnsState, PopupOnlyItsEntity, [Next]_vars
               PROVE  PopupOnlyItsEntity'
    OBVIOUS
  <2> USE DEF uiVars, taskVars
  <2>1. ASSUME NEW e, OpenCorrelatePopup(e) PROVE PopupOnlyItsEntity'
    BY <2>1 DEF OpenCorrelatePopup, EmptyPopup, PopupOnlyItsEntity
  <2>2. CASE CloseOverlay
    BY <2>2 DEF CloseOverlay, PopupOnlyItsEntity
  <2>3. CASE Operator
    BY <2>1, <2>2, <2>3 DEF Operator, OpenPanel, CorrelateRow, CorrelateLogLine, OpenChooser,
       ChooserNavigate, ChooserConfirm, ToggleCorrelateFullscreen, Quit, PopupOnlyItsEntity
  <2>4. CASE HandleUpdate
    <3>1. Head(chan) \in Updates
      BY <2>4, HeadTailProperties DEF HandleUpdate, TypeOK
    <3>2. CASE Accepts(Head(chan))
      <4>1. popup' = Apply(popup, Head(chan)) /\ entityOf' = entityOf
        BY <2>4, <3>2 DEF HandleUpdate
      <4> QED
        BY <3>1, <3>2, <4>1, ApplyOwnEntity DEF Accepts, PopupOnlyItsEntity
    <3>3. CASE ~Accepts(Head(chan))
      BY <2>4, <3>3 DEF HandleUpdate, PopupOnlyItsEntity
    <3> QED
      BY <3>2, <3>3
  <2>5. ASSUME NEW r \in Runs, Task(r) PROVE PopupOnlyItsEntity'
    <3>1. UNCHANGED uiVars
      BY <2>5 DEF Task, PumpProgress, DriverStep, ResolveFails, StartProbe, FinishProbe,
                  StartStream, PumpTake, PumpSend, PumpEnds, PumpDies, DriverLoading,
                  DriverCollected, DriverDiagnoses, DriverDone, DriverDies, Emit
    <3> QED
      BY <3>1 DEF PopupOnlyItsEntity
  <2>6. CASE UNCHANGED vars
    BY <2>6 DEF vars, PopupOnlyItsEntity
  <2> QED
    BY <2>3, <2>4, <2>5, <2>6 DEF Next
<1> QED
  BY <1>1, <1>2, CoreHolds, PTL DEF Spec
-----------------------------------------------------------------------------
(***************************************************************************)
(* The popup's promises about its own run: a popup that says it is done is *)
(* complete, and a dot that has settled stays settled.  What the driver    *)
(* has said and the popup has not shown is a single pipe, through the      *)
(* stream, the pump and the action channel; the invariant relates what is  *)
(* in the pipe to what the popup shows and to where the driver is.         *)
(***************************************************************************)

HIDE CorrelateAssumption

(* What a run has sent and the popup has not seen, oldest first. *)
Pipe(r) == (chan \o outbox[r]) \o stream[r]

(* The updates of run r in P. *)
Items(P, r) == {P[i] : i \in {j \in 1 .. Len(P) : P[j].run = r}}

Answers == {"Landed", "Failed"}
Final   == {"landed", "failed"}

(* Update v may come after u in the same run: loading comes first, done    *)
(* last, and each Source answers once.                                     *)
Follows(u, v) ==
  /\ v.kind # "Loading" /\ u.kind # "Done"
  /\ u.kind \in Answers /\ v.kind \in Answers => u.names \cap v.names = {}

(* The updates of run r are in an order the driver can emit them in. *)
InOrder(P, r) ==
  \A i, j \in 1 .. Len(P) : i < j /\ P[i].run = r /\ P[j].run = r => Follows(P[i], P[j])

Own(r) == Items(Pipe(r), r)
Ordered(r) == InOrder(Pipe(r), r)

Early == {"unborn", "resolving", "probing", "connecting"}

(* A run no popup has spawned is untouched, the runner's run is not        *)
(* aborted, and a task only holds updates of its own run.                  *)
BornInv ==
  /\ \A r \in Runs : r > runs => pump[r] = "unborn" /\ ~cancelled[r]
  /\ runner # NoRun => runner <= runs /\ ~cancelled[runner]
  /\ \A r \in Runs : pump[r] = "dead" => cancelled[r]
  /\ \A r \in Runs : pump[r] \in Early => outbox[r] = << >> /\ stream[r] = << >>
  /\ \A r \in Runs : \A i \in 1 .. Len(outbox[r]) : outbox[r][i].run = r
  /\ \A r \in Runs : \A i \in 1 .. Len(stream[r]) : stream[r][i].run = r

(* What run r may still have in its pipe, by where its tasks are. *)
Shape(r, I) ==
  /\ driver[r] # "dead"
  /\ pump[r] \in Early \cup {"failing"} => driver[r] = "none"
  /\ pump[r] = "pumping" => driver[r] # "none"
  /\ pump[r] \in Early \/ driver[r] = "loading" => I = {}
  /\ driver[r] = "loading" => todo[r] = Sources
  /\ driver[r] \in {"none", "diagnosed", "ended"} => todo[r] = {}
  /\ \A v \in I : /\ driver[r] \in {"collecting", "diagnosed"} => v.kind # "Done"
                  /\ v.kind \in Answers => v.names \cap todo[r] = {}

ShapeInv == \A r \in Runs : pump[r] # "dead" => Shape(r, Own(r)) /\ Ordered(r)

(* The run's configuration could not be resolved: it has no driver. *)
Failing(pu, dr) == dr = "none" /\ pu \in {"failing", "ended"}

(* Popup p shows all that run r has said but I: nothing it has shown is    *)
(* still on its way, and what it lacks is in I or is yet to be said.  pu,  *)
(* dr and td are the pump, the driver and the todo of the run.             *)
Fed(p, r, I, pu, dr, td) ==
  /\ p.done => I = {} /\ (dr = "ended" \/ Failing(pu, dr))
  /\ \A s \in Names : p.dots[s] \in Final =>
       /\ pu \notin Early /\ dr # "loading" /\ s \notin td
       /\ \A v \in I : v.kind # "Loading" /\ (v.kind \in Answers => s \notin v.names)
  /\ \A s \in Names : /\ p.dots[s] = "landed" => <<r, s>> \in p.events
                      /\ p.dots[s] = "failed" => <<r, s>> \in p.errors
  /\ dr \in {"collecting", "diagnosed", "ended"} =>
       \A s \in Sources : \/ s \in td \/ p.dots[s] \in Final
                          \/ \E v \in I : v.kind \in Answers /\ v.names = {s}
  /\ dr \in {"diagnosed", "ended"} \/ Failing(pu, dr) =>
       p.diagOf = r \/ \E v \in I : v.kind = "Diagnosis"
  /\ Failing(pu, dr) => p.dots[Config] = "failed" \/ \E v \in I : v.kind = "Failed" /\ v.names = {Config}

(* The first popup of an entity is fed by its own run only. *)
FedInv == running /\ FirstForEntity =>
            Fed(popup, runner, Own(runner), pump[runner], driver[runner], todo[runner])

-----------------------------------------------------------------------------
(* Appending an update of a run adds it to the run's, at the end. *)
LEMMA AppendItems ==
  ASSUME NEW P \in Seq(Updates), NEW u \in Updates, NEW r, u.run = r
  PROVE  /\ Items(Append(P, u), r) = Items(P, r) \cup {u}
         /\ InOrder(P, r) /\ (\A v \in Items(P, r) : Follows(v, u)) => InOrder(Append(P, u), r)
<1> DEFINE Q == Append(P, u)
<1>1. /\ Len(Q) = Len(P) + 1 /\ Len(P) \in Nat
      /\ Q[Len(Q)] = u /\ \A i \in 1 .. Len(P) : Q[i] = P[i]
  BY AppendProperties
<1>2. 1 .. Len(Q) = 1 .. Len(P) \cup {Len(Q)}
  BY <1>1
<1> HIDE DEF Q
<1>3. Items(Q, r) = Items(P, r) \cup {u}
  BY <1>1, <1>2 DEF Items
<1>4. ASSUME InOrder(P, r), \A v \in Items(P, r) : Follows(v, u) PROVE InOrder(Q, r)
  <2> SUFFICES ASSUME NEW i \in 1 .. Len(Q), NEW j \in 1 .. Len(Q), i < j, Q[i].run = r, Q[j].run = r
               PROVE  Follows(Q[i], Q[j])
    BY DEF InOrder
  <2>1. i \in 1 .. Len(P) /\ Q[i] = P[i]
    BY <1>1, <1>2
  <2>2. CASE j \in 1 .. Len(P)
    BY <1>1, <1>4, <2>1, <2>2 DEF InOrder
  <2>3. CASE j = Len(Q)
    BY <1>1, <1>4, <2>1, <2>3 DEF Items
  <2> QED
    BY <1>2, <2>2, <2>3
<1> QED
  BY <1>3, <1>4 DEF Q

(* Taking the oldest update leaves the rest, which follow it. *)
LEMMA TailItems ==
  ASSUME NEW P \in Seq(Updates), P # << >>, NEW r
  PROVE  /\ Items(Tail(P), r) \subseteq Items(P, r)
         /\ Items(P, r) = IF Head(P).run = r THEN Items(Tail(P), r) \cup {Head(P)} ELSE Items(Tail(P), r)
         /\ InOrder(P, r) =>
              /\ InOrder(Tail(P), r)
              /\ Head(P).run = r => \A v \in Items(Tail(P), r) : Follows(Head(P), v)
<1> DEFINE Q == Tail(P)
<1>1. /\ Q \in Seq(Updates) /\ Len(Q) = Len(P) - 1 /\ Len(P) \in Nat /\ Len(P) > 0 /\ Head(P) = P[1]
      /\ \A i \in 1 .. Len(Q) : Q[i] = P[i + 1]
  BY HeadTailProperties
<1> HIDE DEF Q
<1>2. /\ \A i \in 1 .. Len(Q) : i + 1 \in 1 .. Len(P) /\ i + 1 > 1
      /\ \A i \in 1 .. Len(P) : i = 1 \/ (i - 1 \in 1 .. Len(Q) /\ P[i] = Q[i - 1])
      /\ 1 \in 1 .. Len(P)
  BY <1>1
<1>3. Items(Q, r) \subseteq Items(P, r)
  BY <1>1, <1>2 DEF Items
<1>4. Items(P, r) = IF Head(P).run = r THEN Items(Q, r) \cup {Head(P)} ELSE Items(Q, r)
  <2>1. \A i \in 1 .. Len(P) : P[i].run = r => P[i] \in Items(Q, r) \/ P[i] = Head(P)
    BY <1>1, <1>2 DEF Items
  <2>2. Head(P).run = r => Head(P) \in Items(P, r)
    BY <1>1, <1>2 DEF Items
  <2>3. \A i \in 1 .. Len(P) : P[i].run = r => Head(P).run = r \/ P[i] \in Items(Q, r)
    BY <2>1
  <2> QED
    BY <1>3, <2>1, <2>2, <2>3 DEF Items
<1>5. InOrder(P, r) => InOrder(Q, r)
  BY <1>1, <1>2 DEF InOrder
<1>6. InOrder(P, r) /\ Head(P).run = r => \A v \in Items(Q, r) : Follows(Head(P), v)
  <2> SUFFICES ASSUME InOrder(P, r), Head(P).run = r, NEW i \in 1 .. Len(Q), Q[i].run = r
               PROVE  Follows(Head(P), Q[i])
    BY DEF Items
  <2> QED
    BY <1>1, <1>2 DEF InOrder
<1> QED
  BY <1>3, <1>4, <1>5, <1>6 DEF Q

(* Another run's update in the middle changes nothing for run r. *)
LEMMA InsertItems ==
  ASSUME NEW A \in Seq(Updates), NEW B \in Seq(Updates), NEW u \in Updates, NEW r, u.run # r
  PROVE  /\ Items(Append(A, u) \o B, r) = Items(A \o B, r)
         /\ InOrder(A \o B, r) => InOrder(Append(A, u) \o B, r)
<1> DEFINE P == A \o B
           Q == Append(A, u) \o B
           a == Len(A)
           at(i) == IF i <= a THEN i ELSE i - 1
           to(i) == IF i <= a THEN i ELSE i + 1
<1>1. a \in Nat /\ Len(B) \in Nat /\ Len(P) = a + Len(B) /\ Len(Q) = a + 1 + Len(B)
  BY ConcatProperties, AppendProperties
<1>2. /\ \A i \in 1 .. Len(P) : P[i] = IF i <= a THEN A[i] ELSE B[i - a]
      /\ \A i \in 1 .. Len(Q) : Q[i] = IF i <= a THEN A[i] ELSE IF i = a + 1 THEN u ELSE B[i - (a + 1)]
  BY <1>1, ConcatProperties, AppendProperties
<1> HIDE DEF P, Q, a
<1>3. \A i \in 1 .. Len(Q) : i # a + 1 => at(i) \in 1 .. Len(P) /\ P[at(i)] = Q[i]
  BY <1>1, <1>2
<1>4. \A i \in 1 .. Len(P) : to(i) \in 1 .. Len(Q) /\ Q[to(i)] = P[i]
  BY <1>1, <1>2
<1>5. \A i \in 1 .. Len(Q) : Q[i].run = r => i # a + 1
  BY <1>1, <1>2
<1>6. Items(Q, r) = Items(P, r)
  <2>1. ASSUME NEW i \in 1 .. Len(Q), Q[i].run = r PROVE Q[i] \in Items(P, r)
    <3> DEFINE k == at(i)
    <3>1. k \in 1 .. Len(P) /\ P[k] = Q[i]
      BY <1>3, <1>5, <2>1
    <3> HIDE DEF k
    <3> QED
      BY <2>1, <3>1 DEF Items
  <2>2. ASSUME NEW i \in 1 .. Len(P), P[i].run = r PROVE P[i] \in Items(Q, r)
    <3> DEFINE k == to(i)
    <3>1. k \in 1 .. Len(Q) /\ Q[k] = P[i]
      BY <1>4
    <3> HIDE DEF k
    <3> QED
      BY <2>2, <3>1 DEF Items
  <2> QED
    BY <2>1, <2>2 DEF Items
<1>7. InOrder(P, r) => InOrder(Q, r)
  <2> SUFFICES ASSUME InOrder(P, r), NEW i \in 1 .. Len(Q), NEW j \in 1 .. Len(Q), i < j,
                      Q[i].run = r, Q[j].run = r
               PROVE  Follows(Q[i], Q[j])
    BY DEF InOrder
  <2>1. at(i) < at(j)
    BY <1>1, <1>5
  <2> QED
    BY <1>3, <1>5, <2>1 DEF InOrder
<1> QED
  BY <1>6, <1>7 DEF P, Q

(* The pipe's three parts: moving an update from one to the next changes   *)
(* nothing, taking from the channel takes the head, emitting appends.      *)
LEMMA Regroup ==
  ASSUME NEW c \in Seq(Updates), NEW o \in Seq(Updates), NEW s \in Seq(Updates)
  PROVE  /\ (c \o o) \o s \in Seq(Updates)
         /\ s # << >> => (c \o <<Head(s)>>) \o Tail(s) = (c \o << >>) \o s
         /\ o # << >> => (Append(c, Head(o)) \o Tail(o)) \o s = (c \o o) \o s
         /\ c # << >> => /\ (c \o o) \o s # << >>
                        /\ Head((c \o o) \o s) = Head(c)
                        /\ Tail((c \o o) \o s) = (Tail(c) \o o) \o s
         /\ \A u \in Updates : (c \o o) \o Append(s, u) = Append((c \o o) \o s, u)
<1>1. c \o o \in Seq(Updates) /\ (c \o o) \o s \in Seq(Updates)
  BY ConcatProperties
<1>2. \A q \in Seq(Updates) : q # << >> => /\ Head(q) \in Updates /\ Tail(q) \in Seq(Updates)
                                         /\ <<Head(q)>> \in Seq(Updates) /\ <<Head(q)>> \o Tail(q) = q
  <2> SUFFICES ASSUME NEW q \in Seq(Updates), q # << >>
               PROVE  /\ Head(q) \in Updates /\ Tail(q) \in Seq(Updates)
                      /\ <<Head(q)>> \in Seq(Updates) /\ <<Head(q)>> \o Tail(q) = q
    OBVIOUS
  <2>1. /\ Head(q) \in Updates /\ Tail(q) \in Seq(Updates) /\ Len(Tail(q)) = Len(q) - 1 /\ Len(q) \in Nat
        /\ \A i \in 1 .. Len(Tail(q)) : Tail(q)[i] = q[i + 1]
    BY HeadTailProperties
  <2>2. <<Head(q)>> \in Seq(Updates)
    BY <2>1
  <2> DEFINE p == <<Head(q)>> \o Tail(q)
  <2>3. p \in Seq(Updates) /\ Len(p) = 1 + Len(Tail(q))
    BY <2>1, <2>2, ConcatProperties
  <2>4. \A i \in 1 .. Len(p) : p[i] = IF i <= 1 THEN Head(q) ELSE Tail(q)[i - 1]
    BY <2>1, <2>2, <2>3, ConcatProperties
  <2> HIDE DEF p
  <2>5. \A i \in 1 .. Len(q) : p[i] = q[i]
    BY <2>1, <2>3, <2>4
  <2>6. p = q
    BY <2>1, <2>3, <2>5, SeqEqual
  <2> QED
    BY <2>1, <2>2, <2>6 DEF p
<1>3. ASSUME s # << >> PROVE (c \o <<Head(s)>>) \o Tail(s) = (c \o << >>) \o s
  BY <1>2, <1>3, ConcatAssociative, ConcatEmptySeq
<1>4. ASSUME o # << >> PROVE (Append(c, Head(o)) \o Tail(o)) \o s = (c \o o) \o s
  <2>1. Append(c, Head(o)) = c \o <<Head(o)>>
    BY <1>2, <1>4, AppendIsConcat
  <2> QED
    BY <1>2, <1>4, <2>1, ConcatAssociative
<1>5. ASSUME c # << >>
      PROVE  /\ (c \o o) \o s # << >>
             /\ Head((c \o o) \o s) = Head(c)
             /\ Tail((c \o o) \o s) = (Tail(c) \o o) \o s
  <2>1. /\ (Tail(c) \o o) \o s \in Seq(Updates) /\ Tail(c) \o o \in Seq(Updates)
        /\ (c \o o) \o s = <<Head(c)>> \o ((Tail(c) \o o) \o s)
    BY <1>2, <1>5, ConcatAssociative, ConcatProperties
  <2> DEFINE t == (Tail(c) \o o) \o s
             p == <<Head(c)>> \o t
  <2>2. p \in Seq(Updates) /\ Len(p) = 1 + Len(t) /\ p # << >> /\ Len(t) \in Nat
    BY <1>2, <1>5, <2>1, ConcatProperties
  <2>3. \A i \in 1 .. Len(p) : p[i] = IF i <= 1 THEN Head(c) ELSE t[i - 1]
    BY <1>2, <1>5, <2>1, <2>2, ConcatProperties
  <2>4. Head(p) = Head(c)
    <3> HIDE DEF p, t
    <3> QED
      BY <2>2, <2>3
  <2>5. Tail(p) = t
    <3> HIDE DEF p, t
    <3>1. /\ Tail(p) \in Seq(Updates) /\ Len(Tail(p)) = Len(t)
          /\ \A i \in 1 .. Len(Tail(p)) : Tail(p)[i] = p[i + 1]
      BY <2>2, HeadTailProperties
    <3>2. \A i \in 1 .. Len(t) : Tail(p)[i] = t[i]
      BY <2>2, <2>3, <3>1
    <3>3. t \in Seq(Updates)
      BY <2>1 DEF t
    <3> QED
      BY <3>1, <3>2, <3>3, SeqEqual
  <2> QED
    BY <2>1, <2>2, <2>4, <2>5
<1>6. ASSUME NEW u \in Updates PROVE (c \o o) \o Append(s, u) = Append((c \o o) \o s, u)
  <2>1. <<u>> \in Seq(Updates)
    OBVIOUS
  <2> QED
    BY <1>1, <2>1, AppendIsConcat, ConcatAssociative
<1> QED
  BY <1>1, <1>3, <1>4, <1>5, <1>6

(* The pipe after a step, as a value. *)
LEMMA Primed ==
  ASSUME NEW r, NEW P, P = Pipe(r)'
  PROVE  Own(r)' = Items(P, r) /\ Ordered(r)' = InOrder(P, r)
BY DEF Own, Ordered, Items, InOrder

(* The pipe and its parts are sequences of updates. *)
LEMMA PipeType ==
  ASSUME TypeOK, NEW r \in Runs
  PROVE  /\ Pipe(r) \in Seq(Updates) /\ chan \in Seq(Updates)
         /\ outbox[r] \in Seq(Updates) /\ stream[r] \in Seq(Updates)
BY Regroup DEF TypeOK, Pipe

(* A step that leaves the pipe alone leaves its contents and order alone. *)
LEMMA SamePipe ==
  ASSUME NEW r, UNCHANGED Pipe(r)
  PROVE  UNCHANGED Own(r) /\ (Ordered(r) => Ordered(r)')
<1>1. Own(r)' = Items(Pipe(r), r) /\ Ordered(r)' = InOrder(Pipe(r), r)
  BY Primed
<1> QED
  BY <1>1 DEF Own, Ordered

(* What the loop takes from the channel. *)
LEMMA Taken ==
  ASSUME TypeOK, HandleUpdate, NEW r \in Runs
  PROVE  LET u == Head(chan)
         IN  /\ u \in Updates
             /\ Own(r)' \subseteq Own(r)
             /\ Own(r) = IF u.run = r THEN Own(r)' \cup {u} ELSE Own(r)'
             /\ Ordered(r) => Ordered(r)' /\ (u.run = r => \A v \in Own(r)' : Follows(u, v))
<1>1. chan # << >> /\ chan' = Tail(chan) /\ UNCHANGED <<outbox, stream>>
  BY DEF HandleUpdate, taskVars
<1>2. /\ Pipe(r)' = Tail(Pipe(r)) /\ Head(Pipe(r)) = Head(chan)
      /\ Pipe(r) # << >> /\ Pipe(r) \in Seq(Updates)
  <2>1. outbox[r]' = outbox[r] /\ stream[r]' = stream[r]
    BY <1>1
  <2> DEFINE o == outbox[r]
             s == stream[r]
  <2>2. chan \in Seq(Updates) /\ o \in Seq(Updates) /\ s \in Seq(Updates)
    BY PipeType
  <2>3. Pipe(r) = (chan \o o) \o s /\ Pipe(r)' = (Tail(chan) \o o) \o s
    BY <1>1, <2>1 DEF Pipe
  <2> HIDE DEF o, s
  <2>4. /\ (chan \o o) \o s \in Seq(Updates) /\ (chan \o o) \o s # << >>
        /\ Head((chan \o o) \o s) = Head(chan) /\ Tail((chan \o o) \o s) = (Tail(chan) \o o) \o s
    BY <1>1, <2>2, Regroup
  <2> QED
    BY <2>3, <2>4
<1>3. Own(r)' = Items(Tail(Pipe(r)), r) /\ Ordered(r)' = InOrder(Tail(Pipe(r)), r)
  BY <1>2, Primed
<1>4. Head(chan) \in Updates
  BY <1>1, HeadTailProperties DEF TypeOK
<1> QED
  BY <1>2, <1>3, <1>4, TailItems DEF Own, Ordered

(* What the driver appends to its stream. *)
LEMMA Emitted ==
  ASSUME TypeOK, NEW r \in Runs, NEW names \in SUBSET Names,
         NEW kind \in {"Loading", "Landed", "Failed", "Diagnosis", "Done"},
         Emit(r, kind, names), UNCHANGED <<chan, outbox>>
  PROVE  LET u == Update(r, kind, names)
         IN  /\ Own(r)' = Own(r) \cup {u}
             /\ Ordered(r) /\ (\A v \in Own(r) : Follows(v, u)) => Ordered(r)'
<1> DEFINE u == Update(r, kind, names)
<1>1. u \in Updates /\ u.run = r
  BY UpdateType DEF Update
<1>2. stream'[r] = Append(stream[r], u)
  BY DEF Emit, TypeOK
<1> HIDE DEF u
<1>3. Pipe(r)' = Append(Pipe(r), u)
  <2> DEFINE o == outbox[r]
             s == stream[r]
  <2>1. chan \in Seq(Updates) /\ o \in Seq(Updates) /\ s \in Seq(Updates)
    BY PipeType
  <2>2. Pipe(r) = (chan \o o) \o s /\ Pipe(r)' = (chan \o o) \o Append(s, u)
    BY <1>2 DEF Pipe
  <2> HIDE DEF o, s
  <2>3. (chan \o o) \o Append(s, u) = Append((chan \o o) \o s, u)
    BY <1>1, <2>1, Regroup
  <2> QED
    BY <2>2, <2>3
<1>4. Own(r)' = Items(Append(Pipe(r), u), r) /\ Ordered(r)' = InOrder(Append(Pipe(r), u), r)
  BY <1>3, Primed
<1>5. Pipe(r) \in Seq(Updates)
  BY PipeType
<1> QED
  BY <1>1, <1>4, <1>5, AppendItems DEF Own, Ordered, u

(* What another run does. *)
LEMMA Elsewhere ==
  ASSUME TypeOK, BornInv, NEW r \in Runs, NEW q \in Runs, q # r, Task(q)
  PROVE  UNCHANGED Own(r) /\ (Ordered(r) => Ordered(r)') /\ UNCHANGED <<pump[r], driver[r], todo[r]>>
<1>1. UNCHANGED <<pump[r], driver[r], todo[r], outbox[r], stream[r]>>
  BY DEF Task, PumpProgress, DriverStep, ResolveFails, StartProbe, FinishProbe, StartStream,
         PumpTake, PumpSend, PumpEnds, PumpDies, DriverLoading, DriverCollected,
         DriverDiagnoses, DriverDone, DriverDies, Emit, TypeOK, uiVars, taskVars
<1>2. CASE UNCHANGED chan
  <2>1. UNCHANGED Pipe(r)
    BY <1>1, <1>2 DEF Pipe
  <2> QED
    BY <1>1, <2>1, SamePipe
<1>3. CASE PumpSend(q)
  <2> DEFINE u == Head(outbox[q])
             B == outbox[r] \o stream[r]
  <2>1. outbox[q] # << >> /\ outbox[q] \in Seq(Updates) /\ chan' = Append(chan, u)
    BY <1>3 DEF PumpSend, TypeOK
  <2>2. u \in Updates /\ u.run # r
    <3>1. Len(outbox[q]) \in Nat /\ Len(outbox[q]) > 0 /\ u = outbox[q][1]
      BY <2>1
    <3> QED
      BY <2>1, <3>1 DEF BornInv
  <2> HIDE DEF u
  <2>3. chan \in Seq(Updates) /\ B \in Seq(Updates) /\ Append(chan, u) \in Seq(Updates)
    BY <2>2, PipeType, ConcatProperties, AppendProperties
  <2>4. Pipe(r) = chan \o B /\ Pipe(r)' = Append(chan, u) \o B
    <3> DEFINE o == outbox[r]
               s == stream[r]
    <3>1. o \in Seq(Updates) /\ s \in Seq(Updates)
      BY PipeType
    <3>2. Pipe(r) = (chan \o o) \o s /\ Pipe(r)' = (Append(chan, u) \o o) \o s /\ B = o \o s
      BY <1>1, <2>1 DEF Pipe, u
    <3> HIDE DEF o, s, B
    <3>3. (chan \o o) \o s = chan \o (o \o s)
      BY <2>3, <3>1, ConcatAssociative
    <3>4. (Append(chan, u) \o o) \o s = Append(chan, u) \o (o \o s)
      <4> DEFINE c == Append(chan, u)
      <4>1. c \in Seq(Updates)
        BY <2>3
      <4> HIDE DEF c
      <4>2. (c \o o) \o s = c \o (o \o s)
        BY <3>1, <4>1, ConcatAssociative
      <4> QED
        BY <4>2 DEF c
    <3> QED
      BY <3>2, <3>3, <3>4
  <2> HIDE DEF B
  <2>5. Own(r)' = Items(Append(chan, u) \o B, r) /\ Ordered(r)' = InOrder(Append(chan, u) \o B, r)
    BY <2>4, Primed
  <2> QED
    BY <1>1, <2>2, <2>3, <2>4, <2>5, InsertItems DEF Own, Ordered
<1> QED
  BY <1>2, <1>3 DEF Task, PumpProgress, DriverStep, ResolveFails, StartProbe, FinishProbe, StartStream,
         PumpTake, PumpEnds, PumpDies, DriverLoading, DriverCollected,
         DriverDiagnoses, DriverDone, DriverDies, Emit, uiVars, taskVars

(* The run's own steps that only move updates along. *)
LEMMA MovedAlong ==
  ASSUME TypeOK, NEW r \in Runs, PumpTake(r) \/ PumpSend(r)
  PROVE  UNCHANGED Own(r) /\ (Ordered(r) => Ordered(r)')
<1>1. UNCHANGED Pipe(r)
  <2>1. CASE PumpTake(r)
    <3>1. /\ outbox[r] = << >> /\ stream[r] # << >> /\ UNCHANGED chan
          /\ outbox'[r] = <<Head(stream[r])>> /\ stream'[r] = Tail(stream[r])
      BY <2>1 DEF PumpTake, TypeOK
    <3> DEFINE s == stream[r]
    <3>2. chan \in Seq(Updates) /\ s \in Seq(Updates) /\ s # << >> /\ << >> \in Seq(Updates)
      BY <3>1, PipeType
    <3>3. Pipe(r) = (chan \o << >>) \o s /\ Pipe(r)' = (chan \o <<Head(s)>>) \o Tail(s)
      BY <3>1 DEF Pipe
    <3> HIDE DEF s
    <3>4. (chan \o <<Head(s)>>) \o Tail(s) = (chan \o << >>) \o s
      BY <3>2, Regroup
    <3> QED
      BY <3>3, <3>4
  <2>2. CASE PumpSend(r)
    <3>1. /\ outbox[r] # << >> /\ UNCHANGED stream
          /\ outbox'[r] = Tail(outbox[r]) /\ chan' = Append(chan, Head(outbox[r]))
      BY <2>2 DEF PumpSend, TypeOK
    <3> DEFINE o == outbox[r]
               s == stream[r]
    <3>2. chan \in Seq(Updates) /\ o \in Seq(Updates) /\ s \in Seq(Updates) /\ o # << >>
      BY <3>1, PipeType
    <3>3. Pipe(r) = (chan \o o) \o s /\ Pipe(r)' = (Append(chan, Head(o)) \o Tail(o)) \o s
      BY <3>1 DEF Pipe
    <3> HIDE DEF o, s
    <3>4. (Append(chan, Head(o)) \o Tail(o)) \o s = (chan \o o) \o s
      BY <3>2, Regroup
    <3> QED
      BY <3>3, <3>4
  <2> QED
    BY <2>1, <2>2
<1> QED
  BY <1>1, SamePipe

(* Four updates appended at once are four appended in turn. *)
LEMMA FourAppends ==
  ASSUME NEW c \in Seq(Updates),
         NEW a \in Updates, NEW b \in Updates, NEW d \in Updates, NEW e \in Updates
  PROVE  c \o <<a, b, d, e>> = Append(Append(Append(Append(c, a), b), d), e)
<1> DEFINE n == Len(c)
           P == Append(c, a)
           Q == Append(P, b)
           R == Append(Q, d)
           S == Append(R, e)
           t == <<a, b, d, e>>
           T == c \o t
<1>1. t \in Seq(Updates) /\ Len(t) = 4 /\ t[1] = a /\ t[2] = b /\ t[3] = d /\ t[4] = e
  OBVIOUS
<1> HIDE DEF t
<1>2. T \in Seq(Updates) /\ Len(T) = n + 4 /\ n \in Nat
      /\ \A i \in 1 .. Len(T) : T[i] = IF i <= n THEN c[i] ELSE t[i - n]
  <2>1. /\ T \in Seq(Updates) /\ Len(T) = Len(c) + Len(t)
        /\ \A i \in 1 .. Len(c) + Len(t) : T[i] = IF i <= Len(c) THEN c[i] ELSE t[i - Len(c)]
    BY <1>1, ConcatProperties, Zenon
  <2>2. Len(c) \in Nat
    OBVIOUS
  <2> HIDE DEF T
  <2> QED
    BY <1>1, <2>1, <2>2
<1>3. P \in Seq(Updates) /\ Len(P) = n + 1 /\ P[n + 1] = a /\ \A i \in 1 .. n : P[i] = c[i]
  BY AppendProperties
<1> HIDE DEF P, T, n
<1>4. Q \in Seq(Updates) /\ Len(Q) = n + 2 /\ Q[n + 2] = b /\ \A i \in 1 .. (n + 1) : Q[i] = P[i]
  BY <1>2, <1>3, AppendProperties
<1> HIDE DEF Q
<1>5. R \in Seq(Updates) /\ Len(R) = n + 3 /\ R[n + 3] = d /\ \A i \in 1 .. (n + 2) : R[i] = Q[i]
  BY <1>2, <1>4, AppendProperties
<1> HIDE DEF R
<1>6. S \in Seq(Updates) /\ Len(S) = n + 4 /\ S[n + 4] = e /\ \A i \in 1 .. (n + 3) : S[i] = R[i]
  BY <1>2, <1>5, AppendProperties
<1> HIDE DEF S
<1>7. ASSUME NEW i \in 1 .. n PROVE S[i] = c[i] /\ T[i] = c[i]
  <2>1. /\ i \in 1 .. (n + 1) /\ i \in 1 .. (n + 2) /\ i \in 1 .. (n + 3)
        /\ i \in 1 .. Len(T) /\ i <= n
    BY <1>2
  <2>2. P[i] = c[i] /\ T[i] = c[i]
    BY <1>2, <1>3, <2>1
  <2>3. R[i] = c[i]
    BY <1>4, <1>5, <2>1, <2>2
  <2> QED
    BY <1>6, <2>1, <2>2, <2>3
<1>8. S[n + 1] = a /\ S[n + 2] = b /\ S[n + 3] = d /\ S[n + 4] = e
  <2>1. /\ n + 1 \in 1 .. (n + 1) /\ n + 1 \in 1 .. (n + 2) /\ n + 1 \in 1 .. (n + 3)
        /\ n + 2 \in 1 .. (n + 2) /\ n + 2 \in 1 .. (n + 3) /\ n + 3 \in 1 .. (n + 3)
    BY <1>2
  <2>2. Q[n + 1] = a
    BY <1>3, <1>4, <2>1
  <2>3. R[n + 1] = a /\ R[n + 2] = b
    BY <1>4, <1>5, <2>1, <2>2
  <2> QED
    BY <1>5, <1>6, <2>1, <2>3
<1>9. T[n + 1] = a /\ T[n + 2] = b /\ T[n + 3] = d /\ T[n + 4] = e
  <2>1. ASSUME NEW k \in 1 .. 4 PROVE T[n + k] = t[k]
    <3>1. n + k \in 1 .. Len(T) /\ ~(n + k <= n) /\ (n + k) - n = k
      BY <1>2
    <3> QED
      BY <1>2, <3>1
  <2> QED
    BY <1>1, <2>1
<1>10. n \in Nat
  BY <1>2
<1>11. ASSUME NEW i \in 1 .. (n + 4) PROVE S[i] = T[i]
  <2>1. i \in 1 .. n \/ i = n + 1 \/ i = n + 2 \/ i = n + 3 \/ i = n + 4
    BY <1>10
  <2> QED
    BY <1>7, <1>8, <1>9, <2>1
<1>12. S = T
  BY <1>2, <1>6, <1>11, SeqEqual
<1> QED
  BY <1>12 DEF P, Q, R, S, T, t

(* The failed configuration: four updates after nothing. *)
LEMMA FailedConfig ==
  ASSUME TypeOK, BornInv, NEW r \in Runs, ResolveFails(r), Own(r) = {}
  PROVE  /\ Own(r)' = {Update(r, "Loading", {}), Update(r, "Failed", {Config}),
                      Update(r, "Diagnosis", {}), Update(r, "Done", {})}
         /\ Ordered(r)'
<1> DEFINE u1 == Update(r, "Loading", {})
           u2 == Update(r, "Failed", {Config})
           u3 == Update(r, "Diagnosis", {})
           u4 == Update(r, "Done", {})
           P1 == Append(chan, u1)
           P2 == Append(P1, u2)
           P3 == Append(P2, u3)
           P4 == Append(P3, u4)
<1>1. u1 \in Updates /\ u2 \in Updates /\ u3 \in Updates /\ u4 \in Updates
  BY UpdateType DEF Names
<1>2. u1.run = r /\ u2.run = r /\ u3.run = r /\ u4.run = r
  BY DEF Update
<1>3. /\ Follows(u1, u2) /\ Follows(u1, u3) /\ Follows(u1, u4)
      /\ Follows(u2, u3) /\ Follows(u2, u4) /\ Follows(u3, u4)
  BY DEF Follows, Update, Answers
<1>4. Pipe(r) = chan /\ Pipe(r)' = chan \o <<u1, u2, u3, u4>>
  <2>1. outbox[r] = << >> /\ stream[r] = << >>
    BY DEF ResolveFails, BornInv, Early
  <2>2. outbox'[r] = <<u1, u2, u3, u4>> /\ UNCHANGED <<chan, stream>>
    BY DEF ResolveFails, TypeOK, ConfigFailure
  <2> HIDE DEF u1, u2, u3, u4
  <2>3. <<u1, u2, u3, u4>> \in Seq(Updates)
    BY <1>1
  <2>4. chan \o <<u1, u2, u3, u4>> \in Seq(Updates) /\ chan \in Seq(Updates)
    BY <2>3, ConcatProperties DEF TypeOK
  <2> QED
    BY <2>1, <2>2, <2>4, ConcatEmptySeq DEF Pipe
<1> HIDE DEF u1, u2, u3, u4
<1>5. /\ chan \in Seq(Updates) /\ P1 \in Seq(Updates) /\ P2 \in Seq(Updates) /\ P3 \in Seq(Updates)
  BY <1>1, AppendProperties DEF TypeOK
<1>6. Pipe(r)' = P4
  BY <1>1, <1>4, <1>5, FourAppends
<1> HIDE DEF P1, P2, P3, P4
<1>7. Items(chan, r) = {} /\ InOrder(chan, r)
  <2>1. Items(chan, r) = {}
    BY <1>4 DEF Own
  <2> QED
    BY <2>1 DEF Items, InOrder
<1>8. Items(P1, r) = {u1} /\ InOrder(P1, r)
  <2>1. \A v \in Items(chan, r) : Follows(v, u1)
    BY <1>7
  <2>2. Items(P1, r) = Items(chan, r) \cup {u1} /\ InOrder(P1, r)
    BY <1>1, <1>2, <1>5, <1>7, <2>1, AppendItems, Zenon DEF P1
  <2> QED
    BY <1>7, <2>2
<1>9. Items(P2, r) = {u1, u2} /\ InOrder(P2, r)
  <2>1. \A v \in Items(P1, r) : Follows(v, u2)
    BY <1>3, <1>8
  <2>2. Items(P2, r) = Items(P1, r) \cup {u2} /\ InOrder(P2, r)
    BY <1>1, <1>2, <1>5, <1>8, <2>1, AppendItems, Zenon DEF P2
  <2> QED
    BY <1>8, <2>2
<1>10. Items(P3, r) = {u1, u2, u3} /\ InOrder(P3, r)
  <2>1. \A v \in Items(P2, r) : Follows(v, u3)
    BY <1>3, <1>9
  <2>2. Items(P3, r) = Items(P2, r) \cup {u3} /\ InOrder(P3, r)
    BY <1>1, <1>2, <1>5, <1>9, <2>1, AppendItems, Zenon DEF P3
  <2> QED
    BY <1>9, <2>2
<1>11. Items(P4, r) = {u1, u2, u3, u4} /\ InOrder(P4, r)
  <2>1. \A v \in Items(P3, r) : Follows(v, u4)
    BY <1>3, <1>10
  <2>2. Items(P4, r) = Items(P3, r) \cup {u4} /\ InOrder(P4, r)
    BY <1>1, <1>2, <1>5, <1>10, <2>1, AppendItems, Zenon DEF P4
  <2> QED
    BY <1>10, <2>2
<1> QED
  BY <1>6, <1>11, Primed DEF u1, u2, u3, u4

-----------------------------------------------------------------------------

USE CorrelateAssumption

(* An abort reaches the run of the popup, which has been spawned. *)
LEMMA AbortBorn ==
  ASSUME TypeOK, BornInv, Abort
  PROVE  \A r \in Runs : /\ cancelled[r] => cancelled'[r]
                         /\ cancelled'[r] => cancelled[r] \/ r <= runs
<1> SUFFICES ASSUME NEW r \in Runs
             PROVE  (cancelled[r] => cancelled'[r]) /\ (cancelled'[r] => cancelled[r] \/ r <= runs)
  OBVIOUS
<1>1. cancelled'[r] <=> cancelled[r] \/ r = runner
  BY DEF Abort, TypeOK
<1>2. r = runner => r <= runs
  BY DEF BornInv, Runs
<1> QED
  BY <1>1, <1>2

(* Opening a popup starts a run that nothing has touched yet. *)
LEMMA BornStep == TypeOK /\ BornInv /\ [Next]_vars => BornInv'
<1> SUFFICES ASSUME TypeOK, BornInv, [Next]_vars PROVE BornInv'
  OBVIOUS
<1> USE DEF uiVars, taskVars
<1>1. ASSUME NEW e, OpenCorrelatePopup(e) PROVE BornInv'
  <2>1. /\ Abort /\ runs < MaxRuns /\ runs' = runs + 1 /\ runner' = runs + 1
        /\ UNCHANGED <<outbox, stream>>
        /\ pump' = [pump EXCEPT ![runs + 1] = "resolving"]
    BY <1>1, Zenon DEF OpenCorrelatePopup
  <2>2. runs + 1 \in Runs /\ runs \in Nat /\ runs + 1 > runs /\ ~(runs + 1 <= runs)
    BY <2>1 DEF TypeOK, Runs
  <2>3. \A r \in Runs : pump'[r] = IF r = runs + 1 THEN "resolving" ELSE pump[r]
    BY <2>1 DEF TypeOK
  <2>4. pump[runs + 1] = "unborn" /\ ~cancelled[runs + 1]
    BY <2>2 DEF BornInv
  <2>5. \A r \in Runs : r > runs + 1 => r > runs /\ ~(r <= runs) /\ r # runs + 1
    BY <2>2 DEF Runs
  <2>6. \A r \in Runs : r > runs + 1 => pump'[r] = "unborn" /\ ~cancelled'[r]
    BY <2>1, <2>3, <2>5, AbortBorn DEF BornInv
  <2>7. \A r \in Runs : pump'[r] = "dead" => cancelled'[r]
    BY <2>1, <2>3, AbortBorn DEF BornInv
  <2>8. ~cancelled'[runs + 1]
    BY <2>1, <2>2, <2>4, AbortBorn
  <2>9. \A r \in Runs : pump'[r] \in Early => pump[r] \in Early
    BY <2>3, <2>4 DEF Early
  <2>10. runs + 1 <= runs + 1
    BY <2>2
  <2> QED
    BY <2>1, <2>6, <2>7, <2>8, <2>9, <2>10 DEF BornInv
<1>2. CASE CloseOverlay \/ Quit
  <2>1. CASE Abort /\ runner' = NoRun
    <3>1. \A r \in Runs : r > runs => ~(r <= runs)
      BY DEF TypeOK, Runs
    <3>3. UNCHANGED <<runs, pump, outbox, stream>>
      BY <1>2 DEF CloseOverlay, Quit
    <3> QED
      BY <2>1, <3>1, <3>3, AbortBorn DEF BornInv
  <2>2. CASE UNCHANGED <<cancelled, runner>>
    BY <1>2, <2>2 DEF CloseOverlay, Quit, BornInv
  <2> QED
    BY <1>2, <2>1, <2>2 DEF CloseOverlay, Quit
<1>3. CASE Operator
  BY <1>1, <1>2, <1>3 DEF Operator, OpenPanel, CorrelateRow, CorrelateLogLine, OpenChooser,
     ChooserNavigate, ChooserConfirm, ToggleCorrelateFullscreen, BornInv
<1>4. CASE HandleUpdate \/ UNCHANGED vars
  BY <1>4 DEF HandleUpdate, vars, BornInv
<1>5. ASSUME NEW r \in Runs, Task(r) PROVE BornInv'
  <2>1. UNCHANGED <<runner, runs, cancelled>>
    BY <1>5 DEF Task, PumpProgress, DriverStep, ResolveFails, StartProbe, FinishProbe,
                StartStream, PumpTake, PumpSend, PumpEnds, PumpDies, DriverLoading,
                DriverCollected, DriverDiagnoses, DriverDone, DriverDies, Emit
  <2>2. \A q \in Runs : q # r => UNCHANGED <<pump[q], outbox[q], stream[q]>>
    BY <1>5 DEF Task, PumpProgress, DriverStep, ResolveFails, StartProbe, FinishProbe,
                StartStream, PumpTake, PumpSend, PumpEnds, PumpDies, DriverLoading,
                DriverCollected, DriverDiagnoses, DriverDone, DriverDies, Emit, TypeOK
  <2>3. pump[r] # "unborn" /\ pump'[r] # "unborn"
    BY <1>5 DEF Task, PumpProgress, DriverStep, ResolveFails, StartProbe, FinishProbe,
                StartStream, PumpTake, PumpSend, PumpEnds, PumpDies, DriverLoading,
                DriverCollected, DriverDiagnoses, DriverDone, DriverDies, Emit, TypeOK, PumpAlive
  <2>4. pump'[r] = "dead" => cancelled[r]
    BY <1>5 DEF Task, PumpProgress, DriverStep, ResolveFails, StartProbe, FinishProbe,
                StartStream, PumpTake, PumpSend, PumpEnds, PumpDies, DriverLoading,
                DriverCollected, DriverDiagnoses, DriverDone, DriverDies, Emit, TypeOK, BornInv
  <2>5. pump'[r] \in Early => outbox'[r] = << >> /\ stream'[r] = << >>
    BY <1>5 DEF Task, PumpProgress, DriverStep, ResolveFails, StartProbe, FinishProbe,
                StartStream, PumpTake, PumpSend, PumpEnds, PumpDies, DriverLoading,
                DriverCollected, DriverDiagnoses, DriverDone, DriverDies, Emit, TypeOK, BornInv, Early
  <2>6. /\ \A i \in 1 .. Len(outbox'[r]) : outbox'[r][i].run = r
        /\ \A i \in 1 .. Len(stream'[r]) : stream'[r][i].run = r
    <3> DEFINE Only(s) == \A i \in 1 .. Len(s) : s[i].run = r
    <3>1. outbox[r] \in Seq(Updates) /\ stream[r] \in Seq(Updates) /\ Only(outbox[r]) /\ Only(stream[r])
      BY DEF TypeOK, BornInv
    <3>2. ASSUME NEW s \in Seq(Updates), s # << >>, Only(s)
          PROVE  Only(Tail(s)) /\ Only(<<Head(s)>>)
      BY <3>2
    <3>3. ASSUME NEW s \in Seq(Updates), Only(s), NEW u \in Updates, u.run = r PROVE Only(Append(s, u))
      <4>1. /\ Len(Append(s, u)) = Len(s) + 1 /\ Append(s, u)[Len(s) + 1] = u
            /\ \A i \in 1 .. Len(s) : Append(s, u)[i] = s[i]
        BY <3>3, AppendProperties
      <4>2. Len(s) \in Nat
        BY <3>3
      <4> QED
        BY <3>3, <4>1, <4>2
    <3>4. Only(<< >>)
      OBVIOUS
    <3>5. Only(ConfigFailure(r))
      BY DEF ConfigFailure, Update
    <3>6. ASSUME NEW kind \in {"Loading", "Landed", "Failed", "Diagnosis", "Done"},
                 NEW names \in SUBSET Names, Emit(r, kind, names), UNCHANGED outbox
          PROVE  Only(outbox'[r]) /\ Only(stream'[r])
      <4> DEFINE u == Update(r, kind, names)
      <4>1. u \in Updates /\ u.run = r
        BY <3>6, UpdateType DEF Update
      <4>2. stream'[r] = Append(stream[r], u)
        BY <3>6 DEF Emit, TypeOK
      <4> HIDE DEF u
      <4>3. Only(Append(stream[r], u))
        BY <3>1, <3>3, <4>1
      <4> QED
        BY <3>1, <3>6, <4>2, <4>3
    <3>7. ASSUME ResolveFails(r) PROVE Only(outbox'[r]) /\ Only(stream'[r])
      <4>1. outbox'[r] = ConfigFailure(r) /\ stream' = stream
        BY <3>7 DEF ResolveFails, TypeOK
      <4> QED
        BY <3>1, <3>5, <4>1
    <3>8. ASSUME StartProbe(r) \/ FinishProbe(r) \/ StartStream(r) \/ PumpEnds(r) \/ DriverDies(r)
          PROVE  Only(outbox'[r]) /\ Only(stream'[r])
      BY <3>1, <3>8 DEF StartProbe, FinishProbe, StartStream, PumpEnds, DriverDies
    <3>9. ASSUME PumpTake(r) PROVE Only(outbox'[r]) /\ Only(stream'[r])
      <4>1. stream[r] # << >> /\ outbox'[r] = <<Head(stream[r])>> /\ stream'[r] = Tail(stream[r])
        BY <3>9 DEF PumpTake, TypeOK
      <4> HIDE DEF Only
      <4> QED
        BY <3>1, <3>2, <4>1
    <3>10. ASSUME PumpSend(r) PROVE Only(outbox'[r]) /\ Only(stream'[r])
      <4>1. outbox[r] # << >> /\ outbox'[r] = Tail(outbox[r]) /\ stream' = stream
        BY <3>10 DEF PumpSend, TypeOK
      <4> HIDE DEF Only
      <4> QED
        BY <3>1, <3>2, <4>1
    <3>11. ASSUME PumpDies(r) PROVE Only(outbox'[r]) /\ Only(stream'[r])
      <4>1. outbox'[r] = << >> /\ stream'[r] = << >>
        BY <3>11 DEF PumpDies, TypeOK
      <4> QED
        BY <3>4, <4>1
    <3>12. ASSUME DriverStep(r) PROVE Only(outbox'[r]) /\ Only(stream'[r])
      <4>1. \E kind \in {"Loading", "Landed", "Failed", "Diagnosis", "Done"}, names \in SUBSET Names :
              Emit(r, kind, names) /\ UNCHANGED outbox
        BY <3>12 DEF DriverStep, DriverLoading, DriverCollected, DriverDiagnoses, DriverDone, Names
      <4> HIDE DEF Only
      <4> QED
        BY <3>6, <4>1
    <3> QED
      BY <1>5, <3>7, <3>8, <3>9, <3>10, <3>11, <3>12 DEF Task, PumpProgress
  <2>7. \A q \in Runs : q > runs' => pump'[q] = "unborn" /\ ~cancelled'[q]
    BY <2>1, <2>2, <2>3 DEF BornInv
  <2>8. \A q \in Runs : pump'[q] = "dead" => cancelled'[q]
    BY <2>1, <2>2, <2>4 DEF BornInv
  <2>9. \A q \in Runs : pump'[q] \in Early => outbox'[q] = << >> /\ stream'[q] = << >>
    BY <2>2, <2>5 DEF BornInv
  <2>10. \A q \in Runs : /\ \A i \in 1 .. Len(outbox'[q]) : outbox'[q][i].run = q
                         /\ \A i \in 1 .. Len(stream'[q]) : stream'[q][i].run = q
    BY <2>2, <2>6 DEF BornInv
  <2> QED
    BY <2>1, <2>7, <2>8, <2>9, <2>10 DEF BornInv
<1> QED
  BY <1>3, <1>4, <1>5 DEF Next

-----------------------------------------------------------------------------
(* What the operator does to the runs: it leaves them alone, or gives one  *)
(* more run to do.                                                         *)
LEMMA OperatorRuns ==
  ASSUME TypeOK, BornInv, Operator, NEW r \in Runs
  PROVE  /\ UNCHANGED <<driver[r], todo[r]>> /\ UNCHANGED Own(r) /\ (Ordered(r) => Ordered(r)')
         /\ pump'[r] = pump[r] \/ (pump[r] = "unborn" /\ pump'[r] = "resolving")
<1>1. ASSUME NEW e, OpenCorrelatePopup(e)
      PROVE  /\ UNCHANGED <<outbox, driver, todo, stream, chan>>
             /\ pump'[r] = pump[r] \/ (pump[r] = "unborn" /\ pump'[r] = "resolving")
  <2>1. UNCHANGED <<outbox, driver, todo, stream, chan>> /\ runs < MaxRuns
        /\ pump' = [pump EXCEPT ![runs + 1] = "resolving"]
    BY <1>1, Zenon DEF OpenCorrelatePopup
  <2>2. runs + 1 > runs
    BY DEF TypeOK
  <2>3. r = runs + 1 => pump[r] = "unborn"
    BY <2>2 DEF BornInv
  <2> QED
    BY <2>1, <2>3 DEF TypeOK
<1>2. /\ UNCHANGED <<outbox, driver, todo, stream, chan>>
      /\ pump'[r] = pump[r] \/ (pump[r] = "unborn" /\ pump'[r] = "resolving")
  BY <1>1 DEF Operator, OpenPanel, CorrelateRow, CorrelateLogLine, OpenChooser,
     ChooserNavigate, ChooserConfirm, ToggleCorrelateFullscreen, CloseOverlay, Quit, taskVars
<1>3. UNCHANGED Pipe(r)
  BY <1>2 DEF Pipe
<1> QED
  BY <1>2, <1>3, SamePipe

(* Update u is what the driver of run r adds in this step. *)
DriverSays(r, u) ==
  /\ u.run = r
  /\ Own(r)' = Own(r) \cup {u}
  /\ Ordered(r) /\ (\A v \in Own(r) : Follows(v, u)) => Ordered(r)'
  /\ pump[r] = "pumping" /\ running /\ UNCHANGED <<running, uiVars, pump>>
  /\ \/ /\ driver[r] = "loading" /\ driver'[r] = "collecting" /\ todo'[r] = todo[r]
        /\ u.kind = "Loading"
     \/ \E s \in Sources :
          /\ driver[r] = "collecting" /\ driver'[r] = driver[r]
          /\ s \in todo[r] /\ todo'[r] = todo[r] \ {s}
          /\ u.kind \in Answers /\ u.names = {s}
     \/ /\ driver[r] = "collecting" /\ todo[r] = {} /\ driver'[r] = "diagnosed"
        /\ todo'[r] = todo[r] /\ u.kind = "Diagnosis"
     \/ /\ driver[r] = "diagnosed" /\ driver'[r] = "ended" /\ todo'[r] = todo[r]
        /\ u.kind = "Done"

(* What a run's own step adds to what it has sent. *)
LEMMA DriverEmits ==
  ASSUME TypeOK, NEW r \in Runs, DriverStep(r)
  PROVE  \E u \in Updates : DriverSays(r, u)
<1> DEFINE Says(u) ==
             /\ u.run = r
             /\ Own(r)' = Own(r) \cup {u}
             /\ Ordered(r) /\ (\A v \in Own(r) : Follows(v, u)) => Ordered(r)'
<1>1. ASSUME NEW names \in SUBSET Names,
             NEW kind \in {"Loading", "Landed", "Failed", "Diagnosis", "Done"},
             Emit(r, kind, names), UNCHANGED <<chan, outbox>>
      PROVE  /\ Update(r, kind, names) \in Updates /\ Says(Update(r, kind, names))
             /\ pump[r] = "pumping" /\ running
  BY <1>1, UpdateType, Emitted DEF Emit, Update
<1>2. UNCHANGED <<chan, outbox, running, uiVars, pump>>
  BY DEF DriverStep, DriverLoading, DriverCollected, DriverDiagnoses, DriverDone
<1> HIDE DEF Says
<1>3. CASE DriverLoading(r)
  <2>1. /\ Emit(r, "Loading", Sources) /\ driver[r] = "loading"
        /\ driver'[r] = "collecting" /\ todo'[r] = todo[r]
    BY <1>3 DEF DriverLoading, TypeOK
  <2> DEFINE u == Update(r, "Loading", Sources)
  <2>2. Sources \in SUBSET Names /\ u.kind = "Loading"
    BY DEF Names, Update
  <2>3. u \in Updates /\ Says(u) /\ pump[r] = "pumping" /\ running
    BY <1>1, <1>2, <2>1, <2>2
  <2> HIDE DEF u
  <2> QED
    BY <1>2, <2>1, <2>2, <2>3 DEF Says, DriverSays
<1>4. ASSUME NEW s \in Sources, NEW kind \in Answers, DriverCollected(r, s, kind)
      PROVE  \E u \in Updates : DriverSays(r, u)
  <2>1. /\ Emit(r, kind, {s}) /\ driver[r] = "collecting" /\ driver'[r] = driver[r]
        /\ s \in todo[r] /\ todo'[r] = todo[r] \ {s}
    BY <1>4 DEF DriverCollected, TypeOK
  <2> DEFINE u == Update(r, kind, {s})
  <2>2. {s} \in SUBSET Names /\ u.kind = kind /\ u.names = {s}
    BY DEF Names, Update
  <2>3. u \in Updates /\ Says(u) /\ pump[r] = "pumping" /\ running
    BY <1>1, <1>2, <2>1, <2>2 DEF Answers
  <2> HIDE DEF u
  <2> QED
    BY <1>2, <1>4, <2>1, <2>2, <2>3 DEF Says, DriverSays
<1>5. CASE DriverDiagnoses(r)
  <2>1. /\ Emit(r, "Diagnosis", {}) /\ driver[r] = "collecting" /\ todo[r] = {}
        /\ driver'[r] = "diagnosed" /\ todo'[r] = todo[r]
    BY <1>5 DEF DriverDiagnoses, TypeOK
  <2> DEFINE u == Update(r, "Diagnosis", {})
  <2>2. {} \in SUBSET Names /\ u.kind = "Diagnosis"
    BY DEF Update
  <2>3. u \in Updates /\ Says(u) /\ pump[r] = "pumping" /\ running
    BY <1>1, <1>2, <2>1, <2>2
  <2> HIDE DEF u
  <2> QED
    BY <1>2, <2>1, <2>2, <2>3 DEF Says, DriverSays
<1>6. CASE DriverDone(r)
  <2>1. Emit(r, "Done", {}) /\ driver[r] = "diagnosed" /\ driver'[r] = "ended" /\ todo'[r] = todo[r]
    BY <1>6 DEF DriverDone, TypeOK
  <2> DEFINE u == Update(r, "Done", {})
  <2>2. {} \in SUBSET Names /\ u.kind = "Done"
    BY DEF Update
  <2>3. u \in Updates /\ Says(u) /\ pump[r] = "pumping" /\ running
    BY <1>1, <1>2, <2>1, <2>2
  <2> HIDE DEF u
  <2> QED
    BY <1>2, <2>1, <2>2, <2>3 DEF Says, DriverSays
<1> QED
  BY <1>3, <1>4, <1>5, <1>6 DEF DriverStep, Answers

(* The run's steps that leave what it has sent alone, or move it along. *)
LEMMA PumpMoves ==
  ASSUME TypeOK, NEW r \in Runs, PumpProgress(r)
  PROVE  /\ running /\ UNCHANGED <<running, uiVars>>
         /\ UNCHANGED Own(r) /\ (Ordered(r) => Ordered(r)')
         /\ \/ /\ pump[r] \in {"resolving", "probing"} /\ pump'[r] \in {"probing", "connecting"}
               /\ UNCHANGED <<driver[r], todo[r]>>
            \/ /\ pump[r] = "connecting" /\ pump'[r] = "pumping"
               /\ driver'[r] = "loading" /\ todo'[r] = Sources
            \/ /\ pump[r] \in {"failing", "pumping"}
               /\ pump'[r] = pump[r] \/ (pump[r] = "failing" /\ pump'[r] = "ended")
               /\ UNCHANGED <<driver[r], todo[r]>>
            \/ /\ pump[r] = "pumping" /\ pump'[r] = "ended" /\ driver[r] = "ended"
               /\ UNCHANGED <<driver[r], todo[r]>>
<1>1. CASE PumpTake(r) \/ PumpSend(r)
  BY <1>1, MovedAlong DEF PumpTake, PumpSend, TypeOK
<1>2. CASE StartProbe(r) \/ FinishProbe(r) \/ StartStream(r) \/ PumpEnds(r)
  <2>1. UNCHANGED Pipe(r)
    BY <1>2 DEF StartProbe, FinishProbe, StartStream, PumpEnds, Pipe
  <2>2. UNCHANGED Own(r) /\ (Ordered(r) => Ordered(r)')
    BY <2>1, SamePipe
  <2> QED
    BY <1>2, <2>2 DEF StartProbe, FinishProbe, StartStream, PumpEnds, TypeOK
<1> QED
  BY <1>1, <1>2 DEF PumpProgress

(* A failed configuration is reported by the pump itself. *)
LEMMA ConfigFails ==
  ASSUME TypeOK, NEW r \in Runs, ResolveFails(r)
  PROVE  /\ running /\ pump[r] = "resolving" /\ pump'[r] = "failing"
         /\ UNCHANGED <<running, uiVars, driver[r], todo[r]>>
BY DEF ResolveFails, TypeOK

(* The order and the contents of what each live run has still to show. *)
LEMMA ShapeStep == TypeOK /\ BornInv /\ ShapeInv /\ [Next]_vars => ShapeInv'
<1> SUFFICES ASSUME TypeOK, BornInv, ShapeInv, [Next]_vars, NEW r \in Runs, pump'[r] # "dead"
             PROVE  Shape(r, Own(r))' /\ Ordered(r)'
  BY DEF ShapeInv
<1>1. CASE pump[r] = "dead"
  <2>1. pump'[r] = "dead"
    <3>1. ASSUME NEW q \in Runs, Task(q) PROVE pump'[r] = "dead"
      BY <1>1, <3>1 DEF Task, PumpProgress, DriverStep, ResolveFails, StartProbe, FinishProbe,
         StartStream, PumpTake, PumpSend, PumpEnds, PumpDies, DriverLoading, DriverCollected,
         DriverDiagnoses, DriverDone, DriverDies, Emit, TypeOK
    <3>2. CASE Operator
      BY <1>1, <3>2, OperatorRuns
    <3>3. CASE HandleUpdate \/ UNCHANGED vars
      BY <1>1, <3>3 DEF HandleUpdate, vars, taskVars
    <3> QED
      BY <3>1, <3>2, <3>3 DEF Next
  <2> QED
    BY <2>1
<1>2. CASE pump[r] # "dead"
  <2>0. Shape(r, Own(r)) /\ Ordered(r)
    BY <1>2 DEF ShapeInv
  <2>1. CASE Operator
    BY <2>0, <2>1, OperatorRuns DEF Shape, Early
  <2>2. CASE HandleUpdate
    <3>1. Own(r)' \subseteq Own(r) /\ Ordered(r)' /\ UNCHANGED <<pump, driver, todo>>
      BY <2>0, <2>2, Taken DEF HandleUpdate, taskVars
    <3> QED
      BY <2>0, <3>1 DEF Shape
  <2>3. CASE UNCHANGED vars
    <3>1. UNCHANGED Pipe(r)
      BY <2>3 DEF vars, taskVars, Pipe
    <3>2. UNCHANGED Own(r) /\ Ordered(r)'
      BY <2>0, <3>1, SamePipe
    <3> QED
      BY <2>0, <2>3, <3>2 DEF Shape, vars, taskVars
  <2>4. ASSUME NEW q \in Runs, q # r, Task(q) PROVE Shape(r, Own(r))' /\ Ordered(r)'
    BY <2>0, <2>4, Elsewhere DEF Shape
  <2>5. CASE ResolveFails(r)
    <3>1. Own(r) = {} /\ driver[r] = "none" /\ todo[r] = {}
      BY <2>0, <2>5, ConfigFails DEF Shape, Early
    <3>2. Ordered(r)' /\ \A v \in Own(r)' : v.kind \in Answers => v.names = {Config}
      BY <2>5, <3>1, FailedConfig DEF Update, Answers
    <3> QED
      BY <2>5, <3>1, <3>2, ConfigFails DEF Shape, Early
  <2>6. CASE PumpProgress(r)
    BY <2>0, <2>6, PumpMoves DEF Shape, Early
  <2>7. CASE PumpDies(r)
    BY <2>7 DEF PumpDies, TypeOK
  <2>8. CASE DriverStep(r)
    <3>1. PICK u \in Updates : DriverSays(r, u)
      BY <2>8, DriverEmits
    <3>2. \A v \in Own(r) : Follows(v, u)
      BY <2>0, <3>1 DEF DriverSays, Shape, Follows, Answers, Early
    <3>3. Ordered(r)' /\ Own(r)' = Own(r) \cup {u}
      BY <2>0, <3>1, <3>2 DEF DriverSays
    <3> QED
      BY <2>0, <3>1, <3>3 DEF DriverSays, Shape, Early, Answers
  <2>9. CASE DriverDies(r)
    BY <1>2, <2>9 DEF DriverDies
  <2> QED
    BY <2>1, <2>2, <2>3, <2>4, <2>5, <2>6, <2>7, <2>8, <2>9 DEF Next, Task
<1> QED
  BY <1>1, <1>2

-----------------------------------------------------------------------------
(* The invariant but for what the popup shows. *)
Core == TypeOK /\ OverlayOwnsState /\ BornInv /\ ShapeInv

(* The popup's run is one of the runs, alive or ended, and keeps its shape. *)
LEMMA PopupsRun ==
  ASSUME Core, running, FirstForEntity
  PROVE  /\ runner \in Runs /\ pump[runner] # "dead" /\ ~cancelled[runner]
         /\ popup \in Popups /\ popup.entity = entityOf[runner]
         /\ Shape(runner, Own(runner)) /\ Ordered(runner)
<1>1. runner \in Runs /\ popup \in Popups /\ popup.entity = entityOf[runner]
  BY DEF Core, TypeOK, OverlayOwnsState, FirstForEntity
<1>2. ~cancelled[runner] /\ pump[runner] # "dead"
  BY <1>1 DEF Core, BornInv, Runs
<1> QED
  BY <1>1, <1>2 DEF Core, ShapeInv

(* An update of the popup's entity is, in its first popup, the run's own. *)
LEMMA TakenByPopup ==
  ASSUME Core, running, FirstForEntity, HandleUpdate
  PROVE  LET u == Head(chan)
         IN  /\ u \in Updates
             /\ \/ u.run = runner /\ popup' = Apply(popup, u)
                \/ u.run # runner /\ popup' = popup
<1>1. Head(chan) \in Updates
  BY HeadTailProperties DEF Core, HandleUpdate, TypeOK
<1>2. Accepts(Head(chan)) <=> Head(chan).run = runner
  BY <1>1, PopupsRun DEF Accepts, FirstForEntity, Updates
<1> QED
  BY <1>1, <1>2 DEF HandleUpdate

(* What applying an update changes. *)
LEMMA Applied ==
  ASSUME NEW p \in Popups, NEW u \in Updates
  PROVE  LET q == Apply(p, u)
         IN  /\ u.kind = "Loading" => /\ \A s \in Names : q.dots[s] \notin Final
                                      /\ q.done = p.done /\ q.diagOf = p.diagOf
             /\ u.kind = "Landed" =>
                  /\ \A s \in Names : q.dots[s] = IF s \in u.names THEN "landed" ELSE p.dots[s]
                  /\ q.events = p.events \cup ({u.run} \X u.names) /\ q.errors = p.errors
                  /\ q.done = p.done /\ q.diagOf = p.diagOf
             /\ u.kind = "Failed" =>
                  /\ \A s \in Names : q.dots[s] = IF s \in u.names THEN "failed" ELSE p.dots[s]
                  /\ q.errors = p.errors \cup ({u.run} \X u.names) /\ q.events = p.events
                  /\ q.done = p.done /\ q.diagOf = p.diagOf
             /\ u.kind = "Diagnosis" =>
                  /\ q.dots = p.dots /\ q.events = p.events /\ q.errors = p.errors
                  /\ q.done = p.done /\ q.diagOf = u.run
             /\ u.kind = "Done" =>
                  /\ q.dots = p.dots /\ q.events = p.events /\ q.errors = p.errors
                  /\ q.done /\ q.diagOf = p.diagOf
<1>1. CASE u.kind = "Loading"
  BY <1>1 DEF Apply, Loaded, Popups, Final
<1>2. CASE u.kind = "Landed"
  BY <1>2 DEF Apply, Landed, Mark, Popups
<1>3. CASE u.kind = "Failed"
  BY <1>3 DEF Apply, Failed, Mark, Popups
<1>4. CASE u.kind = "Diagnosis"
  BY <1>4 DEF Apply, Popups
<1>5. CASE u.kind = "Done"
  BY <1>5 DEF Apply, Popups
<1> QED
  BY <1>1, <1>2, <1>3, <1>4, <1>5 DEF Updates

(* Showing the next update keeps popup and pipe together. *)
LEMMA FedApply ==
  ASSUME NEW p \in Popups, NEW r \in Runs, NEW I, NEW J, NEW u \in Updates,
         NEW pu \in PumpStates, NEW dr \in DriverStates, NEW td, Fed(p, r, I, pu, dr, td),
         pump[r] = pu, pu # "dead", driver[r] = dr, todo[r] = td, Shape(r, I),
         u.run = r, I = J \cup {u}, \A v \in J : Follows(u, v)
  PROVE  Fed(Apply(p, u), r, J, pu, dr, td)
<1> DEFINE q == Apply(p, u)
<1> SUFFICES Fed(q, r, J, pu, dr, td)
  OBVIOUS
<1>1. u \in I /\ J \subseteq I /\ ~p.done
  BY DEF Fed
<1>2. pu \notin Early /\ dr # "loading"
  BY <1>1 DEF Shape
<1>3. CASE u.kind = "Loading"
  <2>1. /\ \A s \in Names : q.dots[s] \notin Final /\ p.dots[s] \notin Final
        /\ q.done = p.done /\ q.diagOf = p.diagOf
    BY <1>1, <1>3, Applied DEF Fed
  <2> HIDE DEF q
  <2>2. \A v \in I : v.kind # "Loading" => v \in J
    BY <1>3
  <2> QED
    BY <1>1, <1>2, <1>3, <2>1, <2>2 DEF Fed, Final, Answers, Names
<1>4. CASE u.kind \in Answers
  <2>1. /\ \A s \in Names :
             q.dots[s] = IF s \in u.names THEN IF u.kind = "Landed" THEN "landed" ELSE "failed"
                         ELSE p.dots[s]
        /\ q.events = p.events \cup (IF u.kind = "Landed" THEN {r} \X u.names ELSE {})
        /\ q.errors = p.errors \cup (IF u.kind = "Failed" THEN {r} \X u.names ELSE {})
        /\ q.done = p.done /\ q.diagOf = p.diagOf
    BY <1>4, Applied DEF Answers
  <2> HIDE DEF q
  <2>2. \A s \in u.names : <<r, s>> \in {r} \X u.names
    OBVIOUS
  <2>3. \A s \in u.names : s \notin td
    BY <1>1, <1>4 DEF Shape
  <2>4. \A v \in J : v.kind # "Loading" /\ (v.kind \in Answers => u.names \cap v.names = {})
    BY <1>4 DEF Follows
  <2>5. \A s \in Names : q.dots[s] \in Final =>
          /\ pu \notin Early /\ dr # "loading" /\ s \notin td
          /\ \A v \in J : v.kind # "Loading" /\ (v.kind \in Answers => s \notin v.names)
    BY <1>1, <1>2, <2>1, <2>3, <2>4 DEF Fed
  <2>6. \A s \in Names : /\ q.dots[s] = "landed" => <<r, s>> \in q.events
                         /\ q.dots[s] = "failed" => <<r, s>> \in q.errors
    BY <1>4, <2>1, <2>2 DEF Fed, Answers
  <2>7. \A s \in u.names : s \in Names => q.dots[s] \in Final
    BY <2>1 DEF Final
  <2>8. \A s \in Names : p.dots[s] \in Final => q.dots[s] \in Final
    BY <2>1 DEF Final
  <2>9. dr \in {"collecting", "diagnosed", "ended"} =>
          \A s \in Sources : \/ s \in td \/ q.dots[s] \in Final
                             \/ \E v \in J : v.kind \in Answers /\ v.names = {s}
    BY <2>7, <2>8 DEF Fed, Names
  <2>10. dr \in {"diagnosed", "ended"} \/ Failing(pu, dr) =>
           q.diagOf = r \/ \E v \in J : v.kind = "Diagnosis"
    BY <1>4, <2>1 DEF Fed, Answers
  <2>11. Failing(pu, dr) =>
           q.dots[Config] = "failed" \/ \E v \in J : v.kind = "Failed" /\ v.names = {Config}
    <3>1. Config \in Names
      BY DEF Names
    <3>2. u.kind = "Failed" /\ u.names = {Config} => q.dots[Config] = "failed"
      BY <2>1, <3>1
    <3>3. ASSUME p.dots[Config] = "failed" PROVE q.dots[Config] = "failed"
      <4>1. Config \notin u.names
        BY <1>1, <1>4, <3>1, <3>3 DEF Fed, Final
      <4> QED
        BY <2>1, <3>1, <3>3, <4>1
    <3> QED
      BY <3>2, <3>3 DEF Fed
  <2> QED
    BY <1>1, <2>1, <2>5, <2>6, <2>9, <2>10, <2>11 DEF Fed
<1>5. CASE u.kind = "Diagnosis"
  <2>1. /\ q.dots = p.dots /\ q.events = p.events /\ q.errors = p.errors
        /\ q.done = p.done /\ q.diagOf = r
    BY <1>5, Applied
  <2> HIDE DEF q
  <2> QED
    BY <1>1, <1>5, <2>1 DEF Fed, Answers
<1>6. CASE u.kind = "Done"
  <2>1. /\ q.dots = p.dots /\ q.events = p.events /\ q.errors = p.errors
        /\ q.done /\ q.diagOf = p.diagOf
    BY <1>6, Applied
  <2>2. J = {}
    BY <1>6 DEF Follows
  <2>3. dr = "ended" \/ Failing(pu, dr)
    BY <1>1, <1>2, <1>6 DEF Shape, Failing, Early, PumpStates, DriverStates
  <2> HIDE DEF q
  <2> QED
    BY <1>1, <1>6, <2>1, <2>2, <2>3 DEF Fed, Answers
<1> QED
  BY <1>3, <1>4, <1>5, <1>6 DEF Updates, Answers

(* What the popup shows and what is still on its way belong together. *)
LEMMA FedStep == Core /\ FedInv /\ [Next]_vars => FedInv'
<1> DEFINE Now(r) == Fed(popup, r, Own(r), pump[r], driver[r], todo[r])
<1> SUFFICES ASSUME Core, FedInv, [Next]_vars, running', FirstForEntity', NEW r, r = runner'
             PROVE  Fed(popup', r, Own(r)', pump'[r], driver'[r], todo'[r])
  BY DEF FedInv, Own, Items, Pipe
<1> USE DEF uiVars, taskVars
<1>1. ASSUME NEW e, OpenCorrelatePopup(e)
      PROVE  Fed(popup', r, Own(r)', pump'[r], driver'[r], todo'[r])
  <2>1. popup' = EmptyPopup(e) /\ r = runs + 1 /\ runs < MaxRuns
        /\ pump' = [pump EXCEPT ![runs + 1] = "resolving"] /\ driver' = driver
    BY <1>1, Zenon DEF OpenCorrelatePopup
  <2>2. r \in Runs /\ r > runs
    BY <2>1 DEF Core, TypeOK, Runs
  <2>3. pump[r] = "unborn"
    BY <2>2 DEF Core, BornInv
  <2>4. driver'[r] = "none" /\ pump'[r] = "resolving"
    BY <2>1, <2>2, <2>3 DEF Core, TypeOK, ShapeInv, Shape, Early
  <2>5. popup'.done = FALSE /\ \A s \in Names : popup'.dots[s] = "absent"
    BY <2>1 DEF EmptyPopup
  <2> QED
    BY <2>4, <2>5 DEF Fed, Failing, Final
<1>2. CASE running /\ UNCHANGED <<runner, entityOf>> /\ popup # NoPopup /\ popup'.entity = popup.entity
  <2>1. FirstForEntity /\ runner = r
    BY <1>2 DEF FirstForEntity
  <2>2. Now(r)
    BY <1>2, <2>1 DEF FedInv
  <2>3. /\ r \in Runs /\ pump[r] # "dead" /\ ~cancelled[r] /\ popup \in Popups
        /\ Shape(r, Own(r)) /\ Ordered(r)
    BY <1>2, <2>1, PopupsRun
  <2>4. TypeOK /\ BornInv /\ pump[r] \in PumpStates /\ driver[r] \in DriverStates
    BY <2>3 DEF Core, TypeOK
  <2>5. CASE HandleUpdate
    <3> DEFINE u == Head(chan)
    <3>1. u \in Updates /\ ((u.run = r /\ popup' = Apply(popup, u)) \/ (u.run # r /\ popup' = popup))
      BY <1>2, <2>1, <2>5, TakenByPopup
    <3>2. /\ Own(r) = IF u.run = r THEN Own(r)' \cup {u} ELSE Own(r)'
          /\ u.run = r => \A v \in Own(r)' : Follows(u, v)
      BY <2>3, <2>4, <2>5, Taken
    <3>3. UNCHANGED <<pump, driver, todo>>
      BY <2>5 DEF HandleUpdate
    <3> HIDE DEF u
    <3>4. CASE u.run = r
      <4> DEFINE I == Own(r)
                 J == Own(r)'
                 pu == pump[r]
                 dr == driver[r]
                 td == todo[r]
      <4>1. /\ popup \in Popups /\ r \in Runs /\ u \in Updates /\ u.run = r /\ I = J \cup {u}
            /\ \A v \in J : Follows(u, v)
        BY <2>3, <3>1, <3>2, <3>4
      <4>2. /\ Fed(popup, r, I, pu, dr, td) /\ Shape(r, I) /\ pu # "dead"
            /\ pu \in PumpStates /\ dr \in DriverStates
            /\ pump[r] = pu /\ driver[r] = dr /\ todo[r] = td
        BY <2>2, <2>3, <2>4
      <4> HIDE DEF I, J, pu, dr, td
      <4>3. Fed(Apply(popup, u), r, J, pu, dr, td)
        BY <4>1, <4>2, FedApply
      <4> QED
        BY <3>1, <3>3, <3>4, <4>3 DEF J, pu, dr, td
    <3>5. CASE u.run # r
      BY <2>2, <3>1, <3>2, <3>3, <3>5
    <3> QED
      BY <3>4, <3>5
  <2>6. ASSUME UNCHANGED popup, Operator PROVE Fed(popup', r, Own(r)', pump'[r], driver'[r], todo'[r])
    <3>1. /\ UNCHANGED <<driver[r], todo[r]>> /\ UNCHANGED Own(r)
          /\ pump'[r] = pump[r] \/ (pump[r] = "unborn" /\ pump'[r] = "resolving")
      BY <2>3, <2>4, <2>6, OperatorRuns
    <3>2. CASE pump'[r] = pump[r]
      BY <2>2, <2>6, <3>1, <3>2
    <3>3. CASE pump[r] = "unborn" /\ pump'[r] = "resolving"
      BY <2>2, <2>3, <2>6, <3>1, <3>3 DEF Fed, Early, Failing
    <3> QED
      BY <3>1, <3>2, <3>3
  <2>7. CASE UNCHANGED vars
    <3>1. UNCHANGED Pipe(r)
      BY <2>7 DEF vars, Pipe
    <3>2. UNCHANGED Own(r)
      BY <3>1, SamePipe
    <3> QED
      BY <2>2, <2>7, <3>2 DEF vars
  <2>8. ASSUME NEW q \in Runs, q # r, Task(q), UNCHANGED popup
        PROVE  Fed(popup', r, Own(r)', pump'[r], driver'[r], todo'[r])
    BY <2>2, <2>3, <2>4, <2>8, Elsewhere
  <2>9. CASE ResolveFails(r)
    <3>1. Own(r) = {} /\ driver[r] = "none" /\ todo[r] = {} /\ UNCHANGED popup
      BY <2>3, <2>4, <2>9, ConfigFails DEF Shape, Early
    <3> DEFINE I == Own(r)'
    <3>2. /\ \E v \in I : v.kind = "Diagnosis"
          /\ \E v \in I : v.kind = "Failed" /\ v.names = {Config}
      <4>1. Update(r, "Diagnosis", {}) \in I /\ Update(r, "Failed", {Config}) \in I
        BY <2>3, <2>4, <2>9, <3>1, FailedConfig
      <4> HIDE DEF I
      <4> QED
        BY <4>1 DEF Update
    <3> HIDE DEF I
    <3>3. ~popup.done /\ \A s \in Names : popup.dots[s] \notin Final
      BY <2>2, <2>3, <2>4, <2>9, <3>1, ConfigFails DEF Fed, Early, Failing
    <3>4. Fed(popup, r, I, pump'[r], driver'[r], todo'[r])
      BY <2>3, <2>4, <2>9, <3>1, <3>2, <3>3, ConfigFails DEF Fed, Failing, Final
    <3> QED
      BY <3>1, <3>4 DEF I
  <2>10. CASE PumpProgress(r)
    <3>1. UNCHANGED Own(r) /\ UNCHANGED popup
      BY <2>3, <2>4, <2>10, PumpMoves
    <3>2. CASE UNCHANGED <<driver[r], todo[r]>> /\ pump'[r] = pump[r]
      BY <2>2, <3>1, <3>2
    <3>3. CASE UNCHANGED <<driver[r], todo[r]>> /\ pump[r] \in Early /\ pump'[r] \in Early
      BY <2>2, <3>1, <3>3 DEF Fed, Early, Failing
    <3>4. CASE UNCHANGED <<driver[r], todo[r]>> /\ pump[r] = "failing" /\ pump'[r] = "ended"
      BY <2>2, <3>1, <3>4 DEF Fed, Early, Failing
    <3>5. CASE UNCHANGED <<driver[r], todo[r]>> /\ driver[r] = "ended" /\ pump'[r] = "ended"
      <4> DEFINE I == Own(r)
                 td == todo[r]
      <4>1. Fed(popup, r, I, "ended", "ended", td)
        <5>1. Fed(popup, r, I, pump[r], "ended", td)
          BY <2>2, <3>5
        <5> HIDE DEF I, td
        <5> QED
          BY <5>1 DEF Fed, Early, Failing
      <4> QED
        BY <3>1, <3>5, <4>1
    <3>6. CASE /\ pump[r] = "connecting" /\ pump'[r] = "pumping"
               /\ driver'[r] = "loading" /\ todo'[r] = Sources
      <4>1. driver[r] = "none" /\ Own(r) = {}
        BY <2>3, <3>6 DEF Shape, Early
      <4> DEFINE I == Own(r)
      <4>2. Fed(popup, r, I, "pumping", "loading", Sources)
        <5>1. ~popup.done /\ \A s \in Names : popup.dots[s] \notin Final
          BY <2>2, <3>6, <4>1 DEF Fed, Early, Failing
        <5> HIDE DEF I
        <5> QED
          BY <5>1 DEF Fed, Failing, Final
      <4> QED
        BY <3>1, <3>6, <4>2
    <3> QED
      BY <2>3, <2>4, <2>10, <3>2, <3>3, <3>4, <3>5, <3>6, PumpMoves DEF Early
  <2>11. CASE PumpDies(r)
    BY <2>3, <2>11 DEF PumpDies
  <2>12. CASE DriverStep(r)
    <3>1. PICK u \in Updates : DriverSays(r, u)
      BY <2>3, <2>4, <2>12, DriverEmits
    <3> DEFINE I == Own(r)'
    <3>2. UNCHANGED <<popup, pump>> /\ I = Own(r) \cup {u}
      BY <3>1 DEF DriverSays
    <3> HIDE DEF I
    <3>3. ~popup.done /\ pump[r] \notin Early
      BY <2>2, <3>1 DEF DriverSays, Fed, Failing, Early
    <3>4. \A s \in Names : popup.dots[s] \in Final =>
            /\ driver'[r] # "loading" /\ s \notin todo'[r]
            /\ \A v \in I : v.kind # "Loading" /\ (v.kind \in Answers => s \notin v.names)
      BY <2>2, <3>1, <3>2 DEF DriverSays, Fed, Answers
    <3>5. driver'[r] \in {"collecting", "diagnosed", "ended"} =>
            \A s \in Sources : \/ s \in todo'[r] \/ popup.dots[s] \in Final
                               \/ \E v \in I : v.kind \in Answers /\ v.names = {s}
      BY <2>2, <2>3, <3>1, <3>2 DEF DriverSays, Fed, Shape
    <3>6. driver'[r] \in {"diagnosed", "ended"} => popup.diagOf = r \/ \E v \in I : v.kind = "Diagnosis"
      BY <2>2, <3>1, <3>2 DEF DriverSays, Fed
    <3>7. Fed(popup, r, I, pump[r], driver'[r], todo'[r])
      BY <2>2, <3>1, <3>3, <3>4, <3>5, <3>6 DEF DriverSays, Fed, Failing
    <3> QED
      BY <3>2, <3>7 DEF I
  <2>13. CASE DriverDies(r)
    BY <2>3, <2>13 DEF DriverDies
  <2>14. ASSUME NEW q \in Runs, Task(q) PROVE UNCHANGED popup
    BY <2>14 DEF Task, PumpProgress, DriverStep, ResolveFails, StartProbe, FinishProbe,
       StartStream, PumpTake, PumpSend, PumpEnds, PumpDies, DriverLoading, DriverCollected,
       DriverDiagnoses, DriverDone, DriverDies, Emit
  <2>15. CASE Operator
    <3>1. UNCHANGED popup \/ \E e : OpenCorrelatePopup(e)
      BY <1>2, <2>15 DEF Operator, OpenPanel, CorrelateRow, CorrelateLogLine, OpenChooser,
         ChooserNavigate, ChooserConfirm, ToggleCorrelateFullscreen, CloseOverlay, Quit, FirstForEntity
    <3> QED
      BY <1>1, <2>6, <2>15, <3>1
  <2> QED
    BY <2>5, <2>7, <2>8, <2>9, <2>10, <2>11, <2>12, <2>13, <2>14, <2>15 DEF Next, Task
<1>3. CASE Operator
  <2>1. CASE \E e : OpenCorrelatePopup(e)
    BY <1>1, <2>1
  <2>2. CASE CloseOverlay \/ Quit
    BY <2>2 DEF CloseOverlay, Quit, FirstForEntity
  <2>3. CASE ~(CloseOverlay \/ Quit) /\ ~(\E e : OpenCorrelatePopup(e))
    BY <1>2, <1>3, <2>3 DEF Operator, OpenPanel, CorrelateRow, CorrelateLogLine, OpenChooser,
       ChooserNavigate, ChooserConfirm, ToggleCorrelateFullscreen, FirstForEntity
  <2> QED
    BY <2>1, <2>2, <2>3
<1>4. CASE HandleUpdate
  <2>1. running /\ UNCHANGED <<runner, entityOf>>
    BY <1>4 DEF HandleUpdate
  <2>2. popup # NoPopup /\ popup'.entity = popup.entity
    BY <1>4, HeadTailProperties, ApplyType DEF HandleUpdate, Accepts, FirstForEntity, Core, TypeOK
  <2> QED
    BY <1>2, <2>1, <2>2
<1>5. ASSUME NEW q \in Runs, Task(q) PROVE running /\ UNCHANGED <<popup, runner, entityOf>>
  BY <1>5 DEF Task, PumpProgress, DriverStep, ResolveFails, StartProbe, FinishProbe,
     StartStream, PumpTake, PumpSend, PumpEnds, PumpDies, DriverLoading, DriverCollected,
     DriverDiagnoses, DriverDone, DriverDies, Emit
<1>6. CASE UNCHANGED vars
  BY <1>2, <1>6 DEF vars, FirstForEntity
<1> QED
  BY <1>2, <1>3, <1>4, <1>5, <1>6 DEF Next, FirstForEntity

(* The invariant behind the popup's promises. *)
LEMMA PopupIsFed == Spec => [](Core /\ FedInv)
<1>1. Init => BornInv /\ ShapeInv /\ FedInv
  <2> SUFFICES ASSUME Init PROVE BornInv /\ ShapeInv /\ FedInv
    OBVIOUS
  <2>1. BornInv /\ FedInv
    BY DEF Init, BornInv, FedInv, FirstForEntity
  <2>2. ASSUME NEW r \in Runs PROVE Shape(r, Own(r)) /\ Ordered(r)
    <3>1. << >> \in Seq(Updates) /\ << >> \o << >> = << >>
      BY ConcatEmptySeq
    <3>2. Pipe(r) = << >>
      BY <3>1 DEF Init, Pipe
    <3>3. Own(r) = {} /\ Ordered(r)
      BY <3>2 DEF Own, Ordered, Items, InOrder
    <3> QED
      BY <3>3 DEF Init, Shape, Early
  <2> QED
    BY <2>1, <2>2 DEF ShapeInv
<1>2. Core /\ FedInv /\ [Next]_vars => BornInv' /\ ShapeInv' /\ FedInv'
  BY BornStep, ShapeStep, FedStep DEF Core
<1> QED
  BY <1>1, <1>2, CoreHolds, PTL DEF Spec, Core

(* A popup that says it is done is complete (apply_correlate_update): its  *)
(* pipe is empty, so whatever the driver said has been shown, and it has   *)
(* ended, so it has said everything.                                       *)
THEOREM DoneShowsEverything == Spec => []DoneIsComplete
<1>1. Core /\ FedInv => DoneIsComplete
  <2> SUFFICES ASSUME Core, FedInv, running, FirstForEntity, popup.done
               PROVE  /\ popup.diagOf = runner
                      /\ \/ popup.dots[Config] = "failed"
                         \/ \A s \in Sources :
                              \/ popup.dots[s] = "landed" /\ <<runner, s>> \in popup.events
                              \/ popup.dots[s] = "failed" /\ <<runner, s>> \in popup.errors
    BY DEF DoneIsComplete
  <2>1. Fed(popup, runner, Own(runner), pump[runner], driver[runner], todo[runner])
    BY DEF FedInv
  <2>2. Shape(runner, Own(runner))
    BY PopupsRun
  <2>3. Own(runner) = {} /\ (driver[runner] = "ended" \/ Failing(pump[runner], driver[runner]))
    BY <2>1 DEF Fed
  <2>4. popup.diagOf = runner
    BY <2>1, <2>3 DEF Fed
  <2>5. CASE driver[runner] = "ended"
    <3>1. todo[runner] = {}
      BY <2>2, <2>5 DEF Shape
    <3>2. \A s \in Sources : s \in Names /\ popup.dots[s] \in Final
      BY <2>1, <2>3, <2>5, <3>1 DEF Fed, Names
    <3> QED
      BY <2>1, <2>4, <3>2 DEF Fed, Final
  <2>6. CASE Failing(pump[runner], driver[runner])
    BY <2>1, <2>3, <2>4, <2>6 DEF Fed
  <2> QED
    BY <2>3, <2>5, <2>6
<1> QED
  BY <1>1, PopupIsFed, PTL

(* A settled dot never moves again (mark_source): an update on its way     *)
(* after a Source's answer neither restarts the round nor answers again.   *)
THEOREM SettledDotsStay == Spec => DotsSettle
<1> DEFINE Stay == \A s \in Sources :
                     FirstForEntity /\ popup' # NoPopup /\ runner' = runner
                     /\ popup.dots[s] \in {"landed", "failed"} => popup'.dots[s] = popup.dots[s]
<1>1. Core /\ FedInv /\ [Next]_vars => [Stay]_vars
  <2> SUFFICES ASSUME Core, FedInv, Next, FirstForEntity, popup' # NoPopup, runner' = runner,
                      NEW s \in Sources, popup.dots[s] \in Final
               PROVE  popup'.dots[s] = popup.dots[s]
    BY DEF Final
  <2>1. CASE HandleUpdate
    <3> DEFINE u == Head(chan)
               r == runner
    <3>1. running
      BY <2>1 DEF HandleUpdate
    <3>2. /\ r \in Runs /\ popup \in Popups /\ Ordered(r) /\ TypeOK
          /\ Fed(popup, r, Own(r), pump[r], driver[r], todo[r])
      BY <3>1, PopupsRun DEF FedInv, Core
    <3>3. u \in Updates /\ ((u.run = r /\ popup' = Apply(popup, u)) \/ (u.run # r /\ popup' = popup))
      BY <2>1, <3>1, TakenByPopup
    <3>4. u.run = r => u \in Own(r)
      BY <2>1, <3>2, Taken
    <3> HIDE DEF u
    <3>5. CASE u.run = r
      <4>1. s \in Names /\ u.kind # "Loading" /\ (u.kind \in Answers => s \notin u.names)
        BY <3>2, <3>4, <3>5 DEF Fed, Names
      <4> QED
        BY <3>2, <3>3, <3>5, <4>1, Applied DEF Updates, Answers
    <3> QED
      BY <3>3, <3>5
  <2>2. CASE Operator
    <3>1. ~(\E e : OpenCorrelatePopup(e))
      BY DEF OpenCorrelatePopup, Core, BornInv, TypeOK, Runs
    <3> QED
      BY <2>2, <3>1 DEF Operator, OpenPanel, CorrelateRow, CorrelateLogLine, OpenChooser,
         ChooserNavigate, ChooserConfirm, ToggleCorrelateFullscreen, CloseOverlay, Quit
  <2>3. ASSUME NEW q \in Runs, Task(q) PROVE UNCHANGED popup
    BY <2>3 DEF Task, PumpProgress, DriverStep, ResolveFails, StartProbe, FinishProbe,
       StartStream, PumpTake, PumpSend, PumpEnds, PumpDies, DriverLoading, DriverCollected,
       DriverDiagnoses, DriverDone, DriverDies, Emit, uiVars
  <2> QED
    BY <2>1, <2>2, <2>3 DEF Next
<1> QED
  BY <1>1, PopupIsFed, PTL DEF Spec, DotsSettle
=============================================================================
