-------------------------- MODULE OpsReducerProofs -------------------------
(***************************************************************************)
(* The reducer of `nico ops`, for every session, every sequence of rounds  *)
(* and every width: the indices it keeps point at what exists, an overlay, *)
(* its popup and its chooser belong together, and Esc leads home.  Most    *)
(* arms leave most of this alone (SameFocus, SameOverlay); each of the     *)
(* others has a lemma of its own.                                          *)
(***************************************************************************)
EXTENDS OpsMainProofs, WellFoundedInduction

USE NavAssumption, SessionAssumption

(* How many incident cards a round has: Spotlight lists its troubles. *)
Troubles(snaps) == Cardinality({i \in DOMAIN snaps : snaps[i].status \notin Good})

(* Every card has finitely many findings. *)
FindingsOK(snaps) == \A i \in DOMAIN snaps : snaps[i].findings \in Seq(ToSet(snaps[i].findings))

(* Both focuses are on a card, in terms of the fields of the reducer's     *)
(* state they depend on.  The inductive form names their domain and types. *)
FocusOK(a) ==
  /\ {"focus", "spotlightFocus", "snaps"} \subseteq DOMAIN a
  /\ a.focus \in Nat /\ a.spotlightFocus \in Nat /\ a.snaps \in Seq(ToSet(a.snaps))
  /\ FindingsOK(a.snaps)
  /\ a.snaps = << >> \/ a.focus < Len(a.snaps)
  /\ a.spotlightFocus < Troubles(a.snaps) \/ (a.spotlightFocus = 0 /\ Troubles(a.snaps) = 0)

(* b differs from a in other fields only. *)
SameFocus(a, b) ==
  DOMAIN b = DOMAIN a /\ b.focus = a.focus /\ b.snaps = a.snaps /\ b.spotlightFocus = a.spotlightFocus

(* a has the three fields. *)
Fits(a) == {"focus", "spotlightFocus", "snaps"} \subseteq DOMAIN a

(* There are finitely many incident cards, one for every trouble. *)
LEMMA CardsAreTroubles ==
  ASSUME NEW a, a.snaps \in Seq(ToSet(a.snaps))
  PROVE  /\ Troubles(a.snaps) \in Nat /\ Len(Cards(a)) = Troubles(a.snaps)
         /\ Cards(a) = << >> <=> Troubles(a.snaps) = 0
<1> DEFINE idx == {i \in DOMAIN a.snaps : a.snaps[i].status \notin Good}
           n == Cardinality(idx)
           order == Sorted(idx, {p \in idx \X idx : Precedes(a, p[1], p[2])})
           cards == [k \in DOMAIN order |-> a.snaps[order[k]]]
<1>1. n \in Nat
  <2>1. DOMAIN a.snaps = 1 .. Len(a.snaps) /\ Len(a.snaps) \in Nat
    OBVIOUS
  <2>2. IsFiniteSet(DOMAIN a.snaps)
    BY <2>1, FS_Interval
  <2>3. idx \subseteq DOMAIN a.snaps
    OBVIOUS
  <2> HIDE DEF idx
  <2> QED
    BY <2>2, <2>3, FS_Subset, FS_CardinalityType
<1>2. DOMAIN order = 1 .. n
  BY DEF Sorted
<1>3. Cards(a) = cards /\ Troubles(a.snaps) = n
  BY DEF Cards, Troubles
<1> HIDE DEF n, order
<1>4. DOMAIN cards = 1 .. n
  BY <1>2
<1>5. Len(cards) = n /\ (n = 0 <=> cards = << >>)
  BY <1>1, <1>4
<1> QED
  BY <1>1, <1>3, <1>5

(* A step that leaves the focus and the cards alone keeps the focus right. *)
LEMMA SameFocusOK == ASSUME NEW a, NEW b, FocusOK(a), SameFocus(a, b) PROVE FocusOK(b)
BY DEF FocusOK, SameFocus

(* Two such steps in a row are one. *)
LEMMA Chained == ASSUME NEW a, NEW b, NEW c, SameFocus(a, b), SameFocus(b, c) PROVE SameFocus(a, c)
BY DEF SameFocus

(* The reducer's small helpers leave the focus alone. *)
LEMMA Small ==
  ASSUME NEW a, Fits(a)
  PROVE  /\ SameFocus(a, a) /\ SameFocus(a, Dirty(a)) /\ SameFocus(a, SetToast(a))
         /\ \A eff : SameFocus(a, Asks(a, eff))
         /\ \A overlay : SameFocus(a, Opens(a, overlay))
BY DEF SameFocus, Fits, Dirty, Asks, SetToast, Opens

(* Scrolling any of the three offsets leaves the focus alone. *)
LEMMA ScrollSame ==
  ASSUME NEW a, Fits(a), NEW field \in {"overlayScroll", "logsScroll", "drillScroll"}, NEW dir
  PROVE  SameFocus(a, ScrollField(a, field, dir))
BY DEF SameFocus, Fits, Dirty, ScrollField

(* So do the arms that toggle a flag or open and close an overlay. *)
LEMMA Toggles ==
  ASSUME NEW a, Fits(a)
  PROVE  /\ SameFocus(a, Refresh(a)) /\ SameFocus(a, TogglePause(a)) /\ SameFocus(a, ToggleMouseCapture(a))
         /\ SameFocus(a, ShowAll(a))
         /\ SameFocus(a, OpenDetail(a)) /\ SameFocus(a, OpenHelp(a)) /\ SameFocus(a, ShowLogs(a))
         /\ SameFocus(a, CloseOverlay(a))
         /\ \A lines : SameFocus(a, LogLinesArm(a, lines))
BY DEF SameFocus, Fits, Dirty, Asks, Opens, Refresh, TogglePause, ToggleMouseCapture, ShowAll,
  OpenDetail, OpenHelp, ShowLogs, CloseOverlay, LogLinesArm

(* The focus of Spotlight steps from card to card; the layout opens on the *)
(* first.                                                                  *)
LEMMA SpotlightKeeps ==
  ASSUME NEW a, FocusOK(a)
  PROVE  FocusOK(ShowSpotlight(a)) /\ \A dir : FocusOK(FocusSpotlight(a, dir))
<1>1. /\ Troubles(a.snaps) \in Nat /\ Len(Cards(a)) = Troubles(a.snaps)
      /\ {"focus", "spotlightFocus", "snaps"} \subseteq DOMAIN a
      /\ a.focus \in Nat /\ a.spotlightFocus \in Nat /\ a.snaps \in Seq(ToSet(a.snaps))
      /\ a.spotlightFocus < Troubles(a.snaps) \/ (a.spotlightFocus = 0 /\ Troubles(a.snaps) = 0)
  BY CardsAreTroubles DEF FocusOK
<1>2. ASSUME NEW b, NEW m \in Nat, m < Troubles(a.snaps) \/ (m = 0 /\ Troubles(a.snaps) = 0),
             DOMAIN b = DOMAIN a, b.focus = a.focus, b.snaps = a.snaps, b.spotlightFocus = m
      PROVE  FocusOK(b)
  BY <1>2 DEF FocusOK
<1>3. FocusOK(ShowSpotlight(a))
  <2> DEFINE b == [Dirty(a) EXCEPT !.layout = "Spotlight", !.spotlightFocus = 0]
  <2>1. ShowSpotlight(a) \in {a, b}
    BY DEF ShowSpotlight
  <2>2. DOMAIN b = DOMAIN a /\ b.focus = a.focus /\ b.snaps = a.snaps /\ b.spotlightFocus = 0
    BY <1>1 DEF Dirty
  <2>3. 0 \in Nat /\ (0 < Troubles(a.snaps) \/ Troubles(a.snaps) = 0)
    BY <1>1
  <2> HIDE DEF b
  <2>4. FocusOK(b)
    BY <1>2, <2>2, <2>3
  <2> QED
    BY <2>1, <2>4
<1>4. ASSUME NEW dir PROVE FocusOK(FocusSpotlight(a, dir))
  <2> DEFINE n == Len(Cards(a))
             next == IF dir = "Up" THEN IF a.spotlightFocus = 0 THEN 0 ELSE a.spotlightFocus - 1
                     ELSE IF a.spotlightFocus + 1 < n THEN a.spotlightFocus + 1 ELSE n - 1
             b == [Dirty(a) EXCEPT !.spotlightFocus = next]
  <2>1. FocusSpotlight(a, dir) = a \/ (n # 0 /\ FocusSpotlight(a, dir) = b)
    BY DEF FocusSpotlight
  <2>2. n # 0 => next \in Nat /\ next < Troubles(a.snaps)
    <3> HIDE DEF n
    <3>1. n = Troubles(a.snaps)
      BY <1>1 DEF n
    <3> QED
      BY <1>1, <3>1
  <2> HIDE DEF next
  <2>3. DOMAIN b = DOMAIN a /\ b.focus = a.focus /\ b.snaps = a.snaps /\ b.spotlightFocus = next
    BY <1>1 DEF Dirty
  <2> HIDE DEF b
  <2>4. n # 0 => FocusOK(b)
    BY <1>2, <2>2, <2>3
  <2> QED
    BY <2>1, <2>4
<1> QED
  BY <1>3, <1>4

(* So does switching the popup to full screen and back. *)
LEMMA ToggleFull == ASSUME NEW a, Fits(a) PROVE SameFocus(a, ToggleFullscreen(a))
<1>1. ToggleFullscreen(a) = a \/ \E o : ToggleFullscreen(a) = Opens(a, o)
  BY Zenon DEF ToggleFullscreen
<1> QED BY <1>1, Small

(* So does a tick. *)
LEMMA TickSame == ASSUME NEW a, NEW due, Fits(a) PROVE SameFocus(a, TickArm(a, due))
BY DEF SameFocus, Fits, Dirty, Asks, TickArm

(* So do the popup and the chooser, whatever they are opened on. *)
LEMMA PopupSame ==
  ASSUME NEW a, Fits(a)
  PROVE  /\ \A entity : SameFocus(a, OpenPopup(a, entity))
         /\ \A entities : SameFocus(a, OpenChooser(a, entities))
         /\ \A entity, u : SameFocus(a, CorrelateUpdate(a, entity, u))
         /\ \A dir : SameFocus(a, ChooserNavigate(a, dir))
<1>1. \A entity : SameFocus(a, OpenPopup(a, entity))
  BY DEF SameFocus, Fits, Dirty, Asks, Opens, OpenPopup
<1>2. \A entities : SameFocus(a, OpenChooser(a, entities))
  BY DEF SameFocus, Fits, Dirty, Opens, OpenChooser
<1>3. \A entity, u : SameFocus(a, CorrelateUpdate(a, entity, u))
  BY DEF SameFocus, Fits, Dirty, CorrelateUpdate
<1>4. ASSUME NEW dir PROVE SameFocus(a, ChooserNavigate(a, dir))
  <2>1. ChooserNavigate(a, dir) = a \/ \E n : ChooserNavigate(a, dir) = [Dirty(a) EXCEPT !.chooser.focus = n]
    BY Zenon DEF ChooserNavigate
  <2> QED
    BY <2>1 DEF SameFocus, Fits, Dirty
<1> QED
  BY <1>1, <1>2, <1>3, <1>4

(* So does confirming a choice, which closes the chooser and opens the popup. *)
LEMMA ConfirmSame == ASSUME NEW a, Fits(a) PROVE SameFocus(a, ChooserConfirm(a))
<1> DEFINE b == [Opens(a, "None") EXCEPT !.chooser = NoChooser]
<1>1. Fits(b) /\ SameFocus(a, b)
  BY DEF Fits, SameFocus, Opens, Dirty
<1>2. \A e : SameFocus(b, OpenPopup(b, e))
  BY <1>1, PopupSame
<1>3. ChooserConfirm(a) = a \/ \E e : ChooserConfirm(a) = OpenPopup(b, e)
  BY DEF ChooserConfirm
<1> HIDE DEF b
<1> QED
  BY <1>1, <1>2, <1>3, Small, Chained

(* So does the drill-in that picks between a toast, the popup and the chooser. *)
LEMMA DispatchSame ==
  ASSUME NEW a, NEW b, Fits(a), SameFocus(a, b), NEW entities
  PROVE  SameFocus(a, Dispatch(a, b, entities))
<1>1. Fits(b)
  BY DEF Fits, SameFocus
<1>2. 0 # 1
  OBVIOUS
<1>3. \/ Dispatch(a, b, entities) = SetToast(a)
      \/ Dispatch(a, b, entities) = OpenPopup(b, entities[1])
      \/ Dispatch(a, b, entities) = OpenChooser(b, entities)
  BY <1>2, Zenon DEF Dispatch
<1> QED
  BY <1>1, <1>3, Small, PopupSame, Chained

(* So does `c`, in the logs overlay and outside it. *)
LEMMA CorrelateSame == ASSUME NEW a, Fits(a) PROVE SameFocus(a, CorrelateArm(a))
<1>1. SameFocus(a, CorrelateLogLine(a))
  BY Small, DispatchSame DEF CorrelateLogLine
<1>2. \/ CorrelateArm(a) = CorrelateLogLine(a) \/ CorrelateArm(a) = a \/ CorrelateArm(a) = SetToast(a)
      \/ \E e : CorrelateArm(a) = OpenPopup(a, e)
  BY Zenon DEF CorrelateArm
<1> QED
  BY <1>1, <1>2, Small, PopupSame

(* So do copying the next command and opening the link of a card. *)
LEMMA CardSame == ASSUME NEW a, Fits(a) PROVE SameFocus(a, CopyNextCommand(a)) /\ SameFocus(a, OpenLink(a))
<1>1. CopyNextCommand(a) \in {a, Asks(a, "CopyToClipboard"), SetToast(a)}
  BY Zenon DEF CopyNextCommand
<1>2. OpenLink(a) \in {a, Asks(a, "OpenUrl"), SetToast(a)}
  BY Zenon DEF OpenLink
<1> QED
  BY <1>1, <1>2, Small

(* So does the wheel. *)
LEMMA ScrollArmSame == ASSUME NEW a, Fits(a), NEW dir PROVE SameFocus(a, ScrollArm(a, dir))
<1>1. \/ ScrollArm(a, dir) = a
      \/ \E field \in {"overlayScroll", "logsScroll", "drillScroll"} : ScrollArm(a, dir) = ScrollField(a, field, dir)
  BY Zenon DEF ScrollArm
<1> QED
  BY <1>1, Small, ScrollSame

-----------------------------------------------------------------------------
(* A move over the grid, stale focus or not, ends on a card. *)
LEMMA MovedInRange ==
  ASSUME NEW a, FocusOK(a), NEW dir
  PROVE  Moved(a, dir) \in Nat /\ (a.snaps = << >> \/ Moved(a, dir) < Len(a.snaps))
<1> DEFINE n == Len(a.snaps)
           cur == IF a.focus < n THEN a.focus ELSE n - 1
<1>1. n \in Nat /\ a.focus \in Nat /\ (n = 0 <=> a.snaps = << >>)
  BY DEF FocusOK
<1>2. n > 0 => cur \in Nat /\ cur < n
  BY <1>1
<1>3. n > 0 <=> n # 0
  BY <1>1
<1>4. \/ n = 0 /\ Moved(a, dir) = a.focus
      \/ dir = "Left"  /\ n > 0 /\ Moved(a, dir) = IF cur % GridCols = 0 THEN a.focus ELSE cur - 1
      \/ dir = "Right" /\ n > 0 /\ Moved(a, dir) = IF cur + 1 >= n \/ (cur + 1) % GridCols = 0 THEN a.focus ELSE cur + 1
      \/ dir = "Up"    /\ n > 0 /\ Moved(a, dir) = IF cur < GridCols THEN a.focus ELSE cur - GridCols
      \/ n > 0 /\ Moved(a, dir) = IF cur + GridCols >= n THEN a.focus ELSE cur + GridCols
  BY <1>1, <1>3, Zenon DEF Moved
<1> QED
  BY <1>1, <1>2, <1>4 DEF FocusOK, GridCols

(* Moving over the grid keeps the focus on a card. *)
LEMMA GridKeeps == ASSUME NEW a, FocusOK(a), NEW dir PROVE FocusOK(FocusGrid(a, dir))
<1>1. \/ FocusGrid(a, dir) = a
      \/ FocusGrid(a, dir) = [Dirty(a) EXCEPT !.focus = Moved(a, dir)]
      \/ FocusGrid(a, dir) = [[Dirty(a) EXCEPT !.focus = Moved(a, dir)] EXCEPT !.logsScroll = 0]
  BY DEF FocusGrid
<1> DEFINE m == Moved(a, dir)
<1>2. m \in Nat /\ (a.snaps = << >> \/ m < Len(a.snaps))
  BY MovedInRange
<1> HIDE DEF m
<1>3. CASE FocusGrid(a, dir) = [Dirty(a) EXCEPT !.focus = m]
  BY <1>2, <1>3 DEF FocusOK, Dirty
<1>4. CASE FocusGrid(a, dir) = [[Dirty(a) EXCEPT !.focus = m] EXCEPT !.logsScroll = 0]
  BY <1>2, <1>4 DEF FocusOK, Dirty
<1> QED
  BY <1>1, <1>3, <1>4 DEF m

(* An arrow key does, whichever of the four things it moves. *)
LEMMA FocusArmKeeps == ASSUME NEW a, FocusOK(a), NEW dir PROVE FocusOK(FocusArm(a, dir))
<1>1. \/ FocusArm(a, dir) = a \/ FocusArm(a, dir) = FocusSpotlight(a, dir)
      \/ FocusArm(a, dir) = ScrollField(a, "logsScroll", dir) \/ FocusArm(a, dir) = FocusGrid(a, dir)
  <2>1. LogsDominant(a) => a.layout # "Spotlight"
    BY DEF LogsDominant
  <2> QED
    BY <2>1, Zenon DEF FocusArm
<1>2. Fits(a)
  BY DEF FocusOK, Fits
<1> QED
  BY <1>1, <1>2, SpotlightKeeps, ScrollSame, GridKeeps, SameFocusOK

(* The least of a non-empty set of naturals is one of them. *)
LEMMA MinOf == ASSUME NEW S \in SUBSET Nat, S # {} PROVE Min(S) \in S /\ \A y \in S : Min(S) <= y
<1> DEFINE less == OpToRel(<, Nat)
<1>1. \E x \in S : \A y \in S : ~(<<y, x>> \in less)
  <2> HIDE DEF less
  <2>1. IsWellFoundedOn(less, Nat)
    BY NatLessThanWellFounded DEF less
  <2> QED
    BY <2>1, WFMin
<1>2. \A x, y \in S : <<y, x>> \in less <=> y < x
  BY DEF OpToRel
<1>3. PICK x \in S : \A y \in S : ~(<<y, x>> \in less)
  BY <1>1
<1>4. \A y \in S : ~(y < x)
  <2> HIDE DEF less
  <2> QED
    BY <1>2, <1>3
<1>5. \A y \in S : x <= y
  BY <1>4
<1> QED
  BY <1>5 DEF Min

(* A click lands on a card that the round still has, or does nothing. *)
LEMMA ClickKeeps == ASSUME NEW a, FocusOK(a), NEW cell PROVE FocusOK(Click(a, cell))
<1> DEFINE hits == {i \in 1 .. Len(a.regions) : a.regions[i] = cell}
           hit  == SelectInSeq(a.regions, LAMBDA r : r = cell)
<1>1. hit \in Nat
  <2>1. hits \in SUBSET Nat
    OBVIOUS
  <2>2. hit = IF hits # {} THEN Min(hits) ELSE 0
    BY DEF SelectInSeq
  <2> HIDE DEF hits
  <2> QED
    BY <2>1, <2>2, MinOf
<1>2. \/ Click(a, cell) = a
      \/ hit > 0 /\ hit <= Len(a.snaps)
         /\ Click(a, cell) = [Dirty(a) EXCEPT !.focus = hit - 1, !.drillScroll = 0, !.logsScroll = 0]
  BY DEF Click
<1> HIDE DEF hit
<1>3. ASSUME hit > 0, hit <= Len(a.snaps),
             Click(a, cell) = [Dirty(a) EXCEPT !.focus = hit - 1, !.drillScroll = 0, !.logsScroll = 0]
      PROVE  FocusOK(Click(a, cell))
  BY <1>1, <1>3 DEF FocusOK, Dirty
<1> QED
  BY <1>2, <1>3

(* A round clamps the grid focus before it replaces the cards, and the     *)
(* focus of Spotlight after.                                               *)
LEMMA SnapshotsKeep ==
  ASSUME NEW a, FocusOK(a), NEW snaps, snaps \in Seq(ToSet(snaps)), FindingsOK(snaps)
  PROVE  FocusOK(SnapshotsArm(a, snaps))
<1> DEFINE b == [Dirty(a) EXCEPT !.focus = ClampFocus(a, Len(snaps)),
                     !.pulses = PulsesAfter(a, snaps),
                     !.prevStatus = PrevStatusAfter(a, snaps),
                     !.history = RingPush(@, RunStat(snaps)),
                     !.snaps = snaps, !.refreshing = FALSE, !.refreshed = TRUE,
                     !.armed = @ \/ a.ticked,
                     !.deltas = Deltas(snaps)]
           n == Len(Cards(b))
           m == IF n = 0 THEN 0 ELSE IF b.spotlightFocus >= n THEN n - 1 ELSE b.spotlightFocus
           c == [b EXCEPT !.spotlightFocus = m]
<1>1. Len(snaps) \in Nat /\ (Len(snaps) = 0 <=> snaps = << >>)
  OBVIOUS
<1>2. ClampFocus(a, Len(snaps)) \in Nat /\ (snaps = << >> \/ ClampFocus(a, Len(snaps)) < Len(snaps))
  BY <1>1 DEF ClampFocus, FocusOK
<1>3. DOMAIN b = DOMAIN a /\ b.focus = ClampFocus(a, Len(snaps)) /\ b.snaps = snaps
      /\ b.spotlightFocus = a.spotlightFocus
  BY DEF FocusOK, Dirty
<1>4. SnapshotsArm(a, snaps) = ClampSpotlight(b)
  BY DEF SnapshotsArm
<1> HIDE DEF b
<1>5. ClampSpotlight(b) = c
  BY DEF ClampSpotlight
<1>6. n = Troubles(snaps) /\ n \in Nat
  BY <1>3, CardsAreTroubles
<1> HIDE DEF n
<1>7. m \in Nat /\ (m < n \/ (m = 0 /\ n = 0))
  BY <1>3, <1>6 DEF FocusOK
<1> HIDE DEF m
<1>8. DOMAIN c = DOMAIN a /\ c.focus = ClampFocus(a, Len(snaps)) /\ c.snaps = snaps /\ c.spotlightFocus = m
  BY <1>3 DEF FocusOK
<1> HIDE DEF c
<1>9. FocusOK(c)
  BY <1>2, <1>6, <1>7, <1>8 DEF FocusOK
<1> QED
  BY <1>4, <1>5, <1>9

-----------------------------------------------------------------------------
(* Every arm of the reducer keeps the focus on a card. *)
LEMMA HandleKeeps == ASSUME NEW a, FocusOK(a), NEW action PROVE FocusOK(Handle(a, action))
<1> DEFINE h == Handle(a, action)
<1>1. \/ h = a \/ h = Refresh(a) \/ h = OpenDetail(a) \/ h = OpenHelp(a) \/ h = ShowLogs(a)
      \/ h = CloseOverlay(a) \/ h = Dirty(a) \/ h = TogglePause(a) \/ h = ToggleMouseCapture(a)
      \/ h = ShowSpotlight(a) \/ h = ShowAll(a) \/ h = SetToast(a) \/ h = Asks(a, "Quit")
      \/ h = CopyNextCommand(a) \/ h = OpenLink(a) \/ h = CorrelateArm(a) \/ h = ChooserConfirm(a)
      \/ h = ToggleFullscreen(a) \/ h = FocusArm(a, action.dir) \/ h = ScrollArm(a, action.dir)
      \/ h = ChooserNavigate(a, action.dir) \/ h = Click(a, action.cell)
  BY ZenonT(120) DEF Handle
<1>2. Fits(a)
  BY DEF FocusOK, Fits
<1> HIDE DEF h
<1>3. ASSUME \/ h = CopyNextCommand(a) \/ h = OpenLink(a) \/ h = CorrelateArm(a) \/ h = ChooserConfirm(a)
             \/ h = ToggleFullscreen(a) \/ h = ScrollArm(a, action.dir) \/ h = ChooserNavigate(a, action.dir)
      PROVE  FocusOK(h)
  BY <1>2, <1>3, CardSame, CorrelateSame, ConfirmSame, ToggleFull, ScrollArmSame, PopupSame, SameFocusOK
<1>4. ASSUME h = FocusArm(a, action.dir) \/ h = Click(a, action.cell) \/ h = ShowSpotlight(a) PROVE FocusOK(h)
  BY <1>4, FocusArmKeeps, ClickKeeps, SpotlightKeeps
<1>5. FocusOK(h)
  BY <1>1, <1>2, <1>3, <1>4, Small, Toggles, SameFocusOK
<1> QED
  BY <1>5 DEF h

-----------------------------------------------------------------------------
(* The overlays, the popup and the chooser.                                *)
Overlays      == {"None", "Detail", "Help", "Logs", "Correlate", "CorrelateFullscreen", "CorrelateChooser"}
PopupOverlays == {"Correlate", "CorrelateFullscreen"}

(* a has the fields that the overlays are about. *)
Covers(a) == {"overlay", "layout", "popup", "chooser", "logs", "logsScroll", "effect"} \subseteq DOMAIN a

(* A chooser that is open has a choice under its focus. *)
ChooserOK(c) ==
  \/ c = NoChooser
  \/ /\ c.open = TRUE
     /\ {"open", "entities", "focus"} \subseteq DOMAIN c
     /\ Len(c.entities) \in Nat /\ c.focus \in Nat /\ c.focus < Len(c.entities)

(* Log lines are finitely many finite texts. *)
TextsOK(lines) == lines \in Seq(ToSet(lines)) /\ \A text \in ToSet(lines) : text \in Seq(ToSet(text))

(* The marker of the overlay, the popup and the chooser belong together.   *)
OverlayOK(a) ==
  /\ Covers(a)
  /\ a.layout \in {"Scorecard", "Spotlight"} /\ a.overlay \in Overlays
  /\ "open" \in DOMAIN a.popup /\ a.popup.open \in BOOLEAN
  /\ a.popup.open <=> a.overlay \in PopupOverlays
  /\ ChooserOK(a.chooser)
  /\ a.chooser.open = (a.overlay = "CorrelateChooser")
  /\ TextsOK(a.logs) /\ a.logsScroll \in Nat

(* b differs from a in other fields only, but for where the logs are read. *)
SameOverlay(a, b) ==
  /\ DOMAIN b = DOMAIN a
  /\ b.layout = a.layout /\ b.overlay = a.overlay /\ b.popup = a.popup /\ b.chooser = a.chooser
  /\ b.logs = a.logs /\ (a.logsScroll \in Nat => b.logsScroll \in Nat)

(* A step that leaves these fields alone keeps them right. *)
LEMMA SameOverlayOK == ASSUME NEW a, NEW b, OverlayOK(a), SameOverlay(a, b) PROVE OverlayOK(b)
BY DEF OverlayOK, SameOverlay, Covers

(* Two such steps in a row are one. *)
LEMMA OverlayChained ==
  ASSUME NEW a, NEW b, NEW c, SameOverlay(a, b), SameOverlay(b, c) PROVE SameOverlay(a, c)
BY DEF SameOverlay

(* The reducer's small helpers leave the overlays alone. *)
LEMMA SmallOverlay ==
  ASSUME NEW a, Covers(a)
  PROVE  /\ SameOverlay(a, a) /\ SameOverlay(a, Dirty(a)) /\ SameOverlay(a, SetToast(a))
         /\ \A eff : SameOverlay(a, Asks(a, eff))
BY DEF SameOverlay, Covers, Dirty, Asks, SetToast

(* So does scrolling, which keeps an offset an offset. *)
LEMMA ScrollOverlay ==
  ASSUME NEW a, Covers(a), NEW field \in {"overlayScroll", "logsScroll", "drillScroll"}, NEW dir
  PROVE  SameOverlay(a, ScrollField(a, field, dir))
<1>1. \A x \in Nat : ScrolledTo(x, dir) \in Nat
  BY DEF ScrolledTo
<1> DEFINE n == ScrolledTo(a[field], dir)
<1>2. ScrollField(a, field, dir) = a \/ ScrollField(a, field, dir) = [Dirty(a) EXCEPT ![field] = n]
  BY DEF ScrollField
<1>3. field = "logsScroll" /\ a.logsScroll \in Nat => n \in Nat
  BY <1>1
<1> HIDE DEF n
<1>4. SameOverlay(a, [Dirty(a) EXCEPT ![field] = n])
  BY <1>3 DEF SameOverlay, Covers, Dirty
<1> QED
  BY <1>2, <1>4, SmallOverlay

(* So do the arms that toggle a flag, move a focus or take a tick. *)
LEMMA TogglesOverlay ==
  ASSUME NEW a, Covers(a)
  PROVE  /\ SameOverlay(a, Refresh(a)) /\ SameOverlay(a, TogglePause(a)) /\ SameOverlay(a, ToggleMouseCapture(a))
         /\ \A dir : SameOverlay(a, FocusSpotlight(a, dir))
         /\ \A dir : SameOverlay(a, FocusGrid(a, dir))
         /\ \A cell : SameOverlay(a, Click(a, cell))
         /\ \A due : SameOverlay(a, TickArm(a, due))
<1>1. /\ SameOverlay(a, Refresh(a)) /\ SameOverlay(a, TogglePause(a)) /\ SameOverlay(a, ToggleMouseCapture(a))
  BY DEF SameOverlay, Covers, Dirty, Asks, Refresh, TogglePause, ToggleMouseCapture
<1>2. ASSUME NEW dir PROVE SameOverlay(a, FocusSpotlight(a, dir))
  <2>1. FocusSpotlight(a, dir) = a \/ \E n : FocusSpotlight(a, dir) = [Dirty(a) EXCEPT !.spotlightFocus = n]
    BY Zenon DEF FocusSpotlight
  <2> QED
    BY <2>1 DEF SameOverlay, Covers, Dirty
<1>3. ASSUME NEW dir PROVE SameOverlay(a, FocusGrid(a, dir))
  <2> DEFINE m == Moved(a, dir)
  <2>1. \/ FocusGrid(a, dir) = a
        \/ FocusGrid(a, dir) = [Dirty(a) EXCEPT !.focus = m]
        \/ FocusGrid(a, dir) = [[Dirty(a) EXCEPT !.focus = m] EXCEPT !.logsScroll = 0]
    BY DEF FocusGrid
  <2> HIDE DEF m
  <2>2. SameOverlay(a, [Dirty(a) EXCEPT !.focus = m])
    BY DEF SameOverlay, Covers, Dirty
  <2> DEFINE b == [[Dirty(a) EXCEPT !.focus = m] EXCEPT !.logsScroll = 0]
  <2>3. SameOverlay(a, b)
    <3>1. b.logsScroll = 0 /\ b.layout = a.layout /\ b.overlay = a.overlay /\ b.popup = a.popup
      BY DEF Covers, Dirty
    <3>2. b.chooser = a.chooser /\ b.logs = a.logs /\ DOMAIN b = DOMAIN a
      BY DEF Covers, Dirty
    <3> HIDE DEF b
    <3> QED
      BY <3>1, <3>2 DEF SameOverlay
  <2> QED
    BY <2>1, <2>2, <2>3, SmallOverlay
<1>4. ASSUME NEW cell PROVE SameOverlay(a, Click(a, cell))
  <2>1. \/ Click(a, cell) = a
        \/ \E n : Click(a, cell) = [Dirty(a) EXCEPT !.focus = n, !.drillScroll = 0, !.logsScroll = 0]
    BY Zenon DEF Click
  <2>2. ASSUME NEW n PROVE SameOverlay(a, [Dirty(a) EXCEPT !.focus = n, !.drillScroll = 0, !.logsScroll = 0])
    <3> DEFINE b == [Dirty(a) EXCEPT !.focus = n, !.drillScroll = 0, !.logsScroll = 0]
    <3>1. b.logsScroll = 0 /\ b.layout = a.layout /\ b.overlay = a.overlay /\ b.popup = a.popup
      BY DEF Covers, Dirty
    <3>2. b.chooser = a.chooser /\ b.logs = a.logs /\ DOMAIN b = DOMAIN a
      BY DEF Covers, Dirty
    <3>3. SameOverlay(a, b)
      <4> HIDE DEF b
      <4> QED
        BY <3>1, <3>2 DEF SameOverlay
    <3> QED
      BY <3>3
  <2> QED
    BY <2>1, <2>2, SmallOverlay
<1>5. ASSUME NEW due PROVE SameOverlay(a, TickArm(a, due))
  BY DEF SameOverlay, Covers, Dirty, Asks, TickArm
<1> QED
  BY <1>1, <1>2, <1>3, <1>4, <1>5

(* So do an arrow key, the wheel and the keys of an incident card. *)
LEMMA MovesOverlay ==
  ASSUME NEW a, Covers(a)
  PROVE  /\ \A dir : SameOverlay(a, FocusArm(a, dir))
         /\ \A dir : SameOverlay(a, ScrollArm(a, dir))
         /\ SameOverlay(a, CopyNextCommand(a)) /\ SameOverlay(a, OpenLink(a))
<1>1. ASSUME NEW dir PROVE SameOverlay(a, FocusArm(a, dir))
  <2>1. LogsDominant(a) => a.layout # "Spotlight"
    BY DEF LogsDominant
  <2>2. \/ FocusArm(a, dir) = a \/ FocusArm(a, dir) = FocusSpotlight(a, dir)
        \/ FocusArm(a, dir) = ScrollField(a, "logsScroll", dir) \/ FocusArm(a, dir) = FocusGrid(a, dir)
    BY <2>1, Zenon DEF FocusArm
  <2> QED
    BY <2>2, SmallOverlay, TogglesOverlay, ScrollOverlay
<1>2. ASSUME NEW dir PROVE SameOverlay(a, ScrollArm(a, dir))
  <2>1. \/ ScrollArm(a, dir) = a
        \/ \E field \in {"overlayScroll", "logsScroll", "drillScroll"} : ScrollArm(a, dir) = ScrollField(a, field, dir)
    BY Zenon DEF ScrollArm
  <2> QED
    BY <2>1, SmallOverlay, ScrollOverlay
<1>3. CopyNextCommand(a) \in {a, Asks(a, "CopyToClipboard"), SetToast(a)}
  BY Zenon DEF CopyNextCommand
<1>4. OpenLink(a) \in {a, Asks(a, "OpenUrl"), SetToast(a)}
  BY Zenon DEF OpenLink
<1> QED
  BY <1>1, <1>2, <1>3, <1>4, SmallOverlay

(* So does a round. *)
LEMMA RoundOverlay == ASSUME NEW a, Covers(a), NEW snaps PROVE SameOverlay(a, SnapshotsArm(a, snaps))
<1>1. PICK f, p, v, h, d, r :
        SnapshotsArm(a, snaps) =
          ClampSpotlight([Dirty(a) EXCEPT !.focus = f, !.pulses = p, !.prevStatus = v, !.history = h,
                            !.snaps = snaps, !.refreshing = FALSE, !.refreshed = TRUE, !.armed = r, !.deltas = d])
  BY Zenon DEF SnapshotsArm
<1> DEFINE b == [Dirty(a) EXCEPT !.focus = f, !.pulses = p, !.prevStatus = v, !.history = h,
                   !.snaps = snaps, !.refreshing = FALSE, !.refreshed = TRUE, !.armed = r, !.deltas = d]
<1>2. SameOverlay(a, b)
  BY DEF SameOverlay, Covers, Dirty
<1> HIDE DEF b
<1>3. Covers(b)
  BY <1>2 DEF SameOverlay, Covers
<1>4. \E n : ClampSpotlight(b) = [b EXCEPT !.spotlightFocus = n]
  BY Zenon DEF ClampSpotlight
<1>5. SameOverlay(b, ClampSpotlight(b))
  BY <1>3, <1>4 DEF SameOverlay, Covers
<1> QED
  BY <1>1, <1>2, <1>5, OverlayChained DEF b

(* Detail, help and logs open over nothing else; the logs overlay closes   *)
(* for a popup or a chooser.                                               *)
LEMMA OpensOverlay ==
  ASSUME NEW a, OverlayOK(a)
  PROVE  /\ a.overlay = "None" => \A o \in {"Detail", "Help", "Logs"} : OverlayOK(Opens(a, o))
         /\ a.overlay = "Logs" => OverlayOK(Opens(a, "None"))
         /\ OverlayOK(OpenDetail(a)) /\ OverlayOK(OpenHelp(a)) /\ OverlayOK(ShowLogs(a))
<1>1. ASSUME NEW o \in {"None", "Detail", "Help", "Logs"}, a.overlay \in {"None", "Logs"}
      PROVE  OverlayOK(Opens(a, o))
  <2> DEFINE b == Opens(a, o)
  <2>1. /\ b.overlay = o /\ b.layout = a.layout /\ b.popup = a.popup /\ b.chooser = a.chooser
        /\ b.logs = a.logs /\ b.logsScroll = a.logsScroll /\ DOMAIN b = DOMAIN a
    BY DEF OverlayOK, Covers, Opens, Dirty
  <2> HIDE DEF b
  <2>2. OverlayOK(b)
    BY <1>1, <2>1 DEF OverlayOK, Covers, Overlays, PopupOverlays
  <2> QED
    BY <2>2 DEF b
<1>2. ASSUME NEW b, OverlayOK(b) PROVE OverlayOK([b EXCEPT !.logsScroll = 0])
  <2> DEFINE c == [b EXCEPT !.logsScroll = 0]
  <2>1. /\ c.overlay = b.overlay /\ c.layout = b.layout /\ c.popup = b.popup /\ c.chooser = b.chooser
        /\ c.logs = b.logs /\ c.logsScroll = 0 /\ DOMAIN c = DOMAIN b
    BY <1>2 DEF OverlayOK, Covers
  <2> HIDE DEF c
  <2>2. OverlayOK(c)
    BY <1>2, <2>1 DEF OverlayOK, Covers
  <2> QED
    BY <2>2 DEF c
<1>3. OverlayOK(ShowLogs(a))
  <2>1. CASE a.overlay = "None"
    <3>1. ShowLogs(a) = [Opens(a, "Logs") EXCEPT !.logsScroll = 0]
      BY <2>1 DEF ShowLogs
    <3> QED
      BY <1>1, <1>2, <2>1, <3>1
  <2>2. CASE a.overlay # "None"
    BY <2>2 DEF ShowLogs
  <2> QED
    BY <2>1, <2>2
<1>4. OverlayOK(OpenDetail(a)) /\ OverlayOK(OpenHelp(a))
  BY <1>1 DEF OpenDetail, OpenHelp
<1> QED
  BY <1>1, <1>3, <1>4

(* Closing takes the popup and the chooser with it. *)
LEMMA ClosesOverlay == ASSUME NEW a, OverlayOK(a) PROVE OverlayOK(CloseOverlay(a))
<1> DEFINE b == [Opens(a, "None") EXCEPT !.popup = NoPopup, !.chooser = NoChooser]
<1>1. CloseOverlay(a) \in {a, b, Asks(b, "CancelCorrelate")}
  BY DEF CloseOverlay
<1>2. /\ b.overlay = "None" /\ b.layout = a.layout /\ b.popup = NoPopup /\ b.chooser = NoChooser
      /\ b.logs = a.logs /\ b.logsScroll = a.logsScroll /\ DOMAIN b = DOMAIN a
  BY DEF OverlayOK, Covers, Opens, Dirty
<1> HIDE DEF b
<1>3. OverlayOK(b)
  <2>1. "open" \in DOMAIN b.popup /\ b.popup.open = FALSE /\ b.chooser.open = FALSE /\ ChooserOK(b.chooser)
    BY <1>2 DEF ChooserOK, NoPopup, NoChooser
  <2> QED
    BY <1>2, <2>1 DEF OverlayOK, Covers, Overlays, PopupOverlays
<1>4. Covers(b)
  BY <1>3 DEF OverlayOK
<1> QED
  BY <1>1, <1>3, <1>4, SmallOverlay, SameOverlayOK

(* Changing the layout touches no overlay. *)
LEMMA LayoutOverlay == ASSUME NEW a, OverlayOK(a) PROVE OverlayOK(ShowSpotlight(a)) /\ OverlayOK(ShowAll(a))
<1>1. ASSUME NEW b, DOMAIN b = DOMAIN a, b.layout \in {"Scorecard", "Spotlight"}, b.overlay = a.overlay,
             b.popup = a.popup, b.chooser = a.chooser, b.logs = a.logs, b.logsScroll = a.logsScroll
      PROVE  OverlayOK(b)
  BY <1>1 DEF OverlayOK, Covers
<1>2. ASSUME NEW l \in {"Scorecard", "Spotlight"}
      PROVE  OverlayOK([Dirty(a) EXCEPT !.layout = l]) /\ OverlayOK([Dirty(a) EXCEPT !.layout = l, !.spotlightFocus = 0])
  <2> DEFINE b == [Dirty(a) EXCEPT !.layout = l]
             c == [Dirty(a) EXCEPT !.layout = l, !.spotlightFocus = 0]
  <2>1. /\ DOMAIN b = DOMAIN a /\ b.layout = l /\ b.overlay = a.overlay /\ b.popup = a.popup
        /\ b.chooser = a.chooser /\ b.logs = a.logs /\ b.logsScroll = a.logsScroll
    BY DEF OverlayOK, Covers, Dirty
  <2>2. /\ DOMAIN c = DOMAIN a /\ c.layout = l /\ c.overlay = a.overlay /\ c.popup = a.popup
        /\ c.chooser = a.chooser /\ c.logs = a.logs /\ c.logsScroll = a.logsScroll
    BY DEF OverlayOK, Covers, Dirty
  <2> HIDE DEF b, c
  <2>3. OverlayOK(b) /\ OverlayOK(c)
    BY <1>1, <2>1, <2>2
  <2> QED
    BY <2>3 DEF b, c
<1> QED
  BY <1>2 DEF ShowSpotlight, ShowAll

(* New log lines are read from the first. *)
LEMMA LinesOverlay ==
  ASSUME NEW a, OverlayOK(a), NEW lines, TextsOK(lines) PROVE OverlayOK(LogLinesArm(a, lines))
<1> DEFINE b == [Dirty(a) EXCEPT !.logs = lines, !.logsScroll = 0]
<1>1. /\ b.overlay = a.overlay /\ b.layout = a.layout /\ b.popup = a.popup /\ b.chooser = a.chooser
      /\ b.logs = lines /\ b.logsScroll = 0 /\ DOMAIN b = DOMAIN a
  BY DEF OverlayOK, Covers, Dirty
<1>2. OverlayOK(b)
  <2> HIDE DEF b
  <2> QED
    BY <1>1 DEF OverlayOK, Covers
<1> QED
  BY <1>2 DEF LogLinesArm

(* A popup opens with its marker. *)
LEMMA PopupOverlay == ASSUME NEW a, OverlayOK(a), NEW entity PROVE OverlayOK(OpenPopup(a, entity))
<1> DEFINE b == [Opens(a, "Correlate") EXCEPT !.popup = EmptyPopup(entity)]
<1>1. OpenPopup(a, entity) = a \/ (a.overlay = "None" /\ OpenPopup(a, entity) = Asks(b, "RunCorrelate"))
  BY DEF OpenPopup
<1>2. /\ b.overlay = "Correlate" /\ b.layout = a.layout /\ b.popup = EmptyPopup(entity) /\ b.chooser = a.chooser
      /\ b.logs = a.logs /\ b.logsScroll = a.logsScroll /\ DOMAIN b = DOMAIN a
  BY DEF OverlayOK, Covers, Opens, Dirty
<1> HIDE DEF b
<1>3. a.overlay = "None" => OverlayOK(b)
  BY <1>2 DEF OverlayOK, Covers, Overlays, PopupOverlays, EmptyPopup
<1>4. OverlayOK(b) => SameOverlay(b, Asks(b, "RunCorrelate"))
  BY SmallOverlay DEF OverlayOK
<1> QED
  BY <1>1, <1>3, <1>4, SameOverlayOK

(* A chooser opens with its marker, its focus on the first choice. *)
LEMMA ChooserOverlay ==
  ASSUME NEW a, OverlayOK(a), NEW entities, Len(entities) \in Nat \ {0} PROVE OverlayOK(OpenChooser(a, entities))
<1> DEFINE c == [open |-> TRUE, entities |-> entities, focus |-> 0]
           b == [Opens(a, "CorrelateChooser") EXCEPT !.chooser = c]
<1>1. OpenChooser(a, entities) = a \/ (a.overlay = "None" /\ OpenChooser(a, entities) = b)
  BY DEF OpenChooser
<1>2. ChooserOK(c) /\ c.open = TRUE
  BY DEF ChooserOK
<1> HIDE DEF c
<1>3. /\ b.overlay = "CorrelateChooser" /\ b.layout = a.layout /\ b.popup = a.popup /\ b.chooser = c
      /\ b.logs = a.logs /\ b.logsScroll = a.logsScroll /\ DOMAIN b = DOMAIN a
  BY DEF OverlayOK, Covers, Opens, Dirty
<1> HIDE DEF b
<1>4. a.overlay = "None" => OverlayOK(b)
  BY <1>2, <1>3 DEF OverlayOK, Covers, Overlays, PopupOverlays
<1> QED
  BY <1>1, <1>4

(* A choice that moves stays within the chooser. *)
LEMMA NavigateOverlay == ASSUME NEW a, OverlayOK(a), NEW dir \in {"Up", "Down"} PROVE OverlayOK(ChooserNavigate(a, dir))
<1> DEFINE next == CASE dir = "Up"   -> IF a.chooser.focus = 0 THEN 0 ELSE a.chooser.focus - 1
                     [] dir = "Down" -> IF a.chooser.focus + 1 < Len(a.chooser.entities)
                                        THEN a.chooser.focus + 1 ELSE a.chooser.focus
           c == [a.chooser EXCEPT !.focus = next]
           b == [Dirty(a) EXCEPT !.chooser = c]
<1>1. ChooserNavigate(a, dir) = a \/ (a.chooser.open /\ ChooserNavigate(a, dir) = b)
  BY DEF ChooserNavigate, OverlayOK, Covers, Dirty
<1>2. a.chooser.open => next \in Nat /\ next < Len(a.chooser.entities)
  BY DEF OverlayOK, ChooserOK, NoChooser
<1> HIDE DEF next
<1>3. a.chooser.open => ChooserOK(c) /\ c.open = a.chooser.open
  BY <1>2 DEF OverlayOK, ChooserOK, NoChooser
<1> HIDE DEF c
<1>4. /\ b.overlay = a.overlay /\ b.layout = a.layout /\ b.popup = a.popup /\ b.chooser = c
      /\ b.logs = a.logs /\ b.logsScroll = a.logsScroll /\ DOMAIN b = DOMAIN a
  BY DEF OverlayOK, Covers, Dirty
<1> HIDE DEF b
<1>5. a.chooser.open => OverlayOK(b)
  BY <1>3, <1>4 DEF OverlayOK, Covers
<1> QED
  BY <1>1, <1>5

(* Confirming a choice closes the chooser and opens the popup on it. *)
LEMMA ConfirmOverlay == ASSUME NEW a, OverlayOK(a) PROVE OverlayOK(ChooserConfirm(a))
<1> DEFINE b == [Opens(a, "None") EXCEPT !.chooser = NoChooser]
<1>1. ChooserConfirm(a) = a \/ (a.chooser.open /\ \E e : ChooserConfirm(a) = OpenPopup(b, e))
  BY DEF ChooserConfirm
<1>2. /\ b.overlay = "None" /\ b.layout = a.layout /\ b.popup = a.popup /\ b.chooser = NoChooser
      /\ b.logs = a.logs /\ b.logsScroll = a.logsScroll /\ DOMAIN b = DOMAIN a
  BY DEF OverlayOK, Covers, Opens, Dirty
<1> HIDE DEF b
<1>3. ASSUME a.chooser.open PROVE OverlayOK(b)
  <2>1. b.chooser.open = FALSE /\ ChooserOK(b.chooser)
    BY <1>2 DEF ChooserOK, NoChooser
  <2>2. a.overlay = "CorrelateChooser"
    BY <1>3 DEF OverlayOK
  <2> QED
    BY <1>2, <2>1, <2>2 DEF OverlayOK, Covers, Overlays, PopupOverlays
<1> QED
  BY <1>1, <1>3, PopupOverlay

(* The popup's marker follows it into the full screen and back. *)
LEMMA FullscreenOverlay == ASSUME NEW a, OverlayOK(a) PROVE OverlayOK(ToggleFullscreen(a))
<1>1. \/ ToggleFullscreen(a) = a
      \/ a.overlay \in PopupOverlays /\ \E o \in PopupOverlays : ToggleFullscreen(a) = Opens(a, o)
  BY Zenon DEF ToggleFullscreen, PopupOverlays
<1>2. ASSUME a.overlay \in PopupOverlays, NEW o \in PopupOverlays PROVE OverlayOK(Opens(a, o))
  <2> DEFINE b == Opens(a, o)
  <2>1. /\ b.overlay = o /\ b.layout = a.layout /\ b.popup = a.popup /\ b.chooser = a.chooser
        /\ b.logs = a.logs /\ b.logsScroll = a.logsScroll /\ DOMAIN b = DOMAIN a
    BY DEF OverlayOK, Covers, Opens, Dirty
  <2> HIDE DEF b
  <2>2. OverlayOK(b)
    BY <1>2, <2>1 DEF OverlayOK, Covers, Overlays, PopupOverlays
  <2> QED
    BY <2>2 DEF b
<1> QED
  BY <1>1, <1>2

(* An update of the run neither opens nor closes the popup. *)
LEMMA UpdateOverlay ==
  ASSUME NEW a, OverlayOK(a), NEW entity, NEW u, u.kind \in UpdateKinds
  PROVE  OverlayOK(CorrelateUpdate(a, entity, u))
<1> DEFINE p == Applied(a.popup, u)
           b == [Dirty(a) EXCEPT !.popup = p]
<1>1. CorrelateUpdate(a, entity, u) \in {a, b}
  BY DEF CorrelateUpdate, OverlayOK, Covers, Dirty
<1>2. DOMAIN p = DOMAIN a.popup /\ p.open = a.popup.open
  <2>1. "open" \in DOMAIN a.popup
    BY DEF OverlayOK
  <2>2. \A s, e : LET q == [a.popup EXCEPT !.sources = s, !.events = e]
                  IN  DOMAIN q = DOMAIN a.popup /\ q.open = a.popup.open
    BY <2>1
  <2>3. \A s, e : LET q == [a.popup EXCEPT !.sources = s, !.errors = e]
                  IN  DOMAIN q = DOMAIN a.popup /\ q.open = a.popup.open
    BY <2>1
  <2>4. \A s : LET q == [a.popup EXCEPT !.sources = s] IN DOMAIN q = DOMAIN a.popup /\ q.open = a.popup.open
    BY <2>1
  <2>5. \A d : LET q == [a.popup EXCEPT !.diagnosis = d] IN DOMAIN q = DOMAIN a.popup /\ q.open = a.popup.open
    BY <2>1
  <2>6. \A d : LET q == [a.popup EXCEPT !.done = d] IN DOMAIN q = DOMAIN a.popup /\ q.open = a.popup.open
    BY <2>1
  <2>7. CASE u.kind = "Loading"
    BY <2>4, <2>7 DEF Applied
  <2>8. CASE u.kind = "Landed"
    BY <2>2, <2>8 DEF Applied
  <2>9. CASE u.kind = "Failed"
    BY <2>3, <2>9 DEF Applied
  <2>10. CASE u.kind = "Diagnosis"
    BY <2>5, <2>10 DEF Applied
  <2>11. CASE u.kind = "Done"
    BY <2>6, <2>11 DEF Applied
  <2> QED
    BY <2>7, <2>8, <2>9, <2>10, <2>11 DEF UpdateKinds
<1> HIDE DEF p
<1>3. /\ b.overlay = a.overlay /\ b.layout = a.layout /\ b.popup = p /\ b.chooser = a.chooser
      /\ b.logs = a.logs /\ b.logsScroll = a.logsScroll /\ DOMAIN b = DOMAIN a
  BY DEF OverlayOK, Covers, Dirty
<1> HIDE DEF b
<1>4. OverlayOK(b)
  BY <1>2, <1>3 DEF OverlayOK, Covers
<1> QED
  BY <1>1, <1>4

(* A drill-in opens the popup or the chooser over nothing else. *)
LEMMA DispatchOverlay ==
  ASSUME NEW a, OverlayOK(a), NEW b, OverlayOK(b), NEW entities, Len(entities) \in Nat
  PROVE  OverlayOK(Dispatch(a, b, entities))
<1>1. OverlayOK(SetToast(a))
  BY SmallOverlay, SameOverlayOK DEF OverlayOK
<1>2. CASE Len(entities) = 0
  BY <1>1, <1>2 DEF Dispatch
<1>3. CASE Len(entities) = 1
  <2>1. Dispatch(a, b, entities) = OpenPopup(b, entities[1])
    BY <1>3 DEF Dispatch
  <2> QED
    BY <2>1, PopupOverlay
<1>4. CASE Len(entities) \notin {0, 1}
  <2>1. Dispatch(a, b, entities) = OpenChooser(b, entities)
    BY <1>4 DEF Dispatch
  <2> QED
    BY <1>4, <2>1, ChooserOverlay
<1> QED
  BY <1>2, <1>3, <1>4

(* A finite text names finitely many entities. *)
LEMMA LineEntities == ASSUME NEW text, text \in Seq(ToSet(text)) PROVE Len(InLogLine(text)) \in Nat
<1> DEFINE Bounded(i) == /\ i = 1 \/ text[i - 1] \in LeftBoundary
                         /\ i = Len(text) \/ text[i + 1] \in RightBoundary
           hits == {i \in DOMAIN text : /\ IsWord(text[i])
                                        /\ Bounded(i)
                                        /\ DetectIdType(<< text[i] >>) # "none"}
           n == Cardinality(hits)
           e == [k \in 1 .. n |-> Entity(<< text[SetToSortSeq(hits, <)[k]] >>, "Heuristic")]
<1>1. InLogLine(text) = e
  BY Zenon DEF InLogLine
<1>2. n \in Nat
  <2>1. IsFiniteSet(DOMAIN text)
    <3>1. DOMAIN text = 1 .. Len(text) /\ Len(text) \in Nat
      OBVIOUS
    <3> QED
      BY <3>1, FS_Interval
  <2>2. hits \subseteq DOMAIN text
    OBVIOUS
  <2>3. IsFiniteSet(hits)
    <3> HIDE DEF hits
    <3> QED
      BY <2>1, <2>2, FS_Subset
  <2> HIDE DEF hits
  <2> QED
    BY <2>3, FS_CardinalityType
<1>3. DOMAIN e = 1 .. n
  OBVIOUS
<1>4. Len(e) = n
  <2> HIDE DEF n
  <2> HIDE DEF e
  <2> QED
    BY <1>2, <1>3
<1> QED
  BY <1>1, <1>2, <1>4

(* `c`, in the logs overlay and outside it. *)
LEMMA CorrelateOverlay == ASSUME NEW a, OverlayOK(a) PROVE OverlayOK(CorrelateArm(a))
<1>1. ASSUME a.overlay = "Logs" PROVE OverlayOK(CorrelateLogLine(a))
  <2>1. CASE a.logsScroll >= Len(a.logs)
    BY <2>1 DEF CorrelateLogLine
  <2>2. CASE ~(a.logsScroll >= Len(a.logs))
    <3> DEFINE text == a.logs[a.logsScroll + 1]
    <3>1. a.logsScroll + 1 \in DOMAIN a.logs
      BY <2>2 DEF OverlayOK, TextsOK
    <3>2. text \in ToSet(a.logs)
      BY <3>1 DEF ToSet
    <3>3. text \in Seq(ToSet(text))
      BY <3>2 DEF OverlayOK, TextsOK
    <3>4. CorrelateLogLine(a) = Dispatch(a, Opens(a, "None"), InLogLine(text))
      BY <2>2 DEF CorrelateLogLine
    <3> HIDE DEF text
    <3>5. OverlayOK(Opens(a, "None"))
      BY <1>1, OpensOverlay
    <3> QED
      BY <3>3, <3>4, <3>5, LineEntities, DispatchOverlay
  <2> QED
    BY <2>1, <2>2
<1>2. \/ a.overlay = "Logs" /\ CorrelateArm(a) = CorrelateLogLine(a)
      \/ CorrelateArm(a) = a \/ CorrelateArm(a) = SetToast(a)
      \/ \E e : CorrelateArm(a) = OpenPopup(a, e)
  BY Zenon DEF CorrelateArm
<1>3. OverlayOK(SetToast(a))
  BY SmallOverlay, SameOverlayOK DEF OverlayOK
<1> QED
  BY <1>1, <1>2, <1>3, PopupOverlay

(* A choice is only ever moved up or down. *)
LEMMA NavigatesUpOrDown ==
  ASSUME NEW event, NEW layout, NEW overlay, Translate(event, layout, overlay).act = "ChooserNavigate"
  PROVE  Translate(event, layout, overlay).dir \in {"Up", "Down"}
<1> DEFINE t == Translate(event, layout, overlay)
           table == KeyTable(layout, overlay)
<1>1. \/ t = Do("Resize") \/ t = Ignored \/ t = Do("Quit") \/ t = [act |-> "Click", cell |-> event.cell]
      \/ t = Go("Scroll", "Up") \/ t = Go("Scroll", "Down")
      \/ \E key \in DOMAIN table : t = table[key]
  BY Zenon DEF Translate, TranslateKey, TranslateMouse, Bound
<1>2. table \in {DetailKeys, HelpKeys, CorrelateKeys, FullscreenKeys, ChooserKeys, LogsKeys, NormalKeys, SpotlightKeys}
  BY Zenon DEF KeyTable
<1> HIDE DEF table
<1>3. \A key \in DOMAIN table : table[key].act = "ChooserNavigate" => table[key].dir \in {"Up", "Down"}
  <2>1. CASE table \in {DetailKeys, HelpKeys, CorrelateKeys, FullscreenKeys, LogsKeys}
    BY <2>1 DEF DetailKeys, HelpKeys, CorrelateKeys, FullscreenKeys, LogsKeys, Do, Go
  <2>2. CASE table = ChooserKeys
    BY <2>2 DEF ChooserKeys, Do, Go
  <2>3. CASE table = NormalKeys
    BY <2>3 DEF NormalKeys, Do, Go
  <2>4. CASE table = SpotlightKeys
    BY <2>4 DEF SpotlightKeys, Do, Go
  <2> QED
    BY <1>2, <2>1, <2>2, <2>3, <2>4
<1> HIDE DEF t
<1>4. t.act = "ChooserNavigate"
  BY DEF t
<1>5. t.dir \in {"Up", "Down"}
  BY <1>1, <1>3, <1>4 DEF Do, Go, Ignored
<1> QED
  BY <1>5 DEF t

(* Every arm keeps overlay, popup, chooser and logs right. *)
LEMMA HandleKeepsOverlay ==
  ASSUME NEW a, OverlayOK(a), NEW action, action.act = "ChooserNavigate" => action.dir \in {"Up", "Down"}
  PROVE  OverlayOK(Handle(a, action))
<1> DEFINE h == Handle(a, action)
<1>1. \/ h = a \/ h = Refresh(a) \/ h = OpenDetail(a) \/ h = OpenHelp(a) \/ h = ShowLogs(a)
      \/ h = CloseOverlay(a) \/ h = Dirty(a) \/ h = TogglePause(a) \/ h = ToggleMouseCapture(a)
      \/ h = ShowSpotlight(a) \/ h = ShowAll(a) \/ h = SetToast(a) \/ h = Asks(a, "Quit")
      \/ h = CopyNextCommand(a) \/ h = OpenLink(a) \/ h = CorrelateArm(a) \/ h = ChooserConfirm(a)
      \/ h = ToggleFullscreen(a) \/ h = FocusArm(a, action.dir) \/ h = ScrollArm(a, action.dir)
      \/ (action.act = "ChooserNavigate" /\ h = ChooserNavigate(a, action.dir)) \/ h = Click(a, action.cell)
  BY ZenonT(120) DEF Handle
<1>2. Covers(a)
  BY DEF OverlayOK
<1> HIDE DEF h
<1>3. ASSUME \/ h = CopyNextCommand(a) \/ h = OpenLink(a) \/ h = ScrollArm(a, action.dir)
             \/ h = FocusArm(a, action.dir) \/ h = Click(a, action.cell)
      PROVE  OverlayOK(h)
  BY <1>2, <1>3, MovesOverlay, TogglesOverlay, SameOverlayOK
<1>4. ASSUME \/ h = a \/ h = Refresh(a) \/ h = Dirty(a) \/ h = TogglePause(a) \/ h = ToggleMouseCapture(a)
             \/ h = SetToast(a) \/ h = Asks(a, "Quit")
      PROVE  OverlayOK(h)
  BY <1>2, <1>4, SmallOverlay, TogglesOverlay, SameOverlayOK
<1>5. ASSUME \/ h = OpenDetail(a) \/ h = OpenHelp(a) \/ h = ShowLogs(a) \/ h = CloseOverlay(a)
             \/ h = ShowSpotlight(a) \/ h = ShowAll(a) \/ h = CorrelateArm(a) \/ h = ChooserConfirm(a)
             \/ h = ToggleFullscreen(a)
      PROVE  OverlayOK(h)
  BY <1>5, OpensOverlay, ClosesOverlay, LayoutOverlay, CorrelateOverlay, ConfirmOverlay, FullscreenOverlay
<1>6. OverlayOK(h)
  BY <1>1, <1>3, <1>4, <1>5, NavigateOverlay
<1> QED
  BY <1>6 DEF h

-----------------------------------------------------------------------------
(* Carrying out an effect, and drawing, leave indices and overlays alone. *)
LEMMA EffectSame ==
  ASSUME NEW a, FocusOK(a), OverlayOK(a) PROVE FocusOK([a EXCEPT !.effect = "None"]) /\ OverlayOK([a EXCEPT !.effect = "None"])
<1>1. SameFocus(a, [a EXCEPT !.effect = "None"])
  BY DEF SameFocus, FocusOK
<1>2. SameOverlay(a, [a EXCEPT !.effect = "None"])
  BY DEF SameOverlay, OverlayOK, Covers
<1> QED
  BY <1>1, <1>2, SameFocusOK, SameOverlayOK

(* The reducer starts right, and is so when the loop starts. *)
LEMMA NewAppOK ==
  /\ FocusOK(NewApp) /\ FocusOK([Refresh(NewApp) EXCEPT !.effect = "None"])
  /\ OverlayOK(NewApp) /\ OverlayOK([Refresh(NewApp) EXCEPT !.effect = "None"])
<1>1. FocusOK(NewApp)
  <2>1. NewApp.snaps = << >> /\ NewApp.focus = 0 /\ NewApp.spotlightFocus = 0
        /\ {"focus", "spotlightFocus", "snaps"} \subseteq DOMAIN NewApp
    BY DEF NewApp
  <2>2. {i \in DOMAIN << >> : << >>[i].status \notin Good} = {}
    OBVIOUS
  <2>3. Troubles(<< >>) = 0
    BY <2>2, FS_EmptySet DEF Troubles
  <2> QED
    BY <2>1, <2>3, EmptySeq DEF FocusOK, FindingsOK
<1>2. OverlayOK(NewApp)
  <2>1. /\ NewApp.logs = << >> /\ NewApp.logsScroll = 0 /\ NewApp.layout = "Scorecard" /\ NewApp.overlay = "None"
        /\ NewApp.popup = NoPopup /\ NewApp.chooser = NoChooser /\ Covers(NewApp)
    BY DEF NewApp, Covers
  <2>2. TextsOK(<< >>)
    <3>1. ToSet(<< >>) = {}
      BY DEF ToSet
    <3> QED
      BY <3>1, EmptySeq DEF TextsOK
  <2>3. "open" \in DOMAIN NoPopup /\ NoPopup.open = FALSE /\ NoChooser.open = FALSE /\ ChooserOK(NoChooser)
    BY DEF NoPopup, NoChooser, ChooserOK
  <2>4. "open" \in DOMAIN NewApp.popup /\ NewApp.popup.open = FALSE /\ NewApp.chooser.open = FALSE /\ ChooserOK(NewApp.chooser)
    BY <2>1, <2>3, Zenon
  <2>5. ASSUME NEW a, Covers(a), TextsOK(a.logs), a.logsScroll = 0, a.layout = "Scorecard", a.overlay = "None",
               "open" \in DOMAIN a.popup, a.popup.open = FALSE, a.chooser.open = FALSE, ChooserOK(a.chooser)
        PROVE  OverlayOK(a)
    <3>1. a.logsScroll \in Nat
      BY <2>5
    <3>2. a.chooser.open = (a.overlay = "CorrelateChooser")
      BY <2>5
    <3>3. a.popup.open \in BOOLEAN /\ (a.popup.open <=> a.overlay \in PopupOverlays)
      BY <2>5 DEF PopupOverlays
    <3> QED
      BY <2>5, <3>1, <3>2, <3>3 DEF OverlayOK, Overlays
  <2>6. TextsOK(NewApp.logs)
    BY <2>1, <2>2, Zenon
  <2> QED
    BY <2>1, <2>4, <2>5, <2>6, Zenon
<1>3. FocusOK(Refresh(NewApp)) /\ OverlayOK(Refresh(NewApp))
  <2>1. SameFocus(NewApp, Refresh(NewApp))
    BY <1>1, Toggles DEF FocusOK, Fits
  <2>2. SameOverlay(NewApp, Refresh(NewApp))
    BY <1>2, TogglesOverlay DEF OverlayOK
  <2> QED
    BY <1>1, <1>2, <2>1, <2>2, SameFocusOK, SameOverlayOK
<1> QED
  BY <1>1, <1>2, <1>3, EffectSame

(* The findings of a card are as finite as the checks of its layer. *)
LEMMA SnapshotFindings ==
  ASSUME NEW r, r.checks \in Seq(ToSet(r.checks))
  PROVE  Snapshot(r).findings \in Seq(ToSet(Snapshot(r).findings))
<1> DEFINE kept == {i \in DOMAIN r.checks : r.checks[i].status # "Ok"}
           troubled == Chosen(r.checks, kept)
           Finding(c) == [status |-> c.status, message |-> c.name \o << ",", " " >> \o c.value,
                          next |-> c.next, link |-> Absent]
           findings == [k \in DOMAIN troubled |-> Finding(troubled[k])]
<1>1. Snapshot(r).findings = findings
  BY DEF Snapshot
<1>2. kept \in SUBSET (DOMAIN r.checks)
  OBVIOUS
<1> HIDE DEF kept, Finding
<1>3. troubled \in Seq(ToSet(r.checks))
  BY <1>2, ChosenIs
<1>4. DOMAIN troubled = 1 .. Len(troubled) /\ Len(troubled) \in Nat
  BY <1>3
<1> HIDE DEF troubled
<1>5. DOMAIN findings = DOMAIN troubled
  OBVIOUS
<1>6. findings = [k \in 1 .. Len(troubled) |-> findings[k]]
  BY <1>4
<1> HIDE DEF findings
<1>7. \A k \in DOMAIN findings : findings[k] \in ToSet(findings)
  BY DEF ToSet
<1>8. findings \in Seq(ToSet(findings))
  BY <1>4, <1>5, <1>6, <1>7
<1> QED
  BY <1>1, <1>8

(* Carrying out an effect keeps the reducer's state right. *)
LEMMA DispatchedKeeps ==
  ASSUME NEW b, FocusOK(b), OverlayOK(b), Dispatched(b) PROVE FocusOK(app)' /\ OverlayOK(app)'
<1>1. app' = [b EXCEPT !.effect = "None"]
  BY DEF Dispatched
<1>2. FocusOK([b EXCEPT !.effect = "None"]) /\ OverlayOK([b EXCEPT !.effect = "None"])
  BY EffectSame
<1> QED
  BY <1>1, <1>2

(* The inductive invariant: a round comes from the session played. *)
ReducerInv == FocusOK(app) /\ OverlayOK(app) /\ session \in Sessions \cup {PanelSession}

(* Every step of the process keeps it. *)
LEMMA StepKeepsReducer == ASSUME ReducerInv, [Next]_vars PROVE ReducerInv'
<1> USE DEF ReducerInv
<1>1. UNCHANGED session
  BY DEF Next, vars, StepPasses, StepFails, startVars, DrawDashboard, TerminalEvent, TickFires, RoundArrives,
    LogLinesArrive, UpdateArrives, ToastArrives, LoopFails, TaskPanics, PanelPanics, PanelKeyPressed,
    PanelTimer, RowsArrive, ErrorArrives, FetchDies, Dispatched, Leave, InPanel
<1>2. Fits(app) /\ Covers(app)
  BY DEF FocusOK, Fits, OverlayOK
<1>3. CASE UNCHANGED app
  BY <1>1, <1>3
<1>4. CASE StepPasses
  BY <1>1, <1>4, NewAppOK DEF StepPasses
<1>5. CASE DrawDashboard
  <2>1. SameFocus(app, app')
    BY <1>5, <1>2 DEF DrawDashboard, SameFocus, Fits
  <2>2. SameOverlay(app, app')
    BY <1>5, <1>2 DEF DrawDashboard, SameOverlay, Covers
  <2> QED
    BY <1>1, <2>1, <2>2, SameFocusOK, SameOverlayOK
<1>6. CASE TerminalEvent
  <2>1. PICK event : Dispatched(Handle(app, Translate(event, app.layout, app.overlay)))
    BY <1>6 DEF TerminalEvent
  <2> DEFINE action == Translate(event, app.layout, app.overlay)
  <2>2. action.act = "ChooserNavigate" => action.dir \in {"Up", "Down"}
    BY NavigatesUpOrDown
  <2> HIDE DEF action
  <2>3. FocusOK(Handle(app, action)) /\ OverlayOK(Handle(app, action))
    BY <2>2, HandleKeeps, HandleKeepsOverlay
  <2> QED
    BY <1>1, <2>1, <2>3, DispatchedKeeps DEF action
<1>7. CASE TickFires
  <2>1. PICK due : Dispatched(TickArm(app, due))
    BY <1>7 DEF TickFires
  <2>2. FocusOK(TickArm(app, due)) /\ OverlayOK(TickArm(app, due))
    BY <1>2, TickSame, SameFocusOK, TogglesOverlay, SameOverlayOK
  <2> QED
    BY <1>1, <2>1, <2>2, DispatchedKeeps
<1>8. CASE RoundArrives
  <2>1. PICK round \in session.rounds :
          Dispatched(SnapshotsArm(app, [i \in DOMAIN round |-> Snapshot(round[i])]))
    BY <1>8 DEF RoundArrives
  <2> DEFINE snaps == [i \in DOMAIN round |-> Snapshot(round[i])]
  <2>2. session \in Sessions
    BY <2>1 DEF PanelSession
  <2>3. round \in Seq(ToSet(round))
    BY <2>1, <2>2
  <2>4. snaps \in Seq(ToSet(snaps))
    <3>1. DOMAIN round = 1 .. Len(round) /\ Len(round) \in Nat
      BY <2>3
    <3>2. \A i \in 1 .. Len(round) : snaps[i] \in ToSet(snaps)
      BY <3>1 DEF ToSet
    <3> QED
      BY <3>1, <3>2
  <2>5. FindingsOK(snaps)
    <3> SUFFICES ASSUME NEW i \in DOMAIN round PROVE snaps[i].findings \in Seq(ToSet(snaps[i].findings))
      BY DEF FindingsOK
    <3>1. round[i] \in ToSet(round)
      BY <2>3 DEF ToSet
    <3> QED
      BY <2>1, <2>2, <3>1, SnapshotFindings
  <2> HIDE DEF snaps
  <2>6. FocusOK(SnapshotsArm(app, snaps))
    BY <2>4, <2>5, SnapshotsKeep
  <2>7. OverlayOK(SnapshotsArm(app, snaps))
    BY <1>2, RoundOverlay, SameOverlayOK
  <2> QED
    BY <1>1, <2>1, <2>6, <2>7, DispatchedKeeps DEF snaps
<1>9. CASE LogLinesArrive
  <2>1. PICK lines \in session.lines : Dispatched(LogLinesArm(app, lines))
    BY <1>9 DEF LogLinesArrive
  <2>2. session \in Sessions
    BY <2>1 DEF PanelSession
  <2>3. TextsOK(lines)
    BY <2>1, <2>2 DEF TextsOK
  <2>4. FocusOK(LogLinesArm(app, lines)) /\ OverlayOK(LogLinesArm(app, lines))
    BY <1>2, <2>3, Toggles, SameFocusOK, LinesOverlay
  <2> QED
    BY <1>1, <2>1, <2>4, DispatchedKeeps
<1>10. CASE UpdateArrives
  <2>1. PICK entity \in opened, u \in session.updates : Dispatched(CorrelateUpdate(app, entity, u))
    BY <1>10 DEF UpdateArrives
  <2>2. session \in Sessions
    BY <2>1 DEF PanelSession
  <2>3. u.kind \in UpdateKinds
    BY <2>1, <2>2
  <2>4. FocusOK(CorrelateUpdate(app, entity, u)) /\ OverlayOK(CorrelateUpdate(app, entity, u))
    BY <1>2, <2>3, PopupSame, SameFocusOK, UpdateOverlay
  <2> QED
    BY <1>1, <2>1, <2>4, DispatchedKeeps
<1>11. CASE ToastArrives
  BY <1>1, <1>2, <1>11, Small, SameFocusOK, SmallOverlay, SameOverlayOK DEF ToastArrives
<1>12. CASE StepFails \/ LoopFails \/ TaskPanics \/ PanelPanics
  BY <1>3, <1>12 DEF StepFails, LoopFails, TaskPanics, PanelPanics
<1>13. CASE PanelKeyPressed \/ PanelTimer \/ RowsArrive \/ ErrorArrives \/ FetchDies
  <2>1. UNCHANGED app
    BY <1>13 DEF PanelKeyPressed, PanelTimer, RowsArrive, ErrorArrives, FetchDies, InPanel
  <2> QED
    BY <1>3, <2>1
<1> QED
  BY <1>3, <1>4, <1>5, <1>6, <1>7, <1>8, <1>9, <1>10, <1>11, <1>12, <1>13, Zenon DEF Next, vars

(* The reducer's state is right throughout. *)
LEMMA ReducerIsRight == Spec => []ReducerInv
<1>1. Init => ReducerInv
  BY NewAppOK DEF Init, ReducerInv
<1>2. ReducerInv /\ [Next]_vars => ReducerInv'
  BY StepKeepsReducer
<1> QED
  BY <1>1, <1>2, PTL DEF Spec

-----------------------------------------------------------------------------
(* No index that the reducer keeps ever points past what it counts - the   *)
(* cards of the grid, the incidents of Spotlight, the choices of the       *)
(* chooser - whatever keys, clicks, wheel turns, log lines, updates and    *)
(* rounds of any size come in and in whatever order: app.rs clamps when a  *)
(* round arrives and when a move starts from a stale focus.                *)
THEOREM IndicesStayInRange == Spec => []IndicesInRange
<1>1. ReducerInv => IndicesInRange
  <2> SUFFICES ASSUME ReducerInv PROVE IndicesInRange
    OBVIOUS
  <2>1. FocusInRange
    BY DEF ReducerInv, FocusOK, FocusInRange
  <2>2. app.spotlightFocus < Len(Cards(app)) \/ (app.spotlightFocus = 0 /\ Cards(app) = << >>)
    BY CardsAreTroubles DEF ReducerInv, FocusOK
  <2>3. app.chooser.open => app.chooser.focus < Len(app.chooser.entities)
    BY DEF ReducerInv, OverlayOK, ChooserOK, NoChooser
  <2> QED
    BY <2>1, <2>2, <2>3 DEF IndicesInRange
<1> QED
  BY <1>1, ReducerIsRight, PTL

(* One Esc: out of the full screen into the popup, out of any other        *)
(* overlay to none, out of Spotlight to the scorecard, where it does       *)
(* nothing.  Leaving an open popup cancels its run.                        *)
LEMMA EscStep ==
  ASSUME NEW a, OverlayOK(a)
  PROVE  /\ OverlayOK(EscTo(a))
         /\ a.overlay = "CorrelateFullscreen" => EscTo(a).overlay = "Correlate"
         /\ a.overlay \notin {"None", "CorrelateFullscreen"} =>
              EscTo(a).overlay = "None" /\ (a.popup.open => EscTo(a).effect = "CancelCorrelate")
         /\ a.overlay # "None" => EscTo(a).layout = a.layout
         /\ a.overlay = "None" => EscTo(a).overlay = "None" /\ EscTo(a).layout = "Scorecard"
<1> DEFINE event == [kind |-> "key", what |-> "esc"]
           table == KeyTable(a.layout, a.overlay)
           action == Translate(event, a.layout, a.overlay)
<1>1. EscTo(a) = Handle(a, action)
  BY DEF EscTo
<1>2. action = Bound(table, "esc")
  BY DEF Translate, TranslateKey
<1>3. \/ a.overlay = "Detail" /\ table = DetailKeys
      \/ a.overlay = "Help" /\ table = HelpKeys
      \/ a.overlay = "Correlate" /\ table = CorrelateKeys
      \/ a.overlay = "CorrelateFullscreen" /\ table = FullscreenKeys
      \/ a.overlay = "CorrelateChooser" /\ table = ChooserKeys
      \/ a.overlay = "Logs" /\ table = LogsKeys
      \/ a.overlay = "None" /\ a.layout = "Scorecard" /\ table = NormalKeys
      \/ a.overlay = "None" /\ a.layout = "Spotlight" /\ table = SpotlightKeys
  BY DEF KeyTable, OverlayOK, Overlays
<1> HIDE DEF table
<1>4. \/ a.overlay \notin {"None", "CorrelateFullscreen"} /\ action = Do("CloseOverlay")
      \/ a.overlay = "CorrelateFullscreen" /\ action = Do("ToggleCorrelateFullscreen")
      \/ a.overlay = "None" /\ a.layout = "Spotlight" /\ action = Do("ShowAll")
      \/ a.overlay = "None" /\ a.layout = "Scorecard" /\ action = Ignored
  <2>1. CASE table \in {DetailKeys, HelpKeys, CorrelateKeys, ChooserKeys, LogsKeys} /\ a.overlay \notin {"None", "CorrelateFullscreen"}
    BY <1>2, <2>1 DEF Bound, DetailKeys, HelpKeys, CorrelateKeys, ChooserKeys, LogsKeys
  <2>2. CASE table = FullscreenKeys /\ a.overlay = "CorrelateFullscreen"
    BY <1>2, <2>2 DEF Bound, FullscreenKeys
  <2>3. CASE table = SpotlightKeys /\ a.overlay = "None" /\ a.layout = "Spotlight"
    BY <1>2, <2>3 DEF Bound, SpotlightKeys
  <2>4. CASE table = NormalKeys /\ a.overlay = "None" /\ a.layout = "Scorecard"
    BY <1>2, <2>4 DEF Bound, NormalKeys
  <2> QED
    BY <1>3, <2>1, <2>2, <2>3, <2>4
<1> HIDE DEF action
<1>5. /\ Handle(a, Do("CloseOverlay")) = CloseOverlay(a)
      /\ Handle(a, Do("ToggleCorrelateFullscreen")) = ToggleFullscreen(a)
      /\ Handle(a, Do("ShowAll")) = ShowAll(a)
      /\ Handle(a, Ignored) = a
  <2>1. /\ Do("CloseOverlay").act = "CloseOverlay" /\ Do("ShowAll").act = "ShowAll" /\ Ignored.act = "Ignored"
        /\ Do("ToggleCorrelateFullscreen").act = "ToggleCorrelateFullscreen"
    BY DEF Do, Ignored
  <2>2. ASSUME NEW x, x.act = "CloseOverlay" PROVE Handle(a, x) = CloseOverlay(a)
    BY <2>2 DEF Handle
  <2>3. ASSUME NEW x, x.act = "ToggleCorrelateFullscreen" PROVE Handle(a, x) = ToggleFullscreen(a)
    BY <2>3 DEF Handle
  <2>4. ASSUME NEW x, x.act = "ShowAll" PROVE Handle(a, x) = ShowAll(a)
    BY <2>4 DEF Handle
  <2>5. ASSUME NEW x, x.act = "Ignored" PROVE Handle(a, x) = a
    BY <2>5 DEF Handle
  <2> QED
    BY <2>1, <2>2, <2>3, <2>4, <2>5
<1>6. OverlayOK(EscTo(a))
  <2>1. action.act # "ChooserNavigate"
    BY <1>4 DEF Do, Ignored
  <2> QED
    BY <1>1, <2>1, HandleKeepsOverlay
<1>7. CASE a.overlay \notin {"None", "CorrelateFullscreen"} /\ action = Do("CloseOverlay")
  <2> DEFINE b == [Opens(a, "None") EXCEPT !.popup = NoPopup, !.chooser = NoChooser]
  <2>1. EscTo(a) = IF a.popup.open THEN Asks(b, "CancelCorrelate") ELSE b
    BY <1>1, <1>5, <1>7 DEF CloseOverlay
  <2>2. b.overlay = "None" /\ b.layout = a.layout /\ DOMAIN b = DOMAIN a
    BY DEF OverlayOK, Covers, Opens, Dirty
  <2>3. {"overlay", "layout", "effect"} \subseteq DOMAIN a
    BY DEF OverlayOK, Covers
  <2> HIDE DEF b
  <2>4. /\ EscTo(a).overlay = "None" /\ EscTo(a).layout = a.layout
        /\ a.popup.open => EscTo(a).effect = "CancelCorrelate"
    BY <2>1, <2>2, <2>3 DEF Asks
  <2> QED
    BY <1>6, <1>7, <2>4
<1>8. CASE a.overlay = "CorrelateFullscreen" /\ action = Do("ToggleCorrelateFullscreen")
  <2>1. EscTo(a) = Opens(a, "Correlate")
    BY <1>1, <1>5, <1>8 DEF ToggleFullscreen
  <2>2. EscTo(a).overlay = "Correlate" /\ EscTo(a).layout = a.layout
    BY <2>1 DEF OverlayOK, Covers, Opens, Dirty
  <2> QED
    BY <1>6, <1>8, <2>2
<1>9. CASE a.overlay = "None" /\ a.layout = "Spotlight" /\ action = Do("ShowAll")
  <2>1. EscTo(a) = [Dirty(a) EXCEPT !.layout = "Scorecard"]
    BY <1>1, <1>5, <1>9 DEF ShowAll
  <2>2. EscTo(a).overlay = "None" /\ EscTo(a).layout = "Scorecard"
    BY <1>9, <2>1 DEF OverlayOK, Covers, Dirty
  <2> QED
    BY <1>6, <1>9, <2>2
<1>10. CASE a.overlay = "None" /\ a.layout = "Scorecard" /\ action = Ignored
  BY <1>1, <1>5, <1>6, <1>10
<1> QED
  BY <1>4, <1>7, <1>8, <1>9, <1>10

(* From every state the operator can get to, three times Esc lead back to  *)
(* the scorecard with nothing open, and the run of a popup that was open   *)
(* is cancelled on the way.                                                *)
THEOREM EscLeadsHome == Spec => []EscUnwinds
<1>1. ASSUME NEW a, OverlayOK(a)
      PROVE  LET home == EscTo(EscTo(EscTo(a)))
             IN  /\ home.overlay = "None" /\ home.layout = "Scorecard" /\ ~home.popup.open
                 /\ a.popup.open => "CancelCorrelate" \in {EscTo(a).effect, EscTo(EscTo(a)).effect}
  <2> DEFINE b == EscTo(a)
             c == EscTo(b)
             d == EscTo(c)
  <2>1. /\ OverlayOK(b)
        /\ a.overlay = "CorrelateFullscreen" => b.overlay = "Correlate"
        /\ a.overlay \notin {"None", "CorrelateFullscreen"} =>
             b.overlay = "None" /\ (a.popup.open => b.effect = "CancelCorrelate")
        /\ a.overlay = "None" => b.overlay = "None" /\ b.layout = "Scorecard"
    BY <1>1, EscStep
  <2> HIDE DEF b
  <2>2. /\ OverlayOK(c)
        /\ b.overlay \notin {"None", "CorrelateFullscreen"} =>
             c.overlay = "None" /\ (b.popup.open => c.effect = "CancelCorrelate")
        /\ b.overlay = "None" => c.overlay = "None" /\ c.layout = "Scorecard"
    BY <2>1, EscStep
  <2> HIDE DEF c
  <2>3. OverlayOK(d) /\ (c.overlay = "None" => d.overlay = "None" /\ d.layout = "Scorecard")
    BY <2>2, EscStep
  <2> HIDE DEF d
  <2>4. c.overlay = "None"
    BY <2>1, <2>2
  <2>5. ~d.popup.open
    BY <2>3, <2>4 DEF OverlayOK, PopupOverlays
  <2>6. a.popup.open => "CancelCorrelate" \in {b.effect, c.effect}
    BY <1>1, <2>1, <2>2 DEF OverlayOK, PopupOverlays
  <2> QED
    BY <2>3, <2>4, <2>5, <2>6 DEF b, c, d
<1>2. ReducerInv => EscUnwinds
  BY <1>1 DEF ReducerInv, EscUnwinds
<1> QED
  BY <1>2, ReducerIsRight, PTL

-----------------------------------------------------------------------------
(* An incident card is a card of the round: severity, novelty and the      *)
(* order of the round put the troubled ones in one order.                  *)
LEMMA CardsOfRound ==
  ASSUME NEW a, a.snaps \in Seq(ToSet(a.snaps))
  PROVE  \A k \in DOMAIN Cards(a) : \E i \in DOMAIN a.snaps : Cards(a)[k] = a.snaps[i]
<1> DEFINE idx == {i \in DOMAIN a.snaps : a.snaps[i].status \notin Good}
           R == {p \in idx \X idx : Precedes(a, p[1], p[2])}
           order == Sorted(idx, R)
           rank(k) == 3 * Severity(a.snaps[k].status) + Novelty(a.deltas[a.snaps[k].name])
<1>1. DOMAIN a.snaps = 1 .. Len(a.snaps) /\ Len(a.snaps) \in Nat
  OBVIOUS
<1>2. IsFiniteSet(idx) /\ idx \subseteq DOMAIN a.snaps /\ idx \subseteq Nat
  <2>1. IsFiniteSet(1 .. Len(a.snaps))
    BY <1>1, FS_Interval
  <2>2. idx \subseteq 1 .. Len(a.snaps) /\ idx \subseteq DOMAIN a.snaps
    BY <1>1
  <2> HIDE DEF idx
  <2>3. idx \subseteq Nat
    BY <1>1, <2>2
  <2>4. IsFiniteSet(idx)
    BY <2>1, <2>2, FS_Subset
  <2> QED
    BY <2>2, <2>3, <2>4
<1>3. Cards(a) = [k \in DOMAIN order |-> a.snaps[order[k]]]
  BY DEF Cards
<1>4. \A k : rank(k) \in Nat
  <2>1. \A s : Severity(s) \in Nat
    BY DEF Severity
  <2>2. \A d : Novelty(d) \in Nat
    BY DEF Novelty
  <2> QED
    BY <2>1, <2>2
<1>5. \A i, j : Precedes(a, i, j) <=> (rank(i) < rank(j) \/ (rank(i) = rank(j) /\ i < j))
  BY DEF Precedes
<1> HIDE DEF rank
<1>6. \A i, j \in idx : <<i, j>> \in R <=> (rank(i) < rank(j) \/ (rank(i) = rank(j) /\ i < j))
  BY <1>5
<1> HIDE DEF R, idx
<1>7. Orders(R, idx)
  BY <1>2, <1>4, <1>6 DEF Orders
<1>8. order \in Seq(idx)
  BY <1>2, <1>7, SortedIs
<1> HIDE DEF order
<1>9. \A k \in DOMAIN order : order[k] \in DOMAIN a.snaps
  BY <1>2, <1>8
<1> QED
  BY <1>3, <1>9

(* What is found first was found somewhere. *)
LEMMA FirstIsFound ==
  ASSUME NEW found, DOMAIN found \subseteq Nat, FirstOf(found) # << >>
  PROVE  \E k \in DOMAIN found : FirstOf(found) = found[k] /\ found[k] # << >>
<1> DEFINE hits == {k \in DOMAIN found : found[k] # << >>}
<1>1. hits # {} /\ FirstOf(found) = found[Min(hits)]
  BY DEF FirstOf
<1>2. hits \in SUBSET Nat
  OBVIOUS
<1>3. Min(hits) \in hits
  <2> HIDE DEF hits
  <2> QED
    BY <1>1, <1>2, MinOf
<1> QED
  BY <1>1, <1>3

(* The entity of a row is one that a finding of the row names. *)
LEMMA EntityOfRow ==
  ASSUME NEW a, FocusedEntity(a) # << >>, NEW fs, fs = DrillRow(a)[1].findings, fs \in Seq(ToSet(fs))
  PROVE  DrillRow(a) # << >> /\ \E k \in DOMAIN fs : FocusedEntity(a)[1] \in Mentions(fs[k])
<1> DEFINE next == [k \in DOMAIN fs |-> InNextCommand(fs[k].next)]
           said == [k \in DOMAIN fs |-> InMessage(fs[k].message)]
           found == next \o said
           e == FocusedEntity(a)
<1>1. DrillRow(a) # << >> /\ e = FirstOf(found)
  BY DEF FocusedEntity
<1>2. DOMAIN fs = 1 .. Len(fs) /\ Len(fs) \in Nat
  OBVIOUS
<1>3. next \in Seq(ToSet(next)) /\ said \in Seq(ToSet(said)) /\ Len(next) = Len(fs) /\ Len(said) = Len(fs)
  <2>1. ASSUME NEW g, DOMAIN g = 1 .. Len(fs), g = [k \in DOMAIN g |-> g[k]] PROVE g \in Seq(ToSet(g)) /\ Len(g) = Len(fs)
    <3>1. \A k \in 1 .. Len(fs) : g[k] \in ToSet(g)
      BY <2>1 DEF ToSet
    <3> QED
      BY <1>2, <2>1, <3>1
  <2>2. DOMAIN next = 1 .. Len(fs) /\ next = [k \in DOMAIN next |-> next[k]]
    BY <1>2
  <2>3. DOMAIN said = 1 .. Len(fs) /\ said = [k \in DOMAIN said |-> said[k]]
    BY <1>2
  <2> HIDE DEF next, said
  <2> QED
    BY <2>1, <2>2, <2>3
<1>4. /\ \A k \in DOMAIN fs : next[k] = InNextCommand(fs[k].next) /\ said[k] = InMessage(fs[k].message)
  OBVIOUS
<1>5. /\ DOMAIN found \subseteq Nat
      /\ \A k \in DOMAIN found : \E i \in DOMAIN fs : found[k] \in {next[i], said[i]}
  <2> HIDE DEF next, said
  <2>1. Len(found) = Len(fs) + Len(fs) /\ DOMAIN found = 1 .. Len(found)
    <3>1. ASSUME NEW T, NEW p \in Seq(T), NEW q \in Seq(T)
          PROVE  Len(p \o q) = Len(p) + Len(q) /\ DOMAIN (p \o q) = 1 .. Len(p \o q)
      OBVIOUS
    <3> DEFINE T == ToSet(next) \cup ToSet(said)
    <3>2. next \in Seq(T) /\ said \in Seq(T)
      BY <1>3
    <3> HIDE DEF T
    <3>3. Len(next \o said) = Len(next) + Len(said) /\ DOMAIN (next \o said) = 1 .. Len(next \o said)
      BY <3>1, <3>2, Zenon
    <3> QED
      BY <1>3, <3>3, Zenon
  <2>2. \A k \in 1 .. Len(found) : found[k] = IF k <= Len(fs) THEN next[k] ELSE said[k - Len(fs)]
    BY <1>2, <1>3, <2>1
  <2> HIDE DEF found
  <2>3. ASSUME NEW k \in 1 .. Len(found) PROVE \E i \in DOMAIN fs : found[k] \in {next[i], said[i]}
    <3>1. CASE k <= Len(fs)
      BY <1>2, <2>1, <2>2, <3>1
    <3>2. CASE ~(k <= Len(fs))
      <4>1. k - Len(fs) \in DOMAIN fs
        BY <1>2, <2>1, <3>2
      <4> QED
        BY <2>2, <3>2, <4>1
    <3> QED
      BY <3>1, <3>2
  <2> QED
    BY <1>2, <2>1, <2>3
<1> HIDE DEF found, next, said
<1>6. PICK k \in DOMAIN found : e = found[k] /\ found[k] # << >>
  BY <1>1, <1>5, FirstIsFound
<1>7. PICK i \in DOMAIN fs : e \in {InNextCommand(fs[i].next), InMessage(fs[i].message)} /\ e # << >>
  BY <1>4, <1>5, <1>6
<1>8. e[1] \in Mentions(fs[i])
  BY <1>7 DEF Mentions
<1> QED
  BY <1>1, <1>7, <1>8

(* The row that is drilled into is a card of the round that is highlighted *)
(* on screen, whichever layout draws it.                                   *)
LEMMA RowIsHighlighted ==
  ASSUME ReducerInv, ScreenInv, Waiting("dashboard"), DrillRow(app) # << >>
  PROVE  \E i \in DOMAIN app.snaps : DrillRow(app)[1] = app.snaps[i] /\ app.snaps[i].name \in Highlighted
<1>1. PICK a : SameView(a, app) /\ screen = View(a, width)
  BY DEF ScreenInv
<1>2. /\ app.snaps \in Seq(ToSet(app.snaps)) /\ app.focus \in Nat /\ app.spotlightFocus \in Nat
      /\ app.layout \in {"Scorecard", "Spotlight"}
  BY DEF ReducerInv, FocusOK, OverlayOK
<1>3. /\ app.snaps = a.snaps /\ app.focus = a.focus /\ app.spotlightFocus = a.spotlightFocus
      /\ app.layout = a.layout /\ Cards(app) = Cards(a)
  BY <1>1, SameCards DEF SameView
<1>4. CASE app.layout = "Scorecard"
  <2> DEFINE n == app.focus + 1
  <2>1. n \in DOMAIN app.snaps /\ DrillRow(app)[1] = app.snaps[n]
    BY <1>2, <1>4 DEF DrillRow, Focused
  <2>2. screen = ScorecardView(a, width)
    BY <1>1, <1>3, <1>4 DEF View
  <2>3. screen.layout = "Scorecard" /\ screen.cards = Grid(a, width)
    BY <2>2 DEF ScorecardView
  <2>4. DOMAIN Grid(a, width) = DOMAIN app.snaps /\ Grid(a, width)[n] = Scorecard(a, n - 1, width)
    BY <1>3, <2>1 DEF Grid
  <2>5. Scorecard(a, n - 1, width).name = a.snaps[n - 1 + 1].name /\ Scorecard(a, n - 1, width).focused = (n - 1 = a.focus)
    BY DEF Scorecard
  <2>6. n - 1 = a.focus /\ n - 1 + 1 = n
    BY <1>2, <1>3
  <2> HIDE DEF n
  <2>7. screen.cards[n].name = app.snaps[n].name /\ screen.cards[n].focused /\ n \in DOMAIN screen.cards
    BY <1>3, <2>1, <2>3, <2>4, <2>5, <2>6
  <2>8. app.snaps[n].name \in Highlighted
    BY <2>3, <2>7 DEF Highlighted
  <2> QED
    BY <2>1, <2>8
<1>5. CASE app.layout = "Spotlight"
  <2> DEFINE n == app.spotlightFocus + 1
             rows == IncidentRows(a)
  <2>1. app.spotlightFocus < Len(Cards(app)) /\ DrillRow(app)[1] = Cards(app)[n]
    BY <1>5 DEF DrillRow, FocusedCard
  <2>2. n \in DOMAIN Cards(app)
    <3>1. DOMAIN Cards(app) = 1 .. Len(Cards(app)) /\ Len(Cards(app)) \in Nat
      BY <1>2, CardsAreTroubles
    <3> QED
      BY <1>2, <2>1, <3>1
  <2>3. PICK i \in DOMAIN app.snaps : Cards(app)[n] = app.snaps[i]
    BY <1>2, <2>2, CardsOfRound
  <2>4. screen = SpotlightView(a, width)
    BY <1>1, <1>3, <1>5 DEF View
  <2>5. screen.layout = "Spotlight" /\ screen.rows = rows
    BY <2>4 DEF SpotlightView
  <2>6. n \in DOMAIN rows /\ rows[n].name = Cards(a)[n].name /\ rows[n].focused = (n - 1 = a.spotlightFocus)
    BY <1>3, <2>2 DEF IncidentRows
  <2>7. n - 1 = a.spotlightFocus
    BY <1>2, <1>3
  <2> HIDE DEF n, rows
  <2>8. app.snaps[i].name \in Highlighted
    BY <1>3, <2>3, <2>5, <2>6, <2>7 DEF Highlighted
  <2> QED
    BY <2>1, <2>3, <2>8
<1> QED
  BY <1>2, <1>4, <1>5

(* With no overlay open, `c` and Enter alone open a popup, and they open   *)
(* it on the entity of the row.                                            *)
LEMMA OnlyDrillOpens ==
  ASSUME NEW a, OverlayOK(a), a.overlay = "None", NEW action, Handle(a, action).popup.open,
         action.act = "ChooserNavigate" => action.dir \in {"Up", "Down"}
  PROVE  FocusedEntity(a) # << >> /\ Handle(a, action).popup.entity = FocusedEntity(a)[1]
<1> DEFINE h == Handle(a, action)
<1>1. \/ h = a \/ h = Refresh(a) \/ h = OpenDetail(a) \/ h = OpenHelp(a) \/ h = ShowLogs(a)
      \/ h = CloseOverlay(a) \/ h = Dirty(a) \/ h = TogglePause(a) \/ h = ToggleMouseCapture(a)
      \/ h = ShowSpotlight(a) \/ h = ShowAll(a) \/ h = SetToast(a) \/ h = Asks(a, "Quit")
      \/ h = CopyNextCommand(a) \/ h = OpenLink(a) \/ h = CorrelateArm(a) \/ h = ChooserConfirm(a)
      \/ h = ToggleFullscreen(a) \/ h = FocusArm(a, action.dir) \/ h = ScrollArm(a, action.dir)
      \/ h = ChooserNavigate(a, action.dir) \/ h = Click(a, action.cell)
  BY ZenonT(120) DEF Handle
<1>2. h.overlay \in PopupOverlays
  BY HandleKeepsOverlay DEF OverlayOK
<1>3. Covers(a) /\ a.overlay \notin PopupOverlays /\ ~a.chooser.open
  BY DEF OverlayOK, PopupOverlays
<1> HIDE DEF h
<1>4. ~ \/ h = CopyNextCommand(a) \/ h = OpenLink(a) \/ h = ScrollArm(a, action.dir) \/ h = FocusArm(a, action.dir)
        \/ h = Click(a, action.cell) \/ h = a \/ h = Refresh(a) \/ h = Dirty(a) \/ h = TogglePause(a)
        \/ h = ToggleMouseCapture(a) \/ h = SetToast(a) \/ h = Asks(a, "Quit")
  <2>1. ASSUME SameOverlay(a, h) PROVE FALSE
    BY <1>2, <1>3, <2>1 DEF SameOverlay
  <2> QED
    BY <1>3, <2>1, MovesOverlay, TogglesOverlay, SmallOverlay
<1>5. ~(h = ChooserConfirm(a) \/ h = ToggleFullscreen(a) \/ h = ChooserNavigate(a, action.dir) \/ h = CloseOverlay(a))
  BY <1>2, <1>3 DEF ChooserConfirm, ToggleFullscreen, ChooserNavigate, CloseOverlay
<1>6. ~(h = OpenDetail(a) \/ h = OpenHelp(a) \/ h = ShowLogs(a) \/ h = ShowSpotlight(a) \/ h = ShowAll(a))
  BY <1>2, <1>3 DEF OpenDetail, OpenHelp, ShowLogs, ShowSpotlight, ShowAll, Opens, Dirty, Covers, PopupOverlays
<1>7. h = CorrelateArm(a)
  BY <1>1, <1>4, <1>5, <1>6, Zenon
<1>8. h = a \/ h = SetToast(a) \/ (FocusedEntity(a) # << >> /\ h = OpenPopup(a, FocusedEntity(a)[1]))
  BY <1>7, Zenon DEF CorrelateArm
<1> DEFINE e == FocusedEntity(a)[1]
<1>9. FocusedEntity(a) # << >> /\ h = OpenPopup(a, e)
  BY <1>4, <1>8, Zenon
<1> HIDE DEF e
<1>10. h = Asks([Opens(a, "Correlate") EXCEPT !.popup = EmptyPopup(e)], "RunCorrelate")
  BY <1>9 DEF OpenPopup
<1>11. h.popup = EmptyPopup(e)
  BY <1>3, <1>10 DEF Asks, Opens, Dirty, Covers
<1>12. h.popup.entity = e
  BY <1>11 DEF EmptyPopup
<1> QED
  BY <1>9, <1>12 DEF h, e

(* The screen is current whenever the loop waits. *)
LEMMA ScreenInvariant == Spec => []ScreenInv
<1>1. Init => ScreenInv
  <2>1. Drawable(NewApp)
    BY DEF NewApp, Drawable
  <2> QED
    BY <2>1 DEF Init, ScreenInv, Waiting
<1>2. ScreenInv /\ [Next]_vars => ScreenInv'
  BY StepShows
<1> QED
  BY <1>1, <1>2, PTL DEF Spec

(* `c` and Enter drill into what is highlighted on screen, and into what a *)
(* finding of it names: the reducer keeps a focus for each layout, rounds  *)
(* re-sort and shrink the incidents between two draws, and still the focus *)
(* that the arm reads is the one that the view drew.                       *)
THEOREM DrillsIntoHighlight == Spec => DrillTargetsHighlight
<1> DEFINE Target == \E i \in DOMAIN app.snaps :
                       /\ app.snaps[i].name \in Highlighted
                       /\ \E k \in DOMAIN app.snaps[i].findings :
                            app'.popup.entity \in Mentions(app.snaps[i].findings[k])
           Drilled == ~app.popup.open /\ app'.popup.open /\ app.overlay = "None"
<1>1. ASSUME ReducerInv, ScreenInv, Next, Drilled PROVE Target
  <2> USE <1>1
  <2>1. OverlayOK(app) /\ FocusOK(app) /\ Covers(app)
    BY DEF ReducerInv, OverlayOK
  <2>2. CASE app'.popup = app.popup
    BY <2>2
  <2>3. CASE StepPasses
    <3>1. CASE app' = app
      BY <3>1
    <3>2. CASE app' = [Refresh(NewApp) EXCEPT !.effect = "None"]
      <4>1. OverlayOK(app')
        BY <3>2, NewAppOK
      <4>2. SameOverlay(NewApp, Refresh(NewApp)) /\ Covers(Refresh(NewApp)) /\ Covers(NewApp)
        BY NewAppOK, TogglesOverlay DEF OverlayOK, SameOverlay, Covers
      <4>3. app'.popup = NewApp.popup
        BY <3>2, <4>2 DEF SameOverlay, Covers
      <4>4. ~NewApp.popup.open
        BY DEF NewApp, NoPopup
      <4> QED
        BY <4>3, <4>4
    <3> QED
      BY <2>3, <3>1, <3>2 DEF StepPasses
  <2>4. CASE DrawDashboard
    BY <2>1, <2>2, <2>4 DEF DrawDashboard, Covers
  <2>5. ASSUME NEW b, SameOverlay(app, b), Dispatched(b) PROVE FALSE
    <3>1. app' = [b EXCEPT !.effect = "None"]
      BY <2>5 DEF Dispatched
    <3>2. app'.popup = app.popup
      BY <2>1, <2>5, <3>1 DEF SameOverlay, Covers
    <3> QED
      BY <3>2
  <2>6. CASE TerminalEvent
    <3>1. PICK event : Dispatched(Handle(app, Translate(event, app.layout, app.overlay)))
      BY <2>6 DEF TerminalEvent
    <3> DEFINE action == Translate(event, app.layout, app.overlay)
               b == Handle(app, action)
    <3>2. action.act = "ChooserNavigate" => action.dir \in {"Up", "Down"}
      BY NavigatesUpOrDown
    <3> HIDE DEF action
    <3>3. OverlayOK(b) /\ app' = [b EXCEPT !.effect = "None"]
      BY <2>1, <3>1, <3>2, HandleKeepsOverlay DEF Dispatched, action
    <3>4. app'.popup = b.popup
      <4> HIDE DEF b
      <4> QED
        BY <3>3 DEF OverlayOK, Covers
    <3>5. FocusedEntity(app) # << >> /\ b.popup.entity = FocusedEntity(app)[1]
      BY <2>1, <3>2, <3>4, OnlyDrillOpens
    <3> HIDE DEF b
    <3>6. Waiting("dashboard")
      BY <2>6 DEF TerminalEvent
    <3>7. DrillRow(app) # << >>
      BY <3>5 DEF FocusedEntity
    <3>8. PICK i \in DOMAIN app.snaps : DrillRow(app)[1] = app.snaps[i] /\ app.snaps[i].name \in Highlighted
      BY <3>6, <3>7, RowIsHighlighted
    <3>9. app.snaps[i].findings \in Seq(ToSet(app.snaps[i].findings))
      BY <2>1, <3>8 DEF FocusOK, FindingsOK
    <3>10. PICK k \in DOMAIN app.snaps[i].findings : FocusedEntity(app)[1] \in Mentions(app.snaps[i].findings[k])
      BY <3>5, <3>8, <3>9, EntityOfRow
    <3> QED
      BY <3>4, <3>5, <3>8, <3>10
  <2>7. CASE TickFires
    BY <2>1, <2>5, <2>7, TogglesOverlay DEF TickFires
  <2>8. CASE RoundArrives
    BY <2>1, <2>5, <2>8, RoundOverlay DEF RoundArrives
  <2>9. CASE LogLinesArrive
    <3>1. PICK lines : Dispatched(LogLinesArm(app, lines))
      BY <2>9 DEF LogLinesArrive
    <3>2. LogLinesArm(app, lines).popup = app.popup /\ "effect" \in DOMAIN LogLinesArm(app, lines)
          /\ DOMAIN LogLinesArm(app, lines) = DOMAIN app
      BY <2>1 DEF LogLinesArm, Dirty, Covers
    <3>3. app' = [LogLinesArm(app, lines) EXCEPT !.effect = "None"]
      BY <3>1 DEF Dispatched
    <3>4. app'.popup = app.popup
      BY <2>1, <3>2, <3>3 DEF Covers
    <3> QED
      BY <2>2, <3>4
  <2>10. CASE UpdateArrives
    <3>1. PICK entity, u : Dispatched(CorrelateUpdate(app, entity, u))
      BY <2>10 DEF UpdateArrives
    <3>2. CorrelateUpdate(app, entity, u) = app
      BY DEF CorrelateUpdate
    <3> QED
      BY <2>1, <2>5, <3>1, <3>2, SmallOverlay
  <2>11. CASE ToastArrives
    <3>1. SameOverlay(app, app')
      BY <2>1, <2>11, SmallOverlay DEF ToastArrives
    <3> QED
      BY <2>2, <3>1 DEF SameOverlay
  <2>12. CASE StepFails \/ LoopFails \/ TaskPanics \/ PanelPanics
    BY <2>12 DEF StepFails, LoopFails, TaskPanics, PanelPanics
  <2>13. CASE PanelKeyPressed \/ PanelTimer \/ RowsArrive \/ ErrorArrives \/ FetchDies
    <3>1. UNCHANGED app
      BY <2>13 DEF PanelKeyPressed, PanelTimer, RowsArrive, ErrorArrives, FetchDies, InPanel
    <3> QED
      BY <3>1
  <2> QED
    BY <2>3, <2>4, <2>6, <2>7, <2>8, <2>9, <2>10, <2>11, <2>12, <2>13 DEF Next
<1>2. ReducerInv /\ ScreenInv /\ [Next]_vars => [Drilled => Target]_vars
  BY <1>1
<1> QED
  BY <1>2, ReducerIsRight, ScreenInvariant, PTL DEF Spec, DrillTargetsHighlight
=============================================================================
