------------------------------ MODULE OpsKeys ------------------------------
(***************************************************************************)
(* The event translator of the nico ops dashboard (events.rs): which       *)
(* Action a terminal event means in the current layout and overlay.  It    *)
(* keeps no state.  A key is named by its code; letters the code accepts   *)
(* in both cases are one key, `m` and `M` are two.  A table is a record    *)
(* from the keys it binds to the actions they mean, with "question" for    *)
(* `?`; keys that no table binds are the key "other".                      *)
(***************************************************************************)
Do(act)      == [act |-> act, dir |-> "none"]
Go(act, dir) == [act |-> act, dir |-> dir]
Ignored      == Do("Ignored")

Bound(table, key) == IF key \in DOMAIN table THEN table[key] ELSE Ignored

(* Layout::Scorecard without an overlay.  `l` is the logs overlay, not a   *)
(* vim-style move to the right.                                            *)
NormalKeys ==
  [q |-> Do("Quit"), r |-> Do("Refresh"), space |-> Do("TogglePause"),
   m |-> Do("ShowToast"), M |-> Do("ToggleMouseCapture"),
   s |-> Do("ShowSpotlight"), question |-> Do("OpenHelp"),
   c |-> Do("Correlate"), l |-> Do("ShowLogs"), enter |-> Do("OpenDetail"),
   left |-> Go("Focus", "Left"), h |-> Go("Focus", "Left"), right |-> Go("Focus", "Right"),
   up |-> Go("Focus", "Up"), k |-> Go("Focus", "Up"),
   down |-> Go("Focus", "Down"), j |-> Go("Focus", "Down")]

(* Layout::Spotlight without an overlay: Enter drills like `c`; s, a and   *)
(* Esc leave; nothing moves to the left or to the right.                   *)
SpotlightKeys ==
  [q |-> Do("Quit"), r |-> Do("Refresh"), space |-> Do("TogglePause"),
   m |-> Do("ShowToast"), M |-> Do("ToggleMouseCapture"),
   s |-> Do("ShowAll"), a |-> Do("ShowAll"), esc |-> Do("ShowAll"),
   question |-> Do("OpenHelp"), enter |-> Do("Correlate"), c |-> Do("Correlate"),
   y |-> Do("CopyNextCommand"), o |-> Do("OpenLink"), l |-> Do("ShowLogs"),
   up |-> Go("Focus", "Up"), k |-> Go("Focus", "Up"),
   down |-> Go("Focus", "Down"), j |-> Go("Focus", "Down")]

(* Detail and help: the key that opened them closes them, `q` quits. *)
DetailKeys == [esc |-> Do("CloseOverlay"), q |-> Do("Quit"), enter |-> Do("CloseOverlay")]
HelpKeys   == [esc |-> Do("CloseOverlay"), q |-> Do("Quit"), question |-> Do("CloseOverlay")]

CorrelateKeys ==
  [esc |-> Do("CloseOverlay"), q |-> Do("CloseOverlay"),
   enter |-> Do("ToggleCorrelateFullscreen")]

FullscreenKeys_NoEsc == [q |-> Do("CloseOverlay")]

FullscreenKeys == [esc |-> Do("ToggleCorrelateFullscreen"), q |-> Do("CloseOverlay")]

ChooserKeys ==
  [esc |-> Do("CloseOverlay"), q |-> Do("CloseOverlay"), enter |-> Do("ChooserConfirm"),
   up |-> Go("ChooserNavigate", "Up"), k |-> Go("ChooserNavigate", "Up"),
   down |-> Go("ChooserNavigate", "Down"), j |-> Go("ChooserNavigate", "Down")]

LogsKeys ==
  [esc |-> Do("CloseOverlay"), q |-> Do("CloseOverlay"), l |-> Do("CloseOverlay"),
   c |-> Do("Correlate")]

KeyTable(layout, overlay) ==
  CASE overlay = "Detail"                 -> DetailKeys
    [] overlay = "Help"                   -> HelpKeys
    [] overlay = "Correlate"              -> CorrelateKeys
    [] overlay = "CorrelateFullscreen"    -> FullscreenKeys
    [] overlay = "CorrelateChooser"       -> ChooserKeys
    [] overlay = "Logs"                   -> LogsKeys
    [] OTHER -> IF layout = "Scorecard" THEN NormalKeys ELSE SpotlightKeys

(* A release is ignored, Ctrl-C quits wherever it is pressed. *)
TranslateKey(key, layout, overlay) ==
  CASE key = "release" -> Ignored
    [] key = "ctrl-c"  -> Do("Quit")
    [] OTHER           -> Bound(KeyTable(layout, overlay), key)

(* A left press is a Click at its cell, the wheel scrolls; both whatever   *)
(* is on screen.                                                           *)
TranslateMouse(mouse) ==
  CASE mouse = "wheel-up"   -> Go("Scroll", "Up")
    [] mouse = "wheel-down" -> Go("Scroll", "Down")
    [] OTHER                -> Ignored

Translate(event, layout, overlay) ==
  CASE event.kind = "resize" -> Do("Resize")
    [] event.kind = "key"    -> TranslateKey(event.what, layout, overlay)
    [] event.kind = "press"  -> [act |-> "Click", cell |-> event.cell]
    [] event.kind = "mouse"  -> TranslateMouse(event.what)
    [] OTHER                 -> Ignored
=============================================================================
