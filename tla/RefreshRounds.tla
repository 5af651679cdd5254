--------------------------- MODULE RefreshRounds ---------------------------
(***************************************************************************)
(* What the dashboard promises of its refresh loop, whatever the timer,    *)
(* the operator, the tasks and the channel do: collection rounds never     *)
(* overlap, and each one is shown before the next one starts.              *)
(***************************************************************************)
EXTENDS Naturals

VARIABLES
  started,   \* the newest round started
  shown      \* the newest round shown, 0 before the first

Init == started = 1 /\ shown = 0

Start == shown = started /\ started' = started + 1 /\ UNCHANGED shown
Show  == shown # started /\ shown' = started /\ UNCHANGED started

Next == Start \/ Show

Spec == Init /\ [][Next]_<<started, shown>>
=============================================================================
