---------------------------- MODULE ButtonStream ----------------------------
(***************************************************************************)
(* What the CAP1298 touch driver promises to the task that handles button  *)
(* events: at most one button is down at a time, a press names it, and the *)
(* next event is the release of that same button.                          *)
(***************************************************************************)
CONSTANTS Buttons,   \* the touch pads: A, B, center
          NoButton   \* capDrvSource_null, not a member of Buttons

VARIABLE held        \* the button reported as pressed, not yet as released

Init == held = NoButton

\* capDrvEvt_press for button b
Press(b) == /\ held = NoButton
            /\ held' = b

\* capDrvEvt_release for button b
Release(b) == /\ held = b
              /\ held' = NoButton

Next == \E b \in Buttons : Press(b) \/ Release(b)

Spec == Init /\ [][Next]_held
=============================================================================
