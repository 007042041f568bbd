--------------------------- MODULE Cap1298Handler ---------------------------
(***************************************************************************)
(* The button task (app_platform/cap1298_handler.c).  The touch driver     *)
(* calls capCallback, which puts a message in a queue of limited size; the *)
(* task takes one message per turn, first checks its timers against a      *)
(* snapshot of the uptime, then handles the message: double tap of A or B  *)
(* toggles that socket, three taps of the center button and a long fourth  *)
(* press reboot the device or reset it to factory settings.                *)
(*                                                                         *)
(* Time is counted in ticks of one second.  The uint32 subtraction         *)
(* curTime - pressTime is kept as the difference it computes: sincePress   *)
(* is uptime - pressTime, and lag is uptime - curTime, both modulo         *)
(* TimeMod (2^32 ms in the code).                                          *)
(***************************************************************************)
EXTENDS Naturals, Sequences

CONSTANTS Outlets,            \* the buttons of the sockets (A and B)
          Center,             \* the center button
          NoButton,           \* NULL / capDrvSource_null
          NoMsg,              \* the receive timed out
          QSize,              \* queue length (8 in the code)
          TimeMod,            \* modulus of the uptime counter, in ticks
          ExpireTime,         \* EXPIRE_TIME_IDLE
          HoldReboot,         \* HOLD_TIME_REBOOT_MS
          HoldFactory         \* HOLD_TIME_RESET_FACT_MS

Buttons == Outlets \cup {Center}

ASSUME HandlerAssumption ==
    /\ QSize \in Nat \ {0} /\ TimeMod \in Nat \ {0}
    /\ ExpireTime \in Nat \ {0}
    /\ HoldReboot \in 0..HoldFactory /\ HoldFactory \in Nat
    /\ NoButton \notin Buttons /\ Center \notin Outlets
    /\ NoMsg \notin [code : {"press", "release"}, src : Buttons,
                     taps : 0..4, held : 0..HoldFactory]

VARIABLES held,             \* the driver's side: the button it reported down
          queue, buttonsEnabled,
          pc, msg,          \* the task: where it is, the message it holds
          sincePress, lag,  \* pressTime and curTime, seen from the uptime
          isPressed, tapCount, activeButton, resetState,
          out               \* what the last step of the task asked others for

\* History, kept for the properties: how long the held button has been down,
\* how often in a row it was let go, and whether a message was ever lost.
VARIABLES heldFor, tapsOf, dropped

gestureVars == <<isPressed, tapCount, activeButton, resetState>>
driverVars == <<held, heldFor, tapsOf>>
vars == <<held, queue, buttonsEnabled, pc, msg, sincePress, lag,
          isPressed, tapCount, activeButton, resetState, out,
          heldFor, tapsOf, dropped>>

\* A queued event carries the history of its button (taps, held) for the
\* properties; the task reads only code and src.
Message == [code : {"press", "release"}, src : Buttons,
            taps : 0..4, held : 0..HoldFactory]

TypeOK ==
    /\ held \in Buttons \cup {NoButton}
    /\ queue \in Seq(Message) /\ Len(queue) <= QSize
    /\ buttonsEnabled \in BOOLEAN
    /\ pc \in {"wait", "flash", "handle", "polled"}
    /\ msg \in Message \cup {NoMsg}
    /\ sincePress \in 0..(TimeMod - 1)
    /\ lag \in 0..1
    /\ isPressed \in BOOLEAN
    /\ tapCount \in 0..4
    /\ activeButton \in Buttons \cup {NoButton}
    /\ resetState \in {"idle", "armed", "reboot", "factory"}
    /\ out \in {"none", "toggle", "rebootArmed", "reboot", "factory"}
    /\ heldFor \in 0..HoldFactory
    /\ tapsOf \in [last : Buttons \cup {NoButton}, n : 0..4]
    /\ dropped \in BOOLEAN

\* The history is kept as far as the properties look: two taps of an outlet
\* button, four of the center button, and how long the center button is held;
\* none of it after a message was lost.
UpTo(n, bound) == IF n < bound THEN n + 1 ELSE n
TapBound(b) == IF b = Center THEN 4 ELSE 2
NoTaps == [last |-> NoButton, n |-> 0]
HeldLonger == IF held = Center /\ ~dropped THEN UpTo(heldFor, HoldFactory) ELSE heldFor

Init ==
    /\ held = NoButton
    /\ queue = <<>> /\ buttonsEnabled \in BOOLEAN
    /\ pc = "wait" /\ msg = NoMsg
    /\ sincePress \in 0..(TimeMod - 1) /\ lag = 0
    /\ isPressed = FALSE /\ tapCount = 0
    /\ activeButton = NoButton /\ resetState = "idle"
    /\ out = "none"
    /\ heldFor = 0 /\ tapsOf = NoTaps
    /\ dropped = FALSE

-----------------------------------------------------------------------------
\* capCallback: A and B are ignored while the buttons are disabled.
Filtered(b) == ~buttonsEnabled /\ b # Center

\* capCallback: a message that finds the queue full for 100 ms is lost.
capCallback(m) ==
    IF Len(queue) < QSize
      THEN queue' = Append(queue, m) /\ UNCHANGED dropped
      ELSE dropped' = TRUE /\ UNCHANGED queue

DriverIdle == UNCHANGED <<pc, msg, sincePress, lag, gestureVars, out, buttonsEnabled>>

\* The driver reports a press; the driver behaves as ButtonStream.
DriverPress(b) ==
    /\ held = NoButton
    /\ held' = b /\ heldFor' = 0
    /\ \/ /\ Filtered(b)
          /\ UNCHANGED <<tapsOf, queue, dropped>>
       \/ /\ ~Filtered(b)
          /\ tapsOf' = IF dropped THEN NoTaps
                       ELSE IF tapsOf.last = b THEN tapsOf ELSE [last |-> b, n |-> 0]
          /\ capCallback([code |-> "press", src |-> b, taps |-> tapsOf'.n, held |-> 0])
    /\ DriverIdle

\* The driver reports the release of the button it reported pressed.  If the
\* buttons were disabled since the press, the release is lost on the task.
DriverRelease(b) ==
    /\ held = b
    /\ held' = NoButton
    /\ \/ /\ Filtered(b)
          /\ dropped' = (dropped \/ tapsOf.last = b)
          /\ UNCHANGED <<tapsOf, queue>>
       \/ /\ ~Filtered(b)
          /\ tapsOf' = IF tapsOf.last = b THEN [tapsOf EXCEPT !.n = UpTo(@, TapBound(b))]
                                          ELSE NoTaps
          /\ capCallback([code |-> "release", src |-> b, taps |-> tapsOf'.n, held |-> heldFor])
    /\ heldFor' = 0
    /\ DriverIdle

\* appControlButtonEnable turns the outlet buttons off or on.
ButtonEnable ==
    /\ buttonsEnabled' = ~buttonsEnabled
    /\ UNCHANGED <<driverVars, queue, dropped, pc, msg, sincePress, lag, gestureVars, out>>

\* One second passes.  The task polls every 50 ms, so before it passes the
\* task has emptied the queue and looked at its timers once more.
Tick ==
    /\ pc = "polled" /\ queue = <<>>
    /\ pc' = "wait"
    /\ sincePress' = (sincePress + 1) % TimeMod
    /\ heldFor' = HeldLonger
    /\ UNCHANGED <<held, tapsOf, queue, dropped, buttonsEnabled, msg, lag, gestureVars, out>>

-----------------------------------------------------------------------------
\* Mutants: the reboot is armed however short the hold; a gesture expires
\* while its button is held.
ArmRebootAtOnce ==
    /\ isPressed /\ activeButton = Center
    /\ resetState = "armed"
    /\ resetState' = "reboot"
    /\ out' = "rebootArmed"
    /\ pc' = "flash"
    /\ UNCHANGED <<isPressed, tapCount, activeButton>>

ExpireWhileHeld ==
    /\ sincePress >= ExpireTime
    /\ activeButton' = NoButton
    /\ out' = "none"
    /\ pc' = "handle"
    /\ UNCHANGED <<isPressed, tapCount, resetState>>

\* checkTimers, while a button is held: only the center button has timers.
\* Both arming steps are followed by the one-second LED pause.
ArmReboot ==
    /\ isPressed /\ activeButton = Center
    /\ resetState = "armed" /\ sincePress >= HoldReboot
    /\ resetState' = "reboot"
    /\ out' = "rebootArmed"
    /\ pc' = "flash"
    /\ UNCHANGED <<isPressed, tapCount, activeButton>>

ArmFactory ==
    /\ isPressed /\ activeButton = Center
    /\ resetState = "reboot" /\ sincePress >= HoldFactory
    /\ resetState' = "factory"
    /\ out' = "none"
    /\ pc' = "flash"
    /\ UNCHANGED <<isPressed, tapCount, activeButton>>

\* checkTimers, with no button held: the gesture expires.
Expire ==
    /\ ~isPressed /\ sincePress >= ExpireTime
    /\ activeButton' = NoButton
    /\ out' = "none"
    /\ pc' = "handle"
    /\ UNCHANGED <<isPressed, tapCount, resetState>>

TimerDue ==
    IF isPressed
      THEN /\ activeButton = Center
           /\ \/ resetState = "armed"  /\ sincePress >= HoldReboot
              \/ resetState = "reboot" /\ sincePress >= HoldFactory
      ELSE sincePress >= ExpireTime

NoTimer ==
    /\ ~TimerDue
    /\ out' = "none"
    /\ pc' = "handle"
    /\ UNCHANGED gestureVars

\* One turn of the task: take a message or time out, snapshot the uptime,
\* check the timers.
Poll ==
    /\ pc \in {"wait", "polled"}
    /\ IF queue = <<>>
         THEN msg' = NoMsg /\ UNCHANGED queue
         ELSE msg' = Head(queue) /\ queue' = Tail(queue)
    /\ UNCHANGED lag
    /\ ArmReboot \/ ArmFactory \/ Expire \/ NoTimer
    /\ UNCHANGED <<driverVars, dropped, buttonsEnabled, sincePress>>

\* setLedFlashStatus: the task sleeps for a second and moves pressTime on by
\* as much; the snapshot of the uptime is now a second old.
Flash ==
    /\ pc = "flash"
    /\ pc' = "handle"
    /\ lag' = 1
    /\ heldFor' = HeldLonger
    /\ out' = "none"
    /\ UNCHANGED <<held, tapsOf, queue, dropped, buttonsEnabled, msg, sincePress, gestureVars>>

-----------------------------------------------------------------------------
\* Mutants: another button's press resets only the taps, or only the state.
HandlePressKeepsReset ==
    /\ pc = "handle" /\ msg # NoMsg /\ msg.code = "press"
    /\ isPressed' = TRUE
    /\ activeButton' = msg.src
    /\ tapCount' = IF activeButton # msg.src THEN 0 ELSE tapCount
    /\ UNCHANGED resetState
    /\ sincePress' = lag % TimeMod
    /\ out' = "none"
    /\ UNCHANGED buttonsEnabled

HandlePressKeepsTaps ==
    /\ pc = "handle" /\ msg # NoMsg /\ msg.code = "press"
    /\ isPressed' = TRUE
    /\ activeButton' = msg.src
    /\ resetState' = IF activeButton # msg.src THEN "idle" ELSE resetState
    /\ UNCHANGED tapCount
    /\ sincePress' = lag % TimeMod
    /\ out' = "none"
    /\ UNCHANGED buttonsEnabled

\* handlePress
HandlePress ==
    /\ pc = "handle" /\ msg # NoMsg /\ msg.code = "press"
    /\ isPressed' = TRUE
    /\ IF activeButton # msg.src
         THEN activeButton' = msg.src /\ tapCount' = 0 /\ resetState' = "idle"
         ELSE UNCHANGED <<activeButton, tapCount, resetState>>
    /\ sincePress' = lag % TimeMod
    /\ out' = "none"
    /\ UNCHANGED buttonsEnabled

\* handleRelease of a button that is not the active one
SpuriousRelease ==
    /\ activeButton # msg.src
    /\ activeButton' = NoButton
    /\ out' = "none"
    /\ UNCHANGED <<tapCount, resetState, buttonsEnabled>>

\* handleRelease of A or B: the second tap toggles the socket
ReleaseOutlet ==
    /\ activeButton = msg.src /\ msg.src # Center
    /\ tapCount' = tapCount + 1
    /\ IF tapCount' = 2
         THEN out' = "toggle" /\ activeButton' = NoButton
         ELSE out' = "none" /\ UNCHANGED activeButton
    /\ UNCHANGED <<resetState, buttonsEnabled>>

\* handleRelease of the center button
ReleaseCenter ==
    /\ activeButton = msg.src /\ msg.src = Center
    /\ tapCount' = tapCount + 1
    /\ \/ /\ resetState = "idle"
          /\ resetState' = IF tapCount' = 3 THEN "armed" ELSE "idle"
          /\ out' = "none"
          /\ UNCHANGED <<activeButton, buttonsEnabled>>
       \/ /\ resetState = "armed"
          /\ activeButton' = NoButton
          /\ out' = "none"
          /\ UNCHANGED <<resetState, buttonsEnabled>>
       \/ /\ resetState = "reboot"
          /\ activeButton' = NoButton
          /\ buttonsEnabled' = TRUE
          /\ out' = "reboot"
          /\ UNCHANGED resetState
       \/ /\ resetState = "factory"
          /\ activeButton' = NoButton
          /\ out' = "factory"
          /\ UNCHANGED <<resetState, buttonsEnabled>>

\* Mutant: the release leaves isPressed set.
HandleReleaseStaysPressed ==
    /\ pc = "handle" /\ msg # NoMsg /\ msg.code = "release"
    /\ SpuriousRelease \/ ReleaseOutlet \/ ReleaseCenter
    /\ UNCHANGED <<sincePress, isPressed>>

HandleRelease ==
    /\ pc = "handle" /\ msg # NoMsg /\ msg.code = "release"
    /\ isPressed' = FALSE
    /\ SpuriousRelease \/ ReleaseOutlet \/ ReleaseCenter
    /\ UNCHANGED sincePress

HandleNothing ==
    /\ pc = "handle" /\ msg = NoMsg
    /\ out' = "none"
    /\ UNCHANGED <<gestureVars, sincePress, buttonsEnabled>>

\* handleMessage
Handle ==
    /\ HandlePress \/ HandleRelease \/ HandleNothing
    /\ pc' = "polled" /\ msg' = NoMsg /\ lag' = 0
    /\ UNCHANGED <<driverVars, queue, dropped>>

Next == \/ \E b \in Buttons : DriverPress(b) \/ DriverRelease(b)
        \/ ButtonEnable
        \/ Poll \/ Flash \/ Handle \/ Tick

Spec == Init /\ [][Next]_vars

\* The task is scheduled again and again; time goes on; fingers owe nothing.
FairSpec == Spec /\ WF_vars(Poll) /\ WF_vars(Flash) /\ WF_vars(Handle)

-----------------------------------------------------------------------------
\* checkTimers dereferences activeButton whenever isPressed is set: no order
\* of presses, releases, lost messages and expiries leaves it NULL then.
HeldButtonIsKnown == isPressed => activeButton # NoButton

\* The gesture counters move together: the center button is armed exactly
\* from its third tap on, an outlet button is dropped at its second tap, and
\* a button other than center never carries a reset state over.
GestureConsistent ==
    /\ activeButton = Center =>
         IF resetState = "idle" THEN tapCount < 3 ELSE tapCount = 3
    /\ activeButton \in Outlets => tapCount < 2 /\ resetState = "idle"

Asks(o) == out # o /\ out' = o

\* A reboot or a factory reset is asked for only after the center button was
\* tapped three times without another button between, and then held for the
\* reboot or the factory hold time by the finger itself, however the messages
\* were delayed.  It holds as long as no message was lost.
ResetNeedsGesture ==
    [][~dropped =>
         /\ Asks("reboot")  => msg.taps = 4 /\ msg.held >= HoldReboot
         /\ Asks("factory") => msg.taps = 4 /\ msg.held >= HoldFactory]_vars

\* A socket is toggled only by the second or a later tap in a row of the same
\* button, unless a message was lost.
ToggleNeedsDoubleTap ==
    [][~dropped /\ Asks("toggle") => msg.taps >= 2]_vars

\* The task does not believe a button is held for ever: once the driver has
\* reported it released, the press ends, unless the finger comes back or
\* messages are lost.
PressEnds == isPressed ~> (~isPressed \/ held # NoButton \/ dropped)
=============================================================================
