----------------------------- MODULE Cap1298Drv -----------------------------
(***************************************************************************)
(* The CAP1298 touch-sensor driver (app_driver/cap1298_drv.c): its control *)
(* task polls the chip over I2C, runs the debounce state machine, reports  *)
(* presses and releases to one callback, and recalibrates the chip when    *)
(* another task has asked for it through cap1298DrvCalibrate.              *)
(*                                                                         *)
(* One poll is three kinds of step, because cap1298DrvCalibrate runs in    *)
(* another task and writes calTimeMs without a lock: the check of          *)
(* calTimeMs, its write-back, and the read of the chip.                    *)
(***************************************************************************)
EXTENDS Naturals

CONSTANTS A, B, Center,     \* the three touch pads
          NoButton,         \* capDrvSource_null
          DEBOUNCE_LIMIT,   \* polls a pad must be seen open before it counts
          PRESS_POLLS,      \* PRESS_TIMER_MS, in polls
          CAL_POLLS,        \* the 200 ms of cap1298DrvCalibrate, in polls
          ERROR_POLLS       \* the 100 ms delay after a failed read, in polls

Buttons == {A, B, Center}

ASSUME DrvAssumption ==
    /\ DEBOUNCE_LIMIT \in Nat
    /\ PRESS_POLLS \in Nat
    /\ CAL_POLLS \in Nat \ {0}
    /\ ERROR_POLLS \in Nat \ {0}
    /\ NoButton \notin Buttons
    /\ A # B /\ A # Center /\ B # Center

VARIABLES pads,          \* the pads a finger is on (hardware)
          pollDelay,     \* pollDelayMs, in polls
          pc,            \* where the control task is in its polling loop
          calRead,       \* the value of calTimeMs the control task has read
          smState, currSensorId, debounceCt,
          smTimerMs,     \* in polls, counted up to PRESS_POLLS
          calTimeMs,     \* in polls
          held,          \* button whose press was reported, not its release
          calRequested   \* a calibration was asked for and has not started

smVars == <<smState, currSensorId, debounceCt, held>>
calVars == <<calTimeMs, calRequested>>
vars == <<pads, pollDelay, pc, calRead, smTimerMs, smVars, calVars>>

TypeOK ==
    /\ pads \in SUBSET Buttons
    /\ pollDelay \in {1, ERROR_POLLS}
    /\ pc \in {"delay", "calDecrement", "calZero", "calibrate", "read"}
    /\ calRead \in 0..CAL_POLLS
    /\ smState \in {"idle", "press", "release"}
    /\ currSensorId \in Buttons \cup {NoButton}
    /\ debounceCt \in 0..DEBOUNCE_LIMIT
    /\ smTimerMs \in 0..PRESS_POLLS
    /\ calTimeMs \in 0..CAL_POLLS
    /\ held \in Buttons \cup {NoButton}
    /\ calRequested \in BOOLEAN

Init ==
    /\ pads = {}
    /\ pollDelay = 1
    /\ pc = "delay"
    /\ calRead = 0
    /\ smState = "idle" /\ currSensorId = NoButton
    /\ debounceCt = 0 /\ smTimerMs = 0
    /\ calTimeMs = 0
    /\ held = NoButton
    /\ calRequested = FALSE

-----------------------------------------------------------------------------
\* A finger lands on a pad or leaves it.
Touch == /\ \E b \in Buttons : pads' = IF b \in pads THEN pads \ {b} ELSE pads \cup {b}
         /\ UNCHANGED <<pollDelay, pc, calRead, smTimerMs, smVars, calVars>>

\* cap1298DrvCalibrate, called from the energy-meter callback task.
CalibrateRequest ==
    /\ calTimeMs' = CAL_POLLS
    /\ calRequested' = TRUE
    /\ UNCHANGED <<pads, pollDelay, pc, calRead, smTimerMs, smVars>>

\* The press timer matters only up to the press time.
PressTime(polls) == IF polls > PRESS_POLLS THEN PRESS_POLLS ELSE polls

\* Mutant: the last cycle of the wait takes the branch of no wait.
WakeOffByOne ==
    /\ pc = "delay"
    /\ smTimerMs' = PressTime(smTimerMs + pollDelay)
    /\ calRead' = calTimeMs
    /\ pc' = IF calTimeMs > 1 THEN "calDecrement" ELSE "read"
    /\ UNCHANGED <<pads, pollDelay, smVars, calVars>>

\* The task wakes from its poll delay, advances the press timer and looks
\* at calTimeMs.
Wake ==
    /\ pc = "delay"
    /\ smTimerMs' = PressTime(smTimerMs + pollDelay)
    /\ calRead' = calTimeMs
    /\ pc' = CASE calTimeMs = 0 -> "read"
               [] calTimeMs > 1 -> "calDecrement"
               [] OTHER         -> "calZero"
    /\ UNCHANGED <<pads, pollDelay, smVars, calVars>>

\* calTimeMs -= POLL_CYCLE_MS: a read and a write another task may separate.
CalDecrement ==
    /\ pc = "calDecrement"
    /\ \E seen \in {calRead, calTimeMs} : calTimeMs' = seen - 1
    /\ pc' = "read"
    /\ UNCHANGED <<pads, pollDelay, calRead, smTimerMs, smVars, calRequested>>

\* The wait is over: calTimeMs is cleared before the calibration is started.
CalZero ==
    /\ pc = "calZero"
    /\ calTimeMs' = 0
    /\ pc' = "calibrate"
    /\ UNCHANGED <<pads, pollDelay, calRead, smTimerMs, smVars, calRequested>>

\* The chip is told to calibrate; the outcome changes nothing the task keeps.
Calibrate ==
    /\ pc = "calibrate"
    /\ calRequested' = FALSE
    /\ pc' = "read"
    /\ UNCHANGED <<pads, pollDelay, calRead, smTimerMs, smVars, calTimeMs>>

-----------------------------------------------------------------------------
\* The pad looked at first when several are touched: A, then B, then center.
FirstPad == IF A \in pads THEN A ELSE IF B \in pads THEN B ELSE Center

SmIdle ==
    /\ smState = "idle"
    /\ IF pads # {} /\ FirstPad # currSensorId
         THEN /\ currSensorId' = FirstPad
              /\ smState' = "press"
              /\ smTimerMs' = 0
         ELSE UNCHANGED <<currSensorId, smState, smTimerMs>>
    /\ debounceCt' = IF pads # {} THEN 0 ELSE debounceCt
    /\ UNCHANGED held

SmPress ==
    /\ smState = "press"
    /\ \/ /\ currSensorId \in pads
          /\ debounceCt' = 0
          /\ IF smTimerMs >= PRESS_POLLS
               THEN held' = currSensorId /\ smState' = "release"
               ELSE UNCHANGED <<held, smState>>
          /\ UNCHANGED currSensorId
       \/ /\ currSensorId \notin pads /\ debounceCt < DEBOUNCE_LIMIT
          /\ debounceCt' = debounceCt + 1
          /\ UNCHANGED <<held, smState, currSensorId>>
       \/ /\ currSensorId \notin pads /\ debounceCt >= DEBOUNCE_LIMIT
          /\ currSensorId' = NoButton /\ smState' = "idle"
          /\ UNCHANGED <<held, debounceCt>>
    /\ UNCHANGED smTimerMs

\* Mutants: the debounce counter is not kept from one open poll to the next; a
\* finger sliding on is taken for a new press.
SmReleaseRecounts ==
    /\ smState = "release"
    /\ \/ /\ currSensorId \in pads
          /\ debounceCt' = 0
          /\ UNCHANGED <<held, smState, currSensorId>>
       \/ /\ currSensorId \notin pads /\ debounceCt < DEBOUNCE_LIMIT
          /\ debounceCt' = 0
          /\ UNCHANGED <<held, smState, currSensorId>>
       \/ /\ currSensorId \notin pads /\ debounceCt >= DEBOUNCE_LIMIT
          /\ held' = NoButton
          /\ currSensorId' = NoButton /\ smState' = "idle"
          /\ UNCHANGED debounceCt
    /\ UNCHANGED smTimerMs

SmReleaseSlides ==
    /\ smState = "release"
    /\ \/ /\ currSensorId \in pads
          /\ debounceCt' = 0
          /\ UNCHANGED <<held, smState, currSensorId>>
       \/ /\ currSensorId \notin pads /\ debounceCt < DEBOUNCE_LIMIT
          /\ debounceCt' = debounceCt + 1
          /\ UNCHANGED <<held, smState, currSensorId>>
       \/ /\ currSensorId \notin pads /\ debounceCt >= DEBOUNCE_LIMIT
          /\ IF pads = {} THEN held' = NoButton /\ currSensorId' = NoButton /\ smState' = "idle"
                        ELSE held' = FirstPad /\ currSensorId' = FirstPad /\ UNCHANGED smState
          /\ UNCHANGED debounceCt
    /\ UNCHANGED smTimerMs

SmRelease ==
    /\ smState = "release"
    /\ \/ /\ currSensorId \in pads
          /\ debounceCt' = 0
          /\ UNCHANGED <<held, smState, currSensorId>>
       \/ /\ currSensorId \notin pads /\ debounceCt < DEBOUNCE_LIMIT
          /\ debounceCt' = debounceCt + 1
          /\ UNCHANGED <<held, smState, currSensorId>>
       \/ /\ currSensorId \notin pads /\ debounceCt >= DEBOUNCE_LIMIT
          /\ held' = NoButton
          /\ currSensorId' = NoButton /\ smState' = "idle"
          /\ UNCHANGED debounceCt
    /\ UNCHANGED smTimerMs

\* The sensor status is read and the state machine takes one step.
ReadOk ==
    /\ pc = "read"
    /\ SmIdle \/ SmPress \/ SmRelease
    /\ pc' = "delay"
    /\ pollDelay' = 1
    /\ UNCHANGED <<pads, calRead, calVars>>

\* The I2C read fails: this poll does not reach the state machine, and the
\* next one comes later.
ReadError ==
    /\ pc = "read"
    /\ pc' = "delay"
    /\ pollDelay' = ERROR_POLLS
    /\ UNCHANGED <<pads, calRead, smTimerMs, smVars, calVars>>

Next == \/ Touch \/ CalibrateRequest
        \/ Wake \/ CalDecrement \/ CalZero \/ Calibrate
        \/ ReadOk \/ ReadError

Spec == Init /\ [][Next]_vars

(***************************************************************************)
(* The control task never stops polling, so each of its steps is weakly    *)
(* fair; the I2C bus does not fail for ever, so a read that is tried again *)
(* and again succeeds again and again.  Fingers and calibration requests   *)
(* owe nothing.                                                            *)
(***************************************************************************)
Fairness == /\ WF_vars(Wake \/ CalDecrement \/ CalZero \/ Calibrate)
            /\ WF_vars(ReadOk \/ ReadError)
            /\ SF_vars(ReadOk)

FairSpec == Spec /\ Fairness

-----------------------------------------------------------------------------
Stream == INSTANCE ButtonStream

\* The driver's callback sees presses and releases alternate, each release
\* being of the button that was pressed, whatever the fingers do and
\* whichever reads fail (stateMachineUpdate and the order of its branches).
AlternatesPerButton == Stream!Spec

\* The remembered sensor agrees with the state machine: idle exactly when no
\* sensor is remembered, and a press is outstanding exactly in the release
\* state.  Were it otherwise the idle branch, which ignores the remembered
\* sensor, would make a pad deaf for ever.
SensorMatchesState ==
    /\ (smState = "idle") <=> (currSensorId = NoButton)
    /\ held = IF smState = "release" THEN currSensorId ELSE NoButton

\* Once the socket events that ask for calibrations stop (each one restarts
\* the 200 ms wait), a calibration that was asked for is started after the
\* request, although two tasks write calTimeMs without a lock.
RequestedCalibrationStarts ==
    <>[][~CalibrateRequest]_vars => (calRequested ~> ~calRequested)

\* Once every finger has left for good, the pressed button is reported
\* released.
ReleaseIsReported == <>[](pads = {}) => <>[](held = NoButton)
=============================================================================
