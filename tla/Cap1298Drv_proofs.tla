-------------------------- MODULE Cap1298Drv_proofs --------------------------
(***************************************************************************)
(* Proofs about the touch-sensor driver, for every debounce limit, press   *)
(* time and calibration delay: its types, the agreement of the remembered  *)
(* sensor with the state machine, and that the driver implements the       *)
(* stream of alternating presses and releases its callback relies on.      *)
(***************************************************************************)
EXTENDS Cap1298Drv, TLAPS

\* A decrement of calTimeMs never starts from zero, although another task may
\* write calTimeMs between the check and the write-back.
DecrementsPositive == pc = "calDecrement" => calRead > 0 /\ calTimeMs > 0

IInv == TypeOK /\ SensorMatchesState /\ DecrementsPositive

\* The inductive invariant holds when the driver starts.
LEMMA InitIInv == Init => IInv
<1> SUFFICES ASSUME Init PROVE IInv
  OBVIOUS
<1>1. calRequested \in BOOLEAN
  BY DEF Init
<1>2. calRead \in 0..CAL_POLLS /\ calTimeMs \in 0..CAL_POLLS
  BY DrvAssumption DEF Init, DrvAssumption
<1>3. debounceCt \in 0..DEBOUNCE_LIMIT /\ smTimerMs \in 0..PRESS_POLLS
  BY DrvAssumption DEF Init, DrvAssumption
<1>4. pollDelay \in {1, ERROR_POLLS}
  BY DEF Init
<1>5. TypeOK
  BY <1>4, <1>1, <1>2, <1>3 DEF Init, TypeOK
<1> QED BY <1>5 DEF Init, IInv, SensorMatchesState, DecrementsPositive

-----------------------------------------------------------------------------
\* A step of the state machine keeps its variables in their types and the
\* remembered sensor in agreement with the state.
LEMMA StateMachineKeeps ==
  ASSUME IInv, ReadOk PROVE IInv'
<1> USE DEF IInv
<1>1. UNCHANGED <<pads, calRead, calTimeMs, calRequested>> /\ pc' = "delay"
      /\ pollDelay' \in {1, ERROR_POLLS}
  BY DEF ReadOk, calVars
<1>2. FirstPad \in Buttons
  BY DEF FirstPad, Buttons
<1>3. NoButton \notin Buttons /\ DEBOUNCE_LIMIT \in Nat /\ PRESS_POLLS \in Nat
  BY DrvAssumption DEF DrvAssumption
<1>4. CASE SmIdle
  BY <1>1, <1>2, <1>3, <1>4
  DEF SmIdle, TypeOK, SensorMatchesState, DecrementsPositive
<1>5. CASE SmPress
  <2>1. /\ currSensorId \in Buttons /\ smState = "press" /\ held = NoButton
        /\ UNCHANGED smTimerMs /\ debounceCt' \in 0..DEBOUNCE_LIMIT
    BY <1>3, <1>5 DEF SmPress, TypeOK, SensorMatchesState
  <2>2. \/ held' = currSensorId /\ smState' = "release" /\ UNCHANGED currSensorId
        \/ UNCHANGED <<held, smState, currSensorId>>
        \/ currSensorId' = NoButton /\ smState' = "idle" /\ UNCHANGED held
    BY <1>5 DEF SmPress
  <2> QED
    BY <1>1, <1>3, <2>1, <2>2 DEF TypeOK, SensorMatchesState, DecrementsPositive
<1>6. CASE SmRelease
  <2>1. /\ currSensorId \in Buttons /\ smState = "release" /\ held = currSensorId
        /\ UNCHANGED smTimerMs /\ debounceCt' \in 0..DEBOUNCE_LIMIT
    BY <1>3, <1>6 DEF SmRelease, TypeOK, SensorMatchesState
  <2>2. \/ UNCHANGED <<held, smState, currSensorId>>
        \/ currSensorId' = NoButton /\ smState' = "idle" /\ held' = NoButton
    BY <1>6 DEF SmRelease
  <2> QED
    BY <1>1, <1>3, <2>1, <2>2 DEF TypeOK, SensorMatchesState, DecrementsPositive
<1> QED BY <1>4, <1>5, <1>6 DEF ReadOk

\* Every step preserves the inductive invariant.
LEMMA NextIInv == IInv /\ [Next]_vars => IInv'
<1> SUFFICES ASSUME IInv, [Next]_vars PROVE IInv'
  OBVIOUS
<1> USE DEF IInv, TypeOK, SensorMatchesState, DecrementsPositive, smVars, calVars
<1>1. CASE Touch
  BY <1>1 DEF Touch
<1>2. CASE CalibrateRequest
  BY <1>2, DrvAssumption DEF CalibrateRequest, DrvAssumption
<1>3. CASE Wake
  <2>1. /\ smTimerMs' \in 0..PRESS_POLLS /\ calRead' = calTimeMs
        /\ UNCHANGED <<pads, pollDelay, smVars, calVars>>
    <3>1. smTimerMs + pollDelay \in Nat
      BY DrvAssumption DEF DrvAssumption
    <3> QED BY <1>3, <3>1, DrvAssumption DEF Wake, PressTime, DrvAssumption
  <2>2. /\ pc' \in {"read", "calDecrement", "calZero"}
        /\ pc' = "calDecrement" => calTimeMs > 1
    BY <1>3 DEF Wake
  <2> QED BY <2>1, <2>2
<1>4. CASE CalDecrement
  <2>1. calTimeMs' \in 0..CAL_POLLS
    BY <1>4, DrvAssumption DEF CalDecrement, DrvAssumption
  <2> QED BY <1>4, <2>1 DEF CalDecrement
<1>5. CASE CalZero
  BY <1>5, DrvAssumption DEF CalZero, DrvAssumption
<1>6. CASE Calibrate
  BY <1>6 DEF Calibrate
<1>7. CASE ReadOk
  BY <1>7, StateMachineKeeps
<1>8. CASE ReadError
  BY <1>8 DEF ReadError
<1>9. CASE UNCHANGED vars
  BY <1>9 DEF vars
<1> QED BY <1>1, <1>2, <1>3, <1>4, <1>5, <1>6, <1>7, <1>8, <1>9 DEF Next

\* The inductive invariant holds in every reachable state.
THEOREM Inductive == Spec => []IInv
  BY InitIInv, NextIInv, PTL DEF Spec

\* Every variable keeps its type: calTimeMs never wraps below zero, the
\* debounce counter never passes its limit (ctrlTask, stateMachineUpdate).
THEOREM DrvTypeOK == Spec => []TypeOK
<1>1. IInv => TypeOK BY DEF IInv
<1> QED BY <1>1, Inductive, PTL

\* The remembered sensor agrees with the state of stateMachineUpdate.
THEOREM SensorMatches == Spec => []SensorMatchesState
<1>1. IInv => SensorMatchesState BY DEF IInv
<1> QED BY <1>1, Inductive, PTL

-----------------------------------------------------------------------------
\* A step of the driver is a press, a release, or invisible to the callback.
LEMMA StepAlternates == IInv /\ [Next]_vars => [Stream!Next]_held
<1> SUFFICES ASSUME IInv, [Next]_vars PROVE [Stream!Next]_held
  OBVIOUS
<1> USE DEF smVars, calVars
<1>1. CASE ReadOk
  <2>1. CASE SmIdle
    BY <2>1 DEF SmIdle
  <2>2. CASE SmPress
    <3>1. held = NoButton /\ currSensorId \in Buttons
      BY <2>2 DEF SmPress, IInv, TypeOK, SensorMatchesState
    <3>2. held' = currSensorId \/ UNCHANGED held
      BY <2>2 DEF SmPress
    <3> QED BY <3>1, <3>2 DEF Stream!Next, Stream!Press
  <2>3. CASE SmRelease
    <3>1. held = currSensorId /\ currSensorId \in Buttons
      BY <2>3 DEF SmRelease, IInv, TypeOK, SensorMatchesState
    <3>2. held' = NoButton \/ UNCHANGED held
      BY <2>3 DEF SmRelease
    <3> QED BY <3>1, <3>2 DEF Stream!Next, Stream!Release
  <2> QED BY <1>1, <2>1, <2>2, <2>3 DEF ReadOk
<1>2. CASE Touch \/ CalibrateRequest \/ Wake
  BY <1>2 DEF Touch, CalibrateRequest, Wake
<1>3. CASE CalDecrement \/ CalZero \/ Calibrate \/ ReadError
  BY <1>3 DEF CalDecrement, CalZero, Calibrate, ReadError
<1>4. CASE UNCHANGED vars
  BY <1>4 DEF vars
<1> QED BY <1>1, <1>2, <1>3, <1>4 DEF Next

\* The driver implements the button stream: its callback sees a press of one
\* button, then the release of that button, and so on.
THEOREM DriverImplementsStream == Spec => AlternatesPerButton
<1>1. Init => Stream!Init
  BY DEF Init, Stream!Init
<1> QED
  BY <1>1, Inductive, StepAlternates, PTL DEF Spec, AlternatesPerButton, Stream!Spec
=============================================================================
