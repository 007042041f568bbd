----------------------- MODULE Cap1298Handler_proofs -----------------------
(***************************************************************************)
(* Proofs about the button task for every queue length, every hold time    *)
(* and every set of outlet buttons.  The inductive invariant is the        *)
(* conjunction of the type invariant with the two safety invariants: the   *)
(* bound of tapCount in the type rests on GestureConsistent.  That a reset *)
(* or a toggle is ordered on its gesture only rests on what the messages   *)
(* under way say of the fingers, as long as none was dropped.              *)
(***************************************************************************)
EXTENDS Cap1298Handler, SequenceTheorems, TLAPS

IInv == TypeOK /\ HeldButtonIsKnown /\ GestureConsistent

\* The task's own part of the type, apart from the message it holds.
TaskTypeOK ==
    /\ pc \in {"wait", "flash", "handle", "polled"}
    /\ sincePress \in 0..(TimeMod - 1) /\ lag \in 0..1
    /\ isPressed \in BOOLEAN /\ tapCount \in 0..4
    /\ activeButton \in Buttons \cup {NoButton}
    /\ resetState \in {"idle", "armed", "reboot", "factory"}
    /\ out \in {"none", "toggle", "rebootArmed", "reboot", "factory"}

\* The driver's part of the type, with the queue.
DriverTypeOK ==
    /\ held \in Buttons \cup {NoButton}
    /\ queue \in Seq(Message) /\ Len(queue) <= QSize
    /\ heldFor \in 0..HoldFactory
    /\ tapsOf \in [last : Buttons \cup {NoButton}, n : 0..4]
    /\ dropped \in BOOLEAN

-----------------------------------------------------------------------------
\* Counting up to a bound stays within it.
LEMMA UpToType ==
  ASSUME NEW bound \in Nat, NEW n \in 0..bound
  PROVE  UpTo(n, bound) \in 0..bound
  BY DEF UpTo

\* The history of how long the center button is held stays within its bound.
LEMMA HeldLongerType ==
  ASSUME DriverTypeOK PROVE HeldLonger \in 0..HoldFactory
  BY HandlerAssumption, UpToType DEF HeldLonger, DriverTypeOK, HandlerAssumption

\* Putting a message keeps the queue a queue of at most QSize messages.
LEMMA CallbackType ==
  ASSUME DriverTypeOK, NEW m \in Message, capCallback(m)
  PROVE  queue' \in Seq(Message) /\ Len(queue') <= QSize /\ dropped' \in BOOLEAN
<1>1. queue \in Seq(Message) /\ Len(queue) \in Nat /\ QSize \in Nat
  BY HandlerAssumption DEF DriverTypeOK, HandlerAssumption
<1>2. CASE Len(queue) < QSize
  <2>1. queue' = Append(queue, m) /\ dropped' \in BOOLEAN
    BY <1>2 DEF capCallback, DriverTypeOK
  <2>2. Append(queue, m) \in Seq(Message) /\ Len(Append(queue, m)) = Len(queue) + 1
    BY <1>1
  <2> QED BY <1>1, <1>2, <2>1, <2>2
<1>3. CASE ~(Len(queue) < QSize)
  BY <1>3 DEF capCallback, DriverTypeOK
<1> QED BY <1>2, <1>3

\* A press reported by the driver keeps the driver's types.
LEMMA PressType ==
  ASSUME DriverTypeOK, NEW b \in Buttons, DriverPress(b)
  PROVE  DriverTypeOK'
<1>1. heldFor' \in 0..HoldFactory /\ held' \in Buttons \cup {NoButton}
  BY HandlerAssumption DEF DriverPress, HandlerAssumption
<1>2. CASE Filtered(b) /\ UNCHANGED <<tapsOf, queue, dropped>>
  BY <1>1, <1>2 DEF DriverTypeOK
<1>3. CASE ~Filtered(b)
  <2>1. tapsOf' \in [last : Buttons \cup {NoButton}, n : 0..4]
    BY <1>3 DEF DriverPress, DriverTypeOK, NoTaps
  <2> DEFINE m == [code |-> "press", src |-> b, taps |-> tapsOf'.n, held |-> 0]
  <2>2. m \in Message
    BY <2>1, HandlerAssumption DEF Message, HandlerAssumption
  <2>3. capCallback(m)
    BY <1>3 DEF DriverPress
  <2> QED BY <1>1, <2>1, <2>2, <2>3, CallbackType DEF DriverTypeOK
<1> QED BY <1>2, <1>3 DEF DriverPress

\* A release reported by the driver keeps the driver's types.
LEMMA ReleaseType ==
  ASSUME DriverTypeOK, NEW b \in Buttons, DriverRelease(b)
  PROVE  DriverTypeOK'
<1>1. heldFor' \in 0..HoldFactory /\ held' \in Buttons \cup {NoButton}
  BY HandlerAssumption DEF DriverRelease, HandlerAssumption
<1>2. CASE Filtered(b) /\ dropped' = (dropped \/ tapsOf.last = b) /\ UNCHANGED <<tapsOf, queue>>
  BY <1>1, <1>2 DEF DriverTypeOK
<1>3. CASE ~Filtered(b)
  <2>1. tapsOf' \in [last : Buttons \cup {NoButton}, n : 0..4]
    BY <1>3 DEF DriverRelease, DriverTypeOK, NoTaps, UpTo, TapBound
  <2> DEFINE m == [code |-> "release", src |-> b, taps |-> tapsOf'.n, held |-> heldFor]
  <2>2. m \in Message
    BY <2>1 DEF Message, DriverTypeOK
  <2>3. capCallback(m)
    BY <1>3 DEF DriverRelease
  <2> QED BY <1>1, <2>1, <2>2, <2>3, CallbackType DEF DriverTypeOK
<1> QED BY <1>2, <1>3 DEF DriverRelease

-----------------------------------------------------------------------------
\* One turn of the task keeps the types and both safety invariants: its
\* timers never take the active button of a press that is going on.
LEMMA PollKeeps == ASSUME IInv, Poll PROVE IInv'
<1> USE DEF IInv
<1>1. DriverTypeOK' /\ msg' \in Message \cup {NoMsg}
  <2>1. CASE queue = <<>>
    BY <2>1 DEF Poll, DriverTypeOK, driverVars, TypeOK
  <2>2. CASE queue # <<>>
    <3>1. /\ queue \in Seq(Message) /\ Len(queue) \in Nat /\ Len(queue) <= QSize
          /\ QSize \in Nat /\ msg' = Head(queue) /\ queue' = Tail(queue)
      BY <2>2, HandlerAssumption DEF Poll, TypeOK, HandlerAssumption
    <3>2. Head(queue) \in Message /\ Tail(queue) \in Seq(Message) /\ Len(Tail(queue)) = Len(queue) - 1
      BY <2>2, <3>1
    <3>3. queue' \in Seq(Message) /\ Len(queue') <= QSize /\ msg' \in Message
      BY <3>1, <3>2
    <3> QED BY <3>3 DEF Poll, DriverTypeOK, driverVars, TypeOK
  <2> QED BY <2>1, <2>2
<1>2. /\ pc' \in {"flash", "handle"} /\ out' \in {"none", "rebootArmed"}
      /\ UNCHANGED <<isPressed, tapCount, buttonsEnabled, sincePress, lag>>
  BY DEF Poll, ArmReboot, ArmFactory, Expire, NoTimer, gestureVars
<1>3. \/ UNCHANGED <<activeButton, resetState>>
      \/ ~isPressed /\ activeButton' = NoButton /\ UNCHANGED resetState
      \/ /\ activeButton = Center /\ UNCHANGED activeButton
         /\ resetState # "idle" /\ resetState' \in {"reboot", "factory"}
  BY DEF Poll, ArmReboot, ArmFactory, Expire, NoTimer, gestureVars
<1>4. TypeOK'
  BY <1>1, <1>2, <1>3 DEF TaskTypeOK, TypeOK, DriverTypeOK
<1>5. HeldButtonIsKnown'
  BY <1>2, <1>3 DEF HeldButtonIsKnown
<1>6. GestureConsistent'
  BY <1>2, <1>3, HandlerAssumption DEF GestureConsistent, HandlerAssumption, Buttons
<1> QED BY <1>4, <1>5, <1>6

\* Handling a message keeps the types and both safety invariants.
LEMMA HandleKeeps == ASSUME IInv, Handle PROVE IInv'
<1> USE DEF IInv
<1>1. DriverTypeOK' /\ msg' \in Message \cup {NoMsg} /\ pc' = "polled" /\ lag' \in 0..1
  BY DEF Handle, DriverTypeOK, driverVars, TypeOK, TaskTypeOK
<1>2. CASE HandlePress
  <2>1. msg.src \in Buttons /\ isPressed' /\ activeButton' = msg.src
    BY <1>2 DEF HandlePress, TypeOK, Message
  <2>2. TaskTypeOK' /\ buttonsEnabled' \in BOOLEAN
    BY <1>1, <1>2, <2>1, HandlerAssumption
    DEF HandlePress, TypeOK, TaskTypeOK, HandlerAssumption
  <2>3. HeldButtonIsKnown'
    BY <2>1, HandlerAssumption DEF HeldButtonIsKnown, HandlerAssumption
  <2>4. GestureConsistent'
    BY <1>2, <2>1, HandlerAssumption
    DEF HandlePress, GestureConsistent, HandlerAssumption, Buttons
  <2> QED BY <1>1, <2>2, <2>3, <2>4 DEF TypeOK, TaskTypeOK, DriverTypeOK
<1>3. CASE HandleRelease
  <2>1. msg.src \in Buttons /\ ~isPressed' /\ isPressed' \in BOOLEAN /\ UNCHANGED sincePress
    BY <1>3 DEF HandleRelease, TypeOK, Message
  <2>2. CASE SpuriousRelease
    BY <1>1, <2>1, <2>2, HandlerAssumption
      DEF SpuriousRelease, TaskTypeOK, HeldButtonIsKnown, GestureConsistent,
          HandlerAssumption, Buttons, TypeOK, DriverTypeOK
  <2>3. CASE ReleaseOutlet
    <3>1. /\ activeButton \in Outlets /\ tapCount < 2 /\ tapCount' = tapCount + 1
          /\ activeButton' = IF tapCount' = 2 THEN NoButton ELSE activeButton
          /\ out' \in {"none", "toggle"} /\ UNCHANGED <<resetState, buttonsEnabled>>
      BY <2>1, <2>3 DEF ReleaseOutlet, GestureConsistent, Buttons
    <3>2. TypeOK'
      BY <1>1, <2>1, <3>1 DEF TaskTypeOK, TypeOK, DriverTypeOK
    <3>3. GestureConsistent'
      BY <3>1, HandlerAssumption
      DEF GestureConsistent, HandlerAssumption, Buttons, TaskTypeOK, TypeOK, DriverTypeOK
    <3> QED BY <2>1, <3>2, <3>3 DEF HeldButtonIsKnown
  <2>4. CASE ReleaseCenter
    <3>1. /\ activeButton = Center /\ tapCount' = tapCount + 1
          /\ out' \in {"none", "reboot", "factory"} /\ buttonsEnabled' \in BOOLEAN
          /\ \/ /\ resetState = "idle" /\ UNCHANGED activeButton
                /\ resetState' = IF tapCount' = 3 THEN "armed" ELSE "idle"
             \/ activeButton' = NoButton /\ UNCHANGED resetState
      BY <2>4 DEF ReleaseCenter, TypeOK
    <3>2. TypeOK'
      BY <1>1, <2>1, <3>1
      DEF TaskTypeOK, GestureConsistent, TypeOK, DriverTypeOK
    <3>3. GestureConsistent'
      BY <3>1, HandlerAssumption
      DEF GestureConsistent, HandlerAssumption, Buttons, TaskTypeOK, TypeOK, DriverTypeOK
    <3> QED BY <2>1, <3>2, <3>3 DEF HeldButtonIsKnown
  <2> QED BY <1>3, <2>2, <2>3, <2>4 DEF HandleRelease
<1>4. CASE HandleNothing
  BY <1>1, <1>4
      DEF HandleNothing, TaskTypeOK, gestureVars, HeldButtonIsKnown, GestureConsistent,
          TypeOK, DriverTypeOK
<1> QED BY <1>2, <1>3, <1>4 DEF Handle

-----------------------------------------------------------------------------
\* The inductive invariant holds at the start of the task.
LEMMA InitIInv == Init => IInv
<1> SUFFICES ASSUME Init PROVE IInv
  OBVIOUS
<1>1. queue \in Seq(Message) /\ Len(queue) <= QSize
  BY HandlerAssumption DEF Init, HandlerAssumption
<1>2. tapsOf \in [last : Buttons \cup {NoButton}, n : 0..4] /\ heldFor \in 0..HoldFactory
  BY HandlerAssumption DEF Init, HandlerAssumption, NoTaps
<1>3. TypeOK
  <2>1. isPressed \in BOOLEAN /\ dropped \in BOOLEAN /\ buttonsEnabled \in BOOLEAN
    BY DEF Init
  <2>2. lag \in 0..1 /\ tapCount \in 0..4
    BY DEF Init
  <2> QED BY <1>1, <1>2, <2>1, <2>2, Zenon DEF Init, TypeOK
<1>4. HeldButtonIsKnown /\ GestureConsistent
  BY HandlerAssumption
  DEF Init, HeldButtonIsKnown, GestureConsistent, HandlerAssumption, Buttons
<1> QED BY <1>3, <1>4 DEF IInv

\* Every step of the driver, the task, the clock and the callers of
\* appControlButtonEnable preserves the inductive invariant.
LEMMA NextIInv == IInv /\ [Next]_vars => IInv'
<1> SUFFICES ASSUME IInv, [Next]_vars PROVE IInv'
  OBVIOUS
<1>1. ASSUME NEW b \in Buttons, DriverPress(b) \/ DriverRelease(b) PROVE IInv'
  <2>1. DriverTypeOK'
    BY <1>1, PressType, ReleaseType
      DEF IInv, TypeOK, TaskTypeOK, DriverTypeOK
  <2>2. UNCHANGED <<pc, msg, sincePress, lag, isPressed, tapCount, activeButton,
                    resetState, out, buttonsEnabled>>
    BY <1>1 DEF DriverPress, DriverRelease, DriverIdle, gestureVars
  <2> QED
    BY <2>1, <2>2
      DEF IInv, TaskTypeOK, HeldButtonIsKnown, GestureConsistent, Message, TypeOK,
          DriverTypeOK
<1>2. CASE ButtonEnable
  BY <1>2 DEF ButtonEnable, IInv, TypeOK, HeldButtonIsKnown, GestureConsistent,
              gestureVars, driverVars
<1>3. CASE Poll
  BY <1>3, PollKeeps
<1>4. CASE Flash
  BY <1>4, HeldLongerType
      DEF Flash, IInv, TaskTypeOK, DriverTypeOK, HeldButtonIsKnown, GestureConsistent,
          gestureVars, TypeOK
<1>5. CASE Handle
  BY <1>5, HandleKeeps
<1>6. CASE Tick
  BY <1>6, HeldLongerType, HandlerAssumption
      DEF Tick, IInv, TaskTypeOK, DriverTypeOK, HeldButtonIsKnown, GestureConsistent,
          gestureVars, HandlerAssumption, TypeOK
<1>7. CASE UNCHANGED vars
  BY <1>7 DEF vars, IInv, TypeOK, HeldButtonIsKnown, GestureConsistent, Message
<1> QED BY <1>1, <1>2, <1>3, <1>4, <1>5, <1>6, <1>7 DEF Next

\* The inductive invariant holds in every reachable state.
THEOREM Inductive == Spec => []IInv
  BY InitIInv, NextIInv, PTL DEF Spec

\* Every variable keeps its type, in particular tapCount never passes 4 and
\* the queue never passes its length (cap1298_handler.c, the whole task).
THEOREM HandlerTypeOK == Spec => []TypeOK
<1>1. IInv => TypeOK BY DEF IInv
<1> QED BY <1>1, Inductive, PTL

\* checkTimers never dereferences a NULL activeButton.
THEOREM HeldButtonKnown == Spec => []HeldButtonIsKnown
<1>1. IInv => HeldButtonIsKnown BY DEF IInv
<1> QED BY <1>1, Inductive, PTL

\* The tap counter and the reset state stay in step for every button.
THEOREM GestureStaysConsistent == Spec => []GestureConsistent
<1>1. IInv => GestureConsistent BY DEF IInv
<1> QED BY <1>1, Inductive, PTL

(***************************************************************************)
(* The gestures.  What the driver's side knows of the taps travels with    *)
(* the messages: After(m) is its count once m was sent, Stamped(t, m) says *)
(* that m was sent when the count was t.                                   *)
(***************************************************************************)
Counts == [last : Buttons \cup {NoButton}, n : 0..4]

After(m) == IF m.code = "release" /\ m.taps = 0 THEN NoTaps
            ELSE [last |-> m.src, n |-> m.taps]

Stamped(t, m) ==
    m.taps = IF t.last # m.src THEN 0
             ELSE IF m.code = "press" THEN t.n ELSE UpTo(t.n, TapBound(m.src))

IsPress(m) == m.code = "press" /\ m.src = Center
IsRelease(m) == m.code = "release" /\ m.src = Center

\* n was the next message after m; m is the last message sent.
Link(m, n) == Stamped(After(m), n) /\ (IsPress(m) => IsRelease(n))
Latest(m) == tapsOf = After(m) /\ (IsPress(m) => held = Center)

\* The message the task handles next, or holds.
First == IF msg # NoMsg THEN msg ELSE IF queue # <<>> THEN Head(queue) ELSE NoMsg

StreamLinked ==
    /\ \A i \in 1..(Len(queue) - 1) : Link(queue[i], queue[i + 1])
    /\ msg # NoMsg /\ queue # <<>> => Link(msg, Head(queue))
    /\ queue # <<>> => Latest(queue[Len(queue)])
    /\ msg # NoMsg /\ queue = <<>> => Latest(msg)

\* The task counted no tap the driver's side did not count.
Counted(t) == activeButton # NoButton => t.last = activeButton /\ t.n >= tapCount

TapsCounted ==
    IF First = NoMsg THEN Counted(tapsOf)
    ELSE \E t \in Counts : Counted(t) /\ Stamped(t, First)

\* A finger that held the center button for h seconds held it as long as the
\* task's timers say.
LongEnough(h) ==
    /\ h >= sincePress \/ h = HoldFactory
    /\ resetState = "reboot" => h >= HoldReboot
    /\ resetState = "factory" => h >= HoldFactory

CenterDown == isPressed /\ activeButton = Center

HoldTimed ==
    CenterDown => IF First = NoMsg THEN held = Center /\ LongEnough(heldFor)
                  ELSE IsRelease(First) /\ LongEnough(First.held)

\* What holds whether or not a message was lost.
TaskPhase ==
    /\ pc \in {"wait", "polled"} => msg = NoMsg /\ lag = 0
    /\ pc = "flash" => CenterDown
    /\ lag = 1 => CenterDown
    /\ activeButton = Center /\ resetState \in {"reboot", "factory"} => isPressed

GInv == TaskPhase /\ (~dropped => StreamLinked /\ TapsCounted /\ HoldTimed)

-----------------------------------------------------------------------------
\* One message is appended to the queue.
LEMMA Appended ==
  ASSUME NEW q \in Seq(Message), NEW m \in Message
  PROVE  /\ Append(q, m) \in Seq(Message) /\ Append(q, m) # <<>>
         /\ Len(Append(q, m)) = Len(q) + 1 /\ Append(q, m)[Len(q) + 1] = m
         /\ \A i \in 1..Len(q) : Append(q, m)[i] = q[i]
         /\ Head(Append(q, m)) = IF q = <<>> THEN m ELSE Head(q)
<1>1. /\ Append(q, m) \in Seq(Message) /\ Len(Append(q, m)) = Len(q) + 1
      /\ Append(q, m)[Len(q) + 1] = m /\ \A i \in 1..Len(q) : Append(q, m)[i] = q[i]
  OBVIOUS
<1>2. Append(q, m) # <<>> /\ Head(Append(q, m)) = Append(q, m)[1]
  BY <1>1
<1>3. CASE q = <<>>
  BY <1>1, <1>2, <1>3
<1>4. CASE q # <<>>
  <2>1. Len(q) \in Nat /\ Len(q) >= 1 /\ Head(q) = q[1]
    BY <1>4
  <2> QED BY <1>1, <1>2, <1>4, <2>1
<1> QED BY <1>1, <1>2, <1>3, <1>4

\* The first message is taken off a queue that has one.
LEMMA Taken ==
  ASSUME NEW q \in Seq(Message), q # <<>>
  PROVE  /\ Head(q) \in Message /\ Tail(q) \in Seq(Message) /\ Len(Tail(q)) = Len(q) - 1
         /\ Head(q) = q[1] /\ Len(q) \in Nat \ {0}
         /\ \A i \in 1..(Len(q) - 1) : Tail(q)[i] = q[i + 1]
         /\ Tail(q) # <<>> => Head(Tail(q)) = q[2] /\ Len(q) >= 2
         /\ Tail(q) = <<>> => Len(q) = 1
<1>1. /\ Head(q) \in Message /\ Tail(q) \in Seq(Message) /\ Len(Tail(q)) = Len(q) - 1
      /\ Head(q) = q[1] /\ Len(q) \in Nat \ {0}
      /\ \A i \in 1..(Len(q) - 1) : Tail(q)[i] = q[i + 1]
  OBVIOUS
<1>2. Tail(q) = <<>> => Len(q) = 1
  BY <1>1, EmptySeq
<1>3. ASSUME Tail(q) # <<>> PROVE Head(Tail(q)) = q[2] /\ Len(q) >= 2
  <2>1. Len(q) >= 2 /\ Head(Tail(q)) = Tail(q)[1]
    BY <1>1, <1>3
  <2> QED BY <1>1, <2>1
<1> QED BY <1>1, <1>2, <1>3

\* The message the task will handle next is a message, or there is none.
LEMMA FirstType == TypeOK => First \in Message \cup {NoMsg} /\ NoMsg \notin Message
  BY Taken, HandlerAssumption DEF TypeOK, First, HandlerAssumption, Message

\* A message the driver sends joins the stream behind all others.
LEMMA Sent ==
  ASSUME TypeOK, StreamLinked, NEW m \in Message,
         queue' = Append(queue, m), msg' = msg,
         Stamped(tapsOf, m), tapsOf' = After(m),
         IsPress(m) => held' = Center, held = Center => IsRelease(m)
  PROVE  StreamLinked' /\ First' = IF First = NoMsg THEN m ELSE First
<1>1. queue \in Seq(Message) /\ Len(queue) \in Nat /\ NoMsg \notin Message
      /\ msg \in Message \cup {NoMsg}
  BY FirstType DEF TypeOK
<1>2. \A n : Latest(n) => Link(n, m)
  BY DEF Latest, Link
<1>3. Latest(m)'
  BY DEF Latest
<1>4. /\ queue' # <<>> /\ Len(queue') = Len(queue) + 1 /\ queue'[Len(queue')] = m
      /\ \A i \in 1..Len(queue) : queue'[i] = queue[i]
      /\ Head(queue') = IF queue = <<>> THEN m ELSE Head(queue)
  BY <1>1, Appended
<1>5. \A i \in 1..(Len(queue') - 1) : Link(queue'[i], queue'[i + 1])
  <2> SUFFICES ASSUME NEW i \in 1..Len(queue) PROVE Link(queue'[i], queue'[i + 1])
    BY <1>1, <1>4
  <2>1. CASE i = Len(queue)
    <3>1. queue # <<>> /\ queue'[i] = queue[Len(queue)] /\ queue'[i + 1] = m
      BY <1>1, <1>4, <2>1
    <3> QED BY <1>2, <3>1 DEF StreamLinked
  <2>2. CASE i # Len(queue)
    <3>1. i \in 1..(Len(queue) - 1) /\ i + 1 \in 1..Len(queue)
      BY <1>1, <2>2
    <3> QED BY <1>4, <3>1 DEF StreamLinked
  <2> QED BY <2>1, <2>2
<1>6. msg # NoMsg => Link(msg, Head(queue'))
  BY <1>2, <1>4 DEF StreamLinked
<1>7. StreamLinked'
  BY <1>1, <1>3, <1>4, <1>5, <1>6 DEF StreamLinked
<1>8. First' = IF First = NoMsg THEN m ELSE First
  BY <1>1, <1>4, Taken DEF First
<1> QED BY <1>7, <1>8

-----------------------------------------------------------------------------
\* A press or a release the driver reports keeps what is known of the gestures:
\* while the center button is down nothing but its release can follow.
LEMMA PressSent ==
  ASSUME TypeOK, TypeOK', GInv, NEW b \in Buttons, DriverPress(b)
  PROVE  GInv'
<1>1. UNCHANGED <<pc, msg, sincePress, lag, isPressed, tapCount, activeButton, resetState>>
  BY DEF DriverPress, DriverIdle, gestureVars
<1>2. TaskPhase'
  BY <1>1 DEF GInv, TaskPhase, CenterDown
<1>3. ASSUME ~dropped' PROVE StreamLinked' /\ TapsCounted' /\ HoldTimed'
  <2>1. ~dropped
    BY <1>3 DEF DriverPress, capCallback, TypeOK
  <2>2. StreamLinked /\ TapsCounted /\ HoldTimed
    BY <2>1 DEF GInv
  <2>3. held # Center /\ held' = b
    BY HandlerAssumption DEF DriverPress, HandlerAssumption, Buttons
  <2>4. CASE Filtered(b) /\ UNCHANGED <<tapsOf, queue, dropped>>
    <3>1. UNCHANGED First
      BY <1>1, <2>4 DEF First
    <3>2. StreamLinked'
      <4>1. \A m : ~IsPress(m) \/ ~Latest(m)
        BY <2>3 DEF Latest
      <4>2. \A m : ~IsPress(m) => (Latest(m) => Latest(m)')
        BY <2>4 DEF Latest, After, IsPress, NoTaps
      <4> QED BY <1>1, <2>2, <2>4, <4>1, <4>2 DEF StreamLinked
    <3>3. TapsCounted'
      BY <1>1, <2>2, <2>4, <3>1 DEF TapsCounted, Counted
    <3>4. HoldTimed'
      BY <1>1, <2>2, <2>3, <3>1 DEF HoldTimed, CenterDown, LongEnough
    <3> QED BY <3>2, <3>3, <3>4
  <2>5. CASE ~Filtered(b)
    <3> DEFINE m == [code |-> "press", src |-> b, taps |-> tapsOf'.n, held |-> 0]
    <3>1. tapsOf' = IF tapsOf.last = b THEN tapsOf ELSE [last |-> b, n |-> 0]
      BY <2>1, <2>5 DEF DriverPress
    <3>2. m \in Message /\ tapsOf \in Counts /\ tapsOf' \in Counts
      BY HandlerAssumption DEF TypeOK, Message, HandlerAssumption, Counts
    <3>3. queue' = Append(queue, m)
      BY <1>3, <2>5 DEF DriverPress, capCallback
    <3>4. Stamped(tapsOf, m) /\ tapsOf' = After(m)
      BY <3>1, <3>2 DEF Stamped, After, Counts
    <3>5. (IsPress(m) => held' = Center) /\ (held = Center => IsRelease(m))
      BY <2>3 DEF IsPress
    <3> HIDE DEF m
    <3>6. StreamLinked' /\ First' = IF First = NoMsg THEN m ELSE First
      BY <1>1, <2>2, <3>2, <3>3, <3>4, <3>5, Sent
    <3>7. TapsCounted'
      BY <1>1, <2>2, <3>2, <3>4, <3>6, FirstType DEF TapsCounted, Counted
    <3>8. HoldTimed'
      BY <1>1, <2>2, <2>3, <3>2, <3>6, FirstType DEF HoldTimed, CenterDown, LongEnough
    <3> QED BY <3>6, <3>7, <3>8
  <2> QED BY <2>4, <2>5 DEF DriverPress
<1> QED BY <1>2, <1>3 DEF GInv

LEMMA ReleaseSent ==
  ASSUME TypeOK, TypeOK', GInv, NEW b \in Buttons, DriverRelease(b)
  PROVE  GInv'
<1>1. UNCHANGED <<pc, msg, sincePress, lag, isPressed, tapCount, activeButton, resetState>>
  BY DEF DriverRelease, DriverIdle, gestureVars
<1>2. TaskPhase'
  BY <1>1 DEF GInv, TaskPhase, CenterDown
<1>3. ASSUME ~dropped' PROVE StreamLinked' /\ TapsCounted' /\ HoldTimed'
  <2>1. ~dropped
    BY <1>3 DEF DriverRelease, capCallback, TypeOK
  <2>2. StreamLinked /\ TapsCounted /\ HoldTimed
    BY <2>1 DEF GInv
  <2>3. held = b
    BY DEF DriverRelease
  <2>4. CASE Filtered(b) /\ UNCHANGED <<tapsOf, queue>>
    <3>1. UNCHANGED First /\ held # Center
      BY <1>1, <2>3, <2>4 DEF First, Filtered
    <3>2. StreamLinked'
      <4>1. \A m : ~IsPress(m) \/ ~Latest(m)
        BY <3>1 DEF Latest
      <4>2. \A m : ~IsPress(m) => (Latest(m) => Latest(m)')
        BY <2>4 DEF Latest, After, IsPress, NoTaps
      <4> QED BY <1>1, <2>2, <2>4, <4>1, <4>2 DEF StreamLinked
    <3>3. TapsCounted'
      BY <1>1, <2>2, <2>4, <3>1 DEF TapsCounted, Counted
    <3>4. HoldTimed'
      BY <1>1, <2>2, <3>1 DEF HoldTimed, CenterDown, LongEnough
    <3> QED BY <3>2, <3>3, <3>4
  <2>5. CASE ~Filtered(b)
    <3> DEFINE m == [code |-> "release", src |-> b, taps |-> tapsOf'.n, held |-> heldFor]
    <3>1. tapsOf' = IF tapsOf.last = b THEN [tapsOf EXCEPT !.n = UpTo(@, TapBound(b))]
                                       ELSE NoTaps
      BY <2>5 DEF DriverRelease
    <3>2. m \in Message /\ tapsOf \in Counts /\ tapsOf' \in Counts
      BY DEF TypeOK, Message, Counts
    <3>3. queue' = Append(queue, m)
      BY <1>3, <2>5 DEF DriverRelease, capCallback
    <3>4. Stamped(tapsOf, m) /\ tapsOf' = After(m)
      BY <3>1, <3>2 DEF Stamped, After, Counts, UpTo, TapBound, NoTaps
    <3>5. /\ ~IsPress(m) /\ (held = Center => IsRelease(m)) /\ m.held = heldFor
      BY <2>3 DEF IsPress, IsRelease
    <3> HIDE DEF m
    <3>6. StreamLinked' /\ First' = IF First = NoMsg THEN m ELSE First
      BY <1>1, <2>2, <3>2, <3>3, <3>4, <3>5, Sent
    <3>7. TapsCounted'
      BY <1>1, <2>2, <3>2, <3>4, <3>6, FirstType DEF TapsCounted, Counted
    <3>8. HoldTimed'
      BY <1>1, <2>2, <3>2, <3>5, <3>6, FirstType DEF HoldTimed, CenterDown, LongEnough
    <3> QED BY <3>6, <3>7, <3>8
  <2> QED BY <2>4, <2>5 DEF DriverRelease
<1> QED BY <1>2, <1>3 DEF GInv

\* Taking a message off the queue leaves the stream as it was.
LEMMA PollLinks ==
  ASSUME TypeOK, StreamLinked, Poll, msg = NoMsg
  PROVE  StreamLinked' /\ UNCHANGED First
<1>1. CASE queue = <<>>
  BY <1>1 DEF Poll, StreamLinked, First
<1>2. CASE queue # <<>>
  <2>1. /\ queue \in Seq(Message) /\ msg' = Head(queue) /\ queue' = Tail(queue)
        /\ UNCHANGED <<held, tapsOf>>
    BY <1>2 DEF Poll, TypeOK, driverVars
  <2>2. msg' # NoMsg /\ UNCHANGED First
    BY <1>2, <2>1, Taken, FirstType DEF First
  <2>3. \A m : Latest(m) => Latest(m)'
    BY <2>1 DEF Latest, After, IsPress, NoTaps
  <2>4. \A i \in 1..(Len(queue') - 1) : Link(queue'[i], queue'[i + 1])
    <3> SUFFICES ASSUME NEW i \in 1..(Len(queue') - 1) PROVE Link(queue'[i], queue'[i + 1])
      OBVIOUS
    <3>1. /\ i \in 1..(Len(queue) - 1) /\ i + 1 \in 1..(Len(queue) - 1)
          /\ queue'[i] = queue[i + 1] /\ queue'[i + 1] = queue[(i + 1) + 1]
      BY <1>2, <2>1, Taken
    <3> QED BY <3>1 DEF StreamLinked
  <2>5. queue' # <<>> => Link(msg', Head(queue'))
    <3> SUFFICES ASSUME queue' # <<>> PROVE Link(msg', Head(queue'))
      OBVIOUS
    <3>1. 1 \in 1..(Len(queue) - 1) /\ msg' = queue[1] /\ Head(queue') = queue[1 + 1]
      BY <1>2, <2>1, Taken
    <3> QED BY <3>1 DEF StreamLinked
  <2>6. PICK last : last = queue[Len(queue)]
    OBVIOUS
  <2>7. Latest(last)'
    BY <1>2, <2>3, <2>6 DEF StreamLinked
  <2>8. queue' # <<>> => queue'[Len(queue')] = last
    <3> SUFFICES ASSUME queue' # <<>> PROVE queue'[Len(queue')] = last
      OBVIOUS
    <3>1. Len(queue') \in 1..(Len(queue) - 1) /\ Len(queue') + 1 = Len(queue)
      BY <1>2, <2>1, Taken
    <3> QED BY <1>2, <2>1, <2>6, <3>1, Taken
  <2>9. queue' = <<>> => msg' = last
    BY <1>2, <2>1, <2>6, Taken
  <2> QED BY <2>2, <2>4, <2>5, <2>7, <2>8, <2>9 DEF StreamLinked
<1> QED BY <1>1, <1>2

\* A turn of the task: a timer arms the reset only when the finger has held
\* the center button as long, and its release is still to be handled.
LEMMA PollKnows ==
  ASSUME IInv, GInv, Poll
  PROVE  GInv'
<1>1. TypeOK /\ msg = NoMsg /\ lag = 0 /\ lag' = 0
  BY DEF IInv, GInv, TaskPhase, Poll
<1>2. UNCHANGED <<isPressed, tapCount, sincePress, held, heldFor, tapsOf, dropped>>
  BY DEF Poll, ArmReboot, ArmFactory, Expire, NoTimer, gestureVars, driverVars
<1>3. \/ UNCHANGED <<activeButton, resetState>> /\ pc' = "handle"
      \/ ~isPressed /\ activeButton' = NoButton /\ UNCHANGED resetState /\ pc' = "handle"
      \/ /\ CenterDown /\ UNCHANGED activeButton /\ pc' = "flash"
         /\ \/ resetState' = "reboot" /\ sincePress >= HoldReboot
            \/ resetState' = "factory" /\ sincePress >= HoldFactory
  BY DEF Poll, ArmReboot, ArmFactory, Expire, NoTimer, gestureVars, CenterDown
<1>4. TaskPhase'
  BY <1>1, <1>2, <1>3, HandlerAssumption
     DEF GInv, TaskPhase, CenterDown, HandlerAssumption, Buttons
<1>5. ASSUME ~dropped' PROVE StreamLinked' /\ TapsCounted' /\ HoldTimed'
  <2>1. StreamLinked /\ TapsCounted /\ HoldTimed
    BY <1>2, <1>5 DEF GInv
  <2>2. StreamLinked' /\ UNCHANGED First
    BY <1>1, <2>1, PollLinks
  <2>3. \A t : Counted(t) => Counted(t)'
    BY <1>2, <1>3 DEF Counted
  <2>4. TapsCounted'
    BY <1>2, <2>1, <2>2, <2>3 DEF TapsCounted
  <2>5. HoldTimed'
    <3>1. /\ HoldReboot \in Nat /\ HoldFactory \in Nat /\ HoldReboot <= HoldFactory
          /\ sincePress \in Nat
      BY <1>1, HandlerAssumption DEF HandlerAssumption, TypeOK
    <3>2. First # NoMsg => First.held \in Nat
      BY <1>1, FirstType, HandlerAssumption DEF Message, HandlerAssumption
    <3>3. heldFor \in Nat
      BY <1>1, HandlerAssumption DEF TypeOK, HandlerAssumption
    <3>4. \A h \in Nat : CenterDown' /\ LongEnough(h) => LongEnough(h)'
      BY <1>2, <1>3, <3>1, HandlerAssumption
         DEF LongEnough, CenterDown, HandlerAssumption, Buttons
    <3>5. CenterDown' => CenterDown
      BY <1>2, <1>3, HandlerAssumption DEF CenterDown, HandlerAssumption, Buttons
    <3> QED BY <1>2, <2>1, <2>2, <3>2, <3>3, <3>4, <3>5 DEF HoldTimed
  <2> QED BY <2>2, <2>4, <2>5
<1> QED BY <1>4, <1>5 DEF GInv

\* While the task sleeps the finger only holds the button longer.
LEMMA LongerIsLongEnough ==
  ASSUME TypeOK, HeldLonger = heldFor \/ HeldLonger = UpTo(heldFor, HoldFactory)
  PROVE  /\ LongEnough(heldFor) => LongEnough(HeldLonger)
         /\ HeldLonger \in Nat /\ heldFor \in Nat
  BY HandlerAssumption DEF TypeOK, LongEnough, UpTo, HandlerAssumption

LEMMA FlashKnows ==
  ASSUME TypeOK, GInv, Flash
  PROVE  GInv'
<1>1. /\ CenterDown /\ pc' = "handle" /\ lag' = 1 /\ heldFor' = HeldLonger
      /\ UNCHANGED <<held, tapsOf, queue, dropped, msg, sincePress,
                     isPressed, tapCount, activeButton, resetState>>
  BY DEF Flash, gestureVars, GInv, TaskPhase
<1>2. TaskPhase'
  BY <1>1 DEF GInv, TaskPhase, CenterDown
<1>3. ASSUME ~dropped' PROVE StreamLinked' /\ TapsCounted' /\ HoldTimed'
  <2>1. StreamLinked /\ TapsCounted /\ HoldTimed
    BY <1>1, <1>3 DEF GInv
  <2>2. \A m : Latest(m) => Latest(m)'
    BY <1>1 DEF Latest
  <2>3. StreamLinked' /\ UNCHANGED First
    BY <1>1, <2>1, <2>2 DEF StreamLinked, First
  <2>4. TapsCounted'
    BY <1>1, <2>1, <2>3 DEF TapsCounted, Counted
  <2>5. LongEnough(heldFor) => LongEnough(HeldLonger)
    BY LongerIsLongEnough DEF HeldLonger
  <2>6. \A h : LongEnough(h) => LongEnough(h)'
    BY <1>1 DEF LongEnough
  <2>7. HoldTimed'
    BY <1>1, <2>1, <2>3, <2>5, <2>6 DEF HoldTimed, CenterDown
  <2> QED BY <2>3, <2>4, <2>7
<1> QED BY <1>2, <1>3 DEF GInv

\* A second passes for the timers and for the finger alike; the timers may
\* wrap around, the finger's count may reach its bound.
LEMMA TickKnows ==
  ASSUME TypeOK, GInv, Tick
  PROVE  GInv'
<1>1. /\ pc' = "wait" /\ msg = NoMsg /\ lag = 0 /\ queue = <<>> /\ heldFor' = HeldLonger
      /\ sincePress' = (sincePress + 1) % TimeMod
      /\ UNCHANGED <<held, tapsOf, queue, dropped, msg, lag,
                     isPressed, tapCount, activeButton, resetState>>
  BY DEF Tick, gestureVars, GInv, TaskPhase
<1>2. TaskPhase'
  BY <1>1 DEF GInv, TaskPhase, CenterDown
<1>3. First = NoMsg /\ First' = NoMsg
  BY <1>1 DEF First
<1>4. ASSUME ~dropped' PROVE StreamLinked' /\ TapsCounted' /\ HoldTimed'
  <2>1. StreamLinked /\ TapsCounted /\ HoldTimed
    BY <1>1, <1>4 DEF GInv
  <2>2. StreamLinked'
    BY <1>1, <2>1 DEF StreamLinked
  <2>3. TapsCounted'
    BY <1>1, <1>3, <2>1 DEF TapsCounted, Counted
  <2>4. HoldTimed'
    <3> SUFFICES ASSUME CenterDown' PROVE held' = Center /\ LongEnough(heldFor)'
      BY <1>3 DEF HoldTimed
    <3>1. held = Center /\ LongEnough(heldFor)
      BY <1>1, <1>3, <2>1 DEF HoldTimed, CenterDown
    <3>2. heldFor' = UpTo(heldFor, HoldFactory)
      BY <1>1, <1>4, <3>1 DEF HeldLonger
    <3>3. /\ sincePress \in Nat /\ TimeMod \in Nat \ {0} /\ sincePress + 1 <= TimeMod
          /\ heldFor \in 0..HoldFactory /\ HoldFactory \in Nat /\ HoldReboot \in Nat
      BY HandlerAssumption DEF TypeOK, HandlerAssumption
    <3>4. sincePress' \in Nat /\ sincePress' <= sincePress + 1
      <4>1. CASE sincePress + 1 < TimeMod
        BY <1>1, <3>3, <4>1
      <4>2. CASE sincePress + 1 = TimeMod
        BY <1>1, <3>3, <4>2
      <4> QED BY <3>3, <4>1, <4>2
    <3>5. heldFor' >= sincePress' \/ heldFor' = HoldFactory
      BY <3>1, <3>2, <3>3, <3>4 DEF LongEnough, UpTo
    <3>6. heldFor' >= heldFor
      BY <3>2, <3>3 DEF UpTo
    <3>7. /\ resetState' = "reboot" => heldFor' >= HoldReboot
          /\ resetState' = "factory" => heldFor' >= HoldFactory
      BY <1>1, <3>1, <3>2, <3>3, <3>6 DEF LongEnough, UpTo
    <3> QED BY <1>1, <3>1, <3>5, <3>7 DEF LongEnough
  <2> QED BY <2>2, <2>3, <2>4
<1> QED BY <1>2, <1>4 DEF GInv

\* What is known while the task handles a message and none was lost.
LEMMA Handling ==
  ASSUME IInv, GInv, ~dropped, msg # NoMsg
  PROVE  /\ First = msg /\ msg \in Message /\ StreamLinked /\ After(msg) \in Counts
         /\ \E t \in Counts : Counted(t) /\ Stamped(t, msg)
         /\ CenterDown => IsRelease(msg) /\ LongEnough(msg.held)
         /\ activeButton = msg.src /\ msg.code = "release" =>
              msg.taps > tapCount \/ msg.taps = TapBound(msg.src)
         /\ activeButton = msg.src /\ msg.code = "press" => msg.taps >= tapCount
<1>1. First = msg /\ msg \in Message /\ StreamLinked /\ TapsCounted /\ HoldTimed
  BY DEF IInv, TypeOK, GInv, First
<1>2. After(msg) \in Counts
  BY <1>1 DEF After, Counts, NoTaps, Message
<1>3. PICK t \in Counts : Counted(t) /\ Stamped(t, msg)
  BY <1>1 DEF TapsCounted
<1>4. tapCount \in 0..4 /\ NoButton \notin Buttons
  BY HandlerAssumption DEF IInv, TypeOK, HandlerAssumption
<1>5. activeButton = msg.src => t.last = msg.src /\ t.n >= tapCount
  BY <1>1, <1>3, <1>4 DEF Counted, Message
<1>6. t.n \in 0..4
  BY <1>3 DEF Counts
<1>7. activeButton = msg.src /\ msg.code = "release" =>
        msg.taps > tapCount \/ msg.taps = TapBound(msg.src)
  <2> SUFFICES ASSUME activeButton = msg.src, msg.code = "release"
               PROVE  msg.taps > tapCount \/ msg.taps = TapBound(msg.src)
    OBVIOUS
  <2>1. msg.taps = UpTo(t.n, TapBound(msg.src)) /\ tapCount < TapBound(msg.src)
    BY <1>1, <1>3, <1>4, <1>5
       DEF Stamped, IInv, GestureConsistent, TapBound, Message, Buttons, HandlerAssumption
  <2>2. UpTo(t.n, TapBound(msg.src)) = t.n + 1 \/ UpTo(t.n, TapBound(msg.src)) = t.n
    BY DEF UpTo
  <2> QED BY <1>4, <1>5, <1>6, <2>1, <2>2 DEF UpTo, TapBound
<1>8. activeButton = msg.src /\ msg.code = "press" => msg.taps >= tapCount
  BY <1>3, <1>5 DEF Stamped
<1>9. CenterDown => IsRelease(msg) /\ LongEnough(msg.held)
  BY <1>1 DEF HoldTimed
<1> QED BY <1>1, <1>2, <1>3, <1>7, <1>8, <1>9

\* Handling a message: the task counts one tap where the driver's side has
\* counted it, and starts its timers when the finger can only have been longer.
LEMMA HandleKnows ==
  ASSUME IInv, GInv, Handle
  PROVE  GInv'
<1>1. /\ pc' = "polled" /\ msg' = NoMsg /\ lag' = 0
      /\ UNCHANGED <<held, heldFor, tapsOf, queue, dropped>>
  BY DEF Handle, driverVars
<1>2. First' = IF queue = <<>> THEN NoMsg ELSE Head(queue)
  BY <1>1 DEF First
<1>3. \/ HandleNothing /\ msg = NoMsg
      \/ HandlePress /\ msg # NoMsg
      \/ HandleRelease /\ msg # NoMsg
  BY DEF Handle, HandlePress, HandleRelease, HandleNothing
<1>4. TaskPhase'
  <2>1. CASE HandleNothing
    BY <1>1, <2>1, HandlerAssumption
       DEF HandleNothing, gestureVars, GInv, TaskPhase, CenterDown
  <2>2. CASE HandlePress
    BY <1>1, <2>2 DEF HandlePress, TaskPhase, CenterDown
  <2>3. CASE HandleRelease
    BY <1>1, <2>3, HandlerAssumption
       DEF HandleRelease, SpuriousRelease, ReleaseOutlet, ReleaseCenter, TaskPhase,
           CenterDown, HandlerAssumption, Buttons
  <2> QED BY <1>3, <2>1, <2>2, <2>3
<1>5. ASSUME ~dropped' PROVE StreamLinked' /\ TapsCounted' /\ HoldTimed'
  <2>1. ~dropped /\ StreamLinked /\ TapsCounted /\ HoldTimed
    BY <1>1, <1>5 DEF GInv
  <2>2. StreamLinked'
    <3>1. \A m : Latest(m) => Latest(m)'
      BY <1>1 DEF Latest
    <3> QED BY <1>1, <2>1, <3>1 DEF StreamLinked
  <2>3. CASE HandleNothing /\ msg = NoMsg
    <3>1. UNCHANGED <<isPressed, tapCount, activeButton, resetState, sincePress>>
      BY <2>3 DEF HandleNothing, gestureVars
    <3>2. UNCHANGED First
      BY <1>2, <2>3 DEF First
    <3>3. TapsCounted'
      BY <1>1, <2>1, <3>1, <3>2 DEF TapsCounted, Counted
    <3>4. HoldTimed'
      BY <1>1, <2>1, <3>1, <3>2 DEF HoldTimed, CenterDown, LongEnough
    <3> QED BY <2>2, <3>3, <3>4
  <2>4. PICK a : a = After(msg)
    OBVIOUS
  <2>5. ASSUME Counted(a)', msg # NoMsg PROVE TapsCounted'
    <3>1. CASE queue = <<>>
      <4>1. tapsOf' = a
        BY <1>1, <2>1, <2>4, <2>5, <3>1 DEF StreamLinked, Latest
      <4> QED BY <1>2, <2>5, <3>1, <4>1 DEF TapsCounted, Counted
    <3>2. CASE queue # <<>>
      <4>1. Stamped(a, Head(queue)) /\ Head(queue) # NoMsg
        BY <2>1, <2>4, <2>5, <3>2, Taken, FirstType DEF StreamLinked, Link, IInv, TypeOK
      <4>2. a \in Counts
        BY <2>1, <2>4, <2>5, Handling
      <4> QED BY <1>2, <2>5, <3>2, <4>1, <4>2 DEF TapsCounted
    <3> QED BY <3>1, <3>2
  <2>6. CASE HandlePress /\ msg # NoMsg
    <3>1. /\ msg \in Message /\ msg.code = "press" /\ isPressed' /\ activeButton' = msg.src
          /\ sincePress' = lag % TimeMod
          /\ activeButton = msg.src => UNCHANGED <<tapCount, resetState>> /\ msg.taps >= tapCount
          /\ activeButton # msg.src => tapCount' = 0 /\ resetState' = "idle"
          /\ CenterDown => IsRelease(msg)
      BY <2>1, <2>6, Handling DEF HandlePress
    <3>2. Counted(a)'
      BY <2>4, <3>1 DEF Counted, After, Message
    <3>3. lag = 0 /\ sincePress' = 0
      <4>1. ~CenterDown
        BY <3>1 DEF IsRelease
      <4>2. lag = 0
        BY <4>1 DEF IInv, TypeOK, GInv, TaskPhase
      <4> QED BY <3>1, <4>2, HandlerAssumption DEF HandlerAssumption
    <3>4. HoldTimed'
      <4> SUFFICES ASSUME CenterDown'
                   PROVE  IF First' = NoMsg THEN held' = Center /\ LongEnough(heldFor)'
                          ELSE IsRelease(First') /\ LongEnough(First.held)'
        BY DEF HoldTimed
      <4>1. IsPress(msg)
        BY <3>1 DEF IsPress, CenterDown
      <4>2. resetState' \notin {"reboot", "factory"}
        BY <3>1, <4>1 DEF IsPress, IsRelease, CenterDown, GInv, TaskPhase
      <4>3. \A h \in Nat : LongEnough(h)'
        BY <3>3, <4>2 DEF LongEnough
      <4>4. CASE queue = <<>>
        <5>1. Latest(msg) /\ heldFor' \in Nat
          BY <1>1, <2>1, <2>6, <4>4, HandlerAssumption
             DEF StreamLinked, IInv, TypeOK, HandlerAssumption
        <5> QED BY <1>1, <1>2, <4>1, <4>3, <4>4, <5>1 DEF Latest
      <4>5. CASE queue # <<>>
        <5>1. Link(msg, Head(queue)) /\ Head(queue) \in Message /\ NoMsg \notin Message
          BY <2>1, <2>6, <4>5, Taken, FirstType DEF StreamLinked, IInv, TypeOK
        <5>2. First' = Head(queue) /\ IsRelease(First') /\ First'.held \in Nat
          BY <1>2, <4>1, <4>5, <5>1, HandlerAssumption DEF Link, Message, HandlerAssumption
        <5> QED BY <4>3, <5>1, <5>2
      <4> QED BY <4>4, <4>5
    <3> QED BY <2>2, <2>5, <2>6, <3>2, <3>4
  <2>7. CASE HandleRelease /\ msg # NoMsg
    <3>1. /\ msg \in Message /\ msg.code = "release" /\ ~isPressed'
          /\ activeButton = msg.src => msg.taps > tapCount \/ msg.taps = TapBound(msg.src)
      BY <2>1, <2>7, Handling DEF HandleRelease
    <3>2. Counted(a)'
      <4>1. tapCount \in 0..4
        BY DEF IInv, TypeOK
      <4>2. CASE SpuriousRelease
        BY <4>2 DEF SpuriousRelease, Counted
      <4>3. CASE ReleaseOutlet
        <5> SUFFICES ASSUME activeButton' # NoButton
                     PROVE  a.last = activeButton' /\ a.n >= tapCount'
          BY DEF Counted
        <5>1. /\ activeButton = msg.src /\ msg.src # Center /\ tapCount < 2
              /\ tapCount' = tapCount + 1 /\ activeButton' = activeButton
          BY <3>1, <4>3 DEF ReleaseOutlet, IInv, GestureConsistent, Message, Buttons
        <5>2. msg.taps >= tapCount' /\ msg.taps # 0
          BY <3>1, <4>1, <5>1 DEF Message, TapBound
        <5> QED BY <2>4, <3>1, <5>1, <5>2 DEF After
      <4>4. CASE ReleaseCenter
        <5> SUFFICES ASSUME activeButton' # NoButton
                     PROVE  a.last = activeButton' /\ a.n >= tapCount'
          BY DEF Counted
        <5>1. /\ activeButton = msg.src /\ msg.src = Center /\ tapCount < 3
              /\ tapCount' = tapCount + 1 /\ activeButton' = activeButton
          BY <3>1, <4>4 DEF ReleaseCenter, IInv, GestureConsistent, Message, Buttons
        <5>2. msg.taps >= tapCount' /\ msg.taps # 0
          BY <3>1, <4>1, <5>1 DEF Message, TapBound
        <5> QED BY <2>4, <3>1, <5>1, <5>2 DEF After
      <4> QED BY <2>7, <4>2, <4>3, <4>4 DEF HandleRelease
    <3>3. HoldTimed'
      BY <3>1 DEF HoldTimed, CenterDown
    <3> QED BY <2>2, <2>5, <2>7, <3>2, <3>3
  <2> QED BY <1>3, <2>3, <2>6, <2>7
<1> QED BY <1>4, <1>5 DEF GInv

\* The task's knowledge is there at the start, and every step keeps it.
LEMMA InitKnows == Init => GInv
<1> SUFFICES ASSUME Init PROVE GInv
  OBVIOUS
<1>1. First = NoMsg
  BY DEF Init, First
<1>2. TaskPhase
  BY HandlerAssumption DEF Init, TaskPhase, CenterDown, HandlerAssumption, Buttons
<1>3. StreamLinked
  BY DEF Init, StreamLinked
<1>4. TapsCounted /\ HoldTimed
  BY <1>1 DEF Init, TapsCounted, HoldTimed, Counted, CenterDown
<1> QED BY <1>2, <1>3, <1>4 DEF GInv

LEMMA NextKnows == IInv /\ IInv' /\ GInv /\ [Next]_vars => GInv'
<1> SUFFICES ASSUME IInv, IInv', GInv, [Next]_vars PROVE GInv'
  OBVIOUS
<1>1. TypeOK /\ TypeOK'
  BY DEF IInv
<1>2. ASSUME NEW b \in Buttons, DriverPress(b) \/ DriverRelease(b) PROVE GInv'
  BY <1>1, <1>2, PressSent, ReleaseSent
<1>3. CASE ButtonEnable
  BY <1>3 DEF ButtonEnable, gestureVars, driverVars, GInv, TaskPhase, CenterDown,
     StreamLinked, Latest, TapsCounted, Counted, HoldTimed, LongEnough, First
<1>4. CASE Poll
  BY <1>4, PollKnows
<1>5. CASE Flash
  BY <1>1, <1>5, FlashKnows
<1>6. CASE Handle
  BY <1>6, HandleKnows
<1>7. CASE Tick
  BY <1>1, <1>7, TickKnows
<1>8. CASE UNCHANGED vars
  BY <1>8 DEF vars, GInv, TaskPhase, CenterDown,
     StreamLinked, Latest, TapsCounted, Counted, HoldTimed, LongEnough, First
<1> QED BY <1>2, <1>3, <1>4, <1>5, <1>6, <1>7, <1>8 DEF Next

THEOREM Knows == Spec => [](IInv /\ GInv)
<1>1. Spec => []IInv
  BY Inductive
<1>2. Init => GInv
  BY InitKnows
<1>3. IInv /\ IInv' /\ GInv /\ [Next]_vars => GInv'
  BY NextKnows
<1> QED BY <1>1, <1>2, <1>3, PTL DEF Spec

-----------------------------------------------------------------------------
\* Only the handling of a release asks the others for something; what it asks
\* for decides the state of the gesture it ends.
LEMMA AskedBy ==
  ASSUME IInv, [Next]_vars, NEW o \in {"toggle", "reboot", "factory"}, Asks(o)
  PROVE  /\ msg # NoMsg /\ msg.code = "release" /\ activeButton = msg.src
         /\ o = "toggle" => ReleaseOutlet
         /\ o \in {"reboot", "factory"} => ReleaseCenter /\ resetState = o
<1>1. Handle
  BY DEF Asks, Next, vars, DriverPress, DriverRelease, DriverIdle, ButtonEnable, Poll,
         ArmReboot, ArmFactory, Expire, NoTimer, Flash, Tick
<1>2. HandleRelease
  BY <1>1 DEF Asks, Handle, HandlePress, HandleNothing
<1> QED
  BY <1>2 DEF Asks, HandleRelease, SpuriousRelease, ReleaseOutlet, ReleaseCenter

\* A reset needs its whole gesture, made by the finger: four taps of the
\* center button in a row, the last held for the hold time.
THEOREM ResetIsAGesture == Spec => ResetNeedsGesture
<1> DEFINE A == ~dropped =>
                 /\ Asks("reboot")  => msg.taps = 4 /\ msg.held >= HoldReboot
                 /\ Asks("factory") => msg.taps = 4 /\ msg.held >= HoldFactory
<1>1. ASSUME IInv, GInv, [Next]_vars PROVE A
  <2> SUFFICES ASSUME ~dropped, NEW o \in {"reboot", "factory"}, Asks(o)
               PROVE  /\ msg.taps = 4
                      /\ o = "reboot" => msg.held >= HoldReboot
                      /\ o = "factory" => msg.held >= HoldFactory
    OBVIOUS
  <2>1. /\ msg # NoMsg /\ msg.code = "release" /\ activeButton = msg.src
        /\ resetState = o /\ msg.src = Center
    BY <1>1, AskedBy DEF ReleaseCenter
  <2>2. tapCount = 3 /\ CenterDown
    BY <1>1, <2>1 DEF IInv, GestureConsistent, GInv, TaskPhase, CenterDown
  <2>3. msg \in Message /\ LongEnough(msg.held) /\ (msg.taps > 3 \/ msg.taps = 4)
    BY <1>1, <2>1, <2>2, Handling DEF TapBound
  <2> QED BY <2>1, <2>3 DEF LongEnough, Message
<1>2. IInv /\ GInv /\ [Next]_vars => [A]_vars
  BY <1>1
<1> HIDE DEF A
<1>3. Spec => [][A]_vars
  BY <1>2, Knows, PTL DEF Spec
<1> QED BY <1>3 DEF ResetNeedsGesture, A

\* A socket is toggled only by the second or a later tap in a row of its button.
THEOREM ToggleIsADoubleTap == Spec => ToggleNeedsDoubleTap
<1> DEFINE A == ~dropped /\ Asks("toggle") => msg.taps >= 2
<1>1. ASSUME IInv, GInv, [Next]_vars PROVE A
  <2> SUFFICES ASSUME ~dropped, Asks("toggle") PROVE msg.taps >= 2
    OBVIOUS
  <2>1. /\ msg # NoMsg /\ msg.code = "release" /\ activeButton = msg.src /\ ReleaseOutlet
    BY <1>1, AskedBy
  <2>2. tapCount \in 0..4 /\ tapCount + 1 = 2 /\ msg.src # Center
    BY <1>1, <2>1 DEF ReleaseOutlet, Asks, IInv, TypeOK
  <2>3. msg \in Message /\ (msg.taps > tapCount \/ msg.taps = 2)
    BY <1>1, <2>1, <2>2, Handling DEF TapBound
  <2> QED BY <2>2, <2>3 DEF Message
<1>2. IInv /\ GInv /\ [Next]_vars => [A]_vars
  BY <1>1
<1> HIDE DEF A
<1>3. Spec => [][A]_vars
  BY <1>2, Knows, PTL DEF Spec
<1> QED BY <1>3 DEF ToggleNeedsDoubleTap, A
=============================================================================
