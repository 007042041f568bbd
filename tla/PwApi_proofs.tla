---------------------------- MODULE PwApi_proofs ----------------------------
(***************************************************************************)
(* Proofs about the client of the gateway for any sockets, any number of   *)
(* tasks there is memory for, any capacity of the two queues and any       *)
(* number of disturbances: the variables keep their types, and as long as  *)
(* no registration fails the client is wholly there or wholly gone.        *)
(*                                                                         *)
(* The second needs to know how far Start and the clean-up of the task     *)
(* have come: Phases lists the combinations of what Start does in its      *)
(* caller and of where the task is that occur.  The one to watch is        *)
(* Closing, in which a Start may have made a second task beside the one    *)
(* that is about to clean up; the control's registration still being there *)
(* is what makes it take that task back.                                   *)
(***************************************************************************)
EXTENDS PwApi, SequenceTheorems, TLAPS

BoxesOK ==
    /\ queue \in Seq(Messages) /\ Len(queue) <= QSize
    /\ evq \in Seq(Events) /\ Len(evq) <= QSize

Boxed ==
    {b \in [queue : Seq(Messages), evq : Seq(Events)] :
        Len(b.queue) <= QSize /\ Len(b.evq) <= QSize}

Labels == {"none", "wait", "poll", "status", "drain", "tail", "shutting", "stopping"}
TasksOK ==
    /\ apiTask \in Tasks \cup {NoTask}
    /\ tpc \in [Tasks -> Labels]
    /\ job \in [Tasks -> Positions \cup Events]

-----------------------------------------------------------------------------
\* A queue takes a message or stays as it is.
LEMMA PutType ==
  ASSUME NEW S, NEW q \in Seq(S), Len(q) <= QSize, NEW m \in S
  PROVE  Put(q, m) \in Seq(S) /\ Len(Put(q, m)) <= QSize
<1>1. QSize \in Nat
  BY PwApiAssumption DEF PwApiAssumption
<1>2. Append(q, m) \in Seq(S) /\ Len(Append(q, m)) = Len(q) + 1 /\ Len(q) \in Nat
  BY AppendProperties, LenProperties
<1> QED BY <1>1, <1>2 DEF Put

\* The first of a queue and what is left of it.
LEMMA TakeType ==
  ASSUME NEW S, NEW q \in Seq(S), q # <<>>, Len(q) <= QSize
  PROVE  Head(q) \in S /\ Tail(q) \in Seq(S) /\ Len(Tail(q)) <= QSize
<1>1. QSize \in Nat
  BY PwApiAssumption DEF PwApiAssumption
<1>2. /\ Head(q) \in S /\ Tail(q) \in Seq(S) /\ Len(Tail(q)) = Len(q) - 1
      /\ Len(q) \in Nat
  BY HeadTailProperties, LenProperties
<1> QED BY <1>1, <1>2

LEMMA EmptyType == \A S : <<>> \in Seq(S) /\ Len(<<>>) <= QSize
  BY PwApiAssumption, EmptySeq DEF PwApiAssumption

\* What a post or a command says is some sockets' positions.
LEMMA SaysPositions ==
  \A e \in Positions \cup Events : \A s \in DOMAIN e : e[s] \in BOOLEAN
<1> SUFFICES ASSUME NEW e \in Positions \cup Events, NEW x \in DOMAIN e
             PROVE  e[x] \in BOOLEAN
  OBVIOUS
<1>1. CASE e \in Positions
  BY <1>1 DEF Positions
<1>2. CASE e \in {Position(s, p) : s \in Sockets, p \in BOOLEAN}
  <2>1. PICK s \in Sockets, p \in BOOLEAN : e = [y \in {s} |-> p]
    BY <1>2 DEF Position
  <2> QED BY <2>1
<1>3. CASE e = NoPosition
  BY <1>3 DEF NoPosition
<1> QED BY <1>1, <1>2, <1>3 DEF Events

LEMMA WithType ==
  ASSUME NEW p \in Positions, NEW e \in Positions \cup Events
  PROVE  With(p, e) \in Positions
  BY SaysPositions DEF With, Positions

LEMMA NoPositionType == NoPosition \in Events
  BY DEF Events

LEMMA PositionType == \A x \in Sockets, p \in BOOLEAN : Position(x, p) \in Events
  BY DEF Events

LEMMA NegationType == \A p \in BOOLEAN : (~p) \in BOOLEAN
  OBVIOUS

\* What messages are made of.
LEMMA MessageType ==
  /\ \A c \in {"wakeUp", "sendEvent", "shutDown", "pause", "resume"} : Code(c) \in Messages
  /\ \A e \in Events : [code |-> "command", set |-> e] \in Messages
  /\ \A m \in Messages : m.set \in Events
  BY NoPositionType DEF Messages, Code

\* An event leaves both queues queues.
LEMMA AfterEventType ==
  ASSUME NEW b \in Boxed, NEW e \in Events
  PROVE  AfterEvent(b, e) \in Boxed
<1>1. /\ b.queue \in Seq(Messages) /\ Len(b.queue) <= QSize
      /\ b.evq \in Seq(Events) /\ Len(b.evq) <= QSize
  BY DEF Boxed
<1> DEFINE q == Put(b.queue, Code("sendEvent"))
           v == Append(b.evq, e)
<1>2. q \in Seq(Messages) /\ Len(q) <= QSize
  BY <1>1, PutType, MessageType
<1>3. CASE Len(b.evq) = QSize
  BY <1>3 DEF AfterEvent
<1>4. CASE Len(b.evq) # QSize
  <2>1. QSize \in Nat
    BY PwApiAssumption DEF PwApiAssumption
  <2>2. v \in Seq(Events) /\ Len(v) = Len(b.evq) + 1 /\ Len(b.evq) \in Nat
    BY <1>1, AppendProperties, LenProperties
  <2>3. AfterEvent(b, e) = [evq |-> v, queue |-> q]
    BY <1>4 DEF AfterEvent
  <2> HIDE DEF q, v
  <2>4. Len(v) <= QSize
    BY <1>1, <1>4, <2>1, <2>2
  <2> QED BY <1>2, <2>2, <2>3, <2>4 DEF Boxed
<1> QED BY <1>3, <1>4

\* A message after it too.
LEMMA BoxedPut ==
  ASSUME NEW b \in Boxed, NEW m \in Messages
  PROVE  [b EXCEPT !.queue = Put(@, m)] \in Boxed
<1>1. Put(b.queue, m) \in Seq(Messages) /\ Len(Put(b.queue, m)) <= QSize
  BY PutType DEF Boxed
<1> QED BY <1>1 DEF Boxed

LEMMA BoxesType == BoxesOK <=> Boxes(queue) \in Boxed
  BY DEF BoxesOK, Boxes, Boxed

LEMMA SetBoxesType == ASSUME NEW b \in Boxed, SetBoxes(b) PROVE BoxesOK'
  BY DEF BoxesOK, SetBoxes, Boxed

-----------------------------------------------------------------------------
\* The types, in the groups of variables that actions change together.
FlagsOK == isStarted \in BOOLEAN /\ shutdown \in BOOLEAN /\ pause \in BOOLEAN
FwkOK == fwk \in {"idle", "delay", "checked", "created", "registered"}
ServedOK == cbs \subseteq Callbacks /\ httpd \in BOOLEAN
WorldOK ==
    /\ link \in {"up", "down"} /\ ota \in {"none", "running"}
    /\ relay \in Positions /\ seen \in Positions /\ rebooting \in BOOLEAN
    /\ quick \in BOOLEAN /\ muted \in BOOLEAN
BoundsOK == fails \in 0..MaxFail /\ trouble \in 0..MaxTrouble

LEMMA TypeGroups ==
  TypeOK <=> FlagsOK /\ BoxesOK /\ FwkOK /\ TasksOK /\ ServedOK /\ WorldOK /\ BoundsOK
  BY DEF TypeOK, FlagsOK, BoxesOK, FwkOK, TasksOK, Labels, ServedOK, WorldOK, BoundsOK

LEMMA TypeGroupsNext ==
  FlagsOK' /\ BoxesOK' /\ FwkOK' /\ TasksOK' /\ ServedOK' /\ WorldOK' /\ BoundsOK' => TypeOK'
  BY DEF TypeOK, FlagsOK, BoxesOK, FwkOK, TasksOK, Labels, ServedOK, WorldOK, BoundsOK

LEMMA InitTypes == Init => TypeOK
<1> SUFFICES ASSUME Init PROVE TypeOK
  OBVIOUS
<1>1. BoxesOK
  BY EmptyType DEF Init, BoxesOK
<1>2. TasksOK
  BY NoPositionType DEF Init, TasksOK, Labels
<1>3. BoundsOK
  BY PwApiAssumption DEF PwApiAssumption, Init, BoundsOK
<1>4. WorldOK
  BY DEF Init, WorldOK, Positions
<1> QED BY <1>1, <1>2, <1>3, <1>4, TypeGroups DEF Init, FlagsOK, FwkOK, ServedOK

\* A step of trouble, and one of failing memory, stay within their bounds.
LEMMA UseTypes ==
  ASSUME BoundsOK
  PROVE  /\ UseTrouble => trouble' \in 0..MaxTrouble
         /\ UseFail => fails' \in 0..MaxFail
  BY PwApiAssumption DEF PwApiAssumption, BoundsOK, UseTrouble, UseFail

LEMMA AnnouncementTypes == ASSUME TypeOK, LinkUp \/ LinkDown PROVE TypeOK'
<1>1. FlagsOK /\ BoxesOK /\ FwkOK /\ TasksOK /\ ServedOK /\ WorldOK /\ BoundsOK
  BY TypeGroups
<1>2. BoundsOK'
  BY <1>1, PwApiAssumption DEF PwApiAssumption, BoundsOK, LinkUp, LinkDown
<1>3. BoxesOK'
  <2>1. <<Code("shutDown")>> \in Seq(Messages) /\ Len(<<Code("shutDown")>>) <= QSize
    BY MessageType, PwApiAssumption DEF PwApiAssumption
  <2> QED BY <1>1, <2>1 DEF BoxesOK, LinkUp, LinkDown, boxes
<1>4. FlagsOK' /\ FwkOK' /\ ServedOK' /\ WorldOK'
  BY <1>1 DEF LinkUp, LinkDown, flags, served, history, FlagsOK, FwkOK, ServedOK, WorldOK
<1>5. TasksOK'
  BY <1>1 DEF LinkUp, LinkDown, api, TasksOK
<1> QED BY <1>2, <1>3, <1>4, <1>5, TypeGroupsNext

LEMMA StartTypes == ASSUME TypeOK, Start PROVE TypeOK'
<1>1. FlagsOK /\ BoxesOK /\ FwkOK /\ TasksOK /\ ServedOK /\ WorldOK /\ BoundsOK
  BY TypeGroups
<1> USE DEF Start, StartIsStarted, StartRefused, StartTask, StartRegister, StartNotRegistered,
            StartHttpd
<1>2. BoundsOK'
  BY <1>1, UseTypes DEF BoundsOK, world
<1>3. BoxesOK'
  BY <1>1 DEF BoxesOK, boxes
<1>4. FlagsOK' /\ FwkOK' /\ ServedOK'
  BY <1>1 DEF flags, served, FlagsOK, FwkOK, ServedOK
<1>5. WorldOK'
  BY <1>1 DEF world, history, WorldOK
<1>6. TasksOK'
  BY <1>1 DEF DeleteApiTask, api, TasksOK, Labels, WorldOK
<1> QED BY <1>2, <1>3, <1>4, <1>5, <1>6, TypeGroupsNext

-----------------------------------------------------------------------------
\* Going on elsewhere, with a new post or without.
LEMMA GotoType == ASSUME TasksOK, NEW t \in Tasks, NEW l \in Labels, Goto(t, l) PROVE TasksOK'
  BY DEF TasksOK, Goto
LEMMA PostType ==
  ASSUME TasksOK, NEW t \in Tasks, NEW l \in Labels, NEW p \in Positions \cup Events,
         Post(t, l, p)
  PROVE  TasksOK'
  BY DEF TasksOK, Post

\* The sockets are switched, their callbacks post.
LEMMA SwitchTypes ==
  ASSUME WorldOK, NEW e \in Events, NEW q, Boxes(q) \in Boxed, Switch(e, q)
  PROVE  relay' \in Positions /\ BoxesOK'
<1>1. relay' \in Positions
  BY WithType DEF Switch, WorldOK
<1>2. AfterEvent(Boxes(q), e) \in Boxed
  BY AfterEventType
<1>3. PICK b \in Boxed : SetBoxes(b)
  BY <1>2 DEF Switch
<1> QED BY <1>1, <1>3, SetBoxesType

LEMMA HandleTypes ==
  ASSUME TypeOK, NEW t \in Tasks, TaskReceive(t)
  PROVE  BoxesOK' /\ FlagsOK' /\ TasksOK' /\ relay' \in Positions
<1>1. FlagsOK /\ BoxesOK /\ TasksOK /\ WorldOK
  BY TypeGroups
<1> DEFINE m == Head(queue)
           rest == Tail(queue)
<1>2. m \in Messages /\ rest \in Seq(Messages) /\ Len(rest) <= QSize
  BY <1>1, TakeType DEF BoxesOK, TaskReceive
<1>3. Handle(t, m, rest)
  BY DEF TaskReceive
<1> HIDE DEF m, rest
<1>4. {"tail", "drain", "status", "shutting"} \subseteq Labels /\ relay \in Positions
  BY <1>1 DEF Labels, WorldOK
<1>5. CASE isStarted /\ m.code = "command" /\ Switch(m.set, rest) /\ Goto(t, "tail")
             /\ UNCHANGED flags
  <2>1. Boxes(rest) \in Boxed
    BY <1>1, <1>2 DEF Boxes, Boxed, BoxesOK
  <2>2. relay' \in Positions /\ BoxesOK'
    BY <1>1, <1>2, <1>5, <2>1, SwitchTypes, MessageType
  <2> QED BY <1>1, <1>4, <1>5, <2>2, GotoType DEF FlagsOK, flags
<1>6. CASE isStarted /\ m.code = "sendEvent" /\ queue' = rest /\ UNCHANGED <<flags, relay>>
             /\ IF evq = <<>> THEN Goto(t, "tail") /\ UNCHANGED evq
                             ELSE Post(t, "drain", Head(evq)) /\ evq' = Tail(evq)
  <2>1. evq # <<>> => Head(evq) \in Events /\ Tail(evq) \in Seq(Events) /\ Len(Tail(evq)) <= QSize
    BY <1>1, TakeType DEF BoxesOK
  <2>2. BoxesOK'
    BY <1>1, <1>2, <1>6, <2>1 DEF BoxesOK, Goto, Post
  <2>3. TasksOK'
    BY <1>1, <1>4, <1>6, <2>1, GotoType, PostType
  <2> QED BY <1>1, <1>4, <1>6, <2>2, <2>3 DEF FlagsOK, flags
<1>7. CASE /\ queue' = rest /\ UNCHANGED <<evq, relay>>
           /\ \/ Goto(t, "tail") \/ Goto(t, "shutting") \/ Post(t, "status", relay)
           /\ isStarted' \in {isStarted, FALSE} /\ shutdown' = shutdown
           /\ pause' \in {pause, TRUE, FALSE}
  <2>1. BoxesOK'
    BY <1>1, <1>2, <1>7 DEF BoxesOK
  <2>2. TasksOK'
    BY <1>1, <1>4, <1>7, GotoType, PostType
  <2> QED BY <1>1, <1>4, <1>7, <2>1, <2>2 DEF FlagsOK
<1> QED BY <1>3, <1>5, <1>6, <1>7 DEF Handle, flags

\* The steps of the task.
LEMMA TaskTypes == ASSUME TypeOK, NEW t \in Tasks, Task(t) PROVE TypeOK'
<1>1. FlagsOK /\ BoxesOK /\ FwkOK /\ TasksOK /\ ServedOK /\ WorldOK /\ BoundsOK
  BY TypeGroups
<1>2. CASE TaskReceive(t)
  <2>1. BoxesOK' /\ FlagsOK' /\ TasksOK' /\ relay' \in Positions
    BY <1>2, HandleTypes
  <2>2. FwkOK' /\ ServedOK' /\ WorldOK' /\ BoundsOK'
    BY <1>1, <1>2, <2>1
       DEF TaskReceive, FwkOK, ServedOK, WorldOK, BoundsOK, served, history
  <2> QED BY <2>1, <2>2, TypeGroupsNext
<1>3. CASE TaskShutDown(t) \/ TaskPoll(t) \/ TaskTail(t) \/ TaskDelete(t)
  <2> USE DEF TaskShutDown, TaskPoll, TaskTail, TaskDelete
  <2>1. TasksOK'
    <3>1. {"tail", "poll", "stopping", "wait", "none"} \subseteq Labels /\ relay \in Positions
      BY <1>1 DEF Labels, WorldOK
    <3> QED BY <1>1, <1>3, <3>1, GotoType, PostType
  <2>2. BoxesOK'
    BY <1>1, <1>3, EmptyType DEF BoxesOK, boxes
  <2>3. FlagsOK' /\ FwkOK' /\ ServedOK'
    BY <1>1, <1>3 DEF FlagsOK, FwkOK, ServedOK, flags, served
  <2>4. WorldOK' /\ BoundsOK'
    BY <1>1, <1>3 DEF WorldOK, BoundsOK, world, history
  <2> QED BY <2>1, <2>2, <2>3, <2>4, TypeGroupsNext
<1>4. CASE TaskPosted(t) \/ TaskPostFailed(t)
  <2> USE DEF TaskPosted, TaskPostFailed
  <2>1. evq # <<>> => Head(evq) \in Events /\ Tail(evq) \in Seq(Events) /\ Len(Tail(evq)) <= QSize
    BY <1>1, TakeType DEF BoxesOK
  <2>2. AfterPost(t)
    BY <1>4
  <2>3. TasksOK'
    <3>1. {"drain", "tail", "wait"} \subseteq Labels
      BY DEF Labels
    <3> QED BY <1>1, <2>1, <2>2, <3>1, GotoType, PostType DEF AfterPost
  <2>4. evq' \in Seq(Events) /\ Len(evq') <= QSize
    BY <1>1, <2>1, <2>2 DEF AfterPost, BoxesOK
  <2>5. queue' \in Seq(Messages) /\ Len(queue') <= QSize
    <3>1. queue' = queue \/ \E m \in Messages : queue' = Put(queue, m)
      BY <1>4, MessageType
    <3> QED BY <1>1, <3>1, PutType DEF BoxesOK
  <2>6. FlagsOK' /\ FwkOK' /\ ServedOK'
    BY <1>1, <1>4 DEF FlagsOK, FwkOK, ServedOK, flags, served
  <2>7. BoundsOK'
    BY <1>1, <1>4, UseTypes DEF BoundsOK
  <2>8. WorldOK'
    <3>1. seen' \in Positions
      <4>1. job[t] \in Positions \cup Events
        BY <1>1 DEF TasksOK
      <4> QED BY <1>1, <1>4, <4>1, WithType DEF WorldOK, world
    <3> QED BY <1>1, <1>4, <3>1 DEF WorldOK, world, history
  <2> QED BY <2>3, <2>4, <2>5, <2>6, <2>7, <2>8, TypeGroupsNext DEF BoxesOK
<1> QED BY <1>2, <1>3, <1>4 DEF Task

\* The steps of the others.
LEMMA OthersTypes == ASSUME TypeOK, Others \/ FwUpgradeEnd \/ Restart PROVE TypeOK'
<1>1. FlagsOK /\ BoxesOK /\ FwkOK /\ TasksOK /\ ServedOK /\ WorldOK /\ BoundsOK
  BY TypeGroups
<1>2. CASE WakeUp
  <2>1. BoxesOK'
    BY <1>1, <1>2, MessageType, PutType DEF BoxesOK, WakeUp
  <2>2. FlagsOK' /\ FwkOK' /\ TasksOK' /\ ServedOK' /\ WorldOK'
    BY <1>1, <1>2 DEF WakeUp, FlagsOK, FwkOK, TasksOK, ServedOK, WorldOK, flags, api, served,
                      world, history
  <2>3. BoundsOK'
    BY <1>1, <1>2, UseTypes DEF WakeUp, BoundsOK
  <2> QED BY <2>1, <2>2, <2>3, TypeGroupsNext
<1>3. ASSUME NEW s \in Sockets, UserSwitch(s) PROVE TypeOK'
  <2>1. Position(s, ~relay[s]) \in Events
    <3>1. relay[s] \in BOOLEAN
      BY <1>1 DEF WorldOK, Positions
    <3> QED BY <3>1, PositionType, NegationType
  <2>2. relay' \in Positions /\ BoxesOK'
    BY <1>1, <1>3, <2>1, SwitchTypes, BoxesType DEF UserSwitch
  <2>3. FlagsOK' /\ FwkOK' /\ TasksOK' /\ ServedOK'
    BY <1>1, <1>3 DEF UserSwitch, FlagsOK, FwkOK, TasksOK, ServedOK, flags, api, served
  <2>4. WorldOK' /\ BoundsOK'
    BY <1>1, <1>3, <2>2, UseTypes DEF UserSwitch, WorldOK, BoundsOK, history
  <2> QED BY <2>2, <2>3, <2>4, TypeGroupsNext
<1>4. CASE FwUpgradeStart \/ FwUpgradeEnd
  <2> USE DEF FwUpgradeStart, FwUpgradeEnd
  <2>1. BoxesOK'
    <3>1. Boxes(queue) \in Boxed /\ NoPosition \in Events
      BY <1>1, BoxesType, NoPositionType
    <3>2. AfterEvent(Boxes(queue), NoPosition) \in Boxed
      BY <3>1, AfterEventType
    <3>3. [AfterEvent(Boxes(queue), NoPosition) EXCEPT !.queue = Put(@, Code("pause"))] \in Boxed
      BY <3>2, BoxedPut, MessageType
    <3>4. Boxes(Put(queue, Code("resume"))) \in Boxed
      <4>1. /\ Put(queue, Code("resume")) \in Seq(Messages)
            /\ Len(Put(queue, Code("resume"))) <= QSize
        BY <1>1, PutType, MessageType DEF BoxesOK
      <4> QED BY <1>1, <4>1 DEF Boxes, Boxed, BoxesOK
    <3>5. AfterEvent(Boxes(Put(queue, Code("resume"))), NoPosition) \in Boxed
      BY <3>1, <3>4, AfterEventType
    <3>6. \E b \in Boxed : SetBoxes(b)
      BY <1>4, <3>1, <3>3, <3>5
    <3> QED BY <3>6, SetBoxesType
  <2>2. FlagsOK' /\ FwkOK' /\ TasksOK' /\ ServedOK'
    BY <1>1, <1>4 DEF FlagsOK, FwkOK, TasksOK, ServedOK, flags, api, served
  <2>3. WorldOK'
    BY <1>1, <1>4 DEF WorldOK, history
  <2>4. BoundsOK'
    BY <1>1, <1>4, UseTypes DEF BoundsOK
  <2> QED BY <2>1, <2>2, <2>3, <2>4, TypeGroupsNext
<1>5. CASE Restart
  <2> USE DEF Restart
  <2>1. BoxesOK'
    BY <1>5, EmptyType DEF BoxesOK
  <2>2. TasksOK'
    BY <1>5, NoPositionType DEF TasksOK, Labels
  <2>3. FlagsOK' /\ FwkOK' /\ ServedOK'
    BY <1>5 DEF FlagsOK, FwkOK, ServedOK
  <2>4. WorldOK' /\ BoundsOK'
    BY <1>1, <1>5 DEF WorldOK, BoundsOK
  <2> QED BY <2>1, <2>2, <2>3, <2>4, TypeGroupsNext
<1> QED BY <1>2, <1>3, <1>4, <1>5 DEF Others

LEMMA NextTypes == TypeOK /\ [Next]_vars => TypeOK'
<1> SUFFICES ASSUME TypeOK, [Next]_vars PROVE TypeOK'
  OBVIOUS
<1>1. CASE UNCHANGED vars
  BY <1>1 DEF vars, flags, boxes, api, served, world, history, TypeOK
<1> QED BY <1>1, AnnouncementTypes, StartTypes, TaskTypes, OthersTypes DEF Next

\* The client's variables keep their types, its queues their bounds, whatever
\* the tasks interleave, for any sockets, tasks, capacity and disturbances.
THEOREM ApiTypeOK == Spec => []TypeOK
  BY InitTypes, NextTypes, PTL DEF Spec

-----------------------------------------------------------------------------
\* Where Start, in the caller of the framework's callbacks, and the task are.
Busy(t) == tpc[t] \in {"wait", "poll", "status", "drain", "tail"}
Only(t) == t \in Tasks /\ Alive = {t}
Nothing == cbs = {} /\ ~httpd
Everything == cbs = Callbacks /\ httpd
NoTaskYet == fwk \in {"idle", "delay", "checked"}

\* The client is off.
Off == ~isStarted /\ ~shutdown /\ Nothing /\ NoTaskYet /\ Alive = {}

\* Start has made the task, and then registered.
Created ==
    /\ ~isStarted /\ ~shutdown /\ Nothing
    /\ fwk = "created" /\ Only(apiTask) /\ Busy(apiTask)
Registered ==
    /\ ~isStarted /\ ~shutdown /\ cbs = Callbacks /\ ~httpd
    /\ fwk = "registered" /\ Only(apiTask) /\ Busy(apiTask)

On ==
    /\ isStarted /\ ~shutdown /\ Everything /\ fwk \in {"idle", "delay"}
    /\ \E t \in Tasks : Only(t) /\ Busy(t)

\* The task has taken the message that stops it and not cleaned up; Start may
\* have made another one meanwhile.
Closing ==
    /\ ~isStarted /\ Everything
    /\ \E t \in Tasks :
         /\ tpc[t] = IF shutdown THEN "tail" ELSE "shutting"
         /\ \/ NoTaskYet /\ Only(t)
            \/ /\ fwk = "created" /\ apiTask \in Tasks \ {t}
               /\ Alive = {t, apiTask} /\ Busy(apiTask)

\* It has cleaned up.
Stopping ==
    /\ ~isStarted /\ shutdown /\ Nothing /\ NoTaskYet
    /\ \E t \in Tasks : Only(t) /\ tpc[t] = "stopping"

Phases == Off \/ Created \/ Registered \/ On \/ Closing \/ Stopping

IInv == TypeOK /\ (NoFailure => Phases)

LEMMA InitIInv == Init => IInv
<1>1. Init => Off
  BY DEF Init, Off, Nothing, NoTaskYet, Alive
<1> QED BY <1>1, InitTypes DEF IInv, Phases

\* Memory that failed once has failed for good.
LEMMA FailuresStay == TypeOK /\ [Next]_vars /\ NoFailure' => NoFailure
<1> SUFFICES ASSUME TypeOK, [Next]_vars, fails' = MaxFail PROVE fails = MaxFail
  BY DEF NoFailure
<1>1. fails \in 0..MaxFail /\ MaxFail \in Nat
  BY PwApiAssumption DEF PwApiAssumption, TypeOK
<1>2. fails' = fails \/ fails' = fails - 1
  <2>1. CASE UNCHANGED vars
    BY <2>1 DEF vars
  <2>2. CASE LinkUp \/ LinkDown
    BY <2>2 DEF LinkUp, LinkDown
  <2>3. CASE Start
    BY <2>3 DEF Start, StartIsStarted, StartRefused, StartTask, StartRegister,
                StartNotRegistered, StartHttpd, UseFail
  <2>4. CASE \E t \in Tasks : Task(t)
    BY <2>4 DEF Task, TaskReceive, TaskShutDown, TaskPoll, TaskPosted, TaskPostFailed, TaskTail,
                TaskDelete
  <2>5. CASE Others \/ FwUpgradeEnd \/ Restart
    BY <2>5 DEF Others, WakeUp, UserSwitch, FwUpgradeStart, FwUpgradeEnd, Restart
  <2> QED BY <2>1, <2>2, <2>3, <2>4, <2>5 DEF Next
<1> QED BY <1>1, <1>2

\* A step that changes nothing of what the phases are about.
LEMMA PhasesStay ==
  ASSUME Phases, UNCHANGED <<isStarted, shutdown, cbs, httpd, tpc, apiTask, fwk>>
  PROVE  Phases'
  BY DEF Phases, Off, Created, Registered, On, Closing, Stopping, Busy, Only, Nothing,
         Everything, NoTaskYet, Alive

\* The framework's callbacks begin when no Start is under way.
LEMMA AnnouncementPhases == ASSUME Phases, LinkUp \/ LinkDown PROVE Phases'
<1>1. /\ UNCHANGED <<isStarted, shutdown, cbs, httpd, tpc, apiTask>>
      /\ fwk = "idle" /\ fwk' \in {"idle", "delay"}
  BY DEF LinkUp, LinkDown, flags, api, served
<1> QED BY <1>1 DEF Phases, Off, Created, Registered, On, Closing, Stopping, Busy, Only, Nothing,
                    Everything, NoTaskYet, Alive

\* A task busy with its posts stays busy, and no other changes its place.
LEMMA BusyStep ==
  ASSUME TypeOK, NEW t \in Tasks,
         \E l \in {"wait", "poll", "status", "drain", "tail"} : tpc' = [tpc EXCEPT ![t] = l],
         Busy(t)
  PROVE  /\ Alive' = Alive
         /\ \A u \in Tasks : Busy(u)' <=> Busy(u)
         /\ \A u \in Tasks \ {t} : tpc'[u] = tpc[u]
  BY DEF TypeOK, Busy, Alive

\* Start.  When it has made a task beside one that is about to clean up, it
\* finds the control's registration there and takes the task back.
LEMMA StartPhases == ASSUME TypeOK, Phases, Start, NoFailure, NoFailure' PROVE Phases'
<1>1. ~UseFail
  BY PwApiAssumption DEF PwApiAssumption, NoFailure, UseFail
<1>2. tpc \in [Tasks -> Labels]
  BY TypeGroups DEF TasksOK
<1> USE DEF Busy, Only, Nothing, Everything, NoTaskYet
<1>3. CASE StartIsStarted
  <2>1. /\ UNCHANGED <<isStarted, shutdown, cbs, httpd, tpc, apiTask>>
        /\ fwk = "delay" /\ fwk' = IF isStarted THEN "idle" ELSE "checked"
    BY <1>3 DEF StartIsStarted, flags, api, served
  <2> QED BY <2>1 DEF Phases, Off, Created, Registered, On, Closing, Stopping, Alive
<1>4. CASE StartRefused
  <2>1. /\ UNCHANGED <<isStarted, shutdown, cbs, httpd, tpc, apiTask>>
        /\ fwk = "checked" /\ fwk' = "idle"
    BY <1>4 DEF StartRefused, flags, api, served
  <2> QED BY <2>1 DEF Phases, Off, Created, Registered, On, Closing, Stopping, Alive
<1>5. CASE StartTask
  <2>1. /\ UNCHANGED <<isStarted, shutdown, cbs, httpd>>
        /\ fwk = "checked" /\ ~shutdown
        /\ \/ fwk' = "idle" /\ UNCHANGED <<tpc, apiTask>>
           \/ \E t \in Tasks : /\ tpc[t] = "none" /\ tpc' = [tpc EXCEPT ![t] = "poll"]
                               /\ apiTask' = t /\ fwk' = "created"
    BY <1>1, <1>5 DEF StartTask, served, api
  <2>2. CASE fwk' = "idle" /\ UNCHANGED <<tpc, apiTask>>
    BY <2>1, <2>2 DEF Phases, Off, Created, Registered, On, Closing, Stopping, Alive
  <2>3. ASSUME NEW t \in Tasks, tpc[t] = "none", tpc' = [tpc EXCEPT ![t] = "poll"],
               apiTask' = t, fwk' = "created"
        PROVE  Phases'
    <3>1. Alive' = Alive \cup {t} /\ Busy(t)' /\ \A u \in Tasks \ {t} : tpc'[u] = tpc[u]
      BY <1>2, <2>3 DEF Alive
    <3>2. CASE Off
      BY <2>1, <2>3, <3>1, <3>2 DEF Phases, Off, Created
    <3>3. CASE Closing
      <4>1. PICK u \in Tasks : tpc[u] = "shutting" /\ Alive = {u}
        BY <2>1, <3>3 DEF Closing
      <4>2. u # t /\ tpc'[u] = "shutting" /\ Alive' = {u, t} /\ ~shutdown'
        BY <2>1, <2>3, <3>1, <4>1
      <4> QED BY <2>1, <2>3, <3>1, <3>3, <4>2 DEF Phases, Closing
    <3> QED BY <2>1, <3>2, <3>3 DEF Phases, Created, Registered, On, Stopping
  <2> QED BY <2>1, <2>2, <2>3
<1>6. CASE StartRegister
  <2>1. /\ UNCHANGED <<isStarted, shutdown, httpd, tpc, apiTask>>
        /\ fwk = "created" /\ cbs = {} /\ cbs' = Callbacks /\ fwk' = "registered"
    BY <1>6 DEF StartRegister, flags, api
  <2>2. Callbacks # {}
    BY DEF Callbacks
  <2>3. Created
    BY <2>1, <2>2 DEF Phases, Off, Created, Registered, On, Closing, Stopping
  <2> QED BY <2>1, <2>3 DEF Phases, Created, Registered, Alive
<1>7. CASE StartNotRegistered
  <2>1. /\ UNCHANGED <<isStarted, shutdown, cbs, httpd, apiTask>>
        /\ fwk = "created" /\ cbs # {} /\ fwk' = "idle"
        /\ tpc' = [tpc EXCEPT ![apiTask] = "none"]
    BY <1>1, <1>7 DEF StartNotRegistered, DeleteApiTask, flags, served
  <2>2. Closing /\ ~Off
    BY <2>1 DEF Phases, Off, Created, Registered, On, Closing, Stopping
  <2>3. PICK t \in Tasks :
          /\ tpc[t] = IF shutdown THEN "tail" ELSE "shutting"
          /\ apiTask \in Tasks \ {t} /\ Alive = {t, apiTask}
    BY <2>1, <2>2 DEF Closing
  <2>4. Alive' = {t} /\ tpc'[t] = tpc[t]
    BY <1>2, <2>1, <2>3 DEF Alive
  <2> QED BY <2>1, <2>2, <2>3, <2>4 DEF Phases, Closing
<1>8. CASE StartHttpd
  <2>1. /\ UNCHANGED <<shutdown, cbs, tpc, apiTask>>
        /\ fwk = "registered" /\ fwk' = "idle" /\ httpd' = TRUE /\ isStarted' = TRUE
    BY <1>1, <1>8 DEF StartHttpd, api
  <2>2. Registered
    BY <2>1 DEF Phases, Off, Created, Registered, On, Closing, Stopping
  <2> QED BY <2>1, <2>2 DEF Phases, Registered, On, Alive
<1> QED BY <1>3, <1>4, <1>5, <1>6, <1>7, <1>8 DEF Start

\* A step of a busy task that takes no message to stop.
LEMMA BusyPhases ==
  ASSUME TypeOK, Phases, NEW t \in Tasks, Busy(t),
         \E l \in {"wait", "poll", "status", "drain", "tail"} : tpc' = [tpc EXCEPT ![t] = l],
         shutdown => tpc[t] # "tail" \/ tpc' = tpc,
         UNCHANGED <<isStarted, shutdown, cbs, httpd, apiTask, fwk>>
  PROVE  Phases'
<1>1. /\ Alive' = Alive
      /\ \A u \in Tasks : Busy(u)' <=> Busy(u)
      /\ \A u \in Tasks \ {t} : tpc'[u] = tpc[u]
  BY BusyStep
<1>2. CASE Closing
  <2>1. PICK u \in Tasks :
          /\ tpc[u] = IF shutdown THEN "tail" ELSE "shutting"
          /\ \/ NoTaskYet /\ Only(u)
             \/ /\ fwk = "created" /\ apiTask \in Tasks \ {u}
                /\ Alive = {u, apiTask} /\ Busy(apiTask)
    BY <1>2 DEF Closing
  <2>2. tpc'[u] = tpc[u]
    BY <1>1, <2>1 DEF Busy
  <2> QED BY <1>1, <1>2, <2>1, <2>2 DEF Phases, Closing, Everything, NoTaskYet, Only
<1>3. CASE ~Closing
  BY <1>1, <1>3 DEF Phases, Off, Created, Registered, On, Stopping, Nothing, Everything,
                    NoTaskYet, Only, Busy
<1> QED BY <1>2, <1>3

\* The task.
LEMMA TaskPhases == ASSUME TypeOK, Phases, NEW t \in Tasks, Task(t) PROVE Phases'
<1>1. tpc \in [Tasks -> Labels]
  BY TypeGroups DEF TasksOK
<1>2. CASE TaskReceive(t) \/ TaskPoll(t) \/ TaskPosted(t) \/ TaskPostFailed(t)
  <2>1. UNCHANGED <<shutdown, cbs, httpd, apiTask, fwk>>
    BY <1>2 DEF TaskReceive, TaskPoll, TaskPosted, TaskPostFailed, Handle, Post, Goto, AfterPost,
                flags, served
  <2>2. Busy(t) /\ tpc[t] # "tail"
    BY <1>2 DEF TaskReceive, TaskPoll, TaskPosted, TaskPostFailed, Busy
  <2>3. CASE /\ isStarted' = isStarted
             /\ \E l \in {"wait", "poll", "status", "drain", "tail"} : tpc' = [tpc EXCEPT ![t] = l]
    BY <2>1, <2>2, <2>3, BusyPhases
  <2>4. CASE isStarted /\ isStarted' = FALSE /\ tpc' = [tpc EXCEPT ![t] = "shutting"]
    <3>1. On /\ Alive = {t}
      BY <2>2, <2>4 DEF Phases, Off, Created, Registered, On, Closing, Stopping, Only, Alive, Busy
    <3>2. Alive' = {t} /\ tpc'[t] = "shutting"
      BY <1>1, <2>4, <3>1 DEF Alive
    <3> QED BY <2>1, <2>4, <3>1, <3>2 DEF Phases, On, Closing, Everything, NoTaskYet, Only
  <2> QED BY <1>2, <2>3, <2>4 DEF TaskReceive, TaskPoll, TaskPosted, TaskPostFailed, Handle, Post,
                                  Goto, AfterPost, flags
<1>3. CASE TaskShutDown(t)
  <2>1. /\ UNCHANGED <<isStarted, cbs, httpd, apiTask, fwk>> /\ shutdown'
        /\ tpc[t] = "shutting" /\ tpc' = [tpc EXCEPT ![t] = "tail"]
    BY <1>3 DEF TaskShutDown, Goto, served
  <2>2. /\ Closing /\ ~shutdown
        /\ \/ NoTaskYet /\ Only(t)
           \/ /\ fwk = "created" /\ apiTask \in Tasks \ {t}
              /\ Alive = {t, apiTask} /\ Busy(apiTask)
    BY <2>1 DEF Phases, Off, Created, Registered, On, Closing, Stopping, Only, Alive, Busy
  <2>3. Alive' = Alive /\ tpc'[t] = "tail" /\ \A u \in Tasks \ {t} : tpc'[u] = tpc[u]
    BY <1>1, <2>1 DEF Alive
  <2> QED BY <2>1, <2>2, <2>3 DEF Phases, Closing, Everything, NoTaskYet, Only, Busy
<1>4. CASE TaskTail(t) /\ ~shutdown
  <2>1. /\ tpc[t] = "tail" /\ tpc' = [tpc EXCEPT ![t] = "wait"]
        /\ UNCHANGED <<isStarted, shutdown, cbs, httpd, apiTask, fwk>>
    BY <1>4 DEF TaskTail, Goto, flags
  <2> QED BY <1>4, <2>1, BusyPhases DEF Busy
<1>5. CASE TaskTail(t) /\ shutdown
  <2>1. /\ Busy(t) /\ shutdown /\ NoTaskYet
        /\ tpc' = [tpc EXCEPT ![t] = "stopping"] /\ cbs' = {} /\ httpd' = FALSE
        /\ UNCHANGED <<isStarted, shutdown, fwk>>
    BY <1>5, TypeGroups DEF TaskTail, Goto, flags, Busy, InStart, FwkOK, NoTaskYet
  <2>2. Closing /\ Alive = {t}
    BY <2>1 DEF Phases, Off, Created, Registered, On, Closing, Stopping, Only, Alive, Busy,
                NoTaskYet
  <2>3. Alive' = {t} /\ tpc'[t] = "stopping"
    BY <1>1, <2>1, <2>2 DEF Alive
  <2> QED BY <2>1, <2>2, <2>3 DEF Phases, Closing, Stopping, Nothing, NoTaskYet, Only
<1>6. CASE TaskDelete(t)
  <2>1. /\ tpc[t] = "stopping" /\ ~shutdown' /\ tpc' = [tpc EXCEPT ![t] = "none"]
        /\ UNCHANGED <<isStarted, cbs, httpd, fwk>>
    BY <1>6 DEF TaskDelete, Goto, served
  <2>2. Stopping /\ Alive = {t}
    BY <2>1 DEF Phases, Off, Created, Registered, On, Closing, Stopping, Only, Alive, Busy
  <2>3. Alive' = {}
    BY <1>1, <2>1, <2>2 DEF Alive
  <2> QED BY <2>1, <2>2, <2>3 DEF Phases, Off, Stopping, Nothing, NoTaskYet
<1> QED BY <1>2, <1>3, <1>4, <1>5, <1>6 DEF Task

\* The others change nothing of it, but for a restart.
LEMMA OthersPhases == ASSUME Phases, Others \/ FwUpgradeEnd \/ Restart PROVE Phases'
<1>1. CASE Others \/ FwUpgradeEnd
  <2>1. UNCHANGED <<isStarted, shutdown, cbs, httpd, tpc, apiTask, fwk>>
    BY <1>1 DEF Others, WakeUp, UserSwitch, FwUpgradeStart, FwUpgradeEnd, flags, api, served
  <2> QED BY <2>1, PhasesStay
<1>2. CASE Restart
  BY <1>2 DEF Restart, Phases, Off, Nothing, NoTaskYet, Alive
<1> QED BY <1>1, <1>2

LEMMA NextIInv == IInv /\ [Next]_vars => IInv'
<1> SUFFICES ASSUME IInv, [Next]_vars PROVE IInv'
  OBVIOUS
<1>1. TypeOK /\ TypeOK'
  BY NextTypes DEF IInv
<1>2. ASSUME NoFailure' PROVE Phases'
  <2>1. NoFailure /\ Phases
    BY <1>1, <1>2, FailuresStay DEF IInv
  <2>2. CASE UNCHANGED vars
    <3>1. UNCHANGED <<isStarted, shutdown, cbs, httpd, tpc, apiTask, fwk>>
      BY <2>2 DEF vars, flags, api, served
    <3> QED BY <2>1, <3>1, PhasesStay
  <2> QED BY <1>1, <1>2, <2>1, <2>2, AnnouncementPhases, StartPhases, TaskPhases, OthersPhases
          DEF Next
<1> QED BY <1>1, <1>2 DEF IInv

\* Whatever Start, Stop, the task and the others interleave, as long as no
\* registration fails and no ordered reboot is lost the client is wholly there or
\* wholly gone (appPWApiStart, appPWApiStop, pwApiTask), for any tasks, sockets,
\* capacity and disturbances.
THEOREM WhollyThereOrGone == Spec => []AllOrNothing
<1>1. IInv => AllOrNothing
  <2> SUFFICES ASSUME Phases
               PROVE  /\ isStarted => cbs = Callbacks /\ httpd /\ \E t \in Tasks : Alive = {t}
                      /\ ~isStarted /\ ~Between => cbs = {} /\ ~httpd /\ Alive = {}
    BY DEF IInv, AllOrNothing, NoFailure
  <2> QED BY DEF Phases, Off, Created, Registered, On, Closing, Stopping, Between, Nothing,
                 Everything, NoTaskYet, Only, Alive
<1> QED BY <1>1, InitIInv, NextIInv, PTL DEF Spec
=============================================================================
