------------------------------- MODULE PwApi -------------------------------
(***************************************************************************)
(* The client of the gateway's API (app_pw_api.c) of a provisioned device: *)
(* appPWApiStart and appPWApiStop, called when the framework announces the *)
(* connection (frwkCallback of app_control.c); pwApiTask, which takes its  *)
(* messages from one queue and the events to report from another; the      *)
(* callbacks of the control task and of the sockets and the wake-up        *)
(* handler, which fill them.                                               *)
(*                                                                         *)
(* eventNotify keeps the framework's table locked while it calls the       *)
(* callbacks, so a Start or Stop ends before the next one begins.          *)
(* Timing assumption: what Start does after its 100 ms is done within the  *)
(* 50 ms that the task waits after each message, and so within the 15      *)
(* minutes it waits for one (InStart in TaskTail and TaskPoll).            *)
(*                                                                         *)
(* A post is a function from the sockets it reports to their positions: a  *)
(* status reports all, an event one, an event about something else none.   *)
(***************************************************************************)
EXTENDS Naturals, Sequences

CONSTANTS Tasks, NoTask,  \* the tasks there is memory for; none of them
          Sockets,        \* whose positions are reported
          QSize,          \* length of both queues
          MaxFail,        \* bound: registrations that fail for want of memory,
                          \* reboots that find the control task's queue full
          MaxTrouble      \* bound: how often the environment does something

ASSUME PwApiAssumption ==
    /\ QSize \in Nat \ {0} /\ MaxFail \in Nat /\ MaxTrouble \in Nat
    /\ "control" \notin Sockets /\ NoTask \notin Tasks

VARIABLES isStarted, shutdown, pause, apiTask,   \* control_t
          queue, evq,                            \* queue, eventQueue
          fwk,                                   \* the framework's callback
          tpc, job,                              \* pwApiTask and its post
          cbs, httpd,                            \* what is registered, running
          link, ota, relay, rebooting,           \* the other components
          seen,                                  \* what the gateway was told
          quick, muted,                          \* history, see LinkUp, FwUpgradeEnd
          fails, trouble                         \* bounds

flags == <<isStarted, shutdown, pause>>
boxes == <<queue, evq>>
api == <<apiTask, tpc, job>>
served == <<cbs, httpd>>
history == <<quick, muted>>
world == <<link, ota, relay, rebooting, seen, history>>
vars == <<flags, boxes, fwk, api, served, world, fails, trouble>>

Positions == [Sockets -> BOOLEAN]
Position(s, p) == [x \in {s} |-> p]
NoPosition == [x \in {} |-> TRUE]
Events == {Position(s, p) : s \in Sockets, p \in BOOLEAN} \cup {NoPosition}
Callbacks == {"control"} \cup Sockets
Code(c) == [code |-> c, set |-> NoPosition]
Messages == {Code(c) : c \in {"wakeUp", "sendEvent", "shutDown", "pause", "resume"}}
              \cup [code : {"command"}, set : Events]

TypeOK ==
    /\ {isStarted, shutdown, pause, httpd, rebooting, quick, muted} \subseteq BOOLEAN
    /\ apiTask \in Tasks \cup {NoTask}
    /\ queue \in Seq(Messages) /\ Len(queue) <= QSize
    /\ evq \in Seq(Events) /\ Len(evq) <= QSize
    /\ fwk \in {"idle", "delay", "checked", "created", "registered"}
    /\ tpc \in [Tasks -> {"none", "wait", "poll", "status", "drain", "tail",
                          "shutting", "stopping"}]
    /\ job \in [Tasks -> Positions \cup Events]
    /\ cbs \subseteq Callbacks
    /\ link \in {"up", "down"} /\ ota \in {"none", "running"}
    /\ {relay, seen} \subseteq Positions
    /\ fails \in 0..MaxFail /\ trouble \in 0..MaxTrouble

Init ==
    /\ isStarted = FALSE /\ shutdown = FALSE /\ pause = FALSE /\ apiTask = NoTask
    /\ queue = <<>> /\ evq = <<>> /\ fwk = "idle"
    /\ tpc = [t \in Tasks |-> "none"] /\ job = [t \in Tasks |-> NoPosition]
    /\ cbs = {} /\ httpd = FALSE
    /\ link = "down" /\ ota = "none" /\ rebooting = FALSE
    /\ relay = [s \in Sockets |-> FALSE] /\ seen = relay
    /\ quick = FALSE /\ muted = FALSE
    /\ fails = MaxFail /\ trouble = MaxTrouble

\* The positions p after what a post or a command says of some sockets.
With(p, set) == [s \in Sockets |-> IF s \in DOMAIN set THEN set[s] ELSE p[s]]

\* xQueueSend: a message for a full queue is given up after 10 ms.
Put(q, m) == IF Len(q) < QSize THEN Append(q, m) ELSE q

\* sendEvent: the event, then word to the task that there is one.
AfterEvent(b, e) ==
    IF Len(b.evq) = QSize THEN b
    ELSE [evq |-> Append(b.evq, e), queue |-> Put(b.queue, Code("sendEvent"))]

Boxes(q) == [queue |-> q, evq |-> evq]
SetBoxes(b) == queue' = b.queue /\ evq' = b.evq

UseTrouble == trouble > 0 /\ trouble' = trouble - 1
UseFail == fails > 0 /\ fails' = fails - 1

(***************************************************************************)
(* The framework announces the connection.                                 *)
(***************************************************************************)
StopPending == \E i \in 1..Len(queue) : queue[i].code = "shutDown"

\* Got an address, or provisioning done: the 100 ms of appPWApiStart begin.
\* quick: while the task has not yet taken the message that stops it.
LinkUp ==
    /\ fwk = "idle"
    /\ link = "up" => trouble > 0       \* a new address for the same link
    /\ quick' = (StopPending \/ \E t \in Tasks : tpc[t] = "shutting")
    /\ trouble' = IF link = "up" THEN trouble - 1 ELSE trouble
    /\ link' = "up" /\ fwk' = "delay"
    /\ UNCHANGED <<flags, boxes, api, served, ota, relay, rebooting, seen, muted, fails>>

StartIsStarted ==
    /\ fwk = "delay"
    /\ fwk' = IF isStarted THEN "idle" ELSE "checked"
    /\ UNCHANGED <<flags, boxes, api, served, world, fails, trouble>>

\* "Race condition ...": the task is still at its clean-up.  csControlReboot's
\* result is not looked at.
StartRefused ==
    /\ fwk = "checked" /\ shutdown /\ fwk' = "idle"
    /\ \/ rebooting' = TRUE /\ UNCHANGED fails
       \/ UseFail /\ UNCHANGED rebooting
    /\ UNCHANGED <<flags, boxes, api, served, link, ota, relay, seen, history, trouble>>

\* Mutant: the pause of the shut-down stays.
StartTaskPaused ==
    /\ fwk = "checked" /\ ~shutdown
    /\ \E t \in Tasks :
          /\ tpc[t] = "none"
          /\ tpc' = [tpc EXCEPT ![t] = "poll"] /\ job' = [job EXCEPT ![t] = relay]
          /\ apiTask' = t /\ fwk' = "created"
    /\ UNCHANGED <<flags, boxes, served, world, fails, trouble>>

StartTask ==
    /\ fwk = "checked" /\ ~shutdown
    /\ pause' = FALSE /\ muted' = FALSE
    /\ \/ \E t \in Tasks :
            /\ tpc[t] = "none"
            /\ tpc' = [tpc EXCEPT ![t] = "poll"] /\ job' = [job EXCEPT ![t] = relay]
            /\ apiTask' = t /\ fwk' = "created" /\ UNCHANGED fails
       \/ /\ \/ (\A t \in Tasks : tpc[t] # "none") /\ UNCHANGED fails
             \/ UseFail
          /\ fwk' = "idle" /\ UNCHANGED api
    /\ UNCHANGED <<isStarted, shutdown, boxes, served, link, ota, relay, rebooting, seen, quick,
                   trouble>>

\* Control event first, then the sockets.  A second registration of the same
\* function is an error.
StartRegister ==
    /\ fwk = "created" /\ cbs = {}
    /\ cbs' = Callbacks /\ fwk' = "registered"
    /\ UNCHANGED <<flags, boxes, api, httpd, world, fails, trouble>>

DeleteApiTask == tpc' = [tpc EXCEPT ![apiTask] = "none"] /\ UNCHANGED <<apiTask, job>>

\* Every return takes back the registrations made before, but only the first
\* one, that for the control event, deletes the task.  What is left over from
\* before holds the control's registration, if anything.
StartNotRegistered ==
    /\ fwk = "created" /\ fwk' = "idle"
    /\ \/ cbs # {} /\ DeleteApiTask /\ UNCHANGED fails
       \/ cbs = {} /\ UseFail /\ DeleteApiTask
       \/ cbs = {} /\ UseFail /\ UNCHANGED api
    /\ UNCHANGED <<flags, boxes, served, world, trouble>>

\* The callbacks stay registered when it fails.
StartHttpd ==
    /\ fwk = "registered" /\ fwk' = "idle"
    /\ \/ httpd' = TRUE /\ isStarted' = TRUE /\ UNCHANGED <<api, fails>>
       \/ UseFail /\ DeleteApiTask /\ UNCHANGED <<httpd, isStarted>>
    /\ UNCHANGED <<shutdown, pause, boxes, cbs, world, trouble>>

\* Mutant: the queue is not emptied first.
LinkDownWaitsItsTurn ==
    /\ fwk = "idle"
    /\ link = "up" => trouble > 0
    /\ trouble' = IF link = "up" THEN trouble - 1 ELSE trouble
    /\ link' = "down"
    /\ queue' = IF ~isStarted \/ shutdown THEN queue ELSE Put(queue, Code("shutDown"))
    /\ UNCHANGED <<flags, evq, fwk, api, served, ota, relay, rebooting, seen, history, fails>>

\* Disconnected, again and again while it tries: appPWApiStop.
LinkDown ==
    /\ fwk = "idle"
    /\ link = "up" => trouble > 0
    /\ trouble' = IF link = "up" THEN trouble - 1 ELSE trouble
    /\ link' = "down"
    /\ queue' = IF ~isStarted \/ shutdown THEN queue ELSE <<Code("shutDown")>>
    /\ UNCHANGED <<flags, evq, fwk, api, served, ota, relay, rebooting, seen, history, fails>>

(***************************************************************************)
(* The task.                                                               *)
(***************************************************************************)
InStart == fwk \in {"checked", "created", "registered"}
Goto(t, l) == tpc' = [tpc EXCEPT ![t] = l] /\ UNCHANGED <<apiTask, job>>
Post(t, l, p) ==
    tpc' = [tpc EXCEPT ![t] = l] /\ job' = [job EXCEPT ![t] = p] /\ UNCHANGED apiTask

\* The meter's processor has switched; its driver calls emtrSocketEvtCb.
Switch(set, q) ==
    /\ relay' = With(relay, set)
    /\ SetBoxes(IF relay' # relay /\ DOMAIN set \subseteq cbs
                  THEN AfterEvent(Boxes(q), set) ELSE Boxes(q))

\* parseMsgCode and parseApiJSON.
Handle(t, m, rest) ==
    \/ /\ ~isStarted                       \* whatever it is, it is dropped
       /\ Goto(t, "tail") /\ queue' = rest /\ UNCHANGED <<evq, flags, relay>>
    \/ /\ isStarted /\ m.code = "sendEvent" /\ queue' = rest
       /\ IF evq = <<>> THEN Goto(t, "tail") /\ UNCHANGED evq
                        ELSE Post(t, "drain", Head(evq)) /\ evq' = Tail(evq)
       /\ UNCHANGED <<flags, relay>>
    \/ /\ isStarted /\ m.code = "wakeUp" /\ queue' = rest
       /\ IF pause THEN Goto(t, "tail") ELSE Post(t, "status", relay)
       /\ UNCHANGED <<evq, flags, relay>>
    \/ /\ isStarted /\ m.code = "shutDown" /\ queue' = rest
       /\ isStarted' = FALSE /\ Goto(t, "shutting")
       /\ UNCHANGED <<evq, shutdown, pause, relay>>
    \/ /\ isStarted /\ m.code = "pause" /\ queue' = rest
       /\ pause' = TRUE /\ Goto(t, "tail")
       /\ UNCHANGED <<evq, isStarted, shutdown, relay>>
    \/ /\ isStarted /\ m.code = "resume" /\ queue' = rest
       /\ pause' = FALSE /\ Post(t, "status", relay)
       /\ UNCHANGED <<evq, isStarted, shutdown, relay>>
    \/ /\ isStarted /\ m.code = "command"
       /\ Switch(m.set, rest) /\ Goto(t, "tail") /\ UNCHANGED flags

TaskReceive(t) ==
    /\ tpc[t] = "wait" /\ queue # <<>>
    /\ Handle(t, Head(queue), Tail(queue))
    /\ UNCHANGED <<fwk, served, link, ota, rebooting, seen, history, fails, trouble>>

\* Another task may read the two flags in between.
TaskShutDown(t) ==
    /\ tpc[t] = "shutting"
    /\ shutdown' = TRUE /\ pause' = TRUE /\ Goto(t, "tail")
    /\ UNCHANGED <<isStarted, boxes, fwk, served, world, fails, trouble>>

\* Quiet for 15 minutes.
TaskPoll(t) ==
    /\ tpc[t] = "wait" /\ queue = <<>> /\ ~shutdown /\ ~pause /\ ~InStart
    /\ Post(t, "poll", relay)
    /\ UNCHANGED <<flags, boxes, fwk, served, world, fails, trouble>>

\* After the post: the next event of the same message, or done with it.
AfterPost(t) ==
    IF tpc[t] = "drain" /\ evq # <<>>
      THEN Post(t, "drain", Head(evq)) /\ evq' = Tail(evq)
      ELSE Goto(t, IF tpc[t] = "poll" THEN "wait" ELSE "tail") /\ UNCHANGED evq

\* The gateway has the post.  Its answer to a status may carry a command.
TaskPosted(t) ==
    /\ tpc[t] \in {"poll", "status", "drain"} /\ link = "up"
    /\ seen' = With(seen, job[t])
    /\ AfterPost(t)
    /\ \/ UNCHANGED <<queue, trouble>>
       \/ /\ tpc[t] # "drain" /\ UseTrouble
          /\ \E e \in Events : queue' = Put(queue, [code |-> "command", set |-> e])
    /\ UNCHANGED <<flags, fwk, served, link, ota, relay, rebooting, history, fails>>

\* No connection, or no answer within 20 seconds.
TaskPostFailed(t) ==
    /\ tpc[t] \in {"poll", "status", "drain"}
    /\ IF link = "down" THEN UNCHANGED trouble ELSE UseTrouble
    /\ AfterPost(t)
    /\ UNCHANGED <<flags, queue, fwk, served, world, fails>>

\* Mutant: the sockets' callbacks stay registered.
TaskTailKeepsSockets(t) ==
    /\ tpc[t] = "tail" /\ ~InStart
    /\ IF shutdown
         THEN /\ Goto(t, "stopping")
              /\ cbs' = Sockets /\ httpd' = FALSE /\ queue' = <<>>
         ELSE Goto(t, "wait") /\ UNCHANGED <<cbs, httpd, queue>>
    /\ UNCHANGED <<flags, evq, fwk, world, fails, trouble>>

\* 50 ms later: shut down, or wait for more.  The clean-up drops the messages
\* but not the events.
TaskTail(t) ==
    /\ tpc[t] = "tail" \/ (tpc[t] = "wait" /\ queue = <<>> /\ shutdown)
    /\ ~InStart
    /\ IF shutdown
         THEN /\ Goto(t, "stopping")
              /\ cbs' = {} /\ httpd' = FALSE /\ queue' = <<>>
         ELSE Goto(t, "wait") /\ UNCHANGED <<cbs, httpd, queue>>
    /\ UNCHANGED <<flags, evq, fwk, world, fails, trouble>>

TaskDelete(t) ==
    /\ tpc[t] = "stopping"
    /\ shutdown' = FALSE /\ Goto(t, "none")
    /\ UNCHANGED <<isStarted, pause, boxes, fwk, served, world, fails, trouble>>

(***************************************************************************)
(* The others: the gateway wakes it, the user switches a socket, the       *)
(* control task updates the firmware and restarts.                         *)
(***************************************************************************)
WakeUp ==
    /\ httpd /\ ~pause /\ link = "up" /\ UseTrouble
    /\ queue' = Put(queue, Code("wakeUp"))
    /\ UNCHANGED <<flags, evq, fwk, api, served, world, fails>>

UserSwitch(s) ==
    /\ UseTrouble
    /\ Switch(Position(s, ~relay[s]), queue)
    /\ UNCHANGED <<flags, fwk, api, served, link, ota, rebooting, seen, history, fails>>

\* sysEventCb, when it is registered.
FwUpgradeStart ==
    /\ ota = "none" /\ ota' = "running" /\ UseTrouble
    /\ LET b == AfterEvent(Boxes(queue), NoPosition)
       IN  SetBoxes(IF "control" \in cbs
                      THEN [b EXCEPT !.queue = Put(@, Code("pause"))] ELSE Boxes(queue))
    /\ UNCHANGED <<flags, fwk, api, served, link, relay, rebooting, seen, history, fails>>

\* Failed or, with a reboot to follow, successful.  muted: the resume found the
\* queue full.
FwUpgradeEnd ==
    /\ ota = "running" /\ ota' = "none"
    /\ rebooting' \in {rebooting, TRUE}
    /\ SetBoxes(IF "control" \in cbs /\ Len(queue) < QSize
                  THEN AfterEvent(Boxes(Put(queue, Code("resume"))), NoPosition)
                  ELSE Boxes(queue))
    /\ muted' = (muted \/ ("control" \in cbs /\ Len(queue) = QSize))
    /\ UNCHANGED <<flags, fwk, api, served, link, relay, seen, quick, fails, trouble>>

\* The meter's processor keeps the sockets as they are.
Restart ==
    /\ rebooting
    /\ isStarted' = FALSE /\ shutdown' = FALSE /\ pause' = FALSE /\ apiTask' = NoTask
    /\ queue' = <<>> /\ evq' = <<>> /\ fwk' = "idle"
    /\ tpc' = [t \in Tasks |-> "none"] /\ job' = [t \in Tasks |-> NoPosition]
    /\ cbs' = {} /\ httpd' = FALSE /\ link' = "down" /\ ota' = "none" /\ rebooting' = FALSE
    /\ quick' = FALSE /\ muted' = FALSE
    /\ UNCHANGED <<relay, seen, fails, trouble>>

Start == StartIsStarted \/ StartRefused \/ StartTask \/ StartRegister
            \/ StartNotRegistered \/ StartHttpd
Task(t) == TaskReceive(t) \/ TaskShutDown(t) \/ TaskPoll(t) \/ TaskPosted(t)
            \/ TaskPostFailed(t) \/ TaskTail(t) \/ TaskDelete(t)
Others == WakeUp \/ (\E s \in Sockets : UserSwitch(s)) \/ FwUpgradeStart

Next == LinkUp \/ LinkDown \/ Start \/ (\E t \in Tasks : Task(t))
            \/ Others \/ FwUpgradeEnd \/ Restart

Spec == Init /\ [][Next]_vars

\* The tasks run, an update ends, a reboot happens; nothing is asked of the
\* connection, the user or the gateway.
FairSpec == Spec /\ WF_vars(Start) /\ (\A t \in Tasks : WF_vars(Task(t)))
                 /\ WF_vars(FwUpgradeEnd) /\ WF_vars(Restart)

(***************************************************************************)
(* What it has to do.                                                      *)
(***************************************************************************)
Alive == {t \in Tasks : tpc[t] # "none"}
Between == shutdown \/ fwk # "idle" \/ \E t \in Tasks : tpc[t] = "shutting"

\* As long as no registration fails and no reboot is lost: while it counts as
\* started, one task reads the queue, the web server runs and all callbacks are
\* registered; while it counts as stopped and nobody is about to change that,
\* none of it is left over, whatever Start and Stop interleaved.  A left-over
\* registration would refuse every later Start.
AllOrNothing ==
    fails = MaxFail =>
      /\ isStarted => cbs = Callbacks /\ httpd /\ \E t \in Tasks : Alive = {t}
      /\ ~isStarted /\ ~Between => cbs = {} /\ ~httpd /\ Alive = {}

\* Disconnected for good, it stops, however full the queue was.
StopsWhenDown == <>[](link = "down") => <>[]~isStarted

\* Connected for good, it is started for good, if need be after the reboot
\* appPWApiStart orders "to recover"; unless that order is lost, or the
\* connection returned while the stop of the loss before was still waiting.
NoFailure == fails = MaxFail
ServedWhenConnected == <>[](link = "up" /\ ~quick /\ NoFailure) => <>[]isStarted

\* Connected for good and with no update under way, the gateway learns the
\* positions of the sockets, whatever events and answers were dropped: it polls,
\* and is not left paused unless the word that the update is over was dropped.
GatewayCatchesUp ==
    <>[](link = "up" /\ ota = "none" /\ ~quick /\ ~muted /\ NoFailure) => <>[](seen = relay)

=============================================================================
