------------------------------ MODULE Outlets ------------------------------
(***************************************************************************)
(* The outlets: outlet_mgr.c, which stores the position asked for by the   *)
(* button handler or by the gateway's API and posts it to the meter's      *)
(* driver (EmtrDrv), and the control task's events that pause the driver   *)
(* for an update or a reboot.  The LED of a socket is set by outletMgrInit *)
(* from the stored position and afterwards by the driver's callback.       *)
(*                                                                         *)
(* param is the stored position; that it gets to the flash is the matter   *)
(* of ParamMgr.                                                            *)
(***************************************************************************)
EXTENDS EmtrDrv, FiniteSets

ASSUME SocketsAssumption == IsFiniteSet(Sockets)

VARIABLES param,        \* paramKey_socketNOn
          mpc,          \* app_main: emtrDrvStart done, outletMgrInit, -Start
          cpc, want,    \* the callers of outletMgrSetSocket
          sys,          \* the control task
          early         \* history, see SetSocket

callers == <<cpc, want>>
vars == <<drvVars, param, mpc, callers, sys, early>>

Callers == {"button", "gateway"}

TypeOK ==
    /\ DrvTypeOK
    /\ param \in Relays
    /\ mpc \in {"init", "start", "run"}
    /\ cpc \in [Callers -> {"idle", "stored"}]
    /\ want \in [Callers -> SetMsgs \cup {NoReply}]
    /\ sys \in {"run", "update", "reset", "wiped", "rebooting"}
    /\ early \subseteq Sockets

AllOff == [s \in Sockets |-> FALSE]
Unread == [s \in Sockets |-> "init"]
NoCaller == [c \in Callers |-> "idle"]
NoWant == [c \in Callers |-> NoReply]

\* emtrDrvStart of a meter whose firmware is current: the poll timer runs and the
\* task begins with a read.
Init ==
    /\ queue = <<>> /\ timer = TRUE
    /\ tpc = "try" /\ cmd = Simple("first") /\ tries = 0 /\ heard = FALSE
    /\ factory = FALSE /\ newState = Unread /\ curState = Unread
    /\ pause = FALSE /\ pollSampleCt = 0 /\ rx = <<>> /\ late = NoReply
    /\ relay = AllOff /\ cbs = {} /\ led = AllOff
    /\ doubt = {} /\ deaf = FALSE /\ ordered = FALSE
    /\ param \in Relays
    /\ mpc = "init" /\ cpc = NoCaller /\ want = NoWant
    /\ sys = "run" /\ early = {} /\ trouble = MaxTrouble

Driver ==
    /\ TimerCallback \/ CtrlTask \/ FactoryPressed \/ LateAnswer
    /\ UNCHANGED <<param, mpc, callers, sys, early>>

(***************************************************************************)
(* Start.                                                                  *)
(***************************************************************************)
\* The requests of outletMgrInit, one for each socket.
StoredSets == {q \in [1..Cardinality(Sockets) -> SetMsgs] :
                 /\ \A i, j \in DOMAIN q : i # j => q[i].sock # q[j].sock
                 /\ \A i \in DOMAIN q : q[i].on = param[q[i].sock]}

\* Mutants: the LED is left to the callback; only the LED is set.
OutletMgrInitDark ==
    /\ mpc = "init" /\ mpc' = "start"
    /\ Len(queue) + Cardinality(Sockets) <= QSize
    /\ \E q \in StoredSets : queue' = queue \o q
    /\ UNCHANGED <<led, timer, task, states, polling, line, relay, cbs, doubt, deaf, ordered,
                   trouble, param, callers, sys, early>>

OutletMgrInitLed ==
    /\ mpc = "init" /\ mpc' = "start"
    /\ led' = param
    /\ UNCHANGED <<queue, timer, task, states, polling, line, relay, cbs, doubt, deaf,
                   ordered, trouble, param, callers, sys, early>>

OutletMgrInit ==
    /\ mpc = "init" /\ mpc' = "start"
    /\ Len(queue) + Cardinality(Sockets) <= QSize
    /\ \E q \in StoredSets : queue' = queue \o q
    /\ led' = param
    /\ UNCHANGED <<timer, task, states, polling, line, relay, cbs, doubt, deaf, ordered,
                   trouble, param, callers, sys, early>>

OutletMgrStart ==
    /\ mpc = "start" /\ mpc' = "run"
    /\ cbs' = Sockets
    /\ UNCHANGED <<queue, timer, task, states, polling, line, relay, led, doubt, deaf, ordered,
                   trouble, param, callers, sys, early>>

(***************************************************************************)
(* outletMgrSetSocket, called by two tasks: the position is stored, then   *)
(* posted to the driver.  Nobody has registered to be told of it.          *)
(***************************************************************************)
\* A double tap asks for the opposite of emtrDrvIsSocketOn.
Asked(c, s) == IF c = "button" THEN {curState[s] # "on"} ELSE BOOLEAN

\* Another caller is between the two steps for the same socket.
Overlaps(c, s) == \E d \in Callers \ {c} : cpc[d] = "stored" /\ want[d].sock = s

\* paramMgrSetBool fails if it does not get its mutex; its result is not looked
\* at and the request posted all the same.
\* early: the driver has not yet seen the socket as outletMgrInit set its LED.
SetSocket(c) ==
    /\ mpc = "run" /\ cpc[c] = "idle" /\ UseTrouble
    /\ \E s \in Sockets : \E on \in Asked(c, s) :
          /\ param' \in {param, [param EXCEPT ![s] = on]}
          /\ want' = [want EXCEPT ![c] = SetMsg(s, on)]
          /\ doubt' = IF Overlaps(c, s) \/ param'[s] # on THEN doubt \cup {s} ELSE doubt
          /\ early' = IF curState[s] = (IF led[s] THEN "on" ELSE "off") THEN early
                                                                      ELSE early \cup {s}
    /\ cpc' = [cpc EXCEPT ![c] = "stored"]
    /\ UNCHANGED <<queue, timer, task, states, polling, line, relay, shown, deaf, ordered,
                   mpc, sys>>

\* emtrDrvSetSocket: waits up to 100 ms for room; its result is not looked at.
PostSocket(c) ==
    /\ cpc[c] = "stored"
    /\ cpc' = [cpc EXCEPT ![c] = "idle"] /\ want' = [want EXCEPT ![c] = NoReply]
    /\ queue' = Put(queue, want[c])
    /\ doubt' = IF Len(queue) = QSize THEN doubt \cup {want[c].sock} ELSE doubt
    /\ UNCHANGED <<timer, task, states, polling, line, relay, shown, deaf, ordered, trouble,
                   param, mpc, sys, early>>

(***************************************************************************)
(* The control task and sysEventCb, whose messages do not wait for room.   *)
(***************************************************************************)
Notify(c, state) ==
    /\ queue' = Put(queue, Simple(c)) /\ sys' = state
    /\ UNCHANGED <<timer, task, states, polling, line, relay, shown, doubt, deaf, ordered,
                   param, mpc, callers, early>>

FwUpgradeStart == sys = "run" /\ UseTrouble /\ Notify("pause", "update")
FwUpgradeFail == sys = "update" /\ Notify("resume", "run") /\ UNCHANGED trouble

\* The center button is held for a reboot: a pause that only a restart ends.
RebootArmed == sys = "run" /\ UseTrouble /\ Notify("pause", "run")

\* A reboot that somebody ordered, or that ends an update or a factory reset.
Rebooting ==
    \/ sys = "run" /\ UseTrouble /\ Notify("pause", "rebooting")
    \/ sys \in {"update", "wiped"} /\ Notify("pause", "rebooting") /\ UNCHANGED trouble

\* csControlReboot finds the queue of the control task full.
RebootLost ==
    /\ sys \in {"update", "wiped"} /\ sys' = "run" /\ UseTrouble
    /\ UNCHANGED <<queue, timer, task, states, polling, line, relay, shown, doubt, deaf,
                   ordered, param, mpc, callers, early>>

\* A factory reset, ordered by the driver, by the gateway, by the center button
\* or at the start by the framework, begins with its announcement ...
ResetFactory ==
    /\ sys = "run" /\ Notify("pause", "reset")
    /\ UseTrouble \/ (ordered /\ UNCHANGED trouble)

\* ... and resets the parameters, or not if their mutex was not to be had; of
\* the relays nothing is asked before the restart.
ResetParameters ==
    /\ sys = "reset" /\ sys' = "wiped"
    /\ param' \in {param, AllOff}
    /\ doubt' = IF mpc = "init" THEN doubt
                               ELSE doubt \cup {s \in Sockets : param'[s] # param[s]}
    /\ UNCHANGED <<queue, timer, task, states, polling, line, relay, shown, deaf, ordered,
                   trouble, mpc, callers, early>>

\* A restart, ordered or by a power failure; emtrDrvInit resets the meter, which
\* may switch off.
Restart ==
    /\ sys = "rebooting" \/ trouble > 0
    /\ trouble' = IF sys = "rebooting" THEN trouble ELSE trouble - 1
    /\ queue' = <<>> /\ timer' = TRUE
    /\ tpc' = "try" /\ cmd' = Simple("first") /\ tries' = 0 /\ heard' = FALSE
    /\ factory' = FALSE /\ newState' = Unread /\ curState' = Unread
    /\ pause' = FALSE /\ pollSampleCt' = 0 /\ rx' = <<>> /\ late' = NoReply
    /\ relay' \in {relay, AllOff} /\ cbs' = {} /\ led' = AllOff
    /\ doubt' = {} /\ deaf' = FALSE /\ ordered' = FALSE
    /\ mpc' = "init" /\ cpc' = NoCaller /\ want' = NoWant
    /\ sys' = "run" /\ early' = {}
    /\ UNCHANGED param

Main == OutletMgrInit \/ OutletMgrStart
Requests == FwUpgradeStart \/ RebootArmed \/ ResetFactory
Control == FwUpgradeFail \/ Rebooting \/ RebootLost \/ ResetParameters

GoesOn == sys # "run" /\ (Control \/ (sys = "rebooting" /\ Restart))

Next == Driver \/ Main \/ (\E c \in Callers : SetSocket(c) \/ PostSocket(c))
          \/ Requests \/ Control \/ Restart

Spec == Init /\ [][Next]_vars

\* What the driver leaves alone.
Elsewhere == <<param, mpc, callers, sys, early>>

\* The tasks and the timer run, a late answer comes, an update or a reset that
\* was begun ends and the reboot that was announced happens; nothing is asked of
\* the callers, nor that a factory reset ordered by the driver is heard.  Of the
\* task and the timer one may wait for the other, and the rest is done after
\* finitely many steps: their fairness together is enough.
FairSpec ==
    /\ Spec
    /\ WF_vars((CtrlTask \/ TimerCallback) /\ UNCHANGED Elsewhere)
    /\ WF_vars(LateAnswer /\ UNCHANGED Elsewhere)
    /\ WF_vars(Main \/ GoesOn \/ \E c \in Callers : PostSocket(c))

(***************************************************************************)
(* What it has to do.                                                      *)
(***************************************************************************)
\* There is exactly one poll about, in the timer, in the queue or in the task,
\* and none after the factory reset was ordered or the timer found the queue full.
Polls == {i \in 1..Len(queue) : queue[i].code = "timer"}
Polling == cmd.code \in {"status", "power"}
OnePoll ==
    /\ \A i, j \in Polls : i = j
    /\ timer => Polls = {} /\ ~Polling
    /\ Polling => Polls = {}
    /\ (~timer /\ Polls = {} /\ ~Polling) <=> (deaf \/ ordered)

\* A socket of which no request is under way is as stored, whatever commands
\* were repeated, whatever answers came late and whatever was paused, updated or
\* reset meanwhile; except (doubt) where two callers overlapped, the position was
\* not stored, a factory reset changed it, a request found the queue full or all
\* its tries failed, the meter was reset or a late answer was taken for that of a
\* later command.
Quiet(s) ==
    /\ mpc # "init"
    /\ \A m \in {queue[i] : i \in 1..Len(queue)} \cup {cmd} \cup {want[c] : c \in Callers} :
          m.code = "set" => m.sock # s
StoredAgrees == \A s \in Sockets : s \notin doubt /\ Quiet(s) => relay[s] = param[s]

\* While the driver polls and is not left paused, the LED ends up as the socket,
\* unless (early) a request came before the first poll after the start.  It is
\* left paused where a reboot was armed and never came, and where the message to
\* resume, or that to reboot, found a full queue.
LedCatchesUp ==
    \A s \in Sockets :
      <>[](~deaf /\ ~ordered /\ ~pause /\ s \notin doubt \cup early)
         => <>[](led[s] = relay[s])

\* With all requests handled, a stored position is reached, through restarts too.
StoredIsReached ==
    \A s \in Sockets : <>[](s \notin doubt /\ sys = "run") => <>[](relay[s] = param[s])

=============================================================================
