------------------------------ MODULE CsControl ------------------------------
(***************************************************************************)
(* The control task (cs_control.c): one queue for the reboots, signals and *)
(* changes of the connection that every other task posts without waiting   *)
(* for an answer, and the loop that takes one message every 200 ms and then*)
(* looks at two timers: that of the lost connection and that of the        *)
(* firmware update, which it runs itself, for minutes.  The reason of the  *)
(* restart is left in flash for the next start.                            *)
(*                                                                         *)
(* A timer is kept as the time that is left; the loop compares it with the *)
(* time it read when it took the message (due).                            *)
(***************************************************************************)
EXTENDS Naturals, Sequences

CONSTANTS QSize,          \* 8
          WifiTimeout,    \* wifiTimeoutMs, in seconds
          MaxTrouble      \* bound: how often the environment does something

ASSUME ControlAssumption ==
    QSize \in Nat \ {0} /\ WifiTimeout \in Nat \ {0} /\ MaxTrouble \in Nat

VARIABLES queue, pc,          \* the task
          wifi, wifiLeft,     \* wifi.state and .timeOut
          fw,                 \* fwUpdate.failed and .timer
          due,                \* what was due at curTime
          reboot,             \* reboot.reason when its delay is set
          flash, reported,    \* boot_log in flash, lastBootReason
          link,               \* the connection, as announced since the start
          wiped, ordered, clean,          \* history
          asked, begun, trouble           \* history, bound

timers == <<wifi, wifiLeft, fw>>
boot == <<flash, reported>>
resets == <<wiped, ordered, clean>>
updates == <<asked, begun>>
vars == <<queue, pc, timers, due, reboot, boot, link, resets, updates, trouble>>

Reasons == {"command", "fwUpdate", "resetFactory", "recovery"}
Signals == {"resetFactory", "fwUpgrade", "other"}
Reboot(r) == [code |-> "reboot", arg |-> r]
Signal(s) == [code |-> "signal", arg |-> s]
Wifi(w) == [code |-> "wifi", arg |-> w]
Messages == {Reboot(r) : r \in Reasons} \cup {Signal(s) : s \in Signals}
              \cup {Wifi(w) : w \in {"up", "lost"}}
Settings == {"provisioning", "parameters"}

TypeOK ==
    /\ queue \in Seq(Messages) /\ Len(queue) <= QSize
    /\ pc \in {"boot", "loop", "reset", "wiping", "wiped", "checkWifi", "checkFw",
               "ota", "rebooting"}
    /\ wifi \in {"init", "connUp", "connLost"} /\ wifiLeft \in 0..WifiTimeout
    /\ fw \in {"never", "soon", "due", "failed"}
    /\ due \in [wifi : BOOLEAN, fw : BOOLEAN]
    /\ reboot \in Reasons \cup {"none"}
    /\ flash \in Reasons \cup {"none", "crash"}
    /\ reported \in Reasons \cup {"null", "crash", "firstBoot"}
    /\ link \in {"none", "up", "lost"}
    /\ wiped \subseteq Settings /\ ordered \in Reasons \cup {"none"} /\ clean \in BOOLEAN
    /\ {asked, begun} \subseteq Nat
    /\ trouble \in 0..MaxTrouble

Init ==
    /\ queue = <<>> /\ pc = "boot"
    /\ wifi = "init" /\ wifiLeft = 0 /\ fw = "never"
    /\ due = [wifi |-> FALSE, fw |-> FALSE] /\ reboot = "none"
    /\ flash = "none" /\ reported = "null" /\ link = "none"
    /\ wiped = {} /\ ordered = "none" /\ clean = FALSE
    /\ asked = 0 /\ begun = 0 /\ trouble = MaxTrouble

\* sendMsg: nobody looks at the result, a message for a full queue is lost.
Put(q, m) == IF Len(q) < QSize THEN Append(q, m) ELSE q

(***************************************************************************)
(* Start, restart, power failure.                                          *)
(***************************************************************************)
\* Mutant: the reason stays in flash.
BootReasonGetKeeps ==
    /\ pc = "boot" /\ pc' = "loop"
    /\ reported' = IF flash = "none" THEN "firstBoot" ELSE flash
    /\ ordered' = "none" /\ clean' = FALSE /\ wiped' = {}
    /\ UNCHANGED <<queue, timers, due, reboot, flash, link, updates, trouble>>

\* csBootReasonGet, called once from app_main.
BootReasonGet ==
    /\ pc = "boot" /\ pc' = "loop"
    /\ reported' = IF flash = "none" THEN "firstBoot" ELSE flash
    /\ flash' = "crash"
    /\ ordered' = "none" /\ clean' = FALSE /\ wiped' = {}
    /\ UNCHANGED <<queue, timers, due, reboot, link, updates, trouble>>

\* Everything but the flash is lost.
PowerUp ==
    /\ pc' = "boot" /\ queue' = <<>>
    /\ wifi' = "init" /\ wifiLeft' = 0 /\ fw' = "never"
    /\ due' = [wifi |-> FALSE, fw |-> FALSE] /\ reboot' = "none"
    /\ reported' = "null" /\ link' = "none"
    /\ asked' = 0 /\ begun' = 0
    /\ UNCHANGED <<flash, wiped, ordered>>

Crash ==
    /\ trouble > 0 /\ trouble' = trouble - 1
    /\ clean' = FALSE
    /\ PowerUp

\* The head of the loop: csBootReasonSet, notify, vTaskDelay.
RebootBegin ==
    /\ pc = "loop" /\ reboot # "none"
    /\ flash' = reboot /\ ordered' = reboot
    /\ pc' = "rebooting"
    /\ UNCHANGED <<queue, timers, due, reboot, reported, link, wiped, clean, updates, trouble>>

EspRestart ==
    /\ pc = "rebooting"
    /\ clean' = TRUE
    /\ PowerUp /\ UNCHANGED trouble

(***************************************************************************)
(* One turn of the loop.                                                   *)
(***************************************************************************)
Snapshot == due' = [wifi |-> wifiLeft' = 0, fw |-> fw' = "due"]

ReceiveNone ==
    /\ pc = "loop" /\ reboot = "none" /\ queue = <<>>
    /\ pc' = "checkWifi"
    /\ UNCHANGED <<queue, timers, reboot, boot, link, resets, updates, trouble>>
    /\ Snapshot

\* Mutants: every loss starts the timer again; a reboot is not accepted while
\* an update is scheduled.
HandleMsgRestartsTimer(m) ==
    \/ m.code = "reboot" /\ reboot' = m.arg /\ pc' = "checkWifi" /\ UNCHANGED timers
    \/ m.code = "wifi" /\ pc' = "checkWifi" /\ UNCHANGED <<reboot, fw>>
         /\ wifi' = (IF m.arg = "up" THEN "connUp" ELSE "connLost")
         /\ wifiLeft' = (IF m.arg = "up" THEN 0 ELSE WifiTimeout)
    \/ m.code = "signal" /\ pc' = "checkWifi" /\ UNCHANGED <<reboot, timers>>

HandleMsgUpdateFirst(m) ==
    \/ m.code = "reboot" /\ pc' = "checkWifi" /\ UNCHANGED timers
         /\ reboot' = IF fw = "never" THEN m.arg ELSE reboot
    \/ m = Signal("fwUpgrade") /\ fw' = "soon" /\ pc' = "checkWifi"
         /\ UNCHANGED <<reboot, wifi, wifiLeft>>
    \/ m.code # "reboot" /\ m # Signal("fwUpgrade") /\ pc' = "checkWifi"
         /\ UNCHANGED <<reboot, timers>>

\* handleMsg and handleSignal up to their first delay.
HandleMsg(m) ==
    \/ m.code = "reboot" /\ reboot' = m.arg /\ pc' = "checkWifi" /\ UNCHANGED timers
    \/ m = Wifi("up") /\ wifi' = "connUp" /\ wifiLeft' = 0 /\ pc' = "checkWifi"
         /\ UNCHANGED <<reboot, fw>>
    \/ m = Wifi("lost") /\ pc' = "checkWifi" /\ UNCHANGED <<reboot, fw>>
         /\ IF wifi = "connUp" THEN wifi' = "connLost" /\ wifiLeft' = WifiTimeout
                               ELSE UNCHANGED <<wifi, wifiLeft>>
    \/ m = Signal("fwUpgrade") /\ fw' = "soon" /\ pc' = "checkWifi"
         /\ UNCHANGED <<reboot, wifi, wifiLeft>>
    \/ m = Signal("resetFactory") /\ pc' = "reset" /\ UNCHANGED <<reboot, timers>>
    \/ m = Signal("other") /\ pc' = "checkWifi" /\ UNCHANGED <<reboot, timers>>

Receive ==
    /\ pc = "loop" /\ reboot = "none" /\ queue # <<>>
    /\ queue' = Tail(queue)
    /\ HandleMsg(Head(queue))
    /\ Snapshot
    /\ asked' = IF Head(queue) = Signal("fwUpgrade") THEN asked + 1 ELSE asked
    /\ UNCHANGED <<boot, link, resets, begun, trouble>>

\* resetFactory, whose two halves a power failure can separate.
EraseProvisioning ==
    /\ pc = "reset" /\ pc' = "wiping"
    /\ wiped' = wiped \cup {"provisioning"}
    /\ UNCHANGED <<queue, timers, due, reboot, boot, link, ordered, clean, updates, trouble>>

\* paramMgrReset does nothing if its mutex is not to be had within 100 ms; the
\* result is ignored.
ResetParameters ==
    /\ pc = "wiping" /\ pc' = "wiped"
    /\ wiped' \in {wiped, wiped \cup {"parameters"}}
    /\ UNCHANGED <<queue, timers, due, reboot, boot, link, ordered, clean, updates, trouble>>

ResetReboot ==
    /\ pc = "wiped" /\ pc' = "checkWifi"
    /\ queue' = Put(queue, Reboot("resetFactory"))
    /\ UNCHANGED <<timers, due, reboot, boot, link, resets, updates, trouble>>

CheckWifi ==
    /\ pc = "checkWifi" /\ pc' = "checkFw"
    /\ queue' = IF wifi = "connLost" /\ due.wifi THEN Put(queue, Reboot("recovery"))
                                                 ELSE queue
    /\ UNCHANGED <<timers, due, reboot, boot, link, resets, updates, trouble>>

CheckFwNone ==
    /\ pc = "checkFw" /\ ~due.fw /\ pc' = "loop"
    /\ UNCHANGED <<queue, timers, due, reboot, boot, link, resets, updates, trouble>>

CheckFwStart ==
    /\ pc = "checkFw" /\ due.fw /\ pc' = "ota"
    /\ begun' = begun + 1
    /\ UNCHANGED <<queue, timers, due, reboot, boot, link, resets, asked, trouble>>

FwSuccess ==
    /\ pc = "ota" /\ link = "up"
    /\ pc' = "loop" /\ fw' = "never"
    /\ queue' = Put(queue, Reboot("fwUpdate"))
    /\ UNCHANGED <<wifi, wifiLeft, due, reboot, boot, link, resets, updates, trouble>>

\* Mutant: failed is not set.
FwFailTriesAgain ==
    /\ pc = "ota" /\ pc' = "loop"
    /\ UNCHANGED <<queue, timers, due, reboot, boot, link, resets, updates, trouble>>

FwFail ==
    /\ pc = "ota" /\ pc' = "loop" /\ fw' = "failed"
    /\ UNCHANGED <<queue, wifi, wifiLeft, due, reboot, boot, link, resets, updates, trouble>>

(***************************************************************************)
(* The others.                                                             *)
(***************************************************************************)
\* A second passes.
Tick ==
    /\ pc # "boot" /\ (wifiLeft > 0 \/ fw = "soon")
    /\ wifiLeft' = IF wifiLeft > 0 THEN wifiLeft - 1 ELSE 0
    /\ fw' = IF fw = "soon" THEN "due" ELSE fw
    /\ UNCHANGED <<queue, pc, wifi, due, reboot, boot, link, resets, updates, trouble>>

\* frwkCallback of a provisioned device: an address.
LinkUp ==
    /\ pc # "boot" /\ link # "up" /\ link' = "up"
    /\ queue' = Put(queue, Wifi("up"))
    /\ UNCHANGED <<pc, timers, due, reboot, boot, resets, updates, trouble>>

LinkLost ==
    /\ pc # "boot" /\ link = "up" /\ link' = "lost"
    /\ trouble > 0 /\ trouble' = trouble - 1
    /\ queue' = Put(queue, Wifi("lost"))
    /\ UNCHANGED <<pc, timers, due, reboot, boot, resets, updates>>

\* The framework tries to connect, and every failure is announced as a loss.
\* Timing assumption: an attempt takes longer than a turn of the loop, except
\* the one with an update.
StillDown ==
    /\ pc # "boot" /\ link # "up"
    /\ pc = "ota" \/ \A i \in 1..Len(queue) : queue[i] # Wifi("lost")
    /\ queue' = Put(queue, Wifi("lost"))
    /\ UNCHANGED <<pc, timers, due, reboot, boot, link, resets, updates, trouble>>

\* csControlReboot and csControlSignal, from the buttons, the gateway's API,
\* the self test and the local update.
Request(m) ==
    /\ pc # "boot" /\ trouble > 0 /\ trouble' = trouble - 1
    /\ queue' = Put(queue, m)
    /\ UNCHANGED <<pc, timers, due, reboot, boot, link, resets, updates>>

Requests == {Reboot("command")} \cup {Signal(s) : s \in Signals}

ControlTask ==
    \/ BootReasonGet \/ RebootBegin \/ EspRestart
    \/ ReceiveNone \/ Receive
    \/ EraseProvisioning \/ ResetParameters \/ ResetReboot
    \/ CheckWifi \/ CheckFwNone \/ CheckFwStart \/ FwSuccess \/ FwFail

Next == ControlTask \/ Tick \/ LinkUp \/ LinkLost \/ StillDown \/ Crash
            \/ \E m \in Requests : Request(m)

Spec == Init /\ [][Next]_vars

\* The task runs, time passes, the framework goes on trying to connect.
FairSpec == Spec /\ WF_vars(ControlTask) /\ WF_vars(Tick) /\ WF_vars(StillDown)

(***************************************************************************)
(* What it has to do.                                                      *)
(***************************************************************************)
\* An update is tried at most once for each request the task took, although the
\* timer stays where it is until the next one.
OneTryPerRequest == begun <= asked

\* What is reported at a start: the reason of the reboot if one was ordered
\* and happened; if the power failed, the ordered reason at most, and never
\* one that was reported before.  A factory reset is reported only when the
\* provisioning was erased.
BootReasonTrue ==
    [][ pc = "boot" /\ pc' = "loop" =>
          /\ clean => reported' = ordered
          /\ reported' \in {ordered, "crash", "firstBoot"}
          /\ reported' = "resetFactory" => "provisioning" \in wiped ]_vars

\* The task waits for the connection to be re-established, or restarts: a
\* connection it has heard of comes back or is forgotten in a restart, which
\* neither further losses nor an update nor a full queue puts off for ever.  (If
\* the full queue drops the first announcement of a connection, the state stays
\* at init and every later loss is ignored: then no restart follows.)
HeardLossIsRepaired == (wifi # "init" /\ link = "lost") ~> link # "lost"

\* A reboot that reached the queue happens.
RebootHappens == [](\A r \in Reasons : (\E i \in 1..Len(queue) : queue[i] = Reboot(r))
                                          => <>(pc = "boot"))

=============================================================================
