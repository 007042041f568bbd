# PW240: a verification of the smart switch's firmware in TLA+

The repository holds the firmware of a 240 V switch with two outlets, an ESP32,
a CAP1298 touch sensor, an energy meter with a processor of its own, and a
long-range Wi-Fi uplink to a gateway. The application is `src/pw240_fw`; the
other directories are production test programs, earlier versions of the same
sources and binary images. This directory models the parts of the application in
which tasks, callbacks, radio events, serial lines and power failures meet,
checks them with TLC and proves the safety of ten of its modules with TLAPS.

Paths below are relative to `src/pw240_fw`.

## 1. Inventory

Every task is a FreeRTOS task of its own; callbacks run in the task that
notifies.

| Component (source) | State | Operations | Talks to | What is hard | What makes it correct |
|---|---|---|---|---|---|
| Touch driver (`components/app_driver/cap1298_drv.c`) | debounce state machine, calibration wait | poll every 25 ms, calibrate | I2C chip; callback to the handler; `cap1298DrvCalibrate` from other tasks | failed reads, a counter written by two tasks without a lock | reports alternate, every release is reported, a requested calibration starts |
| Button handler (`components/app_platform/cap1298_handler.c`) | queue, taps, active button, reset state, press time | `capCallback`, task turn: timers, then one message | driver, LEDs, control task, outlet manager, parameters | a full queue, a snapshot of the time older than the message, sleeping for the LED, 32-bit milliseconds | reboot, reset and toggle only on their gestures |
| Provisioning (`core_components/cs-lr-prov/cs_lr_prov.c`, `provision/cs_prov_support.c`) | event ring, last event, static previous state, blacklist, SSID; record in flash | scan, connect, register, store, restart | radio, framework, gateway API, flash | two tasks put events, crash between two writes, late events, overlapping attempts, memory freed before the callback is removed | record consistent and final, some gateway is found, a lost link comes back |
| Wi-Fi framework (`cs-core/cs_framework.c`) | connection, callbacks | handlers of radio events, reconnection | radio, all who register a callback | order of the events and of two reads of the record | reconnects |
| Event callbacks (`cs-core/event_callback.c`) | linked list, mutex | register, unregister, notify | all components | callbacks run under the mutex and register with other tables | every registered function called once, a removed one never; nobody waits for ever |
| Control task (`cs-core/cs_control.c`) | queue, Wi-Fi state, reboot, firmware update, boot reason | messages, periodic checks, reboot, factory reset | framework, parameters, gateway API | dropped messages, losses announced again and again, a reason in flash | a lost connection it has heard of comes back or ends in a reboot, the reason is true |
| Parameter manager (`cs-core/param_mgr.c`) | RAM copy, flash copy, changed flags, timer | setters, timer, writing task, reset, load | flash; everybody's settings | the flag is read without the mutex; power failure between steps | no pending write is forgotten, a reset of the scalars lasts |
| Gateway API (`components/app_pw_api/app_pw_api.c`) | started, paused, stopping, two queues, callbacks | start, stop, post, wake-up, pause | HTTP to the gateway, control events, outlets | a start while the task stops, messages lost at a full queue, failed registrations | all there or nothing; the gateway learns the positions |
| Outlet manager (`components/app_platform/outlet_mgr.c`) | stored position, LED | init, start, set | meter driver, parameters, LEDs | two callers between store and post, a setter that fails; a restart with relays as they were | the socket ends in the stored position, its LED shows it |
| Meter driver (`components/app_driver/emtr_drv.c`) | command queue, poll timer, states, pause | poll, set, pause; start and upgrade of the meter's firmware | serial line to the meter's processor | late and lost answers, a reset of the meter in the third try, a full queue, the first read next to the upgrade | one poll at a time; the version reported is the meter's |
| XMODEM (`xmodem/xmodem_snd.c`) | block, tries | open, send, close | serial line | late acknowledgements, a block number of eight bits | what arrives is the image, in order |
| Event log, time, manufacturing data, start-up (`cs-core/cs_events.c`, `time_mgr.c`, `mfg_data.c`, `cs_core.c`) | small | straight-line | | | |
| Application control, LEDs (`main/app_control.c`, `led_mgr.c`, `app_led_drv.c`) | LED patterns | reactions to events | control, framework, LEDs | who sets an LED when | |
| Firmware update (`fw_update/`) | OTA state | HTTP update, roll-back, local update | HTTP, boot partitions | restart after an error | |
| Self test, utilities | | console commands, formatting | | | |

`PROJECT.json` lists every component with its status, and under `hazards` what
of this code is hard to test, each at its line, with the properties that cover
it or the reason why none does.

## 2. Modules

```
ButtonStream <--refines-- Cap1298Drv        ProvEvtQueSpec <--refines-- ProvEvtQue
                              |                     ^
                     (same button stream)           | INSTANCE (AfterPut, AfterGet)
                              v                     |
                       Cap1298Handler            LrProv     ParamMgr  CsControl  PwApi

EmtrDrv <--extends-- Outlets                     EventRegistry <--refines-- EventCallback

XmTransfer <--refines-- EmtrUpgrade --extends--> XmSend

*_proofs extend Cap1298Drv, Cap1298Handler, ParamMgr, PwApi, Outlets, EmtrUpgrade
and LrProv; the last also extends ProvEvtQue and holds its proofs. CsCore_proofs
extends EventCallback and CsControl and holds the proofs of both
```

The modules take their sizes, times and sets as CONSTANTS with named
assumptions, so that one text is checked for small values and proved for all.
The configuration files instantiate the modules directly; no run needs more than
model values and numbers, so there are no separate MC modules.
Definitions whose comment starts with "Mutant" are what plausible slips in the
code would make of the definition next to them; no specification uses them.
They show that each property can be broken.

Where two components meet, one module has both: the handlers of the framework
and the provisioning task in `LrProv`, outlet manager, driver and the control
task's pauses in `Outlets`, the start-up task, the driver's task and the sender
in `EmtrUpgrade`, five tasks and three tables in `EventCallback`. Where the
product would be too large, the interface is a specification of its own, which
one side refines and the other assumes: the button stream between driver and
handler, the queue between `setProvState` and `provTask`.

### Cap1298Drv, with ButtonStream

| TLA+ | code |
|---|---|
| `pads` | the fingers on the chip's electrodes (environment) |
| `smState`, `currSensorId`, `debounceCt`, `smTimerMs`, `calTimeMs` | the members of `taskCtrl_t`; times in polls |
| `pollDelay` | `pollDelayMs`: 25 ms, or 100 ms after a failed read |
| `Wake`, `CalDecrement`, `CalZero`, `Calibrate` | one turn of `ctrlTask` up to the read, `calibrate` split at the accesses of `calTimeMs` |
| `CalibrateRequest` | `cap1298DrvCalibrate`, at any moment |
| `ReadOk` with `SmIdle`, `SmPress`, `SmRelease`; `ReadError` | the I2C read and `stateMachineUpdate` |
| `held`, `calRequested` | history: the button reported pressed; a request not yet served |

`CalDecrement` is a read and a write that another task may separate: the
assignment takes either the value read by the check before or the present one.
`ButtonStream` is what the driver promises its callback: one button at a time,
pressed and then released. `AlternatesPerButton` is that the driver implements
it.

### Cap1298Handler

`DriverPress` and `DriverRelease` are calls of `capCallback` by a driver that
behaves as `ButtonStream`; the queue of `QSize` messages may drop one. A turn of
`capControlTask` is `Poll` (take a message, snapshot the time, `checkTimers`),
perhaps `Flash` (the second that `setLedFlashStatus` sleeps), and `Handle`
(`handlePress`, `handleRelease`). The time of the press and the snapshot are
kept as differences from the uptime (`sincePress`, `lag`), modulo `TimeMod`;
the code subtracts 32-bit numbers, so these differences are all it ever uses.
Timing assumption: the task, polling every 50 ms, empties its queue in less
than a tick of one second (`Tick`'s guard), except in the second in which it
sleeps. `heldFor`, `tapsOf` and `dropped` are history and so are the fields
`taps` and `held` of a message: the finger's own view, with which the
properties compare what the task did. `HandlerAssumption` has the hold time of
a reboot not exceed that of a factory reset (5 and 15 seconds in the code).

### ProvEvtQue, with ProvEvtQueSpec

`ProvEvtQue` is `provEvtQue_t` with its put and get indices modulo `SIZE`, one
atomic action per call, `provEvtPut(e)` and `provEvtGet` (the mutex is held
throughout); the rest of its behaviour is `RingInit`, `RingNext`, `RingSpec`. The last event stays in
the ring and is read again by every later get; a put into a full ring overwrites
the oldest event, which is then read before the others. `ProvEvtQueSpec` states
just that on a sequence, and the refinement (`ImplementsQueue`) justifies that
`LrProv` uses the sequence.

### LrProv

| TLA+ | code |
|---|---|
| `nvsState`, `nvsSsid` | the record of `cs_prov_support.c` in flash |
| `sta`, `conf`, `ap`, `loop` | the radio, its configured SSID, and the events it posts (environment) |
| `sysPc`, actions `Sys...` | `handleEventWiFi`, `handleEventIp` in the system event task, split where another task can see or change what they read |
| `announced`, `wifi` | the last connection event notified; `wifi.state` of the control task |
| `pc`, `last`, `wifiData`, `blacklist`, actions `Prov...` | `provTask`, `startNetworkScan`, `post_to_register` |
| `prvState`, `pending`, `noted`, `que` | `setProvState`: its static variable; what a call is about to put, and whether it has set the variable; the ring |
| `ProvFree`, `PutFreed` | the task frees the ring before it unregisters; a put that meets the freed ring is lost or crashes the program |
| `accepted`, `trouble` | history: which gateways answered 200; bound |
| `Crash`, `RecoveryReboot` | power loss; the reboot the control task orders for a lost connection |

`setProvState` compares and then sets a static variable without a lock and puts
the event under one, from two tasks: `SetProvState`, `Note` and `Put` are
separate steps, so that the other task's call may fall between any two.
`eventNotify` holds its table while it calls the callbacks, hence the guards
`SysMayNotify` and `ProvMayNotify`.

Timing assumptions, each named in the module: the event task, of high priority,
finishes what it does within the pauses of the provisioning task: a put it has
begun within the 100 ms between two reads of the ring (`ProvGet`), a handler
within the one or five seconds before a restart or a scan (`EventsHandled`); a
blacklist entry's minute outlasts the attempts at the other gateways unless they
go wrong (`BlacklistExpires` costs a unit of trouble then). The control task's
queue is not modelled: it learns of a connection at the notification.

### ParamMgr

One table of parameters `1..N`, of which `Strings` are of type string. A setter
(`Set`) is atomic: it holds the mutex. Loading and resetting hold the mutex over
many flash accesses and are one step per parameter (`Load`, `ResetErase`,
`ResetInit`), so that power can fail between any two. `nvTask` is `Take`, `Look`
(reads the flag without the mutex) and `Write`. A flash write may fail (`failed`),
and so may the start of the timer (`Arm`; `unarmed` is the history of the
parameters it failed for while no timer ran). `Restart` keeps only the flash.

### CsControl

| TLA+ | code |
|---|---|
| `queue`, `Put` | the queue of eight; `sendMsg`, whose failure callers ignore |
| `pc` | where the loop of `controlTask` is: at its head, in a factory reset, at the two checks, in an update, waiting to restart |
| `wifi`, `wifiLeft` | `wifi.state`; the seconds until `wifi.timeOut` |
| `fw` | `fwUpdate.timer` and `failed`: never, in a second, due, failed |
| `due` | what the time read at the head of the turn says of the two timers |
| `reboot`, `flash`, `reported` | the scheduled reboot, the boot log in flash, what `csBootReasonGet` answered |
| `link`, `LinkUp`, `LinkLost`, `StillDown` | the connection as announced since the start (none yet, up, lost) and its announcement by the framework, in its own task |
| `Request` | `csControlReboot`, `csControlSignal` and the other calls that post a message |
| `EraseProvisioning`, `ResetParameters` | `resetFactory`; the second may fail to get its mutex, which the code ignores |
| `wiped`, `ordered`, `clean`, `asked`, `begun` | history: what the reset before this start has erased; the reason ordered; no power failure since; updates asked for, begun |

An update is one step of `appPWApiOTA`, which succeeds with a connection and may
fail always; the queue fills and time passes while `pc = "ota"`. Timing
assumption (`StillDown`): an attempt to connect takes longer than a turn of the
loop, so that losses do not crowd the queue, except while an update blocks the
task. A power failure (`Crash`) may fall anywhere and keeps the flash only.

### PwApi

| TLA+ | code |
|---|---|
| `isStarted`, `shutdown`, `pause`, `apiTask`, `queue`, `evq` | the members of `control_t` |
| `fwk`, actions `Start...` | `appPWApiStart`, split where the task can see or change what it reads |
| `LinkUp`, `LinkDown` | `frwkCallback` of `app_control.c`; `LinkDown` is all of `appPWApiStop` |
| `tpc`, `job`, actions `Task...` | `pwApiTask` of each task alive and the post it is in |
| `Handle` | `parseMsgCode` and `parseApiJSON` |
| `cbs`, `httpd` | the registered callbacks, the web server |
| `relay`, `Switch` | the sockets, kept by the meter's processor; `emtrSocketEvtCb` |
| `FwUpgradeStart`, `FwUpgradeEnd` | `sysEventCb` |
| `seen` | history: the positions the gateway was told |
| `quick`, `muted` | history: the connection returned before the task took the message that stops it; the word that an update is over found the queue full |

A post takes as long as it likes (20 seconds in the code) and may fail. Timing
assumption (`InStart`): what `appPWApiStart` does after its 100 ms is done
within the 50 ms for which the task waits after a message, so the task's
clean-up does not fall into it. The reboot that `appPWApiStart` orders "to recover"
may be lost at the control task's full queue (`StartRefused`).

### Outlets, with EmtrDrv

| TLA+ | code |
|---|---|
| `queue`, `timer` | the driver's queue; whether its one-shot poll timer is armed |
| `tpc`, `cmd`, `tries`, actions `TaskReceive`, `Try...` | `ctrlTask` and `doCommand`: a command has three tries, the last after a reset of the meter |
| `newState`, `curState`, `CheckChangeOfState` | the relay states read last, and those the callbacks were told |
| `pause`, `pollSampleCt` | pause and the poll in ten that also reads the power |
| `rx`, `late`, `LateAnswer` | the receive FIFO, flushed between tries and not before the first; an answer on its way |
| `relay` | the meter's relays (external) |
| `FactoryPressed`, `ResetFactory`, `ResetParameters` | the poll that reports the meter's reset button; a factory reset, whoever orders it (meter, gateway, center button, framework), announced and then carried out, or not if the parameters' mutex is not to be had |
| `param`, `cpc`, `want`, `SetSocket`, `PostSocket` | the stored position; the two steps of `outletMgrSetSocket` in each of its callers, button task and gateway task; the store may fail |
| `mpc`, `OutletMgrInit`, `OutletMgrStart` | the part of `main.c` that restores the outlets |
| `sys`, `FwUpgradeStart`, `FwUpgradeFail`, `RebootArmed`, `Rebooting`, `RebootLost` | the control task's events, which `sysEventCb` turns into pause and resume; an armed reboot pauses and nothing resumes, and the message that orders a reboot may be lost |
| `doubt`, `early`, `deaf`, `ordered` | history: the cases in which the properties excuse a socket, no poll to come, a factory reset ordered |

An answer names its kind and not its command, which is how the meter's protocol
has it: the model lets an answer that comes late be taken for that of the next
command of its kind. Reading the power takes several commands in the code and
one in the model.

### EmtrUpgrade, with XmSend and XmTransfer

| TLA+ | code |
|---|---|
| `upc`, `InitBoot`, `InitApp`, `DrvStart`, `Compare`, `UpgradeBoot...`, `StartXmodem`, `Transfer`, `UpgradeApp...` | `emtrDrvInit`, `emtrDrvStart` and `emtrUpgrade`, in the start-up task |
| `UpgradeBoot`, `UpgradeBootAsk`, `UpgradeBootTake`; `UpgradeApp`, `UpgradeAppAsk`, `UpgradeAppTake`; `answer` | `emtrRunModeSet` in the upgrade: the reset, the meter's answer, and the assignment of the mode, between which the first read may reset the meter |
| `ModeSet`, `NoApplication`, `ModeUnknown` | the three outcomes of `emtrRunModeSet` before the driver's task exists: the mode asked for, another one, no answer |
| `fpc`, `FirstRead...` | the read with which the driver's task begins, without the mutex, on the same line |
| `emtrMode`, `fwVersion`, `timer` | the mode and version last read, the poll timer |
| `xpc`, `blk`, `retries` (XmSend) | `csXmSendOpen`, `csXmSendData`, `csXmSendClose` |
| `rx`, `late`, `LateReply` | characters to the sender; the FIFO is flushed at the open only |
| `rstate`, `file`, `meter`, `fw` | the receiver in the meter's boot loader, and what the meter runs (external) |
| `clean`, `raced`, `again` | history: nothing went wrong in this start; the first read took part in the upgrade; replies to repeated blocks |

`XmTransfer` is what a transfer promises: blocks of the image are appended in
order, and a file that ends is whole or is not taken. Block numbers are modulo
`BlockMod`, 256 in the code, where an image has some hundreds of blocks;
`TakesBlock` compares numbers as the receiver has to, so that repeated and next
blocks are told apart only modulo `BlockMod`. A sender runs ahead of the receiver
by a block for each block that was lost while an acknowledgement too many was
read, so the refinement holds while less goes wrong than there are block numbers
(`FewTroubles`, assumed by the proof); with six blocks, numbers modulo 3 and four
disturbances TLC finds the receiver taking the wrong block.

### EventCallback, with EventRegistry

A task is the sequence of instructions it still has to do (`todo`); calling a
function puts the function's instructions before the rest. Tables are linked
lists (`head`, `tail`, `next`, `func`) with a mutex (`owner`); entries are taken
from and returned to a heap. `Body` is what a callback does with tables itself:
`appFrwk` of `app_control.c` starts the gateway's client, which registers with
two other tables. `EventRegistry` is a table as its users see it, a sequence of
functions and the notification under way; the refinement mapping reads it off
the lists. The provisioning task frees what its function works on before it
unregisters it (`ProvFrees`, `prov = "freed"`); what a call then does is in `LrProv`.
`Chain`, the functions from an entry on, is a recursive function so
that it can be reasoned about; the proofs begin with its existence.

## 3. Runs

Deadlock checking is off in the `LrProv`, `PwApi`, `Outlets` and `EventCallback`
runs, because a device with no trouble left (or with all its operations done)
may have nothing more to do, and on in the others. The two runs that do not pass
are there for what they show.

| Run | Question | Bounds and why they are enough |
|---|---|---|
| `cap1298_driver` | Do reports alternate, is every release reported, is every requested calibration started, whatever fails? | three pads (all there are); a debounce of 2, a press timer of 2 and a wait of 3 polls: each counter has a start, a middle and an end; a failed read costs three polls, more than the press timer |
| `cap1298_handler` | Are reboot, reset and toggle asked for only on their gestures; does a press end? | two outlet buttons and center (all there are); a queue of 2 fills and drops; the uptime wraps at 4 with hold times 1 and 2, so wrapping happens within a hold |
| `prov_event_ring` | Does the ring implement the queue? | 3 slots, 3 events: indices wrap at every alignment |
| `provisioning` | Is the record consistent and final, is the right gateway stored; does the device end provisioned and connected; does a provisioned one come back after losses? | three gateways of which two refuse, a blacklist that holds them all, the real ring size, three disturbances; that the ring never fills is not claimed, what a full one does is in `prov_event_ring` |
| `lost_link_stays_lost` | a disagreement with a comment, see below | one disturbance |
| `param_mgr` | Are pending writes carried out, do the copies of a scalar agree, does its reset last? | a scalar and a string, two values: the task can be before, at or behind a parameter |
| `control_task` | Is an update tried unasked, is the boot reason true, is a lost connection the task has heard of repaired, does a queued reboot happen? | a queue of 3, which three requests and the announcements of the connection fill; a time-out of 2 has a middle |
| `gateway_api` | Is the client wholly there or wholly gone; does it stop and run when it has to; does the gateway learn the positions? | two tasks, since one may still clean up when the next is created, or be leaked; queues of 2, which fill; one failure anywhere, three disturbances at any moment |
| `outlets` | Is there one poll at a time; is a socket without a request in the stored position; is a stored position reached in the end, and does the LED show it? | one socket with two callers (the sockets are independent in the code, but for the queue and the meter's reset); a queue of 3 that the poll, a request and a pause fill; a power reading every second poll; three disturbances |
| `meter_upgrade` | Does what arrives at the meter follow the image; is the version true; does a start in which nothing goes wrong, and which the first read does not disturb, repair what an earlier one left? | seven blocks, numbers modulo 6, three tries, four disturbances: numbers repeat, and it is enough to fail a block in a first start, lose the power in a second and have a late reply in a third |
| `meter_not_repaired` | a disagreement with a comment, see below | six blocks, numbers modulo 4 |
| `event_callbacks` | Do the lists implement tables of functions; is a removed function never called; can tasks wait for each other in a circle? | three tables, five tasks, six entries (as many as functions), six operations: all three tables are notified while two registrations and a removal go on |

Several properties speak of fewer disturbances than the run allows: `AtMost(n)`
of `LrProv` and `fails = MaxFail` in `AllOrNothing` select the behaviours in
which at most n, or none, have happened, so that one run answers all questions.
Others excuse named cases by history variables (`quick`, `muted` in `PwApi`;
`doubt`, `early`, `deaf` in `Outlets`; `raced` in `EmtrUpgrade`): each names what
the code leaves open there, and the property says that nothing else goes wrong.
What is excused in this way, and so not shown to go right:

* `dropped`: a message of a button lost at a full queue; a press whose release was
  lost stays until the next one.
* `failed`, `unarmed`: a write the flash refused; a parameter for which the timer
  could not be started while it did not run.
* `fails`: a half-registered client, and a reboot "to recover" that was lost.
* `quick`: a connection back before the task took the stop of the loss before.
  `muted`: the word that an update is over found the queue full.
* `doubt`: two callers overlapping, a position not stored or changed by a factory
  reset, a request that found the queue full or failed in all its tries, a reset
  of the meter, a late answer taken for that of a later command. `pause` in
  `LedCatchesUp`: a driver left paused by a lost resume, a lost reboot or a reboot
  that was armed and not ordered. `deaf`: the poll's own message lost.
* `raced`: a try of the first read failed in the upgrade. An erased meter answers
  no try, so for it the repair is shown only where the read is over before the
  upgrade begins; `meter_not_repaired` shows the other case.
* A wi-fi state still at `init` in `HeardLossIsRepaired`: the first connection was
  not heard of; what follows is among the disagreements below.

`MaxTrouble` bounds how often the environment misbehaves (a failed association, a
lost link, a missing answer, a late one, a crash) and, in `CsControl`, `PwApi` and
`Outlets`, also the requests of users and of the gateway. Without a bound no
liveness property could hold. `MaxFail` bounds the failures of memory and the lost
reboots in `PwApi`, `MaxOps` the operations begun in `EventCallback`.

### What the failing runs show

* `LostLinkRecovers`: when the link is lost after the gateway accepted the
  registration and before `provTask` reads that event, `handleEventWiFi` finds
  the record at `provisioning` and only notifies provStart. The task then stores
  `provisioned`, notifies provDone, which the control task takes for a connection, and
  exits. Nobody connects again; the recovery reboot is not armed.
* `MeterIsProgrammed`: `emtrDrvStart` begins the upgrade while the first read of
  the driver's task is under way on the same line. The read takes the answers of
  the upgrade, or resets the meter with its last try, and the upgrade gives up: a
  meter that a loss of power in an earlier transfer left without an application
  stays without one through a start in which nothing else goes wrong.

Other disagreements between comments and code met while modelling, which no run
shows:

* provDone can be notified after the loss of the connection was
  (`cs_control.c:701`: "Fully connected with IP address and fully provisioned").
* The control task arms the recovery reboot only for a connection it takes for up
  (`cs_control.c:505`, above "Set timer to reboot in 60 seconds if connection is not
  re-established"). When its queue is full at the first announcement of a
  connection, the message is dropped after 10 ms; the state stays at `init`, later
  losses are ignored, and no reboot comes however long the connection is gone.
  `HeardLossIsRepaired` without its condition on `wifi` is violated in this way,
  with four disturbances.
* A connection that came back in time is answered with the recovery reboot when
  its message still waits behind others (`cs_control.c:633`: "It didn't
  recover - force a reboot").
* `appPWApiStart` takes a client that is about to stop for one that runs; its
  check for this race (`app_pw_api.c:203`) only sees a task that is already at its
  clean-up.
* The poll timer is armed again by the end of a poll only ("Schedule the next
  read", `emtr_drv.c:2629`): when its own message finds the queue full, nobody
  reads the meter until the next restart.
* A write that was pending at a factory reset brings the old value of a string
  back: `initParam` stores the default and leaves the RAM copy, and the flag, as
  they were (`param_mgr.c:1057`).
* A factory reset goes on, and is reported, when the parameters' mutex was not to be
  had within 100 ms (`cs_control.c:378`): the provisioning is erased and the settings
  are kept.
* The provisioning task frees its control block before it unregisters its callback
  (`cs_lr_prov.c:301`): an event notified in between works on freed memory.
* A reboot armed by holding the center button pauses the meter's driver
  (`emtr_drv.c:2718`), and nothing resumes it if the reboot is not ordered.
* The default of a string parameter is stored and not loaded into memory on the
  first start (`param_mgr.c:250`).
* The reboot after an update may be lost at a queue that filled meanwhile, or a
  second update begin before it (`cs_control.c:416` and `419`).
* The resume message after an update may be lost at a full queue
  (`app_pw_api.c:910`).

### Fairness

`Cap1298Drv`: the control task is never blocked for ever, and the bus answers
again and again (strong fairness of a successful read). `Cap1298Handler`: the
task is scheduled. `LrProv`: each of the two tasks, the radio's answer to an
attempt, the control task's timer, and the passing of a blacklist entry's minute
once all gateways are blacklisted. Disturbances are never fair. `ParamMgr`: the
holder of the mutex goes on, the timer expires, the task is scheduled; `Write` is
strongly fair, since the mutex is handed to the waiting task although others take
it in between (FreeRTOS wakes the waiter when the mutex is given). `CsControl`:
the task, time, and the framework's attempts to connect, which never stop while
there is no connection; that an attempt succeeds is not assumed. `PwApi`: the
tasks, `appPWApiStart`, the end of an update (its HTTP client times out), an
ordered restart. `Outlets`: the driver's task or the poll timer (one waits for the other), a late answer on
its way, the start-up, a caller that has stored and must post, the end of an
update or of a reset that was begun, and an announced reboot. `EmtrUpgrade`: the start-up task and the driver's,
each of whose waits has a time-out. `EventCallback`: none; being stuck is a state.
Fingers, setters, requests, resets and crashes owe nothing.

## 4. Proofs

For every value of the constants allowed by the named assumptions:

| Theorem | Says | Argument |
|---|---|---|
| `Cap1298Drv_proofs`: `DrvTypeOK`, `SensorMatches` | types; the remembered sensor and the reported button agree with the state machine | the two together are inductive |
| `DriverImplementsStream` | the driver implements `ButtonStream` | each report is made in the state that allows it, by the invariant |
| `Cap1298Handler_proofs`: `HandlerTypeOK`, `HeldButtonKnown`, `GestureStaysConsistent` | types with the queue's bound; no null button under a press; taps and reset state agree | the three together are inductive; the bound of `tapCount` in the type needs the third |
| `ResetIsAGesture`, `ToggleIsADoubleTap` | reboot and factory reset, and toggling, only on their gestures, unless the full queue dropped a message | while no message was dropped, each message in the queue continues the one before it in the fingers' own count of taps (`StreamLinked`), the task has counted no tap the fingers did not make (`TapsCounted`), and a finger whose press the task still times has held the button as long as the task's timers say (`HoldTimed`). The reset needs `HoldReboot <= HoldFactory` |
| `LrProv_proofs`: `ProvTypeOK`, `ProvisionedHasGateway`, `ProvisionedStays` | types with the bounds of ring and blacklist; a provisioned record has its gateway; it is final | strengthened by: without a stored gateway neither the radio nor its configuration nor the scan's result has one, and `provisioned` is not among the events on their way (a scan stores the gateway in the step that first names it, and only an associated station is registered); and a task of a provisioned device has not begun or is on its way out |
| `ProvisionedIsAccepted` | while nothing but refusals went wrong, the network of a provisioned record is that of a gateway that accepted the switch | until the first disturbance a start passes through phases (booting, starting, scanning, found, connecting, asking, refusing, agreed, ...) that say where both tasks, the radio and the record are and which events are still to come behind the last one read; `PROV_EVT_Q_SZ >= 3` is assumed, 10 in the code, since a full ring loses events |
| `LrProv_proofs`, last part: `QueTypeOK`, `PutStaysBehindLast` | indices and count of the ring; put is `count` slots behind get, modulo the size | inductive |
| `RingImplementsQueue` | the ring implements the queue | the refinement mapping reads the slots from `get`; a put appends, or overwrites the first when the ring is full, by the invariant, a get drops the first |
| `ParamMgr_proofs`: `MgrTypeOK`, `NoWriteForgotten`, `CopiesAgreeOrFlagged`, `ResetIsLasting` | the safety invariants of the parameter manager; the last two for scalars, the last one unless the flash refused a write | strengthened by: a reset starts at the first parameter, and what was not set since has its default in RAM once the loop is past it. Without the latter a write pending at the reset could bring the old value back |
| `CsCore_proofs`, last part: `ControlTypeOK`, `TriesAreRequested`, `ReasonReported` | the safety invariants of the control task | strengthened by: a reset is reported only when the erasure was done; a timer that is set was asked for and not tried yet, so the number of tries is below that of requests; the flash holds the reason just ordered or one that says nothing, and the former while the task waits to restart |
| `CsCore_proofs`: `CallbacksType`, `NobodyEverStuck` | types of the lists, the mutexes and the tasks' programs; nobody waits in a circle | each task is at a place of one of five programs (a notification, the client's start inside one, its stop, arrival and leaving of the provisioning task), with the mutexes that go with the place; so who holds the mutex of the control task or of the socket goes on, and who holds the framework's goes on or waits for one of these |
| `GoneNeverCalled` | nobody is in a function of a client that is gone, or will be | where the places say the client is off and not starting, neither table has its function, so no entry about to be called is one of them |
| `RegistryImplemented` | the lists implement tables of functions | each list has one of two forms, the function that stays alone or with its guest behind it; a step changes at most one list, of which its task has the mutex, so the notifications of the other tables go on over what they were |
| `Outlets_proofs`: `OutletsTypeOK`, `OnePollAbout` | types with the queue's bound; one poll about, and none exactly after the meter's button ordered a factory reset or the timer found the queue full | lemmas say what a put, a take and the requests of the start do to the polls in a queue; the end of every command arms the timer exactly if the command was part of a poll |
| `QuietSocketIsAsStored` | a socket without a request under way is as stored, but for the named cases | strengthened by: the last request for the socket, at its caller, in the queue or in the task, asks for what is stored, and without one the socket is as stored; a request that was heard is done except after a reset of the meter, and then the line is free of old answers |
| `EmtrUpgrade_proofs`: `UpgradeTypeOK`, `ReportedVersionRuns`, `AcknowledgedIsReceived` | types; the version reported is the one the meter has, and runs but for `raced`; what was acknowledged has arrived | strengthened by: the task's first read begins when the mode of the meter is known, a version is read from the application that runs and goes stale only in a transfer; the acknowledgements in the line, on their way and counted together stay below the blocks received and the replies to repeated ones |
| `FileIsATransfer` | the upgrade over the disturbed line implements the transfer, with fewer disturbances than block numbers | the sender is ahead of the receiver by at most one block more than what went wrong (`InOrder`), so a number tells the last block and the next from all others |
| `UnracedStartEndsRepaired` | a start in which nothing goes wrong and no try of the first read fails in the upgrade ends with the application of the image in the meter | in a clean start sender, receiver and line go in lock step (`LockStep`: the line holds at most the reply to the last request) |
| `PwApi_proofs`: `ApiTypeOK` | types with the bounds of both queues | inductive |
| `WhollyThereOrGone` | without failed registrations and lost reboots the client is wholly there or wholly gone | the combinations of what `appPWApiStart` does and where the tasks are: off, created, registered, on, closing, stopping. In closing a start may have made a second task beside the one that is about to clean up; the control table's registration that is still there is what makes it take that task back |

`SensorMatchesState`, `PutBehindLast` and the `TypeOK`s (`RingTypeOK`
of the ring) are proved and in no run of their own: they are parts of the
inductive invariants, each of which was an invariant of a run before it was
proved.

Model-checked only: all liveness properties, since liveness under fairness is out
of the prover's reach. Every safety property of a passing run is a theorem.

## 5. Not modelled

* LED manager and driver: every request is a message to the one task that owns
  all LEDs. Who sets an LED when is in the callers: `Outlets` has the LEDs of the
  sockets, `Cap1298Handler` the flashing it sleeps in.
* Firmware update: an update over the gateway is one step of `CsControl`. The
  local update (`cs_local_ota.c`) is registered in self-test mode only, where the
  single task of the web server makes all its calls; the roll-back is decided by the
  boot loader.
* Event log (`cs_events.c`): one table made with `event_callback.c`. Time
  (`time_mgr.c`): counters. Manufacturing data, start-up, self test: straight-line
  code or a console.
* In the modelled components: the accumulated energy, its arithmetic and the
  reading of signatures (`emtr_drv.c`); blobs, the sticky name space and custom
  initialisers (`param_mgr.c`); heap report, boot flags and time zone
  (`cs_control.c`); soft-AP events (`cs_framework.c`); HTTP and JSON texts.
* A factory reset while `provTask` runs (`cs_control.c:373`): its erasure is in
  `CsControl`, the task in `LrProv`, and the product of the two is too large to
  check.
* `emtr_fw.c`, binary images and key material are data. `app_fw`, `board_test` and
  `board_verify` are production programs with older copies of the meter's driver, the
  touch driver and XMODEM.

More than half of the repository's lines are in that last group, so the share of
the whole that the models translate stays small. Within the application it is the
concurrent core that is modelled.

Left to do: a model of the factory reset that shares the record's erasure with a
reduced `LrProv`.
