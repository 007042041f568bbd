------------------------------- MODULE LrProv -------------------------------
(***************************************************************************)
(* Provisioning over long-range Wi-Fi: the Wi-Fi framework, whose handlers *)
(* run in the system event task (cs_framework.c), the provisioning task    *)
(* with its event queue (cs_lr_prov.c), the provisioning record in flash   *)
(* (cs_prov_support.c) and what the control task learns of the connection  *)
(* (frwkCallback of cs_control.c), together with the radio and the         *)
(* gateways, which are not part of the program.                            *)
(*                                                                         *)
(* Two tasks call setProvState.  It compares a static variable with the    *)
(* event and sets it without a lock, and then puts the event under one: a  *)
(* step each.  eventNotify keeps its table locked while it calls the       *)
(* callbacks, so a notification waits for the other task's one.            *)
(***************************************************************************)
EXTENDS Naturals, Sequences

CONSTANTS Gateways,         \* the access points that pass the SSID filter
          Accepting,        \* those that answer a registration with 200
          NoGateway,        \* no SSID
          PROV_EVT_Q_SZ, SSID_BLACKLIST_SZ,
          MaxTrouble        \* bound: how often the environment misbehaves

ASSUME ProvAssumption ==
    /\ Accepting \subseteq Gateways /\ NoGateway \notin Gateways
    /\ PROV_EVT_Q_SZ \in Nat \ {0} /\ SSID_BLACKLIST_SZ \in Nat
    /\ MaxTrouble \in Nat

ProvState == {"initial", "unprovisioned", "scanning", "wifiConnecting",
              "wifiConnected", "provisioning", "provisioned", "provisionFailed"}

VARIABLES nvsState, nvsSsid,      \* flash
          sta, conf, ap, loop,    \* the radio and the event loop it posts to
          sysPc,                  \* the system event task
          announced, wifi,        \* the connection, as told to others
          pc, last, wifiData, blacklist,  \* the provisioning task
          prvState,               \* setProvState: its static variable,
          pending, noted, que,    \* what a task is about to put, if it was set
          accepted, trouble       \* history: who answered 200; bound

nvs == <<nvsState, nvsSsid>>
radio == <<sta, conf, ap, loop>>
link == <<announced, wifi>>
task == <<pc, last, wifiData, blacklist>>
events == <<prvState, pending, noted, que>>
vars == <<nvs, radio, sysPc, link, task, events, accepted, trouble>>

Queue == INSTANCE ProvEvtQueSpec
           WITH Event <- ProvState, NullEvent <- "null", SIZE <- PROV_EVT_Q_SZ, got <- last

TypeOK ==
    /\ nvsState \in {"unprovisioned", "provisioning", "provisioned"}
    /\ nvsSsid \in Gateways \cup {NoGateway}
    /\ sta \in {"idle", "connecting", "up"}
    /\ {conf, ap, wifiData} \subseteq Gateways \cup {NoGateway}
    /\ loop \in Seq({"start", "gotIp", "disconnected"})
    /\ sysPc \in {"idle", "provStart", "lost", "lostRetry", "backoff"}
    /\ announced \in {"nothing", "gotIp", "disconnected"}
    /\ wifi \in {"init", "connUp", "connLost"}
    /\ pc \in ProvState \cup {"none", "poll", "scan", "post", "provDone", "exitMem",
                              "freed", "exited", "restart", "notified"}
    /\ last \in ProvState \cup {"null"}
    /\ blacklist \in Seq(Gateways) /\ Len(blacklist) <= SSID_BLACKLIST_SZ
    /\ prvState \in ProvState \cup {"null"}
    /\ pending \in [{"sys", "prov"} -> ProvState \cup {"none"}]
    /\ noted \subseteq {t \in {"sys", "prov"} : pending[t] # "none"}
    /\ que \in Seq(ProvState) /\ Len(que) <= PROV_EVT_Q_SZ
    /\ accepted \in SUBSET Accepting
    /\ trouble \in 0..MaxTrouble

NothingPending == [t \in {"sys", "prov"} |-> "none"]

\* The first start of a device: nothing stored.
Init ==
    /\ nvsState = "unprovisioned" /\ nvsSsid = NoGateway
    /\ sta = "idle" /\ conf = NoGateway /\ ap = NoGateway
    /\ loop = <<"start">> /\ sysPc = "idle"
    /\ announced = "nothing" /\ wifi = "init"
    /\ pc = "none" /\ last = "null" /\ wifiData = NoGateway /\ blacklist = <<>>
    /\ prvState = "null" /\ pending = NothingPending /\ noted = {} /\ que = <<>>
    /\ accepted = {} /\ trouble = MaxTrouble

\* A restart keeps the flash.  csFrameworkStart configures the stored SSID if
\* the record says provisioned, and starts the radio.
Restart ==
    /\ sta' = "idle" /\ ap' = NoGateway
    /\ conf' = IF nvsState = "provisioned" THEN nvsSsid ELSE NoGateway
    /\ loop' = <<"start">> /\ sysPc' = "idle"
    /\ announced' = "nothing" /\ wifi' = "init"
    /\ pc' = "none" /\ last' = "null" /\ wifiData' = NoGateway /\ blacklist' = <<>>
    /\ prvState' = "null" /\ pending' = NothingPending /\ noted' = {}
    /\ que' = <<>>
    /\ UNCHANGED <<nvs, accepted>>

Misfortune == trouble > 0 /\ trouble' = trouble - 1

-----------------------------------------------------------------------------
\* The radio (esp_wifi) and the gateways.

\* esp_wifi_connect: no effect while connecting or connected.
Connect(ssid) == IF sta = "idle" THEN sta' = "connecting" /\ ap' = ssid
                                 ELSE UNCHANGED <<sta, ap>>

\* esp_wifi_disconnect: tells of it only if there was something to end.
Disconnect == IF sta = "idle" THEN UNCHANGED <<sta, loop>>
              ELSE sta' = "idle" /\ loop' = Append(loop, "disconnected")

RadioOnly == UNCHANGED <<nvs, conf, ap, sysPc, link, task, events, accepted>>

Associate ==
    /\ sta = "connecting" /\ ap \in Gateways
    /\ sta' = "up" /\ loop' = Append(loop, "gotIp")
    /\ RadioOnly /\ UNCHANGED trouble

ConnectFails ==
    /\ sta = "connecting"
    /\ IF ap \in Gateways THEN Misfortune ELSE UNCHANGED trouble
    /\ sta' = "idle" /\ loop' = Append(loop, "disconnected")
    /\ RadioOnly

LinkLost ==
    /\ sta = "up" /\ Misfortune
    /\ sta' = "idle" /\ loop' = Append(loop, "disconnected")
    /\ RadioOnly

-----------------------------------------------------------------------------
\* setProvState: an event equal to the previous one is dropped...
SetProvState(t, s) ==
    IF prvState = s THEN UNCHANGED pending ELSE pending' = [pending EXCEPT ![t] = s]

\* ... another one becomes the previous one, which the other task may have
\* compared with its own event by then...
Note(t) ==
    /\ pending[t] # "none" /\ t \notin noted
    /\ prvState' = pending[t] /\ noted' = noted \cup {t}
    /\ UNCHANGED <<nvs, radio, sysPc, link, task, pending, que, accepted, trouble>>

Forgets(t) == pending' = [pending EXCEPT ![t] = "none"] /\ noted' = noted \ {t}

\* ... and is put: provEvtPut.
Put(t) ==
    /\ t \in noted /\ pc # "freed"
    /\ que' = Queue!AfterPut(que, pending[t])
    /\ Forgets(t)
    /\ pc' = IF t = "prov" /\ pc = "notified" THEN "poll" ELSE pc
    /\ UNCHANGED <<nvs, radio, sysPc, link, last, wifiData, blacklist, prvState,
                   accepted, trouble>>

\* The task has freed the ring and its mutex and not yet unregistered: what is
\* put is lost, or the program crashes.
PutFreed ==
    /\ "sys" \in noted /\ pc = "freed"
    /\ \/ Forgets("sys")
          /\ UNCHANGED <<nvs, radio, sysPc, link, task, prvState, que, accepted>>
       \/ Restart
    /\ UNCHANGED trouble

SysReady == pending["sys"] = "none"
ProvReady == pending["prov"] = "none"

\* eventNotify: the callback table is free.  All of the system task's calls
\* of setProvState are made inside a notification.
SysMayNotify == SysReady /\ pc # "notified"
ProvMayNotify == ProvReady /\ SysReady

\* The provisioning callback is registered until the task has unregistered it.
CallbackRegistered == pc \notin {"none", "exited"}

FrmwkEventCallback(s) ==
    IF CallbackRegistered THEN SetProvState("sys", s)
                          ELSE UNCHANGED pending

-----------------------------------------------------------------------------
\* The system event task.
Dispatch(e) == sysPc = "idle" /\ loop # <<>> /\ Head(loop) = e /\ loop' = Tail(loop)

\* WIFI_EVENT_STA_START: connect, or start provisioning (startProv and
\* csLrProvStart, before anything else of the program runs).
SysStart ==
    /\ Dispatch("start")
    /\ IF nvsState = "provisioned"
         THEN Connect(conf) /\ UNCHANGED <<nvsState, sysPc, pc, prvState, que>>
         ELSE /\ nvsState' = "provisioning" /\ sysPc' = "provStart"
              /\ pc' = "poll" /\ prvState' = "initial"
              /\ que' = Queue!AfterPut(que, "initial")
              /\ UNCHANGED <<sta, ap>>
    /\ UNCHANGED <<nvsSsid, conf, link, last, wifiData, blacklist, pending, noted,
                   accepted, trouble>>

\* Notification of provStart.
SysProvStart ==
    /\ sysPc = "provStart" /\ SysMayNotify
    /\ FrmwkEventCallback("unprovisioned")
    /\ sysPc' = "idle"
    /\ UNCHANGED <<nvs, radio, link, task, prvState, noted, que, accepted, trouble>>

\* IP_EVENT_STA_GOT_IP: staGotIp is notified to the control task, which takes
\* it for a connection only when provisioned, and to the provisioning task.
SysGotIp ==
    /\ Dispatch("gotIp") /\ SysMayNotify
    /\ announced' = "gotIp"
    /\ wifi' = IF nvsState = "provisioned" THEN "connUp" ELSE wifi
    /\ FrmwkEventCallback("wifiConnected")
    /\ UNCHANGED <<nvs, sta, conf, ap, sysPc, task, prvState, noted, que, accepted,
                   trouble>>

\* WIFI_EVENT_STA_DISCONNECTED: staDisconnect is notified...
SysLost ==
    /\ Dispatch("disconnected") /\ SysMayNotify
    /\ announced' = "disconnected"
    /\ wifi' = IF wifi = "connUp" THEN "connLost" ELSE wifi
    /\ sysPc' = "lost"
    /\ UNCHANGED <<nvs, sta, conf, ap, task, events, accepted, trouble>>

\* ... then the record is read, once to restart provisioning and once more to
\* leave a failed one alone; otherwise the connection is tried again.
SysLostProvisioning ==
    /\ sysPc = "lost"
    /\ sysPc' = IF nvsState = "provisioning" THEN "provStart" ELSE "lostRetry"
    /\ UNCHANGED <<nvs, radio, link, task, events, accepted, trouble>>

SysLostRetry ==
    /\ sysPc = "lostRetry"
    /\ IF nvsState = "unprovisioned"
         THEN sysPc' = "idle" /\ UNCHANGED <<sta, loop>>
         ELSE sysPc' = "backoff" /\ Disconnect
    /\ UNCHANGED <<nvs, conf, ap, link, task, events, accepted, trouble>>

\* Mutant: after the half second the connection is not tried again.
SysReconnectForgotten ==
    /\ sysPc = "backoff"
    /\ sysPc' = "idle"
    /\ UNCHANGED <<nvs, radio, link, task, events, accepted, trouble>>

SysReconnect ==
    /\ sysPc = "backoff"
    /\ sysPc' = "idle"
    /\ Connect(conf)
    /\ UNCHANGED <<nvs, conf, loop, link, task, events, accepted, trouble>>

SysStep == \/ SysStart \/ SysProvStart \/ SysGotIp
           \/ SysLost \/ SysLostProvisioning \/ SysLostRetry \/ SysReconnect
           \/ Note("sys") \/ Put("sys") \/ PutFreed

\* The event task handles what the radio posts within a few milliseconds (half
\* a second when it reconnects): the pauses of the provisioning task of one and
\* five seconds outlast it.
EventsHandled == loop = <<>> /\ sysPc = "idle" /\ SysReady

-----------------------------------------------------------------------------
\* The provisioning task.  Its next label is the state it read, if that is
\* one it works on.  The 100 ms it sleeps between two readings outlast the few
\* instructions between the event task's comparison and its put (SysReady).
Idle == {"null", "initial", "provisioning"}

ProvGet ==
    /\ pc = "poll" /\ ProvReady /\ SysReady
    /\ last' = Queue!Oldest(que) /\ que' = Queue!AfterGet(que)
    /\ pc' = IF last' = last \/ last' \in Idle THEN "poll" ELSE last'
    /\ UNCHANGED <<nvs, radio, sysPc, link, wifiData, blacklist, prvState, pending,
                   noted, accepted, trouble>>

\* unprovisioned: after five seconds, scan
ProvSettle ==
    /\ pc = "unprovisioned" /\ EventsHandled
    /\ SetProvState("prov", "scanning")
    /\ pc' = "scan"
    /\ UNCHANGED <<nvs, radio, sysPc, link, last, wifiData, blacklist, prvState, noted,
                   que, accepted, trouble>>

\* The SSIDs with an entry in the blacklist, oldest first.
Blacklisted == {blacklist[i] : i \in 1..Len(blacklist)}

\* Mutant: csProvConfStore is left out.
ScanFindsUnstored(g) ==
    /\ sta # "connecting" /\ g \notin Blacklisted
    /\ wifiData' = g
    /\ SetProvState("prov", "wifiConnecting")
    /\ UNCHANGED <<nvsSsid, trouble>>

\* startNetworkScan found a gateway that is not blacklisted, stored its SSID.
ScanFinds(g) ==
    /\ sta # "connecting" /\ g \notin Blacklisted
    /\ wifiData' = g /\ nvsSsid' = g
    /\ SetProvState("prov", "wifiConnecting")
    /\ UNCHANGED trouble

\* It found none, or the scan failed.
ScanFails ==
    /\ \/ sta = "connecting" /\ UNCHANGED <<wifiData, trouble>>
       \/ Gateways = Blacklisted /\ wifiData' = NoGateway /\ UNCHANGED trouble
       \/ Misfortune /\ UNCHANGED wifiData
    /\ SetProvState("prov", "unprovisioned")
    /\ UNCHANGED nvsSsid

ProvScan ==
    /\ pc = "scan" /\ ProvReady
    /\ ScanFails \/ \E g \in Gateways : ScanFinds(g)
    /\ pc' = "poll"
    /\ UNCHANGED <<nvsState, radio, sysPc, link, last, blacklist, prvState, noted, que,
                   accepted>>

\* The 60 seconds of the oldest entry are over; the next scan drops it.  They
\* outlast the attempts at the other gateways, except when those go wrong.
BlacklistExpires ==
    /\ blacklist # <<>>
    /\ IF Gateways = Blacklisted THEN UNCHANGED trouble ELSE Misfortune
    /\ blacklist' = Tail(blacklist)
    /\ UNCHANGED <<nvs, radio, sysPc, link, pc, last, wifiData, events, accepted>>

\* scanning: the record says provisioning
ProvScanning ==
    /\ pc = "scanning"
    /\ nvsState' = "provisioning" /\ pc' = "poll"
    /\ UNCHANGED <<nvsSsid, radio, sysPc, link, last, wifiData, blacklist, events,
                   accepted, trouble>>

\* wifiConnecting: notify staConnecting, configure the radio and connect
ProvConnect ==
    /\ pc = "wifiConnecting" /\ ProvMayNotify
    /\ conf' = wifiData /\ Connect(wifiData)
    /\ pc' = "poll"
    /\ UNCHANGED <<nvs, loop, sysPc, link, last, wifiData, blacklist, events,
                   accepted, trouble>>

ProvConnected ==
    /\ pc = "wifiConnected"
    /\ SetProvState("prov", "provisioning")
    /\ pc' = "post"
    /\ UNCHANGED <<nvs, radio, sysPc, link, last, wifiData, blacklist, prvState, noted,
                   que, accepted, trouble>>

\* Mutant: any answer is taken for 200.
RegisteredAnyAnswer ==
    /\ sta = "up"
    /\ accepted' = accepted \cup ({ap} \cap Accepting)
    /\ SetProvState("prov", "provisioned")
    /\ UNCHANGED <<blacklist, trouble>>

\* post_to_register
Registered ==
    /\ sta = "up" /\ ap \in Accepting
    /\ accepted' = accepted \cup {ap}
    /\ SetProvState("prov", "provisioned")
    /\ UNCHANGED <<blacklist, trouble>>

Refused ==
    /\ sta = "up" /\ ap \notin Accepting
    /\ blacklist' = IF wifiData \in Gateways /\ Len(blacklist) < SSID_BLACKLIST_SZ
                      THEN Append(blacklist, wifiData) ELSE blacklist
    /\ SetProvState("prov", "provisionFailed")
    /\ UNCHANGED <<accepted, trouble>>

NoAnswer ==
    /\ IF sta = "up"
         THEN Misfortune /\ accepted' \in {accepted, accepted \cup ({ap} \cap Accepting)}
         ELSE UNCHANGED <<accepted, trouble>>
    /\ SetProvState("prov", "provisionFailed")
    /\ UNCHANGED blacklist

ProvPost ==
    /\ pc = "post" /\ ProvReady
    /\ Registered \/ Refused \/ NoAnswer
    /\ pc' = "poll"
    /\ UNCHANGED <<nvs, radio, sysPc, link, last, wifiData, prvState, noted, que>>

\* provisioned: store it, notify provDone, free the memory, unregister
ProvStore ==
    /\ pc = "provisioned"
    /\ nvsState' = "provisioned" /\ pc' = "provDone"
    /\ UNCHANGED <<nvsSsid, radio, sysPc, link, last, wifiData, blacklist, events,
                   accepted, trouble>>

\* Mutant: the task goes on polling after provDone.
ProvDoneGoesOn ==
    /\ pc = "provDone" /\ ProvMayNotify
    /\ wifi' = "connUp" /\ pc' = "poll"
    /\ UNCHANGED <<nvs, radio, sysPc, announced, last, wifiData, blacklist,
                   events, accepted, trouble>>

ProvDone ==
    /\ pc = "provDone" /\ ProvMayNotify
    /\ wifi' = "connUp" /\ pc' = "exitMem"
    /\ UNCHANGED <<nvs, radio, sysPc, announced, last, wifiData, blacklist,
                   events, accepted, trouble>>

\* The mutex and the control block, with the ring, go before the callback.
ProvFree ==
    /\ pc = "exitMem"
    /\ pc' = "freed"
    /\ UNCHANGED <<nvs, radio, sysPc, link, last, wifiData, blacklist, events,
                   accepted, trouble>>

ProvExit ==
    /\ pc = "freed" /\ ProvMayNotify
    /\ pc' = "exited"
    /\ UNCHANGED <<nvs, radio, sysPc, link, last, wifiData, blacklist, events,
                   accepted, trouble>>

\* Mutants: it stays connected; provStart is not notified.
ProvFailedStaysConnected ==
    /\ pc = "provisionFailed"
    /\ nvsState' = "unprovisioned"
    /\ pc' = "restart"
    /\ UNCHANGED <<nvsSsid, radio, sysPc, link, last, wifiData, blacklist, events,
                   accepted, trouble>>

ProvRestartSilent ==
    /\ pc = "restart" /\ ProvMayNotify /\ EventsHandled
    /\ pc' = "poll"
    /\ UNCHANGED <<nvs, radio, sysPc, link, last, wifiData, blacklist, events,
                   accepted, trouble>>

\* provisionFailed: store it, disconnect, and start over a second later
ProvFailed ==
    /\ pc = "provisionFailed"
    /\ nvsState' = "unprovisioned" /\ Disconnect
    /\ pc' = "restart"
    /\ UNCHANGED <<nvsSsid, conf, ap, sysPc, link, last, wifiData, blacklist, events,
                   accepted, trouble>>

ProvRestart ==
    /\ pc = "restart" /\ ProvMayNotify /\ EventsHandled
    /\ SetProvState("prov", "unprovisioned")
    /\ pc' = IF prvState = "unprovisioned" THEN "poll" ELSE "notified"
    /\ UNCHANGED <<nvs, radio, sysPc, link, last, wifiData, blacklist, prvState, noted,
                   que, accepted, trouble>>

ProvStep == \/ ProvGet \/ ProvSettle \/ ProvScan \/ ProvScanning \/ ProvConnect
            \/ ProvConnected \/ ProvPost \/ ProvStore \/ ProvDone \/ ProvFree
            \/ ProvExit \/ ProvFailed \/ ProvRestart \/ Note("prov") \/ Put("prov")

-----------------------------------------------------------------------------
\* Power is lost, or the program crashes.
Crash == Misfortune /\ Restart

\* The control task has waited 60 seconds for a lost connection.
RecoveryReboot == wifi = "connLost" /\ Restart /\ UNCHANGED trouble

Next == \/ Associate \/ ConnectFails \/ LinkLost
        \/ SysStep \/ ProvStep
        \/ BlacklistExpires \/ Crash \/ RecoveryReboot

Spec == Init /\ [][Next]_vars

Fairness == /\ WF_vars(Associate \/ ConnectFails) /\ WF_vars(SysStep) /\ WF_vars(ProvStep)
            /\ WF_vars(RecoveryReboot)
            /\ WF_vars(Gateways = Blacklisted /\ BlacklistExpires)
FairSpec == Spec /\ Fairness

-----------------------------------------------------------------------------
\* A device is never left provisioned without the credentials that
\* csFrameworkStart then loads (it would answer with a factory reset),
\* wherever the power fails between csProvConfStore and csProvStateSet.
CredentialsStored == nvsState = "provisioned" => nvsSsid \in Gateways

\* Once stored as provisioned, no late event of the attempt under way takes the
\* record back: not a scan, a failed registration nor a lost connection.
ProvisionedIsFinal == [][nvsState = "provisioned" => nvsState' = "provisioned"]_vars

\* At most n disturbances so far.
AtMost(n) == trouble >= MaxTrouble - n

\* While nothing goes wrong but refusals, the SSID the device will connect to
\* after a restart is one whose gateway answered the registration with 200.
ProvisionedSsidAccepted == AtMost(0) /\ nvsState = "provisioned" => nvsSsid \in accepted

\* As long as some gateway accepts it, the device gets provisioned, whatever
\* order it tries the gateways in and wherever one thing goes wrong.
EventuallyProvisioned == []AtMost(1) => <>(nvsState = "provisioned")

\* Whatever order it tries the gateways in, the device ends connected, and
\* stays connected, to one that accepts it, if nothing goes wrong.
EventuallyConnected == []AtMost(0) => <>[](sta = "up" /\ ap \in Accepting)

\* A device that was provisioned in an earlier run comes back to its gateway
\* after every loss of the connection, by handleEventWiFi or by a reboot.
ReconnectsAfterRestart == (pc = "none" /\ nvsState = "provisioned") ~> [](sta = "up")

\* cs_control.c says of a lost connection: reboot if it is not re-established.
LostLinkRecovers == 
    (nvsState = "provisioned" /\ announced = "disconnected") ~> (announced # "disconnected")
=============================================================================
