---------------------------- MODULE LrProv_proofs ----------------------------
(***************************************************************************)
(* Proofs about the provisioning, for any set of gateways, any blacklist   *)
(* and any number of disturbances: the types, that a provisioned record    *)
(* has its credentials, that it is final, that without a disturbance the   *)
(* credentials are those of a gateway that accepted the device; and, at    *)
(* the end, that the ring of its events implements a queue.                *)
(***************************************************************************)
EXTENDS LrProv, ProvEvtQue, SequenceTheorems, FiniteSetTheorems, TLAPS

USE ProvAssumption DEF ProvAssumption

(***************************************************************************)
(* The events that wait, and setProvState.                                 *)
(***************************************************************************)
Without(q, e) == \A j \in 1..Len(q) : q[j] # e

LEMMA AfterPutType ==
  ASSUME NEW q \in Seq(ProvState), Len(q) <= PROV_EVT_Q_SZ, NEW e \in ProvState
  PROVE  /\ Queue!AfterPut(q, e) \in Seq(ProvState)
         /\ Len(Queue!AfterPut(q, e)) <= PROV_EVT_Q_SZ
         /\ Without(q, "provisioned") /\ e # "provisioned"
              => Without(Queue!AfterPut(q, e), "provisioned")
<1>1. CASE Len(q) < PROV_EVT_Q_SZ
  <2>1. Queue!AfterPut(q, e) = Append(q, e) /\ Append(q, e) \in Seq(ProvState)
    BY <1>1 DEF Queue!AfterPut
  <2>2. /\ Len(Append(q, e)) = Len(q) + 1 /\ Append(q, e)[Len(q) + 1] = e
        /\ \A j \in 1..Len(q) : Append(q, e)[j] = q[j]
    OBVIOUS
  <2>3. Without(q, "provisioned") /\ e # "provisioned" => Without(Append(q, e), "provisioned")
    BY <2>2 DEF Without
  <2> QED BY <1>1, <2>1, <2>2, <2>3
<1>2. CASE ~(Len(q) < PROV_EVT_Q_SZ)
  <2>1. q # <<>> /\ Tail(q) \in Seq(ProvState) /\ Len(Tail(q)) = Len(q) - 1
    BY <1>2
  <2>2. /\ <<e>> \in Seq(ProvState) /\ Len(<<e>>) = 1 /\ <<e>>[1] = e
        /\ \A j \in 1..Len(q) - 1 : Tail(q)[j] = q[j + 1]
    BY <2>1
  <2>3. /\ <<e>> \o Tail(q) \in Seq(ProvState) /\ Len(<<e>> \o Tail(q)) = Len(q)
        /\ (<<e>> \o Tail(q))[1] = e
        /\ \A j \in 1..Len(q) : j > 1 => (<<e>> \o Tail(q))[j] = q[j]
    BY <2>1, <2>2
  <2>4. Without(q, "provisioned") /\ e # "provisioned"
          => Without(<<e>> \o Tail(q), "provisioned")
    BY <2>3 DEF Without
  <2>5. Queue!AfterPut(q, e) = <<e>> \o Tail(q)
    BY <1>2 DEF Queue!AfterPut
  <2> QED BY <2>3, <2>4, <2>5
<1> QED BY <1>1, <1>2

LEMMA AfterGetType ==
  ASSUME NEW q \in Seq(ProvState), Len(q) <= PROV_EVT_Q_SZ
  PROVE  /\ Queue!AfterGet(q) \in Seq(ProvState) /\ Len(Queue!AfterGet(q)) <= PROV_EVT_Q_SZ
         /\ Queue!Oldest(q) \in ProvState \cup {"null"}
         /\ Without(q, "provisioned") => /\ Without(Queue!AfterGet(q), "provisioned")
                                         /\ Queue!Oldest(q) # "provisioned"
<1>1. CASE q = <<>>
  <2>1. Queue!AfterGet(q) = q /\ Queue!Oldest(q) = "null"
    BY <1>1 DEF Queue!AfterGet, Queue!Oldest
  <2> QED BY <2>1
<1>2. CASE q # <<>>
  <2>1. /\ Tail(q) \in Seq(ProvState) /\ Len(Tail(q)) = Len(q) - 1 /\ Len(q) > 0
        /\ \A j \in 1..Len(q) - 1 : Tail(q)[j] = q[j + 1]
        /\ Head(q) = q[1] /\ Head(q) \in ProvState
    BY <1>2
  <2>2. Without(q, "provisioned") => Without(Tail(q), "provisioned") /\ Head(q) # "provisioned"
    BY <2>1 DEF Without
  <2>3. Queue!Oldest(q) = Head(q) /\ (Queue!AfterGet(q) = q \/ Queue!AfterGet(q) = Tail(q))
    BY <1>2 DEF Queue!AfterGet, Queue!Oldest
  <2>4. CASE Queue!AfterGet(q) = q
    BY <2>1, <2>2, <2>3, <2>4
  <2>5. CASE Queue!AfterGet(q) = Tail(q)
    <3>1. Len(Tail(q)) <= PROV_EVT_Q_SZ
      BY <2>1
    <3> QED BY <2>1, <2>2, <2>3, <2>5, <3>1
  <2> QED BY <2>3, <2>4, <2>5
<1> QED BY <1>1, <1>2

EventTypes ==
    /\ prvState \in ProvState \cup {"null"}
    /\ pending \in [{"sys", "prov"} -> ProvState \cup {"none"}]
    /\ noted \subseteq {t \in {"sys", "prov"} : pending[t] # "none"}

NotPending == \A t \in {"sys", "prov"} : pending[t] # "provisioned"

LEMMA SetTypes ==
  ASSUME NEW t \in {"sys", "prov"}, NEW s \in ProvState, EventTypes, SetProvState(t, s),
         UNCHANGED <<prvState, noted>>
  PROVE  EventTypes' /\ (NotPending /\ s # "provisioned" => NotPending')
<1>1. pending' \in [{"sys", "prov"} -> ProvState \cup {"none"}]
  BY DEF EventTypes, SetProvState
<1>2. \A u \in {"sys", "prov"} : pending'[u] = pending[u] \/ pending'[u] = s
  BY DEF EventTypes, SetProvState
<1>3. noted' \subseteq {u \in {"sys", "prov"} : pending'[u] # "none"}
  BY <1>2 DEF EventTypes, ProvState
<1> QED BY <1>1, <1>2, <1>3 DEF EventTypes, NotPending

LEMMA CallbackTypes ==
  ASSUME NEW s \in ProvState, EventTypes, FrmwkEventCallback(s),
         UNCHANGED <<prvState, noted>>
  PROVE  EventTypes' /\ (NotPending /\ s # "provisioned" => NotPending')
<1>1. CASE SetProvState("sys", s)
  BY <1>1, SetTypes
<1>2. CASE UNCHANGED pending
  BY <1>2 DEF EventTypes, NotPending
<1> QED BY <1>1, <1>2 DEF FrmwkEventCallback

(***************************************************************************)
(* The radio.                                                              *)
(***************************************************************************)
LoopEvents == {"start", "gotIp", "disconnected"}
RadioTypes ==
    /\ sta \in {"idle", "connecting", "up"}
    /\ {conf, ap} \subseteq Gateways \cup {NoGateway}
    /\ loop \in Seq(LoopEvents)

\* What is configured and in the air is known only with a stored gateway.
Known(g) == nvsSsid = NoGateway => g = NoGateway

LEMMA LoopTypes ==
  ASSUME loop \in Seq(LoopEvents)
  PROVE  /\ \A e \in LoopEvents : Append(loop, e) \in Seq(LoopEvents)
         /\ loop # <<>> => Tail(loop) \in Seq(LoopEvents)
OBVIOUS

LEMMA ConnectTypes ==
  ASSUME RadioTypes, NEW g \in Gateways \cup {NoGateway}, Connect(g)
  PROVE  /\ sta' \in {"idle", "connecting", "up"} /\ ap' \in {ap, g}
         /\ ap' \in Gateways \cup {NoGateway}
BY DEF RadioTypes, Connect

LEMMA DisconnectTypes ==
  ASSUME RadioTypes, Disconnect
  PROVE  sta' \in {"idle", "connecting", "up"} /\ loop' \in Seq(LoopEvents)
BY LoopTypes DEF RadioTypes, Disconnect, LoopEvents

(***************************************************************************)
(* The invariant: without a stored gateway nothing has got past the scan,  *)
(* since only a scan gives the radio a gateway and stores it at once; and  *)
(* a task that has stored "provisioned" is on its way out.                 *)
(***************************************************************************)
NoCredentials ==
    nvsSsid = NoGateway =>
      /\ wifiData = NoGateway /\ conf = NoGateway /\ ap = NoGateway
      /\ nvsState # "provisioned" /\ pc # "provisioned"
      /\ NotPending /\ Without(que, "provisioned")

OnItsWayOut == nvsState = "provisioned" => pc \in {"none", "provDone", "exitMem", "freed", "exited"}

IInv == TypeOK /\ NoCredentials /\ OnItsWayOut

TaskTypes ==
    /\ pc \in ProvState \cup {"none", "poll", "scan", "post", "provDone", "exitMem",
                              "freed", "exited", "restart", "notified"}
    /\ last \in ProvState \cup {"null"} /\ wifiData \in Gateways \cup {NoGateway}
    /\ blacklist \in Seq(Gateways) /\ Len(blacklist) <= SSID_BLACKLIST_SZ
QueTypes == que \in Seq(ProvState) /\ Len(que) <= PROV_EVT_Q_SZ
NvsTypes ==
    /\ nvsState \in {"unprovisioned", "provisioning", "provisioned"}
    /\ nvsSsid \in Gateways \cup {NoGateway}
OtherTypes ==
    /\ sysPc \in {"idle", "provStart", "lost", "lostRetry", "backoff"}
    /\ announced \in {"nothing", "gotIp", "disconnected"}
    /\ wifi \in {"init", "connUp", "connLost"}
    /\ accepted \in SUBSET Accepting /\ trouble \in 0..MaxTrouble

LEMMA TypeParts ==
  TypeOK <=> NvsTypes /\ RadioTypes /\ OtherTypes /\ TaskTypes /\ EventTypes /\ QueTypes
BY DEF TypeOK, NvsTypes, RadioTypes, OtherTypes, TaskTypes, EventTypes, QueTypes, LoopEvents

LEMMA TypeParts2 ==
  TypeOK' <=> NvsTypes' /\ RadioTypes' /\ OtherTypes' /\ TaskTypes' /\ EventTypes' /\ QueTypes'
BY DEF TypeOK, NvsTypes, RadioTypes, OtherTypes, TaskTypes, EventTypes, QueTypes, LoopEvents

LEMMA Starts == Init => IInv
<1> SUFFICES ASSUME Init PROVE IInv
  OBVIOUS
<1>1. /\ <<>> \in Seq(ProvState) /\ <<>> \in Seq(Gateways) /\ Len(<<>>) = 0
      /\ <<"start">> \in Seq({"start", "gotIp", "disconnected"})
  OBVIOUS
<1>2. TypeOK
  BY <1>1 DEF Init, TypeOK, NothingPending
<1>3. NoCredentials /\ OnItsWayOut
  BY <1>1 DEF Init, NoCredentials, OnItsWayOut, NothingPending, NotPending, Without
<1> QED BY <1>2, <1>3 DEF IInv

LEMMA RestartStep ==
  ASSUME IInv, Restart, trouble' \in 0..MaxTrouble
  PROVE  IInv'
<1>1. /\ <<>> \in Seq(ProvState) /\ <<>> \in Seq(Gateways) /\ Len(<<>>) = 0
      /\ <<"start">> \in Seq({"start", "gotIp", "disconnected"})
  OBVIOUS
<1>2. TypeOK'
  BY <1>1 DEF IInv, Restart, TypeOK, NothingPending, nvs
<1>3. NoCredentials' /\ OnItsWayOut'
  BY <1>1 DEF IInv, Restart, NoCredentials, OnItsWayOut, NothingPending, NotPending, Without, nvs
<1> QED BY <1>2, <1>3 DEF IInv

(***************************************************************************)
(* The radio's steps, and the system event task's.                         *)
(***************************************************************************)
LEMMA RadioStep ==
  ASSUME IInv, Associate \/ ConnectFails \/ LinkLost
  PROVE  IInv'
<1>1. /\ sta' \in {"idle", "connecting", "up"} /\ trouble' \in 0..MaxTrouble
      /\ loop' \in Seq(LoopEvents)
  <2>1. loop \in Seq(LoopEvents) /\ trouble \in 0..MaxTrouble
    BY TypeParts DEF IInv, RadioTypes, OtherTypes
  <2>2. Append(loop, "gotIp") \in Seq(LoopEvents) /\ Append(loop, "disconnected") \in Seq(LoopEvents)
    BY <2>1, LoopTypes DEF LoopEvents
  <2>3. loop' = Append(loop, "gotIp") \/ loop' = Append(loop, "disconnected")
    BY DEF Associate, ConnectFails, LinkLost
  <2>4. sta' \in {"up", "idle"} /\ trouble' \in 0..MaxTrouble
    BY <2>1 DEF Associate, ConnectFails, LinkLost, Misfortune
  <2> QED BY <2>2, <2>3, <2>4
<1>2. UNCHANGED <<nvsState, nvsSsid, conf, ap, sysPc, link, task, events, accepted>>
  BY DEF Associate, ConnectFails, LinkLost, RadioOnly, nvs
<1>3. TypeOK'
  BY <1>1, <1>2 DEF IInv, TypeOK, link, task, events, LoopEvents
<1>4. NoCredentials' /\ OnItsWayOut'
  BY <1>2 DEF IInv, NoCredentials, OnItsWayOut, NotPending, Without, task, events
<1> QED BY <1>3, <1>4 DEF IInv

LEMMA PutStep ==
  ASSUME IInv, NEW t \in {"sys", "prov"}, Put(t)
  PROVE  IInv'
<1>1. pending[t] \in ProvState /\ QueTypes /\ EventTypes /\ TaskTypes
  BY TypeParts DEF IInv, Put, EventTypes
<1>2. /\ que' = Queue!AfterPut(que, pending[t]) /\ pending' = [pending EXCEPT ![t] = "none"]
      /\ noted' = noted \ {t}
      /\ pc' \in {pc, "poll"} /\ (pc' # pc => pc = "notified")
      /\ UNCHANGED <<nvs, radio, sysPc, link, last, wifiData, blacklist, prvState, accepted,
                     trouble>>
  BY DEF Put, Forgets
<1>3. QueTypes' /\ (Without(que, "provisioned") /\ NotPending => Without(que', "provisioned"))
  BY <1>1, <1>2, AfterPutType DEF QueTypes, NotPending
<1>4. EventTypes' /\ (NotPending => NotPending')
  BY <1>1, <1>2 DEF EventTypes, NotPending
<1>5. TypeOK'
  <2>1. TaskTypes'
    BY <1>1, <1>2 DEF TaskTypes
  <2>2. NvsTypes' /\ RadioTypes' /\ OtherTypes'
    BY <1>2, TypeParts DEF IInv, NvsTypes, RadioTypes, OtherTypes, nvs, radio, link
  <2> QED BY <1>3, <1>4, <2>1, <2>2, TypeParts2
<1>6. NoCredentials' /\ OnItsWayOut'
  BY <1>2, <1>3, <1>4 DEF IInv, NoCredentials, OnItsWayOut, nvs, radio
<1> QED BY <1>5, <1>6 DEF IInv

\* Only what is pending is noted.
LEMMA NoteStep ==
  ASSUME IInv, NEW t \in {"sys", "prov"}, Note(t)
  PROVE  IInv'
<1>1. NvsTypes /\ RadioTypes /\ OtherTypes /\ TaskTypes /\ EventTypes /\ QueTypes
  BY TypeParts DEF IInv
<1>2. /\ prvState' \in ProvState /\ noted' = noted \cup {t} /\ pending[t] # "none"
      /\ UNCHANGED <<nvs, radio, sysPc, link, task, pending, que, accepted, trouble>>
  BY <1>1 DEF Note, EventTypes
<1>3. EventTypes'
  BY <1>1, <1>2 DEF EventTypes
<1>4. NvsTypes' /\ RadioTypes' /\ OtherTypes' /\ TaskTypes' /\ QueTypes'
  BY <1>1, <1>2 DEF NvsTypes, RadioTypes, OtherTypes, TaskTypes, QueTypes, nvs, radio, link, task
<1>5. NoCredentials' /\ OnItsWayOut'
  BY <1>2 DEF IInv, NoCredentials, OnItsWayOut, NotPending, Without, nvs, radio, task
<1> QED BY <1>3, <1>4, <1>5, TypeParts2 DEF IInv

LEMMA PutFreedStep ==
  ASSUME IInv, PutFreed
  PROVE  IInv'
<1>1. NvsTypes /\ RadioTypes /\ OtherTypes /\ TaskTypes /\ EventTypes /\ QueTypes
  BY TypeParts DEF IInv
<1>2. CASE Restart
  BY <1>1, <1>2, RestartStep DEF OtherTypes, PutFreed
<1>3. CASE ~Restart
  <2>1. /\ pending' = [pending EXCEPT !["sys"] = "none"] /\ noted' = noted \ {"sys"}
        /\ UNCHANGED <<nvs, radio, sysPc, link, task, prvState, que, accepted, trouble>>
    BY <1>3 DEF PutFreed, Forgets
  <2>2. EventTypes' /\ (NotPending => NotPending')
    BY <1>1, <2>1 DEF EventTypes, NotPending
  <2>3. NvsTypes' /\ RadioTypes' /\ OtherTypes' /\ TaskTypes' /\ QueTypes'
    BY <1>1, <2>1 DEF NvsTypes, RadioTypes, OtherTypes, TaskTypes, QueTypes, nvs, radio, link, task
  <2>4. NoCredentials' /\ OnItsWayOut'
    BY <2>1, <2>2 DEF IInv, NoCredentials, OnItsWayOut, Without, nvs, radio, task
  <2> QED BY <2>2, <2>3, <2>4, TypeParts2 DEF IInv
<1> QED BY <1>2, <1>3

\* A step of the event task that leaves the other task, the record's gateway and
\* what is configured alone.
LEMMA SysKeeps ==
  ASSUME IInv, UNCHANGED <<nvs, conf, task, que, accepted, trouble>>,
         ap' \in {ap, conf}, ap' \in Gateways \cup {NoGateway},
         EventTypes', NotPending => NotPending',
         sta' \in {"idle", "connecting", "up"}, loop' \in Seq(LoopEvents),
         sysPc' \in {"idle", "provStart", "lost", "lostRetry", "backoff"},
         announced' \in {"nothing", "gotIp", "disconnected"},
         wifi' \in {"init", "connUp", "connLost"}
  PROVE  IInv'
<1>1. NvsTypes' /\ RadioTypes' /\ OtherTypes' /\ TaskTypes' /\ QueTypes'
  BY TypeParts DEF IInv, NvsTypes, RadioTypes, OtherTypes, TaskTypes, QueTypes, nvs, task
<1>2. NoCredentials' /\ OnItsWayOut'
  BY DEF IInv, NoCredentials, OnItsWayOut, nvs, task
<1> QED BY <1>1, <1>2, TypeParts2 DEF IInv

LEMMA SysStartStep ==
  ASSUME IInv, SysStart
  PROVE  IInv'
<1>1. /\ NvsTypes /\ RadioTypes /\ OtherTypes /\ TaskTypes /\ EventTypes /\ QueTypes
  BY TypeParts DEF IInv
<1>2. loop' \in Seq(LoopEvents)
  BY <1>1, LoopTypes DEF SysStart, Dispatch, RadioTypes
<1>3. CASE nvsState = "provisioned"
  <2>1. Connect(conf) /\ UNCHANGED <<nvsState, sysPc, pc, prvState, que>>
    BY <1>3 DEF SysStart
  <2>2. /\ UNCHANGED <<nvs, conf, task, que, accepted, trouble>>
        /\ UNCHANGED <<prvState, pending, noted, sysPc, announced, wifi>>
    BY <2>1 DEF SysStart, nvs, task, link
  <2>3. sta' \in {"idle", "connecting", "up"} /\ ap' \in {ap, conf} /\ ap' \in Gateways \cup {NoGateway}
    BY <1>1, <2>1, ConnectTypes DEF RadioTypes
  <2>4. EventTypes' /\ (NotPending => NotPending')
    BY <1>1, <2>2 DEF EventTypes, NotPending
  <2> QED BY <1>1, <1>2, <2>2, <2>3, <2>4, SysKeeps DEF OtherTypes
<1>4. CASE nvsState # "provisioned"
  <2>1. /\ nvsState' = "provisioning" /\ sysPc' = "provStart" /\ pc' = "poll"
        /\ prvState' = "initial" /\ que' = Queue!AfterPut(que, "initial")
        /\ UNCHANGED <<sta, ap, nvsSsid, conf, link, last, wifiData, blacklist, pending, noted,
                       accepted, trouble>>
    BY <1>4 DEF SysStart
  <2>2. /\ QueTypes'
        /\ Without(que, "provisioned") => Without(que', "provisioned")
    <3>1. "initial" \in ProvState
      BY DEF ProvState
    <3> QED BY <1>1, <2>1, <3>1, AfterPutType DEF QueTypes
  <2>3. NvsTypes' /\ RadioTypes' /\ OtherTypes'
    BY <1>1, <1>2, <2>1 DEF NvsTypes, RadioTypes, OtherTypes, link
  <2>4. TaskTypes' /\ EventTypes'
    BY <1>1, <2>1 DEF TaskTypes, EventTypes, ProvState
  <2>5. NoCredentials' /\ OnItsWayOut'
    BY <2>1, <2>2 DEF IInv, NoCredentials, OnItsWayOut, NotPending
  <2> QED BY <2>2, <2>3, <2>4, <2>5, TypeParts2 DEF IInv
<1> QED BY <1>3, <1>4

LEMMA SysOtherStep ==
  ASSUME IInv, SysProvStart \/ SysGotIp \/ SysLost \/ SysLostProvisioning \/ SysLostRetry
                 \/ SysReconnect
  PROVE  IInv'
<1>1. NvsTypes /\ RadioTypes /\ OtherTypes /\ TaskTypes /\ EventTypes /\ QueTypes
  BY TypeParts DEF IInv
<1>2. UNCHANGED <<nvs, conf, task, que, accepted, trouble>>
  BY DEF SysProvStart, SysGotIp, SysLost, SysLostProvisioning, SysLostRetry, SysReconnect,
         radio, events
<1>3. EventTypes' /\ (NotPending => NotPending')
  <2>1. CASE SysProvStart
    <3>1. /\ FrmwkEventCallback("unprovisioned") /\ "unprovisioned" \in ProvState
          /\ UNCHANGED <<prvState, noted>>
      BY <2>1 DEF SysProvStart, ProvState
    <3> QED BY <1>1, <3>1, CallbackTypes
  <2>2. CASE SysGotIp
    <3>1. /\ FrmwkEventCallback("wifiConnected") /\ "wifiConnected" \in ProvState
          /\ UNCHANGED <<prvState, noted>>
      BY <2>2 DEF SysGotIp, ProvState
    <3> QED BY <1>1, <3>1, CallbackTypes
  <2>3. CASE SysLost \/ SysLostProvisioning \/ SysLostRetry \/ SysReconnect
    BY <1>1, <2>3 DEF EventTypes, NotPending, SysLost, SysLostProvisioning, SysLostRetry,
                      SysReconnect, events
  <2> QED BY <2>1, <2>2, <2>3
<1>4. /\ sysPc' \in {"idle", "provStart", "lost", "lostRetry", "backoff"}
      /\ announced' \in {"nothing", "gotIp", "disconnected"}
      /\ wifi' \in {"init", "connUp", "connLost"}
  BY <1>1 DEF OtherTypes, SysProvStart, SysGotIp, SysLost, SysLostProvisioning, SysLostRetry,
              SysReconnect, link
<1>5. /\ ap' \in {ap, conf} /\ ap' \in Gateways \cup {NoGateway}
      /\ sta' \in {"idle", "connecting", "up"} /\ loop' \in Seq(LoopEvents)
  <2>1. CASE SysProvStart \/ SysLostProvisioning
    BY <1>1, <2>1 DEF RadioTypes, SysProvStart, SysLostProvisioning, radio
  <2>2. CASE SysGotIp \/ SysLost
    BY <1>1, <2>2, LoopTypes DEF RadioTypes, SysGotIp, SysLost, Dispatch
  <2>3. CASE SysLostRetry
    <3>1. (UNCHANGED <<sta, loop>> \/ Disconnect) /\ UNCHANGED ap
      BY <2>3 DEF SysLostRetry
    <3> QED BY <1>1, <3>1, DisconnectTypes DEF RadioTypes
  <2>4. CASE SysReconnect
    <3>1. Connect(conf) /\ UNCHANGED loop
      BY <2>4 DEF SysReconnect
    <3> QED BY <1>1, <3>1, ConnectTypes DEF RadioTypes
  <2> QED BY <2>1, <2>2, <2>3, <2>4
<1> QED BY <1>2, <1>3, <1>4, <1>5, SysKeeps

(***************************************************************************)
(* The provisioning task's steps.                                          *)
(***************************************************************************)
\* Steps that put no event, leave the record's gateway alone and do not get to
\* "provisioned".
LEMMA ProvKeeps ==
  ASSUME IInv, UNCHANGED <<nvsSsid, sysPc, announced, wifiData, events, accepted, trouble>>,
         TaskTypes', RadioTypes',
         nvsState' \in {"unprovisioned", "provisioning", "provisioned"},
         wifi' \in {"init", "connUp", "connLost"},
         conf' \in {conf, wifiData}, ap' \in {ap, wifiData},
         pc' # "provisioned",
         nvsState' = "provisioned" => pc' \in {"none", "provDone", "exitMem", "freed", "exited"},
         nvsState' = "provisioned" => nvsState = "provisioned" \/ pc = "provisioned"
  PROVE  IInv'
<1>1. NvsTypes' /\ OtherTypes' /\ EventTypes' /\ QueTypes'
  BY TypeParts DEF IInv, NvsTypes, OtherTypes, EventTypes, QueTypes, events
<1>2. NoCredentials' /\ OnItsWayOut'
  BY DEF IInv, NoCredentials, OnItsWayOut, NotPending, Without, events
<1> QED BY <1>1, <1>2, TypeParts2 DEF IInv

LEMMA ProvQuietStep ==
  ASSUME IInv, ProvScanning \/ ProvConnect \/ ProvStore \/ ProvDone \/ ProvFree \/ ProvExit \/ ProvFailed
  PROVE  IInv'
<1>1. NvsTypes /\ RadioTypes /\ OtherTypes /\ TaskTypes /\ EventTypes /\ QueTypes
  BY TypeParts DEF IInv
<1>2. UNCHANGED <<nvsSsid, sysPc, announced, last, wifiData, blacklist, events, accepted, trouble>>
  BY DEF ProvScanning, ProvConnect, ProvStore, ProvDone, ProvFree, ProvExit, ProvFailed, nvs, link
<1>3. /\ pc' \in {"poll", "provDone", "exitMem", "freed", "exited", "restart"}
      /\ TaskTypes'
  <2>1. pc' \in {"poll", "provDone", "exitMem", "freed", "exited", "restart"}
    BY DEF ProvScanning, ProvConnect, ProvStore, ProvDone, ProvFree, ProvExit, ProvFailed
  <2> QED BY <1>1, <1>2, <2>1 DEF TaskTypes
<1>4. RadioTypes' /\ conf' \in {conf, wifiData} /\ ap' \in {ap, wifiData}
  <2>1. CASE ProvConnect
    <3>1. conf' = wifiData /\ Connect(wifiData) /\ UNCHANGED loop
      BY <2>1 DEF ProvConnect
    <3>2. wifiData \in Gateways \cup {NoGateway}
      BY <1>1 DEF TaskTypes
    <3> QED BY <1>1, <3>1, <3>2, ConnectTypes DEF RadioTypes
  <2>2. CASE ProvFailed
    <3>1. Disconnect /\ UNCHANGED <<conf, ap>>
      BY <2>2 DEF ProvFailed
    <3> QED BY <1>1, <3>1, DisconnectTypes DEF RadioTypes
  <2>3. CASE ProvScanning \/ ProvStore \/ ProvDone \/ ProvFree \/ ProvExit
    BY <1>1, <2>3 DEF RadioTypes, radio, ProvScanning, ProvStore, ProvDone, ProvFree, ProvExit
  <2> QED BY <2>1, <2>2, <2>3
<1>5. /\ nvsState' \in {"unprovisioned", "provisioning", "provisioned"}
      /\ wifi' \in {"init", "connUp", "connLost"}
  BY <1>1 DEF NvsTypes, OtherTypes, ProvScanning, ProvConnect, ProvStore, ProvDone, ProvFree, ProvExit,
              ProvFailed, nvs, link
<1>6. /\ nvsState' = "provisioned" => pc' \in {"none", "provDone", "exitMem", "freed", "exited"}
      /\ nvsState' = "provisioned" => nvsState = "provisioned" \/ pc = "provisioned"
  <2>1. OnItsWayOut
    BY DEF IInv
  <2> QED BY <2>1 DEF OnItsWayOut, ProvScanning, ProvConnect, ProvStore, ProvDone, ProvFree, ProvExit,
                      ProvFailed, nvs
<1>7. pc' # "provisioned"
  BY <1>3
<1> QED BY <1>2, <1>3, <1>4, <1>5, <1>6, <1>7, ProvKeeps

LEMMA ProvGetStep ==
  ASSUME IInv, ProvGet
  PROVE  IInv'
<1>1. NvsTypes /\ RadioTypes /\ OtherTypes /\ TaskTypes /\ EventTypes /\ QueTypes
  BY TypeParts DEF IInv
<1>2. /\ last' = Queue!Oldest(que) /\ que' = Queue!AfterGet(que) /\ pc = "poll"
      /\ pc' = "poll" \/ (pc' = last' /\ last' # "null")
      /\ UNCHANGED <<nvs, radio, sysPc, link, wifiData, blacklist, prvState, pending, noted,
                     accepted, trouble>>
  BY DEF ProvGet, Idle
<1>3. /\ QueTypes' /\ last' \in ProvState \cup {"null"}
      /\ Without(que, "provisioned") => Without(que', "provisioned") /\ last' # "provisioned"
  BY <1>1, <1>2, AfterGetType DEF QueTypes
<1>4. TypeOK'
  <2>1. pc' \in ProvState \cup {"poll"}
    BY <1>2, <1>3
  <2>2. TaskTypes'
    BY <1>1, <1>2, <1>3, <2>1 DEF TaskTypes
  <2>3. NvsTypes' /\ RadioTypes' /\ OtherTypes' /\ EventTypes'
    BY <1>1, <1>2 DEF NvsTypes, RadioTypes, OtherTypes, EventTypes, nvs, radio, link
  <2> QED BY <1>3, <2>2, <2>3, TypeParts2
<1>5. NoCredentials' /\ OnItsWayOut'
  BY <1>2, <1>3 DEF IInv, NoCredentials, OnItsWayOut, NotPending, nvs, radio
<1> QED BY <1>4, <1>5 DEF IInv

\* Steps that call setProvState.  s: the event; g: what the scan stored, or nothing.
LEMMA ProvSets ==
  ASSUME IInv, NEW s \in ProvState, SetProvState("prov", s),
         UNCHANGED <<nvsState, radio, sysPc, link, last, prvState, noted, que>>,
         nvsState # "provisioned",
         pc' \in {"scan", "poll", "post", "notified"},
         wifiData' \in Gateways \cup {NoGateway}, nvsSsid' \in Gateways \cup {NoGateway},
         nvsSsid' = NoGateway => nvsSsid = NoGateway /\ wifiData' = NoGateway,
         s = "provisioned" => nvsSsid' # NoGateway,
         blacklist' \in Seq(Gateways), Len(blacklist') <= SSID_BLACKLIST_SZ,
         accepted' \in SUBSET Accepting, trouble' \in 0..MaxTrouble
  PROVE  IInv'
<1>1. NvsTypes /\ RadioTypes /\ OtherTypes /\ TaskTypes /\ EventTypes /\ QueTypes
  BY TypeParts DEF IInv
<1>2. EventTypes' /\ (NotPending /\ s # "provisioned" => NotPending')
  BY <1>1, SetTypes
<1>3. TypeOK'
  <2>1. NvsTypes' /\ RadioTypes' /\ OtherTypes'
    BY <1>1 DEF NvsTypes, RadioTypes, OtherTypes, radio, link
  <2>2. TaskTypes' /\ QueTypes'
    BY <1>1 DEF TaskTypes, QueTypes
  <2> QED BY <1>2, <2>1, <2>2, TypeParts2
<1>4. NoCredentials' /\ OnItsWayOut'
  BY <1>2 DEF IInv, NoCredentials, OnItsWayOut, Without, radio
<1> QED BY <1>3, <1>4 DEF IInv

LEMMA ProvSetStep ==
  ASSUME IInv, ProvSettle \/ ProvConnected \/ ProvRestart
  PROVE  IInv'
<1>1. NvsTypes /\ RadioTypes /\ OtherTypes /\ TaskTypes /\ EventTypes /\ QueTypes
  BY TypeParts DEF IInv
<1>2. nvsState # "provisioned"
  BY DEF IInv, OnItsWayOut, ProvSettle, ProvConnected, ProvRestart
<1>3. /\ UNCHANGED <<nvsState, nvsSsid, radio, sysPc, link, last, wifiData, blacklist, prvState,
                     noted, que, accepted, trouble>>
      /\ pc' \in {"scan", "poll", "post", "notified"}
      /\ \E s \in {"scanning", "provisioning", "unprovisioned"} : SetProvState("prov", s)
  BY DEF ProvSettle, ProvConnected, ProvRestart, nvs
<1>4. PICK s \in {"scanning", "provisioning", "unprovisioned"} : SetProvState("prov", s)
  BY <1>3
<1>5. s \in ProvState /\ s # "provisioned"
  BY DEF ProvState
<1>6. nvsSsid' = NoGateway => nvsSsid = NoGateway /\ wifiData' = NoGateway
  BY <1>3 DEF IInv, NoCredentials
<1> QED BY <1>1, <1>2, <1>3, <1>4, <1>5, <1>6, ProvSets DEF NvsTypes, TaskTypes, OtherTypes

LEMMA ProvScanStep ==
  ASSUME IInv, ProvScan
  PROVE  IInv'
<1>1. NvsTypes /\ RadioTypes /\ OtherTypes /\ TaskTypes /\ EventTypes /\ QueTypes
  BY TypeParts DEF IInv
<1>2. /\ UNCHANGED <<nvsState, radio, sysPc, link, last, blacklist, prvState, noted, que, accepted>>
      /\ pc = "scan" /\ pc' = "poll" /\ nvsState # "provisioned"
  BY DEF IInv, OnItsWayOut, ProvScan
<1>3. CASE ScanFails
  <2>1. SetProvState("prov", "unprovisioned") /\ UNCHANGED nvsSsid
    BY <1>3 DEF ScanFails
  <2>2. wifiData' \in {wifiData, NoGateway} /\ trouble' \in 0..MaxTrouble
    BY <1>1, <1>3 DEF ScanFails, Misfortune, OtherTypes
  <2>3. "unprovisioned" \in ProvState
    BY DEF ProvState
  <2>4. nvsSsid' = NoGateway => nvsSsid = NoGateway /\ wifiData' = NoGateway
    BY <2>1, <2>2 DEF IInv, NoCredentials
  <2> QED BY <1>1, <1>2, <2>1, <2>2, <2>3, <2>4, ProvSets DEF NvsTypes, TaskTypes, OtherTypes
<1>4. CASE \E g \in Gateways : ScanFinds(g)
  <2>1. PICK g \in Gateways : ScanFinds(g)
    BY <1>4
  <2>2. /\ SetProvState("prov", "wifiConnecting") /\ wifiData' = g /\ nvsSsid' = g
        /\ UNCHANGED trouble /\ g # NoGateway
    BY <2>1 DEF ScanFinds
  <2>3. "wifiConnecting" \in ProvState
    BY DEF ProvState
  <2> QED BY <1>1, <1>2, <2>2, <2>3, ProvSets DEF NvsTypes, TaskTypes, OtherTypes
<1> QED BY <1>3, <1>4 DEF ProvScan

LEMMA ProvPostStep ==
  ASSUME IInv, ProvPost
  PROVE  IInv'
<1>1. NvsTypes /\ RadioTypes /\ OtherTypes /\ TaskTypes /\ EventTypes /\ QueTypes
  BY TypeParts DEF IInv
<1>2. /\ UNCHANGED <<nvsState, nvsSsid, radio, sysPc, link, last, wifiData, prvState, noted, que>>
      /\ pc = "post" /\ pc' = "poll" /\ nvsState # "provisioned"
  BY DEF IInv, OnItsWayOut, ProvPost, nvs
<1>3. nvsSsid' = NoGateway => nvsSsid = NoGateway /\ wifiData' = NoGateway
  BY <1>2 DEF IInv, NoCredentials
<1>4. "provisioned" \in ProvState /\ "provisionFailed" \in ProvState
  BY DEF ProvState
<1>5. CASE Registered
  <2>1. /\ SetProvState("prov", "provisioned") /\ ap \in Accepting
        /\ accepted' = accepted \cup {ap} /\ UNCHANGED <<blacklist, trouble>>
    BY <1>5 DEF Registered
  <2>2. nvsSsid' # NoGateway
    BY <1>2, <2>1 DEF IInv, NoCredentials
  <2> QED BY <1>1, <1>2, <1>3, <1>4, <2>1, <2>2, ProvSets DEF NvsTypes, TaskTypes, OtherTypes
<1>6. CASE Refused
  <2>1. SetProvState("prov", "provisionFailed") /\ UNCHANGED <<accepted, trouble>>
    BY <1>6 DEF Refused
  <2>2. blacklist' \in Seq(Gateways) /\ Len(blacklist') <= SSID_BLACKLIST_SZ
    <3>1. blacklist \in Seq(Gateways) /\ Len(blacklist) <= SSID_BLACKLIST_SZ
      BY <1>1 DEF TaskTypes
    <3>2. wifiData \in Gateways => /\ Append(blacklist, wifiData) \in Seq(Gateways)
                                   /\ Len(Append(blacklist, wifiData)) = Len(blacklist) + 1
      BY <3>1
    <3> QED BY <1>6, <3>1, <3>2 DEF Refused
  <2> QED BY <1>1, <1>2, <1>3, <1>4, <2>1, <2>2, ProvSets DEF NvsTypes, TaskTypes, OtherTypes
<1>7. CASE NoAnswer
  <2>1. SetProvState("prov", "provisionFailed") /\ UNCHANGED blacklist
    BY <1>7 DEF NoAnswer
  <2>2. accepted' \in SUBSET Accepting /\ trouble' \in 0..MaxTrouble
    BY <1>1, <1>7 DEF NoAnswer, Misfortune, OtherTypes
  <2> QED BY <1>1, <1>2, <1>3, <1>4, <2>1, <2>2, ProvSets DEF NvsTypes, TaskTypes, OtherTypes
<1> QED BY <1>5, <1>6, <1>7 DEF ProvPost

LEMMA ExpireStep ==
  ASSUME IInv, BlacklistExpires
  PROVE  IInv'
<1>1. /\ Tail(blacklist) \in Seq(Gateways) /\ Len(Tail(blacklist)) <= SSID_BLACKLIST_SZ
  <2>1. blacklist \in Seq(Gateways) /\ blacklist # <<>> /\ Len(blacklist) <= SSID_BLACKLIST_SZ
    BY DEF IInv, TypeOK, BlacklistExpires
  <2> QED BY <2>1
<1>2. trouble' \in 0..MaxTrouble
  BY DEF IInv, TypeOK, BlacklistExpires, Misfortune
<1>3. TypeOK'
  <2>1. UNCHANGED <<nvs, radio, sysPc, link, pc, last, wifiData, events, accepted>>
          /\ blacklist' = Tail(blacklist)
    BY DEF BlacklistExpires
  <2> QED BY <1>1, <1>2, <2>1 DEF IInv, TypeOK, nvs, radio, link, events
<1>4. NoCredentials' /\ OnItsWayOut'
  BY DEF IInv, NoCredentials, OnItsWayOut, NotPending, Without, BlacklistExpires, nvs, radio, events
<1> QED BY <1>3, <1>4 DEF IInv

(***************************************************************************)
(* The theorems.                                                           *)
(***************************************************************************)
LEMMA Steps == IInv /\ [Next]_vars => IInv'
<1> SUFFICES ASSUME IInv, [Next]_vars PROVE IInv'
  OBVIOUS
<1>1. CASE Associate \/ ConnectFails \/ LinkLost
  BY <1>1, RadioStep
<1>2. CASE SysStep
  <2>1. CASE Note("sys") \/ Put("sys") \/ PutFreed
    BY <2>1, NoteStep, PutStep, PutFreedStep
  <2>2. CASE SysStart
    BY <2>2, SysStartStep
  <2>3. CASE SysProvStart \/ SysGotIp \/ SysLost \/ SysLostProvisioning \/ SysLostRetry
               \/ SysReconnect
    BY <2>3, SysOtherStep
  <2> QED BY <1>2, <2>1, <2>2, <2>3 DEF SysStep
<1>3. CASE ProvStep
  <2>1. CASE Note("prov") \/ Put("prov")
    BY <2>1, NoteStep, PutStep
  <2>2. CASE ProvGet
    BY <2>2, ProvGetStep
  <2>3. CASE ProvScanning \/ ProvConnect \/ ProvStore \/ ProvDone \/ ProvFree \/ ProvExit \/ ProvFailed
    BY <2>3, ProvQuietStep
  <2>4. CASE ProvSettle \/ ProvConnected \/ ProvRestart
    BY <2>4, ProvSetStep
  <2>5. CASE ProvScan \/ ProvPost
    BY <2>5, ProvScanStep, ProvPostStep
  <2> QED BY <1>3, <2>1, <2>2, <2>3, <2>4, <2>5 DEF ProvStep
<1>4. CASE BlacklistExpires
  BY <1>4, ExpireStep
<1>5. CASE Crash \/ RecoveryReboot
  <2>1. trouble' \in 0..MaxTrouble /\ Restart
    BY <1>5 DEF IInv, TypeOK, Crash, RecoveryReboot, Misfortune
  <2> QED BY <2>1, RestartStep
<1>6. CASE UNCHANGED vars
  <2>1. UNCHANGED <<nvs, radio, sysPc, link, task, events, accepted, trouble>>
    BY <1>6 DEF vars
  <2> QED BY <2>1 DEF IInv, TypeOK, NoCredentials, OnItsWayOut, NotPending, Without, nvs, radio,
                      link, task, events
<1> QED BY <1>1, <1>2, <1>3, <1>4, <1>5, <1>6 DEF Next

LEMMA Invariant == Spec => []IInv
<1>1. Init => IInv
  BY Starts
<1>2. IInv /\ [Next]_vars => IInv'
  BY Steps
<1> QED BY <1>1, <1>2, PTL DEF Spec

\* The variables keep their types, the event ring and the blacklist their bounds.
THEOREM ProvTypeOK == Spec => []TypeOK
<1>1. IInv => TypeOK
  BY DEF IInv
<1> QED BY <1>1, Invariant, PTL

\* However the steps of both tasks interleave and wherever the power fails, a
\* record that says provisioned has a gateway (provTask, csProvConfStore).
THEOREM ProvisionedHasGateway == Spec => []CredentialsStored
<1>1. IInv => CredentialsStored
  <2> SUFFICES ASSUME IInv, nvsState = "provisioned" PROVE nvsSsid \in Gateways
    BY DEF CredentialsStored
  <2>1. nvsSsid \in Gateways \cup {NoGateway} /\ nvsSsid # NoGateway
    BY DEF IInv, TypeOK, NoCredentials
  <2> QED BY <2>1
<1> QED BY <1>1, Invariant, PTL

\* No step of either task takes a provisioned record back.
THEOREM ProvisionedStays == Spec => ProvisionedIsFinal
<1>1. IInv /\ [Next]_vars => [nvsState = "provisioned" => nvsState' = "provisioned"]_vars
  <2> SUFFICES ASSUME IInv, Next, nvsState = "provisioned" PROVE nvsState' = "provisioned"
    OBVIOUS
  <2>1. pc \in {"none", "provDone", "exitMem", "freed", "exited"}
    BY DEF IInv, OnItsWayOut
  <2>2. CASE SysStep
    BY <2>2 DEF SysStep, SysStart, SysProvStart, SysGotIp, SysLost, SysLostProvisioning,
                SysLostRetry, SysReconnect, Note, Put, PutFreed, Restart, nvs
  <2>3. CASE ProvStep
    BY <2>1, <2>3 DEF ProvStep, ProvGet, ProvSettle, ProvScan, ProvScanning, ProvConnect,
                      ProvConnected, ProvPost, ProvStore, ProvDone, ProvFree, ProvExit, ProvFailed,
                      ProvRestart, Note, Put, nvs
  <2>4. CASE Associate \/ ConnectFails \/ LinkLost \/ BlacklistExpires \/ Crash \/ RecoveryReboot
    BY <2>4 DEF Associate, ConnectFails, LinkLost, RadioOnly, BlacklistExpires, Crash,
                RecoveryReboot, Restart, nvs
  <2> QED BY <2>2, <2>3, <2>4 DEF Next
<1> QED BY <1>1, Invariant, PTL DEF Spec, ProvisionedIsFinal

(***************************************************************************)
(* A start in which nothing goes wrong but refusals.  One thing is asked   *)
(* for at a time: Behind(l, b) says that the task has read l last and that *)
(* the events b are still to come, the last of them perhaps still to be    *)
(* put into the ring; l itself may still be at its head.  Announces(s): it *)
(* is s that the static variable of setProvState holds or is about to.     *)
(* The event task has something to put only while the other task waits     *)
(* for events.                                                             *)
(***************************************************************************)
Queued(l, b) == \/ que = b /\ (b = <<>> => l = "null")
                \/ que = <<l>> \o b /\ l # "null"

Behind(l, b) ==
    /\ last = l
    /\ \/ pending = NothingPending /\ Queued(l, b)
       \/ \E c \in Seq(ProvState), e \in ProvState, t \in {"sys", "prov"} :
            b = Append(c, e) /\ pending = [NothingPending EXCEPT ![t] = e] /\ Queued(l, c)

Announces(s) ==
    /\ noted \subseteq {t \in {"sys", "prov"} : pending[t] # "none"}
    /\ \/ prvState = s /\ \A t \in {"sys", "prov"} : pending[t] # "none" => t \in noted
       \/ \E t \in {"sys", "prov"} : pending[t] = s /\ s # "none" /\ t \notin noted

At(p, l, b, s) == pc = p /\ Announces(s) /\ Behind(l, b) /\ (p # "poll" => SysReady)

Still == loop = <<>> /\ sysPc = "idle"
Unlinked == sta = "idle" /\ wifi = "init"
Linked == sta = "up" /\ ap = nvsSsid /\ nvsSsid \in Gateways

Booting ==
    /\ Unlinked /\ nvsState = "unprovisioned" /\ loop = <<"start">> /\ sysPc = "idle"
    /\ At("none", "null", <<>>, "null")

Starting ==
    /\ Unlinked /\ loop = <<>> /\ sysPc = "provStart" /\ pending = NothingPending
    /\ \/ At("poll", "null", <<"initial">>, "initial")
       \/ At("poll", "initial", <<>>, "initial")

\* A scan is asked for, or it found nothing.
Scanning ==
    /\ Unlinked /\ Still
    /\ \/ At("poll", "null", <<"initial", "unprovisioned">>, "unprovisioned")
       \/ At("poll", "initial", <<"unprovisioned">>, "unprovisioned")
       \/ At("poll", "provisionFailed", <<"unprovisioned">>, "unprovisioned")
       \/ At("notified", "provisionFailed", <<"unprovisioned">>, "unprovisioned")
       \/ At("unprovisioned", "unprovisioned", <<>>, "unprovisioned")
       \/ At("scan", "unprovisioned", <<"scanning">>, "scanning")
       \/ At("poll", "unprovisioned", <<"scanning", "unprovisioned">>, "unprovisioned")
       \/ At("scanning", "scanning", <<"unprovisioned">>, "unprovisioned")
       \/ At("poll", "scanning", <<"unprovisioned">>, "unprovisioned")

\* A gateway was found and stored, and is not yet connected to.
Found ==
    /\ Unlinked /\ Still /\ wifiData = nvsSsid /\ nvsSsid \in Gateways
    /\ \/ At("poll", "unprovisioned", <<"scanning", "wifiConnecting">>, "wifiConnecting")
       \/ At("scanning", "scanning", <<"wifiConnecting">>, "wifiConnecting")
       \/ At("poll", "scanning", <<"wifiConnecting">>, "wifiConnecting")
       \/ At("wifiConnecting", "wifiConnecting", <<>>, "wifiConnecting")

Connecting ==
    /\ ap = nvsSsid /\ nvsSsid \in Gateways /\ wifi = "init" /\ sysPc = "idle"
    /\ \/ sta = "connecting" /\ loop = <<>>
       \/ sta = "up" /\ loop = <<"gotIp">>
    /\ At("poll", "wifiConnecting", <<>>, "wifiConnecting")

\* Connected, and not yet or not accepted.
Asking ==
    /\ Linked /\ Still /\ wifi = "init"
    /\ \/ At("poll", "wifiConnecting", <<"wifiConnected">>, "wifiConnected")
       \/ At("wifiConnected", "wifiConnected", <<>>, "wifiConnected")
       \/ At("post", "wifiConnected", <<"provisioning">>, "provisioning")
       \/ At("poll", "wifiConnected", <<"provisioning", "provisionFailed">>, "provisionFailed")
       \/ At("poll", "provisioning", <<"provisionFailed">>, "provisionFailed")
       \/ At("provisionFailed", "provisionFailed", <<>>, "provisionFailed")

Refusing ==
    /\ Unlinked /\ nvsState = "unprovisioned"
    /\ \/ loop = <<"disconnected">> /\ sysPc = "idle"
       \/ loop = <<>> /\ sysPc \in {"lost", "lostRetry", "idle"}
    /\ At("restart", "provisionFailed", <<>>, "provisionFailed")

Agreed ==
    /\ Linked /\ Still /\ wifi # "connLost" /\ nvsSsid \in accepted
    /\ \/ At("poll", "wifiConnected", <<"provisioning", "provisioned">>, "provisioned")
       \/ At("poll", "provisioning", <<"provisioned">>, "provisioned")
       \/ \E p \in {"provisioned", "provDone", "exitMem", "freed", "exited"} :
            At(p, "provisioned", <<>>, "provisioned")

Quiet == \/ Booting \/ Starting \/ Scanning \/ Found
         \/ Connecting \/ Asking \/ Refusing \/ Agreed

QuietInv == trouble = MaxTrouble => Quiet

(***************************************************************************)
(* What the operations on the ring, and setProvState, do to Behind and At. *)
(***************************************************************************)
USE DEF ProvState

LEMMA NothingWaits ==
  ASSUME pending \in [{"sys", "prov"} -> ProvState \cup {"none"}], SysReady, ProvReady
  PROVE  pending = NothingPending
BY DEF SysReady, ProvReady, NothingPending

LEMMA ReadyWithNothing ==
  ASSUME pending = NothingPending
  PROVE  SysReady /\ ProvReady
BY DEF SysReady, ProvReady, NothingPending

LEMMA BehindNothing ==
  ASSUME NEW l, Behind(l, <<>>)
  PROVE  last = l /\ pending = NothingPending /\ Queued(l, <<>>)
<1>1. \A c \in Seq(ProvState), e \in ProvState : Append(c, e) # <<>>
  OBVIOUS
<1> QED BY <1>1 DEF Behind

\* Nothing that matters to the events changes but the label of the task.
LEMMA AtMoves ==
  ASSUME NEW p, NEW q, NEW l, NEW b, NEW s, At(p, l, b, s), pc' = q,
         UNCHANGED <<last, events>>, q # "poll" => SysReady
  PROVE  At(q, l, b, s)'
<1>1. /\ last' = last /\ pending' = pending /\ que' = que /\ prvState' = prvState
      /\ noted' = noted
  BY DEF events
<1>2. Behind(l, b)' /\ Announces(s)'
  BY <1>1 DEF At, Behind, Queued, Announces
<1> QED BY <1>1, <1>2 DEF At, SysReady

\* With nothing on its way, the static variable is the last event.
LEMMA AtPrevious ==
  ASSUME NEW p, NEW l, NEW b, NEW s, At(p, l, b, s), pending = NothingPending
  PROVE  prvState = s /\ noted = {}
BY DEF At, Announces, NothingPending

\* The static variable is set.
LEMMA NoteMoves ==
  ASSUME NEW t \in {"sys", "prov"}, Note(t), NEW p,
         NEW l, NEW b, NEW s, At(p, l, b, s)
  PROVE  At(p, l, b, s)'
<1>1. /\ pending[t] # "none" /\ t \notin noted /\ prvState' = pending[t]
      /\ noted' = noted \cup {t}
      /\ pending' = pending /\ que' = que /\ last' = last /\ pc' = pc
  BY DEF Note, task
<1>2. \A u \in {"sys", "prov"} : u # t => pending[u] = "none"
  BY <1>1 DEF At, Behind, NothingPending
<1>3. pending[t] = s
  BY <1>1, <1>2 DEF At, Announces
<1>4. Announces(s)'
  BY <1>1, <1>2, <1>3 DEF At, Announces
<1>5. Behind(l, b)' /\ (p # "poll" => SysReady')
  BY <1>1 DEF At, Behind, Queued, SysReady
<1> QED BY <1>1, <1>4, <1>5 DEF At

\* provEvtPut
LEMMA PutBehind ==
  ASSUME PROV_EVT_Q_SZ >= 3, NEW t \in {"sys", "prov"}, Put(t),
         NEW l \in ProvState \cup {"null"}, NEW b \in Seq(ProvState), Len(b) <= 2, Behind(l, b),
         NEW s, Announces(s)
  PROVE  Behind(l, b)' /\ pending' = NothingPending /\ Announces(s)'
<1>1. pending[t] # "none" /\ pending # NothingPending
  BY DEF Put, NothingPending, Announces
<1>2. PICK c \in Seq(ProvState), e \in ProvState, u \in {"sys", "prov"} :
        b = Append(c, e) /\ pending = [NothingPending EXCEPT ![u] = e] /\ Queued(l, c)
  BY <1>1 DEF Behind
<1>3. u = t /\ pending[t] = e
  BY <1>1, <1>2 DEF NothingPending
<1>4. pending' = NothingPending
  BY <1>2, <1>3 DEF Put, Forgets, NothingPending
<1>0. Announces(s)'
  <2>1. prvState' = prvState /\ noted' = noted \ {t} /\ t \in noted
    BY DEF Put, Forgets
  <2>2. noted' = {} /\ prvState = s
    BY <1>2, <1>3, <2>1 DEF Announces, NothingPending
  <2> QED BY <1>4, <2>1, <2>2 DEF Announces, NothingPending
<1>5. Len(c) <= 1 /\ b # <<>>
  BY <1>2
<1>6. que' = Queue!AfterPut(que, e) /\ last' = last
  BY <1>3 DEF Put
<1>7. CASE que = c
  <2>1. Len(que) < PROV_EVT_Q_SZ
    BY <1>2, <1>5, <1>7
  <2>2. que' = Append(que, e)
    BY <1>6, <2>1 DEF Queue!AfterPut
  <2>3. que' = b
    BY <1>2, <1>7, <2>2
  <2> QED BY <1>0, <1>4, <1>5, <1>6, <2>3 DEF Behind, Queued
<1>8. CASE que = <<l>> \o c /\ l # "null"
  <2>1. <<l>> \in Seq(ProvState) /\ Len(<<l>>) = 1
    BY <1>8
  <2>2. Len(que) < PROV_EVT_Q_SZ
    <3>1. Len(que) = Len(c) + 1
      BY <1>2, <1>8, <2>1
    <3>2. Len(c) \in Nat /\ Len(c) + 1 <= 2
      BY <1>2, <1>5
    <3> QED BY <3>1, <3>2
  <2>3. que' = Append(que, e)
    BY <1>6, <2>2 DEF Queue!AfterPut
  <2>4. que' = <<l>> \o b
    <3>1. Append(<<l>> \o c, e) = (<<l>> \o c) \o <<e>> /\ b = c \o <<e>>
      BY <1>2, <2>1, AppendIsConcat, ConcatProperties
    <3>2. <<e>> \in Seq(ProvState)
      BY <1>2
    <3>3. (<<l>> \o c) \o <<e>> = <<l>> \o (c \o <<e>>)
      BY <1>2, <2>1, <3>2, ConcatAssociative
    <3> QED BY <1>8, <2>3, <3>1, <3>3
  <2> QED BY <1>0, <1>4, <1>6, <1>8, <2>4 DEF Behind, Queued
<1> QED BY <1>2, <1>7, <1>8 DEF Queued

\* provEvtGet: it returns the event read last once more, or the next one.
LEMMA GetBehind ==
  ASSUME pending = NothingPending, last' = Queue!Oldest(que), que' = Queue!AfterGet(que),
         UNCHANGED pending,
         NEW l \in ProvState \cup {"null"}, NEW b \in Seq(ProvState), Behind(l, b)
  PROVE  \/ last' = l /\ Behind(l, b)'
         \/ b # <<>> /\ last' = Head(b) /\ Behind(Head(b), Tail(b))'
<1>1. pending' = NothingPending /\ Queued(l, b)
  <2>1. \A e \in ProvState, t \in {"sys", "prov"} :
          NothingPending # [NothingPending EXCEPT ![t] = e]
    BY DEF NothingPending
  <2> QED BY <2>1 DEF Behind
<1>2. CASE que = <<>>
  <2>1. b = <<>> /\ l = "null"
    <3>1. <<l>> \o b # <<>> \/ l = "null"
      <4>1. l # "null" => <<l>> \in Seq(ProvState)
        OBVIOUS
      <4> QED BY <4>1
    <3> QED BY <1>1, <1>2, <3>1 DEF Queued
  <2>2. last' = "null" /\ que' = <<>>
    BY <1>2 DEF Queue!Oldest, Queue!AfterGet
  <2> QED BY <1>1, <2>1, <2>2 DEF Behind, Queued
<1>3. CASE que = b /\ b # <<>>
  <2>1. last' = Head(b) /\ Head(b) \in ProvState
    BY <1>3 DEF Queue!Oldest
  <2>2. CASE Len(b) > 1
    <3>1. que' = Tail(b)
      BY <1>3, <2>2 DEF Queue!AfterGet
    <3>2. Tail(b) # <<>>
      <4>1. Len(Tail(b)) = Len(b) - 1 /\ Tail(b) \in Seq(ProvState) /\ Len(b) \in Nat
        BY <1>3, HeadTailProperties
      <4>2. Len(Tail(b)) # 0
        BY <2>2, <4>1
      <4> QED BY <4>1, <4>2, EmptySeq
    <3> QED BY <1>1, <1>3, <2>1, <3>1, <3>2 DEF Behind, Queued
  <2>3. CASE Len(b) = 1
    <3>1. que' = b
      BY <1>3, <2>3 DEF Queue!AfterGet
    <3>2. Tail(b) \in Seq(ProvState) /\ Len(Tail(b)) = 0
      BY <1>3, <2>3, HeadTailProperties
    <3>3. Tail(b) = <<>>
      BY <3>2, EmptySeq
    <3>4. b = <<Head(b)>>
      BY <1>3, <2>1, <2>3, SeqEqual
    <3>5. b = <<Head(b)>> \o Tail(b)
      BY <2>1, <3>3, <3>4, ConcatEmptySeq
    <3> QED BY <1>1, <1>3, <2>1, <3>1, <3>3, <3>5 DEF Behind, Queued
  <2>4. Len(b) \in Nat \ {0}
    BY <1>3, EmptySeq
  <2>5. \A n \in Nat \ {0} : n > 1 \/ n = 1
    OBVIOUS
  <2> QED BY <2>2, <2>3, <2>4, <2>5
<1>4. CASE que = <<l>> \o b /\ l # "null"
  <2>1. <<l>> \in Seq(ProvState) /\ Len(<<l>>) = 1 /\ Len(que) = Len(b) + 1 /\ que[1] = l
    BY <1>4
  <2>2. last' = l
    BY <1>4, <2>1 DEF Queue!Oldest
  <2>3. CASE b = <<>>
    <3>1. que' = que
      BY <2>1, <2>3 DEF Queue!AfterGet
    <3> QED BY <1>1, <1>4, <2>2, <3>1 DEF Behind, Queued
  <2>4. CASE b # <<>>
    <3>1. que' = Tail(que)
      BY <2>1, <2>4 DEF Queue!AfterGet
    <3>2. Tail(que) = b
      BY <1>4, <2>1
    <3> QED BY <1>1, <2>2, <2>4, <3>1, <3>2 DEF Behind, Queued
  <2> QED BY <2>3, <2>4
<1> QED BY <1>1, <1>2, <1>3, <1>4 DEF Queued

\* setProvState with an event that is not the previous one
LEMMA SetBehind ==
  ASSUME pending = NothingPending, NEW t \in {"sys", "prov"}, NEW e \in ProvState,
         SetProvState(t, e), prvState # e, UNCHANGED <<last, prvState, noted, que>>,
         noted = {}, NEW l, NEW b \in Seq(ProvState), Behind(l, b)
  PROVE  Behind(l, Append(b, e))' /\ Announces(e)'
<1>1. Queued(l, b)
  <2>1. \A f \in ProvState, u \in {"sys", "prov"} :
          NothingPending # [NothingPending EXCEPT ![u] = f]
    BY DEF NothingPending
  <2> QED BY <2>1 DEF Behind
<1>2. pending' = [NothingPending EXCEPT ![t] = e]
  BY DEF SetProvState
<1>3. Announces(e)'
  BY <1>2 DEF Announces, NothingPending
<1> QED BY <1>1, <1>2, <1>3 DEF Behind, Queued

\* The same for the configurations of the task: where provTask goes on when it
\* has read e after l, and what a call of setProvState makes of them.
Turn(l, e) == IF e = l \/ e \in Idle THEN "poll" ELSE e

LEMMA GetMoves ==
  ASSUME ProvGet, pending \in [{"sys", "prov"} -> ProvState \cup {"none"}],
         NEW l \in ProvState \cup {"null"}, NEW b \in Seq(ProvState), NEW s,
         At("poll", l, b, s)
  PROVE  \/ At("poll", l, b, s)'
         \/ b # <<>> /\ At(Turn(l, Head(b)), Head(b), Tail(b), s)'
<1>1. /\ pending = NothingPending /\ last' = Queue!Oldest(que) /\ que' = Queue!AfterGet(que)
      /\ UNCHANGED <<pending, noted, prvState>> /\ SysReady' /\ last = l
      /\ pc' = Turn(last, last')
  BY NothingWaits DEF ProvGet, At, Behind, SysReady, Turn
<1>2. \/ last' = l /\ Behind(l, b)'
      \/ b # <<>> /\ last' = Head(b) /\ Behind(Head(b), Tail(b))'
  BY <1>1, GetBehind DEF At
<1>3. Turn(l, l) = "poll"
  BY DEF Turn
<1>4. Announces(s)'
  BY <1>1 DEF At, Announces
<1> QED BY <1>1, <1>2, <1>3, <1>4 DEF At

LEMMA SetMoves ==
  ASSUME NEW p, NEW q, NEW l, NEW b \in Seq(ProvState), NEW s, NEW e \in ProvState,
         NEW t \in {"sys", "prov"}, At(p, l, b, s), e # s,
         pending = NothingPending, SetProvState(t, e), UNCHANGED <<last, prvState, noted, que>>,
         pc' = q, t = "sys" => q = "poll"
  PROVE  At(q, l, Append(b, e), e)'
<1>1. Behind(l, Append(b, e))' /\ Announces(e)'
  BY SetBehind, AtPrevious DEF At
<1>2. q # "poll" => SysReady'
  BY AtPrevious DEF SetProvState, NothingPending, SysReady, At
<1> QED BY <1>1, <1>2 DEF At

LEMMA PutMoves ==
  ASSUME PROV_EVT_Q_SZ >= 3, NEW t \in {"sys", "prov"}, Put(t), NEW p,
         NEW l \in ProvState \cup {"null"}, NEW b \in Seq(ProvState), Len(b) <= 2, NEW s,
         At(p, l, b, s)
  PROVE  /\ At(IF t = "prov" /\ p = "notified" THEN "poll" ELSE p, l, b, s)'
         /\ b # <<>> /\ pending # NothingPending /\ pending' = NothingPending
<1>1. Behind(l, b)' /\ pending' = NothingPending /\ Announces(s)'
  BY PutBehind DEF At
<1>2. pc' = IF t = "prov" /\ p = "notified" THEN "poll" ELSE p
  BY DEF At, Put
<1>3. pending # NothingPending
  BY DEF Put, NothingPending, At, Announces
<1>4. b # <<>>
  BY <1>3, BehindNothing DEF At
<1>5. SysReady'
  BY <1>1 DEF NothingPending, SysReady
<1> QED BY <1>1, <1>2, <1>3, <1>4, <1>5 DEF At

\* Sequences of at most two events.
LEMMA Pairs ==
  /\ <<>> \in Seq(ProvState) /\ \A e \in ProvState : Append(<<>>, e) = <<e>>
  /\ \A e \in ProvState : <<e>> \in Seq(ProvState) /\ <<e>> # <<>> /\ Len(<<e>>) = 1
  /\ \A e, f \in ProvState : /\ Append(<<e>>, f) = <<e, f>> /\ <<e, f>> \in Seq(ProvState)
                              /\ <<e, f>> # <<>> /\ Len(<<e, f>>) = 2
<1>1. <<>> \in Seq(ProvState) /\ \A e \in ProvState : Append(<<>>, e) = <<e>>
  OBVIOUS
<1>2. \A e \in ProvState : <<e>> \in Seq(ProvState) /\ <<e>> # <<>> /\ Len(<<e>>) = 1
  OBVIOUS
<1>3. \A e, f \in ProvState : Append(<<e>>, f) = <<e, f>>
  <2> TAKE e, f \in ProvState
  <2>1. /\ Append(<<e>>, f) \in Seq(ProvState) /\ Len(Append(<<e>>, f)) = 2
        /\ Append(<<e>>, f)[1] = e /\ Append(<<e>>, f)[2] = f
    BY <1>2, AppendProperties
  <2>2. <<e, f>> \in Seq(ProvState) /\ Len(<<e, f>>) = 2 /\ <<e, f>>[1] = e /\ <<e, f>>[2] = f
    OBVIOUS
  <2>3. \A i \in 1..2 : Append(<<e>>, f)[i] = <<e, f>>[i]
    BY <2>1, <2>2
  <2> QED BY <2>1, <2>2, <2>3, SeqEqual
<1>4. \A e, f \in ProvState :
        <<e, f>> \in Seq(ProvState) /\ <<e, f>> # <<>> /\ Len(<<e, f>>) = 2
  OBVIOUS
<1> QED BY <1>1, <1>2, <1>3, <1>4

(***************************************************************************)
(* The phases, one lemma per step: the phase a step is possible in, and    *)
(* the one it leads to.                                                    *)
(***************************************************************************)
LEMMA AssociatePhase ==
  ASSUME IInv, Quiet, Associate
  PROVE  Quiet'
<1>1. Connecting /\ loop = <<>>
  BY DEF Associate, Quiet, Booting, Starting, Scanning, Found, Connecting, Asking, Refusing,
     Agreed, Unlinked, Linked
<1>2. At("poll", "wifiConnecting", <<>>, "wifiConnecting")'
  BY <1>1, AtMoves DEF Connecting, Associate, RadioOnly, task, At
<1>3. sta' = "up" /\ loop' = <<"gotIp">>
  BY <1>1 DEF Associate
<1>4. UNCHANGED <<ap, nvsSsid, wifi, sysPc>>
  BY DEF Associate, RadioOnly, nvs, link
<1> QED BY <1>1, <1>2, <1>3, <1>4 DEF Connecting, Quiet

LEMMA ConnectFailsPhase ==
  ASSUME IInv, Quiet, ConnectFails
  PROVE  Misfortune
<1>1. Connecting
  BY DEF ConnectFails, Quiet, Booting, Starting, Scanning, Found, Connecting, Asking, Refusing,
     Agreed, Unlinked, Linked
<1> QED BY <1>1 DEF ConnectFails, Connecting

LEMMA SysStartPhase ==
  ASSUME IInv, Quiet, SysStart
  PROVE  Quiet'
<1>1. Booting
  BY DEF SysStart, Dispatch, Quiet, Booting, Starting, Scanning, Found, Connecting, Asking,
     Refusing, Agreed, Still
<1>2. /\ last = "null" /\ pending = NothingPending /\ que = <<>>
  <2>1. Behind("null", <<>>)
    BY <1>1 DEF Booting, At
  <2> QED BY <2>1, BehindNothing DEF Queued
<1>3. /\ last' = "null" /\ pending' = NothingPending /\ que' = <<"initial">> /\ pc' = "poll"
      /\ prvState' = "initial" /\ loop' = <<>> /\ sysPc' = "provStart"
      /\ sta' = sta /\ wifi' = wifi
  BY <1>1, <1>2 DEF SysStart, Dispatch, Booting, Queue!AfterPut, link
<1>4. At("poll", "null", <<"initial">>, "initial")'
  <2>1. noted' = {}
    BY <1>1, <1>2, AtPrevious DEF Booting, SysStart
  <2> QED BY <1>3, <2>1, Pairs DEF At, Announces, Behind, Queued, NothingPending
<1> QED BY <1>1, <1>3, <1>4 DEF Booting, Starting, Unlinked, Quiet

LEMMA SysProvStartPhase ==
  ASSUME IInv, Quiet, SysProvStart
  PROVE  Quiet'
<1>1. Starting
  BY DEF SysProvStart, Quiet, Booting, Starting, Scanning, Found, Connecting, Asking, Refusing,
     Agreed, Still
<1>2. /\ pc = "poll" /\ pc' = "poll" /\ SetProvState("sys", "unprovisioned")
      /\ pending = NothingPending /\ UNCHANGED <<last, prvState, noted, que>>
  BY <1>1 DEF Starting, SysProvStart, FrmwkEventCallback, CallbackRegistered, At, task
<1>3. Unlinked' /\ Still'
  BY <1>1 DEF Starting, SysProvStart, Still, Unlinked, radio, link
<1>4. CASE At("poll", "null", <<"initial">>, "initial")
  <2>1. At("poll", "null", Append(<<"initial">>, "unprovisioned"), "unprovisioned")'
    BY <1>2, <1>4, Pairs, SetMoves
  <2> QED BY <1>3, <2>1, Pairs DEF Scanning, Quiet
<1>5. CASE At("poll", "initial", <<>>, "initial")
  <2>1. At("poll", "initial", Append(<<>>, "unprovisioned"), "unprovisioned")'
    BY <1>2, <1>5, Pairs, SetMoves
  <2> QED BY <1>3, <2>1, Pairs DEF Scanning, Quiet
<1> QED BY <1>1, <1>4, <1>5 DEF Starting

LEMMA SysGotIpPhase ==
  ASSUME IInv, Quiet, SysGotIp
  PROVE  Quiet'
<1>1. Connecting /\ sta = "up"
  BY DEF SysGotIp, Dispatch, Quiet, Booting, Starting, Scanning, Found, Connecting, Asking,
     Refusing, Agreed, Still
<1>2. /\ pc = "poll" /\ pc' = "poll" /\ SetProvState("sys", "wifiConnected")
      /\ UNCHANGED <<last, prvState, noted, que>>
  BY <1>1 DEF Connecting, SysGotIp, FrmwkEventCallback, CallbackRegistered, At, task
<1>3. pending = NothingPending
  BY <1>1, BehindNothing DEF Connecting, At
<1>4. At("poll", "wifiConnecting", Append(<<>>, "wifiConnected"), "wifiConnected")'
  BY <1>1, <1>2, <1>3, Pairs, SetMoves DEF Connecting
<1>5. Linked' /\ Still' /\ wifi' = "init"
  <2>1. nvsState # "provisioned"
    BY <1>2 DEF IInv, OnItsWayOut
  <2>2. loop = <<"gotIp">> /\ loop' = Tail(loop) /\ sysPc = "idle"
    BY <1>1 DEF Connecting, SysGotIp, Dispatch
  <2>3. Still'
    BY <2>2 DEF SysGotIp, Still
  <2> QED BY <1>1, <2>1, <2>3 DEF Connecting, SysGotIp, Linked, nvs
<1> QED BY <1>4, <1>5, Pairs DEF Asking, Quiet

LEMMA SysLostPhase ==
  ASSUME IInv, Quiet, SysLost \/ SysLostProvisioning \/ SysLostRetry
  PROVE  Quiet'
<1>1. Refusing
  BY DEF SysLost, SysLostProvisioning, SysLostRetry, Dispatch, Quiet, Booting, Starting, Scanning,
     Found, Connecting, Asking, Refusing, Agreed, Still
<1>2. UNCHANGED <<nvsState, sta, pc, last, events>>
  BY <1>1 DEF Refusing, SysLost, SysLostProvisioning, SysLostRetry, nvs, radio, task
<1>3. At("restart", "provisionFailed", <<>>, "provisionFailed")'
  BY <1>1, <1>2, AtMoves DEF Refusing, At
<1>4. /\ wifi' = "init"
      /\ loop' = <<>> /\ sysPc' \in {"lost", "lostRetry", "idle"}
  BY <1>1 DEF Refusing, Unlinked, SysLost, SysLostProvisioning, SysLostRetry, Dispatch, nvs, radio,
     link
<1> QED BY <1>1, <1>2, <1>3, <1>4 DEF Refusing, Unlinked, Quiet

LEMMA SysReconnectPhase ==
  ASSUME Quiet, SysReconnect
  PROVE  FALSE
BY DEF SysReconnect, Quiet, Booting, Starting, Scanning, Found, Connecting, Asking, Refusing,
   Agreed, Still

LEMMA ProvSettlePhase ==
  ASSUME IInv, Quiet, ProvSettle
  PROVE  Quiet'
<1>1. Unlinked /\ Still /\ At("unprovisioned", "unprovisioned", <<>>, "unprovisioned")
  BY DEF ProvSettle, Quiet, Booting, Starting, Scanning, Found, Connecting, Asking, Refusing,
     Agreed, At
<1>2. At("scan", "unprovisioned", Append(<<>>, "scanning"), "scanning")'
  BY <1>1, BehindNothing, Pairs, SetMoves DEF ProvSettle, At
<1>3. Unlinked' /\ Still'
  BY <1>1 DEF ProvSettle, Unlinked, Still, radio, link
<1> QED BY <1>2, <1>3, Pairs DEF Scanning, Quiet

LEMMA ProvScanPhase ==
  ASSUME IInv, Quiet, ProvScan
  PROVE  Quiet'
<1>1. Unlinked /\ Still /\ At("scan", "unprovisioned", <<"scanning">>, "scanning")
  BY DEF ProvScan, Quiet, Booting, Starting, Scanning, Found, Connecting, Asking, Refusing,
     Agreed, At
<1>2. pending = NothingPending
  BY <1>1, NothingWaits DEF IInv, TypeOK, ProvScan, At
<1>3. Unlinked' /\ Still' /\ pc' = "poll" /\ UNCHANGED <<last, prvState, noted, que>>
  BY <1>1 DEF ProvScan, Unlinked, Still, radio, link
<1>4. CASE ScanFails
  <2>1. At("poll", "unprovisioned", Append(<<"scanning">>, "unprovisioned"), "unprovisioned")'
    BY <1>1, <1>2, <1>3, <1>4, Pairs, SetMoves DEF ScanFails
  <2> QED BY <1>3, <2>1, Pairs DEF Scanning, Quiet
<1>5. CASE \E g \in Gateways : ScanFinds(g)
  <2>1. At("poll", "unprovisioned", Append(<<"scanning">>, "wifiConnecting"), "wifiConnecting")'
    BY <1>1, <1>2, <1>3, <1>5, Pairs, SetMoves DEF ScanFinds
  <2>2. wifiData' = nvsSsid' /\ nvsSsid' \in Gateways
    BY <1>5 DEF ScanFinds
  <2> QED BY <1>3, <2>1, <2>2, Pairs DEF Found, Quiet
<1> QED BY <1>4, <1>5 DEF ProvScan

LEMMA ProvScanningPhase ==
  ASSUME IInv, Quiet, ProvScanning
  PROVE  Quiet'
<1>1. UNCHANGED <<nvsSsid, sta, loop, sysPc, wifi, wifiData, last, events>> /\ pc' = "poll"
  BY DEF ProvScanning, radio, link
<1>2. Unlinked /\ Still
  BY DEF ProvScanning, Quiet, Booting, Starting, Scanning, Found, Connecting, Asking, Refusing,
     Agreed, At
<1>3. CASE At("scanning", "scanning", <<"unprovisioned">>, "unprovisioned")
  <2>1. At("poll", "scanning", <<"unprovisioned">>, "unprovisioned")'
    BY <1>1, <1>3, AtMoves
  <2> QED BY <1>1, <1>2, <2>1 DEF Scanning, Unlinked, Still, Quiet
<1>4. CASE Found /\ At("scanning", "scanning", <<"wifiConnecting">>, "wifiConnecting")
  <2>1. At("poll", "scanning", <<"wifiConnecting">>, "wifiConnecting")'
    BY <1>1, <1>4, AtMoves
  <2> QED BY <1>1, <1>2, <1>4, <2>1 DEF Found, Unlinked, Still, Quiet
<1>5. \/ At("scanning", "scanning", <<"unprovisioned">>, "unprovisioned")
      \/ Found /\ At("scanning", "scanning", <<"wifiConnecting">>, "wifiConnecting")
  BY DEF ProvScanning, Quiet, Booting, Starting, Scanning, Found, Connecting, Asking, Refusing,
     Agreed, At
<1> QED BY <1>3, <1>4, <1>5

LEMMA ProvConnectPhase ==
  ASSUME IInv, Quiet, ProvConnect
  PROVE  Quiet'
<1>1. Found /\ At("wifiConnecting", "wifiConnecting", <<>>, "wifiConnecting")
  BY DEF ProvConnect, Quiet, Booting, Starting, Scanning, Found, Connecting, Asking, Refusing,
     Agreed, At
<1>2. At("poll", "wifiConnecting", <<>>, "wifiConnecting")'
  BY <1>1, AtMoves DEF ProvConnect
<1>3. sta' = "connecting" /\ ap' = nvsSsid' /\ nvsSsid' \in Gateways
      /\ wifi' = "init" /\ sysPc' = "idle" /\ loop' = <<>>
  BY <1>1 DEF ProvConnect, Found, Unlinked, Still, Connect, nvs, link
<1> QED BY <1>2, <1>3 DEF Connecting, Quiet

LEMMA ProvConnectedPhase ==
  ASSUME IInv, Quiet, ProvConnected
  PROVE  Quiet'
<1>1. /\ Linked /\ Still /\ wifi = "init"
      /\ At("wifiConnected", "wifiConnected", <<>>, "wifiConnected")
  BY DEF ProvConnected, Quiet, Booting, Starting, Scanning, Found, Connecting, Asking, Refusing,
     Agreed, At
<1>2. At("post", "wifiConnected", Append(<<>>, "provisioning"), "provisioning")'
  BY <1>1, BehindNothing, Pairs, SetMoves DEF ProvConnected, At
<1>3. Linked' /\ Still' /\ wifi' = "init"
  BY <1>1 DEF ProvConnected, Linked, Still, nvs, radio, link
<1> QED BY <1>2, <1>3, Pairs DEF Asking, Quiet

LEMMA ProvPostPhase ==
  ASSUME IInv, Quiet, ProvPost, ~Misfortune
  PROVE  Quiet'
<1>1. /\ Linked /\ Still /\ wifi = "init"
      /\ At("post", "wifiConnected", <<"provisioning">>, "provisioning")
  BY DEF ProvPost, Quiet, Booting, Starting, Scanning, Found, Connecting, Asking, Refusing,
     Agreed, At
<1>2. pending = NothingPending
  BY <1>1, NothingWaits DEF IInv, TypeOK, ProvPost, At
<1>3. /\ Linked' /\ Still' /\ wifi' = "init" /\ pc' = "poll"
      /\ UNCHANGED <<last, prvState, noted, que>>
  BY <1>1 DEF ProvPost, Linked, Still, nvs, radio, link
<1>4. CASE Registered
  <2>1. At("poll", "wifiConnected", Append(<<"provisioning">>, "provisioned"), "provisioned")'
    BY <1>1, <1>2, <1>3, <1>4, Pairs, SetMoves DEF Registered
  <2>2. nvsSsid' \in accepted'
    BY <1>1, <1>3, <1>4 DEF Registered, Linked, ProvPost, radio
  <2> QED BY <1>3, <2>1, <2>2, Pairs DEF Agreed, Quiet
<1>5. CASE Refused
  <2>1. At("poll", "wifiConnected", Append(<<"provisioning">>, "provisionFailed"), "provisionFailed")'
    BY <1>1, <1>2, <1>3, <1>5, Pairs, SetMoves DEF Refused
  <2> QED BY <1>3, <2>1, Pairs DEF Asking, Quiet
<1>6. CASE NoAnswer
  BY <1>1, <1>6 DEF NoAnswer, Linked
<1> QED BY <1>4, <1>5, <1>6 DEF ProvPost

LEMMA ProvLeavesPhase ==
  ASSUME IInv, Quiet, ProvStore \/ ProvDone \/ ProvFree \/ ProvExit
  PROVE  Quiet'
<1>1. Agreed /\ At(pc, "provisioned", <<>>, "provisioned")
  BY DEF ProvStore, ProvDone, ProvFree, ProvExit, Quiet, Booting, Starting, Scanning, Found, Connecting,
     Asking, Refusing, Agreed, At
<1>2. /\ pc' \in {"provDone", "exitMem", "freed", "exited"} /\ wifi' \in {wifi, "connUp"}
      /\ UNCHANGED <<nvsSsid, sta, ap, loop, sysPc, last, events, accepted>>
  BY DEF ProvStore, ProvDone, ProvFree, ProvExit, nvs, radio, link
<1>3. SysReady
  BY <1>1, BehindNothing, ReadyWithNothing DEF At
<1>4. PICK p \in {"provDone", "exitMem", "freed", "exited"} : pc' = p
  BY <1>2
<1>5. At(p, "provisioned", <<>>, "provisioned")'
  BY <1>1, <1>2, <1>3, <1>4, AtMoves
<1>6. Linked' /\ Still' /\ wifi' # "connLost" /\ nvsSsid' \in accepted'
  BY <1>1, <1>2 DEF Agreed, Linked, Still
<1> QED BY <1>4, <1>5, <1>6 DEF Agreed, Quiet

LEMMA ProvFailedPhase ==
  ASSUME IInv, Quiet, ProvFailed
  PROVE  Quiet'
<1>1. /\ Linked /\ Still /\ wifi = "init"
      /\ At("provisionFailed", "provisionFailed", <<>>, "provisionFailed")
  BY DEF ProvFailed, Quiet, Booting, Starting, Scanning, Found, Connecting, Asking, Refusing,
     Agreed, At
<1>2. At("restart", "provisionFailed", <<>>, "provisionFailed")'
  BY <1>1, BehindNothing, ReadyWithNothing, AtMoves DEF ProvFailed, At
<1>3. Unlinked' /\ nvsState' = "unprovisioned" /\ loop' = <<"disconnected">> /\ sysPc' = "idle"
  BY <1>1 DEF ProvFailed, Disconnect, Linked, Still, Unlinked, link
<1> QED BY <1>2, <1>3 DEF Refusing, Quiet

LEMMA ProvRestartPhase ==
  ASSUME IInv, Quiet, ProvRestart
  PROVE  Quiet'
<1>1. Refusing
  BY DEF ProvRestart, Quiet, Booting, Starting, Scanning, Found, Connecting, Asking, Refusing,
     Agreed, At
<1>2. Unlinked' /\ Still'
  BY <1>1 DEF ProvRestart, EventsHandled, Refusing, Unlinked, Still, radio, link
<1>3. At("notified", "provisionFailed", Append(<<>>, "unprovisioned"), "unprovisioned")'
  <2>1. At("restart", "provisionFailed", <<>>, "provisionFailed") /\ pending = NothingPending
    BY <1>1, BehindNothing DEF Refusing, At
  <2>2. prvState = "provisionFailed"
    BY <2>1, AtPrevious
  <2> QED BY <2>1, <2>2, Pairs, SetMoves DEF ProvRestart
<1> QED BY <1>2, <1>3, Pairs DEF Scanning, Quiet

\* The steps of both tasks that read or fill the ring.
LEMMA ReadNone ==
  ASSUME ProvGet, IInv, NEW l \in ProvState \cup {"null"}, NEW s, At("poll", l, <<>>, s)
  PROVE  At("poll", l, <<>>, s)'
BY GetMoves, Pairs DEF IInv, TypeOK

LEMMA ReadOne ==
  ASSUME ProvGet, IInv, NEW l \in ProvState \cup {"null"}, NEW e \in ProvState, NEW s, NEW p,
         At("poll", l, <<e>>, s), Turn(l, e) = p
  PROVE  At("poll", l, <<e>>, s)' \/ At(p, e, <<>>, s)'
<1>1. <<e>> \in Seq(ProvState) /\ Head(<<e>>) = e /\ Tail(<<e>>) = <<>>
  OBVIOUS
<1>2. \A b \in Seq(ProvState) : At("poll", l, b, s)
        => \/ At("poll", l, b, s)'
           \/ b # <<>> /\ At(Turn(l, Head(b)), Head(b), Tail(b), s)'
  BY GetMoves DEF IInv, TypeOK
<1> QED BY <1>1, <1>2

LEMMA ReadTwo ==
  ASSUME ProvGet, IInv, NEW l \in ProvState \cup {"null"}, NEW e \in ProvState,
         NEW f \in ProvState, NEW s, NEW p, At("poll", l, <<e, f>>, s), Turn(l, e) = p
  PROVE  At("poll", l, <<e, f>>, s)' \/ At(p, e, <<f>>, s)'
<1>1. <<e, f>> \in Seq(ProvState) /\ Head(<<e, f>>) = e /\ Tail(<<e, f>>) = <<f>>
  OBVIOUS
<1>2. \A b \in Seq(ProvState) : At("poll", l, b, s)
        => \/ At("poll", l, b, s)'
           \/ b # <<>> /\ At(Turn(l, Head(b)), Head(b), Tail(b), s)'
  BY GetMoves DEF IInv, TypeOK
<1> QED BY <1>1, <1>2

LEMMA GetPhase ==
  ASSUME IInv, Quiet, ProvGet
  PROVE  Quiet'
<1>2. /\ pc = "poll"
      /\ UNCHANGED <<nvsState, nvsSsid, sta, ap, loop, sysPc, wifi, wifiData, accepted, pending>>
  BY DEF ProvGet, nvs, radio, link
<1>3. ~Booting /\ ~Refusing
  BY <1>2 DEF Booting, Refusing, At
<1>4. CASE Starting
  <2>1. At("poll", "null", <<"initial">>, "initial")' \/ At("poll", "initial", <<>>, "initial")'
    BY <1>4, ReadNone, ReadOne DEF Starting, Turn, Idle
  <2> QED BY <1>2, <1>4, <2>1 DEF Starting, Unlinked, NothingPending, Quiet
<1>5. CASE Scanning
  <2>1. Unlinked' /\ Still'
    BY <1>2, <1>5 DEF Scanning, Unlinked, Still
  <2>2. CASE At("poll", "null", <<"initial", "unprovisioned">>, "unprovisioned")
    <3>1. \/ At("poll", "null", <<"initial", "unprovisioned">>, "unprovisioned")'
          \/ At("poll", "initial", <<"unprovisioned">>, "unprovisioned")'
      BY <2>2, ReadOne, ReadTwo DEF Turn, Idle
    <3> QED BY <2>1, <3>1 DEF Scanning, Quiet
  <2>3. CASE At("poll", "initial", <<"unprovisioned">>, "unprovisioned")
    <3>1. \/ At("poll", "initial", <<"unprovisioned">>, "unprovisioned")'
          \/ At("unprovisioned", "unprovisioned", <<>>, "unprovisioned")'
      BY <2>3, ReadOne, ReadTwo DEF Turn, Idle
    <3> QED BY <2>1, <3>1 DEF Scanning, Quiet
  <2>4. CASE At("poll", "provisionFailed", <<"unprovisioned">>, "unprovisioned")
    <3>1. \/ At("poll", "provisionFailed", <<"unprovisioned">>, "unprovisioned")'
          \/ At("unprovisioned", "unprovisioned", <<>>, "unprovisioned")'
      BY <2>4, ReadOne, ReadTwo DEF Turn, Idle
    <3> QED BY <2>1, <3>1 DEF Scanning, Quiet
  <2>5. CASE At("poll", "unprovisioned", <<"scanning", "unprovisioned">>, "unprovisioned")
    <3>1. \/ At("poll", "unprovisioned", <<"scanning", "unprovisioned">>, "unprovisioned")'
          \/ At("scanning", "scanning", <<"unprovisioned">>, "unprovisioned")'
      BY <2>5, ReadOne, ReadTwo DEF Turn, Idle
    <3> QED BY <2>1, <3>1 DEF Scanning, Quiet
  <2>6. CASE At("poll", "scanning", <<"unprovisioned">>, "unprovisioned")
    <3>1. \/ At("poll", "scanning", <<"unprovisioned">>, "unprovisioned")'
          \/ At("unprovisioned", "unprovisioned", <<>>, "unprovisioned")'
      BY <2>6, ReadOne, ReadTwo DEF Turn, Idle
    <3> QED BY <2>1, <3>1 DEF Scanning, Quiet
  <2> QED BY <1>2, <1>5, <2>2, <2>3, <2>4, <2>5, <2>6 DEF Scanning, At
<1>6. CASE Found
  <2>1. Unlinked' /\ Still' /\ wifiData' = nvsSsid' /\ nvsSsid' \in Gateways
    BY <1>2, <1>6 DEF Found, Unlinked, Still
  <2>2. CASE At("poll", "unprovisioned", <<"scanning", "wifiConnecting">>, "wifiConnecting")
    <3>1. \/ At("poll", "unprovisioned", <<"scanning", "wifiConnecting">>, "wifiConnecting")'
          \/ At("scanning", "scanning", <<"wifiConnecting">>, "wifiConnecting")'
      BY <2>2, ReadOne, ReadTwo DEF Turn, Idle
    <3> QED BY <2>1, <3>1 DEF Found, Quiet
  <2>3. CASE At("poll", "scanning", <<"wifiConnecting">>, "wifiConnecting")
    <3>1. \/ At("poll", "scanning", <<"wifiConnecting">>, "wifiConnecting")'
          \/ At("wifiConnecting", "wifiConnecting", <<>>, "wifiConnecting")'
      BY <2>3, ReadOne, ReadTwo DEF Turn, Idle
    <3> QED BY <2>1, <3>1 DEF Found, Quiet
  <2> QED BY <1>2, <1>6, <2>2, <2>3 DEF Found, At
<1>7. CASE Connecting
  <2>1. At("poll", "wifiConnecting", <<>>, "wifiConnecting")'
    BY <1>7, ReadNone DEF Connecting
  <2> QED BY <1>2, <1>7, <2>1 DEF Connecting, Quiet
<1>8. CASE Asking
  <2>1. Linked' /\ Still' /\ wifi' = "init"
    BY <1>2, <1>8 DEF Asking, Linked, Still
  <2>2. CASE At("poll", "wifiConnecting", <<"wifiConnected">>, "wifiConnected")
    <3>1. \/ At("poll", "wifiConnecting", <<"wifiConnected">>, "wifiConnected")'
          \/ At("wifiConnected", "wifiConnected", <<>>, "wifiConnected")'
      BY <2>2, ReadOne, ReadTwo DEF Turn, Idle
    <3> QED BY <2>1, <3>1 DEF Asking, Quiet
  <2>3. CASE At("poll", "wifiConnected", <<"provisioning", "provisionFailed">>, "provisionFailed")
    <3>1. \/ At("poll", "wifiConnected", <<"provisioning", "provisionFailed">>, "provisionFailed")'
          \/ At("poll", "provisioning", <<"provisionFailed">>, "provisionFailed")'
      BY <2>3, ReadOne, ReadTwo DEF Turn, Idle
    <3> QED BY <2>1, <3>1 DEF Asking, Quiet
  <2>4. CASE At("poll", "provisioning", <<"provisionFailed">>, "provisionFailed")
    <3>1. \/ At("poll", "provisioning", <<"provisionFailed">>, "provisionFailed")'
          \/ At("provisionFailed", "provisionFailed", <<>>, "provisionFailed")'
      BY <2>4, ReadOne, ReadTwo DEF Turn, Idle
    <3> QED BY <2>1, <3>1 DEF Asking, Quiet
  <2> QED BY <1>2, <1>8, <2>2, <2>3, <2>4 DEF Asking, At
<1>9. CASE Agreed
  <2>1. Linked' /\ Still' /\ wifi' # "connLost" /\ nvsSsid' \in accepted'
    BY <1>2, <1>9 DEF Agreed, Linked, Still
  <2>2. CASE At("poll", "wifiConnected", <<"provisioning", "provisioned">>, "provisioned")
    <3>1. \/ At("poll", "wifiConnected", <<"provisioning", "provisioned">>, "provisioned")'
          \/ At("poll", "provisioning", <<"provisioned">>, "provisioned")'
      BY <2>2, ReadOne, ReadTwo DEF Turn, Idle
    <3> QED BY <2>1, <3>1 DEF Agreed, Quiet
  <2>3. CASE At("poll", "provisioning", <<"provisioned">>, "provisioned")
    <3>1. \/ At("poll", "provisioning", <<"provisioned">>, "provisioned")'
          \/ At("provisioned", "provisioned", <<>>, "provisioned")'
      BY <2>3, ReadOne, ReadTwo DEF Turn, Idle
    <3> QED BY <2>1, <3>1 DEF Agreed, Quiet
  <2> QED BY <1>2, <1>9, <2>2, <2>3 DEF Agreed, At
<1> QED BY <1>3, <1>4, <1>5, <1>6, <1>7, <1>8, <1>9 DEF Quiet

LEMMA PutNone ==
  ASSUME PROV_EVT_Q_SZ >= 3, NEW t \in {"sys", "prov"}, Put(t), NEW p,
         NEW l \in ProvState \cup {"null"}, NEW s
  PROVE  ~At(p, l, <<>>, s)
<1> SUFFICES ASSUME At(p, l, <<>>, s) PROVE FALSE
  OBVIOUS
<1>1. <<>> \in Seq(ProvState) /\ Len(<<>>) <= 2
  BY EmptySeq
<1> QED BY <1>1, PutMoves

LEMMA PutOne ==
  ASSUME PROV_EVT_Q_SZ >= 3, NEW t \in {"sys", "prov"}, Put(t), NEW p,
         NEW l \in ProvState \cup {"null"}, NEW e \in ProvState, NEW s, At(p, l, <<e>>, s)
  PROVE  \/ At(p, l, <<e>>, s)'
         \/ p = "notified" /\ At("poll", l, <<e>>, s)'
<1>1. <<e>> \in Seq(ProvState) /\ Len(<<e>>) <= 2
  BY Pairs
<1>2. At(IF t = "prov" /\ p = "notified" THEN "poll" ELSE p, l, <<e>>, s)'
  BY <1>1, PutMoves
<1> QED BY <1>2

LEMMA PutTwo ==
  ASSUME PROV_EVT_Q_SZ >= 3, NEW t \in {"sys", "prov"}, Put(t), NEW p, p # "notified",
         NEW l \in ProvState \cup {"null"}, NEW e \in ProvState, NEW f \in ProvState, NEW s,
         At(p, l, <<e, f>>, s)
  PROVE  At(p, l, <<e, f>>, s)'
<1>1. <<e, f>> \in Seq(ProvState) /\ Len(<<e, f>>) <= 2
  BY Pairs
<1>2. At(IF t = "prov" /\ p = "notified" THEN "poll" ELSE p, l, <<e, f>>, s)'
  BY <1>1, PutMoves
<1> QED BY <1>2

LEMMA PutPhase ==
  ASSUME PROV_EVT_Q_SZ >= 3, IInv, Quiet, NEW t \in {"sys", "prov"}, Put(t)
  PROVE  Quiet'
<1>2. UNCHANGED <<nvsState, nvsSsid, sta, ap, loop, sysPc, wifi, wifiData, accepted>>
  BY DEF Put, nvs, radio, link
<1>3. pending # NothingPending
  BY DEF IInv, TypeOK, Put, NothingPending
<1>4. ~Booting /\ ~Starting /\ ~Connecting /\ ~Refusing
  BY <1>3, PutNone DEF Booting, Starting, Connecting, Refusing
<1>5. CASE Scanning
  <2>1. Unlinked' /\ Still'
    BY <1>2, <1>5 DEF Scanning, Unlinked, Still
  <2>2. CASE At("poll", "null", <<"initial", "unprovisioned">>, "unprovisioned")
    BY <2>1, <2>2, PutTwo DEF Scanning, Quiet
  <2>3. CASE At("poll", "initial", <<"unprovisioned">>, "unprovisioned")
    BY <2>1, <2>3, PutOne DEF Scanning, Quiet
  <2>4. CASE At("poll", "provisionFailed", <<"unprovisioned">>, "unprovisioned")
    BY <2>1, <2>4, PutOne DEF Scanning, Quiet
  <2>5. CASE At("notified", "provisionFailed", <<"unprovisioned">>, "unprovisioned")
    BY <2>1, <2>5, PutOne DEF Scanning, Quiet
  <2>6. CASE At("scan", "unprovisioned", <<"scanning">>, "scanning")
    <3>0. "scan" # "notified"
      OBVIOUS
    <3>1. At("scan", "unprovisioned", <<"scanning">>, "scanning")'
      BY <2>6, <3>0, PutOne
    <3> QED BY <2>1, <3>1 DEF Scanning, Quiet
  <2>7. CASE At("poll", "unprovisioned", <<"scanning", "unprovisioned">>, "unprovisioned")
    BY <2>1, <2>7, PutTwo DEF Scanning, Quiet
  <2>8. CASE At("scanning", "scanning", <<"unprovisioned">>, "unprovisioned")
    BY <2>1, <2>8, PutOne DEF Scanning, Quiet
  <2>9. CASE At("poll", "scanning", <<"unprovisioned">>, "unprovisioned")
    BY <2>1, <2>9, PutOne DEF Scanning, Quiet
  <2> QED BY <1>5, <2>2, <2>3, <2>4, <2>5, <2>6, <2>7, <2>8, <2>9, PutNone DEF Scanning
<1>6. CASE Found
  BY <1>2, <1>6, PutNone, PutOne, PutTwo DEF Found, Unlinked, Still, Quiet
<1>7. CASE Asking
  <2>1. Linked' /\ Still' /\ wifi' = "init"
    BY <1>2, <1>7 DEF Asking, Linked, Still
  <2>2. CASE At("poll", "wifiConnecting", <<"wifiConnected">>, "wifiConnected")
    BY <2>1, <2>2, PutOne DEF Asking, Quiet
  <2>3. CASE At("post", "wifiConnected", <<"provisioning">>, "provisioning")
    <3>0. "post" # "notified"
      OBVIOUS
    <3>1. At("post", "wifiConnected", <<"provisioning">>, "provisioning")'
      BY <2>3, <3>0, PutOne
    <3> QED BY <2>1, <3>1 DEF Asking, Quiet
  <2>4. CASE At("poll", "wifiConnected", <<"provisioning", "provisionFailed">>, "provisionFailed")
    BY <2>1, <2>4, PutTwo DEF Asking, Quiet
  <2>5. CASE At("poll", "provisioning", <<"provisionFailed">>, "provisionFailed")
    BY <2>1, <2>5, PutOne DEF Asking, Quiet
  <2> QED BY <1>7, <2>2, <2>3, <2>4, <2>5, PutNone DEF Asking
<1>8. CASE Agreed
  BY <1>2, <1>8, PutNone, PutOne, PutTwo DEF Agreed, Linked, Still, Quiet
<1> QED BY <1>4, <1>5, <1>6, <1>7, <1>8 DEF Quiet

LEMMA NotePhase ==
  ASSUME IInv, Quiet, NEW t \in {"sys", "prov"}, Note(t)
  PROVE  Quiet'
<1>1. \A p, l, b, s : At(p, l, b, s) => At(p, l, b, s)'
  BY NoteMoves
<1>2. UNCHANGED <<nvsState, nvsSsid, sta, ap, loop, sysPc, wifi, wifiData, accepted, pending>>
  BY DEF Note, nvs, radio, link, task
<1>3. CASE Booting \/ Starting
  BY <1>1, <1>2, <1>3 DEF Quiet, Booting, Starting, Unlinked, NothingPending
<1>4. CASE Scanning
  BY <1>1, <1>2, <1>4 DEF Quiet, Scanning, Unlinked, Still
<1>5. CASE Found \/ Connecting
  BY <1>1, <1>2, <1>5 DEF Quiet, Found, Connecting, Unlinked, Still
<1>6. CASE Asking \/ Refusing
  BY <1>1, <1>2, <1>6 DEF Quiet, Asking, Refusing, Unlinked, Linked, Still
<1>7. CASE Agreed
  BY <1>1, <1>2, <1>7 DEF Quiet, Agreed, Linked, Still
<1> QED BY <1>3, <1>4, <1>5, <1>6, <1>7 DEF Quiet

\* Nothing is put once the task has left.
LEMMA FreedPhase ==
  ASSUME IInv, Quiet
  PROVE  ~PutFreed
<1> SUFFICES ASSUME PutFreed PROVE FALSE
  OBVIOUS
<1>1. Agreed /\ At("freed", "provisioned", <<>>, "provisioned")
  BY DEF PutFreed, Quiet, Booting, Starting, Scanning, Found, Connecting, Asking, Refusing,
     Agreed, At
<1> QED BY <1>1, BehindNothing, AtPrevious DEF PutFreed, At

\* The invariant of a start without disturbances.
LEMMA QuietStarts == Init => Quiet
<1>1. Init => At("none", "null", <<>>, "null")
  BY DEF Init, At, Announces, Behind, Queued, SysReady, NothingPending
<1> QED BY <1>1 DEF Init, Booting, Unlinked, Quiet

LEMMA QuietSteps ==
  ASSUME PROV_EVT_Q_SZ >= 3, IInv, QuietInv, [Next]_vars
  PROVE  QuietInv'
<1> SUFFICES ASSUME trouble' = MaxTrouble PROVE Quiet'
  BY DEF QuietInv
<1>1. trouble = MaxTrouble /\ ~Misfortune /\ Quiet
  <2>1. trouble' = trouble \/ Misfortune
    BY DEF Next, SysStep, ProvStep, Associate, ConnectFails, LinkLost, SysStart, SysProvStart,
       SysGotIp, SysLost, SysLostProvisioning, SysLostRetry, SysReconnect, Note, Put, PutFreed, ProvGet,
       ProvSettle, ProvScan, ScanFinds, ScanFails, ProvScanning, ProvConnect, ProvConnected,
       ProvPost, Registered, Refused, NoAnswer, ProvStore, ProvDone, ProvFree, ProvExit, ProvFailed,
       ProvRestart, BlacklistExpires, Crash, RecoveryReboot, vars
  <2>2. trouble \in 0..MaxTrouble
    BY DEF IInv, TypeOK
  <2>3. ~Misfortune
    BY <2>2 DEF Misfortune
  <2> QED BY <2>1, <2>3 DEF QuietInv
<1>2. CASE SysStep
  BY <1>1, <1>2, SysStartPhase, SysProvStartPhase, SysGotIpPhase, SysLostPhase,
     SysReconnectPhase, NotePhase, PutPhase, FreedPhase DEF SysStep
<1>3. CASE ProvStep
  BY <1>1, <1>3, GetPhase, ProvSettlePhase, ProvScanPhase, ProvScanningPhase, ProvConnectPhase,
     ProvConnectedPhase, ProvPostPhase, ProvLeavesPhase, ProvFailedPhase, ProvRestartPhase,
     NotePhase, PutPhase DEF ProvStep
<1>4. CASE UNCHANGED <<nvs, radio, sysPc, link, pc, last, wifiData, events, accepted>>
  <2>1. ASSUME NEW p, NEW l, NEW b, NEW s, At(p, l, b, s) PROVE At(p, l, b, s)'
    BY <1>4, <2>1, AtMoves DEF At
  <2>2. UNCHANGED <<nvsState, nvsSsid, sta, ap, loop, sysPc, wifi, wifiData, accepted, pending>>
    BY <1>4 DEF nvs, radio, link, events
  <2>3. CASE Booting \/ Starting
    BY <2>1, <2>2, <2>3 DEF Quiet, Booting, Starting, Unlinked, NothingPending
  <2>4. CASE Scanning
    BY <2>1, <2>2, <2>4 DEF Quiet, Scanning, Unlinked, Still
  <2>5. CASE Found \/ Connecting
    BY <2>1, <2>2, <2>5 DEF Quiet, Found, Connecting, Unlinked, Still
  <2>6. CASE Asking \/ Refusing
    BY <2>1, <2>2, <2>6 DEF Quiet, Asking, Refusing, Unlinked, Linked, Still
  <2>7. CASE Agreed
    BY <2>1, <2>2, <2>7 DEF Quiet, Agreed, Linked, Still
  <2> QED BY <1>1, <2>3, <2>4, <2>5, <2>6, <2>7 DEF Quiet
<1>5. CASE Associate \/ ConnectFails \/ LinkLost \/ Crash
  BY <1>1, <1>5, AssociatePhase, ConnectFailsPhase DEF LinkLost, Crash
<1>6. ~RecoveryReboot
  BY <1>1 DEF RecoveryReboot, Quiet, Booting, Starting, Scanning, Found, Connecting, Asking,
     Refusing, Agreed, Unlinked
<1> QED BY <1>2, <1>3, <1>4, <1>5, <1>6 DEF Next, BlacklistExpires, vars, task

\* While nothing goes wrong but refusals, the SSID stored with a record that says
\* provisioned is one whose gateway answered the registration with 200, whatever
\* order the events of the two tasks are put and read in (startNetworkScan,
\* post_to_register).  Three events fit in the ring (provEvtQue_t holds 10).
THEOREM ProvisionedIsAccepted ==
  ASSUME PROV_EVT_Q_SZ >= 3
  PROVE  Spec => []ProvisionedSsidAccepted
<1>1. Init => QuietInv
  BY QuietStarts DEF QuietInv
<1>2. IInv /\ QuietInv /\ [Next]_vars => QuietInv'
  BY QuietSteps
<1>3. IInv /\ QuietInv => ProvisionedSsidAccepted
  <2> SUFFICES ASSUME IInv, QuietInv, AtMost(0), nvsState = "provisioned"
               PROVE  nvsSsid \in accepted
    BY DEF ProvisionedSsidAccepted
  <2>1. Quiet
    BY DEF IInv, TypeOK, AtMost, QuietInv
  <2>2. pc \in {"none", "provDone", "exitMem", "freed", "exited"}
    BY DEF IInv, OnItsWayOut
  <2> QED BY <2>1, <2>2 DEF Quiet, Booting, Starting, Scanning, Found, Connecting, Asking,
             Refusing, Agreed, At
<1> QED BY <1>1, <1>2, <1>3, Invariant, PTL DEF Spec

(***************************************************************************)
(* The ring in which the events wait (provEvtQue_t): for every size and    *)
(* every set of events its indexes never leave it or drift from its count, *)
(* and it implements the queue of which LrProv has the put and the get.    *)
(***************************************************************************)
RingInv == RingTypeOK /\ PutBehindLast /\ EmptyReadsNull

RingContent == Event \cup {NullEvent}

\* A function on 1..n is a sequence of length n.
LEMMA FunctionIsSeq ==
  ASSUME NEW S, NEW n \in Nat, NEW f \in [1..n -> S]
  PROVE  f \in Seq(S) /\ Len(f) = n
  BY SeqDef

\* The slots of the waiting events are slots, and no two of them coincide.
LEMMA RingSlots ==
  ASSUME RingTypeOK
  PROVE  /\ \A i \in 1..(SIZE + 1) : Slot(i) \in Slots
         /\ \A i, j \in 1..SIZE : Slot(i) = Slot(j) => i = j
         /\ Slot(1) = get /\ Slot(SIZE + 1) = get
         /\ \A i \in 1..SIZE : Slot(i + 1) = Advance(Slot(i))
  BY QueAssumption DEF RingTypeOK, Slots, Slot, Advance, QueAssumption

\* The waiting events form a sequence of count events.
LEMMA RingWaiting ==
  ASSUME RingTypeOK
  PROVE  /\ Waiting \in Seq(RingContent) /\ Len(Waiting) = count
         /\ \A i \in 1..count : Waiting[i] = evt[Slot(i)]
<1>1. count \in Nat /\ \A i \in 1..count : evt[Slot(i)] \in RingContent
  BY RingSlots, QueAssumption DEF RingTypeOK, RingContent, QueAssumption
<1>2. Waiting \in [1..count -> RingContent]
  BY <1>1 DEF Waiting
<1> QED BY <1>1, <1>2, FunctionIsSeq DEF Waiting

\* The ring starts empty, with zeroed slots.
LEMMA RingStarts == RingInit => RingInv
  BY QueAssumption
  DEF RingInit, RingInv, RingTypeOK, Slots, PutBehindLast, EmptyReadsNull, Slot, QueAssumption

\* A put keeps the types, and put stays behind the last waiting event.
LEMMA RingPutKeeps == ASSUME RingInv, NEW e \in Event, provEvtPut(e) PROVE RingInv'
  BY QueAssumption
  DEF provEvtPut, RingInv, RingTypeOK, Slots, PutBehindLast, EmptyReadsNull, Slot, Advance,
      QueAssumption

\* So does a get.
LEMMA RingGetKeeps == ASSUME RingInv, provEvtGet PROVE RingInv'
  BY QueAssumption
  DEF provEvtGet, RingInv, RingTypeOK, Slots, PutBehindLast, EmptyReadsNull, Slot, Advance,
      QueAssumption

\* Every step preserves the inductive invariant.
LEMMA RingSteps == RingInv /\ [RingNext]_ringVars => RingInv'
<1> SUFFICES ASSUME RingInv, [RingNext]_ringVars PROVE RingInv'
  OBVIOUS
<1>1. CASE UNCHANGED ringVars
  BY <1>1 DEF ringVars, RingInv, RingTypeOK, PutBehindLast, EmptyReadsNull, Slot
<1> QED BY <1>1, RingPutKeeps, RingGetKeeps DEF RingNext

\* The ring's invariant holds in every reachable state.
LEMMA RingInvariant == RingSpec => []RingInv
  BY RingStarts, RingSteps, PTL DEF RingSpec

\* The indexes of provEvtPut and provEvtGet stay inside the slot array.
THEOREM QueTypeOK == RingSpec => []RingTypeOK
<1>1. RingInv => RingTypeOK BY DEF RingInv
<1> QED BY <1>1, RingInvariant, PTL

\* put never drifts from get and count, full or not.
THEOREM PutStaysBehindLast == RingSpec => []PutBehindLast
<1>1. RingInv => PutBehindLast BY DEF RingInv
<1> QED BY <1>1, RingInvariant, PTL

\* A put into the ring is a put into the abstract queue.
LEMMA RingPutRefines ==
  ASSUME RingInv, RingInv', NEW e \in Event, provEvtPut(e)
  PROVE  Waiting' = Abstract!AfterPut(Waiting, e)
<1>1. /\ Waiting \in Seq(RingContent) /\ Len(Waiting) = count
      /\ \A i \in 1..count : Waiting[i] = evt[Slot(i)]
  BY RingWaiting DEF RingInv
<1>2. /\ \A i \in 1..(SIZE + 1) : Slot(i) \in Slots
      /\ \A i, j \in 1..SIZE : Slot(i) = Slot(j) => i = j
      /\ Slot(1) = get /\ Slot(SIZE + 1) = get
  BY RingSlots DEF RingInv
<1>3. /\ count \in 0..SIZE /\ SIZE \in Nat \ {0} /\ put = Slot(count + 1)
      /\ evt \in [Slots -> RingContent] /\ e \in RingContent
  BY QueAssumption DEF RingInv, RingTypeOK, PutBehindLast, RingContent, QueAssumption
<1>4. \A i : Slot(i)' = Slot(i)
  BY DEF provEvtPut, Slot
<1>5. CASE count < SIZE
  <2>1. count' = count + 1 /\ evt' = [evt EXCEPT ![Slot(count + 1)] = e]
    BY <1>3, <1>5 DEF provEvtPut
  <2>2. \A i \in 1..(count + 1) :
           evt'[Slot(i)] = IF i = count + 1 THEN e ELSE evt[Slot(i)]
    BY <1>2, <1>3, <1>5, <2>1
  <2> DEFINE s == Append(Waiting, e)
  <2>3. /\ s \in Seq(RingContent) /\ Len(s) = count + 1
        /\ \A i \in 1..count : s[i] = Waiting[i]
        /\ s[count + 1] = e
    BY <1>1, <1>3, AppendProperties
  <2>4. Waiting' = [i \in 1..(count + 1) |-> evt'[Slot(i)]]
    BY <1>4, <2>1 DEF Waiting
  <2>5. Waiting' \in Seq(RingContent) /\ Len(Waiting') = count + 1
    <3>1. Waiting' \in [1..(count + 1) -> RingContent]
      BY <1>1, <1>2, <1>3, <1>5, <2>2, <2>4
    <3> QED BY <1>3, <3>1, FunctionIsSeq
  <2>6. \A i \in 1..(count + 1) : Waiting'[i] = s[i]
    BY <1>1, <1>3, <2>2, <2>3, <2>4
  <2>7. Waiting' = s
    BY <2>3, <2>5, <2>6, SeqEqual
  <2> QED BY <1>1, <1>5, <2>7 DEF Abstract!AfterPut
<1>6. CASE ~(count < SIZE)
  <2>1. count = SIZE /\ count' = count /\ evt' = [evt EXCEPT ![Slot(1)] = e]
    <3>1. count = SIZE
      BY <1>3, <1>6
    <3>2. put = Slot(1)
      BY <1>2, <1>3, <3>1
    <3> QED BY <1>6, <3>1, <3>2 DEF provEvtPut
  <2>2. \A i \in 1..count : evt'[Slot(i)] = IF i = 1 THEN e ELSE evt[Slot(i)]
    <3> SUFFICES ASSUME NEW i \in 1..count
                 PROVE  evt'[Slot(i)] = IF i = 1 THEN e ELSE evt[Slot(i)]
      OBVIOUS
    <3>1. i \in 1..SIZE /\ 1 \in 1..SIZE
      BY <1>3, <2>1
    <3>2. Slot(i) \in Slots /\ Slot(1) \in Slots /\ (Slot(i) = Slot(1) => i = 1)
      BY <1>2, <1>3, <3>1
    <3> QED BY <1>3, <2>1, <3>2
  <2>3. Waiting' = [i \in 1..count |-> evt'[Slot(i)]]
    BY <1>4, <2>1 DEF Waiting
  <2>4. Waiting' \in Seq(RingContent) /\ Len(Waiting') = count
    <3>1. Waiting' \in [1..count -> RingContent]
      BY <1>1, <1>2, <1>3, <2>1, <2>2, <2>3
    <3> QED BY <1>3, <3>1, FunctionIsSeq
  <2> DEFINE t == Tail(Waiting)
             s == <<e>> \o t
  <2>5. /\ t \in Seq(RingContent) /\ Len(t) = count - 1
        /\ \A i \in 1..(count - 1) : t[i] = Waiting[i + 1]
    BY <1>1, <1>3, <2>1, HeadTailProperties
  <2>6. <<e>> \in Seq(RingContent) /\ Len(<<e>>) = 1 /\ <<e>>[1] = e
    BY <1>3
  <2> HIDE DEF t
  <2>7. /\ s \in Seq(RingContent) /\ Len(s) = count
        /\ \A i \in 1..count : s[i] = IF i <= 1 THEN <<e>>[i] ELSE t[i - 1]
    BY <1>3, <2>5, <2>6, ConcatProperties
  <2> HIDE DEF s
  <2>8. \A i \in 1..count : Waiting'[i] = s[i]
    <3> SUFFICES ASSUME NEW i \in 1..count PROVE Waiting'[i] = s[i]
      OBVIOUS
    <3>1. CASE i = 1
      BY <2>2, <2>3, <2>6, <2>7, <3>1
    <3>2. CASE i > 1
      <4>1. s[i] = t[i - 1] /\ i - 1 \in 1..(count - 1)
        BY <1>3, <2>7, <3>2
      <4>2. t[i - 1] = evt[Slot(i)]
        BY <1>1, <1>3, <2>5, <3>2, <4>1
      <4> QED BY <2>2, <2>3, <3>2, <4>1, <4>2
    <3> QED BY <1>3, <3>1, <3>2
  <2>9. Waiting' = s
    BY <2>4, <2>7, <2>8, SeqEqual
  <2> QED BY <1>1, <1>6, <2>9 DEF Abstract!AfterPut, s, t
<1> QED BY <1>5, <1>6

\* A get from the ring is a get from the abstract queue.
LEMMA RingGetRefines ==
  ASSUME RingInv, RingInv', provEvtGet
  PROVE  got' = Abstract!Oldest(Waiting) /\ Waiting' = Abstract!AfterGet(Waiting)
<1>1. /\ Waiting \in Seq(RingContent) /\ Len(Waiting) = count
      /\ \A i \in 1..count : Waiting[i] = evt[Slot(i)]
  BY RingWaiting DEF RingInv
<1>2. /\ Slot(1) = get
      /\ \A i \in 1..SIZE : Slot(i + 1) = Advance(Slot(i))
  BY RingSlots DEF RingInv
<1>3. count \in 0..SIZE /\ SIZE \in Nat \ {0} /\ get \in Slots
  BY QueAssumption DEF RingInv, RingTypeOK, QueAssumption
<1>4. got' = Abstract!Oldest(Waiting)
  <2>1. CASE count = 0
    <3>1. Waiting = <<>> /\ got' = NullEvent
      BY <1>1, <2>1, EmptySeq DEF provEvtGet, RingInv, EmptyReadsNull
    <3> QED BY <3>1 DEF Abstract!Oldest
  <2>2. CASE count # 0
    <3>1. Waiting # <<>> /\ Head(Waiting) = Waiting[1] /\ 1 \in 1..count
      BY <1>1, <1>3, <2>2
    <3> QED BY <1>1, <1>2, <3>1 DEF provEvtGet, Abstract!Oldest
  <2> QED BY <2>1, <2>2
<1>5. CASE count > 1
  <2>1. count' = count - 1 /\ get' = Advance(get) /\ UNCHANGED evt
    BY <1>5 DEF provEvtGet
  <2>2. \A i \in 1..(count - 1) : Slot(i)' = Slot(i + 1)
    BY <1>3, <2>1 DEF Slot, Advance, Slots
  <2>3. Waiting' = [i \in 1..(count - 1) |-> evt[Slot(i + 1)]]
    BY <2>1, <2>2 DEF Waiting
  <2>4. \A i \in 1..(count - 1) : evt[Slot(i + 1)] = Waiting[i + 1] /\ Waiting[i + 1] \in RingContent
    BY <1>1, <1>3, ElementOfSeq
  <2>5. Waiting' \in Seq(RingContent) /\ Len(Waiting') = count - 1
    <3>1. Waiting' \in [1..(count - 1) -> RingContent]
      BY <2>3, <2>4
    <3> QED BY <1>3, <1>5, <3>1, FunctionIsSeq
  <2>6. /\ Tail(Waiting) \in Seq(RingContent) /\ Len(Tail(Waiting)) = count - 1
        /\ \A i \in 1..(count - 1) : Tail(Waiting)[i] = Waiting[i + 1]
    BY <1>1, <1>5, HeadTailProperties
  <2>7. Waiting' = Tail(Waiting)
    BY <2>3, <2>4, <2>5, <2>6, SeqEqual
  <2> QED BY <1>1, <1>4, <1>5, <2>7 DEF Abstract!AfterGet
<1>6. CASE ~(count > 1)
  <2>1. UNCHANGED <<evt, get, count>>
    BY <1>6 DEF provEvtGet
  <2>2. Waiting' = Waiting
    BY <2>1 DEF Waiting, Slot
  <2> QED BY <1>1, <1>4, <1>6, <2>2 DEF Abstract!AfterGet
<1> QED BY <1>5, <1>6

\* The ring implements the abstract queue: provEvtPut and provEvtGet lose,
\* repeat and reorder nothing, except that a put into a full ring takes the
\* place of the oldest event and that the last event is read again.
THEOREM RingImplementsQueue == RingSpec => ImplementsQueue
<1>1. RingInit => Abstract!Init
  <2> SUFFICES ASSUME RingInit PROVE Waiting = <<>> /\ got = NullEvent
    BY DEF Abstract!Init
  <2>1. RingTypeOK /\ count = 0
    BY RingStarts DEF RingInv, RingInit
  <2> QED BY <2>1, RingWaiting, EmptySeq DEF RingInit
<1>2. RingInv /\ RingInv' /\ [RingNext]_ringVars => [Abstract!Next]_<<Waiting, got>>
  <2> SUFFICES ASSUME RingInv, RingInv', [RingNext]_ringVars
               PROVE  [Abstract!Next]_<<Waiting, got>>
    OBVIOUS
  <2>1. ASSUME NEW e \in Event, provEvtPut(e) PROVE Abstract!Next
    BY <2>1, RingPutRefines DEF provEvtPut, Abstract!Next, Abstract!Put
  <2>2. CASE provEvtGet
    BY <2>2, RingGetRefines DEF Abstract!Next, Abstract!Get
  <2>3. CASE UNCHANGED ringVars
    BY <2>3 DEF ringVars, Waiting, Slot
  <2> QED BY <2>1, <2>2, <2>3 DEF RingNext
<1> QED BY <1>1, <1>2, RingInvariant, PTL DEF RingSpec, ImplementsQueue, Abstract!Spec
=============================================================================
