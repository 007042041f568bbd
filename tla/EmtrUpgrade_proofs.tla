-------------------------- MODULE EmtrUpgrade_proofs --------------------------
(***************************************************************************)
(* Proofs about the start of the meter's driver and the upgrade in it, for *)
(* any number of blocks, tries and disturbances: the types, that the       *)
(* version reported is the one that runs, that what was acknowledged has   *)
(* arrived, that a start in which nothing goes wrong repairs the meter;    *)
(* and, for fewer disturbances than the block number can count, that what  *)
(* arrives is the image in order.                                          *)
(***************************************************************************)
EXTENDS EmtrUpgrade, FiniteSetTheorems, FunctionTheorems, TLAPS

USE XmAssumption DEF XmAssumption

(***************************************************************************)
(* The types, with what bounds the block and the tries.                    *)
(***************************************************************************)
\* A reply is appended, or not.
LEMMA ReplyTypes ==
  ASSUME NEW c \in Chars, rx \in Seq(Chars), late \in Chars \cup {"none"},
         trouble \in 0..MaxTrouble, Reply(c)
  PROVE  /\ rx' \in Seq(Chars) /\ late' \in Chars \cup {"none"}
         /\ trouble' \in 0..MaxTrouble
<1>1. Append(rx, c) \in Seq(Chars)
  OBVIOUS
<1> QED BY <1>1 DEF Reply, UseTrouble, line

\* A block that is sent is one of the image, with a try left.
InTransfer ==
    /\ xpc \in {"open", "send", "reply"} => blk <= N
    /\ xpc = "send" => retries > 0

\* The driver's task begins only when the mode of the meter is known; only a
\* meter with an application runs or has run it.
Known ==
    /\ fw = "none" => meter = "bootLoader"
    /\ upc = "appTake" /\ answer = "application" => fw # "none"
    /\ upc = "initBoot" => emtrMode = "notRunning" /\ fpc = "none"
    /\ upc \in {"initApp", "absent"} => fpc = "none"
    /\ upc \notin {"initBoot", "absent"} => emtrMode \in Modes

TInv == TypeOK /\ InTransfer /\ Known

\* A reset of the meter to a mode it has keeps the types.
LEMMA ResetTypes ==
  ASSUME NEW mode \in Modes, TInv, ResetTo(mode)
  PROVE  /\ fw' \in {"old", "new", "none"} /\ meter' \in Modes
         /\ fw' = "none" => meter' = "bootLoader" /\ fw = "none"
         /\ rstate' = "off" /\ file' \in Seq(1..N) /\ again' \in Nat
         /\ rx' \in Seq(Chars) /\ late' \in Chars \cup {"none"}
  BY DEF TInv, TypeOK, XmTypeOK, ResetTo, NoReceiver, Installed, Modes

LEMMA KnownModes ==
  ASSUME TInv, NEW mode \in Modes
  PROVE  KnownMode(mode) \in Modes
  BY DEF TInv, TypeOK, KnownMode, Modes

\* So do the three outcomes of emtrRunModeSet.
LEMMA RunModeTypes ==
  ASSUME NEW mode \in Modes, TInv,
         ModeSet(mode) \/ NoApplication \/ ModeUnknown(mode)
  PROVE  /\ fw' \in {"old", "new", "none"} /\ meter' \in Modes
         /\ fw' = "none" => meter' = "bootLoader"
         /\ rstate' = "off" /\ file' \in Seq(1..N) /\ again' \in Nat
         /\ rx' \in Seq(Chars) /\ late' \in Chars \cup {"none"}
         /\ trouble' \in 0..MaxTrouble /\ clean' \in BOOLEAN /\ raced' \in BOOLEAN
<1>1. CASE ModeSet(mode)
  BY <1>1, ResetTypes DEF ModeSet, Undisturbed, TInv, TypeOK, XmTypeOK
<1>2. CASE NoApplication
  BY <1>2, ResetTypes DEF NoApplication, Undisturbed, TInv, TypeOK, XmTypeOK, Modes
<1>3. CASE ModeUnknown(mode)
  <2>1. trouble' \in 0..MaxTrouble /\ clean' \in BOOLEAN /\ raced' \in BOOLEAN
    BY <1>3 DEF ModeUnknown, Disturbed, Reading, TInv, TypeOK, XmTypeOK
  <2> QED BY <1>3, <2>1, ResetTypes, KnownModes DEF ModeUnknown
<1> QED BY <1>1, <1>2, <1>3

\* And those of its steps in the upgrade.
LEMMA ResetFirstTypes ==
  ASSUME TInv, NEW mode \in Modes, ResetFirst(mode), UNCHANGED answer,
         upc' \in {"bootAsk", "appAsk"}, timer' \in BOOLEAN, upc \notin {"initBoot", "absent"}
  PROVE  TInv'
<1>1. UNCHANGED <<trouble, clean, raced, xpc, blk, retries, emtrMode, fwVersion, fpc>>
  BY DEF ResetFirst, Undisturbed, sender
<1>2. XmTypeOK' /\ InTransfer'
  BY <1>1, ResetTypes DEF ResetFirst, TInv, TypeOK, XmTypeOK, InTransfer
<1>3. TypeOK' /\ Known'
  BY <1>1, <1>2, ResetTypes DEF ResetFirst, TInv, TypeOK, Known
<1> QED BY <1>2, <1>3 DEF TInv

LEMMA AnsweredTypes ==
  ASSUME TInv, Answered, upc' \in {"bootTake", "appTake"}, upc \in {"bootAsk", "appAsk"}
  PROVE  TInv'
  BY DEF Answered, xmVars, sender, line, receiver, world, TInv, TypeOK, XmTypeOK, InTransfer, Known

LEMMA UnansweredTypes ==
  ASSUME TInv, Unanswered, Running, upc \in {"bootAsk", "appAsk"}
  PROVE  TInv'
<1>1. UNCHANGED <<xpc, blk, retries, emtrMode, fwVersion, fpc, answer>> /\ emtrMode \in Modes
  BY DEF Unanswered, sender, TInv, Known
<1>2. trouble' \in 0..MaxTrouble /\ clean' \in BOOLEAN /\ raced' \in BOOLEAN
  BY DEF Unanswered, Disturbed, Reading, TInv, TypeOK, XmTypeOK
<1>3. XmTypeOK' /\ InTransfer'
  BY <1>1, <1>2, ResetTypes DEF Unanswered, TInv, TypeOK, XmTypeOK, InTransfer
<1>4. TypeOK' /\ Known'
  BY <1>1, <1>2, <1>3, ResetTypes DEF Unanswered, Running, TInv, TypeOK, Known
<1> QED BY <1>3, <1>4 DEF TInv

LEMMA InitTInv == Init => TInv
<1> SUFFICES ASSUME Init PROVE TInv
  OBVIOUS
<1>1. XmTypeOK /\ InTransfer
  BY DEF Init, XmInit, XmTypeOK, InTransfer
<1>2. TypeOK /\ Known
  BY <1>1 DEF Init, TypeOK, Known, Modes
<1> QED BY <1>1, <1>2 DEF TInv

\* The block the receiver takes or refuses.
LEMMA TransmitTypes ==
  ASSUME TInv, xpc = "send", Transmit
  PROVE  /\ rx' \in Seq(Chars) /\ late' \in Chars \cup {"none"}
         /\ rstate' \in {"off", "ready", "run", "eot", "ended", "cancelled"}
         /\ file' \in Seq(1..N) /\ again' \in Nat
         /\ trouble' \in 0..MaxTrouble
<1> USE DEF TInv, TypeOK, XmTypeOK, UseTrouble, line, receiver
<1>1. ASSUME NEW c \in {"ACK", "CAN"}, Reply(c)
      PROVE  /\ rx' \in Seq(Chars) /\ late' \in Chars \cup {"none"}
             /\ trouble' \in 0..MaxTrouble
  <2>1. c \in Chars
    BY DEF Chars
  <2> QED BY <1>1, <2>1, ReplyTypes
<1>2. CASE TakesBlock
  <2>1. blk \in 1..N
    BY DEF InTransfer
  <2>2. Append(file, blk) \in Seq(1..N)
    BY <2>1
  <2>3. PICK c \in {"ACK", "CAN"} : Reply(c)
    BY <1>2 DEF TakesBlock
  <2>4. file' \in Seq(1..N) /\ again' \in Nat /\ rstate' \in {rstate, "run", "cancelled"}
    <3>1. /\ file' \in {file, Append(file, blk)} /\ again' \in {again, again + 1}
          /\ rstate' \in {rstate, "run", "cancelled"}
      BY <1>2 DEF TakesBlock
    <3>2. file \in Seq(1..N) /\ again \in Nat
      OBVIOUS
    <3>3. file' \in Seq(1..N)
      BY <2>2, <3>1, <3>2, Zenon
    <3>4. again' \in Nat
      BY <3>1, <3>2
    <3> QED BY <3>1, <3>3, <3>4
  <2> QED BY <1>1, <2>3, <2>4
<1>3. CASE Garbled
  BY <1>3 DEF Garbled, Chars
<1>4. CASE NotHeard /\ (UseTrouble \/ UNCHANGED trouble)
  BY <1>4 DEF NotHeard
<1> QED BY <1>2, <1>3, <1>4 DEF Transmit

\* The types and bounds of the transfer, step by step.
LEMMA SenderTypes ==
  ASSUME TInv, Sender
  PROVE  XmTypeOK' /\ InTransfer'
<1> USE DEF TInv, TypeOK, XmTypeOK, InTransfer, line, receiver
<1>1. CASE OpenReads
  BY <1>1 DEF OpenReads
<1>2. CASE OpenTimesOut
  BY <1>2 DEF OpenTimesOut
<1>3. CASE SendBlock
  BY <1>3, TransmitTypes DEF SendBlock
<1>4. CASE ReplyRead
  BY <1>4 DEF ReplyRead, BlockFails, Repeat
<1>5. CASE ReplyTimesOut
  BY <1>5 DEF ReplyTimesOut, BlockFails, Repeat
<1>6. ASSUME NEW from \in {"eot1", "eot2"}, NEW to \in {"wait1", "wait2"}, Eot(from, to)
      PROVE  XmTypeOK' /\ InTransfer'
  <2>1. /\ rx' \in Seq(Chars) /\ late' \in Chars \cup {"none"}
        /\ trouble' \in 0..MaxTrouble
    <3>1. ASSUME NEW c \in {"ACK", "NAK"}, Reply(c)
          PROVE  /\ rx' \in Seq(Chars) /\ late' \in Chars \cup {"none"}
                 /\ trouble' \in 0..MaxTrouble
      <4>1. c \in Chars
        BY DEF Chars
      <4> QED BY <3>1, <4>1, ReplyTypes
    <3> QED BY <1>6, <3>1 DEF Eot, UseTrouble
  <2> QED BY <1>6, <2>1 DEF Eot
<1>7. ASSUME NEW from \in {"wait1", "wait2"}, NEW to \in {"eot2", "closed"}, EotWait(from, to)
      PROVE  XmTypeOK' /\ InTransfer'
  BY <1>7 DEF EotWait
<1>8. CASE Cancel
  BY <1>8 DEF Cancel
<1> QED BY <1>1, <1>2, <1>3, <1>4, <1>5, <1>6, <1>7, <1>8 DEF Sender

LEMMA TransferTypes ==
  ASSUME TInv, Transfer
  PROVE  TInv'
<1>1. XmTypeOK' /\ InTransfer'
  <2>1. CASE Sender
    BY <2>1, SenderTypes
  <2>2. CASE LateReply
    BY <2>2 DEF LateReply, TInv, TypeOK, XmTypeOK, InTransfer, sender, receiver, Chars
  <2>3. CASE ReceiverAsks
    BY <2>3 DEF ReceiverAsks, UseTrouble, TInv, TypeOK, XmTypeOK, InTransfer, sender, receiver,
             Chars
  <2> QED BY <2>1, <2>2, <2>3 DEF Transfer
<1> QED BY <1>1 DEF Transfer, TInv, TypeOK, Known

\* A step of app_main.
LEMMA AppMainTypes ==
  ASSUME TInv, AppMain
  PROVE  TInv'
<1> USE DEF TInv, TypeOK, XmTypeOK, InTransfer, Known, sender
<1>1. CASE InitBoot
  <2>1. CASE ModeSet("bootLoader") /\ upc' = "initApp"
    BY <1>1, <2>1, RunModeTypes DEF InitBoot, ModeSet, Modes
  <2>2. CASE ModeUnknown("bootLoader") /\ upc' = "absent"
    BY <1>1, <2>2, RunModeTypes DEF InitBoot, ModeUnknown, Modes
  <2> QED BY <1>1, <2>1, <2>2 DEF InitBoot
<1>2. CASE InitApp
  <2>1. CASE ModeSet("application") /\ fwVersion' = fw'
    <3>1. fw' # "none"
      BY <2>1 DEF ModeSet, ResetTo, Modes
    <3> QED BY <1>2, <2>1, <3>1, RunModeTypes DEF InitApp, ModeSet, Modes
  <2>2. CASE NoApplication /\ UNCHANGED fwVersion
    BY <1>2, <2>2, RunModeTypes DEF InitApp, NoApplication, Modes
  <2>3. CASE ModeUnknown("application") /\ UNCHANGED fwVersion
    BY <1>2, <2>3, RunModeTypes DEF InitApp, ModeUnknown, Modes
  <2> QED BY <1>2, <2>1, <2>2, <2>3 DEF InitApp
<1>3. CASE DrvStart
  BY <1>3 DEF DrvStart, xmVars, world, line, receiver
<1>4. CASE Compare
  BY <1>4 DEF Compare, xmVars, world, line, receiver
<1>5. CASE UpgradeBoot
  BY <1>5, ResetFirstTypes DEF UpgradeBoot, Modes
<1>6. CASE StartXmodem
  <2>1. CASE XmOpen /\ rstate' = "ready" /\ file' = <<>> /\ again' = 0 /\ fw' = "none"
                 /\ upc' = "transfer" /\ meter' = "bootLoader" /\ UNCHANGED <<clean, raced>>
    BY <1>6, <2>1 DEF StartXmodem, XmOpen, Modes
  <2>2. CASE ResetTo(emtrMode) /\ Disturbed /\ upc' = "app" /\ UNCHANGED sender
    <3>1. emtrMode \in Modes
      BY <1>6 DEF StartXmodem
    <3> QED BY <1>6, <2>2, <3>1, ResetTypes DEF StartXmodem, Disturbed, Reading
  <2>3. CASE NoReceiver /\ Disturbed /\ fw' = "none" /\ meter' = "bootLoader"
             /\ upc' = "app" /\ UNCHANGED sender
    BY <1>6, <2>3 DEF StartXmodem, NoReceiver, Disturbed, Reading, Modes
  <2> QED BY <1>6, <2>1, <2>2, <2>3 DEF StartXmodem
<1>7. CASE Transfer
  BY <1>7, TransferTypes
<1>8. CASE UpgradeApp
  BY <1>8, ResetFirstTypes DEF UpgradeApp, Modes
<1>9. CASE UpgradeBootAsk \/ UpgradeAppAsk
  BY <1>9, AnsweredTypes, UnansweredTypes DEF UpgradeBootAsk, UpgradeAppAsk
<1>10. CASE UpgradeBootTake
  <2>1. /\ upc' \in {"xmodem", "running"} /\ emtrMode' = answer /\ timer' \in BOOLEAN
        /\ UNCHANGED <<xmVars, fwVersion, fpc, answer, world>>
    BY <1>10 DEF UpgradeBootTake, Running
  <2>2. XmTypeOK' /\ InTransfer'
    BY <2>1 DEF xmVars, line, receiver
  <2> QED BY <2>1, <2>2 DEF world
<1>11. CASE UpgradeAppTake
  <2>1. answer = "application" => fw # "none"
    BY <1>11 DEF UpgradeAppTake
  <2> QED BY <1>11, <2>1 DEF UpgradeAppTake, Running, xmVars, world, line, receiver
<1> QED BY <1>1, <1>2, <1>3, <1>4, <1>5, <1>6, <1>7, <1>8, <1>9, <1>10, <1>11
        DEF AppMain, UpgradeSteps

\* A step of the task's first read.
LEMMA FirstReadTypes ==
  ASSUME TInv, FirstRead
  PROVE  TInv'
<1> USE DEF TInv, TypeOK, XmTypeOK, InTransfer, Known, sender, line, receiver
<1>1. CASE FirstReadAnswered
  BY <1>1 DEF FirstReadAnswered, xmVars, world, Reading
<1>2. CASE FirstReadFails
  <2>1. trouble' \in 0..MaxTrouble /\ clean' \in BOOLEAN /\ raced' \in BOOLEAN
    BY <1>2 DEF FirstReadFails
  <2>2. CASE fpc = "try2" /\ fpc' = "try3" /\ ResetTo(emtrMode)
    <3>1. emtrMode \in Modes
      BY <2>2
    <3> QED BY <1>2, <2>1, <2>2, <3>1, ResetTypes DEF FirstReadFails
  <2>3. CASE fpc # "try2"
    <3>1. /\ fpc \in {"try1", "try3"} /\ fpc' \in {"try2", "done"}
          /\ rx' \in {rx, <<>>} /\ UNCHANGED <<late, receiver, meter, fw>>
          /\ UNCHANGED <<sender, upc, emtrMode, fwVersion, timer, answer>>
      BY <1>2, <2>3 DEF FirstReadFails
    <3>2. rx' \in Seq(Chars)
      <4>1. <<>> \in Seq(Chars)
        OBVIOUS
      <4> QED BY <3>1, <4>1
    <3> QED BY <2>1, <3>1, <3>2
  <2> QED BY <1>2, <2>2, <2>3 DEF FirstReadFails
<1> QED BY <1>1, <1>2 DEF FirstRead

LEMMA RestartTypes ==
  ASSUME TInv, Restart
  PROVE  TInv'
<1>1. trouble' \in 0..MaxTrouble
  BY DEF Restart, TInv, TypeOK, XmTypeOK
<1>2. "application" \in Modes
  BY DEF Modes
<1>3. XmTypeOK' /\ InTransfer'
  BY <1>1, <1>2, ResetTypes DEF Restart, XmTypeOK, InTransfer
<1>4. TypeOK' /\ Known'
  BY <1>2, <1>3, ResetTypes DEF Restart, TypeOK, Known, Modes
<1> QED BY <1>3, <1>4 DEF TInv

LEMMA NextTInv == TInv /\ [Next]_vars => TInv'
<1> SUFFICES ASSUME TInv, [Next]_vars PROVE TInv'
  OBVIOUS
<1>1. CASE UNCHANGED vars
  BY <1>1 DEF vars, xmVars, drv, world, sender, line, receiver, TInv, TypeOK, XmTypeOK,
           InTransfer, Known
<1> QED BY <1>1, AppMainTypes, FirstReadTypes, RestartTypes DEF Next

THEOREM TypesInductive == Spec => []TInv
  BY InitTInv, NextTInv, PTL DEF Spec

\* The driver's and the sender's variables keep their types: the number of the
\* block and of the tries left stay in their bounds.
THEOREM UpgradeTypeOK == Spec => []TypeOK
<1>1. TInv => TypeOK BY DEF TInv
<1> QED BY <1>1, TypesInductive, PTL

(***************************************************************************)
(* The version.  A meter whose mode was last read as that of the           *)
(* application has the one whose version was read with it: only a transfer *)
(* erases it, and that begins and ends in the boot loader.  It runs it     *)
(* until the upgrade resets it, or the task's first read does.             *)
(***************************************************************************)
Settled == {"start", "compare", "boot", "bootAsk", "bootTake", "running"}
AtBoot == {"initApp", "xmodem", "transfer", "app", "appAsk", "appTake"}

VersionInv ==
    /\ TInv
    /\ upc \notin {"transfer", "app"} => rstate = "off"
    /\ upc \in AtBoot => emtrMode = "bootLoader"
    /\ upc \in Settled /\ emtrMode = "application" => fwVersion = fw
    /\ upc \in {"start", "compare", "boot", "running"} /\ emtrMode = "application" =>
         meter = "application" \/ (raced /\ upc = "running")
    /\ upc = "bootAsk" /\ meter = "application" => raced /\ emtrMode = "application"
    /\ upc = "bootTake" /\ answer = "application" => raced /\ emtrMode = "application"
    /\ upc = "appTake" /\ answer = "application" => meter = "application" \/ raced

LEMMA InitVersion == Init => VersionInv
<1> SUFFICES ASSUME Init PROVE VersionInv
  OBVIOUS
<1>1. TInv
  BY InitTInv
<1> QED BY <1>1 DEF Init, XmInit, VersionInv, Settled, AtBoot

\* A reset outside of a transfer leaves the application as it was.
LEMMA ResetKeepsVersion ==
  ASSUME VersionInv, NEW mode \in Modes, ResetTo(mode)
  PROVE  /\ rstate' = "off"
         /\ fw' = "none" => meter' = "bootLoader"
         /\ upc \notin {"transfer", "app"} => fw' = fw
         /\ fw' # "none" => meter' = mode
  BY DEF VersionInv, ResetTo, NoReceiver, Installed

\* An application whose version is known is there.
LEMMA VersionKnown ==
  ASSUME VersionInv, upc \in Settled, emtrMode = "application" PROVE fw # "none"
  BY DEF VersionInv, TInv, TypeOK

LEMMA InitVersions ==
  ASSUME VersionInv, InitBoot \/ InitApp, TInv'
  PROVE  VersionInv'
<1> USE DEF VersionInv, Settled, AtBoot
<1>1. CASE InitBoot
  BY <1>1, ResetKeepsVersion
  DEF InitBoot, ModeSet, ModeUnknown, KnownMode, TInv, Known, Modes
<1>2. CASE InitApp
  <2>1. CASE ModeSet("application") /\ fwVersion' = fw'
    BY <1>2, <2>1, ResetKeepsVersion DEF InitApp, ModeSet, Modes
  <2>2. CASE NoApplication
    BY <1>2, <2>2, ResetKeepsVersion DEF InitApp, NoApplication, Modes
  <2>3. CASE ModeUnknown("application")
    BY <1>2, <2>3, ResetKeepsVersion DEF InitApp, ModeUnknown, KnownMode, Modes
  <2> QED BY <1>2, <2>1, <2>2, <2>3 DEF InitApp
<1> QED BY <1>1, <1>2

LEMMA AppMainVersion ==
  ASSUME VersionInv, AppMain, TInv'
  PROVE  VersionInv'
<1> USE DEF VersionInv, Settled, AtBoot
<1>1. CASE InitBoot \/ InitApp
  BY <1>1, InitVersions
<1>2. CASE DrvStart
  BY <1>2 DEF DrvStart, xmVars, world, receiver, TInv, Known
<1>3. CASE Compare
  BY <1>3 DEF Compare, xmVars, world, receiver
<1>4. CASE UpgradeBoot
  <2>1. ResetTo("bootLoader") /\ UNCHANGED <<emtrMode, fwVersion, raced>>
    BY <1>4 DEF UpgradeBoot, ResetFirst, Undisturbed
  <2>2. meter' = "bootLoader" /\ fw' = fw /\ rstate' = "off"
    BY <1>4, <2>1, ResetKeepsVersion DEF UpgradeBoot, Modes
  <2> QED BY <1>4, <2>1, <2>2 DEF UpgradeBoot
<1>5. CASE /\ Answered
           /\ \/ UpgradeBootAsk /\ upc' = "bootTake"
              \/ UpgradeAppAsk /\ upc' = "appTake"
  <2>1. /\ answer' = meter /\ UNCHANGED <<rstate, emtrMode, fwVersion, meter, fw, raced>>
        /\ emtrMode \in Modes
    BY <1>5 DEF UpgradeBootAsk, UpgradeAppAsk, Answered, xmVars, receiver, world, TInv, Known
  <2>2. \/ upc = "bootAsk" /\ upc' = "bootTake"
        \/ upc = "appAsk" /\ upc' = "appTake"
    BY <1>5 DEF UpgradeBootAsk, UpgradeAppAsk
  <2> QED BY <1>5, <2>1, <2>2 DEF Modes
<1>6. CASE (UpgradeBootAsk \/ UpgradeAppAsk) /\ Unanswered /\ Running
  <2>1. /\ ResetTo(emtrMode) /\ UNCHANGED <<emtrMode, fwVersion>> /\ upc' = "running"
        /\ upc \in {"bootAsk", "appAsk"} /\ emtrMode \in Modes
    BY <1>6 DEF UpgradeBootAsk, UpgradeAppAsk, Unanswered, Running, TInv, Known
  <2>2. fw' = fw /\ rstate' = "off" /\ (fw # "none" => meter' = emtrMode)
    BY <2>1, ResetKeepsVersion
  <2>3. emtrMode = "application" => fw # "none"
    BY <2>1, VersionKnown DEF Modes
  <2> QED BY <2>1, <2>2, <2>3
<1>7. CASE UpgradeBootTake
  BY <1>7 DEF UpgradeBootTake, Running, xmVars, receiver, world
<1>8. CASE StartXmodem
  <2>1. CASE upc' = "transfer" \/ (upc' = "app" /\ UNCHANGED sender)
    BY <1>8, <2>1 DEF StartXmodem
  <2> QED BY <1>8, <2>1 DEF StartXmodem
<1>9. CASE Transfer
  BY <1>9 DEF Transfer
<1>10. CASE UpgradeApp
  <2>1. ResetTo("application") /\ UNCHANGED emtrMode
    BY <1>10 DEF UpgradeApp, ResetFirst
  <2> QED BY <1>10, <2>1, ResetKeepsVersion DEF UpgradeApp, Modes
<1>11. CASE UpgradeAppTake
  BY <1>11 DEF UpgradeAppTake, Running, xmVars, receiver, world
<1> QED BY <1>1, <1>2, <1>3, <1>4, <1>5, <1>6, <1>7, <1>8, <1>9, <1>10, <1>11
        DEF AppMain, UpgradeSteps, UpgradeBootAsk, UpgradeAppAsk

LEMMA NextVersion == VersionInv /\ [Next]_vars => VersionInv'
<1> SUFFICES ASSUME VersionInv, [Next]_vars PROVE VersionInv'
  OBVIOUS
<1>1. TInv'
  BY NextTInv DEF VersionInv
<1> USE DEF VersionInv, Settled, AtBoot
<1>2. CASE UNCHANGED vars
  BY <1>1, <1>2 DEF vars, xmVars, drv, world, receiver
<1>3. CASE AppMain
  BY <1>1, <1>3, AppMainVersion
<1>4. CASE FirstReadAnswered
  BY <1>1, <1>4 DEF FirstReadAnswered, xmVars, world, receiver
<1>5. CASE FirstReadFails
  <2>0. /\ UNCHANGED <<upc, emtrMode, fwVersion, answer>>
        /\ raced' = (raced \/ Upgrading) /\ raced \in BOOLEAN
    BY <1>5 DEF FirstReadFails, TInv, TypeOK
  <2>1. CASE ResetTo(emtrMode) /\ fpc = "try2"
    <3>1. emtrMode \in Modes
      BY <2>1 DEF TInv, Known, TypeOK
    <3>2. /\ rstate' = "off" /\ (upc \notin {"transfer", "app"} => fw' = fw)
          /\ fw' # "none" => meter' = emtrMode
          /\ fw' = "none" => meter' = "bootLoader"
      BY <2>1, <3>1, ResetKeepsVersion
    <3>3. upc \in Settled /\ emtrMode = "application" => fw # "none"
      BY VersionKnown
    <3>4. CASE upc \in {"start", "compare", "running"}
      BY <1>1, <2>0, <3>2, <3>3, <3>4
    <3>5. CASE Upgrading
      BY <1>1, <2>0, <3>2, <3>3, <3>5 DEF Upgrading, Modes
    <3>6. upc \in {"start", "compare", "running"} \/ Upgrading \/ upc \in {"initBoot", "initApp", "absent"}
      BY DEF TInv, TypeOK, Upgrading
    <3>7. upc \notin {"initBoot", "initApp", "absent"}
      BY <2>1 DEF TInv, Known
    <3> QED BY <3>4, <3>5, <3>6, <3>7
  <2>2. CASE UNCHANGED <<receiver, meter, fw>>
    BY <1>1, <2>0, <2>2 DEF receiver
  <2> QED BY <1>5, <2>1, <2>2 DEF FirstReadFails
<1>6. CASE Restart
  BY <1>1, <1>6, ResetKeepsVersion DEF Restart, Modes
<1> QED BY <1>2, <1>3, <1>4, <1>5, <1>6 DEF Next, FirstRead

\* The version that emtrDrvGetFwVersion reports of a meter whose mode was read
\* as that of the application is the version it has, whatever became of the
\* upgrade; and the meter runs it, unless the task's first read reset it in the
\* upgrade.
THEOREM ReportedVersionRuns == Spec => []VersionTrue
<1>1. VersionInv => VersionTrue
  BY DEF VersionInv, VersionTrue, Settled
<1> QED BY <1>1, InitVersion, NextVersion, PTL DEF Spec

(***************************************************************************)
(* The acknowledgements.                                                   *)
(***************************************************************************)
\* How many acknowledgements the sender may still read in s.
AckAt(s) == {i \in 1..Len(s) : s[i] = "ACK"}
AckCount(s) == Cardinality(AckAt(s))
One(c) == IF c = "ACK" THEN 1 ELSE 0

LEMMA AckCountType ==
  ASSUME NEW s \in Seq(Chars)
  PROVE  IsFiniteSet(AckAt(s)) /\ AckCount(s) \in Nat
<1>1. IsFiniteSet(1..Len(s))
  BY FS_Interval
<1>2. AckAt(s) \in SUBSET (1..Len(s))
  BY DEF AckAt
<1>3. IsFiniteSet(AckAt(s))
  BY <1>1, <1>2, FS_Subset
<1> QED BY <1>3, FS_CardinalityType DEF AckCount

LEMMA AckCountEmpty == AckCount(<<>>) = 0
<1>1. AckAt(<<>>) = {}
  BY DEF AckAt
<1> QED BY <1>1, FS_EmptySet DEF AckCount

LEMMA AckCountAppend ==
  ASSUME NEW s \in Seq(Chars), NEW c \in Chars
  PROVE  AckCount(Append(s, c)) = AckCount(s) + One(c)
<1>1. IsFiniteSet(AckAt(s)) /\ AckCount(s) \in Nat
  BY AckCountType
<1>2. CASE c = "ACK"
  <2>1. AckAt(Append(s, c)) = AckAt(s) \cup {Len(s) + 1}
    BY <1>2 DEF AckAt
  <2>2. Len(s) + 1 \notin AckAt(s)
    BY DEF AckAt
  <2> QED BY <1>1, <1>2, <2>1, <2>2, FS_AddElement DEF AckCount, One
<1>3. CASE c # "ACK"
  <2>1. AckAt(Append(s, c)) = AckAt(s)
    BY <1>3 DEF AckAt
  <2> QED BY <1>1, <1>3, <2>1 DEF AckCount, One
<1> QED BY <1>2, <1>3

LEMMA AckCountTail ==
  ASSUME NEW s \in Seq(Chars), s # <<>>
  PROVE  AckCount(s) = AckCount(Tail(s)) + One(Head(s))
<1> DEFINE f == [i \in AckAt(Tail(s)) |-> i + 1]
           Rest == AckAt(s) \ {1}
<1>1. /\ IsFiniteSet(AckAt(s)) /\ AckCount(s) \in Nat
      /\ IsFiniteSet(AckAt(Tail(s))) /\ AckCount(Tail(s)) \in Nat
  <2>1. Tail(s) \in Seq(Chars)
    OBVIOUS
  <2> QED BY <2>1, AckCountType
<1> USE DEF AckAt
<1>0. /\ Len(s) \in Nat \ {0} /\ Len(Tail(s)) = Len(s) - 1
      /\ \A i \in 1..Len(s) - 1 : Tail(s)[i] = s[i + 1]
  OBVIOUS
<1>2. \A i \in AckAt(Tail(s)) : i + 1 \in Rest
  BY <1>0
<1>3. \A j \in Rest : j - 1 \in AckAt(Tail(s)) /\ j = (j - 1) + 1
  BY <1>0
<1>4. f \in Bijection(AckAt(Tail(s)), Rest)
  <2>1. AckAt(Tail(s)) \subseteq Nat
    BY <1>0
  <2>2. f \in [AckAt(Tail(s)) -> Rest]
    BY <1>2
  <2>3. \A a, b \in AckAt(Tail(s)) : f[a] = f[b] => a = b
    BY <2>1
  <2>4. \A j \in Rest : \E i \in AckAt(Tail(s)) : f[i] = j
    BY <1>3
  <2> HIDE DEF f
  <2> QED BY <2>2, <2>3, <2>4, Fun_IsBij
<1>5. Cardinality(Rest) = AckCount(Tail(s))
  <2>1. ExistsBijection(AckAt(Tail(s)), Rest)
    BY <1>4 DEF ExistsBijection
  <2> QED BY <1>1, <2>1, FS_Bijection DEF AckCount
<1>6. Cardinality(Rest) = IF 1 \in AckAt(s) THEN AckCount(s) - 1 ELSE AckCount(s)
  BY <1>1, FS_RemoveElement DEF AckCount
<1>7. 1 \in AckAt(s) <=> Head(s) = "ACK"
  BY <1>0
<1> QED BY <1>1, <1>5, <1>6, <1>7 DEF One

\* Those of the receiver that still come, also after it has cancelled.
Coming == AckCount(rx) + One(late)

AckInv ==
    /\ TInv
    /\ rstate \in {"ready", "run", "cancelled"} => blk - 1 + Coming <= Len(file) + again
    /\ rstate \in {"eot", "ended"} =>
         blk - 1 <= Len(file) + again /\ xpc \notin {"open", "send", "reply"}
    /\ upc \in {"bootAsk", "bootTake", "xmodem"} => late = "none"

LEMMA ComingType == TInv => Coming \in Nat
  BY AckCountType DEF Coming, One, TInv, TypeOK, XmTypeOK

LEMMA InitAck == Init => AckInv
<1> SUFFICES ASSUME Init PROVE AckInv
  OBVIOUS
<1>1. TInv
  BY InitTInv
<1> QED BY <1>1 DEF Init, XmInit, AckInv

\* What a reply, a late one and a reading do to what is coming.
LEMMA ReplyComing ==
  ASSUME TInv, NEW c \in Chars, Reply(c)
  PROVE  Coming' \in Nat /\ Coming' <= Coming + One(c)
<1>1. rx \in Seq(Chars) /\ AckCount(rx) \in Nat
  BY AckCountType DEF TInv, TypeOK, XmTypeOK
<1>2. AckCount(Append(rx, c)) = AckCount(rx) + One(c)
  BY <1>1, AckCountAppend
<1>3. One(c) \in {0, 1} /\ One(late) \in {0, 1} /\ One("none") = 0
  BY DEF One
<1>4. CASE rx' = Append(rx, c) /\ UNCHANGED late
  BY <1>1, <1>2, <1>3, <1>4 DEF Coming
<1>5. CASE late = "none" /\ late' = c /\ UNCHANGED rx
  BY <1>1, <1>3, <1>5 DEF Coming
<1>6. CASE UNCHANGED line
  BY <1>1, <1>3, <1>6 DEF Coming, line
<1> QED BY <1>4, <1>5, <1>6 DEF Reply

LEMMA OtherComing ==
  ASSUME TInv, NEW c \in Chars \ {"ACK"}, rx' = Append(rx, c), UNCHANGED late
  PROVE  Coming' = Coming
<1>1. rx \in Seq(Chars) /\ AckCount(rx) \in Nat
  BY AckCountType DEF TInv, TypeOK, XmTypeOK
<1>2. AckCount(Append(rx, c)) = AckCount(rx) + One(c)
  BY <1>1, AckCountAppend
<1> QED BY <1>1, <1>2 DEF Coming, One

LEMMA ReadComing ==
  ASSUME TInv, rx # <<>>, rx' = Tail(rx), UNCHANGED late
  PROVE  Coming' \in Nat /\ Coming = Coming' + One(Head(rx))
<1>1. rx \in Seq(Chars) /\ Tail(rx) \in Seq(Chars)
  BY DEF TInv, TypeOK, XmTypeOK
<1>2. AckCount(rx) = AckCount(Tail(rx)) + One(Head(rx)) /\ AckCount(Tail(rx)) \in Nat
  BY <1>1, AckCountTail, AckCountType
<1> QED BY <1>2 DEF Coming, One

LEMMA LateComing ==
  ASSUME TInv, LateReply
  PROVE  Coming' = Coming
<1>1. rx \in Seq(Chars) /\ AckCount(rx) \in Nat /\ late \in Chars
  BY AckCountType DEF TInv, TypeOK, XmTypeOK, LateReply
<1>2. AckCount(Append(rx, late)) = AckCount(rx) + One(late) /\ One("none") = 0
  BY <1>1, AckCountAppend DEF One
<1> QED BY <1>1, <1>2 DEF LateReply, Coming, One

\* A block that is sent brings one acknowledgement at most, and only as the next
\* of the file or as one that is acknowledged again.
LEMMA SendBlockAck ==
  ASSUME AckInv, SendBlock
  PROVE  /\ rstate' \in {"ready", "run", "cancelled"} => blk' - 1 + Coming' <= Len(file') + again'
         /\ rstate' \notin {"eot", "ended"}
<1>1. /\ blk \in Nat /\ Len(file) \in Nat /\ again \in Nat /\ Coming \in Nat
      /\ file \in Seq(1..N) /\ blk \in 1..N /\ TInv /\ blk' = blk
      /\ rstate \notin {"eot", "ended"}
      /\ rstate \in {"ready", "run", "cancelled"} => blk - 1 + Coming <= Len(file) + again
  BY ComingType DEF AckInv, TInv, TypeOK, XmTypeOK, SendBlock, InTransfer
<1>2. CASE Listening /\ TakesBlock
  <2>1. rstate' \in {"ready", "run", "cancelled"} /\ blk - 1 + Coming <= Len(file) + again
    BY <1>1, <1>2 DEF TakesBlock, Listening
  <2>2. CASE Reply("ACK") /\ file' = Append(file, blk) /\ UNCHANGED again
    <3>1. Coming' \in Nat /\ Coming' <= Coming + 1
      BY <1>1, <2>2, ReplyComing DEF Chars, One
    <3>2. Len(file') = Len(file) + 1
      BY <1>1, <2>2
    <3> QED BY <1>1, <2>1, <2>2, <3>1, <3>2
  <2>3. CASE Reply("ACK") /\ again' = again + 1 /\ UNCHANGED file
    <3>1. Coming' \in Nat /\ Coming' <= Coming + 1
      BY <1>1, <2>3, ReplyComing DEF Chars, One
    <3> QED BY <1>1, <2>1, <2>3, <3>1
  <2>4. CASE Reply("CAN") /\ UNCHANGED <<file, again>>
    <3>1. Coming' \in Nat /\ Coming' <= Coming
      BY <1>1, <2>4, ReplyComing, ComingType DEF Chars, One
    <3> QED BY <1>1, <2>1, <2>4, <3>1
  <2> QED BY <1>2, <2>2, <2>3, <2>4 DEF TakesBlock
<1>3. CASE Garbled
  <2>1. Coming' = Coming
    BY <1>1, <1>3, OtherComing DEF Garbled, Chars
  <2> QED BY <1>1, <1>3, <2>1 DEF Garbled, receiver
<1>4. CASE NotHeard
  <2>1. Coming' = Coming
    BY <1>4 DEF NotHeard, line, Coming
  <2> QED BY <1>1, <1>4, <2>1 DEF NotHeard, receiver
<1> QED BY <1>2, <1>3, <1>4 DEF SendBlock, Transmit

\* The sender counts an acknowledgement by reading it.
LEMMA ReplyReadAck ==
  ASSUME AckInv, ReplyRead
  PROVE  /\ rstate' \in {"ready", "run", "cancelled"} => blk' - 1 + Coming' <= Len(file') + again'
         /\ rstate' \notin {"eot", "ended"}
<1>1. /\ blk \in Nat /\ Len(file) \in Nat /\ again \in Nat /\ TInv
      /\ rstate \notin {"eot", "ended"}
      /\ rstate \in {"ready", "run", "cancelled"} => blk - 1 + Coming <= Len(file) + again
  BY DEF AckInv, TInv, TypeOK, XmTypeOK, ReplyRead
<1>2. Coming' \in Nat /\ Coming = Coming' + One(Head(rx)) /\ UNCHANGED <<rstate, file, again>>
  BY <1>1, ReadComing DEF ReplyRead, receiver
<1>3. blk' = blk + One(Head(rx))
  BY <1>1 DEF ReplyRead, BlockFails, Repeat, One
<1>4. One(Head(rx)) \in {0, 1}
  BY DEF One
<1> QED BY <1>1, <1>2, <1>3, <1>4

\* What leaves the block and the file alone and brings nothing.
LEMMA QuietAck ==
  ASSUME AckInv, Coming' \in Nat, Coming' <= Coming, UNCHANGED <<blk, file, again>>,
         \/ UNCHANGED rstate
         \/ rstate' = "cancelled" /\ rstate \in {"ready", "run"}
         \/ rstate' \in {"eot", "ended"} /\ rstate \in {"ready", "run", "eot"},
         rstate' \in {"eot", "ended"} => xpc' \notin {"open", "send", "reply"}
  PROVE  /\ rstate' \in {"ready", "run", "cancelled"} => blk' - 1 + Coming' <= Len(file') + again'
         /\ rstate' \in {"eot", "ended"} =>
              blk' - 1 <= Len(file') + again' /\ xpc' \notin {"open", "send", "reply"}
<1>1. /\ blk \in Nat /\ Len(file) \in Nat /\ again \in Nat /\ Coming \in Nat
      /\ rstate \in {"ready", "run", "cancelled"} => blk - 1 + Coming <= Len(file) + again
      /\ rstate \in {"eot", "ended"} => blk - 1 <= Len(file) + again
  BY ComingType DEF AckInv, TInv, TypeOK, XmTypeOK
<1> QED BY <1>1

\* The part of AckInv that a transfer changes.
AckTransfer ==
    /\ rstate \in {"ready", "run", "cancelled"} => blk - 1 + Coming <= Len(file) + again
    /\ rstate \in {"eot", "ended"} =>
         blk - 1 <= Len(file) + again /\ xpc \notin {"open", "send", "reply"}

LEMMA SameComing == ASSUME TInv, UNCHANGED line PROVE Coming' \in Nat /\ Coming' = Coming
  BY ComingType DEF Coming, line

LEMMA SenderAck ==
  ASSUME AckInv, Sender
  PROVE  AckTransfer'
<1> USE DEF AckTransfer
<1>0. /\ TInv /\ Coming \in Nat
      /\ rstate \in {"eot", "ended"} => xpc \notin {"open", "send", "reply"}
  BY ComingType DEF AckInv
<1>1. CASE OpenReads
  <2>1. Coming' \in Nat /\ Coming' <= Coming
    BY <1>0, <1>1, ReadComing DEF OpenReads, One
  <2> QED BY <1>0, <1>1, <2>1, QuietAck DEF OpenReads, receiver
<1>2. CASE OpenTimesOut
  BY <1>0, <1>2, SameComing, QuietAck DEF OpenTimesOut, receiver
<1>3. CASE SendBlock
  BY <1>3, SendBlockAck
<1>4. CASE ReplyRead
  BY <1>4, ReplyReadAck
<1>5. CASE ReplyTimesOut
  BY <1>0, <1>5, SameComing, QuietAck DEF ReplyTimesOut, BlockFails, Repeat, receiver
<1>6. ASSUME NEW from \in {"eot1", "eot2"}, NEW to \in {"wait1", "wait2"}, Eot(from, to)
      PROVE  AckTransfer'
  <2>1. CASE Awake /\ rstate' = (IF rstate = "eot" THEN "ended" ELSE "eot")
             /\ Reply(IF rstate = "eot" THEN "ACK" ELSE "NAK")
    <3>1. /\ rstate' \in {"eot", "ended"} /\ xpc' \in {"wait1", "wait2"}
          /\ blk - 1 <= Len(file) + again /\ UNCHANGED <<blk, file, again>>
      BY <1>0, <1>6, <2>1 DEF AckInv, TInv, TypeOK, XmTypeOK, Eot, Awake, Listening
    <3> QED BY <3>1
  <2>2. CASE UNCHANGED <<rstate, line>>
    BY <1>0, <1>6, <2>2, SameComing, QuietAck DEF Eot
  <2> QED BY <1>6, <2>1, <2>2 DEF Eot
<1>7. ASSUME NEW from \in {"wait1", "wait2"}, NEW to \in {"eot2", "closed"}, EotWait(from, to)
      PROVE  AckTransfer'
  <2>1. Coming' \in Nat /\ Coming' <= Coming
    <3>1. CASE rx = <<>>
      BY <1>0, <1>7, <3>1, SameComing DEF EotWait, line
    <3>2. CASE rx # <<>>
      BY <1>0, <1>7, <3>2, ReadComing DEF EotWait, One
    <3> QED BY <3>1, <3>2
  <2> QED BY <1>0, <1>7, <2>1, QuietAck DEF EotWait, receiver
<1>8. CASE Cancel
  BY <1>0, <1>8, SameComing, QuietAck DEF Cancel, Listening
<1> QED BY <1>1, <1>2, <1>3, <1>4, <1>5, <1>6, <1>7, <1>8 DEF Sender

LEMMA TransferAck ==
  ASSUME AckInv, Transfer
  PROVE  AckTransfer' /\ upc' \notin {"bootAsk", "bootTake", "xmodem"}
<1>0. TInv /\ upc' \notin {"bootAsk", "bootTake", "xmodem"}
  BY DEF AckInv, Transfer
<1>1. CASE Sender
  BY <1>0, <1>1, SenderAck
<1>2. CASE LateReply
  <2>1. Coming' \in Nat /\ Coming' <= Coming
    BY <1>0, <1>2, LateComing, ComingType
  <2> QED BY <1>0, <1>2, <2>1, QuietAck DEF LateReply, sender, receiver, AckInv, AckTransfer
<1>3. CASE ReceiverAsks
  <2>1. Coming' \in Nat /\ Coming' <= Coming
    BY <1>0, <1>3, OtherComing, ComingType DEF ReceiverAsks, Chars
  <2> QED BY <1>0, <1>3, <2>1, QuietAck DEF ReceiverAsks, sender, receiver, AckInv, AckTransfer
<1> QED BY <1>0, <1>1, <1>2, <1>3 DEF Transfer

\* A reset ends all that.
LEMMA ResetAck ==
  ASSUME AckInv, NEW mode, ResetTo(mode)
  PROVE  AckTransfer' /\ late' = "none"
  BY DEF ResetTo, NoReceiver, AckTransfer

LEMMA NextAck == AckInv /\ [Next]_vars => AckInv'
<1> SUFFICES ASSUME AckInv, [Next]_vars PROVE AckInv'
  OBVIOUS
<1>1. TInv /\ TInv'
  BY NextTInv DEF AckInv
<1>2. SUFFICES AckTransfer' /\ (upc' \in {"bootAsk", "bootTake", "xmodem"} => late' = "none")
  BY <1>1 DEF AckInv, AckTransfer
<1>3. CASE /\ UNCHANGED xmVars
           /\ upc' \in {"bootAsk", "bootTake", "xmodem"} => upc \in {"bootAsk", "bootTake"}
  BY <1>1, <1>3, SameComing, QuietAck DEF xmVars, sender, line, receiver, AckInv, AckTransfer
<1>4. CASE UNCHANGED vars
  BY <1>1, <1>4, SameComing, QuietAck
  DEF vars, xmVars, drv, sender, line, receiver, AckInv, AckTransfer
<1>5. CASE Transfer
  BY <1>5, TransferAck
<1>6. ASSUME NEW mode \in Modes, ModeSet(mode) \/ NoApplication \/ ModeUnknown(mode)
      PROVE  AckTransfer' /\ late' = "none"
  BY <1>6, ResetAck DEF ModeSet, NoApplication, ModeUnknown
<1>7. CASE StartXmodem
  <2>1. CASE XmOpen /\ rstate' = "ready" /\ file' = <<>> /\ again' = 0 /\ upc' = "transfer"
    <3>1. rx' = <<>> /\ late' = "none" /\ blk' = 1
      BY <1>7, <2>1 DEF StartXmodem, XmOpen, AckInv
    <3>2. Coming' = 0
      BY <3>1, AckCountEmpty DEF Coming, One
    <3> QED BY <2>1, <3>1, <3>2 DEF AckTransfer
  <2>2. CASE ResetTo(emtrMode)
    BY <2>2, ResetAck
  <2>3. CASE NoReceiver
    BY <2>3 DEF NoReceiver, AckTransfer
  <2> QED BY <1>7, <2>1, <2>2, <2>3 DEF StartXmodem
<1>8. CASE InitBoot \/ InitApp \/ UpgradeBoot \/ UpgradeApp
  BY <1>6, <1>8, ResetAck DEF InitBoot, InitApp, UpgradeBoot, UpgradeApp, ResetFirst, Modes
<1>9. CASE DrvStart \/ Compare \/ UpgradeBootTake \/ UpgradeAppTake
  BY <1>3, <1>9 DEF DrvStart, Compare, UpgradeBootTake, UpgradeAppTake, Running
<1>13. CASE UpgradeBootAsk \/ UpgradeAppAsk
  <2>1. CASE Answered
    BY <1>3, <1>13, <2>1 DEF UpgradeBootAsk, UpgradeAppAsk, Answered, Unanswered, Running
  <2>2. CASE Unanswered
    BY <2>2, ResetAck DEF Unanswered
  <2> QED BY <1>13, <2>1, <2>2 DEF UpgradeBootAsk, UpgradeAppAsk
<1>10. CASE FirstReadAnswered
  BY <1>1, <1>10, SameComing, QuietAck
  DEF FirstReadAnswered, xmVars, sender, line, receiver, AckInv, AckTransfer
<1>11. CASE FirstReadFails
  <2>1. CASE ResetTo(emtrMode)
    BY <2>1, ResetAck
  <2>2. CASE rx' \in {rx, <<>>} /\ UNCHANGED <<late, receiver>>
    <3>1. Coming' \in Nat /\ Coming' <= Coming
      <4>1. AckCount(rx) \in Nat /\ One(late) \in {0, 1}
        BY <1>1, AckCountType DEF TInv, TypeOK, XmTypeOK, One
      <4> QED BY <2>2, <4>1, AckCountEmpty DEF Coming
    <3> QED BY <1>1, <1>11, <2>2, <3>1, QuietAck
            DEF FirstReadFails, sender, receiver, AckInv, AckTransfer
  <2> QED BY <1>11, <2>1, <2>2 DEF FirstReadFails
<1>12. CASE Restart
  BY <1>12, ResetAck DEF Restart
<1> QED BY <1>4, <1>5, <1>7, <1>8, <1>9, <1>10, <1>11, <1>12, <1>13
        DEF Next, AppMain, UpgradeSteps, FirstRead

\* Every acknowledgement that csXmSend has counted or will count stands for a
\* block that arrived or for a repetition of one, for any number of blocks,
\* tries and disturbances.
THEOREM AcknowledgedIsReceived == Spec => []AckedIsReceived
<1>1. AckInv => AckedIsReceived
  <2> SUFFICES ASSUME AckInv PROVE AckedIsReceived
    OBVIOUS
  <2>1. /\ blk \in Nat /\ Len(file) \in Nat /\ again \in Nat /\ Coming \in Nat
        /\ rstate \in {"off", "ready", "run", "eot", "ended", "cancelled"}
    BY ComingType DEF AckInv, TInv, TypeOK, XmTypeOK
  <2>2. Acks = IF Listening THEN Coming ELSE 0
    BY DEF Acks, Coming, AckCount, AckAt, One
  <2> QED BY <2>1, <2>2 DEF AckInv, AckedIsReceived, Listening
<1> QED BY <1>1, InitAck, NextAck, PTL DEF Spec

(***************************************************************************)
(* The order of the blocks.  The sender runs ahead of the receiver by one  *)
(* block for each block that was lost while an acknowledgement too many    *)
(* was read, so by no more than what went wrong.  As long as less goes     *)
(* wrong than there are numbers of blocks, a number tells the next block   *)
(* and the last one from all others; with more, a number comes round again *)
(* and the receiver takes the wrong block (a run with three numbers and    *)
(* four disturbances shows it).                                            *)
(***************************************************************************)
FewTroubles == MaxTrouble + 1 < BlockMod

InOrder ==
    /\ xpc = "open" => blk = 1
    /\ Listening /\ xpc \in {"open", "send", "reply"} => Len(file) <= blk
    /\ Listening /\ xpc \in {"open", "send"} => blk + trouble <= Len(file) + 1 + MaxTrouble
    /\ Listening /\ xpc = "reply" =>
         blk <= Len(file) \/ blk + trouble <= Len(file) + MaxTrouble

\* Two blocks with the same number, less than BlockMod apart, are the same.
LEMMA SameNumber ==
  ASSUME NEW a \in Nat, NEW b \in Nat, Number(a) = Number(b), b <= a, a < b + BlockMod
  PROVE  a = b
<1> DEFINE p == a \div BlockMod
           q == b \div BlockMod
           r == a % BlockMod
<1>1. /\ a = BlockMod * p + r /\ b = BlockMod * q + r
      /\ p \in Int /\ q \in Int /\ r \in Int
  BY DEF Number
<1> HIDE DEF p, q, r
<1>2. a - b = BlockMod * (p - q)
  BY <1>1
<1>3. p - q < 1 /\ p - q > -1
  BY <1>1, <1>2
<1>4. p = q
  BY <1>1, <1>3
<1> QED BY <1>1, <1>4

\* A receiver in order takes the block it waits for, and no other.
LEMMA TakesNext ==
  ASSUME FewTroubles, TInv, InOrder, xpc = "send", Listening
  PROVE  /\ Number(blk) = Number(Len(file) + 1) => blk = Len(file) + 1
         /\ Number(blk) = Number(Len(file)) => blk = Len(file)
<1>1. /\ blk \in Nat /\ Len(file) \in Nat /\ trouble \in Nat /\ MaxTrouble \in Nat
      /\ Len(file) <= blk /\ blk + trouble <= Len(file) + 1 + MaxTrouble
  BY DEF TInv, TypeOK, XmTypeOK, InOrder
<1>2. blk < Len(file) + BlockMod
  BY <1>1 DEF FewTroubles
<1>3. Number(blk) = Number(Len(file)) => blk = Len(file)
  BY <1>1, <1>2, SameNumber
<1>4. ASSUME Number(blk) = Number(Len(file) + 1) PROVE blk = Len(file) + 1
  <2>1. CASE Len(file) + 1 <= blk
    BY <1>1, <1>2, <1>4, <2>1, SameNumber
  <2>2. CASE Len(file) = blk
    BY <1>1, <1>4, <2>2, SameNumber
  <2> QED BY <1>1, <2>1, <2>2
<1> QED BY <1>3, <1>4

LEMMA ReplyTrouble ==
  ASSUME TInv, NEW c, Reply(c)
  PROVE  trouble' \in Nat /\ trouble' <= trouble
  BY DEF Reply, UseTrouble, TInv, TypeOK, XmTypeOK

LEMMA SendBlockOrder ==
  ASSUME FewTroubles, TInv, InOrder, SendBlock
  PROVE  InOrder' /\ [File!Next]_(File!vars)
<1>1. /\ blk \in 1..N /\ Len(file) \in Nat /\ trouble \in Nat /\ file \in Seq(1..N)
      /\ xpc = "send" /\ xpc' = "reply" /\ UNCHANGED blk
      /\ Listening => Len(file) <= blk /\ blk + trouble <= Len(file) + 1 + MaxTrouble
  BY DEF SendBlock, TInv, TypeOK, XmTypeOK, InTransfer, InOrder
<1>2. CASE Listening /\ TakesBlock
  <2>1. trouble' \in Nat /\ trouble' <= trouble
    BY <1>2, ReplyTrouble DEF TakesBlock
  <2>2. CASE Number(blk) = Number(Len(file) + 1) /\ file' = Append(file, blk) /\ rstate' = "run"
    <3>1. blk = Len(file) + 1
      BY <1>1, <1>2, <2>2, TakesNext
    <3>2. Len(file') = Len(file) + 1
      BY <1>1, <2>2
    <3>3. InOrder'
      BY <1>1, <3>1, <3>2 DEF InOrder
    <3>4. File!Deliver
      BY <1>1, <1>2, <2>2, <3>1 DEF File!Deliver, Listening
    <3> QED BY <3>3, <3>4 DEF File!Next
  <2>3. CASE Number(blk) = Number(Len(file)) /\ UNCHANGED <<rstate, file>>
    <3>1. blk = Len(file)
      BY <1>1, <1>2, <2>3, TakesNext
    <3>2. InOrder'
      BY <1>1, <2>3, <3>1 DEF InOrder
    <3> QED BY <2>3, <3>2 DEF File!vars
  <2>4. CASE rstate' = "cancelled" /\ UNCHANGED file
    <3>1. InOrder'
      BY <1>1, <2>4 DEF InOrder, Listening
    <3> QED BY <1>2, <2>4, <3>1 DEF File!vars, Listening
  <2> QED BY <1>2, <2>2, <2>3, <2>4 DEF TakesBlock
<1>3. CASE Listening /\ UseTrouble /\ UNCHANGED receiver
  <2>1. trouble' = trouble - 1 /\ UNCHANGED <<rstate, file>>
    BY <1>3 DEF UseTrouble, receiver
  <2>2. InOrder'
    BY <1>1, <1>3, <2>1 DEF InOrder, Listening
  <2> QED BY <2>1, <2>2 DEF File!vars
<1>4. CASE ~Listening /\ UNCHANGED receiver
  BY <1>1, <1>4 DEF InOrder, Listening, receiver, File!vars
<1> QED
  BY <1>2, <1>3, <1>4 DEF SendBlock, Transmit, Garbled, NotHeard

\* The steps of the sender that read a reply, give up or wait.
LEMMA QuietOrder ==
  ASSUME TInv, InOrder, UNCHANGED <<rstate, file>>,
         trouble' \in Nat, trouble' <= trouble,
         \/ xpc' = xpc /\ blk' = blk
         \/ xpc = "open" /\ xpc' = "send" /\ blk' = blk
         \/ xpc = "reply" /\ xpc' = "send" /\ blk' \in {blk, blk + 1}
         \/ xpc' \notin {"open", "send", "reply"}
  PROVE  InOrder' /\ [File!Next]_(File!vars)
<1>1. blk \in Nat /\ Len(file) \in Nat /\ trouble \in Nat /\ trouble' <= MaxTrouble
  BY DEF TInv, TypeOK, XmTypeOK
<1>2. InOrder'
  BY <1>1 DEF InOrder, Listening
<1> QED BY <1>2 DEF File!vars

LEMMA SenderOrder ==
  ASSUME FewTroubles, TInv, InOrder, Sender
  PROVE  InOrder' /\ [File!Next]_(File!vars)
<1>0. trouble \in Nat
  BY DEF TInv, TypeOK, XmTypeOK
<1>1. CASE OpenReads
  BY <1>0, <1>1, QuietOrder DEF OpenReads, receiver
<1>2. CASE OpenTimesOut
  BY <1>0, <1>2, QuietOrder DEF OpenTimesOut, receiver
<1>3. CASE SendBlock
  BY <1>3, SendBlockOrder
<1>4. CASE ReplyRead
  BY <1>0, <1>4, QuietOrder DEF ReplyRead, BlockFails, Repeat, receiver
<1>5. CASE ReplyTimesOut
  BY <1>0, <1>5, QuietOrder DEF ReplyTimesOut, BlockFails, Repeat, receiver
<1>6. ASSUME NEW from \in {"eot1", "eot2"}, NEW to \in {"wait1", "wait2"}, Eot(from, to)
      PROVE  InOrder' /\ [File!Next]_(File!vars)
  <2>1. InOrder'
    BY <1>6 DEF Eot, InOrder
  <2>2. UNCHANGED <<rstate, file>> \/ File!End \/ UNCHANGED File!vars
    BY <1>6 DEF Eot, Awake, Listening, File!End, File!vars
  <2> QED BY <2>1, <2>2 DEF File!Next, File!vars
<1>7. ASSUME NEW from \in {"wait1", "wait2"}, NEW to \in {"eot2", "closed"}, EotWait(from, to)
      PROVE  InOrder' /\ [File!Next]_(File!vars)
  BY <1>0, <1>7, QuietOrder DEF EotWait, receiver
<1>8. CASE Cancel
  BY <1>8 DEF Cancel, InOrder, Listening, File!vars
<1> QED BY <1>1, <1>2, <1>3, <1>4, <1>5, <1>6, <1>7, <1>8 DEF Sender

LEMMA ResetOrder ==
  ASSUME NEW mode, ResetTo(mode), xpc' # "open" \/ UNCHANGED <<xpc, blk>>, InOrder
  PROVE  InOrder' /\ [File!Next]_(File!vars)
<1>1. InOrder'
  BY DEF ResetTo, NoReceiver, InOrder, Listening
<1>2. File!Forget
  BY DEF ResetTo, NoReceiver, File!Forget
<1> QED BY <1>1, <1>2 DEF File!Next

LEMMA NextOrder ==
  ASSUME FewTroubles, TInv, InOrder, [Next]_vars
  PROVE  InOrder' /\ [File!Next]_(File!vars)
<1>0. trouble \in Nat
  BY DEF TInv, TypeOK, XmTypeOK
<1>1. CASE UNCHANGED xmVars
  BY <1>0, <1>1, QuietOrder DEF xmVars, sender, receiver
<1>2. CASE UNCHANGED vars
  BY <1>1, <1>2 DEF vars
<1>3. ASSUME NEW mode, ModeSet(mode) \/ NoApplication \/ ModeUnknown(mode), UNCHANGED sender
      PROVE  InOrder' /\ [File!Next]_(File!vars)
  BY <1>3, ResetOrder DEF ModeSet, NoApplication, ModeUnknown, sender
<1>4. CASE InitBoot \/ InitApp \/ UpgradeBoot \/ UpgradeApp
  BY <1>3, <1>4, ResetOrder DEF InitBoot, InitApp, UpgradeBoot, UpgradeApp, ResetFirst, sender
<1>5. CASE DrvStart \/ Compare \/ UpgradeBootTake \/ UpgradeAppTake
  BY <1>1, <1>5 DEF DrvStart, Compare, UpgradeBootTake, UpgradeAppTake
<1>11. CASE UpgradeBootAsk \/ UpgradeAppAsk
  <2>1. CASE Answered
    BY <1>1, <2>1 DEF Answered
  <2>2. CASE Unanswered
    BY <2>2, ResetOrder DEF Unanswered, sender
  <2> QED BY <1>11, <2>1, <2>2 DEF UpgradeBootAsk, UpgradeAppAsk
<1>6. CASE StartXmodem
  <2>1. CASE XmOpen /\ rstate' = "ready" /\ file' = <<>>
    <3>1. File!Forget
      BY <2>1 DEF File!Forget
    <3>2. InOrder'
      BY <1>0, <2>1 DEF XmOpen, InOrder, Listening, TInv, TypeOK, XmTypeOK
    <3> QED BY <3>1, <3>2 DEF File!Next
  <2>2. CASE ResetTo(emtrMode) /\ UNCHANGED sender
    BY <2>2, ResetOrder DEF sender
  <2>3. CASE NoReceiver /\ UNCHANGED sender
    BY <2>3 DEF NoReceiver, InOrder, Listening, File!Forget, File!Next, sender
  <2> QED BY <1>6, <2>1, <2>2, <2>3 DEF StartXmodem
<1>7. CASE Transfer
  <2>1. CASE Sender
    BY <2>1, SenderOrder
  <2>2. CASE LateReply
    BY <1>0, <2>2, QuietOrder DEF LateReply, sender, receiver
  <2>3. CASE ReceiverAsks
    BY <1>0, <2>3, QuietOrder DEF ReceiverAsks, UseTrouble, sender, receiver
  <2> QED BY <1>7, <2>1, <2>2, <2>3 DEF Transfer
<1>8. CASE FirstReadAnswered
  BY <1>1, <1>8 DEF FirstReadAnswered
<1>9. CASE FirstReadFails
  <2>1. CASE ResetTo(emtrMode)
    BY <1>9, <2>1, ResetOrder DEF FirstReadFails, sender
  <2>2. CASE UNCHANGED receiver
    <3>1. trouble' \in Nat /\ trouble' <= trouble
      BY <1>0, <1>9 DEF FirstReadFails
    <3> QED BY <1>9, <2>2, <3>1, QuietOrder DEF FirstReadFails, sender, receiver
  <2> QED BY <1>9, <2>1, <2>2 DEF FirstReadFails
<1>10. CASE Restart
  BY <1>10, ResetOrder DEF Restart
<1> QED BY <1>2, <1>4, <1>5, <1>6, <1>7, <1>8, <1>9, <1>10, <1>11
        DEF Next, AppMain, UpgradeSteps, FirstRead

\* emtrUpgrade with csXmSend implements the transfer of XmTransfer: the blocks
\* arrive in order, each once, and none after the end, for any number of blocks
\* and tries, as long as less goes wrong than there are numbers of blocks.
THEOREM FileIsATransfer ==
  ASSUME FewTroubles
  PROVE  Spec => ImplementsTransfer
<1>1. Init => InOrder /\ File!Init
  BY DEF Init, XmInit, InOrder, Listening, File!Init
<1>2. TInv /\ InOrder /\ [Next]_vars => InOrder' /\ [File!Next]_(File!vars)
  BY NextOrder
<1> QED BY <1>1, <1>2, TypesInductive, PTL DEF Spec, ImplementsTransfer, File!Spec

(***************************************************************************)
(* A start in which nothing goes wrong.  The transfer goes in lock step:   *)
(* one block is sent, one is received, one acknowledgement is on its way.  *)
(***************************************************************************)
LockStep ==
    /\ late = "none"
    /\ \/ xpc = "open" /\ rstate = "ready" /\ blk = 1 /\ file = <<>> /\ rx \in {<<>>, <<"C">>}
       \/ xpc = "send" /\ Listening /\ blk = Len(file) + 1 /\ rx = <<>>
       \/ xpc = "reply" /\ Listening /\ blk = Len(file) /\ rx = <<"ACK">>
       \/ /\ Len(file) = N
          /\ \/ xpc = "eot1" /\ Listening /\ rx = <<>>
             \/ xpc = "wait1" /\ rstate = "eot" /\ rx = <<"NAK">>
             \/ xpc = "eot2" /\ rstate = "eot" /\ rx = <<>>
             \/ xpc = "wait2" /\ rstate = "ended" /\ rx = <<"ACK">>

Sent == rstate = "ended" /\ Len(file) = N

Repairing ==
    /\ upc \in {"initBoot", "initApp"} => fwVersion = "0.0.0"
    /\ upc \in {"start", "compare"} /\ fwVersion = "new" => emtrMode = "application"
    /\ clean /\ ~raced =>
         /\ upc = "transfer" => LockStep
         /\ upc = "app" => Sent
         /\ upc = "appAsk" => fw = "new" /\ meter = "application"
         /\ upc = "appTake" => fw = "new" /\ answer = "application"
         /\ upc = "running" => fw = "new" /\ emtrMode = "application"

RepairInv == AckInv /\ VersionInv /\ Repairing

LEMMA OneChar ==
  ASSUME NEW c
  PROVE  Head(<<c>>) = c /\ Tail(<<c>>) = <<>> /\ Append(<<>>, c) = <<c>> /\ <<c>> # <<>>
  OBVIOUS

\* An undisturbed reply arrives.
LEMMA ReplyArrives ==
  ASSUME TInv, NEW c, Reply(c), trouble' = trouble, rx = <<>>
  PROVE  rx' = <<c>> /\ UNCHANGED late
  BY OneChar DEF Reply, UseTrouble, TInv, TypeOK, XmTypeOK

LEMMA BlockInStep ==
  ASSUME TInv, LockStep, SendBlock, trouble' = trouble
  PROVE  LockStep'
<1>1. /\ xpc = "send" /\ xpc' = "reply" /\ UNCHANGED blk /\ Transmit
      /\ late = "none" /\ Listening /\ blk = Len(file) + 1 /\ rx = <<>>
      /\ trouble \in Nat /\ Len(file) \in Nat /\ file \in Seq(1..N) /\ blk \in 1..N
  BY DEF SendBlock, LockStep, TInv, TypeOK, XmTypeOK, InTransfer
<1>2. TakesBlock
  BY <1>1 DEF Transmit, Garbled, UseTrouble
<1>3. Number(blk) # Number(Len(file))
  <2> SUFFICES ASSUME Number(blk) = Number(Len(file)) PROVE FALSE
    OBVIOUS
  <2>1. blk \in Nat /\ Len(file) <= blk /\ blk < Len(file) + BlockMod
    BY <1>1
  <2>2. blk = Len(file)
    BY <1>1, <2>1, SameNumber
  <2> QED BY <1>1, <2>2
<1>4. file' = Append(file, blk) /\ rstate' = "run" /\ Reply("ACK")
  BY <1>1, <1>2, <1>3 DEF TakesBlock
<1>5. Len(file') = Len(file) + 1 /\ rx' = <<"ACK">> /\ UNCHANGED late
  BY <1>1, <1>4, ReplyArrives
<1> QED BY <1>1, <1>4, <1>5 DEF LockStep, Listening

LEMMA EotInStep ==
  ASSUME TInv, LockStep, trouble' = trouble, Eot("eot1", "wait1") \/ Eot("eot2", "wait2")
  PROVE  LockStep'
<1>1. /\ Awake /\ Len(file) = N /\ late = "none" /\ rx = <<>> /\ UNCHANGED file
      /\ \/ xpc = "eot1" /\ Listening /\ xpc' = "wait1"
         \/ xpc = "eot2" /\ rstate = "eot" /\ xpc' = "wait2"
  BY DEF Eot, LockStep, Awake
<1>2. /\ rstate' = IF rstate = "eot" THEN "ended" ELSE "eot"
      /\ Reply(IF rstate = "eot" THEN "ACK" ELSE "NAK")
  BY <1>1 DEF Eot, UseTrouble, TInv, TypeOK, XmTypeOK
<1>3. rx' = <<IF rstate = "eot" THEN "ACK" ELSE "NAK">> /\ UNCHANGED late
  BY <1>1, <1>2, ReplyArrives
<1> QED BY <1>1, <1>2, <1>3 DEF LockStep, Listening

LEMMA TransferInStep ==
  ASSUME TInv, LockStep, Sender \/ LateReply \/ ReceiverAsks, trouble' = trouble
  PROVE  IF xpc' = "closed" THEN Sent' ELSE LockStep'
<1>0. /\ trouble \in Nat /\ N \in Nat \ {0} /\ blk \in Nat /\ Len(file) \in Nat
      /\ rstate \in {"off", "ready", "run", "eot", "ended", "cancelled"}
  BY DEF TInv, TypeOK, XmTypeOK
<1>1. CASE OpenReads
  <2>1. rx = <<"C">> /\ rstate = "ready" /\ blk = 1 /\ file = <<>> /\ late = "none"
    BY <1>1 DEF OpenReads, LockStep
  <2>2. xpc' = "send" /\ rx' = <<>> /\ UNCHANGED <<blk, late, rstate, file>>
    BY <1>1, <2>1, OneChar DEF OpenReads, receiver
  <2> QED BY <2>1, <2>2 DEF LockStep, Listening
<1>2. CASE OpenTimesOut
  BY <1>0, <1>2 DEF OpenTimesOut, LockStep
<1>3. CASE SendBlock
  BY <1>3, BlockInStep DEF SendBlock
<1>4. CASE ReplyRead
  <2>1. rx = <<"ACK">> /\ Listening /\ blk = Len(file) /\ late = "none"
    BY <1>4 DEF ReplyRead, LockStep
  <2>2. /\ rx' = <<>> /\ blk' = blk + 1 /\ xpc' = IF blk = N THEN "eot1" ELSE "send"
        /\ UNCHANGED <<late, rstate, file>>
    BY <1>4, <2>1, OneChar DEF ReplyRead, receiver
  <2> QED BY <1>0, <2>1, <2>2 DEF LockStep, Listening
<1>5. CASE ReplyTimesOut
  BY <1>5, OneChar DEF ReplyTimesOut, LockStep
<1>6. CASE Eot("eot1", "wait1") \/ Eot("eot2", "wait2")
  BY <1>6, EotInStep DEF Eot
<1>7. CASE EotWait("wait1", "eot2")
  <2>1. rstate = "eot" /\ Len(file) = N /\ late = "none" /\ rx = <<"NAK">>
    BY <1>7 DEF EotWait, LockStep
  <2>2. rx' = <<>> /\ xpc' = "eot2" /\ UNCHANGED <<late, rstate, file>>
    BY <1>7, <2>1, OneChar DEF EotWait, receiver
  <2> QED BY <2>1, <2>2 DEF LockStep
<1>8. CASE EotWait("wait2", "closed")
  BY <1>8 DEF EotWait, LockStep, receiver, Sent
<1>9. CASE Cancel
  BY <1>9 DEF Cancel, LockStep
<1>10. CASE LateReply
  BY <1>10 DEF LateReply, LockStep
<1>11. CASE ReceiverAsks
  <2>1. rx = <<>> /\ xpc = "open" /\ UNCHANGED <<xpc, blk, late, rstate, file>>
    BY <1>0, <1>11 DEF ReceiverAsks, UseTrouble, sender, receiver
  <2>2. rx' = <<"C">>
    BY <1>11, <2>1, OneChar DEF ReceiverAsks
  <2> QED BY <1>11, <2>1, <2>2 DEF LockStep, ReceiverAsks
<1> QED BY <1>1, <1>2, <1>3, <1>4, <1>5, <1>6, <1>7, <1>8, <1>9, <1>10, <1>11 DEF Sender

\* A step that is disturbed is not part of such a start.
LEMMA DisturbedShows ==
  ASSUME TInv, Disturbed
  PROVE  ~(clean' /\ ~raced')
  BY DEF Disturbed, TInv, TypeOK

LEMMA AppMainRepairs ==
  ASSUME RepairInv, AppMain
  PROVE  Repairing'
<1>0. TInv /\ VersionInv /\ AckInv
  BY DEF RepairInv, Repairing, AckInv
<1>1. CASE InitBoot
  BY <1>0, <1>1, DisturbedShows DEF InitBoot, RepairInv, Repairing
<1>2. CASE InitApp
  <2>1. upc' = "start" /\ fwVersion = "0.0.0"
    BY <1>2 DEF InitApp, RepairInv, Repairing
  <2> QED BY <1>2, <2>1 DEF InitApp, ModeSet, Repairing
<1>3. CASE DrvStart
  BY <1>3 DEF DrvStart, RepairInv, Repairing
<1>4. CASE Compare
  <2>1. CASE fwVersion = "new"
    <3>1. emtrMode = "application" /\ fw = "new"
      BY <1>4, <2>1 DEF Compare, RepairInv, Repairing, VersionInv, Settled
    <3> QED BY <1>4, <2>1, <3>1 DEF Compare, Repairing, world
  <2>2. CASE fwVersion # "new"
    BY <1>4, <2>2 DEF Compare, Repairing
  <2> QED BY <2>1, <2>2
<1>5. CASE UpgradeBoot \/ UpgradeBootAsk
  BY <1>0, <1>5, DisturbedShows
  DEF UpgradeBoot, UpgradeBootAsk, Unanswered, Running, Repairing
<1>6. CASE StartXmodem
  <2>1. CASE XmOpen /\ rstate' = "ready" /\ file' = <<>> /\ upc' = "transfer"
    BY <1>0, <1>6, <2>1 DEF StartXmodem, XmOpen, AckInv, LockStep, Repairing
  <2>2. CASE Disturbed /\ upc' = "app"
    BY <1>0, <2>2, DisturbedShows DEF Repairing
  <2> QED BY <1>6, <2>1, <2>2 DEF StartXmodem
<1>7. CASE Transfer
  <2>1. upc = "transfer" /\ upc' = (IF xpc' = "closed" THEN "app" ELSE "transfer") /\ UNCHANGED raced
    BY <1>7 DEF Transfer
  <2>2. ASSUME clean' /\ ~raced' PROVE IF xpc' = "closed" THEN Sent' ELSE LockStep'
    <3>0. clean' = (clean /\ trouble' = trouble) /\ clean \in BOOLEAN
      BY <1>0, <1>7 DEF Transfer, TInv, TypeOK
    <3>1. clean /\ ~raced /\ trouble' = trouble
      BY <2>1, <2>2, <3>0
    <3>2. LockStep
      BY <2>1, <3>1 DEF RepairInv, Repairing
    <3> QED BY <1>0, <1>7, <3>1, <3>2, TransferInStep DEF Transfer
  <2> QED BY <2>1, <2>2 DEF Repairing
<1>8. CASE UpgradeApp
  <2>1. /\ upc = "app" /\ upc' = "appAsk" /\ ResetTo("application")
        /\ UNCHANGED <<clean, raced>>
    BY <1>8 DEF UpgradeApp, ResetFirst, Undisturbed
  <2>2. ASSUME clean' /\ ~raced' PROVE fw' = "new" /\ meter' = "application"
    <3>1. Sent
      BY <2>1, <2>2 DEF RepairInv, Repairing
    <3> QED BY <2>1, <3>1 DEF ResetTo, Installed, Sent
  <2> QED BY <2>1, <2>2 DEF Repairing
<1>9. CASE UpgradeBootTake
  <2>1. raced \/ upc' = "xmodem"
    BY <1>0, <1>9 DEF UpgradeBootTake, VersionInv, TInv, TypeOK, Modes
  <2> QED BY <1>9, <2>1 DEF UpgradeBootTake, Running, world, Repairing
<1>10. CASE UpgradeAppAsk
  <2>1. CASE Answered /\ upc' = "appTake"
    BY <1>10, <2>1 DEF UpgradeAppAsk, Answered, world, RepairInv, Repairing
  <2>2. CASE Unanswered /\ Running
    BY <1>0, <2>2, DisturbedShows DEF Unanswered, Running, Repairing
  <2> QED BY <1>10, <2>1, <2>2 DEF UpgradeAppAsk
<1>11. CASE UpgradeAppTake
  BY <1>11 DEF UpgradeAppTake, Running, world, RepairInv, Repairing
<1> QED BY <1>1, <1>2, <1>3, <1>4, <1>5, <1>6, <1>7, <1>8, <1>9, <1>10, <1>11
        DEF AppMain, UpgradeSteps

\* The first read that fails in the upgrade shows, and so does one of an
\* application that runs.
LEMMA FirstReadRepairs ==
  ASSUME RepairInv, FirstRead
  PROVE  Repairing'
<1>0. TInv /\ VersionInv
  BY DEF RepairInv, Repairing, AckInv
<1>1. CASE FirstReadAnswered
  BY <1>1 DEF FirstReadAnswered, xmVars, sender, line, receiver, world, RepairInv, Repairing,
     LockStep, Sent, Listening
<1>2. CASE FirstReadFails
  <2>1. UNCHANGED <<upc, emtrMode, fwVersion>>
    BY <1>2 DEF FirstReadFails
  <2>2. ASSUME clean' /\ ~raced' PROVE clean /\ ~raced /\ ~Upgrading /\ meter # "application"
    BY <1>0, <1>2, <2>2 DEF FirstReadFails, TInv, TypeOK, XmTypeOK
  <2>3. ASSUME clean' /\ ~raced' PROVE upc \notin {"transfer", "app", "running"}
    BY <2>2, <2>3 DEF Upgrading, RepairInv, Repairing, VersionInv, Settled
  <2>4. ASSUME clean' /\ ~raced' PROVE upc \notin {"appAsk", "appTake"}
    BY <2>2, <2>4 DEF Upgrading
  <2> QED BY <2>1, <2>3, <2>4 DEF RepairInv, Repairing
<1> QED BY <1>1, <1>2 DEF FirstRead

LEMMA NextRepairs == RepairInv /\ [Next]_vars => RepairInv'
<1> SUFFICES ASSUME RepairInv, [Next]_vars PROVE RepairInv'
  OBVIOUS
<1>1. AckInv' /\ VersionInv'
  BY NextAck, NextVersion DEF RepairInv, Repairing
<1>2. ASSUME UNCHANGED vars PROVE Repairing'
  BY <1>2 DEF vars, drv, world, xmVars, sender, line, receiver, RepairInv, Repairing,
     LockStep, Sent, Listening
<1>3. ASSUME Restart PROVE Repairing'
  BY <1>3 DEF Restart, Repairing
<1>4. Repairing'
  BY <1>2, <1>3, AppMainRepairs, FirstReadRepairs DEF Next
<1> QED BY <1>1, <1>4 DEF RepairInv

\* However the upgrade of an earlier start ended, a start in which nothing goes
\* wrong ends with the image's application, provided that no try of the task's
\* first read fails in the upgrade.  An erased meter answers no try, so for it the
\* read has to be over before the upgrade begins.
THEOREM UnracedStartEndsRepaired == Spec => []UnracedStartRepairs
<1>1. Init => RepairInv
  <2>1. Init => AckInv /\ VersionInv
    BY InitAck, InitVersion
  <2> QED BY <2>1 DEF Init, RepairInv, Repairing
<1>2. RepairInv => UnracedStartRepairs
  BY DEF RepairInv, Repairing, UnracedStartRepairs
<1> QED BY <1>1, <1>2, NextRepairs, PTL DEF Spec

=============================================================================
