----------------------------- MODULE EmtrUpgrade -----------------------------
(***************************************************************************)
(* The start of the meter's driver (emtrDrvInit, emtrDrvStart) and the     *)
(* upgrade of the meter's firmware in it (emtrUpgrade), which sends the    *)
(* image with XmSend.  emtrDrvStart runs it in the task of app_main, while *)
(* the driver's own task begins with a read of the meter's state, without  *)
(* the mutex: the commands of both go over the same line.                  *)
(*                                                                         *)
(* The meter is external: its reset starts the boot loader or, if it has   *)
(* one, the application; a transfer erases it; only the application        *)
(* answers the read of the state; a transfer that ended with all blocks    *)
(* leaves the new one.                                                     *)
(***************************************************************************)
EXTENDS XmSend, FiniteSets

VARIABLES upc,            \* emtrDrvInit, emtrDrvStart and emtrUpgrade
          emtrMode,       \* as last read
          fwVersion,      \* as last read, for emtrDrvGetFwVersion
          timer,          \* the poll timer runs
          fpc,            \* the tries of the task's first read
          answer,         \* the meter's answer to emtrRunModeGet
          meter, fw,      \* what the meter runs, its application
          clean, raced    \* history of this start: nothing went wrong; the first
                          \* read was under way in the upgrade

drv == <<upc, emtrMode, fwVersion, timer, fpc, answer>>
world == <<meter, fw, clean, raced>>
vars == <<xmVars, drv, world>>

Modes == {"application", "bootLoader"}

TypeOK ==
    /\ XmTypeOK
    /\ upc \in {"initBoot", "initApp", "start", "compare", "boot", "bootAsk", "bootTake",
                "xmodem", "transfer", "app", "appAsk", "appTake", "running", "absent"}
    /\ emtrMode \in Modes \cup {"notRunning"} /\ fwVersion \in {"0.0.0", "old", "new"}
    /\ timer \in BOOLEAN /\ fpc \in {"none", "try1", "try2", "try3", "done"}
    /\ answer \in Modes
    /\ meter \in Modes /\ fw \in {"old", "new", "none"}
    /\ clean \in BOOLEAN /\ raced \in BOOLEAN

Init ==
    /\ XmInit
    /\ upc = "initBoot" /\ emtrMode = "notRunning" /\ fwVersion = "0.0.0"
    /\ timer = FALSE /\ fpc = "none" /\ answer = "bootLoader"
    /\ meter = "application" /\ fw \in {"old", "new"} /\ clean = TRUE /\ raced = FALSE

(***************************************************************************)
(* emtrRunModeSet: reset the meter and ask for its mode.  The upgrade runs *)
(* next to the first read of the driver's task: there the reset, the       *)
(* meter's answer and the assignment are three steps.                      *)
(***************************************************************************)
\* A complete file is the new application.
Installed == IF rstate = "ended" /\ Len(file) = N THEN "new" ELSE fw

NoReceiver ==
    /\ rstate' = "off" /\ file' = <<>> /\ again' = 0
    /\ rx' = <<>> /\ late' = "none"

\* Without an application it stays in the boot loader.
ResetTo(mode) ==
    /\ fw' = Installed
    /\ meter' = IF fw' = "none" THEN "bootLoader" ELSE mode
    /\ NoReceiver

\* The task's first read takes the answers of others, and theirs are taken.
Reading == fpc \in {"try1", "try2", "try3"}
Disturbed ==
    /\ Reading \/ trouble > 0
    /\ trouble' = IF Reading THEN trouble ELSE trouble - 1
    /\ clean' = (clean /\ Reading) /\ raced' = (raced \/ Reading)
Undisturbed == UNCHANGED <<trouble, clean, raced>>

\* All tries failed: the last one has reset the meter to the mode last read.
KnownMode(mode) == IF emtrMode = "notRunning" THEN mode ELSE emtrMode

ModeSet(mode) ==
    /\ ResetTo(mode) /\ Undisturbed
    /\ meter' = mode /\ emtrMode' = mode

\* It answers from the boot loader, or not at all.
NoApplication ==
    /\ ResetTo("application") /\ Undisturbed
    /\ meter' = "bootLoader" /\ emtrMode' = meter'

ModeUnknown(mode) == ResetTo(KnownMode(mode)) /\ Disturbed /\ UNCHANGED emtrMode

ResetFirst(mode) == ResetTo(mode) /\ Undisturbed /\ UNCHANGED <<sender, emtrMode, fwVersion, fpc>>
Answered == answer' = meter /\ UNCHANGED <<xmVars, emtrMode, fwVersion, timer, fpc, world>>
Unanswered ==
    /\ ResetTo(emtrMode) /\ Disturbed
    /\ UNCHANGED <<sender, emtrMode, fwVersion, fpc, answer>>
Running == upc' = "running" /\ timer' = TRUE

(***************************************************************************)
(* app_main: emtrDrvInit, emtrDrvStart, emtrUpgrade.                       *)
(***************************************************************************)
InitBoot ==
    /\ upc = "initBoot"
    /\ \/ ModeSet("bootLoader") /\ upc' = "initApp"
       \/ ModeUnknown("bootLoader") /\ upc' = "absent"
    /\ UNCHANGED <<sender, fwVersion, timer, fpc, answer>>

\* Goes on without an application.
InitApp ==
    /\ upc = "initApp" /\ upc' = "start"
    /\ \/ ModeSet("application") /\ fwVersion' = fw'
       \/ (NoApplication \/ ModeUnknown("application")) /\ UNCHANGED fwVersion
    /\ UNCHANGED <<sender, timer, fpc, answer>>

DrvStart ==
    /\ upc = "start" /\ upc' = "compare"
    /\ fpc' = "try1" /\ timer' = TRUE
    /\ UNCHANGED <<xmVars, emtrMode, fwVersion, answer, world>>

\* Mutant: only an application that is known is upgraded.
CompareKnown ==
    /\ upc = "compare"
    /\ upc' = IF fwVersion = "old" THEN "boot" ELSE "running"
    /\ UNCHANGED <<xmVars, emtrMode, fwVersion, timer, fpc, answer, world>>

Compare ==
    /\ upc = "compare"
    /\ upc' = IF fwVersion = "new" THEN "running" ELSE "boot"
    /\ UNCHANGED <<xmVars, emtrMode, fwVersion, timer, fpc, answer, world>>

UpgradeBoot ==
    /\ upc = "boot" /\ upc' = "bootAsk"
    /\ timer' = FALSE /\ ResetFirst("bootLoader") /\ UNCHANGED answer

\* Mutant: the timer is armed by the way out of the boot loader only.
UpgradeBootAskUntimed ==
    /\ upc = "bootAsk"
    /\ \/ Answered /\ upc' = "bootTake"
       \/ Unanswered /\ upc' = "running" /\ UNCHANGED timer

UpgradeBootAsk ==
    /\ upc = "bootAsk"
    /\ \/ Answered /\ upc' = "bootTake"
       \/ Unanswered /\ Running

\* Any other mode than the boot loader's ends the upgrade.
UpgradeBootTake ==
    /\ upc = "bootTake"
    /\ emtrMode' = answer
    /\ IF answer = "bootLoader" THEN upc' = "xmodem" /\ UNCHANGED timer ELSE Running
    /\ UNCHANGED <<xmVars, fwVersion, fpc, answer, world>>

\* startXmodemTransfer and the flush of csXmSendOpen.  The last try finds the
\* boot loader in any case.  No answer: the meter has not heard the command, or
\* only the answers were lost.
StartXmodem ==
    /\ upc = "xmodem"
    /\ \/ /\ XmOpen /\ upc' = "transfer"
          /\ rstate' = "ready" /\ file' = <<>> /\ again' = 0
          /\ fw' = "none" /\ meter' = "bootLoader" /\ UNCHANGED <<clean, raced>>
       \/ /\ ResetTo(emtrMode) /\ Disturbed
          /\ upc' = "app" /\ UNCHANGED sender
       \/ /\ NoReceiver /\ Disturbed
          /\ fw' = "none" /\ meter' = "bootLoader"
          /\ upc' = "app" /\ UNCHANGED sender
    /\ UNCHANGED <<emtrMode, fwVersion, timer, fpc, answer>>

Transfer ==
    /\ upc = "transfer" /\ (Sender \/ LateReply \/ ReceiverAsks)
    /\ upc' = IF xpc' = "closed" THEN "app" ELSE "transfer"
    /\ clean' = (clean /\ trouble' = trouble)
    /\ UNCHANGED <<emtrMode, fwVersion, timer, fpc, answer, meter, fw, raced>>

UpgradeApp ==
    /\ upc = "app" /\ upc' = "appAsk"
    /\ ResetFirst("application") /\ UNCHANGED <<timer, answer>>

UpgradeAppAsk ==
    /\ upc = "appAsk"
    /\ \/ Answered /\ upc' = "appTake"
       \/ Unanswered /\ Running

\* Mutant: the version is the one sent.
UpgradeAppTakeAssumed ==
    /\ upc = "appTake" /\ Running
    /\ emtrMode' = answer
    /\ fwVersion' = IF answer = "application" THEN "new" ELSE fwVersion
    /\ UNCHANGED <<xmVars, fpc, answer, world>>

\* The version comes with the answer.
UpgradeAppTake ==
    /\ upc = "appTake" /\ Running
    /\ emtrMode' = answer
    /\ fwVersion' = IF answer = "application" THEN fw ELSE fwVersion
    /\ UNCHANGED <<xmVars, fpc, answer, world>>

(***************************************************************************)
(* The task's first read, its last try after a reset of the meter.         *)
(***************************************************************************)
Upgrading == upc \in {"boot", "bootAsk", "bootTake", "xmodem", "transfer",
                      "app", "appAsk", "appTake"}

FirstReadAnswered ==
    /\ Reading /\ meter = "application" /\ fpc' = "done"
    /\ UNCHANGED <<xmVars, upc, emtrMode, fwVersion, timer, answer, world>>

FirstReadFails ==
    /\ Reading
    /\ meter = "application" /\ ~Upgrading => trouble > 0
    /\ trouble' = IF meter = "application" /\ ~Upgrading THEN trouble - 1 ELSE trouble
    /\ clean' = (clean /\ trouble' = trouble) /\ raced' = (raced \/ Upgrading)
    /\ \/ fpc = "try1" /\ fpc' = "try2" /\ rx' \in {rx, <<>>}
         /\ UNCHANGED <<late, receiver, meter, fw>>
       \/ fpc = "try2" /\ fpc' = "try3" /\ ResetTo(emtrMode)
       \/ fpc = "try3" /\ fpc' = "done" /\ rx' \in {rx, <<>>}
         /\ UNCHANGED <<late, receiver, meter, fw>>
    /\ UNCHANGED <<sender, upc, emtrMode, fwVersion, timer, answer>>

(***************************************************************************)
(* A restart, and a loss of power at any time.                             *)
(***************************************************************************)
Restart ==
    /\ upc \notin {"running", "absent"} => trouble > 0
    /\ trouble' = IF upc \in {"running", "absent"} THEN trouble ELSE trouble - 1
    /\ upc' = "initBoot" /\ emtrMode' = "notRunning" /\ fwVersion' = "0.0.0"
    /\ timer' = FALSE /\ fpc' = "none" /\ answer' = "bootLoader"
    /\ ResetTo("application") /\ clean' = TRUE /\ raced' = FALSE
    /\ xpc' = "closed" /\ blk' = 1 /\ retries' = 0

UpgradeSteps == UpgradeBoot \/ UpgradeBootAsk \/ UpgradeBootTake \/ StartXmodem \/ Transfer
                  \/ UpgradeApp \/ UpgradeAppAsk \/ UpgradeAppTake
AppMain == InitBoot \/ InitApp \/ DrvStart \/ Compare \/ UpgradeSteps
FirstRead == FirstReadAnswered \/ FirstReadFails

Next == AppMain \/ FirstRead \/ Restart

Spec == Init /\ [][Next]_vars

\* Both tasks run, and the meter goes on asking for the first block.
FairSpec == Spec /\ WF_vars(AppMain) /\ WF_vars(FirstRead)

(***************************************************************************)
(* What it has to do.                                                      *)
(***************************************************************************)
\* The file the meter gets is a transfer's, whatever was lost, garbled, repeated
\* or late: its blocks in order, each once.
File == INSTANCE XmTransfer WITH ended <- rstate = "ended"
ImplementsTransfer == File!Spec

\* Every acknowledgement that was or will be counted stands for a block of the
\* file, except those of repeated blocks: the sender runs ahead by as many at most.
Acks == IF Listening
          THEN Cardinality({i \in 1..Len(rx) : rx[i] = "ACK"}) + (IF late = "ACK" THEN 1 ELSE 0)
          ELSE 0
AckedIsReceived == rstate # "off" => blk - 1 + Acks <= Len(file) + again

\* The version that is reported is that of the application the meter has, and
\* the meter runs it; unless a try of the first read, whose last one resets the
\* meter to the mode known before, failed in the upgrade.
VersionTrue ==
    upc = "running" /\ emtrMode = "application" =>
        /\ fwVersion = fw
        /\ meter = "application" \/ raced

\* However the upgrade of an earlier start ended, a start in which nothing goes
\* wrong ends with the application of the image; if no try of the task's first
\* read failed in the upgrade (an erased meter answers none of them, so it is
\* repaired in this way only when the read is over before the upgrade).
UnracedStartRepairs ==
    upc = "running" /\ clean /\ ~raced => fw = "new" /\ emtrMode = "application"

\* A start ends, with the poll timer running or without a meter.
StartEnds == upc = "initBoot" ~> (upc = "absent" \/ (upc = "running" /\ timer))

(***************************************************************************)
(* What a comment says and the code does not do.                           *)
(***************************************************************************)
\* "Don't abort the initialization at this point, maybe the firmware can be
\* programmed via the boot loader": a start that finds no application programs
\* the meter, if nothing else goes wrong.
MeterIsProgrammed == upc = "running" /\ clean => fwVersion # "0.0.0"

=============================================================================
