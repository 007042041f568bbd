------------------------------- MODULE XmSend -------------------------------
(***************************************************************************)
(* The XMODEM sender (xmodem_snd.c) and a receiver, the meter's boot       *)
(* loader, over a line that loses, garbles and delays.  The receiver is    *)
(* external: it takes the block that is next, acknowledges the last one    *)
(* again, cancels at any other, and answers the first of two EOTs with NAK.*)
(* The numbers of the blocks wrap (BlockMod for 256).                      *)
(*                                                                         *)
(* The sender flushes its input before the transfer but not before the     *)
(* reply to a block: what came late is taken for the next reply.  One late *)
(* reply at a time.                                                        *)
(***************************************************************************)
EXTENDS Naturals, Sequences

CONSTANTS N,              \* blocks of the image, the last one full or filled up
          BlockMod,       \* 256
          Retries,        \* 8
          MaxTrouble      \* bound: how often the environment does something

ASSUME XmAssumption ==
    /\ N \in Nat \ {0} /\ BlockMod \in Nat \ {0, 1, 2} /\ Retries \in Nat \ {0}
    /\ MaxTrouble \in Nat

VARIABLES xpc, blk, retries,  \* the sender, its block, the tries left
          rx, late,           \* characters to the sender
          rstate, file,       \* the receiver
          again,              \* history: replies to repeated blocks
          trouble

sender == <<xpc, blk, retries>>
line == <<rx, late>>
receiver == <<rstate, file, again>>
xmVars == <<sender, line, receiver, trouble>>

Chars == {"C", "ACK", "NAK", "CAN"}

XmTypeOK ==
    /\ xpc \in {"closed", "open", "send", "reply", "eot1", "wait1", "eot2", "wait2", "cancel"}
    /\ blk \in 1..N+1 /\ retries \in 0..Retries
    /\ rx \in Seq(Chars) /\ late \in Chars \cup {"none"}
    /\ rstate \in {"off", "ready", "run", "eot", "ended", "cancelled"}
    /\ file \in Seq(1..N) /\ again \in Nat
    /\ trouble \in 0..MaxTrouble

XmInit ==
    /\ xpc = "closed" /\ blk = 1 /\ retries = 0
    /\ rx = <<>> /\ late = "none"
    /\ rstate = "off" /\ file = <<>> /\ again = 0
    /\ trouble = MaxTrouble

UseTrouble == trouble > 0 /\ trouble' = trouble - 1

(***************************************************************************)
(* The receiver.                                                           *)
(***************************************************************************)
\* It asks for the first block, once, or again if it has to wait.
ReceiverAsks ==
    /\ rstate = "ready" /\ xpc \in {"open", "send", "reply"}
    /\ IF rx = <<>> /\ xpc = "open" THEN UNCHANGED trouble ELSE UseTrouble
    /\ rx' = Append(rx, "C")
    /\ UNCHANGED <<sender, late, receiver>>

\* Its reply comes in time, late or not at all.
Reply(c) ==
    \/ rx' = Append(rx, c) /\ UNCHANGED <<late, trouble>>
    \/ late = "none" /\ late' = c /\ UseTrouble /\ UNCHANGED rx
    \/ UseTrouble /\ UNCHANGED line

LateReply ==
    /\ late # "none" /\ late' = "none"
    /\ rx' = Append(rx, late)
    /\ UNCHANGED <<sender, receiver, trouble>>

\* Mutant: a number of one bit.
NumberOneBit(n) == n % 2

Number(n) == n % BlockMod
Listening == rstate \in {"ready", "run"}

TakesBlock ==
    \/ /\ Number(blk) = Number(Len(file) + 1)
       /\ file' = Append(file, blk) /\ rstate' = "run"
       /\ Reply("ACK") /\ UNCHANGED again
    \/ /\ Number(blk) = Number(Len(file)) /\ file # <<>>
       /\ again' = again + 1
       /\ Reply("ACK") /\ UNCHANGED <<rstate, file>>
    \/ /\ Number(blk) # Number(Len(file) + 1)
       /\ Number(blk) = Number(Len(file)) => file = <<>>
       /\ rstate' = "cancelled" /\ Reply("CAN") /\ UNCHANGED <<file, again>>

Garbled == UseTrouble /\ rx' = Append(rx, "NAK") /\ UNCHANGED <<late, receiver>>
NotHeard == UNCHANGED <<line, receiver>>

\* A block on its way: heard, garbled, or lost, as it is when nobody listens.
Transmit ==
    \/ Listening /\ TakesBlock
    \/ Listening /\ Garbled
    \/ Listening /\ UseTrouble /\ NotHeard
    \/ ~Listening /\ NotHeard /\ UNCHANGED trouble

(***************************************************************************)
(* csXmSendOpen.                                                           *)
(***************************************************************************)
XmOpen ==
    /\ xpc = "closed"
    /\ rx' = <<>>
    /\ xpc' = "open" /\ blk' = 1
    /\ UNCHANGED <<retries, late, trouble>>

\* "Ignore other characters"; no character within 5 s ends it.
OpenReads ==
    /\ xpc = "open" /\ rx # <<>> /\ rx' = Tail(rx)
    /\ xpc' = CASE Head(rx) \in {"C", "NAK"} -> "send" [] Head(rx) = "CAN" -> "closed"
                [] OTHER -> "open"
    /\ retries' = IF xpc' = "send" THEN Retries ELSE retries
    /\ UNCHANGED <<blk, late, receiver, trouble>>

OpenTimesOut ==
    /\ xpc = "open" /\ rx = <<>> /\ (rstate = "ready" => trouble > 0)
    /\ trouble' = IF rstate = "ready" THEN trouble - 1 ELSE trouble
    /\ xpc' = "closed"
    /\ UNCHANGED <<blk, retries, line, receiver>>

(***************************************************************************)
(* xmSendBlock, called by csXmSendWrite and, for what is left at the end,  *)
(* by csXmSendClose.                                                       *)
(***************************************************************************)
SendBlock ==
    /\ xpc = "send" /\ xpc' = "reply" /\ retries' = retries - 1
    /\ UNCHANGED blk /\ Transmit

\* The last try failed: a full block ends in the five CANs of csXmSendClose; the
\* failure of a last block that was filled up is not looked at.  Whether the last
\* block is a full one is a matter of the image's length.
BlockFails ==
    /\ \/ xpc' = "cancel"
       \/ blk = N /\ xpc' = "eot1"
    /\ UNCHANGED <<blk, retries>>

Repeat == xpc' = "send" /\ UNCHANGED <<blk, retries>>

\* ACK, CAN, or anything else: NAK and what is not understood are alike.
ReplyRead ==
    /\ xpc = "reply" /\ rx # <<>> /\ rx' = Tail(rx)
    /\ \/ /\ Head(rx) = "ACK"
          /\ blk' = blk + 1
          /\ xpc' = IF blk = N THEN "eot1" ELSE "send"
          /\ retries' = Retries
       \/ Head(rx) = "CAN" /\ BlockFails
       \/ Head(rx) \notin {"ACK", "CAN"} /\ IF retries = 0 THEN BlockFails ELSE Repeat
    /\ UNCHANGED <<late, receiver, trouble>>

\* Mutant: the result of the wait is not looked at.
ReplyTimesOutGoesOn ==
    /\ xpc = "reply" /\ rx = <<>>
    /\ blk' = blk + 1 /\ xpc' = IF blk = N THEN "eot1" ELSE "send"
    /\ retries' = Retries
    /\ UNCHANGED <<line, receiver, trouble>>

ReplyTimesOut ==
    /\ xpc = "reply" /\ rx = <<>>
    /\ IF retries = 0 THEN BlockFails ELSE Repeat
    /\ UNCHANGED <<line, receiver, trouble>>

(***************************************************************************)
(* csXmSendClose.                                                          *)
(***************************************************************************)
Awake == Listening \/ rstate = "eot"

\* EOT twice; what comes back is read and not looked at.
Eot(from, to) ==
    /\ xpc = from /\ xpc' = to
    /\ \/ /\ Awake /\ rstate' = IF rstate = "eot" THEN "ended" ELSE "eot"
          /\ Reply(IF rstate = "eot" THEN "ACK" ELSE "NAK")
       \/ Awake /\ UseTrouble /\ UNCHANGED <<rstate, line>>
       \/ ~Awake /\ UNCHANGED <<rstate, line, trouble>>
    /\ UNCHANGED <<blk, retries, file, again>>

EotWait(from, to) ==
    /\ xpc = from /\ xpc' = to
    /\ rx' = IF rx = <<>> THEN rx ELSE Tail(rx)
    /\ UNCHANGED <<blk, retries, late, receiver, trouble>>

Cancel ==
    /\ xpc = "cancel" /\ xpc' = "closed"
    /\ rstate' = IF Listening THEN "cancelled" ELSE rstate
    /\ UNCHANGED <<blk, retries, line, file, again, trouble>>

Sender == OpenReads \/ OpenTimesOut \/ SendBlock \/ ReplyRead \/ ReplyTimesOut
            \/ Eot("eot1", "wait1") \/ EotWait("wait1", "eot2")
            \/ Eot("eot2", "wait2") \/ EotWait("wait2", "closed") \/ Cancel

=============================================================================
