------------------------------ MODULE EmtrDrv ------------------------------
(***************************************************************************)
(* The driver of the energy meter (emtr_drv.c): ctrlTask takes the poll    *)
(* timer, the requests to switch a socket and pause and resume from one    *)
(* queue, and talks to the meter's processor over a serial line, each      *)
(* command up to three times, the last one after a reset of the meter.     *)
(*                                                                         *)
(* The meter is external.  An answer says of what kind it is but not of    *)
(* which command, so that one that comes late may be taken for the answer  *)
(* to a later command of the same kind.  One late answer at a time.        *)
(***************************************************************************)
EXTENDS Naturals, Sequences

CONSTANTS Sockets,
          QSize,          \* MSG_QUEUE_SZ, 20
          PollCycles,     \* EMTR_POLL_CYCLES_PER_SEC, 10
          MaxTrouble      \* bound: how often the environment does something

ASSUME EmtrAssumption ==
    /\ QSize \in Nat \ {0} /\ PollCycles \in Nat \ {0} /\ MaxTrouble \in Nat

VARIABLES queue, timer,             \* the queue, whether the timer is armed
          tpc, cmd, tries, heard,   \* ctrlTask in doCommand; heard: history
          factory,                  \* devFlags of this poll
          newState, curState,       \* relayActive of each socket
          pause, pollSampleCt,
          rx, late,                 \* the receive FIFO, an answer on its way
          relay,                    \* the meter's
          cbs, led,                 \* sockets with a callback; what it shows
          doubt, deaf, ordered,     \* history, see below
          trouble                   \* bound

task == <<tpc, cmd, tries, heard, factory>>
states == <<newState, curState>>
polling == <<pause, pollSampleCt>>
line == <<rx, late>>
shown == <<cbs, led>>
drvVars == <<queue, timer, task, states, polling, line, relay, shown, doubt,
             deaf, ordered, trouble>>

Simple(c) == [code |-> c]
SetMsg(s, on) == [code |-> "set", sock |-> s, on |-> on]
SetMsgs == [code : {"set"}, sock : Sockets, on : BOOLEAN]
Messages == {Simple(c) : c \in {"timer", "pause", "resume"}} \cup SetMsgs
Commands == {Simple(c) : c \in {"first", "status", "power", "none"}} \cup SetMsgs
Relays == [Sockets -> BOOLEAN]
Replies == [code : {"ack", "power"}] \cup [code : {"status"}, relay : Relays]
NoReply == Simple("none")

DrvTypeOK ==
    /\ queue \in Seq(Messages) /\ Len(queue) <= QSize
    /\ {timer, heard, factory, pause, deaf, ordered} \subseteq BOOLEAN
    /\ tpc \in {"idle", "try"}
    /\ cmd \in Commands /\ tries \in 0..2
    /\ newState \in [Sockets -> {"init", "on", "off"}]
    /\ curState \in [Sockets -> {"init", "on", "off"}]
    /\ pollSampleCt \in 0..PollCycles-1
    /\ rx \in Seq(Replies) /\ late \in Replies \cup {NoReply}
    /\ {relay, led} \subseteq Relays
    /\ {cbs, doubt} \subseteq SUBSET Sockets
    /\ trouble \in 0..MaxTrouble

UseTrouble == trouble > 0 /\ trouble' = trouble - 1

Put(q, m) == IF Len(q) < QSize THEN Append(q, m) ELSE q

(***************************************************************************)
(* The timer, one shot: nobody looks at the result of its xQueueSend, and  *)
(* only the task arms it again (deaf: it never will).                      *)
(***************************************************************************)
TimerCallback ==
    /\ timer /\ timer' = FALSE
    /\ queue' = Put(queue, Simple("timer"))
    /\ deaf' = (deaf \/ Len(queue) = QSize)
    /\ UNCHANGED <<task, states, polling, line, relay, shown, doubt, ordered, trouble>>

(***************************************************************************)
(* ctrlTask.  It starts with a read of the state that nobody is told of.   *)
(***************************************************************************)
Begin(c) == tpc' = "try" /\ cmd' = c /\ tries' = 0
Done == tpc' = "idle" /\ cmd' = Simple("none") /\ tries' = 0

\* Mutant: no requests while paused.
HandleUnlessPaused(m) ==
    \/ m.code = "timer" /\ Begin(Simple("status")) /\ UNCHANGED polling
    \/ m.code = "set" /\ UNCHANGED polling
         /\ IF pause THEN UNCHANGED <<tpc, cmd, tries>> ELSE Begin(m)
    \/ m.code = "pause" /\ pause' = TRUE /\ UNCHANGED <<tpc, cmd, tries, pollSampleCt>>
    \/ m.code = "resume" /\ pause' = FALSE /\ UNCHANGED <<tpc, cmd, tries, pollSampleCt>>

Handle(m) ==
    \/ m.code = "timer" /\ Begin(Simple("status")) /\ UNCHANGED polling
    \/ m.code = "set" /\ Begin(m) /\ UNCHANGED polling
    \/ m.code = "pause" /\ pause' = TRUE /\ UNCHANGED <<tpc, cmd, tries, pollSampleCt>>
    \/ m.code = "resume" /\ pause' = FALSE /\ UNCHANGED <<tpc, cmd, tries>>
         /\ pollSampleCt' = IF pause THEN 0 ELSE pollSampleCt

TaskReceive ==
    /\ tpc = "idle" /\ queue # <<>>
    /\ queue' = Tail(queue)
    /\ Handle(Head(queue))
    /\ heard' = FALSE /\ factory' = FALSE
    /\ UNCHANGED <<timer, states, line, relay, shown, doubt, deaf, ordered, trouble>>

\* Mutant: the timer is armed whatever was reported.
PollEndsArmed(f) ==
    /\ Done /\ factory' = FALSE
    /\ timer' = TRUE /\ ordered' = (ordered \/ f)

\* The end of a poll: the timer is armed again, or the meter's reset button was
\* pressed and a factory reset is asked of the control task.
PollEnds(f) ==
    /\ Done /\ factory' = FALSE
    /\ timer' = ~f /\ ordered' = (ordered \/ f)

\* checkChangeOfState, and what the callbacks of outlet_mgr.c do.
CheckChangeOfState ==
    /\ curState' = newState'
    /\ led' = [s \in Sockets |->
                 IF s \in cbs /\ curState[s] # newState'[s] THEN newState'[s] = "on"
                                                             ELSE led[s]]

\* The rest of the command's handler when it has its answer r.  The power is
\* read with several commands, here one.
GotState(r) == newState' = [s \in Sockets |-> IF r.relay[s] THEN "on" ELSE "off"]

FirstDone(r) ==
    /\ cmd.code = "first" /\ GotState(r) /\ curState' = newState' /\ Done
    /\ UNCHANGED <<timer, factory, polling, led, ordered, doubt>>

SetDone ==
    /\ cmd.code = "set" /\ Done
    /\ doubt' = IF heard' THEN doubt ELSE doubt \cup {cmd.sock}
    /\ UNCHANGED <<timer, factory, states, polling, led, ordered>>

StatusDone(r, f) ==
    /\ cmd.code = "status" /\ GotState(r)
    /\ UNCHANGED <<pause, doubt>>
    /\ IF pause THEN UNCHANGED <<curState, led, pollSampleCt>> /\ PollEnds(f)
       ELSE /\ CheckChangeOfState
            /\ pollSampleCt' = (pollSampleCt + 1) % PollCycles
            /\ IF pollSampleCt' # 0 THEN PollEnds(f)
               ELSE Begin(Simple("power")) /\ factory' = f /\ UNCHANGED <<timer, ordered>>

PowerDone ==
    /\ cmd.code = "power" /\ PollEnds(factory)
    /\ UNCHANGED <<states, polling, led, doubt>>

\* Or when all three tries failed.
NotDone ==
    /\ UNCHANGED <<states, polling, led>>
    /\ doubt' = IF cmd.code = "set" THEN doubt \cup {cmd.sock} ELSE doubt
    /\ IF cmd.code \in {"status", "power"} THEN PollEnds(factory)
                                          ELSE Done /\ UNCHANGED <<timer, factory, ordered>>

(***************************************************************************)
(* One try of doCommand, and its answer in time, late or never.            *)
(***************************************************************************)
Kind == CASE cmd.code = "set" -> "ack" [] cmd.code = "power" -> "power"
          [] OTHER -> "status"

Outcomes == {"answered", "late", "lost", "unheard"}
\* What the meter does with it.
HeardRelay(out) ==
    IF out # "unheard" /\ cmd.code = "set" THEN [relay EXCEPT ![cmd.sock] = cmd.on]
                                            ELSE relay
Answer == IF Kind = "status" THEN [code |-> Kind, relay |-> relay] ELSE Simple(Kind)

\* An answer in time is behind what is in the FIFO already.
Arrived(out) == IF out = "answered" THEN Append(rx, Answer) ELSE rx
Understood(in) == in # <<>> /\ Head(in).code = Kind

Sent(out) ==
    /\ IF out = "answered" THEN UNCHANGED trouble ELSE UseTrouble
    /\ heard' = (heard \/ out # "unheard")

\* One late answer at a time.
AnswersLate(out) ==
    /\ out = "late" => late = NoReply
    /\ late' = IF out = "late" THEN Answer ELSE late

TrySucceeds ==
    /\ tpc = "try"
    /\ \E out \in Outcomes :
          /\ Sent(out) /\ AnswersLate(out) /\ relay' = HeardRelay(out)
          /\ Understood(Arrived(out)) /\ rx' = Tail(Arrived(out))
          /\ LET r == Head(Arrived(out))
             IN  FirstDone(r) \/ SetDone \/ PowerDone \/ StatusDone(r, FALSE)
    /\ UNCHANGED <<queue, cbs, deaf>>

\* The poll in which the meter reports that its reset button was pressed.
FactoryPressed ==
    /\ tpc = "try" /\ rx = <<>> /\ UseTrouble
    /\ StatusDone(Answer, TRUE)
    /\ heard' = TRUE
    /\ UNCHANGED <<queue, line, relay, cbs, deaf>>

\* No answer or another one: 100 ms later the FIFO is flushed for another try.
TryAgain ==
    /\ tpc = "try" /\ tries = 0 /\ tries' = 1
    /\ \E out \in Outcomes :
          /\ Sent(out) /\ AnswersLate(out) /\ relay' = HeardRelay(out)
          /\ ~Understood(Arrived(out))
    /\ rx' = <<>>
    /\ UNCHANGED <<queue, timer, tpc, cmd, factory, states, polling, shown, doubt, deaf,
                   ordered>>

\* The last try comes after a reset of the meter, which may switch off.
TryAfterReset ==
    /\ tpc = "try" /\ tries = 1 /\ tries' = 2
    /\ \E out \in Outcomes :
          /\ Sent(out) /\ ~Understood(Arrived(out))
          /\ relay' \in {HeardRelay(out), [s \in Sockets |-> FALSE]}
    /\ rx' = <<>> /\ late' = NoReply
    /\ doubt' = doubt \cup {s \in Sockets : /\ relay'[s] # relay[s]
                                         /\ cmd.code = "set" => s # cmd.sock}
    /\ UNCHANGED <<queue, timer, tpc, cmd, factory, states, polling, shown, deaf, ordered>>

\* An answer that was read in its place is gone, the rest stays in the FIFO.
TryGivesUp ==
    /\ tpc = "try" /\ tries = 2
    /\ \E out \in Outcomes :
          /\ Sent(out) /\ AnswersLate(out) /\ relay' = HeardRelay(out)
          /\ ~Understood(Arrived(out))
          /\ rx' = IF Arrived(out) = <<>> THEN <<>> ELSE Tail(Arrived(out))
    /\ NotDone
    /\ UNCHANGED <<queue, cbs, deaf>>

LateAnswer ==
    /\ late # NoReply /\ late' = NoReply
    /\ rx' = Append(rx, late)
    /\ UNCHANGED <<queue, timer, task, states, polling, relay, shown, doubt, deaf, ordered,
                   trouble>>

CtrlTask == TaskReceive \/ TrySucceeds \/ TryAgain \/ TryAfterReset \/ TryGivesUp

=============================================================================
