---------------------------- MODULE Outlets_proofs ----------------------------
(***************************************************************************)
(* Proofs about the outlets and the meter's driver, for any set of         *)
(* sockets, any capacity of the driver's queue and any number of           *)
(* disturbances: the types, that there is one poll about, and that a       *)
(* socket nobody is about to switch is in the position stored.             *)
(***************************************************************************)
EXTENDS Outlets, SequenceTheorems, FiniteSetTheorems, TLAPS

USE EmtrAssumption DEF EmtrAssumption

(***************************************************************************)
(* The polls in a queue.                                                   *)
(***************************************************************************)
PollAt(q) == {i \in 1..Len(q) : q[i].code = "timer"}
AtMostOne(q) == \A i, j \in PollAt(q) : i = j

LEMMA PollsOfPut ==
  ASSUME NEW q \in Seq(Messages), NEW m \in Messages
  PROVE  /\ Put(q, m) \in Seq(Messages) /\ (Len(q) <= QSize => Len(Put(q, m)) <= QSize)
         /\ m.code # "timer" => PollAt(Put(q, m)) = PollAt(q)
         /\ m.code = "timer" => IF Len(q) < QSize THEN PollAt(Put(q, m)) = PollAt(q) \cup {Len(q) + 1}
                                                  ELSE PollAt(Put(q, m)) = PollAt(q)
<1>1. CASE Len(q) < QSize
  <2>1. Put(q, m) = Append(q, m) /\ Append(q, m) \in Seq(Messages)
    BY <1>1 DEF Put
  <2>2. /\ Len(Append(q, m)) = Len(q) + 1 /\ Append(q, m)[Len(q) + 1] = m
        /\ \A i \in 1..Len(q) : Append(q, m)[i] = q[i]
    OBVIOUS
  <2>3. m.code # "timer" => PollAt(Append(q, m)) = PollAt(q)
    BY <2>2 DEF PollAt
  <2>4. m.code = "timer" => PollAt(Append(q, m)) = PollAt(q) \cup {Len(q) + 1}
    BY <2>2 DEF PollAt
  <2> QED BY <1>1, <2>1, <2>2, <2>3, <2>4
<1>2. CASE ~(Len(q) < QSize)
  BY <1>2 DEF Put
<1> QED BY <1>1, <1>2

LEMMA PollsOfTail ==
  ASSUME NEW q \in Seq(Messages), q # <<>>, AtMostOne(q)
  PROVE  /\ Tail(q) \in Seq(Messages) /\ Len(Tail(q)) <= Len(q) /\ Head(q) \in Messages
         /\ AtMostOne(Tail(q))
         /\ Head(q).code = "timer" => PollAt(q) # {} /\ PollAt(Tail(q)) = {}
         /\ Head(q).code # "timer" => (PollAt(Tail(q)) = {} <=> PollAt(q) = {})
<1>1. /\ Len(q) \in Nat \ {0} /\ Len(Tail(q)) = Len(q) - 1 /\ Head(q) = q[1]
      /\ \A i \in 1..Len(q) - 1 : Tail(q)[i] = q[i + 1]
  OBVIOUS
<1>2. \A i \in PollAt(Tail(q)) : i \in Nat \ {0} /\ i + 1 \in PollAt(q)
  BY <1>1 DEF PollAt
<1>3. \A i \in PollAt(q) : i # 1 => i - 1 \in PollAt(Tail(q))
  BY <1>1 DEF PollAt
<1>4. 1 \in PollAt(q) <=> Head(q).code = "timer"
  BY <1>1 DEF PollAt
<1>5. AtMostOne(Tail(q))
  BY <1>2 DEF AtMostOne
<1>6. Head(q).code = "timer" => PollAt(Tail(q)) = {}
  BY <1>2, <1>4 DEF AtMostOne
<1> QED BY <1>1, <1>2, <1>3, <1>4, <1>5, <1>6

\* What outletMgrInit posts holds no poll.
LEMMA PollsOfSets ==
  ASSUME NEW q \in Seq(Messages), NEW r \in Seq(SetMsgs)
  PROVE  /\ q \o r \in Seq(Messages) /\ Len(q \o r) = Len(q) + Len(r)
         /\ PollAt(q \o r) = PollAt(q)
<1>1. \A i \in 1..Len(r) : r[i] \in Messages /\ r[i].code # "timer"
  <2>1. \A m \in SetMsgs : m \in Messages /\ m.code # "timer"
    BY DEF SetMsgs, Messages
  <2> QED BY <2>1
<1>2. r \in Seq(Messages)
  <2>1. Len(r) \in Nat /\ r \in [1..Len(r) -> Messages]
    BY <1>1
  <2> QED BY <2>1, SeqDef
<1>3. /\ q \o r \in Seq(Messages) /\ Len(q \o r) = Len(q) + Len(r)
      /\ \A i \in 1..Len(q) : (q \o r)[i] = q[i]
      /\ \A i \in 1..Len(q) + Len(r) : i > Len(q) => (q \o r)[i] = r[i - Len(q)]
  BY <1>2
<1>4. \A i \in 1..Len(q) + Len(r) : i > Len(q) => (q \o r)[i].code # "timer"
  BY <1>1, <1>3
<1> QED BY <1>3, <1>4 DEF PollAt

(***************************************************************************)
(* The types.  The task has a command exactly while it works on one, and a *)
(* caller that has stored has a request to post.                           *)
(***************************************************************************)
CommandKnown == tpc = "idle" <=> cmd.code = "none"
WantKnown == \A c \in Callers : cpc[c] = "stored" => want[c] \in SetMsgs

TInv == TypeOK /\ CommandKnown /\ WantKnown

LEMMA AnswerType == TInv => Answer \in Replies /\ Answer.code = Kind
<1> SUFFICES ASSUME TInv PROVE Answer \in Replies /\ Answer.code = Kind
  OBVIOUS
<1>1. relay \in Relays /\ Kind \in {"ack", "power", "status"}
  BY DEF TInv, TypeOK, DrvTypeOK, Kind
<1> QED BY <1>1 DEF Answer, Replies, Simple

\* What a try does whatever its end.
LEMMA TryTypes ==
  ASSUME TInv, NEW out \in Outcomes, Sent(out)
  PROVE  /\ trouble' \in 0..MaxTrouble /\ heard' \in BOOLEAN
         /\ HeardRelay(out) \in Relays
         /\ Arrived(out) \in Seq(Replies)
         /\ AnswersLate(out) => late' \in Replies \cup {NoReply}
<1>1. trouble' \in 0..MaxTrouble /\ heard' \in BOOLEAN
  BY DEF Sent, UseTrouble, TInv, TypeOK, DrvTypeOK
<1>2. HeardRelay(out) \in Relays
  <2>1. relay \in Relays /\ cmd \in Commands
    BY DEF TInv, TypeOK, DrvTypeOK
  <2>2. cmd.code = "set" => cmd.sock \in Sockets /\ cmd.on \in BOOLEAN
    BY <2>1 DEF Commands, Simple, SetMsgs
  <2> QED BY <2>1, <2>2 DEF HeardRelay, Relays
<1>3. rx \in Seq(Replies) /\ late \in Replies \cup {NoReply}
  BY DEF TInv, TypeOK, DrvTypeOK
<1>4. Arrived(out) \in Seq(Replies)
  BY <1>3, AnswerType DEF Arrived
<1>5. AnswersLate(out) => late' \in Replies \cup {NoReply}
  BY <1>3, AnswerType DEF AnswersLate
<1> QED BY <1>1, <1>2, <1>4, <1>5

\* How a command that succeeded or failed leaves the task: done, or, after a
\* status, with the power to read.  f: the meter's reset button was pressed.
Ended(f) ==
    /\ tpc' = "idle" /\ cmd' = Simple("none")
    /\ IF Polling THEN timer' = ~f /\ ordered' = (ordered \/ f)
                  ELSE UNCHANGED <<timer, ordered>>
GoesOnToPower ==
    /\ cmd.code = "status"
    /\ tpc' = "try" /\ cmd' = Simple("power") /\ UNCHANGED <<timer, ordered>>
Ends == (\E f \in BOOLEAN : Ended(f)) \/ GoesOnToPower

DoneTypes ==
    /\ tries' \in 0..2 /\ factory' \in BOOLEAN
    /\ newState' \in [Sockets -> {"init", "on", "off"}]
    /\ curState' \in [Sockets -> {"init", "on", "off"}]
    /\ led' \in Relays /\ pause' \in BOOLEAN /\ pollSampleCt' \in 0..PollCycles-1
    /\ doubt' \in SUBSET Sockets

LEMMA PollEndsEnds ==
  ASSUME NEW f \in BOOLEAN, Polling, PollEnds(f)
  PROVE  Ends /\ tries' = 0 /\ factory' \in BOOLEAN
<1>1. /\ tpc' = "idle" /\ cmd' = Simple("none") /\ tries' = 0 /\ factory' = FALSE
      /\ timer' = ~f /\ ordered' = (ordered \/ f)
  BY DEF PollEnds, Done
<1>2. Ended(f)
  BY <1>1 DEF Ended
<1>3. factory' \in BOOLEAN
  BY <1>1, Zenon
<1> QED BY <1>1, <1>2, <1>3 DEF Ends

LEMMA OwnTypes ==
  TInv => /\ newState \in [Sockets -> {"init", "on", "off"}]
          /\ curState \in [Sockets -> {"init", "on", "off"}]
          /\ led \in Relays /\ pause \in BOOLEAN /\ pollSampleCt \in 0..PollCycles-1
          /\ doubt \in SUBSET Sockets /\ factory \in BOOLEAN /\ cmd \in Commands
          /\ tries \in 0..2 /\ relay \in Relays
  BY DEF TInv, TypeOK, DrvTypeOK

LEMMA StatusEnds ==
  ASSUME TInv, NEW r \in Replies, NEW f \in BOOLEAN, r.code = "status", StatusDone(r, f)
  PROVE  DoneTypes /\ Ends
<1>1. r.relay \in Relays
  BY DEF Replies
<1>2. newState' \in [Sockets -> {"init", "on", "off"}] /\ UNCHANGED <<pause, doubt>>
  BY <1>1 DEF StatusDone, GotState
<1>3. cmd.code = "status" /\ Polling
  BY DEF StatusDone, Polling
<1>4. CASE pause
  <2>1. UNCHANGED <<curState, led, pollSampleCt>> /\ PollEnds(f)
    BY <1>4 DEF StatusDone
  <2> QED BY <1>2, <1>3, <2>1, OwnTypes, PollEndsEnds DEF DoneTypes
<1>5. CASE ~pause
  <2>1. CheckChangeOfState /\ pollSampleCt' = (pollSampleCt + 1) % PollCycles
    BY <1>5 DEF StatusDone
  <2>2. curState' \in [Sockets -> {"init", "on", "off"}] /\ led' \in Relays
    BY <1>2, <2>1, OwnTypes DEF CheckChangeOfState, Relays
  <2>3. pollSampleCt' \in 0..PollCycles-1
    BY <2>1, OwnTypes
  <2>4. CASE PollEnds(f)
    BY <1>2, <1>3, <2>2, <2>3, <2>4, OwnTypes, PollEndsEnds DEF DoneTypes
  <2>5. CASE Begin(Simple("power")) /\ factory' = f /\ UNCHANGED <<timer, ordered>>
    <3>1. tpc' = "try" /\ cmd' = Simple("power") /\ tries' = 0
      BY <2>5 DEF Begin
    <3>2. GoesOnToPower
      BY <1>3, <2>5, <3>1 DEF GoesOnToPower
    <3> QED BY <1>2, <2>2, <2>3, <2>5, <3>1, <3>2, OwnTypes DEF DoneTypes, Ends
  <2> QED BY <1>5, <2>4, <2>5 DEF StatusDone
<1> QED BY <1>4, <1>5, OwnTypes

\* The other ends of a command that has its answer, and the one without.
LEMMA Idles ==
  ASSUME ~Polling, Done, UNCHANGED <<timer, ordered>>
  PROVE  Ends /\ tries' = 0
<1>1. Ended(FALSE)
  BY DEF Done, Ended
<1> QED BY <1>1 DEF Ends, Done

LEMMA OtherEnds ==
  ASSUME TInv, NEW r \in Replies, r.code = Kind,
         FirstDone(r) \/ SetDone \/ PowerDone \/ NotDone
  PROVE  DoneTypes /\ Ends
<1>1. CASE FirstDone(r)
  <2>1. r.code = "status"
    BY <1>1 DEF FirstDone, Kind
  <2>2. r.relay \in Relays
    BY <2>1 DEF Replies
  <2>3. newState' \in [Sockets -> {"init", "on", "off"}] /\ curState' = newState'
    BY <1>1, <2>2 DEF FirstDone, GotState
  <2>4. ~Polling /\ Done /\ UNCHANGED <<timer, factory, ordered, pause, pollSampleCt, led, doubt>>
    BY <1>1 DEF FirstDone, Polling, polling
  <2> QED BY <2>3, <2>4, Idles, OwnTypes DEF DoneTypes
<1>2. CASE SetDone
  <2>1. cmd.code = "set" => cmd.sock \in Sockets
    BY OwnTypes DEF Commands, Simple, SetMsgs
  <2>2. doubt' \in SUBSET Sockets
    BY <1>2, <2>1, OwnTypes DEF SetDone
  <2>3. /\ ~Polling /\ Done
        /\ UNCHANGED <<timer, factory, ordered, newState, curState, pause, pollSampleCt, led>>
    BY <1>2 DEF SetDone, Polling, states, polling
  <2> QED BY <2>2, <2>3, Idles, OwnTypes DEF DoneTypes
<1>3. CASE PowerDone
  <2>1. /\ Polling /\ PollEnds(factory)
        /\ UNCHANGED <<newState, curState, pause, pollSampleCt, led, doubt>>
    BY <1>3 DEF PowerDone, Polling, states, polling
  <2> QED BY <2>1, PollEndsEnds, OwnTypes DEF DoneTypes
<1>4. CASE NotDone
  <2>1. cmd.code = "set" => cmd.sock \in Sockets
    BY OwnTypes DEF Commands, Simple, SetMsgs
  <2>2. doubt' \in SUBSET Sockets
    BY <1>4, <2>1, OwnTypes DEF NotDone
  <2>3. UNCHANGED <<newState, curState, pause, pollSampleCt, led>>
    BY <1>4 DEF NotDone, states, polling
  <2>4. CASE Polling
    <3>1. PollEnds(factory)
      BY <1>4, <2>4 DEF NotDone, Polling
    <3> QED BY <2>2, <2>3, <2>4, <3>1, PollEndsEnds, OwnTypes DEF DoneTypes
  <2>5. CASE ~Polling
    <3>1. Done /\ UNCHANGED <<timer, factory, ordered>>
      BY <1>4, <2>5 DEF NotDone, Polling
    <3> QED BY <2>2, <2>3, <2>5, <3>1, Idles, OwnTypes DEF DoneTypes
  <2> QED BY <2>4, <2>5
<1> QED BY <1>1, <1>2, <1>3, <1>4

(***************************************************************************)
(* The polls.                                                              *)
(***************************************************************************)
PollInv ==
    /\ AtMostOne(queue)
    /\ timer => PollAt(queue) = {} /\ ~Polling
    /\ Polling => PollAt(queue) = {}
    /\ (~timer /\ PollAt(queue) = {} /\ ~Polling) <=> (deaf \/ ordered)

LEMMA PollInvIs == PollInv <=> OnePoll
BY DEF PollInv, OnePoll, AtMostOne, PollAt, Polls

IInv == TInv /\ PollInv

LEMMA Starts == Init => IInv
<1> SUFFICES ASSUME Init PROVE IInv
  OBVIOUS
<1>1. <<>> \in Seq(Messages) /\ Len(<<>>) = 0 /\ <<>> \in Seq(Replies)
  OBVIOUS
<1>2. DrvTypeOK
  <2>1. queue \in Seq(Messages) /\ Len(queue) <= QSize /\ rx \in Seq(Replies)
    BY <1>1 DEF Init
  <2>2. {timer, heard, factory, pause, deaf, ordered} \subseteq BOOLEAN
    BY Zenon DEF Init
  <2>3. /\ tpc \in {"idle", "try"} /\ cmd \in Commands /\ tries \in 0..2
        /\ pollSampleCt \in 0..PollCycles-1 /\ late \in Replies \cup {NoReply}
        /\ trouble \in 0..MaxTrouble
    BY DEF Init, Simple, Commands
  <2>4. /\ newState \in [Sockets -> {"init", "on", "off"}]
        /\ curState \in [Sockets -> {"init", "on", "off"}]
    BY DEF Init, Unread
  <2>5. {relay, led} \subseteq Relays /\ {cbs, doubt} \subseteq SUBSET Sockets
    BY DEF Init, AllOff, Relays
  <2> QED BY <2>1, <2>2, <2>3, <2>4, <2>5 DEF DrvTypeOK
<1>3. TypeOK
  BY <1>2 DEF Init, TypeOK, NoCaller, NoWant
<1>4. CommandKnown /\ WantKnown
  BY DEF Init, CommandKnown, WantKnown, Simple, NoCaller
<1>5. PollInv
  <2>1. PollAt(<<>>) = {}
    BY <1>1 DEF PollAt
  <2> QED BY <2>1 DEF Init, PollInv, AtMostOne, Polling, Simple
<1> QED BY <1>3, <1>4, <1>5 DEF IInv, TInv

LEMMA MessageTypes ==
  /\ \A c \in {"timer", "pause", "resume"} : Simple(c) \in Messages /\ Simple(c).code = c
  /\ \A m \in SetMsgs : m \in Messages /\ m.code = "set"
BY DEF Messages, Simple, SetMsgs

LEMMA TimerStep ==
  ASSUME IInv, TimerCallback, UNCHANGED <<param, mpc, callers, sys, early>>
  PROVE  IInv'
<1>1. queue \in Seq(Messages) /\ Len(queue) <= QSize /\ Len(queue) \in Nat
  BY DEF IInv, TInv, TypeOK, DrvTypeOK
<1>2. /\ timer /\ timer' = FALSE /\ queue' = Put(queue, Simple("timer"))
      /\ deaf' = (deaf \/ Len(queue) = QSize)
      /\ UNCHANGED <<cmd, ordered>>
  BY DEF TimerCallback, task
<1>3. /\ queue' \in Seq(Messages) /\ Len(queue') <= QSize
      /\ Len(queue) < QSize => PollAt(queue') = PollAt(queue) \cup {Len(queue) + 1}
      /\ Len(queue) = QSize => PollAt(queue') = PollAt(queue)
  <2> DEFINE m == Simple("timer")
  <2>1. m \in Messages /\ m.code = "timer"
    BY MessageTypes
  <2>2. queue' = Put(queue, m)
    BY <1>2
  <2> HIDE DEF m
  <2>3. /\ Put(queue, m) \in Seq(Messages) /\ Len(Put(queue, m)) <= QSize
        /\ IF Len(queue) < QSize THEN PollAt(Put(queue, m)) = PollAt(queue) \cup {Len(queue) + 1}
                                 ELSE PollAt(Put(queue, m)) = PollAt(queue)
    BY <1>1, <2>1, PollsOfPut
  <2> QED BY <1>1, <2>2, <2>3
<1>4. TInv'
  <2>1. timer' \in BOOLEAN /\ deaf' \in BOOLEAN
    BY <1>2 DEF IInv, TInv, TypeOK, DrvTypeOK
  <2> QED BY <1>3, <2>1 DEF IInv, TInv, TypeOK, DrvTypeOK, CommandKnown, WantKnown, TimerCallback,
                   task, states, polling, line, shown, callers
<1>5. PollInv'
  <2>1. PollAt(queue) = {} /\ ~Polling /\ ~deaf /\ ~ordered /\ UNCHANGED Polling
    BY <1>2 DEF IInv, PollInv, Polling
  <2>2. CASE Len(queue) < QSize
    BY <1>1, <1>2, <1>3, <2>1, <2>2 DEF PollInv, AtMostOne
  <2>3. CASE Len(queue) = QSize
    BY <1>2, <1>3, <2>1, <2>3 DEF PollInv, AtMostOne
  <2> QED BY <1>1, <2>2, <2>3
<1> QED BY <1>4, <1>5 DEF IInv

LEMMA ReceiveStep ==
  ASSUME IInv, TaskReceive, UNCHANGED <<param, mpc, callers, sys, early>>
  PROVE  IInv'
<1>1. queue \in Seq(Messages) /\ Len(queue) <= QSize /\ queue # <<>> /\ AtMostOne(queue)
  BY DEF IInv, TInv, TypeOK, DrvTypeOK, PollInv, TaskReceive
<1>2. /\ queue' = Tail(queue) /\ Head(queue) \in Messages
      /\ queue' \in Seq(Messages) /\ Len(queue') <= QSize /\ AtMostOne(queue')
      /\ Head(queue).code = "timer" => PollAt(queue) # {} /\ PollAt(queue') = {}
      /\ Head(queue).code # "timer" => (PollAt(queue') = {} <=> PollAt(queue) = {})
  BY <1>1, PollsOfTail DEF TaskReceive
<1>3. tpc = "idle" /\ cmd.code = "none" /\ ~Polling /\ UNCHANGED <<timer, deaf, ordered>>
  BY DEF TaskReceive, IInv, TInv, CommandKnown, Polling
<1>4. Handle(Head(queue))
  BY DEF TaskReceive
<1>5. /\ tpc' \in {"idle", "try"} /\ cmd' \in Commands /\ tries' \in 0..2
      /\ tpc' = "idle" <=> cmd'.code = "none"
      /\ Polling' <=> Head(queue).code = "timer"
      /\ pause' \in BOOLEAN /\ pollSampleCt' \in 0..PollCycles-1
  <2>1. CASE Head(queue).code = "timer" /\ Begin(Simple("status")) /\ UNCHANGED polling
    <3>1. Simple("status") \in Commands /\ Simple("status").code = "status"
      BY DEF Simple, Commands
    <3> QED BY <2>1, <3>1, OwnTypes DEF Begin, Polling, polling, IInv
  <2>2. CASE Head(queue).code = "set" /\ Begin(Head(queue)) /\ UNCHANGED polling
    <3>1. Head(queue) \in Commands
      BY <1>2, <2>2 DEF Messages, Commands, Simple, SetMsgs
    <3> QED BY <2>2, <3>1, OwnTypes DEF Begin, Polling, polling, IInv
  <2>3. CASE /\ Head(queue).code = "pause" /\ pause' = TRUE
             /\ UNCHANGED <<tpc, cmd, tries, pollSampleCt>>
    <3>1. pause' \in BOOLEAN
      BY <2>3, Zenon
    <3> QED BY <1>3, <2>3, <3>1, OwnTypes DEF Polling, IInv
  <2>4. CASE /\ Head(queue).code = "resume" /\ pause' = FALSE /\ UNCHANGED <<tpc, cmd, tries>>
             /\ pollSampleCt' = IF pause THEN 0 ELSE pollSampleCt
    <3>1. pause' \in BOOLEAN
      BY <2>4, Zenon
    <3>2. pollSampleCt' \in 0..PollCycles-1
      <4>1. 0 \in 0..PollCycles-1 /\ pollSampleCt \in 0..PollCycles-1
        BY OwnTypes DEF IInv
      <4>2. pollSampleCt' = IF pause THEN 0 ELSE pollSampleCt
        BY <2>4
      <4> QED BY <4>1, <4>2, Zenon
    <3>3. UNCHANGED <<tpc, cmd, tries>> /\ Head(queue).code # "timer"
      BY <2>4
    <3> QED BY <1>3, <3>1, <3>2, <3>3, OwnTypes DEF Polling, IInv
  <2> QED BY <1>4, <2>1, <2>2, <2>3, <2>4 DEF Handle
<1>6. TInv'
  <2>1. heard' \in BOOLEAN /\ factory' \in BOOLEAN
    <3>1. heard' = FALSE /\ factory' = FALSE
      BY DEF TaskReceive
    <3> QED BY <3>1, Zenon
  <2> QED BY <1>2, <1>5, <2>1 DEF IInv, TInv, TypeOK, DrvTypeOK, CommandKnown, WantKnown, TaskReceive,
                   states, line, shown, callers
<1>7. PollInv'
  BY <1>2, <1>3, <1>5 DEF IInv, PollInv
<1> QED BY <1>6, <1>7 DEF IInv

(***************************************************************************)
(* The tries of a command.                                                 *)
(***************************************************************************)
\* What the end of a command does to the polls.
LEMMA EndsPoll ==
  ASSUME IInv, Ends, UNCHANGED <<queue, deaf>>
  PROVE  /\ PollInv' /\ CommandKnown'
         /\ {timer', ordered'} \subseteq BOOLEAN
         /\ tpc' \in {"idle", "try"} /\ cmd' \in Commands
<1>1. {timer, ordered, deaf} \subseteq BOOLEAN
  BY DEF IInv, TInv, TypeOK, DrvTypeOK
<1>2. CASE GoesOnToPower
  <2>1. Polling /\ Polling' /\ UNCHANGED <<timer, ordered>>
    BY <1>2 DEF GoesOnToPower, Polling, Simple
  <2>2. PollInv'
    BY <2>1 DEF IInv, PollInv
  <2> QED BY <1>1, <1>2, <2>1, <2>2 DEF GoesOnToPower, Simple, Commands, CommandKnown
<1>3. CASE \E f \in BOOLEAN : Ended(f)
  <2>1. PICK f \in BOOLEAN : Ended(f)
    BY <1>3
  <2>2. /\ tpc' = "idle" /\ cmd' \in Commands /\ CommandKnown' /\ ~Polling'
    BY <2>1 DEF Ended, Simple, Commands, CommandKnown, Polling
  <2>3. CASE Polling
    <3>1. timer' = ~f /\ ordered' = (ordered \/ f)
      BY <2>1, <2>3 DEF Ended
    <3>2. PollAt(queue) = {} /\ ~deaf /\ ~ordered
      BY <2>3 DEF IInv, PollInv
    <3>3. PollInv'
      BY <2>2, <3>1, <3>2 DEF PollInv, AtMostOne, IInv
    <3>4. timer' \in BOOLEAN /\ ordered' \in BOOLEAN
      BY <3>1, Zenon
    <3> QED BY <2>2, <3>3, <3>4
  <2>4. CASE ~Polling
    <3>1. UNCHANGED <<timer, ordered>>
      BY <2>1, <2>4 DEF Ended
    <3>2. PollInv'
      BY <2>2, <2>4, <3>1 DEF IInv, PollInv
    <3> QED BY <1>1, <2>2, <3>1, <3>2
  <2> QED BY <2>3, <2>4
<1> QED BY <1>2, <1>3 DEF Ends

\* A step that ends a command.
LEMMA EndStep ==
  ASSUME IInv, DoneTypes, Ends,
         UNCHANGED <<queue, cbs, deaf, param, mpc, callers, sys, early>>,
         heard' \in BOOLEAN, trouble' \in 0..MaxTrouble, relay' \in Relays,
         rx' \in Seq(Replies), late' \in Replies \cup {NoReply}
  PROVE  IInv'
<1>1. /\ PollInv' /\ CommandKnown' /\ {timer', ordered'} \subseteq BOOLEAN
      /\ tpc' \in {"idle", "try"} /\ cmd' \in Commands
  BY EndsPoll
<1>2. WantKnown'
  BY DEF IInv, TInv, WantKnown, callers
<1>3. DrvTypeOK'
  <2>1. /\ queue' \in Seq(Messages) /\ Len(queue') <= QSize
        /\ deaf' \in BOOLEAN /\ cbs' \subseteq Sockets
    BY DEF IInv, TInv, TypeOK, DrvTypeOK
  <2> QED BY <1>1, <2>1 DEF DoneTypes, DrvTypeOK
<1>4. TypeOK'
  BY <1>3 DEF IInv, TInv, TypeOK, callers
<1> QED BY <1>1, <1>2, <1>4 DEF IInv, TInv

LEMMA SucceedStep ==
  ASSUME IInv, TrySucceeds, UNCHANGED <<param, mpc, callers, sys, early>>
  PROVE  IInv'
<1>1. PICK out \in Outcomes :
        /\ Sent(out) /\ AnswersLate(out) /\ relay' = HeardRelay(out)
        /\ Understood(Arrived(out)) /\ rx' = Tail(Arrived(out))
        /\ LET r == Head(Arrived(out))
           IN  FirstDone(r) \/ SetDone \/ PowerDone \/ StatusDone(r, FALSE)
  BY DEF TrySucceeds
<1>2. /\ trouble' \in 0..MaxTrouble /\ heard' \in BOOLEAN /\ relay' \in Relays
      /\ Arrived(out) \in Seq(Replies) /\ late' \in Replies \cup {NoReply}
  BY <1>1, TryTypes DEF IInv
<1> DEFINE r == Head(Arrived(out))
<1>3. r \in Replies /\ r.code = Kind /\ rx' \in Seq(Replies)
  <2>1. Arrived(out) # <<>> /\ r.code = Kind /\ rx' = Tail(Arrived(out))
    BY <1>1 DEF Understood
  <2>2. r \in Replies /\ Tail(Arrived(out)) \in Seq(Replies)
    BY <1>2, <2>1
  <2> QED BY <2>1, <2>2
<1>4. DoneTypes /\ Ends
  <2>1. CASE StatusDone(r, FALSE)
    <3>1. r.code = "status"
      BY <1>3, <2>1 DEF StatusDone, Kind
    <3> HIDE DEF r
    <3>2. FALSE \in BOOLEAN
      OBVIOUS
    <3> QED BY <1>3, <2>1, <3>1, <3>2, StatusEnds DEF IInv
  <2>2. CASE FirstDone(r) \/ SetDone \/ PowerDone
    <3> HIDE DEF r
    <3> QED BY <1>3, <2>2, OtherEnds DEF IInv
  <2> QED BY <1>1, <2>1, <2>2
<1> HIDE DEF r
<1> QED BY <1>2, <1>3, <1>4, EndStep DEF TrySucceeds

LEMMA PressedStep ==
  ASSUME IInv, FactoryPressed, UNCHANGED <<param, mpc, callers, sys, early>>
  PROVE  IInv'
<1>1. StatusDone(Answer, TRUE) /\ heard' = TRUE /\ UNCHANGED <<queue, line, relay, cbs, deaf>>
  BY DEF FactoryPressed
<1>2. Answer \in Replies /\ Answer.code = "status"
  BY <1>1, AnswerType DEF IInv, StatusDone, Kind
<1>3. DoneTypes /\ Ends
  <2>1. TRUE \in BOOLEAN
    OBVIOUS
  <2> QED BY <1>1, <1>2, <2>1, StatusEnds DEF IInv
<1>4. heard' \in BOOLEAN
  BY <1>1, Zenon
<1>5. /\ trouble' \in 0..MaxTrouble /\ relay' \in Relays
      /\ rx' \in Seq(Replies) /\ late' \in Replies \cup {NoReply}
  BY <1>1 DEF IInv, TInv, TypeOK, DrvTypeOK, FactoryPressed, UseTrouble, line
<1> QED BY <1>1, <1>3, <1>4, <1>5, EndStep

LEMMA GivesUpStep ==
  ASSUME IInv, TryGivesUp, UNCHANGED <<param, mpc, callers, sys, early>>
  PROVE  IInv'
<1>1. PICK out \in Outcomes :
        /\ Sent(out) /\ AnswersLate(out) /\ relay' = HeardRelay(out)
        /\ ~Understood(Arrived(out))
        /\ rx' = IF Arrived(out) = <<>> THEN <<>> ELSE Tail(Arrived(out))
  BY DEF TryGivesUp
<1>2. /\ trouble' \in 0..MaxTrouble /\ heard' \in BOOLEAN /\ relay' \in Relays
      /\ Arrived(out) \in Seq(Replies) /\ late' \in Replies \cup {NoReply}
  BY <1>1, TryTypes DEF IInv
<1>3. rx' \in Seq(Replies)
  <2>1. <<>> \in Seq(Replies) /\ (Arrived(out) # <<>> => Tail(Arrived(out)) \in Seq(Replies))
    BY <1>2
  <2> QED BY <1>1, <2>1
<1>4. DoneTypes /\ Ends
  <2>1. NotDone
    BY DEF TryGivesUp
  <2> QED BY <2>1, AnswerType, OtherEnds DEF IInv
<1> QED BY <1>2, <1>3, <1>4, EndStep DEF TryGivesUp

\* The tries that are not the last: the task and the polls stay as they are.
LEMMA AgainStep ==
  ASSUME IInv, TryAgain \/ TryAfterReset, UNCHANGED <<param, mpc, callers, sys, early>>
  PROVE  IInv'
<1>1. /\ UNCHANGED <<queue, timer, tpc, cmd, factory, states, polling, shown, deaf, ordered>>
      /\ rx' = <<>> /\ tries' \in 0..2
  BY DEF TryAgain, TryAfterReset
<1>2. /\ trouble' \in 0..MaxTrouble /\ heard' \in BOOLEAN
      /\ relay' \in Relays /\ late' \in Replies \cup {NoReply} /\ doubt' \subseteq Sockets
  <2>1. CASE TryAgain
    <3>1. PICK out \in Outcomes : Sent(out) /\ AnswersLate(out) /\ relay' = HeardRelay(out)
      BY <2>1 DEF TryAgain
    <3> QED BY <2>1, <3>1, TryTypes, OwnTypes DEF IInv, TryAgain
  <2>2. CASE TryAfterReset
    <3>1. PICK out \in Outcomes :
             Sent(out) /\ relay' \in {HeardRelay(out), [s \in Sockets |-> FALSE]}
      BY <2>2 DEF TryAfterReset
    <3>2. [s \in Sockets |-> FALSE] \in Relays
      BY DEF Relays
    <3>3. late' = NoReply /\ doubt' \subseteq Sockets
      BY <2>2, OwnTypes DEF IInv, TryAfterReset
    <3> QED BY <3>1, <3>2, <3>3, TryTypes DEF IInv
  <2> QED BY <2>1, <2>2
<1>3. rx' \in Seq(Replies)
  BY <1>1
<1>4. DrvTypeOK'
  BY <1>1, <1>2, <1>3 DEF IInv, TInv, TypeOK, DrvTypeOK, states, polling, shown
<1>5. TypeOK' /\ CommandKnown' /\ WantKnown'
  BY <1>1, <1>4 DEF IInv, TInv, TypeOK, CommandKnown, WantKnown, callers
<1>6. PollInv'
  BY <1>1 DEF IInv, PollInv, Polling
<1> QED BY <1>5, <1>6 DEF IInv, TInv

LEMMA LateStep ==
  ASSUME IInv, LateAnswer, UNCHANGED <<param, mpc, callers, sys, early>>
  PROVE  IInv'
<1>1. rx \in Seq(Replies) /\ late \in Replies
  BY DEF IInv, TInv, TypeOK, DrvTypeOK, LateAnswer
<1>2. rx' \in Seq(Replies) /\ late' = NoReply
  BY <1>1 DEF LateAnswer
<1>3. UNCHANGED <<queue, timer, task, states, polling, relay, shown, doubt, deaf, ordered, trouble>>
  BY DEF LateAnswer
<1>4. TInv'
  BY <1>2, <1>3 DEF IInv, TInv, TypeOK, DrvTypeOK, CommandKnown, WantKnown, task, states, polling,
                    shown, callers
<1>5. PollInv'
  BY <1>3 DEF IInv, PollInv, Polling, task
<1> QED BY <1>4, <1>5 DEF IInv

(***************************************************************************)
(* The start, the callers and the control task.                            *)
(***************************************************************************)
\* A request, pause or resume is put into the queue.
LEMMA PutStep ==
  ASSUME IInv, NEW m \in Messages, m.code # "timer", queue' = Put(queue, m),
         UNCHANGED <<timer, task, deaf, ordered>>
  PROVE  queue' \in Seq(Messages) /\ Len(queue') <= QSize /\ PollInv'
<1>1. /\ Put(queue, m) \in Seq(Messages) /\ Len(Put(queue, m)) <= QSize
      /\ PollAt(Put(queue, m)) = PollAt(queue)
  BY PollsOfPut DEF IInv, TInv, TypeOK, DrvTypeOK
<1>2. PollInv'
  BY <1>1 DEF IInv, PollInv, AtMostOne, Polling, task
<1> QED BY <1>1, <1>2

LEMMA InitStep ==
  ASSUME IInv, OutletMgrInit PROVE IInv'
<1>1. PICK q \in StoredSets : queue' = queue \o q
  BY DEF OutletMgrInit
<1>2. queue \in Seq(Messages) /\ Len(queue) \in Nat
  BY DEF IInv, TInv, TypeOK, DrvTypeOK
<1>3. q \in [1..Cardinality(Sockets) -> SetMsgs]
  BY DEF StoredSets
<1>4. Len(queue) + Cardinality(Sockets) <= QSize
  BY DEF OutletMgrInit
<1>5. Cardinality(Sockets) \in Nat
  BY SocketsAssumption, FS_CardinalityType
<1>6. q \in Seq(SetMsgs) /\ Len(q) = Cardinality(Sockets)
  BY <1>3, <1>5
<1>7. /\ queue' \in Seq(Messages) /\ Len(queue') <= QSize /\ PollAt(queue') = PollAt(queue)
  BY <1>1, <1>2, <1>4, <1>6, PollsOfSets
<1>8. DrvTypeOK'
  BY <1>7 DEF IInv, TInv, TypeOK, DrvTypeOK, OutletMgrInit, task, states, polling, line
<1>9. TypeOK' /\ CommandKnown' /\ WantKnown'
  BY <1>8 DEF IInv, TInv, TypeOK, CommandKnown, WantKnown, OutletMgrInit, callers, task
<1>10. PollInv'
  BY <1>7 DEF IInv, PollInv, AtMostOne, Polling, OutletMgrInit, task
<1> QED BY <1>9, <1>10 DEF IInv, TInv

LEMMA StartStep ==
  ASSUME IInv, OutletMgrStart PROVE IInv'
<1>1. DrvTypeOK'
  BY DEF IInv, TInv, TypeOK, DrvTypeOK, OutletMgrStart, task, states, polling, line
<1>2. TypeOK' /\ CommandKnown' /\ WantKnown'
  BY <1>1 DEF IInv, TInv, TypeOK, CommandKnown, WantKnown, OutletMgrStart, callers, task
<1>3. PollInv'
  BY DEF IInv, PollInv, Polling, OutletMgrStart, task
<1> QED BY <1>2, <1>3 DEF IInv, TInv

LEMMA SetStep ==
  ASSUME IInv, NEW c \in Callers, SetSocket(c) PROVE IInv'
<1>0. PICK s \in Sockets : \E on \in Asked(c, s) :
        /\ param' \in {param, [param EXCEPT ![s] = on]}
        /\ want' = [want EXCEPT ![c] = SetMsg(s, on)]
        /\ doubt' = IF Overlaps(c, s) \/ param'[s] # on THEN doubt \cup {s} ELSE doubt
        /\ early' = IF curState[s] = (IF led[s] THEN "on" ELSE "off") THEN early
                                                                    ELSE early \cup {s}
  BY DEF SetSocket
<1>1. PICK on \in Asked(c, s) :
        /\ param' \in {param, [param EXCEPT ![s] = on]}
        /\ want' = [want EXCEPT ![c] = SetMsg(s, on)]
        /\ doubt' = IF Overlaps(c, s) \/ param'[s] # on THEN doubt \cup {s} ELSE doubt
        /\ early' = IF curState[s] = (IF led[s] THEN "on" ELSE "off") THEN early
                                                                    ELSE early \cup {s}
  BY <1>0
<1>2. on \in BOOLEAN
  <2>1. c = "button" \/ c = "gateway"
    BY DEF Callers
  <2>2. (curState[s] # "on") \in BOOLEAN
    BY Zenon
  <2> QED BY <2>1, <2>2 DEF Asked
<1>3. SetMsg(s, on) \in SetMsgs
  BY <1>2 DEF SetMsg, SetMsgs
<1>4. /\ param' \in Relays /\ want' \in [Callers -> SetMsgs \cup {NoReply}]
      /\ doubt' \subseteq Sockets /\ early' \subseteq Sockets
      /\ trouble' \in 0..MaxTrouble /\ cpc' \in [Callers -> {"idle", "stored"}]
  BY <1>1, <1>2, <1>3 DEF IInv, TInv, TypeOK, DrvTypeOK, Relays, SetSocket, UseTrouble
<1>5. UNCHANGED <<queue, timer, task, states, polling, line, relay, shown, deaf, ordered, mpc, sys>>
  BY DEF SetSocket
<1>6. TypeOK'
  <2>1. DrvTypeOK'
    BY <1>4, <1>5 DEF IInv, TInv, TypeOK, DrvTypeOK, task, states, polling, line, shown
  <2> QED BY <1>4, <1>5, <2>1 DEF IInv, TInv, TypeOK
<1>7. WantKnown'
  BY <1>1, <1>3 DEF IInv, TInv, TypeOK, WantKnown, SetSocket
<1>8. CommandKnown' /\ PollInv'
  BY <1>5 DEF IInv, TInv, CommandKnown, PollInv, Polling, task
<1> QED BY <1>6, <1>7, <1>8 DEF IInv, TInv

LEMMA PostStep ==
  ASSUME IInv, NEW c \in Callers, PostSocket(c) PROVE IInv'
<1>1. want[c] \in SetMsgs /\ want[c].sock \in Sockets
  BY DEF IInv, TInv, WantKnown, PostSocket, SetMsgs
<1>2. /\ queue' = Put(queue, want[c])
      /\ cpc' = [cpc EXCEPT ![c] = "idle"] /\ want' = [want EXCEPT ![c] = NoReply]
      /\ UNCHANGED <<timer, task, states, polling, line, relay, shown, deaf, ordered, trouble,
                     param, mpc, sys, early>>
  BY DEF PostSocket
<1>3. queue' \in Seq(Messages) /\ Len(queue') <= QSize /\ PollInv'
  <2>1. want[c] \in Messages /\ want[c].code # "timer"
    BY <1>1, MessageTypes
  <2> QED BY <1>2, <2>1, PutStep
<1>4. doubt' \subseteq Sockets
  BY <1>1, OwnTypes DEF IInv, PostSocket
<1>5. DrvTypeOK'
  BY <1>2, <1>3, <1>4 DEF IInv, TInv, TypeOK, DrvTypeOK, task, states, polling, line, shown
<1>6. TypeOK' /\ WantKnown' /\ CommandKnown'
  BY <1>2, <1>5 DEF IInv, TInv, TypeOK, WantKnown, CommandKnown, task
<1> QED BY <1>3, <1>6 DEF IInv, TInv

\* The steps of the control task that sysEventCb hears of.
Notified == FwUpgradeStart \/ FwUpgradeFail \/ RebootArmed \/ Rebooting \/ ResetFactory
States == {"run", "update", "reset", "wiped", "rebooting"}

LEMMA ControlStep ==
  ASSUME IInv, Notified
  PROVE  IInv'
<1>1. /\ \E c \in {"pause", "resume"}, state \in States : Notify(c, state)
      /\ trouble' \in 0..MaxTrouble
  <2>1. trouble \in 0..MaxTrouble
    BY DEF IInv, TInv, TypeOK, DrvTypeOK
  <2>2. trouble' \in 0..MaxTrouble
    <3>1. trouble' = trouble \/ UseTrouble
      BY DEF Notified, FwUpgradeStart, FwUpgradeFail, RebootArmed, Rebooting, ResetFactory
    <3> QED BY <2>1, <3>1 DEF UseTrouble
  <2>3. \/ Notify("pause", "update") \/ Notify("resume", "run") \/ Notify("pause", "rebooting")
        \/ Notify("pause", "run") \/ Notify("pause", "reset")
    BY DEF Notified, FwUpgradeStart, FwUpgradeFail, RebootArmed, Rebooting, ResetFactory
  <2> QED BY <2>2, <2>3 DEF States
<1>2. PICK c \in {"pause", "resume"}, state \in States : Notify(c, state)
  BY <1>1
<1>3. UNCHANGED <<timer, task, states, polling, line, relay, shown, doubt, deaf, ordered, param,
                  mpc, callers, early>> /\ sys' = state
  BY <1>2 DEF Notify
<1>4. queue' \in Seq(Messages) /\ Len(queue') <= QSize /\ PollInv'
  <2>1. Simple(c) \in Messages /\ Simple(c).code # "timer"
    BY MessageTypes DEF Simple
  <2>2. queue' = Put(queue, Simple(c))
    BY <1>2 DEF Notify
  <2> HIDE DEF Put
  <2> QED BY <1>3, <2>1, <2>2, PutStep
<1>5. DrvTypeOK'
  BY <1>1, <1>3, <1>4 DEF IInv, TInv, TypeOK, DrvTypeOK, task, states, polling, line, shown
<1>6. TypeOK' /\ WantKnown' /\ CommandKnown'
  BY <1>1, <1>3, <1>5 DEF IInv, TInv, TypeOK, WantKnown, CommandKnown, callers, task, States
<1> QED BY <1>4, <1>6 DEF IInv, TInv

\* Those it does not hear of: the parameters reset, a reboot that is lost.
LEMMA UnheardStep ==
  ASSUME IInv, ResetParameters \/ RebootLost
  PROVE  IInv'
<1>1. /\ UNCHANGED <<queue, timer, task, states, polling, line, relay, shown, deaf, ordered,
                     mpc, callers, early>>
      /\ sys' \in {"wiped", "run"}
  BY DEF ResetParameters, RebootLost
<1>2. /\ param' \in Relays /\ doubt' \subseteq Sockets
  <2>1. param \in Relays /\ AllOff \in Relays /\ doubt \subseteq Sockets
    BY DEF IInv, TInv, TypeOK, DrvTypeOK, AllOff, Relays
  <2> QED BY <2>1 DEF ResetParameters, RebootLost
<1>3. trouble' \in 0..MaxTrouble
  <2>1. trouble \in 0..MaxTrouble /\ (trouble' = trouble \/ UseTrouble)
    BY DEF IInv, TInv, TypeOK, DrvTypeOK, ResetParameters, RebootLost
  <2> QED BY <2>1 DEF UseTrouble
<1>4. DrvTypeOK'
  BY <1>1, <1>2, <1>3 DEF IInv, TInv, TypeOK, DrvTypeOK, task, states, polling, line, shown
<1>5. TypeOK' /\ WantKnown' /\ CommandKnown'
  BY <1>1, <1>2, <1>4 DEF IInv, TInv, TypeOK, WantKnown, CommandKnown, callers, task
<1>6. PollInv'
  BY <1>1 DEF IInv, PollInv, Polling, task
<1> QED BY <1>5, <1>6 DEF IInv, TInv

LEMMA RestartStep ==
  ASSUME IInv, Restart PROVE IInv'
<1>1. <<>> \in Seq(Messages) /\ Len(<<>>) = 0 /\ <<>> \in Seq(Replies)
  OBVIOUS
<1>2. DrvTypeOK'
  <2>1. queue' \in Seq(Messages) /\ Len(queue') <= QSize /\ rx' \in Seq(Replies)
    BY <1>1 DEF Restart
  <2>2. {timer', heard', factory', pause', deaf', ordered'} \subseteq BOOLEAN
    BY Zenon DEF Restart
  <2>3. /\ tpc' \in {"idle", "try"} /\ cmd' \in Commands /\ tries' \in 0..2
        /\ pollSampleCt' \in 0..PollCycles-1 /\ late' \in Replies \cup {NoReply}
    BY DEF Restart, Simple, Commands
  <2>4. /\ newState' \in [Sockets -> {"init", "on", "off"}]
        /\ curState' \in [Sockets -> {"init", "on", "off"}]
    BY DEF Restart, Unread
  <2>5. {relay', led'} \subseteq Relays /\ {cbs', doubt'} \subseteq SUBSET Sockets
    BY OwnTypes DEF IInv, Restart, AllOff, Relays
  <2>6. trouble' \in 0..MaxTrouble
    BY DEF IInv, TInv, TypeOK, DrvTypeOK, Restart
  <2> QED BY <2>1, <2>2, <2>3, <2>4, <2>5, <2>6 DEF DrvTypeOK
<1>3. TypeOK'
  BY <1>2 DEF IInv, TInv, TypeOK, Restart, NoCaller, NoWant
<1>4. CommandKnown' /\ WantKnown'
  BY DEF Restart, CommandKnown, WantKnown, Simple, NoCaller
<1>5. PollInv'
  <2>1. PollAt(<<>>) = {}
    BY <1>1 DEF PollAt
  <2> QED BY <2>1 DEF Restart, PollInv, AtMostOne, Polling, Simple
<1> QED BY <1>3, <1>4, <1>5 DEF IInv, TInv

(***************************************************************************)
(* The requests of a socket in a queue, and the last of them.              *)
(***************************************************************************)
For(m, s) == m.code = "set" /\ m.sock = s
SetsOf(q, s) == {i \in 1..Len(q) : For(q[i], s)}
LastIs(q, s, on) == \A i \in SetsOf(q, s) : (\A j \in SetsOf(q, s) : j <= i) => q[i].on = on

LEMMA SetsOfPut ==
  ASSUME NEW q \in Seq(Messages), NEW m \in Messages, NEW s
  PROVE  /\ ~For(m, s) => /\ SetsOf(Put(q, m), s) = SetsOf(q, s)
                          /\ \A on : LastIs(q, s, on) => LastIs(Put(q, m), s, on)
         /\ For(m, s) /\ Len(q) < QSize => /\ SetsOf(Put(q, m), s) # {}
                                           /\ LastIs(Put(q, m), s, m.on)
<1>1. CASE Len(q) < QSize
  <2>1. Put(q, m) = Append(q, m)
    BY <1>1 DEF Put
  <2>2. /\ Len(q) \in Nat /\ Len(Append(q, m)) = Len(q) + 1 /\ Append(q, m)[Len(q) + 1] = m
        /\ \A i \in 1..Len(q) : Append(q, m)[i] = q[i]
    OBVIOUS
  <2>3. ASSUME ~For(m, s)
        PROVE  /\ SetsOf(Append(q, m), s) = SetsOf(q, s)
               /\ \A on : LastIs(q, s, on) => LastIs(Append(q, m), s, on)
    <3>1. SetsOf(Append(q, m), s) = SetsOf(q, s)
      BY <2>2, <2>3 DEF SetsOf
    <3>2. \A i \in SetsOf(q, s) : Append(q, m)[i] = q[i]
      BY <2>2 DEF SetsOf
    <3> QED BY <3>1, <3>2 DEF LastIs
  <2>4. ASSUME For(m, s)
        PROVE  /\ SetsOf(Append(q, m), s) # {} /\ LastIs(Append(q, m), s, m.on)
    <3>1. Len(q) + 1 \in SetsOf(Append(q, m), s)
      BY <2>2, <2>4 DEF SetsOf
    <3>2. \A i \in SetsOf(Append(q, m), s) : Len(q) + 1 <= i => i = Len(q) + 1
      BY <2>2 DEF SetsOf
    <3> QED BY <2>2, <3>1, <3>2 DEF LastIs
  <2> QED BY <2>1, <2>3, <2>4
<1>2. CASE ~(Len(q) < QSize)
  <2>1. Put(q, m) = q
    BY <1>2 DEF Put
  <2> QED BY <1>2, <2>1
<1> QED BY <1>1, <1>2

LEMMA SetsOfTail ==
  ASSUME NEW q \in Seq(Messages), q # <<>>, NEW s, NEW on, LastIs(q, s, on)
  PROVE  /\ LastIs(Tail(q), s, on)
         /\ SetsOf(Tail(q), s) = {} => IF For(Head(q), s) THEN Head(q).on = on
                                                          ELSE SetsOf(q, s) = {}
<1>1. /\ Len(q) \in Nat \ {0} /\ Len(Tail(q)) = Len(q) - 1 /\ Head(q) = q[1]
      /\ \A i \in 1..Len(q) - 1 : Tail(q)[i] = q[i + 1]
  OBVIOUS
<1>2. \A i \in SetsOf(Tail(q), s) : i \in Nat /\ i + 1 \in SetsOf(q, s) /\ Tail(q)[i] = q[i + 1]
  BY <1>1 DEF SetsOf
<1>3. \A i \in SetsOf(q, s) : i \in Nat \ {0} /\ (i # 1 => i - 1 \in SetsOf(Tail(q), s))
  BY <1>1 DEF SetsOf
<1>4. 1 \in SetsOf(q, s) <=> For(Head(q), s)
  BY <1>1 DEF SetsOf
<1>5. LastIs(Tail(q), s, on)
  <2> SUFFICES ASSUME NEW i \in SetsOf(Tail(q), s), \A j \in SetsOf(Tail(q), s) : j <= i
               PROVE  Tail(q)[i].on = on
    BY DEF LastIs
  <2>1. \A j \in SetsOf(q, s) : j <= i + 1
    BY <1>2, <1>3
  <2> QED BY <1>2, <2>1 DEF LastIs
<1>6. ASSUME SetsOf(Tail(q), s) = {}
      PROVE  IF For(Head(q), s) THEN Head(q).on = on ELSE SetsOf(q, s) = {}
  <2>1. \A j \in SetsOf(q, s) : j = 1
    BY <1>3, <1>6
  <2>2. CASE For(Head(q), s)
    <3>1. 1 \in SetsOf(q, s) /\ \A j \in SetsOf(q, s) : j <= 1
      BY <1>4, <2>1, <2>2
    <3> QED BY <1>1, <2>2, <3>1 DEF LastIs
  <2>3. CASE ~For(Head(q), s)
    BY <1>4, <2>1, <2>3
  <2> QED BY <2>2, <2>3
<1> QED BY <1>5, <1>6

\* What outletMgrInit posts has a request for every socket, with its position.
LEMMA SetsOfStored ==
  ASSUME NEW q \in Seq(Messages), NEW r \in StoredSets, NEW s \in Sockets
  PROVE  SetsOf(q \o r, s) # {} /\ LastIs(q \o r, s, param[s])
<1> DEFINE n == Cardinality(Sockets)
<1>1. n \in Nat /\ IsFiniteSet(1..n) /\ Cardinality(1..n) = n
  <2>1. n \in Nat
    BY SocketsAssumption, FS_CardinalityType
  <2> QED BY <2>1, FS_Interval
<1>2. /\ r \in [1..n -> SetMsgs]
      /\ \A i, j \in 1..n : i # j => r[i].sock # r[j].sock
      /\ \A i \in 1..n : r[i].on = param[r[i].sock]
  BY DEF StoredSets
<1> HIDE DEF n
<1>3. \A i \in 1..n : r[i].code = "set" /\ r[i].sock \in Sockets
  BY <1>2 DEF SetMsgs
<1>4. PICK k \in 1..n : r[k].sock = s
  <2> DEFINE f == [i \in 1..n |-> r[i].sock]
  <2>1. f \in Injection(1..n, Sockets)
    BY <1>2, <1>3 DEF Injection, IsInjective
  <2>2. f \in Surjection(1..n, Sockets)
    BY <1>1, <2>1, SocketsAssumption, FS_Injection DEF n
  <2> QED BY <2>2 DEF Surjection
<1>5. r \in Seq(SetMsgs) /\ Len(r) = n
  BY <1>1, <1>2
<1>6. /\ Len(q) \in Nat /\ Len(q \o r) = Len(q) + n
      /\ \A i \in 1..Len(q) + n : i > Len(q) => (q \o r)[i] = r[i - Len(q)]
  BY <1>1, <1>5
<1>7. Len(q) + k \in SetsOf(q \o r, s)
  BY <1>1, <1>3, <1>4, <1>6 DEF SetsOf, For
<1>8. \A i \in SetsOf(q \o r, s) : Len(q) + k <= i => i = Len(q) + k
  <2> SUFFICES ASSUME NEW i \in SetsOf(q \o r, s), Len(q) + k <= i PROVE i = Len(q) + k
    OBVIOUS
  <2>1. i \in 1..Len(q) + n /\ (q \o r)[i].sock = s
    BY <1>6 DEF SetsOf, For
  <2>2. i - Len(q) \in 1..n /\ r[i - Len(q)].sock = s
    BY <1>1, <1>6, <2>1
  <2>3. i - Len(q) = k
    BY <1>2, <1>4, <2>2
  <2> QED BY <1>6, <2>1, <2>3
<1>9. (q \o r)[Len(q) + k].on = param[s]
  BY <1>1, <1>2, <1>4, <1>6
<1> QED BY <1>7, <1>8, <1>9 DEF LastIs

(***************************************************************************)
(* A socket that is not in doubt: the last request for it, at its caller,  *)
(* in the queue or in the task, asks for what is stored; if there is none  *)
(* the socket is as stored.  A request that was heard is done, except      *)
(* after the reset of the meter; then the line is free of old answers.     *)
(***************************************************************************)
Asking(s) == {c \in Callers : For(want[c], s)}
Reached(s) == IF For(cmd, s) THEN cmd.on = param[s] ELSE relay[s] = param[s]
Agree(s) ==
    /\ \A c, d \in Asking(s) : c = d
    /\ \A c \in Asking(s) : want[c].on = param[s]
    /\ Asking(s) = {} => /\ LastIs(queue, s, param[s])
                         /\ SetsOf(queue, s) = {} => Reached(s)

StoredInv == mpc # "init" => \A s \in Sockets \ doubt : Agree(s)
HeardIsDone == cmd.code = "set" /\ heard /\ tries # 2 => relay[cmd.sock] = cmd.on
FreshLine == tries = 2 => rx = <<>> /\ late = NoReply
CallersIdle ==
    /\ mpc # "run" => \A c \in Callers : cpc[c] = "idle"
    /\ \A c \in Callers : cpc[c] = "idle" => want[c] = NoReply

SInv == StoredInv /\ HeardIsDone /\ FreshLine /\ CallersIdle

LEMMA AgreeKept ==
  ASSUME NEW s, Agree(s), UNCHANGED <<queue, callers, param>>, Reached(s) => Reached(s)'
  PROVE  Agree(s)'
BY DEF Agree, Asking, SetsOf, LastIs, For, callers

LEMMA CallersIdleKept ==
  ASSUME CallersIdle, UNCHANGED <<callers, mpc>> PROVE CallersIdle'
BY DEF CallersIdle, callers

LEMMA SockType == IInv => (cmd.code = "set" => cmd.sock \in Sockets /\ cmd.on \in BOOLEAN)
BY OwnTypes DEF IInv, Commands, Simple, SetMsgs

\* What a try leaves the sockets at, that it was heard when it was.
LEMMA TryHeard ==
  ASSUME IInv, NEW out \in Outcomes, Sent(out)
  PROVE  /\ \A s \in Sockets : ~For(cmd, s) => HeardRelay(out)[s] = relay[s]
         /\ cmd.code = "set" /\ (out # "unheard" \/ (heard /\ tries # 2 /\ HeardIsDone))
              => HeardRelay(out)[cmd.sock] = cmd.on
         /\ heard' => out # "unheard" \/ heard
<1>1. relay \in Relays /\ (cmd.code = "set" => cmd.sock \in Sockets)
  BY OwnTypes, SockType DEF IInv
<1>2. heard' => out # "unheard" \/ heard
  BY DEF Sent
<1>3. CASE out # "unheard" /\ cmd.code = "set"
  BY <1>1, <1>2, <1>3 DEF HeardRelay, Relays, For
<1>4. CASE ~(out # "unheard" /\ cmd.code = "set")
  BY <1>1, <1>2, <1>4 DEF HeardRelay, HeardIsDone
<1> QED BY <1>3, <1>4

(***************************************************************************)
(* The steps.                                                              *)
(***************************************************************************)
LEMMA StoredStarts == Init => SInv
BY DEF Init, SInv, StoredInv, HeardIsDone, FreshLine, CallersIdle, NoCaller, NoWant, Simple

LEMMA StoredTimer ==
  ASSUME IInv, SInv, TimerCallback, UNCHANGED <<param, mpc, callers, sys, early>>
  PROVE  SInv'
<1>1. /\ queue' = Put(queue, Simple("timer"))
      /\ UNCHANGED <<tpc, cmd, tries, heard, rx, late, relay, doubt, ordered>>
  BY DEF TimerCallback, task, line
<1>2. queue \in Seq(Messages) /\ Simple("timer") \in Messages /\ \A s : ~For(Simple("timer"), s)
  BY MessageTypes DEF IInv, TInv, TypeOK, DrvTypeOK, For, Simple
<1>3. \A s : /\ SetsOf(queue', s) = SetsOf(queue, s)
             /\ \A on : LastIs(queue, s, on) => LastIs(queue', s, on)
  BY <1>1, <1>2, SetsOfPut
<1>4. ASSUME NEW s \in Sockets, Agree(s) PROVE Agree(s)'
  BY <1>1, <1>3, <1>4 DEF Agree, Asking, Reached, For, callers
<1>5. StoredInv'
  BY <1>1, <1>4 DEF SInv, StoredInv
<1> QED BY <1>1, <1>5, CallersIdleKept DEF SInv, HeardIsDone, FreshLine

LEMMA StoredReceive ==
  ASSUME IInv, SInv, TaskReceive, UNCHANGED <<param, mpc, callers, sys, early>>
  PROVE  SInv'
<1>1. /\ queue' = Tail(queue) /\ queue # <<>> /\ queue \in Seq(Messages) /\ heard' = FALSE
      /\ UNCHANGED <<rx, late, relay, doubt, ordered>> /\ cmd.code = "none"
  BY DEF TaskReceive, line, IInv, TInv, TypeOK, DrvTypeOK, CommandKnown
<1>2. /\ Head(queue).code = "set" => cmd' = Head(queue)
      /\ Head(queue).code # "set" => cmd'.code # "set"
      /\ tries' \in {0, tries}
  <2>1. Handle(Head(queue))
    BY DEF TaskReceive
  <2> QED BY <1>1, <2>1 DEF Handle, Begin, Simple
<1>3. ASSUME NEW s \in Sockets, Agree(s) PROVE Agree(s)'
  <2>1. UNCHANGED <<Asking(s), want, param[s]>>
    BY DEF Asking, callers
  <2>2. ASSUME Asking(s) = {}
        PROVE  LastIs(queue', s, param[s]) /\ (SetsOf(queue', s) = {} => Reached(s)')
    <3>1. LastIs(queue, s, param[s]) /\ (SetsOf(queue, s) = {} => relay[s] = param[s])
      BY <1>1, <1>3, <2>2 DEF Agree, Reached, For
    <3>2. /\ LastIs(queue', s, param[s])
          /\ SetsOf(queue', s) = {} => IF For(Head(queue), s) THEN Head(queue).on = param[s]
                                                              ELSE SetsOf(queue, s) = {}
      BY <1>1, <3>1, SetsOfTail
    <3>3. For(cmd', s) <=> For(Head(queue), s)
      BY <1>2 DEF For
    <3> QED BY <1>1, <1>2, <3>1, <3>2, <3>3 DEF Reached, For
  <2> QED BY <1>3, <2>1, <2>2 DEF Agree
<1>4. StoredInv'
  BY <1>1, <1>3 DEF SInv, StoredInv
<1>5. HeardIsDone' /\ FreshLine'
  BY <1>1, <1>2 DEF SInv, HeardIsDone, FreshLine
<1> QED BY <1>4, <1>5, CallersIdleKept DEF SInv

\* The end of a command: a request has reached the socket, or its end is in doubt.
LEMMA StoredEnds ==
  ASSUME IInv, SInv,
         UNCHANGED <<queue, param, mpc, callers>>,
         cmd'.code # "set", tries' = 0, ordered => ordered', doubt \subseteq doubt',
         \A s \in Sockets : ~For(cmd, s) => relay'[s] = relay[s],
         cmd.code = "set" /\ cmd.sock \notin doubt' => relay'[cmd.sock] = cmd.on
  PROVE  SInv'
<1>1. ASSUME NEW s \in Sockets \ doubt', Agree(s) PROVE Agree(s)'
  <2>1. Reached(s) => Reached(s)'
    BY DEF Reached, For
  <2> QED BY <1>1, <2>1, AgreeKept
<1>2. StoredInv'
  BY <1>1 DEF SInv, StoredInv
<1> QED BY <1>2, CallersIdleKept DEF SInv, HeardIsDone, FreshLine

LEMMA PollEndsOrders ==
  ASSUME NEW f, PollEnds(f)
  PROVE  cmd'.code # "set" /\ tries' = 0 /\ (ordered => ordered')
<1>1. Done /\ ordered' = (ordered \/ f)
  BY DEF PollEnds
<1>2. ordered => ordered'
  BY <1>1, Zenon
<1> QED BY <1>1, <1>2 DEF Done, Simple

\* What the end of a command is, whatever its answer.
LEMMA WhatEnds ==
  ASSUME NEW r, NEW f \in BOOLEAN,
         FirstDone(r) \/ SetDone \/ PowerDone \/ StatusDone(r, f) \/ NotDone
  PROVE  /\ cmd'.code # "set" /\ tries' = 0 /\ (ordered => ordered') /\ doubt \subseteq doubt'
         /\ ~NotDone /\ cmd.code = "set" /\ cmd.sock \notin doubt' => heard'
         /\ NotDone /\ cmd.code = "set" => cmd.sock \in doubt'
<1>1. CASE FirstDone(r)
  BY <1>1 DEF FirstDone, Done, Simple
<1>2. CASE SetDone
  <2>1. cmd.code = "set" /\ Done /\ UNCHANGED ordered
    BY <1>2 DEF SetDone
  <2>2. doubt' = IF heard' THEN doubt ELSE doubt \cup {cmd.sock}
    BY <1>2 DEF SetDone
  <2>3. NotDone => cmd.sock \in doubt'
    BY <2>1 DEF NotDone
  <2>4. doubt \subseteq doubt' /\ (cmd.sock \notin doubt' => heard')
    BY <2>2, Zenon
  <2> QED BY <2>1, <2>3, <2>4 DEF Done, Simple
<1>3. CASE PowerDone
  BY <1>3, PollEndsOrders DEF PowerDone, NotDone
<1>4. CASE StatusDone(r, f)
  <2>1. cmd.code = "status" /\ UNCHANGED doubt
    BY <1>4 DEF StatusDone
  <2>2. PollEnds(f) \/ (Begin(Simple("power")) /\ UNCHANGED ordered)
    BY <1>4 DEF StatusDone
  <2>3. cmd'.code # "set" /\ tries' = 0 /\ (ordered => ordered')
    BY <2>2, PollEndsOrders DEF Begin, Simple
  <2> QED BY <2>1, <2>3
<1>5. CASE NotDone
  <2>1. doubt' = IF cmd.code = "set" THEN doubt \cup {cmd.sock} ELSE doubt
    BY <1>5 DEF NotDone
  <2>2. PollEnds(factory) \/ (Done /\ UNCHANGED ordered)
    BY <1>5 DEF NotDone
  <2>3. cmd'.code # "set" /\ tries' = 0 /\ (ordered => ordered')
    BY <2>2, PollEndsOrders DEF Done, Simple
  <2> QED BY <1>5, <2>1, <2>3
<1> QED BY <1>1, <1>2, <1>3, <1>4, <1>5

LEMMA StoredSucceeds ==
  ASSUME IInv, SInv, TrySucceeds, UNCHANGED <<param, mpc, callers, sys, early>>
  PROVE  SInv'
<1>1. PICK out \in Outcomes :
        /\ Sent(out) /\ relay' = HeardRelay(out) /\ Understood(Arrived(out))
        /\ LET r == Head(Arrived(out))
           IN  FirstDone(r) \/ SetDone \/ PowerDone \/ StatusDone(r, FALSE)
  BY DEF TrySucceeds
<1>2. PICK r : FirstDone(r) \/ SetDone \/ PowerDone \/ StatusDone(r, FALSE)
  BY <1>1
<1>3. /\ cmd'.code # "set" /\ tries' = 0 /\ (ordered => ordered') /\ doubt \subseteq doubt'
      /\ cmd.code = "set" /\ cmd.sock \notin doubt' => heard'
  <2>1. FALSE \in BOOLEAN
    OBVIOUS
  <2> QED BY <1>2, <2>1, WhatEnds
<1>4. \A s \in Sockets : ~For(cmd, s) => relay'[s] = relay[s]
  BY <1>1, TryHeard
<1>5. cmd.code = "set" /\ cmd.sock \notin doubt' => relay'[cmd.sock] = cmd.on
  <2> SUFFICES ASSUME cmd.code = "set", cmd.sock \notin doubt' PROVE relay'[cmd.sock] = cmd.on
    OBVIOUS
  <2>1. out # "unheard" \/ heard
    BY <1>1, <1>3, TryHeard
  <2>2. tries = 2 => out # "unheard"
    BY <1>1 DEF SInv, FreshLine, Understood, Arrived
  <2> QED BY <1>1, <2>1, <2>2, TryHeard DEF SInv
<1> QED BY <1>3, <1>4, <1>5, StoredEnds DEF TrySucceeds

LEMMA StoredGivesUp ==
  ASSUME IInv, SInv, TryGivesUp, UNCHANGED <<param, mpc, callers, sys, early>>
  PROVE  SInv'
<1>1. PICK out \in Outcomes : Sent(out) /\ relay' = HeardRelay(out)
  BY DEF TryGivesUp
<1>2. NotDone /\ UNCHANGED queue
  BY DEF TryGivesUp
<1>3. /\ cmd'.code # "set" /\ tries' = 0 /\ (ordered => ordered') /\ doubt \subseteq doubt'
      /\ cmd.code = "set" => cmd.sock \in doubt'
  BY <1>2, WhatEnds
<1>4. \A s \in Sockets : ~For(cmd, s) => relay'[s] = relay[s]
  BY <1>1, TryHeard
<1> QED BY <1>2, <1>3, <1>4, StoredEnds

LEMMA StoredPressed ==
  ASSUME IInv, SInv, FactoryPressed, UNCHANGED <<param, mpc, callers, sys, early>>
  PROVE  SInv'
<1>1. StatusDone(Answer, TRUE) /\ cmd.code # "set" /\ UNCHANGED <<queue, relay>>
  BY DEF FactoryPressed, StatusDone
<1>2. cmd'.code # "set" /\ tries' = 0 /\ (ordered => ordered') /\ doubt \subseteq doubt'
  <2>1. TRUE \in BOOLEAN
    OBVIOUS
  <2> QED BY <1>1, <2>1, WhatEnds
<1> QED BY <1>1, <1>2, StoredEnds

LEMMA StoredAgain ==
  ASSUME IInv, SInv, TryAgain, UNCHANGED <<param, mpc, callers, sys, early>>
  PROVE  SInv'
<1>1. PICK out \in Outcomes : Sent(out) /\ relay' = HeardRelay(out)
  BY DEF TryAgain
<1>2. /\ UNCHANGED <<queue, cmd, doubt, ordered>> /\ tries = 0 /\ tries' = 1
  BY DEF TryAgain, shown
<1>3. ASSUME NEW s \in Sockets, Agree(s) PROVE Agree(s)'
  <2>1. Reached(s) => Reached(s)'
    BY <1>1, <1>2, TryHeard DEF Reached, For
  <2> QED BY <1>2, <1>3, <2>1, AgreeKept
<1>4. StoredInv'
  BY <1>2, <1>3 DEF SInv, StoredInv
<1>5. HeardIsDone'
  BY <1>1, <1>2, TryHeard DEF SInv, HeardIsDone
<1>6. FreshLine'
  BY <1>2 DEF FreshLine
<1> QED BY <1>4, <1>5, <1>6, CallersIdleKept DEF SInv

\* Whatever the reset of the meter switches off is in doubt, or asked for again.
LEMMA StoredAfterReset ==
  ASSUME IInv, SInv, TryAfterReset, UNCHANGED <<param, mpc, callers, sys, early>>
  PROVE  SInv'
<1>1. /\ UNCHANGED <<queue, cmd, ordered>> /\ tries' = 2 /\ rx' = <<>> /\ late' = NoReply
      /\ doubt \subseteq doubt'
      /\ \A s \in Sockets : relay'[s] # relay[s] /\ s \notin doubt' => For(cmd, s)
  BY DEF TryAfterReset, For
<1>2. ASSUME NEW s \in Sockets, s \notin doubt', Agree(s) PROVE Agree(s)'
  <2>1. For(cmd, s) \/ relay'[s] = relay[s]
    BY <1>1, <1>2
  <2>2. Reached(s) => Reached(s)'
    BY <1>1, <2>1 DEF Reached, For
  <2> QED BY <1>1, <1>2, <2>2, AgreeKept
<1>3. StoredInv'
  BY <1>1, <1>2 DEF SInv, StoredInv
<1> QED BY <1>1, <1>3, CallersIdleKept DEF SInv, HeardIsDone, FreshLine

\* Only what the line holds changes.
LEMMA StoredLate ==
  ASSUME IInv, SInv, LateAnswer, UNCHANGED <<param, mpc, callers, sys, early>>
  PROVE  SInv'
<1>1. UNCHANGED <<queue, cmd, tries, heard, relay, doubt, ordered>> /\ late # NoReply
  BY DEF LateAnswer, task
<1>2. ASSUME NEW s \in Sockets, Agree(s) PROVE Agree(s)'
  <2>1. Reached(s) => Reached(s)'
    BY <1>1 DEF Reached, For
  <2> QED BY <1>1, <1>2, <2>1, AgreeKept
<1>3. StoredInv'
  BY <1>1, <1>2 DEF SInv, StoredInv
<1> QED BY <1>1, <1>3, CallersIdleKept DEF SInv, HeardIsDone, FreshLine

LEMMA StoredInit ==
  ASSUME IInv, SInv, OutletMgrInit PROVE SInv'
<1>1. PICK r \in StoredSets : queue' = queue \o r
  BY DEF OutletMgrInit
<1>2. /\ UNCHANGED <<cmd, tries, heard, rx, late, relay, doubt, ordered, param, callers>>
      /\ mpc = "init" /\ mpc' = "start" /\ queue \in Seq(Messages)
  BY DEF OutletMgrInit, task, line, IInv, TInv, TypeOK, DrvTypeOK
<1>3. \A c \in Callers : cpc[c] = "idle" /\ want[c] = NoReply
  BY <1>2 DEF SInv, CallersIdle
<1>4. ASSUME NEW s \in Sockets PROVE Agree(s)'
  <2>1. SetsOf(queue', s) # {} /\ LastIs(queue', s, param[s])
    BY <1>1, <1>2, SetsOfStored
  <2>2. Asking(s)' = {}
    BY <1>2, <1>3 DEF Asking, For, NoReply, Simple, callers
  <2> QED BY <1>2, <2>1, <2>2 DEF Agree
<1>5. CallersIdle'
  BY <1>2, <1>3 DEF CallersIdle, callers
<1> QED BY <1>2, <1>4, <1>5 DEF SInv, StoredInv, HeardIsDone, FreshLine

LEMMA StoredStart ==
  ASSUME IInv, SInv, OutletMgrStart PROVE SInv'
<1>1. /\ UNCHANGED <<queue, cmd, tries, heard, rx, late, relay, doubt, ordered, param, callers>>
      /\ mpc = "start" /\ mpc' = "run"
  BY DEF OutletMgrStart, task, line
<1>2. ASSUME NEW s \in Sockets, Agree(s) PROVE Agree(s)'
  BY <1>1, <1>2, AgreeKept DEF Reached, For
<1>3. StoredInv'
  BY <1>1, <1>2 DEF SInv, StoredInv
<1> QED BY <1>1, <1>3 DEF SInv, HeardIsDone, FreshLine, CallersIdle, callers

LEMMA StoredSet ==
  ASSUME IInv, SInv, NEW c \in Callers, SetSocket(c) PROVE SInv'
<1>1. PICK t \in Sockets, on \in BOOLEAN :
        /\ param' \in {param, [param EXCEPT ![t] = on]}
        /\ want' = [want EXCEPT ![c] = SetMsg(t, on)]
        /\ doubt' = IF Overlaps(c, t) \/ param'[t] # on THEN doubt \cup {t} ELSE doubt
  <2>1. \A s \in Sockets : Asked(c, s) \subseteq BOOLEAN
    BY Zenon DEF Asked
  <2> QED BY <2>1 DEF SetSocket
<1>2. /\ UNCHANGED <<queue, cmd, tries, heard, rx, late, relay, ordered, mpc>> /\ mpc = "run"
      /\ cpc[c] = "idle" /\ cpc' = [cpc EXCEPT ![c] = "stored"]
  BY DEF SetSocket, task, line
<1>3. /\ want[c] = NoReply /\ want \in [Callers -> SetMsgs \cup {NoReply}] /\ param \in Relays
      /\ cpc \in [Callers -> {"idle", "stored"}]
  BY <1>2 DEF SInv, CallersIdle, IInv, TInv, TypeOK
<1>4. /\ want'[c] = SetMsg(t, on) /\ \A d \in Callers : d # c => want'[d] = want[d]
      /\ t \notin doubt' => param'[t] = on
      /\ \A s \in Sockets : s # t => param'[s] = param[s]
  BY <1>1, <1>3 DEF Relays
<1>5. /\ Asking(t)' = Asking(t) \cup {c} /\ c \notin Asking(t)
      /\ \A s : s # t => Asking(s)' = Asking(s) /\ c \notin Asking(s)
  BY <1>3, <1>4 DEF Asking, For, SetMsg, NoReply, Simple
<1>6. ASSUME NEW s \in Sockets, s \notin doubt', Agree(s) PROVE Agree(s)'
  <2>1. CASE s # t
    BY <1>2, <1>4, <1>5, <1>6, <2>1 DEF Agree, Asking, Reached, SetsOf, LastIs, For
  <2>2. CASE s = t
    <3>1. ~Overlaps(c, t)
      BY <1>1, <1>6, <2>2
    <3>2. Asking(t) = {}
      <4>1. \A d \in Callers : want[d].code = "set" => cpc[d] = "stored"
        <5>1. \A d \in Callers : cpc[d] = "idle" => want[d].code # "set"
          BY DEF SInv, CallersIdle, NoReply, Simple
        <5> QED BY <1>3, <5>1
      <4> QED BY <1>5, <3>1, <4>1 DEF Overlaps, Asking, For
    <3>3. Asking(t)' = {c} /\ want'[c].on = param'[t]
      BY <1>4, <1>5, <1>6, <2>2, <3>2 DEF SetMsg
    <3> QED BY <2>2, <3>3 DEF Agree
  <2> QED BY <2>1, <2>2
<1>7. StoredInv'
  BY <1>1, <1>2, <1>6 DEF SInv, StoredInv
<1>8. CallersIdle'
  BY <1>2, <1>3, <1>4 DEF SInv, CallersIdle
<1> QED BY <1>2, <1>7, <1>8 DEF SInv, HeardIsDone, FreshLine

LEMMA StoredPost ==
  ASSUME IInv, SInv, NEW c \in Callers, PostSocket(c) PROVE SInv'
<1>1. /\ queue' = Put(queue, want[c]) /\ want' = [want EXCEPT ![c] = NoReply]
      /\ doubt' = IF Len(queue) = QSize THEN doubt \cup {want[c].sock} ELSE doubt
      /\ UNCHANGED <<cmd, tries, heard, rx, late, relay, ordered, mpc, param>>
      /\ cpc[c] = "stored" /\ cpc' = [cpc EXCEPT ![c] = "idle"]
  BY DEF PostSocket, task, line
<1>2. /\ want \in [Callers -> SetMsgs \cup {NoReply}] /\ want[c] \in SetMsgs
      /\ want[c] \in Messages /\ queue \in Seq(Messages) /\ Len(queue) <= QSize
      /\ cpc \in [Callers -> {"idle", "stored"}]
  BY <1>1, MessageTypes DEF IInv, TInv, TypeOK, DrvTypeOK, WantKnown
<1>3. /\ want'[c] = NoReply /\ \A d \in Callers : d # c => want'[d] = want[d]
      /\ \A s : Asking(s)' = Asking(s) \ {c} /\ (c \in Asking(s) <=> For(want[c], s))
  BY <1>1, <1>2 DEF Asking, For, NoReply, Simple
<1>4. ASSUME NEW s \in Sockets, s \notin doubt', Agree(s) PROVE Agree(s)'
  <2>1. CASE For(want[c], s)
    <3>1. Len(queue) < QSize
      BY <1>1, <1>2, <1>4, <2>1 DEF For
    <3>2. SetsOf(queue', s) # {} /\ LastIs(queue', s, param[s])
      <4>1. want[c].on = param[s]
        BY <1>3, <1>4, <2>1 DEF Agree
      <4> QED BY <1>1, <1>2, <2>1, <3>1, <4>1, SetsOfPut
    <3>3. Asking(s)' = {}
      BY <1>3, <1>4, <2>1 DEF Agree
    <3> QED BY <1>1, <3>2, <3>3 DEF Agree
  <2>2. CASE ~For(want[c], s)
    <3>1. /\ SetsOf(queue', s) = SetsOf(queue, s)
          /\ LastIs(queue, s, param[s]) => LastIs(queue', s, param[s])
      BY <1>1, <1>2, <2>2, SetsOfPut
    <3>2. Asking(s)' = Asking(s) /\ \A d \in Asking(s) : want'[d] = want[d]
      BY <1>3, <2>2 DEF Asking
    <3> QED BY <1>1, <1>4, <3>1, <3>2 DEF Agree, Reached, For
  <2> QED BY <2>1, <2>2
<1>5. StoredInv'
  BY <1>1, <1>4 DEF SInv, StoredInv
<1>6. CallersIdle'
  BY <1>1, <1>2, <1>3 DEF SInv, CallersIdle
<1> QED BY <1>1, <1>5, <1>6 DEF SInv, HeardIsDone, FreshLine

LEMMA StoredControl ==
  ASSUME IInv, SInv, Notified
  PROVE  SInv'
<1>1. \E code \in {"pause", "resume"}, state \in States : Notify(code, state)
  BY DEF Notified, FwUpgradeStart, FwUpgradeFail, RebootArmed, Rebooting, ResetFactory, States
<1>2. PICK code \in {"pause", "resume"}, state \in States : Notify(code, state)
  BY <1>1
<1>3. /\ queue' = Put(queue, Simple(code))
      /\ UNCHANGED <<cmd, tries, heard, rx, late, relay, doubt, param, mpc, callers>>
  BY <1>2 DEF Notify, task, line
<1>4. \A s : /\ SetsOf(queue', s) = SetsOf(queue, s)
             /\ \A on : LastIs(queue, s, on) => LastIs(queue', s, on)
  <2>1. queue \in Seq(Messages) /\ Simple(code) \in Messages /\ \A s : ~For(Simple(code), s)
    BY MessageTypes DEF IInv, TInv, TypeOK, DrvTypeOK, For, Simple
  <2> QED BY <1>3, <2>1, SetsOfPut
<1>5. ASSUME NEW s \in Sockets, Agree(s) PROVE Agree(s)'
  BY <1>3, <1>4, <1>5 DEF Agree, Asking, Reached, For, callers
<1>6. StoredInv'
  BY <1>3, <1>5 DEF SInv, StoredInv
<1> QED BY <1>3, <1>6, CallersIdleKept DEF SInv, HeardIsDone, FreshLine

\* What a factory reset changes is in doubt.
LEMMA StoredUnheard ==
  ASSUME IInv, SInv, ResetParameters \/ RebootLost
  PROVE  SInv'
<1>1. /\ UNCHANGED <<queue, cmd, tries, heard, rx, late, relay, mpc, callers>>
      /\ mpc # "init" => /\ doubt \subseteq doubt'
                         /\ \A s \in Sockets : s \notin doubt' => param'[s] = param[s]
  BY DEF ResetParameters, RebootLost, task, line
<1>2. ASSUME NEW s \in Sockets, param'[s] = param[s], Agree(s) PROVE Agree(s)'
  BY <1>1, <1>2 DEF Agree, Asking, Reached, SetsOf, LastIs, For, callers
<1>3. StoredInv'
  BY <1>1, <1>2 DEF SInv, StoredInv
<1> QED BY <1>1, <1>3, CallersIdleKept DEF SInv, HeardIsDone, FreshLine

LEMMA StoredRestart == Restart => SInv'
BY DEF Restart, SInv, StoredInv, HeardIsDone, FreshLine, CallersIdle, NoCaller, NoWant, Simple

LEMMA StoredStutters == SInv /\ UNCHANGED vars => SInv'
<1> SUFFICES ASSUME SInv, UNCHANGED vars PROVE SInv'
  OBVIOUS
<1>1. UNCHANGED <<queue, cmd, tries, heard, rx, late, relay, doubt, ordered, param, mpc, callers>>
  BY DEF vars, drvVars, task, line
<1>2. ASSUME NEW s \in Sockets, Agree(s) PROVE Agree(s)'
  BY <1>1, <1>2, AgreeKept DEF Reached, For
<1>3. StoredInv'
  BY <1>1, <1>2 DEF SInv, StoredInv
<1> QED BY <1>1, <1>3, CallersIdleKept DEF SInv, HeardIsDone, FreshLine

LEMMA StoredSteps == IInv /\ SInv /\ [Next]_vars => SInv'
<1> SUFFICES ASSUME IInv, SInv, [Next]_vars PROVE SInv'
  OBVIOUS
<1>1. CASE Driver
  <2>1. UNCHANGED <<param, mpc, callers, sys, early>>
    BY <1>1 DEF Driver
  <2>2. CASE TimerCallback
    BY <2>1, <2>2, StoredTimer
  <2>3. CASE TaskReceive
    BY <2>1, <2>3, StoredReceive
  <2>4. CASE TrySucceeds
    BY <2>1, <2>4, StoredSucceeds
  <2>5. CASE TryAgain
    BY <2>1, <2>5, StoredAgain
  <2>6. CASE TryAfterReset
    BY <2>1, <2>6, StoredAfterReset
  <2>7. CASE TryGivesUp
    BY <2>1, <2>7, StoredGivesUp
  <2>8. CASE FactoryPressed
    BY <2>1, <2>8, StoredPressed
  <2>9. CASE LateAnswer
    BY <2>1, <2>9, StoredLate
  <2> QED BY <1>1, <2>2, <2>3, <2>4, <2>5, <2>6, <2>7, <2>8, <2>9 DEF Driver, CtrlTask
<1>2. CASE OutletMgrInit \/ OutletMgrStart
  BY <1>2, StoredInit, StoredStart
<1>3. CASE \E c \in Callers : SetSocket(c) \/ PostSocket(c)
  BY <1>3, StoredSet, StoredPost
<1>4. CASE Notified \/ ResetParameters \/ RebootLost
  BY <1>4, StoredControl, StoredUnheard
<1>5. CASE Restart
  BY <1>5, StoredRestart
<1>6. CASE UNCHANGED vars
  BY <1>6, StoredStutters
<1> QED BY <1>1, <1>2, <1>3, <1>4, <1>5, <1>6 DEF Next, Main, Requests, Control, Notified

\* A quiet socket has no request anywhere.
LEMMA QuietAgrees == IInv /\ SInv => StoredAgrees
<1> SUFFICES ASSUME IInv, SInv, NEW s \in Sockets, s \notin doubt, Quiet(s)
             PROVE  relay[s] = param[s]
  BY DEF StoredAgrees
<1>1. Agree(s)
  BY DEF SInv, StoredInv, Quiet
<1>2. Asking(s) = {} /\ SetsOf(queue, s) = {} /\ ~For(cmd, s)
  BY DEF Quiet, Asking, SetsOf, For
<1> QED BY <1>1, <1>2 DEF Agree, Reached

(***************************************************************************)
(* The theorems.                                                           *)
(***************************************************************************)
LEMMA Steps == IInv /\ [Next]_vars => IInv'
<1> SUFFICES ASSUME IInv, [Next]_vars PROVE IInv'
  OBVIOUS
<1>1. CASE Driver
  <2>1. UNCHANGED <<param, mpc, callers, sys, early>>
    BY <1>1 DEF Driver
  <2>2. CASE TimerCallback
    BY <2>1, <2>2, TimerStep
  <2>3. CASE TaskReceive
    BY <2>1, <2>3, ReceiveStep
  <2>4. CASE TrySucceeds
    BY <2>1, <2>4, SucceedStep
  <2>5. CASE TryAgain \/ TryAfterReset
    BY <2>1, <2>5, AgainStep
  <2>6. CASE TryGivesUp
    BY <2>1, <2>6, GivesUpStep
  <2>7. CASE FactoryPressed
    BY <2>1, <2>7, PressedStep
  <2>8. CASE LateAnswer
    BY <2>1, <2>8, LateStep
  <2> QED BY <1>1, <2>2, <2>3, <2>4, <2>5, <2>6, <2>7, <2>8 DEF Driver, CtrlTask
<1>2. CASE OutletMgrInit
  BY <1>2, InitStep
<1>3. CASE OutletMgrStart
  BY <1>3, StartStep
<1>4. CASE \E c \in Callers : SetSocket(c) \/ PostSocket(c)
  BY <1>4, SetStep, PostStep
<1>5. CASE Notified \/ ResetParameters \/ RebootLost
  BY <1>5, ControlStep, UnheardStep
<1>6. CASE Restart
  BY <1>6, RestartStep
<1>7. CASE UNCHANGED vars
  <2>1. UNCHANGED <<queue, timer, task, states, polling, line, relay, shown, doubt, deaf, ordered,
                    trouble, param, mpc, callers, sys, early>>
    BY <1>7 DEF vars, drvVars
  <2> QED BY <2>1 DEF IInv, TInv, TypeOK, DrvTypeOK, CommandKnown, WantKnown, PollInv, AtMostOne,
                   PollAt, Polling, task, states, polling, line, shown, callers
<1> QED BY <1>1, <1>2, <1>3, <1>4, <1>5, <1>6, <1>7 DEF Next, Main, Requests, Control, Notified

LEMMA Invariant == Spec => []IInv
<1>1. Init => IInv
  BY Starts
<1>2. IInv /\ [Next]_vars => IInv'
  BY Steps
<1> QED BY <1>1, <1>2, PTL DEF Spec

\* The variables of the driver, the callers and the control task keep their
\* types and the driver's queue its bound.
THEOREM OutletsTypeOK == Spec => []TypeOK
<1>1. IInv => TypeOK
  BY DEF IInv, TInv
<1> QED BY <1>1, Invariant, PTL

\* The poll of emtr_drv.c is never about twice, and gone only after a factory
\* reset was ordered or the timer found the queue full.
THEOREM OnePollAbout == Spec => []OnePoll
<1>1. IInv => OnePoll
  BY PollInvIs DEF IInv
<1> QED BY <1>1, Invariant, PTL

\* Whatever commands of emtr_drv.c are repeated, whatever answers come late and
\* whoever asks for pauses, reboots and factory resets, a socket of which no request
\* of outletMgrSetSocket is under way is as stored, for any number of sockets; with
\* the exceptions the property names, a position that a setter failed to store or a
\* factory reset changed among them.
THEOREM QuietSocketIsAsStored == Spec => []StoredAgrees
<1>1. Init => SInv
  BY StoredStarts
<1>2. IInv /\ SInv /\ [Next]_vars => SInv'
  BY StoredSteps
<1>3. IInv /\ SInv => StoredAgrees
  BY QuietAgrees
<1> QED BY <1>1, <1>2, <1>3, Invariant, PTL DEF Spec

=============================================================================
