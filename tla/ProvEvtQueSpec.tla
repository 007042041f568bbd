--------------------------- MODULE ProvEvtQueSpec ---------------------------
(***************************************************************************)
(* What the provisioning event queue does, as its users see it: a queue of *)
(* at most SIZE events whose last event is sticky (reading it leaves it in *)
(* place, so a reader must compare with what it read before), and in which *)
(* a put into a full queue takes the place of the OLDEST event, so that    *)
(* the newest event is read before the ones that were waiting.             *)
(***************************************************************************)
EXTENDS Naturals, Sequences

CONSTANTS Event,      \* the events that are put
          NullEvent,  \* what reading the queue yields before the first put
          SIZE        \* PROV_EVT_Q_SZ

VARIABLES que, got    \* the waiting events; the event read last

\* provEvtPut, as a change of the queue
AfterPut(q, e) == IF Len(q) < SIZE THEN Append(q, e) ELSE <<e>> \o Tail(q)

\* provEvtGet: the event it returns and the queue it leaves
Oldest(q) == IF q = <<>> THEN NullEvent ELSE Head(q)
AfterGet(q) == IF Len(q) > 1 THEN Tail(q) ELSE q

Init == que = <<>> /\ got = NullEvent

Put == \E e \in Event : que' = AfterPut(que, e) /\ UNCHANGED got

Get == got' = Oldest(que) /\ que' = AfterGet(que)

Next == Put \/ Get

Spec == Init /\ [][Next]_<<que, got>>
=============================================================================
