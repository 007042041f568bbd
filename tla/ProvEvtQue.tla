----------------------------- MODULE ProvEvtQue -----------------------------
(***************************************************************************)
(* The ring buffer between setProvState and the provisioning task          *)
(* (cs_lr_prov.c, provEvtQue_t): a slot array with put and get indexes and *)
(* a count, each operation under the mutex of the task's control block.    *)
(* Its names do not meet those of LrProv, for proofs about both together.  *)
(***************************************************************************)
EXTENDS Naturals, Sequences

CONSTANTS Event, NullEvent, SIZE

ASSUME QueAssumption == SIZE \in Nat \ {0} /\ NullEvent \notin Event

VARIABLES evt, put, get, count,   \* provEvtQue_t
          got                     \* what the last provEvtGet returned

ringVars == <<evt, put, get, count, got>>

Slots == 0..(SIZE - 1)

RingTypeOK ==
    /\ evt \in [Slots -> Event \cup {NullEvent}]
    /\ put \in Slots /\ get \in Slots
    /\ count \in 0..SIZE
    /\ got \in Event \cup {NullEvent}

\* The control block is allocated zeroed.
RingInit ==
    /\ evt = [i \in Slots |-> NullEvent]
    /\ put = 0 /\ get = 0 /\ count = 0
    /\ got = NullEvent

\* The index after i.
Advance(i) == IF i + 1 = SIZE THEN 0 ELSE i + 1

\* Mutant: put moves on although the ring is full, and get with it.
PutMovesBoth(e) ==
    /\ evt' = [evt EXCEPT ![put] = e]
    /\ put' = Advance(put)
    /\ IF count < SIZE THEN count' = count + 1 /\ UNCHANGED get
                       ELSE get' = Advance(get) /\ UNCHANGED count
    /\ UNCHANGED got

\* provEvtPut writes the slot at put in any case; only when the ring is not
\* full does it move put and count.
provEvtPut(e) ==
    /\ evt' = [evt EXCEPT ![put] = e]
    /\ IF count < SIZE
         THEN put' = Advance(put) /\ count' = count + 1
         ELSE UNCHANGED <<put, count>>
    /\ UNCHANGED <<get, got>>

\* provEvtGet returns the slot at get, and keeps it if it is the last one.
provEvtGet ==
    /\ got' = evt[get]
    /\ IF count > 1
         THEN get' = Advance(get) /\ count' = count - 1
         ELSE UNCHANGED <<get, count>>
    /\ UNCHANGED <<evt, put>>

RingNext == (\E e \in Event : provEvtPut(e)) \/ provEvtGet

RingSpec == RingInit /\ [][RingNext]_ringVars

-----------------------------------------------------------------------------
\* The slot of the i-th waiting event.
Slot(i) == IF get + i - 1 < SIZE THEN get + i - 1 ELSE get + i - 1 - SIZE

\* put is the slot behind the last waiting event, so that the ring being full
\* and it being empty are told apart by count alone.
PutBehindLast == put = Slot(count + 1)

\* Before anything was put, the slot that provEvtGet returns is a zeroed one.
\* (What the proof of the refinement needs besides.)
EmptyReadsNull == count = 0 => evt[get] = NullEvent

Waiting == [i \in 1..count |-> evt[Slot(i)]]

Abstract == INSTANCE ProvEvtQueSpec WITH que <- Waiting

\* The ring delivers what the abstract queue does: events come out in the
\* order they were put, none twice but the last, none lost but the one a full
\* ring overwrites (provEvtPut and provEvtGet together).
ImplementsQueue == Abstract!Spec
=============================================================================
