-------------------------- MODULE ParamMgr_proofs --------------------------
(***************************************************************************)
(* Proofs about the parameter manager for every table and all values.  The *)
(* three safety invariants need two facts more: a reset begins at the      *)
(* first parameter, and what was not set since a reset has its default in  *)
(* RAM as soon as the loop is past it, which is what makes a write of it   *)
(* that was pending harmless.                                              *)
(***************************************************************************)
EXTENDS ParamMgr, TLAPS

StartsAtFirst == op = "none" => at = 1

RamLasts ==
    \A p \in Scalars \ (since \cup failed) : ram[p] = Default \/ NotReached(p)

IInv == /\ TypeOK /\ StartsAtFirst
        /\ WriteScheduled /\ UnstoredIsFlagged /\ ResetLasts /\ RamLasts

-----------------------------------------------------------------------------
\* The table begins at its first parameter, and is not empty.
LEMMA FirstParam == 1 \in Params /\ \A p \in Params : p \in Nat /\ 1 <= p
  BY ParamAssumption DEF Params, ParamAssumption

\* The loops stay inside the table and leave behind them only the parameter
\* they have just handled.
LEMMA ProceedBehind ==
  ASSUME TypeOK, op # "none", Proceed
  PROVE  /\ op' \in {"none", op} /\ at' \in Params /\ StartsAtFirst'
         /\ \A p \in Params : NotReached(p) => p = at \/ NotReached(p)'
  BY ParamAssumption DEF Proceed, TypeOK, Params, NotReached, StartsAtFirst, ParamAssumption

LEMMA NextBehind ==
  ASSUME TypeOK, Next_i
  PROVE  /\ task' \in {"wait", "look"} /\ i' \in Params
         /\ \A p \in Params : i <= p => p = i \/ (task' # "wait" /\ i' <= p)
  BY ParamAssumption DEF Next_i, TypeOK, Params, ParamAssumption

\* The initial state satisfies the invariant.
LEMMA InitIInv == Init => IInv
<1> SUFFICES ASSUME Init PROVE IInv
  OBVIOUS
<1>1. 1 \in Params /\ \A p \in Params : 1 <= p
  BY FirstParam
<1>2. TypeOK /\ StartsAtFirst /\ WriteScheduled
  BY <1>1, ParamAssumption DEF Init, TypeOK, StartsAtFirst, WriteScheduled, ParamAssumption
<1>3. UnstoredIsFlagged
  BY <1>1 DEF Init, UnstoredIsFlagged, NotReached, Scalars
<1>4. ResetLasts /\ RamLasts
  BY DEF Init, ResetLasts, RamLasts, Scalars
<1> QED BY <1>2, <1>3, <1>4 DEF IInv

\* One round of the loading or of the resetting loop keeps it: the parameter
\* reached gets equal copies, or is recorded as failed, before it is behind.
LEMMA LoopKeeps ==
  ASSUME IInv, op # "none", Proceed,
         InitParam(at) \/ (/\ op = "load" /\ flash[at] # Absent
                           /\ ram' = [ram EXCEPT ![at] = flash[at]]
                           /\ UNCHANGED <<flash, failed>>),
         UNCHANGED <<ischanged, taskVars, since, unarmed>>
  PROVE  IInv'
<1> USE DEF IInv
<1>1. TypeOK' /\ StartsAtFirst'
  <2>1. op' \in {"none", "load", "reset"} /\ at' \in Params /\ StartsAtFirst'
    BY ProceedBehind DEF TypeOK
  <2>2. /\ flash' \in [Params -> Value \cup {Absent}]
        /\ ram' \in [Params -> Value] /\ failed' \in SUBSET Params
    BY ParamAssumption DEF InitParam, TypeOK, ParamAssumption
  <2> QED BY <2>1, <2>2 DEF TypeOK, taskVars
<1>2. WriteScheduled'
  BY DEF WriteScheduled, taskVars
<1>3. \A p \in Params : p # at => flash'[p] = flash[p] /\ ram'[p] = ram[p]
  BY DEF InitParam, TypeOK
<1>4. failed \subseteq failed' /\ at \in Params
  BY DEF InitParam, TypeOK
<1>5. at \in Scalars => at \in failed' \/ (ram'[at] = flash'[at])
  BY DEF InitParam, TypeOK, Scalars
<1>6. ASSUME at \in Scalars \ (since \cup failed')
      PROVE  ram'[at] = Default /\ flash'[at] = Default
  <2>1. CASE InitParam(at)
    BY <2>1, <1>6 DEF InitParam, TypeOK, Scalars
  <2>2. CASE /\ flash[at] # Absent
             /\ ram' = [ram EXCEPT ![at] = flash[at]]
             /\ UNCHANGED <<flash, failed>>
    <3>1. flash[at] = Default
      BY <2>2, <1>6 DEF ResetLasts
    <3> QED BY <3>1, <2>2, <1>4 DEF TypeOK
  <2> QED BY <2>1, <2>2
<1>7. UnstoredIsFlagged'
  <2> SUFFICES ASSUME NEW p \in Scalars, ram'[p] # flash'[p]
               PROVE  ischanged'[p] \/ p \in failed' \/ NotReached(p)'
    BY DEF UnstoredIsFlagged, Scalars
  <2> p \in Params BY DEF Scalars
  <2>1. CASE p = at BY <2>1, <1>5
  <2>2. CASE p # at
    BY <2>2, <1>3, <1>4, ProceedBehind DEF UnstoredIsFlagged
  <2> QED BY <2>1, <2>2
<1>8. ResetLasts' /\ RamLasts'
  <2> SUFFICES ASSUME NEW p \in Scalars \ (since \cup failed')
               PROVE  /\ flash'[p] \in {Default, Absent}
                      /\ ram'[p] = Default \/ NotReached(p)'
    BY DEF ResetLasts, RamLasts, Scalars
  <2> p \in Params /\ p \in Scalars \ (since \cup failed) BY <1>4 DEF Scalars
  <2>1. CASE p = at BY <2>1, <1>6
  <2>2. CASE p # at
    BY <2>2, <1>3, ProceedBehind DEF ResetLasts, RamLasts
  <2> QED BY <2>1, <2>2
<1> QED BY <1>1, <1>2, <1>7, <1>8

\* A setter keeps it.
LEMMA SetKeeps ==
  ASSUME IInv, NEW p \in Params, NEW v \in Value, Set(p, v)
  PROVE  IInv'
  BY DEF IInv, Set, Arm, NoArm, MutexFree, TypeOK, StartsAtFirst, WriteScheduled,
     UnstoredIsFlagged, ResetLasts, RamLasts, NotReached, Scalars

\* The write keeps it: what it writes of a parameter not set since the last
\* reset is its default.
LEMMA WriteKeeps == ASSUME IInv, Write PROVE IInv'
<1> USE DEF IInv
<1>1. /\ op = "none" /\ i \in Params
      /\ \A p \in Params : p # i => flash'[p] = flash[p] /\ ischanged'[p] = ischanged[p]
      /\ failed \subseteq failed' /\ ~ischanged'[i]
      /\ i \in failed' \/ flash'[i] = ram[i]
      /\ unarmed' = unarmed \ {i}
  BY DEF Write, MutexFree, TypeOK
<1>2. TypeOK' /\ StartsAtFirst'
  <2>1. /\ flash' \in [Params -> Value \cup {Absent}]
        /\ ischanged' \in [Params -> BOOLEAN] /\ failed' \in SUBSET Params
        /\ unarmed' \in SUBSET Params
    BY DEF Write, TypeOK
  <2>2. task' \in {"wait", "look"} /\ i' \in Params
    BY NextBehind DEF Write
  <2> QED BY <2>1, <2>2 DEF Write, TypeOK, StartsAtFirst
<1>3. WriteScheduled'
  BY <1>1, NextBehind DEF Write, WriteScheduled
<1>4. UnstoredIsFlagged'
  BY <1>1 DEF Write, UnstoredIsFlagged, NotReached, Scalars
<1>5. ResetLasts' /\ RamLasts'
  BY <1>1 DEF Write, ResetLasts, RamLasts, NotReached, Scalars
<1> QED BY <1>2, <1>3, <1>4, <1>5

\* Every step keeps the invariant.
LEMMA NextIInv == IInv /\ [Next]_vars => IInv'
<1> SUFFICES ASSUME IInv, [Next]_vars PROVE IInv'
  OBVIOUS
<1>1. CASE Load
  BY <1>1, LoopKeeps DEF Load
<1>2. CASE ResetInit
  BY <1>2, LoopKeeps DEF ResetInit
<1>3. CASE ResetErase
  BY <1>3, ParamAssumption DEF ResetErase, MutexFree, IInv, TypeOK, StartsAtFirst,
     WriteScheduled, UnstoredIsFlagged, ResetLasts, RamLasts, NotReached, Scalars,
     Params, taskVars, ParamAssumption
<1>4. CASE SetSome
  BY <1>4, SetKeeps DEF SetSome
<1>5. CASE TimerFires
  BY <1>5 DEF TimerFires, IInv, TypeOK, StartsAtFirst, WriteScheduled,
     UnstoredIsFlagged, ResetLasts, RamLasts, NotReached
<1>6. CASE Take
  <2>1. TypeOK' /\ WriteScheduled'
    BY <1>6, FirstParam DEF Take, IInv, TypeOK, WriteScheduled
  <2>2. StartsAtFirst' /\ UnstoredIsFlagged' /\ ResetLasts' /\ RamLasts'
    BY <1>6 DEF Take, IInv, StartsAtFirst, UnstoredIsFlagged, ResetLasts, RamLasts, NotReached
  <2> QED BY <2>1, <2>2 DEF IInv
<1>7. CASE Look
  <2>1. TypeOK' /\ WriteScheduled'
    BY <1>7, NextBehind DEF Look, IInv, TypeOK, WriteScheduled
  <2>2. StartsAtFirst' /\ UnstoredIsFlagged' /\ ResetLasts' /\ RamLasts'
    BY <1>7 DEF Look, IInv, StartsAtFirst, UnstoredIsFlagged, ResetLasts, RamLasts, NotReached
  <2> QED BY <2>1, <2>2 DEF IInv
<1>8. CASE Write
  BY <1>8, WriteKeeps
<1>9. CASE Restart
  <2>1. TypeOK'
    BY <1>9, FirstParam, ParamAssumption DEF Restart, IInv, TypeOK, ParamAssumption
  <2>2. StartsAtFirst' /\ WriteScheduled'
    BY <1>9 DEF Restart, StartsAtFirst, WriteScheduled
  <2>3. \A p \in Params : NotReached(p)'
    BY <1>9, FirstParam DEF Restart, NotReached
  <2>4. UnstoredIsFlagged' /\ ResetLasts' /\ RamLasts'
    BY <1>9, <2>3 DEF Restart, IInv, UnstoredIsFlagged, ResetLasts, RamLasts, Scalars
  <2> QED BY <2>1, <2>2, <2>4 DEF IInv
<1>10. CASE UNCHANGED vars
  BY <1>10 DEF vars, taskVars, IInv, TypeOK, StartsAtFirst, WriteScheduled,
     UnstoredIsFlagged, ResetLasts, RamLasts, NotReached
<1> QED
  BY <1>1, <1>2, <1>3, <1>4, <1>5, <1>6, <1>7, <1>8, <1>9, <1>10 DEF Next

-----------------------------------------------------------------------------
\* The invariant holds in every reachable state.
THEOREM Inductive == Spec => []IInv
  BY InitIInv, NextIInv, PTL DEF Spec

\* Types: the loops and the task stay inside the table (loadParamTable,
\* resetConfig, nvTask), whatever its size.
THEOREM MgrTypeOK == Spec => []TypeOK
<1>1. IInv => TypeOK BY DEF IInv
<1> QED BY <1>1, Inductive, PTL

\* nvTask forgets no flagged parameter, although it reads the flags without
\* the mutex and a setter may flag one it has already passed; the exception
\* is a parameter for which xTimerReset failed and no timer ran.
THEOREM NoWriteForgotten == Spec => []WriteScheduled
<1>1. IInv => WriteScheduled BY DEF IInv
<1> QED BY <1>1, Inductive, PTL

\* A scalar whose copies in RAM and flash differ is flagged for writing,
\* however setters, resets and writes interleave.
THEOREM CopiesAgreeOrFlagged == Spec => []UnstoredIsFlagged
<1>1. IInv => UnstoredIsFlagged BY DEF IInv
<1> QED BY <1>1, Inductive, PTL

\* paramMgrReset lasts for the scalars: neither a write that was pending nor a
\* restart in its middle brings an old value back, unless the flash refused a
\* write of the parameter.  (For a string a pending write does: initParam
\* leaves the RAM copy of a string as it was.)
THEOREM ResetIsLasting == Spec => []ResetLasts
<1>1. IInv => ResetLasts BY DEF IInv
<1> QED BY <1>1, Inductive, PTL
=============================================================================
