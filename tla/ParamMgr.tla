------------------------------ MODULE ParamMgr ------------------------------
(***************************************************************************)
(* The parameter manager (cs-core/param_mgr.c): every parameter has a copy *)
(* in RAM and one in flash.  A setter changes the RAM copy under the mutex *)
(* and, if flash differs, flags the parameter and restarts a 500 ms timer; *)
(* when the timer expires a task of low priority walks the table and       *)
(* writes what is flagged.  A factory reset erases the flash and gives     *)
(* each parameter its default.  Power may fail between any two steps.      *)
(*                                                                         *)
(* The task looks at a flag BEFORE it takes the mutex, so a setter or a    *)
(* whole reset may run between the look and the write.                     *)
(***************************************************************************)
EXTENDS Naturals

CONSTANTS N,                \* parameters in the table, 1..N
          Strings,          \* those of type objtyp_str
          Value, Default,   \* values; defVal
          Zero,             \* what RAM holds before the table is loaded
          Absent            \* nothing stored under the key

Params == 1..N
Scalars == Params \ Strings

ASSUME ParamAssumption ==
    /\ N \in Nat \ {0} /\ Strings \subseteq Params
    /\ Default \in Value /\ Zero \in Value /\ Absent \notin Value

VARIABLES flash, ram, ischanged,
          timer, notified,  \* the one-shot timer runs; the task is notified
          task, i,          \* nvTask: what it does next, with which parameter
          op, at            \* holder of the mutex over several steps, and
                            \* the parameter it has reached

\* History: the parameters set since the last factory reset, those of which
\* the last write to flash failed, and those flagged while no timer ran and
\* none could be started.
VARIABLES since, failed, unarmed

taskVars == <<timer, notified, task, i>>
vars == <<flash, ram, ischanged, taskVars, op, at, since, failed, unarmed>>

TypeOK ==
    /\ flash \in [Params -> Value \cup {Absent}]
    /\ ram \in [Params -> Value]
    /\ ischanged \in [Params -> BOOLEAN]
    /\ timer \in BOOLEAN /\ notified \in BOOLEAN
    /\ task \in {"wait", "look", "write"} /\ i \in Params
    /\ op \in {"none", "load", "reset"} /\ at \in Params
    /\ since \in SUBSET Params /\ failed \in SUBSET Params
    /\ unarmed \in SUBSET Params

\* The program starts, with nothing stored on its first start.
Init ==
    /\ flash = [p \in Params |-> Absent]
    /\ ram = [p \in Params |-> Zero]
    /\ ischanged = [p \in Params |-> FALSE]
    /\ timer = FALSE /\ notified = FALSE
    /\ task = "wait" /\ i = 1
    /\ op = "load" /\ at = 1
    /\ since = Params /\ failed = {} /\ unarmed = {}

MutexFree == op = "none"

-----------------------------------------------------------------------------
\* On to the next parameter; the mutex is released after the last.
Proceed == IF at = N THEN op' = "none" /\ at' = 1
                     ELSE at' = at + 1 /\ UNCHANGED op

\* Mutant: the RAM copy of no parameter is updated.
InitParamFlashOnly(p) ==
    \/ /\ flash' = [flash EXCEPT ![p] = Default]
       /\ UNCHANGED <<ram, failed>>
    \/ /\ failed' = failed \cup {p}
       /\ UNCHANGED <<flash, ram>>

\* initParam stores the default, and updates the RAM copy, but not that of a
\* string.  A write that fails leaves both.
InitParam(p) ==
    \/ /\ flash' = [flash EXCEPT ![p] = Default]
       /\ ram' = IF p \in Strings THEN ram ELSE [ram EXCEPT ![p] = Default]
       /\ UNCHANGED failed
    \/ /\ failed' = failed \cup {p}
       /\ UNCHANGED <<flash, ram>>

\* paramMgrParamsAdd, loadParamTable: one parameter.
Load ==
    /\ op = "load"
    /\ \/ flash[at] = Absent /\ InitParam(at)
       \/ /\ flash[at] # Absent
          /\ ram' = [ram EXCEPT ![at] = flash[at]]
          /\ UNCHANGED <<flash, failed>>
    /\ Proceed
    /\ UNCHANGED <<ischanged, taskVars, since, unarmed>>

\* paramMgrReset, resetConfig: all is erased...
ResetErase ==
    /\ MutexFree
    /\ flash' = [p \in Params |-> Absent]
    /\ op' = "reset"
    /\ since' = {}
    /\ UNCHANGED <<ram, ischanged, taskVars, at, failed, unarmed>>

\* ... and each parameter is given its default.
ResetInit ==
    /\ op = "reset"
    /\ InitParam(at)
    /\ Proceed
    /\ UNCHANGED <<ischanged, taskVars, since, unarmed>>

-----------------------------------------------------------------------------
\* xTimerReset does not wait for room in the queue of the timer service, and
\* its result is not looked at: the timer runs from now, or is as it was.
Arm(p) == \/ timer' = TRUE /\ unarmed' = {}
          \/ UNCHANGED timer /\ unarmed' = IF timer THEN unarmed ELSE unarmed \cup {p}

NoArm(p) == UNCHANGED timer /\ unarmed' = unarmed \ {p}

\* Mutants: the new value is compared with the RAM copy; the timer is left
\* alone.
SetComparesRam(p, v) ==
    /\ MutexFree
    /\ ram' = [ram EXCEPT ![p] = v]
    /\ ischanged' = [ischanged EXCEPT ![p] = ram[p] # v]
    /\ IF ram[p] # v THEN Arm(p) ELSE NoArm(p)
    /\ since' = since \cup {p} /\ failed' = failed \ {p}
    /\ UNCHANGED <<flash, notified, task, i, op, at>>

SetWithoutTimer(p, v) ==
    /\ MutexFree
    /\ ram' = [ram EXCEPT ![p] = v]
    /\ ischanged' = [ischanged EXCEPT ![p] = flash[p] # v]
    /\ NoArm(p)
    /\ since' = since \cup {p} /\ failed' = failed \ {p}
    /\ UNCHANGED <<flash, notified, task, i, op, at>>

\* paramMgrSetBool, SetU8, SetI32, SetU32, SetStr.  (A setter that waits 100 ms
\* for the mutex gives up and changes nothing.)
Set(p, v) ==
    /\ MutexFree
    /\ ram' = [ram EXCEPT ![p] = v]
    /\ ischanged' = [ischanged EXCEPT ![p] = flash[p] # v]
    /\ IF flash[p] # v THEN Arm(p) ELSE NoArm(p)
    /\ since' = since \cup {p} /\ failed' = failed \ {p}
    /\ UNCHANGED <<flash, notified, task, i, op, at>>

\* timerCallback
TimerFires ==
    /\ timer
    /\ timer' = FALSE /\ notified' = TRUE
    /\ UNCHANGED <<flash, ram, ischanged, task, i, op, at, since, failed, unarmed>>

-----------------------------------------------------------------------------
\* nvTask takes the notification and starts over from the first parameter.
Take ==
    /\ task = "wait" /\ notified
    /\ notified' = FALSE
    /\ task' = "look" /\ i' = 1
    /\ UNCHANGED <<flash, ram, ischanged, timer, op, at, since, failed, unarmed>>

\* The next parameter, or back to waiting after the last.
Next_i == IF i = N THEN task' = "wait" /\ i' = 1
                   ELSE task' = "look" /\ i' = i + 1

\* The flag is read without the mutex.
Look ==
    /\ task = "look"
    /\ IF ischanged[i] THEN task' = "write" /\ UNCHANGED i ELSE Next_i
    /\ UNCHANGED <<flash, ram, ischanged, timer, notified, op, at, since, failed, unarmed>>

\* Mutant: the task waits again after the first write.
WriteOne ==
    /\ task = "write" /\ MutexFree
    /\ flash' = [flash EXCEPT ![i] = ram[i]]
    /\ ischanged' = [ischanged EXCEPT ![i] = FALSE]
    /\ task' = "wait" /\ i' = 1
    /\ unarmed' = unarmed \ {i}
    /\ UNCHANGED <<ram, timer, notified, op, at, since, failed>>

\* The parameter is written; the flag is cleared even if the write fails.
Write ==
    /\ task = "write" /\ MutexFree
    /\ \/ flash' = [flash EXCEPT ![i] = ram[i]] /\ UNCHANGED failed
       \/ failed' = failed \cup {i} /\ UNCHANGED flash
    /\ ischanged' = [ischanged EXCEPT ![i] = FALSE]
    /\ unarmed' = unarmed \ {i}
    /\ Next_i
    /\ UNCHANGED <<ram, timer, notified, op, at, since>>

-----------------------------------------------------------------------------
\* Power is lost, or the program restarts: only the flash is left.
Restart ==
    /\ ram' = [p \in Params |-> Zero]
    /\ ischanged' = [p \in Params |-> FALSE]
    /\ timer' = FALSE /\ notified' = FALSE
    /\ task' = "wait" /\ i' = 1
    /\ op' = "load" /\ at' = 1
    /\ unarmed' = {}
    /\ UNCHANGED <<flash, since, failed>>

SetSome == \E p \in Params, v \in Value : Set(p, v)

Next == \/ Load \/ ResetErase \/ ResetInit
        \/ SetSome \/ TimerFires
        \/ Take \/ Look \/ Write
        \/ Restart

Spec == Init /\ [][Next]_vars

\* The holder of the mutex goes on, the timer expires, the task is scheduled.
Fairness == /\ WF_vars(Load \/ ResetInit) /\ WF_vars(TimerFires)
            /\ WF_vars(Take \/ Look) /\ SF_vars(Write)
FairSpec == Spec /\ Fairness

-----------------------------------------------------------------------------
\* The parameters that the loading or resetting loop has still to reach.
NotReached(p) == op # "none" /\ at <= p

\* No flagged parameter is forgotten: the timer runs, or the task is
\* notified, or it is on its way through the table and has not passed it.
\* The exception is a parameter for which the timer could not be started.
WriteScheduled ==
    \A p \in Params : ischanged[p] =>
        \/ p \in unarmed
        \/ timer \/ notified \/ (task # "wait" /\ i <= p)

\* A scalar whose copies differ is flagged for writing, whichever setter,
\* reset or write ran between the task's look at the flag and its write,
\* unless the flash has refused a write of it.
UnstoredIsFlagged ==
    \A p \in Scalars : ram[p] # flash[p] =>
        ischanged[p] \/ p \in failed \/ NotReached(p)

\* A factory reset lasts: no value from before it comes back to the flash of
\* a scalar by a write that was pending, or by a restart in the middle.
ResetLasts ==
    \A p \in Scalars \ (since \cup failed) : flash[p] \in {Default, Absent}

\* Once the setters, each of which restarts the timer, have stopped, every
\* pending write is carried out, unless the timer could not be started for it.
PendingIsWritten ==
    <>[][~SetSome]_vars =>
        \A p \in Params : ischanged[p] ~> (~ischanged[p] \/ p \in unarmed)

=============================================================================
