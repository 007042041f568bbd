---------------------------- MODULE EventRegistry ----------------------------
(***************************************************************************)
(* What event_callback.c promises of a table of callbacks: each function is *)
(* registered once, a notification calls the functions that are registered *)
(* in the order in which they were, and nothing changes the table or       *)
(* notifies it again before the last of them has returned.                 *)
(***************************************************************************)
EXTENDS Sequences, Functions

CONSTANTS Tables, Funcs

VARIABLES reg,       \* the functions registered with each table
          pending    \* those the notification under way has yet to finish

vars == <<reg, pending>>

Init ==
    /\ reg \in [Tables -> Seq(Funcs)] /\ \A t \in Tables : IsInjective(reg[t])
    /\ pending = [t \in Tables |-> <<>>]

Register(t, f) ==
    /\ pending[t] = <<>> /\ f \notin Range(reg[t])
    /\ reg' = [reg EXCEPT ![t] = Append(@, f)]
    /\ UNCHANGED pending

Unregister(t, f) ==
    /\ pending[t] = <<>>
    /\ \E n \in DOMAIN reg[t] :
         /\ reg[t][n] = f
         /\ reg' = [reg EXCEPT ![t] = SubSeq(@, 1, n - 1) \o SubSeq(@, n + 1, Len(@))]
    /\ UNCHANGED pending

Notify(t) ==
    /\ pending[t] = <<>>
    /\ pending' = [pending EXCEPT ![t] = reg[t]]
    /\ UNCHANGED reg

Return(t) ==
    /\ pending[t] # <<>>
    /\ pending' = [pending EXCEPT ![t] = Tail(@)]
    /\ UNCHANGED reg

Next == \E t \in Tables : \/ \E f \in Funcs : Register(t, f) \/ Unregister(t, f)
                          \/ Notify(t) \/ Return(t)

Spec == Init /\ [][Next]_vars

=============================================================================
