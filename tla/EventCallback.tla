---------------------------- MODULE EventCallback ----------------------------
(***************************************************************************)
(* The tables of callbacks (event_callback.c) and the tasks that share     *)
(* them.  A table is a linked list and a mutex, which eventNotify holds    *)
(* while it calls the functions, so that a function that goes on to        *)
(* another table is called with two mutexes held.                          *)
(*                                                                         *)
(* Three tables: of the framework, whose appFrwk (app_control.c) starts    *)
(* and stops the client of the gateway, of the control task and of a       *)
(* socket (emtr_drv.c).  The client registers with the last two when it    *)
(* starts (appPWApiStart) and its task unregisters when it stops; the      *)
(* provisioning task lives between its registration and its removal.       *)
(*                                                                         *)
(* What a task still has to do is a sequence of instructions, to which a   *)
(* call adds those of the function.  Memory does not run out.              *)
(***************************************************************************)
EXTENDS Naturals, Sequences, FiniteSets, Functions

CONSTANTS Entries,      \* the heap, numbers from 1 on
          MaxOps        \* bound: operations begun

ASSUME CallbackAssumption ==
    /\ 1..6 \subseteq Entries /\ Entries \subseteq Nat \ {0} /\ IsFiniteSet(Entries)
    /\ MaxOps \in Nat

VARIABLES head, tail,       \* of each table's list
          next, func,       \* of each entry
          owner,            \* of each table's mutex
          todo, event,      \* of each task; the event it notifies
          client, prov,     \* the gateway's client, the provisioning task
          ops               \* bound

lists == <<head, tail, next, func>>
evtVars == <<lists, owner, todo, event, client, prov, ops>>

Tables == {"framework", "control", "socket"}
Tasks == {"sys", "prov", "control", "meter", "client"}
Funcs == {"appFrwk", "lrProv", "appSys", "pwSys", "outlet", "pwSocket"}
Events == {"up", "down"}
Null == 0
Nobody == "nobody"

\* Instructions.
Do(what, t, arg) == [what |-> what, tab |-> t, arg |-> arg]
Instructions ==
    [what : {"take", "give", "first"}, tab : Tables, arg : {Null}]
      \cup [what : {"call", "after"}, tab : Tables, arg : Entries]
      \cup [what : {"add", "remove"}, tab : Tables, arg : Funcs]
      \cup [what : {"client", "prov"}, tab : {Nobody}, arg : {"on", "off"}]

EvtTypeOK ==
    /\ {head, tail} \subseteq [Tables -> Entries \cup {Null}]
    /\ next \in [Entries -> Entries \cup {Null}]
    /\ func \in [Entries -> Funcs \cup {"free"}]
    /\ owner \in [Tables -> Tasks \cup {Nobody}]
    /\ todo \in [Tasks -> Seq(Instructions)] /\ event \in [Tasks -> Events]
    /\ client \in {"off", "on", "stopping"} /\ prov \in {"off", "on", "freed"}
    /\ ops \in 0..MaxOps

(***************************************************************************)
(* The operations.                                                         *)
(***************************************************************************)
Locked(t, body) == <<Do("take", t, Null)>> \o body \o <<Do("give", t, Null)>>

Register(t, f) == Locked(t, <<Do("add", t, f)>>)
Unregister(t, f) == Locked(t, <<Do("remove", t, f)>>)

\* Mutant: the mutex is not held in the calls.
NotifyUnlocked(t) == Locked(t, <<>>) \o <<Do("first", t, Null)>>

Notify(t) == Locked(t, <<Do("first", t, Null)>>)

\* entry = head, entry = entry->next
Walk(t, e) == IF e = Null THEN <<>> ELSE <<Do("call", t, e)>>

StartClient == Register("control", "pwSys") \o Register("socket", "pwSocket")
                 \o <<Do("client", Nobody, "on")>>
StopClient == Unregister("control", "pwSys") \o Unregister("socket", "pwSocket")
                 \o <<Do("client", Nobody, "off")>>

\* Mutant: the control task's event is passed on to the framework's table.
BodyPassedOn(f, ev) ==
    CASE f = "appFrwk" /\ ev = "up" /\ client = "off" -> StartClient
      [] f = "appSys" -> Notify("framework")
      [] OTHER -> <<>>

\* What a function does with the tables; the others only post messages.
Body(f, ev) == IF f = "appFrwk" /\ ev = "up" /\ client = "off" THEN StartClient ELSE <<>>

(***************************************************************************)
(* The list.                                                               *)
(***************************************************************************)
\* The functions from entry e on, of at most n.
Chain[n \in 0..Cardinality(Entries)] ==
    [e \in Entries \cup {Null} |->
        IF n = 0 \/ e = Null THEN <<>> ELSE <<func[e]>> \o Chain[n - 1][next[e]]]
From(e) == Chain[Cardinality(Entries)][e]
Listed(t) == Range(From(head[t]))

Free == {e \in Entries : func[e] = "free"}

\* A function that is there already is refused.
Add(t, f) ==
    IF f \in Listed(t) THEN UNCHANGED lists
    ELSE \E e \in Free :
           /\ \A d \in Free : e <= d
           /\ func' = [func EXCEPT ![e] = f]
           /\ next' = [x \in Entries |-> IF x = e THEN Null
                                         ELSE IF head[t] # Null /\ x = tail[t] THEN e
                                         ELSE next[x]]
           /\ head' = [head EXCEPT ![t] = IF @ = Null THEN e ELSE @]
           /\ tail' = [tail EXCEPT ![t] = e]

EntryOf(t, f) == CHOOSE e \in Entries : func[e] = f /\ f \in Listed(t)
Before(t, e) == {p \in Entries : func[p] # "free" /\ next[p] = e}

\* Mutant: the tail stays at the entry that was freed.
RemoveKeepsTail(t, f) ==
    IF f \notin Listed(t) THEN UNCHANGED lists
    ELSE LET e == EntryOf(t, f)
         IN  /\ head' = [head EXCEPT ![t] = IF @ = e THEN next[e] ELSE @]
             /\ UNCHANGED tail
             /\ next' = [x \in Entries |-> IF x \in Before(t, e) THEN next[e]
                                           ELSE IF x = e THEN Null ELSE next[x]]
             /\ func' = [func EXCEPT ![e] = "free"]

Remove(t, f) ==
    IF f \notin Listed(t) THEN UNCHANGED lists
    ELSE LET e == EntryOf(t, f)
         IN  /\ head' = [head EXCEPT ![t] = IF @ = e THEN next[e] ELSE @]
             /\ tail' = [tail EXCEPT ![t] = IF @ # e THEN @
                                            ELSE IF Before(t, e) = {} THEN Null
                                            ELSE CHOOSE p \in Before(t, e) : TRUE]
             /\ next' = [x \in Entries |-> IF x \in Before(t, e) THEN next[e]
                                           ELSE IF x = e THEN Null ELSE next[x]]
             /\ func' = [func EXCEPT ![e] = "free"]

(***************************************************************************)
(* A step of task k, with Now(k) its next instruction.                     *)
(***************************************************************************)
Now(k) == Head(todo[k])
Goes(k, what) == todo[k] # <<>> /\ Now(k).what = what
Then(k, more) == todo' = [todo EXCEPT ![k] = more \o Tail(@)]
Same == UNCHANGED <<event, ops>>

Take(k) ==
    /\ Goes(k, "take") /\ owner[Now(k).tab] = Nobody
    /\ owner' = [owner EXCEPT ![Now(k).tab] = k]
    /\ Then(k, <<>>) /\ UNCHANGED <<lists, client, prov>> /\ Same

Give(k) ==
    /\ Goes(k, "give")
    /\ owner' = [owner EXCEPT ![Now(k).tab] = Nobody]
    /\ Then(k, <<>>) /\ UNCHANGED <<lists, client, prov>> /\ Same

First(k) ==
    /\ Goes(k, "first")
    /\ Then(k, Walk(Now(k).tab, head[Now(k).tab]))
    /\ UNCHANGED <<lists, owner, client, prov>> /\ Same

\* appFrwk also posts the stop of the client.
Call(k) ==
    /\ Goes(k, "call")
    /\ Then(k, Body(func[Now(k).arg], event[k]) \o <<Do("after", Now(k).tab, Now(k).arg)>>)
    /\ client' = IF func[Now(k).arg] = "appFrwk" /\ event[k] = "down" /\ client = "on"
                   THEN "stopping" ELSE client
    /\ UNCHANGED <<lists, owner, prov>> /\ Same

After(k) ==
    /\ Goes(k, "after")
    /\ Then(k, Walk(Now(k).tab, next[Now(k).arg]))
    /\ UNCHANGED <<lists, owner, client, prov>> /\ Same

Change(k) ==
    /\ \/ Goes(k, "add") /\ Add(Now(k).tab, Now(k).arg)
       \/ Goes(k, "remove") /\ Remove(Now(k).tab, Now(k).arg)
    /\ Then(k, <<>>) /\ UNCHANGED <<owner, client, prov>> /\ Same

Mark(k) ==
    /\ \/ Goes(k, "client") /\ client' = Now(k).arg /\ UNCHANGED prov
       \/ Goes(k, "prov") /\ prov' = Now(k).arg /\ UNCHANGED client
    /\ Then(k, <<>>) /\ UNCHANGED <<lists, owner>> /\ Same

Step(k) == Take(k) \/ Give(k) \/ First(k) \/ Call(k) \/ After(k) \/ Change(k) \/ Mark(k)

(***************************************************************************)
(* What the tasks begin.                                                   *)
(***************************************************************************)
Begin(k, program) ==
    /\ todo[k] = <<>> /\ ops > 0 /\ ops' = ops - 1
    /\ todo' = [todo EXCEPT ![k] = program]
    /\ UNCHANGED <<lists, owner, client, prov>>

Framework(k) == Begin(k, Notify("framework")) /\ \E ev \in Events : event' = [event EXCEPT ![k] = ev]

\* handleEventWiFi, handleEventIp; csLrProvStart.
SysBegins ==
    \/ Framework("sys")
    \/ /\ prov = "off" /\ UNCHANGED event
       /\ Begin("sys", Register("framework", "lrProv") \o <<Do("prov", Nobody, "on")>>)

\* provTask.
ProvBegins == prov = "on" /\ Framework("prov")

\* It frees what its function works on before it unregisters the function.
ProvFrees ==
    /\ prov = "on" /\ prov' = "freed"
    /\ todo["prov"] = <<>> /\ ops > 0 /\ ops' = ops - 1
    /\ todo' = [todo EXCEPT !["prov"] = Unregister("framework", "lrProv")
                                          \o <<Do("prov", Nobody, "off")>>]
    /\ UNCHANGED <<lists, owner, event, client>>

ControlBegins == Begin("control", Notify("control")) /\ UNCHANGED event
MeterBegins == Begin("meter", Notify("socket")) /\ UNCHANGED event

\* pwApiTask has taken the stop; nothing of this is refused.
ClientStops ==
    /\ client = "stopping" /\ todo["client"] = <<>>
    /\ todo' = [todo EXCEPT !["client"] = StopClient]
    /\ UNCHANGED <<lists, owner, event, client, prov, ops>>

\* The start-up is over: an entry for each function that stays.
EvtInit ==
    /\ head = [framework |-> 1, control |-> 2, socket |-> 3] /\ tail = head
    /\ func = [e \in Entries |-> CASE e = 1 -> "appFrwk" [] e = 2 -> "appSys"
                                   [] e = 3 -> "outlet" [] OTHER -> "free"]
    /\ next = [e \in Entries |-> Null]
    /\ owner = [t \in Tables |-> Nobody]
    /\ todo = [k \in Tasks |-> <<>>] /\ event = [k \in Tasks |-> "up"]
    /\ client = "off" /\ prov = "off" /\ ops = MaxOps

EvtNext == (\E k \in Tasks : Step(k)) \/ SysBegins \/ ProvBegins \/ ProvFrees
          \/ ControlBegins \/ MeterBegins \/ ClientStops

EvtSpec == EvtInit /\ [][EvtNext]_evtVars

(***************************************************************************)
(* What it has to do.                                                      *)
(***************************************************************************)
\* The calls that a task is in or about to make.
Running(k) == {n \in DOMAIN todo[k] : todo[k][n].what \in {"call", "after"}}

\* The rest of the notification of t: the function it is at and those after it.
PendingOf(t) ==
    LET at == IF owner[t] = Nobody THEN {}
              ELSE {n \in Running(owner[t]) : todo[owner[t]][n].tab = t}
    IN  IF at = {} THEN <<>> ELSE From(todo[owner[t]][CHOOSE n \in at : TRUE].arg)

\* The lists with their heads, tails and freed entries are tables of functions:
\* every function registered is called, in order, whoever registers, unregisters
\* and notifies at the same time.
Registry == INSTANCE EventRegistry WITH reg <- [t \in Tables |-> From(head[t])],
                                        pending <- [t \in Tables |-> PendingOf(t)]
ImplementsRegistry == Registry!Spec

\* Once the client has stopped nobody is in one of its functions, or will be.
\* (The provisioning task's function may still be called: see LrProv.PutFreed.)
Starting == \E k \in Tasks : \E n \in DOMAIN todo[k] : todo[k][n] = Do("client", Nobody, "on")
GoneIsNotCalled ==
    client = "off" /\ ~Starting =>
       \A k \in Tasks : \A n \in Running(k) : func[todo[k][n].arg] \notin {"pwSys", "pwSocket"}

\* Tasks that hold a mutex and take another one never wait for each other in a
\* circle: when the others have come to their ends there is always one that goes on.
GoesOn(k) == todo[k] # <<>> /\ (Now(k).what = "take" => owner[Now(k).tab] = Nobody)
NobodyIsStuck == (\E k \in Tasks : todo[k] # <<>>) => \E k \in Tasks : GoesOn(k)

=============================================================================
