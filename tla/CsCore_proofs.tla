--------------------------- MODULE CsCore_proofs ---------------------------
(***************************************************************************)
(* Proofs about two parts of cs-core: the tables of callbacks              *)
(* (event_callback.c, EventCallback) and the control task (cs_control.c,   *)
(* CsControl).                                                             *)
(*                                                                         *)
(* Of the tables, for every heap and any number of operations: the types,  *)
(* that nobody is stuck, that a function that was removed is not called    *)
(* any more, and that the linked lists implement EventRegistry.  All of it *)
(* follows from where the tasks are: each has the rest of one of five      *)
(* programs to do, and with the rest go the mutexes it holds and what the  *)
(* tables have in them.                                                    *)
(*                                                                         *)
(* Of the control task, for every length of the queue, timeout and number  *)
(* of disturbances: its invariants, and what it reports at a start.        *)
(***************************************************************************)
EXTENDS EventCallback, CsControl, SequenceTheorems, FiniteSetTheorems, WellFoundedInduction,
        TLAPS

(***************************************************************************)
(* The tables of callbacks.  Chain is defined by recursion on a number;    *)
(* that there is such a function follows from a smallest number for which  *)
(* there were none.                                                        *)
(***************************************************************************)
Link(h, nx, fn, n, e) ==
    IF n = 0 \/ e = Null THEN <<>> ELSE <<fn[e]>> \o h[n - 1][nx[e]]
Lists(h, nx, fn, m) ==
    h = [n \in 0..m |-> [e \in Entries \cup {Null} |-> Link(h, nx, fn, n, e)]]

\* The order of the numbers as a relation.
LEMMA LessIsPair == \A x, y \in Nat : x < y => <<x, y>> \in OpToRel(<, Nat)
BY Zenon DEF OpToRel

\* A set of numbers that is not empty has a smallest one.
LEMMA Smallest ==
  ASSUME NEW S, S \subseteq Nat, S # {}
  PROVE  \E k \in S : \A j \in S : ~(j < k)
<1>1. PICK k \in S : \A j \in S : ~(<<j, k>> \in OpToRel(<, Nat))
  BY NatLessThanWellFounded, WFMin, Zenon
<1> QED BY <1>1, LessIsPair

\* There is a function as Chain is defined.
LEMMA ListsExist ==
  ASSUME NEW nx \in [Entries -> Entries \cup {Null}], NEW fn, NEW m \in Nat
  PROVE  \E h : Lists(h, nx, fn, m)
<1> DEFINE S == {k \in Nat : ~\E h : Lists(h, nx, fn, k)}
<1> SUFFICES ASSUME S # {} PROVE FALSE
  OBVIOUS
<1>1. PICK k \in S : \A j \in S : ~(j < k)
  BY Smallest
<1> HIDE DEF S
<1>2. k \in Nat /\ ~\E h : Lists(h, nx, fn, k)
  BY DEF S
<1>3. CASE k = 0
  <2> DEFINE g == [n \in 0..0 |-> [e \in Entries \cup {Null} |-> <<>>]]
  <2>1. Lists(g, nx, fn, 0)
    BY DEF Lists, Link
  <2> QED BY <1>2, <1>3, <2>1
<1>4. CASE k # 0
  <2>1. k - 1 \in Nat /\ k - 1 < k
    BY <1>2, <1>4
  <2>2. PICK h : Lists(h, nx, fn, k - 1)
    BY <1>1, <2>1 DEF S
  <2> DEFINE g == [n \in 0..k |-> [e \in Entries \cup {Null} |-> Link(h, nx, fn, n, e)]]
  <2>3. ASSUME NEW n \in 0..k - 1 PROVE g[n] = h[n]
    <3>1. h[n] = [e \in Entries \cup {Null} |-> Link(h, nx, fn, n, e)]
      BY <2>2 DEF Lists
    <3>2. n \in 0..k
      BY <1>2, <2>1
    <3> QED BY <3>1, <3>2
  <2> HIDE DEF g
  <2>4. ASSUME NEW n \in 0..k, NEW e \in Entries \cup {Null}
        PROVE  Link(h, nx, fn, n, e) = Link(g, nx, fn, n, e)
    <3>1. CASE n = 0
      BY <3>1 DEF Link
    <3>2. CASE n # 0
      <4>1. n - 1 \in 0..k - 1
        BY <1>2, <2>1, <3>2
      <4> QED BY <2>3, <4>1 DEF Link
    <3> QED BY <3>1, <3>2
  <2>5. Lists(g, nx, fn, k)
    <3>1. [n \in 0..k |-> [e \in Entries \cup {Null} |-> Link(h, nx, fn, n, e)]]
            = [n \in 0..k |-> [e \in Entries \cup {Null} |-> Link(g, nx, fn, n, e)]]
      BY <2>4
    <3> QED BY <3>1 DEF Lists, g
  <2> QED BY <2>5, <1>2
<1> QED BY <1>2, <1>3, <1>4

\* The entries are numbers, at least those of the start-up, and none is Null.
LEMMA Heap ==
  /\ Cardinality(Entries) \in Nat /\ Cardinality(Entries) >= 2
  /\ Entries \subseteq Nat \ {0} /\ {1, 2, 3} \subseteq Entries /\ Null \notin Entries
<1>1. Entries \subseteq Nat \ {0} /\ 1..6 \subseteq Entries /\ IsFiniteSet(Entries)
  BY CallbackAssumption DEF CallbackAssumption
<1>2. Cardinality(Entries) \in Nat
  BY <1>1, FS_CardinalityType
<1>3. Cardinality(1..6) = 6
  <2>1. 1 \in Int /\ 6 \in Int /\ ~(1 > 6) /\ 6 - 1 + 1 = 6
    OBVIOUS
  <2>2. Cardinality(1..6) = IF 1 > 6 THEN 0 ELSE 6 - 1 + 1
    BY <2>1, FS_Interval, Zenon
  <2> QED BY <2>1, <2>2, Zenon
<1>4. Cardinality(1..6) <= Cardinality(Entries)
  BY <1>1, FS_Subset
<1> QED BY <1>1, <1>2, <1>3, <1>4 DEF Null

\* One element before another.
LEMMA Pair == \A a, b : <<a>> \o <<b>> = <<a, b>>
<1> SUFFICES ASSUME NEW a, NEW b PROVE <<a>> \o <<b>> = <<a, b>>
  OBVIOUS
<1>1. <<a>> \in Seq({a, b}) /\ <<b>> \in Seq({a, b}) /\ <<a, b>> \in Seq({a, b})
  OBVIOUS
<1>2. /\ Len(<<a>> \o <<b>>) = 2 /\ <<a>> \o <<b>> \in Seq({a, b})
      /\ (<<a>> \o <<b>>)[1] = a /\ (<<a>> \o <<b>>)[2] = b
  BY <1>1, ConcatProperties
<1>3. /\ Len(<<a, b>>) = 2 /\ <<a, b>>[1] = a /\ <<a, b>>[2] = b
      /\ \A n \in 1..2 : n = 1 \/ n = 2
  OBVIOUS
<1> QED BY <1>1, <1>2, <1>3, SeqEqual

\* Lists of no, one and two entries.
LEMMA ShortLists ==
  ASSUME NEW h, NEW nx, NEW fn, NEW m \in Nat, m >= 2, Lists(h, nx, fn, m), Null \notin Entries
  PROVE  /\ h[m][Null] = <<>>
         /\ \A e \in Entries : nx[e] = Null => h[m][e] = <<fn[e]>>
         /\ \A e, d \in Entries : nx[e] = d /\ nx[d] = Null => h[m][e] = <<fn[e], fn[d]>>
<1>1. \A n \in 0..m, e \in Entries \cup {Null} : h[n][e] = Link(h, nx, fn, n, e)
  BY DEF Lists
<1>2. m \in 0..m /\ m - 1 \in 0..m /\ m - 1 - 1 \in 0..m /\ m # 0 /\ m - 1 # 0
  OBVIOUS
<1>3. \A n \in 0..m : h[n][Null] = <<>>
  BY <1>1 DEF Link
<1>4. ASSUME NEW n \in 0..m, n # 0, n - 1 \in 0..m, NEW e \in Entries, nx[e] = Null
      PROVE  h[n][e] = <<fn[e]>>
  <2>1. h[n][e] = <<fn[e]>> \o h[n - 1][Null]
    BY <1>1, <1>4 DEF Link
  <2>2. h[n - 1][Null] = <<>>
    BY <1>3, <1>4
  <2> QED BY <2>1, <2>2
<1>5. ASSUME NEW e \in Entries, NEW d \in Entries, nx[e] = d, nx[d] = Null
      PROVE  h[m][e] = <<fn[e], fn[d]>>
  <2>1. h[m][e] = <<fn[e]>> \o h[m - 1][d]
    BY <1>1, <1>2, <1>5 DEF Link
  <2>2. h[m - 1][d] = <<fn[d]>>
    <3> DEFINE n == m - 1
    <3>1. n \in 0..m /\ n # 0 /\ n - 1 \in 0..m
      BY <1>2
    <3> HIDE DEF n
    <3>2. h[n][d] = <<fn[d]>>
      BY <1>4, <1>5, <3>1
    <3> QED BY <3>2 DEF n
  <2> QED BY <2>1, <2>2, Pair
<1> QED BY <1>2, <1>3, <1>4, <1>5

ChainsAre ==
    next \in [Entries -> Entries \cup {Null}] =>
      /\ From(Null) = <<>>
      /\ \A e \in Entries : next[e] = Null => From(e) = <<func[e]>>
      /\ \A e, d \in Entries : next[e] = d /\ next[d] = Null => From(e) = <<func[e], func[d]>>

\* What From gives for no, one and two entries.
LEMMA Chains == ChainsAre
<1> SUFFICES ASSUME next \in [Entries -> Entries \cup {Null}] PROVE ChainsAre
  BY DEF ChainsAre
<1>1. \E h : Lists(h, next, func, Cardinality(Entries))
  BY Heap, ListsExist
<1>2. Lists(Chain, next, func, Cardinality(Entries))
  BY <1>1, Zenon DEF Chain, Lists, Link
<1> HIDE DEF Chain
<1>3. /\ Chain[Cardinality(Entries)][Null] = <<>>
      /\ \A e \in Entries : next[e] = Null => Chain[Cardinality(Entries)][e] = <<func[e]>>
      /\ \A e, d \in Entries : next[e] = d /\ next[d] = Null =>
            Chain[Cardinality(Entries)][e] = <<func[e], func[d]>>
  BY <1>2, Heap, ShortLists
<1> QED BY <1>3, Zenon DEF ChainsAre, From

\* The same after a step.
LEMMA ChainsNext == ChainsAre'
BY Chains, PTL

(***************************************************************************)
(* Where the tasks are.  Each table has an entry that stays and at times a *)
(* second one, its guest.  A task has the rest of one of five programs to  *)
(* do: a notification, the start of the client inside one, its stop, the   *)
(* arrival of the provisioning task and its leaving.  With each rest go    *)
(* the mutexes held at it; the guests are there as far as the programs     *)
(* have come.                                                              *)
(***************************************************************************)
KeptAt == [framework |-> 1, control |-> 2, socket |-> 3]
Keeper == [framework |-> "appFrwk", control |-> "appSys", socket |-> "outlet"]
Guest == [framework |-> "lrProv", control |-> "pwSys", socket |-> "pwSocket"]

Alone(t) ==
    /\ head[t] = KeptAt[t] /\ tail[t] = KeptAt[t] /\ next[KeptAt[t]] = Null
    /\ \A e \in Entries : func[e] # Guest[t]
Joined(t, e) ==
    /\ head[t] = KeptAt[t] /\ tail[t] = e /\ next[KeptAt[t]] = e /\ next[e] = Null
    /\ \A d \in Entries : func[d] = Guest[t] <=> d = e
HasGuest(t) == \E e \in Entries : Joined(t, e)
GuestIff(t, b) == IF b THEN HasGuest(t) ELSE Alone(t)
Keepers ==
    /\ \A t \in Tables : func[KeptAt[t]] = Keeper[t]
    /\ \A e \in Entries \ 1..3 : func[e] \notin {"appFrwk", "appSys", "outlet"}

Rest(P, n) == SubSeq(P, n, Len(P))
Start == (StartClient \o <<Do("after", "framework", 1)>>) \o <<Do("give", "framework", Null)>>
Join == Register("framework", "lrProv") \o <<Do("prov", Nobody, "on")>>
Leave == Unregister("framework", "lrProv") \o <<Do("prov", Nobody, "off")>>

Holds(k, H) == \A t \in Tables : owner[t] = k <=> t \in H
At(k, s, H) == todo[k] = s /\ Holds(k, H)
Resting(k) == At(k, <<>>, {})
Visit(what, t, e) == <<Do(what, t, e), Do("give", t, Null)>>
InList(t, e) == e = KeptAt[t] \/ Joined(t, e)
Notifying(k, t) ==
    \/ At(k, Notify(t), {})
    \/ \E n \in 2..3 : At(k, Rest(Notify(t), n), {t})
    \/ \E e \in Entries, what \in {"call", "after"} : InList(t, e) /\ At(k, Visit(what, t, e), {t})
Inner(n) == IF n \in {2, 3} THEN {"control"} ELSE IF n \in {5, 6} THEN {"socket"} ELSE {}
Outer(n) == IF n \in {2, 3} THEN {"framework"} ELSE {}
StartsAt(k, n) == At(k, Rest(Start, n), {"framework"} \cup Inner(n))
StopsAt(n) == At("client", Rest(StopClient, n), Inner(n))
JoinsAt(n) == At("sys", Rest(Join, n), Outer(n))
LeavesAt(n) == At("prov", Rest(Leave, n), Outer(n))
Outside(k) == Resting(k) \/ Notifying(k, "framework")
Busy(k) == Outside(k) \/ \E n \in 1..7 : StartsAt(k, n)
Calm(k) == \/ Outside(k)
           \/ k = "sys" /\ \E n \in 1..4 : JoinsAt(n)
           \/ k = "prov" /\ \E n \in 1..4 : LeavesAt(n)

\* The provisioning task and its function.
ProvAway == prov = "off" /\ Resting("prov") /\ Busy("sys") /\ Alone("framework")
ProvJoins(n) ==
    prov = "off" /\ Resting("prov") /\ JoinsAt(n) /\ GuestIff("framework", n > 2)
ProvHere == prov = "on" /\ Busy("sys") /\ Busy("prov") /\ HasGuest("framework")
ProvLeaves(n) ==
    prov = "freed" /\ Busy("sys") /\ LeavesAt(n) /\ GuestIff("framework", n <= 2)
ProvPhase == ProvAway \/ ProvHere \/ \E n \in 1..4 : ProvJoins(n) \/ ProvLeaves(n)

\* The client, whose start is within a call by one of the two tasks.
Callers == {"sys", "prov"}
ClientOff ==
    /\ client = "off" /\ Resting("client") /\ \A j \in Callers : Calm(j)
    /\ Alone("control") /\ Alone("socket")
ClientStarting(k, n) ==
    /\ client = "off" /\ Resting("client") /\ StartsAt(k, n)
    /\ \A j \in Callers \ {k} : Calm(j)
    /\ GuestIff("control", n > 2) /\ GuestIff("socket", n > 5)
ClientOn ==
    /\ client \in {"on", "stopping"} /\ Resting("client") /\ \A j \in Callers : Calm(j)
    /\ HasGuest("control") /\ HasGuest("socket")
ClientStopping(n) ==
    /\ client = "stopping" /\ StopsAt(n) /\ \A j \in Callers : Calm(j)
    /\ GuestIff("control", n <= 2) /\ GuestIff("socket", n <= 5)
ClientPhase ==
    \/ ClientOff \/ ClientOn
    \/ \E n \in 1..7 : ClientStopping(n) \/ \E k \in Callers : ClientStarting(k, n)

OwnPlaces ==
    /\ Resting("control") \/ Notifying("control", "control")
    /\ Resting("meter") \/ Notifying("meter", "socket")
EvtInv == EvtTypeOK /\ Keepers /\ OwnPlaces /\ ProvPhase /\ ClientPhase

-----------------------------------------------------------------------------
\* What is left of a program.
LEMMA RestOf ==
  ASSUME NEW P \in Seq(Instructions), NEW n \in 1..Len(P)
  PROVE  /\ Rest(P, n) \in Seq(Instructions) /\ Rest(P, n) # <<>>
         /\ Head(Rest(P, n)) = P[n] /\ Tail(Rest(P, n)) = Rest(P, n + 1)
         /\ <<>> \o Tail(Rest(P, n)) = Rest(P, n + 1)
<1>1. /\ Rest(P, n) \in Seq(Instructions) /\ Len(Rest(P, n)) = Len(P) - n + 1
      /\ \A j \in 1..Len(P) - n + 1 : Rest(P, n)[j] = P[n + j - 1]
  BY SubSeqProperties DEF Rest
<1>2. /\ Rest(P, n) # <<>> /\ Head(Rest(P, n)) = P[n]
      /\ Tail(Rest(P, n)) \in Seq(Instructions) /\ Len(Tail(Rest(P, n))) = Len(P) - n
      /\ \A j \in 1..Len(P) - n : Tail(Rest(P, n))[j] = P[n + j]
  BY <1>1, HeadTailProperties
<1>3. /\ Rest(P, n + 1) \in Seq(Instructions) /\ Len(Rest(P, n + 1)) = Len(P) - n
      /\ \A j \in 1..Len(P) - n : Rest(P, n + 1)[j] = P[n + j]
  BY SubSeqProperties DEF Rest
<1>4. Tail(Rest(P, n)) = Rest(P, n + 1)
  BY <1>2, <1>3, SeqEqual
<1>5. <<>> \o Tail(Rest(P, n)) = Tail(Rest(P, n))
  BY <1>2, ConcatEmptySeq
<1> QED BY <1>1, <1>2, <1>4, <1>5

\* The rest from the first instruction on is the program, that behind the last is empty.
LEMMA WholeAndNothing ==
  ASSUME NEW P \in Seq(Instructions)
  PROVE  Rest(P, 1) = P /\ Rest(P, Len(P) + 1) = <<>>
BY SubSeqProperties, SeqEqual DEF Rest

\* Every instruction of the programs is one.
LEMMA InstructionType ==
  /\ \A t \in Tables : \A w \in {"take", "give", "first"} : Do(w, t, Null) \in Instructions
  /\ \A t \in Tables : \A w \in {"call", "after"}, e \in Entries : Do(w, t, e) \in Instructions
  /\ \A t \in Tables : \A w \in {"add", "remove"}, f \in Funcs : Do(w, t, f) \in Instructions
  /\ \A w \in {"client", "prov"}, a \in {"on", "off"} : Do(w, Nobody, a) \in Instructions
BY DEF Instructions, Do

\* Two programs, one behind the other.
LEMMA Spliced ==
  ASSUME NEW s \in Seq(Instructions), NEW r \in Seq(Instructions)
  PROVE  /\ s \o r \in Seq(Instructions) /\ Len(s \o r) = Len(s) + Len(r)
         /\ \A n \in 1..Len(s) : (s \o r)[n] = s[n]
         /\ \A n \in 1..Len(r) : (s \o r)[Len(s) + n] = r[n]
<1>1. /\ s \o r \in Seq(Instructions) /\ Len(s \o r) = Len(s) + Len(r)
      /\ \A n \in 1..Len(s) + Len(r) : (s \o r)[n] = IF n <= Len(s) THEN s[n] ELSE r[n - Len(s)]
  BY ConcatProperties
<1>2. Len(s) \in Nat /\ Len(r) \in Nat
  BY LenProperties
<1>3. \A n \in 1..Len(r) : (s \o r)[Len(s) + n] = r[n]
  <2> TAKE n \in 1..Len(r)
  <2>1. Len(s) + n \in 1..Len(s) + Len(r) /\ ~(Len(s) + n <= Len(s)) /\ Len(s) + n - Len(s) = n
    BY <1>2
  <2> QED BY <1>1, <2>1
<1>4. \A n \in 1..Len(s) : n \in 1..Len(s) + Len(r) /\ n <= Len(s)
  BY <1>2
<1> QED BY <1>1, <1>3, <1>4

\* An operation within the mutex of its table.
LEMMA LockedCode ==
  ASSUME NEW t \in Tables, NEW x \in Instructions
  PROVE  /\ Locked(t, <<x>>) \in Seq(Instructions) /\ Len(Locked(t, <<x>>)) = 3
         /\ Locked(t, <<x>>)[1] = Do("take", t, Null) /\ Locked(t, <<x>>)[2] = x
         /\ Locked(t, <<x>>)[3] = Do("give", t, Null)
<1> DEFINE a == <<Do("take", t, Null)>>
           b == <<x>>
           c == <<Do("give", t, Null)>>
<1>1. /\ a \in Seq(Instructions) /\ b \in Seq(Instructions) /\ c \in Seq(Instructions)
      /\ Len(a) = 1 /\ Len(b) = 1 /\ Len(c) = 1
      /\ a[1] = Do("take", t, Null) /\ b[1] = x /\ c[1] = Do("give", t, Null)
  BY InstructionType
<1> HIDE DEF a, b, c
<1>2. /\ a \o b \in Seq(Instructions) /\ Len(a \o b) = 2
      /\ (a \o b)[1] = a[1] /\ (a \o b)[2] = b[1]
  <2>1. /\ a \o b \in Seq(Instructions) /\ Len(a \o b) = Len(a) + Len(b)
        /\ \A n \in 1..Len(a) : (a \o b)[n] = a[n]
        /\ \A n \in 1..Len(b) : (a \o b)[Len(a) + n] = b[n]
    BY <1>1, Spliced
  <2>2. (a \o b)[Len(a) + 1] = b[1] /\ (a \o b)[1] = a[1]
    BY <1>1, <2>1
  <2> QED BY <1>1, <2>1, <2>2
<1>3. /\ (a \o b) \o c \in Seq(Instructions) /\ Len((a \o b) \o c) = 3
      /\ ((a \o b) \o c)[1] = a[1] /\ ((a \o b) \o c)[2] = b[1] /\ ((a \o b) \o c)[3] = c[1]
  <2> DEFINE d == a \o b
  <2> HIDE DEF d
  <2>1. d \in Seq(Instructions) /\ Len(d) = 2 /\ d[1] = a[1] /\ d[2] = b[1]
    BY <1>2 DEF d
  <2>2. /\ d \o c \in Seq(Instructions) /\ Len(d \o c) = Len(d) + Len(c)
        /\ \A n \in 1..Len(d) : (d \o c)[n] = d[n]
        /\ \A n \in 1..Len(c) : (d \o c)[Len(d) + n] = c[n]
    BY <1>1, <2>1, Spliced
  <2>3. (d \o c)[Len(d) + 1] = c[1] /\ (d \o c)[1] = d[1] /\ (d \o c)[2] = d[2]
    BY <1>1, <2>1, <2>2
  <2> QED BY <1>1, <2>1, <2>2, <2>3 DEF d
<1>4. Locked(t, <<x>>) = (a \o b) \o c
  BY DEF Locked, a, b, c
<1> QED BY <1>1, <1>3, <1>4

\* One instruction more.
LEMMA OneMore ==
  ASSUME NEW s \in Seq(Instructions), NEW x \in Instructions
  PROVE  /\ s \o <<x>> \in Seq(Instructions) /\ Len(s \o <<x>>) = Len(s) + 1
         /\ \A n \in 1..Len(s) + 1 : (s \o <<x>>)[n] = IF n = Len(s) + 1 THEN x ELSE s[n]
<1> DEFINE r == <<x>>
<1>1. r \in Seq(Instructions) /\ Len(r) = 1 /\ r[1] = x /\ Len(s) \in Nat
  OBVIOUS
<1> HIDE DEF r
<1>2. /\ s \o r \in Seq(Instructions) /\ Len(s \o r) = Len(s) + Len(r)
      /\ \A n \in 1..Len(s) + Len(r) : (s \o r)[n] = IF n <= Len(s) THEN s[n] ELSE r[n - Len(s)]
  BY <1>1, ConcatProperties
<1>3. \A n \in 1..Len(s) + 1 : (s \o r)[n] = IF n = Len(s) + 1 THEN x ELSE s[n]
  <2> TAKE n \in 1..Len(s) + 1
  <2>1. CASE n = Len(s) + 1
    <3>1. n \in 1..Len(s) + Len(r) /\ ~(n <= Len(s)) /\ n - Len(s) = 1
      BY <1>1, <2>1
    <3> QED BY <1>1, <1>2, <2>1, <3>1
  <2>2. CASE n # Len(s) + 1
    <3>1. n \in 1..Len(s) + Len(r) /\ n <= Len(s)
      BY <1>1, <2>2
    <3> QED BY <1>2, <2>2, <3>1
  <2> QED BY <2>1, <2>2
<1> QED BY <1>1, <1>2, <1>3 DEF r

\* Two operations, one behind the other.
LEMMA ThreeAndThree ==
  ASSUME NEW s \in Seq(Instructions), NEW r \in Seq(Instructions), Len(s) = 3, Len(r) = 3
  PROVE  /\ s \o r \in Seq(Instructions) /\ Len(s \o r) = 6
         /\ (s \o r)[1] = s[1] /\ (s \o r)[2] = s[2] /\ (s \o r)[3] = s[3]
         /\ (s \o r)[4] = r[1] /\ (s \o r)[5] = r[2] /\ (s \o r)[6] = r[3]
<1>1. /\ s \o r \in Seq(Instructions) /\ Len(s \o r) = Len(s) + Len(r)
      /\ \A n \in 1..Len(s) : (s \o r)[n] = s[n]
      /\ \A n \in 1..Len(r) : (s \o r)[Len(s) + n] = r[n]
  BY Spliced
<1>2. \A n \in {1, 2, 3} : n \in 1..Len(s) /\ n \in 1..Len(r)
  OBVIOUS
<1>3. /\ (s \o r)[Len(s) + 1] = r[1] /\ (s \o r)[Len(s) + 2] = r[2]
      /\ (s \o r)[Len(s) + 3] = r[3]
  BY <1>1, <1>2
<1> QED BY <1>1, <1>2, <1>3

\* The programs, instruction by instruction.
LEMMA NotifyCode ==
  ASSUME NEW t \in Tables
  PROVE  /\ Notify(t) \in Seq(Instructions) /\ Len(Notify(t)) = 3
         /\ Notify(t)[1] = Do("take", t, Null) /\ Notify(t)[2] = Do("first", t, Null)
         /\ Notify(t)[3] = Do("give", t, Null)
BY LockedCode, InstructionType DEF Notify

\* A registration and a removal.
LEMMA RegisterCode ==
  ASSUME NEW t \in Tables, NEW f \in Funcs
  PROVE  /\ Register(t, f) \in Seq(Instructions) /\ Len(Register(t, f)) = 3
         /\ Register(t, f)[1] = Do("take", t, Null) /\ Register(t, f)[2] = Do("add", t, f)
         /\ Register(t, f)[3] = Do("give", t, Null)
         /\ Unregister(t, f) \in Seq(Instructions) /\ Len(Unregister(t, f)) = 3
         /\ Unregister(t, f)[1] = Do("take", t, Null) /\ Unregister(t, f)[2] = Do("remove", t, f)
         /\ Unregister(t, f)[3] = Do("give", t, Null)
BY LockedCode, InstructionType DEF Register, Unregister

Names == {"pwSys", "pwSocket", "lrProv"} \subseteq Funcs /\ Tables = {"framework", "control", "socket"}
\* The functions and tables that the programs name.
LEMMA NamesType == Names
BY DEF Names, Funcs, Tables

\* One operation and a mark.
LEMMA CallAndMark ==
  ASSUME NEW s \in Seq(Instructions), Len(s) = 3, NEW x \in Instructions
  PROVE  /\ s \o <<x>> \in Seq(Instructions) /\ Len(s \o <<x>>) = 4
         /\ (s \o <<x>>)[1] = s[1] /\ (s \o <<x>>)[2] = s[2] /\ (s \o <<x>>)[3] = s[3]
         /\ (s \o <<x>>)[4] = x
<1>1. /\ s \o <<x>> \in Seq(Instructions) /\ Len(s \o <<x>>) = Len(s) + 1
      /\ \A n \in 1..Len(s) + 1 : (s \o <<x>>)[n] = IF n = Len(s) + 1 THEN x ELSE s[n]
  BY OneMore
<1> QED BY <1>1

\* The arrival of the provisioning task.
LEMMA JoinCode ==
  /\ Join \in Seq(Instructions) /\ Len(Join) = 4
  /\ Join[1] = Do("take", "framework", Null) /\ Join[2] = Do("add", "framework", "lrProv")
  /\ Join[3] = Do("give", "framework", Null) /\ Join[4] = Do("prov", Nobody, "on")
<1> DEFINE s == Register("framework", "lrProv")
           x == Do("prov", Nobody, "on")
<1>1. /\ s \in Seq(Instructions) /\ Len(s) = 3 /\ s[1] = Do("take", "framework", Null)
      /\ s[2] = Do("add", "framework", "lrProv") /\ s[3] = Do("give", "framework", Null)
  BY RegisterCode, NamesType DEF Names
<1>2. x \in Instructions
  BY InstructionType
<1> HIDE DEF s, x
<1>3. /\ s \o <<x>> \in Seq(Instructions) /\ Len(s \o <<x>>) = 4 /\ (s \o <<x>>)[4] = x
      /\ (s \o <<x>>)[1] = s[1] /\ (s \o <<x>>)[2] = s[2] /\ (s \o <<x>>)[3] = s[3]
  BY <1>1, <1>2, CallAndMark
<1> QED BY <1>1, <1>3 DEF Join, s, x

\* Its leaving.
LEMMA LeaveCode ==
  /\ Leave \in Seq(Instructions) /\ Len(Leave) = 4
  /\ Leave[1] = Do("take", "framework", Null) /\ Leave[2] = Do("remove", "framework", "lrProv")
  /\ Leave[3] = Do("give", "framework", Null) /\ Leave[4] = Do("prov", Nobody, "off")
<1> DEFINE s == Unregister("framework", "lrProv")
           x == Do("prov", Nobody, "off")
<1>1. /\ s \in Seq(Instructions) /\ Len(s) = 3 /\ s[1] = Do("take", "framework", Null)
      /\ s[2] = Do("remove", "framework", "lrProv") /\ s[3] = Do("give", "framework", Null)
  BY RegisterCode, NamesType DEF Names
<1>2. x \in Instructions
  BY InstructionType
<1> HIDE DEF s, x
<1>3. /\ s \o <<x>> \in Seq(Instructions) /\ Len(s \o <<x>>) = 4 /\ (s \o <<x>>)[4] = x
      /\ (s \o <<x>>)[1] = s[1] /\ (s \o <<x>>)[2] = s[2] /\ (s \o <<x>>)[3] = s[3]
  BY <1>1, <1>2, CallAndMark
<1> QED BY <1>1, <1>3 DEF Leave, s, x

\* Two calls of the same kind and a mark.
LEMMA TwoCalls ==
  ASSUME NEW s \in Seq(Instructions), NEW r \in Seq(Instructions), Len(s) = 3, Len(r) = 3,
         NEW x \in Instructions
  PROVE  LET P == (s \o r) \o <<x>>
         IN
         /\ P \in Seq(Instructions) /\ Len(P) = 7
         /\ P[1] = s[1] /\ P[2] = s[2] /\ P[3] = s[3]
         /\ P[4] = r[1] /\ P[5] = r[2] /\ P[6] = r[3] /\ P[7] = x
<1> DEFINE q == s \o r
<1>1. /\ q \in Seq(Instructions) /\ Len(q) = 6
      /\ q[1] = s[1] /\ q[2] = s[2] /\ q[3] = s[3]
      /\ q[4] = r[1] /\ q[5] = r[2] /\ q[6] = r[3]
  BY ThreeAndThree
<1> HIDE DEF q
<1>2. /\ q \o <<x>> \in Seq(Instructions) /\ Len(q \o <<x>>) = Len(q) + 1
      /\ \A n \in 1..Len(q) + 1 : (q \o <<x>>)[n] = IF n = Len(q) + 1 THEN x ELSE q[n]
  BY <1>1, OneMore
<1>3. /\ (q \o <<x>>)[1] = q[1] /\ (q \o <<x>>)[2] = q[2] /\ (q \o <<x>>)[3] = q[3]
      /\ (q \o <<x>>)[4] = q[4] /\ (q \o <<x>>)[5] = q[5] /\ (q \o <<x>>)[6] = q[6]
      /\ (q \o <<x>>)[7] = x /\ Len(q \o <<x>>) = 7
  BY <1>1, <1>2
<1> QED BY <1>1, <1>2, <1>3 DEF q

\* What appFrwk does to start the client.
LEMMA StartClientCode ==
  /\ StartClient \in Seq(Instructions) /\ Len(StartClient) = 7
  /\ StartClient[1] = Do("take", "control", Null) /\ StartClient[2] = Do("add", "control", "pwSys")
  /\ StartClient[3] = Do("give", "control", Null) /\ StartClient[4] = Do("take", "socket", Null)
  /\ StartClient[5] = Do("add", "socket", "pwSocket") /\ StartClient[6] = Do("give", "socket", Null)
  /\ StartClient[7] = Do("client", Nobody, "on")
<1> DEFINE s == Register("control", "pwSys")
           r == Register("socket", "pwSocket")
           x == Do("client", Nobody, "on")
<1>1. /\ s \in Seq(Instructions) /\ Len(s) = 3 /\ s[1] = Do("take", "control", Null)
      /\ s[2] = Do("add", "control", "pwSys") /\ s[3] = Do("give", "control", Null)
  BY RegisterCode, NamesType DEF Names
<1>2. /\ r \in Seq(Instructions) /\ Len(r) = 3 /\ r[1] = Do("take", "socket", Null)
      /\ r[2] = Do("add", "socket", "pwSocket") /\ r[3] = Do("give", "socket", Null)
  BY RegisterCode, NamesType DEF Names
<1>3. x \in Instructions /\ StartClient = (s \o r) \o <<x>>
  BY InstructionType DEF StartClient
<1> HIDE DEF s, r, x
<1>4. /\ StartClient \in Seq(Instructions) /\ Len(StartClient) = 7
      /\ StartClient[1] = s[1] /\ StartClient[2] = s[2] /\ StartClient[3] = s[3]
      /\ StartClient[4] = r[1] /\ StartClient[5] = r[2] /\ StartClient[6] = r[3]
      /\ StartClient[7] = x
  BY <1>1, <1>2, <1>3, TwoCalls
<1> QED BY <1>1, <1>2, <1>4 DEF x

\* What the client does at its stop.
LEMMA StopClientCode ==
  /\ StopClient \in Seq(Instructions) /\ Len(StopClient) = 7
  /\ StopClient[1] = Do("take", "control", Null) /\ StopClient[2] = Do("remove", "control", "pwSys")
  /\ StopClient[3] = Do("give", "control", Null) /\ StopClient[4] = Do("take", "socket", Null)
  /\ StopClient[5] = Do("remove", "socket", "pwSocket") /\ StopClient[6] = Do("give", "socket", Null)
  /\ StopClient[7] = Do("client", Nobody, "off")
<1> DEFINE s == Unregister("control", "pwSys")
           r == Unregister("socket", "pwSocket")
           x == Do("client", Nobody, "off")
<1>1. /\ s \in Seq(Instructions) /\ Len(s) = 3 /\ s[1] = Do("take", "control", Null)
      /\ s[2] = Do("remove", "control", "pwSys") /\ s[3] = Do("give", "control", Null)
  BY RegisterCode, NamesType DEF Names
<1>2. /\ r \in Seq(Instructions) /\ Len(r) = 3 /\ r[1] = Do("take", "socket", Null)
      /\ r[2] = Do("remove", "socket", "pwSocket") /\ r[3] = Do("give", "socket", Null)
  BY RegisterCode, NamesType DEF Names
<1>3. x \in Instructions /\ StopClient = (s \o r) \o <<x>>
  BY InstructionType DEF StopClient
<1> HIDE DEF s, r, x
<1>4. /\ StopClient \in Seq(Instructions) /\ Len(StopClient) = 7
      /\ StopClient[1] = s[1] /\ StopClient[2] = s[2] /\ StopClient[3] = s[3]
      /\ StopClient[4] = r[1] /\ StopClient[5] = r[2] /\ StopClient[6] = r[3]
      /\ StopClient[7] = x
  BY <1>1, <1>2, <1>3, TwoCalls
<1> QED BY <1>1, <1>2, <1>4 DEF x

\* The rest at the last instruction.
LEMMA LastRest ==
  ASSUME NEW P \in Seq(Instructions), P # <<>>
  PROVE  Rest(P, Len(P)) = <<P[Len(P)]>>
<1> DEFINE n == Len(P)
           R == Rest(P, n)
<1>1. n \in Nat /\ n >= 1 /\ P[n] \in Instructions
  BY EmptySeq, LenProperties
<1>2. R = SubSeq(P, n, n)
  BY DEF Rest
<1> HIDE DEF n, R
<1>3. /\ SubSeq(P, n, n) \in Seq(Instructions) /\ Len(SubSeq(P, n, n)) = 1
      /\ SubSeq(P, n, n)[1] = P[n]
  BY <1>1, SubSeqProperties DEF n
<1>4. <<P[n]>> \in Seq(Instructions) /\ Len(<<P[n]>>) = 1 /\ <<P[n]>>[1] = P[n]
  BY <1>1
<1>5. R = <<P[n]>>
  BY <1>2, <1>3, <1>4, SeqEqual, \A k \in 1..1 : k = 1
<1> QED BY <1>5 DEF R, n

\* The rest at the last but one.
LEMMA LastTwo ==
  ASSUME NEW P \in Seq(Instructions), NEW n \in Nat \ {0}, Len(P) = n + 1
  PROVE  Rest(P, n) = <<P[n], P[n + 1]>>
<1> DEFINE R == Rest(P, n)
           a == P[n]
           b == P[n + 1]
<1>1. a \in Instructions /\ b \in Instructions
  BY ElementOfSeq
<1>2. R \in Seq(Instructions) /\ Len(R) = n + 1 - n + 1 /\ \A j \in 1..n + 1 - n + 1 : R[j] = P[n + j - 1]
  BY SubSeqProperties DEF Rest
<1>3. R[1] = a /\ R[2] = b /\ Len(R) = 2
  <2>1. 1 \in 1..n + 1 - n + 1 /\ 2 \in 1..n + 1 - n + 1 /\ n + 1 - 1 = n /\ n + 2 - 1 = n + 1
    OBVIOUS
  <2> QED BY <1>2, <2>1
<1> HIDE DEF R, a, b
<1>4. /\ <<a, b>> \in Seq(Instructions) /\ Len(<<a, b>>) = 2 /\ <<a, b>>[1] = a
      /\ <<a, b>>[2] = b /\ \A j \in 1..2 : j = 1 \/ j = 2
  BY <1>1
<1>5. R = <<a, b>>
  BY <1>2, <1>3, <1>4, SeqEqual
<1> QED BY <1>5 DEF R, a, b

\* A visit to an entry, with what follows of the notification.
LEMMA VisitCode ==
  ASSUME NEW t \in Tables, NEW e \in Entries, NEW w \in {"call", "after"}
  PROVE  /\ Visit(w, t, e) \in Seq(Instructions) /\ Len(Visit(w, t, e)) = 2
         /\ Visit(w, t, e)[1] = Do(w, t, e) /\ Visit(w, t, e)[2] = Do("give", t, Null)
         /\ Rest(Notify(t), 3) = <<Do("give", t, Null)>>
         /\ Visit(w, t, e) # <<>> /\ Head(Visit(w, t, e)) = Do(w, t, e)
         /\ Tail(Visit(w, t, e)) = Rest(Notify(t), 3)
         /\ <<Do(w, t, e)>> \o Rest(Notify(t), 3) = Visit(w, t, e)
<1> DEFINE x == Do(w, t, e)
           g == Do("give", t, Null)
<1>1. x \in Instructions /\ g \in Instructions /\ Visit(w, t, e) = <<x, g>>
  BY InstructionType DEF Visit
<1> HIDE DEF x, g
<1>2. <<x, g>> \in Seq(Instructions) /\ Len(<<x, g>>) = 2 /\ <<x, g>>[1] = x /\ <<x, g>>[2] = g
  BY <1>1
<1>3. Rest(Notify(t), 3) = <<g>>
  <2>1. Notify(t) \in Seq(Instructions) /\ Len(Notify(t)) = 3 /\ Notify(t)[3] = g
    BY NotifyCode DEF g
  <2> QED BY <2>1, LastRest
<1>4. Rest(<<x, g>>, 2) = <<g>>
  BY <1>2, LastRest
<1>5. Visit(w, t, e) # <<>> /\ Head(<<x, g>>) = x /\ Tail(<<x, g>>) = Rest(<<x, g>>, 2)
  <2> DEFINE v == <<x, g>>
             n == 1
  <2>0. Rest(v, 1) = v
    BY <1>2, WholeAndNothing, Zenon
  <2>1. n \in 1..Len(v) /\ Rest(v, n) = v /\ n + 1 = 2 /\ v[n] = x /\ v \in Seq(Instructions)
    BY <1>2, <2>0
  <2>2. Visit(w, t, e) = v
    BY <1>1
  <2> HIDE DEF v, n
  <2>3. Rest(v, n) # <<>> /\ Head(Rest(v, n)) = v[n] /\ Tail(Rest(v, n)) = Rest(v, n + 1)
    BY <2>1, RestOf
  <2>4. Visit(w, t, e) # <<>> /\ Head(v) = x /\ Tail(v) = Rest(v, 2)
    BY <2>1, <2>2, <2>3
  <2> QED BY <2>4 DEF v
<1> QED BY <1>1, <1>2, <1>3, <1>4, <1>5, Pair DEF x, g

\* The start of the client with what follows of the notification it is in.
LEMMA StartCode ==
  /\ Start \in Seq(Instructions) /\ Len(Start) = 9
  /\ \A n \in 1..7 : Start[n] = StartClient[n]
  /\ Start[8] = Do("after", "framework", 1) /\ Start[9] = Do("give", "framework", Null)
  /\ Rest(Start, 8) = Visit("after", "framework", 1)
<1> DEFINE a == Do("after", "framework", 1)
           g == Do("give", "framework", Null)
           s == StartClient \o <<a>>
<1>1. a \in Instructions /\ g \in Instructions /\ Start = s \o <<g>>
  BY InstructionType, Heap DEF Start, Tables
<1> HIDE DEF a, g
<1>2. /\ s \in Seq(Instructions) /\ Len(s) = Len(StartClient) + 1
      /\ \A n \in 1..Len(StartClient) + 1 :
            s[n] = IF n = Len(StartClient) + 1 THEN a ELSE StartClient[n]
  BY <1>1, OneMore, StartClientCode
<1>3. Len(s) = 8 /\ s[8] = a /\ \A n \in 1..7 : s[n] = StartClient[n]
  BY <1>2, StartClientCode
<1> HIDE DEF s
<1>4. /\ s \o <<g>> \in Seq(Instructions) /\ Len(s \o <<g>>) = Len(s) + 1
      /\ \A n \in 1..Len(s) + 1 : (s \o <<g>>)[n] = IF n = Len(s) + 1 THEN g ELSE s[n]
  BY <1>1, <1>2, OneMore
<1>5. /\ Start \in Seq(Instructions) /\ Len(Start) = 9 /\ Start[8] = a /\ Start[9] = g
      /\ \A n \in 1..7 : Start[n] = StartClient[n]
  BY <1>1, <1>3, <1>4
<1>6. Rest(Start, 8) = <<a, g>>
  <2> DEFINE n == 8
  <2>1. n \in Nat \ {0} /\ Len(Start) = n + 1 /\ Start[n] = a /\ Start[n + 1] = g
    BY <1>5
  <2> HIDE DEF n
  <2>2. Rest(Start, n) = <<Start[n], Start[n + 1]>>
    BY <1>5, <2>1, LastTwo
  <2> QED BY <2>1, <2>2 DEF n
<1> QED BY <1>5, <1>6 DEF Visit, a, g

-----------------------------------------------------------------------------
\* What a step of task k does, by its instruction.
ToDo(k, s) == todo' = [todo EXCEPT ![k] = s]

\* An instruction that adds none leaves the rest behind it.
LEMMA NothingBefore ==
  ASSUME EvtTypeOK, NEW k \in Tasks, todo[k] # <<>>
  PROVE  <<>> \o Tail(todo[k]) = Tail(todo[k])
<1>1. Tail(todo[k]) \in Seq(Instructions)
  BY HeadTailProperties DEF EvtTypeOK
<1> QED BY <1>1, ConcatEmptySeq

\* Taking a mutex.
LEMMA TakeEffect ==
  ASSUME EvtTypeOK, NEW k \in Tasks, Step(k), NEW t,
         Now(k) = Do("take", t, Null)
  PROVE  UNCHANGED <<event, ops>> /\ UNCHANGED lists /\ UNCHANGED client /\ UNCHANGED prov
         /\ ToDo(k, Tail(todo[k])) /\ owner[t] = Nobody /\ owner' = [owner EXCEPT ![t] = k]
<1>1. Now(k).what = "take" /\ Now(k).tab = t /\ Now(k).arg = Null
  BY DEF Do
<1>2. Take(k) /\ todo[k] # <<>>
  BY <1>1 DEF Step, Take, Give, First, Call, After, Change, Mark, Goes
<1>3. <<>> \o Tail(todo[k]) = Tail(todo[k])
  BY <1>2, NothingBefore
<1> QED BY <1>1, <1>2, <1>3 DEF Take, Goes, Then, ToDo, Same

\* Giving it back.
LEMMA GiveEffect ==
  ASSUME EvtTypeOK, NEW k \in Tasks, Step(k), NEW t,
         Now(k) = Do("give", t, Null)
  PROVE  UNCHANGED <<event, ops>> /\ UNCHANGED lists /\ UNCHANGED client /\ UNCHANGED prov
         /\ ToDo(k, Tail(todo[k])) /\ owner' = [owner EXCEPT ![t] = Nobody]
<1>1. Now(k).what = "give" /\ Now(k).tab = t /\ Now(k).arg = Null
  BY DEF Do
<1>2. Give(k) /\ todo[k] # <<>>
  BY <1>1 DEF Step, Take, Give, First, Call, After, Change, Mark, Goes
<1>3. <<>> \o Tail(todo[k]) = Tail(todo[k])
  BY <1>2, NothingBefore
<1> QED BY <1>1, <1>2, <1>3 DEF Give, Goes, Then, ToDo, Same

\* Adding to a list.
LEMMA AddEffect ==
  ASSUME EvtTypeOK, NEW k \in Tasks, Step(k), NEW t, NEW f,
         Now(k) = Do("add", t, f)
  PROVE  UNCHANGED <<event, ops>> /\ UNCHANGED owner /\ UNCHANGED client /\ UNCHANGED prov
         /\ ToDo(k, Tail(todo[k])) /\ Add(t, f)
<1>1. Now(k).what = "add" /\ Now(k).tab = t /\ Now(k).arg = f
  BY DEF Do
<1>2. Change(k) /\ todo[k] # <<>>
  BY <1>1 DEF Step, Take, Give, First, Call, After, Change, Mark, Goes
<1>3. <<>> \o Tail(todo[k]) = Tail(todo[k])
  BY <1>2, NothingBefore
<1> QED BY <1>1, <1>2, <1>3 DEF Change, Goes, Then, ToDo, Same

\* Removing from a list.
LEMMA RemoveEffect ==
  ASSUME EvtTypeOK, NEW k \in Tasks, Step(k), NEW t, NEW f,
         Now(k) = Do("remove", t, f)
  PROVE  UNCHANGED <<event, ops>> /\ UNCHANGED owner /\ UNCHANGED client /\ UNCHANGED prov
         /\ ToDo(k, Tail(todo[k])) /\ Remove(t, f)
<1>1. Now(k).what = "remove" /\ Now(k).tab = t /\ Now(k).arg = f
  BY DEF Do
<1>2. Change(k) /\ todo[k] # <<>>
  BY <1>1 DEF Step, Take, Give, First, Call, After, Change, Mark, Goes
<1>3. <<>> \o Tail(todo[k]) = Tail(todo[k])
  BY <1>2, NothingBefore
<1> QED BY <1>1, <1>2, <1>3 DEF Change, Goes, Then, ToDo, Same

\* Marking the client.
LEMMA ClientEffect ==
  ASSUME EvtTypeOK, NEW k \in Tasks, Step(k), NEW a, Now(k) = Do("client", Nobody, a)
  PROVE  UNCHANGED <<event, ops>> /\ UNCHANGED owner /\ UNCHANGED lists /\ UNCHANGED prov
         /\ ToDo(k, Tail(todo[k])) /\ client' = a
<1>1. Now(k).what = "client" /\ Now(k).arg = a
  BY DEF Do
<1>2. Mark(k) /\ todo[k] # <<>>
  BY <1>1 DEF Step, Take, Give, First, Call, After, Change, Mark, Goes
<1>3. <<>> \o Tail(todo[k]) = Tail(todo[k])
  BY <1>2, NothingBefore
<1> QED BY <1>1, <1>2, <1>3 DEF Mark, Goes, Then, ToDo, Same

\* Marking the provisioning task.
LEMMA ProvEffect ==
  ASSUME EvtTypeOK, NEW k \in Tasks, Step(k), NEW a, Now(k) = Do("prov", Nobody, a)
  PROVE  UNCHANGED <<event, ops>> /\ UNCHANGED owner /\ UNCHANGED lists /\ UNCHANGED client
         /\ ToDo(k, Tail(todo[k])) /\ prov' = a
<1>1. Now(k).what = "prov" /\ Now(k).arg = a
  BY DEF Do
<1>2. Mark(k) /\ todo[k] # <<>>
  BY <1>1 DEF Step, Take, Give, First, Call, After, Change, Mark, Goes
<1>3. <<>> \o Tail(todo[k]) = Tail(todo[k])
  BY <1>2, NothingBefore
<1> QED BY <1>1, <1>2, <1>3 DEF Mark, Goes, Then, ToDo, Same

\* Going to the head of a list.
LEMMA FirstEffect ==
  ASSUME EvtTypeOK, NEW k \in Tasks, Step(k), NEW t,
         Now(k) = Do("first", t, Null)
  PROVE  UNCHANGED <<event, ops>> /\ UNCHANGED lists /\ UNCHANGED client /\ UNCHANGED prov
         /\ UNCHANGED owner
         /\ ToDo(k, Walk(t, head[t]) \o Tail(todo[k]))
<1>1. Now(k).what = "first" /\ Now(k).tab = t /\ Now(k).arg = Null
  BY DEF Do
<1>2. First(k) /\ todo[k] # <<>>
  BY <1>1 DEF Step, Take, Give, First, Call, After, Change, Mark, Goes
<1>3. <<>> \o Tail(todo[k]) = Tail(todo[k])
  BY <1>2, NothingBefore
<1> QED BY <1>1, <1>2, <1>3 DEF First, Goes, Then, ToDo, Same

\* Going to the next entry.
LEMMA AfterEffect ==
  ASSUME EvtTypeOK, NEW k \in Tasks, Step(k), NEW t, NEW e,
         Now(k) = Do("after", t, e)
  PROVE  UNCHANGED <<event, ops>> /\ UNCHANGED lists /\ UNCHANGED client /\ UNCHANGED prov
         /\ UNCHANGED owner
         /\ ToDo(k, Walk(t, next[e]) \o Tail(todo[k]))
<1>1. Now(k).what = "after" /\ Now(k).tab = t /\ Now(k).arg = e
  BY DEF Do
<1>2. After(k) /\ todo[k] # <<>>
  BY <1>1 DEF Step, Take, Give, First, Call, After, Change, Mark, Goes
<1>3. <<>> \o Tail(todo[k]) = Tail(todo[k])
  BY <1>2, NothingBefore
<1> QED BY <1>1, <1>2, <1>3 DEF After, Goes, Then, ToDo, Same

\* Calling a function.
LEMMA CallEffect ==
  ASSUME EvtTypeOK, NEW k \in Tasks, Step(k), NEW t, NEW e,
         Now(k) = Do("call", t, e)
  PROVE  UNCHANGED <<event, ops>> /\ UNCHANGED lists /\ UNCHANGED prov /\ UNCHANGED owner
         /\ ToDo(k, (Body(func[e], event[k]) \o <<Do("after", t, e)>>) \o Tail(todo[k]))
         /\ client' = IF func[e] = "appFrwk" /\ event[k] = "down" /\ client = "on"
                       THEN "stopping" ELSE client
<1>1. Now(k).what = "call" /\ Now(k).tab = t /\ Now(k).arg = e
  BY DEF Do
<1>2. Call(k) /\ todo[k] # <<>>
  BY <1>1 DEF Step, Take, Give, First, Call, After, Change, Mark, Goes
<1>3. <<>> \o Tail(todo[k]) = Tail(todo[k])
  BY <1>2, NothingBefore
<1> QED BY <1>1, <1>2, <1>3 DEF Call, Goes, Then, ToDo, Same

\* The other tasks go on as they are when a task changes only the lists it
\* holds the mutex of.
Kept(t) == (Alone(t) => Alone(t)') /\ \A e \in Entries : Joined(t, e) => Joined(t, e)'
OwnMove(k) ==
    /\ \A j \in Tasks \ {k} : todo'[j] = todo[j] /\ \A t \in Tables : owner'[t] = j <=> owner[t] = j
    /\ \A t \in Tables : owner[t] # k => Kept(t)

\* A task that takes no step stays where it is.
LEMMA Others ==
  ASSUME NEW k \in Tasks, NEW j \in Tasks \ {k}, OwnMove(k)
  PROVE  /\ \A s, H : At(j, s, H) => At(j, s, H)'
         /\ Resting(j) => Resting(j)'
         /\ \A t \in Tables : Notifying(j, t) => Notifying(j, t)'
         /\ \A n : StartsAt(j, n) => StartsAt(j, n)'
         /\ \A n : JoinsAt(n) /\ j = "sys" => JoinsAt(n)'
         /\ \A n : LeavesAt(n) /\ j = "prov" => LeavesAt(n)'
         /\ \A n : StopsAt(n) /\ j = "client" => StopsAt(n)'
<1>1. \A s, H : At(j, s, H) => At(j, s, H)'
  BY DEF OwnMove, At, Holds
<1>2. Resting(j) => Resting(j)'
  BY <1>1 DEF Resting
<1>3. ASSUME NEW t \in Tables, Notifying(j, t) PROVE Notifying(j, t)'
  <2>1. CASE At(j, Notify(t), {})
    BY <1>1, <2>1 DEF Notifying
  <2>2. CASE \E n \in 2..3 : At(j, Rest(Notify(t), n), {t})
    BY <1>1, <2>2 DEF Notifying
  <2>3. ASSUME NEW e \in Entries, NEW what \in {"call", "after"}, InList(t, e),
               At(j, Visit(what, t, e), {t})
        PROVE  Notifying(j, t)'
    <3>1. owner[t] # k
      BY <2>3 DEF At, Holds
    <3>2. InList(t, e)'
      BY <2>3, <3>1 DEF InList, OwnMove, Kept
    <3> QED BY <1>1, <2>3, <3>2 DEF Notifying
  <2> QED BY <1>3, <2>1, <2>2, <2>3 DEF Notifying
<1>4. \A n : StartsAt(j, n) => StartsAt(j, n)'
  BY <1>1 DEF StartsAt
<1>5. \A n : JoinsAt(n) /\ j = "sys" => JoinsAt(n)'
  BY <1>1 DEF JoinsAt
<1>6. \A n : LeavesAt(n) /\ j = "prov" => LeavesAt(n)'
  BY <1>1 DEF LeavesAt
<1>7. \A n : StopsAt(n) /\ j = "client" => StopsAt(n)'
  BY <1>1 DEF StopsAt
<1> QED BY <1>1, <1>2, <1>3, <1>4, <1>5, <1>6, <1>7

-----------------------------------------------------------------------------
\* The lists, in the two forms they have.
Shaped == \A t \in Tables : Alone(t) \/ HasGuest(t)

\* The entries that stay and the functions of the tables are apart.
LEMMA Places ==
  /\ \A t \in Tables : KeptAt[t] \in {1, 2, 3} /\ KeptAt[t] \in Entries
  /\ \A t \in Tables : \A s \in Tables : KeptAt[t] = KeptAt[s] => t = s
  /\ \A t \in Tables : \A s \in Tables : Guest[t] = Guest[s] => t = s
  /\ \A t \in Tables : \A s \in Tables : Keeper[t] # Guest[s]
  /\ \A t \in Tables : Guest[t] \in Funcs /\ Keeper[t] \in Funcs
  /\ \A t \in Tables : Guest[t] # "free" /\ Keeper[t] # "free"
BY Heap DEF KeptAt, Keeper, Guest, Tables, Funcs

FormsAre ==
    EvtTypeOK /\ Keepers =>
      /\ \A t \in Tables : Alone(t) => From(head[t]) = <<Keeper[t]>>
      /\ \A t \in Tables, e \in Entries : Joined(t, e) =>
            From(head[t]) = <<Keeper[t], Guest[t]>> /\ From(e) = <<Guest[t]>>

\* The functions of a list, by its form.
LEMMA Forms == FormsAre
<1> SUFFICES ASSUME EvtTypeOK, Keepers PROVE FormsAre
  BY DEF FormsAre
<1>1. /\ \A e \in Entries : next[e] = Null => From(e) = <<func[e]>>
      /\ \A e, d \in Entries : next[e] = d /\ next[d] = Null => From(e) = <<func[e], func[d]>>
  BY Chains DEF EvtTypeOK, ChainsAre
<1>2. ASSUME NEW t \in Tables, Alone(t) PROVE From(head[t]) = <<Keeper[t]>>
  BY <1>1, <1>2, Places DEF Alone, Keepers
<1>3. ASSUME NEW t \in Tables, NEW e \in Entries, Joined(t, e)
      PROVE  From(head[t]) = <<Keeper[t], Guest[t]>> /\ From(e) = <<Guest[t]>>
  BY <1>1, <1>3, Places DEF Joined, Keepers
<1> QED BY <1>2, <1>3 DEF FormsAre

\* The same after a step.
LEMMA FormsNext == FormsAre'
BY Forms, PTL

\* An entry is free or it is one of those.
LEMMA Used ==
  ASSUME EvtTypeOK, Keepers, Shaped, NEW p \in Entries, func[p] # "free"
  PROVE  \E t \in Tables : p = KeptAt[t] \/ Joined(t, p)
<1>1. CASE p \in {1, 2, 3}
  BY <1>1 DEF KeptAt, Tables
<1>2. CASE p \notin {1, 2, 3}
  <2>1. func[p] \in {"lrProv", "pwSys", "pwSocket"}
    <3>1. p \in Entries \ 1..3 /\ func[p] \in Funcs
      BY <1>2, Heap DEF EvtTypeOK
    <3> QED BY <3>1 DEF Keepers, Funcs
  <2>2. PICK t \in Tables : func[p] = Guest[t]
    BY <2>1 DEF Guest, Tables
  <2>3. HasGuest(t)
    BY <2>2 DEF Shaped, Alone
  <2> QED BY <2>2, <2>3 DEF HasGuest, Joined
<1> QED BY <1>1, <1>2

\* The guest is added behind the entry that stays; the other lists keep their form.
LEMMA AddMoves ==
  ASSUME EvtTypeOK, Keepers, NEW t \in Tables, Alone(t), Add(t, Guest[t])
  PROVE  /\ HasGuest(t)' /\ Keepers' /\ \A s \in Tables \ {t} : Kept(s)
         /\ head' \in [Tables -> Entries \cup {Null}] /\ tail' \in [Tables -> Entries \cup {Null}]
         /\ next' \in [Entries -> Entries \cup {Null}]
         /\ func' \in [Entries -> Funcs \cup {"free"}]
<1> DEFINE k == KeptAt[t]
           f == Guest[t]
<1>1. f \notin Listed(t)
  <2>1. From(head[t]) = <<Keeper[t]>>
    BY Forms DEF FormsAre
  <2>2. f # Keeper[t]
    BY Places
  <2> QED BY <2>1, <2>2 DEF Listed, Range
<1>2. k \in Entries /\ func[k] = Keeper[t] /\ head[t] = k /\ tail[t] = k /\ k # Null
  BY Places, Heap DEF Alone, Keepers
<1>3. PICK e \in Free :
        /\ func' = [func EXCEPT ![e] = f]
        /\ next' = [x \in Entries |-> IF x = e THEN Null
                                      ELSE IF head[t] # Null /\ x = tail[t] THEN e ELSE next[x]]
        /\ head' = [head EXCEPT ![t] = IF @ = Null THEN e ELSE @]
        /\ tail' = [tail EXCEPT ![t] = e]
  BY <1>1 DEF Add
<1>4. e \in Entries /\ func[e] = "free" /\ \A s \in Tables : e # KeptAt[s]
  BY Places DEF Free, Keepers
<1>5. f \in Funcs /\ f # "free" /\ \A s \in Tables : f # Keeper[s]
  BY Places
<1>6. /\ head' = head /\ tail' = [tail EXCEPT ![t] = e] /\ func' = [func EXCEPT ![e] = f]
      /\ next' = [x \in Entries |-> IF x = e THEN Null ELSE IF x = k THEN e ELSE next[x]]
  BY <1>2, <1>3 DEF EvtTypeOK
<1> HIDE DEF k, f
<1>7. Joined(t, e)'
  BY <1>2, <1>4, <1>6 DEF Joined, Alone, EvtTypeOK, k, f
<1>8. Keepers'
  <2>1. \A s \in Tables : func'[KeptAt[s]] = Keeper[s]
    BY <1>4, <1>6, Places DEF Keepers, EvtTypeOK
  <2>2. \A d \in Entries \ 1..3 : func'[d] \notin {"appFrwk", "appSys", "outlet"}
    <3>1. f \notin {"appFrwk", "appSys", "outlet"}
      BY DEF f, Guest, Tables
    <3> QED BY <1>4, <1>6, <3>1 DEF Keepers, EvtTypeOK
  <2> QED BY <2>1, <2>2 DEF Keepers
<1>9. ASSUME NEW s \in Tables \ {t} PROVE Kept(s)
  <2>1. KeptAt[s] \in Entries /\ KeptAt[s] # k /\ KeptAt[s] # e /\ Guest[s] # f /\ Guest[s] # "free"
    BY <1>4, Places DEF k, f
  <2>2. head'[s] = head[s] /\ tail'[s] = tail[s] /\ next'[KeptAt[s]] = next[KeptAt[s]]
    BY <1>6, <2>1 DEF EvtTypeOK
  <2>3. \A d \in Entries : func'[d] = Guest[s] <=> func[d] = Guest[s]
    BY <1>4, <1>6, <2>1 DEF EvtTypeOK
  <2>4. \A d \in Entries : func[d] = Guest[s] => next'[d] = next[d]
    <3> SUFFICES ASSUME NEW d \in Entries, func[d] = Guest[s] PROVE next'[d] = next[d]
      OBVIOUS
    <3>1. d # e /\ d # k
      BY <1>2, <1>4, <2>1, Places
    <3> QED BY <1>6, <3>1
  <2> QED BY <2>2, <2>3, <2>4 DEF Kept, Alone, Joined
<1>10. /\ head' \in [Tables -> Entries \cup {Null}] /\ tail' \in [Tables -> Entries \cup {Null}]
       /\ next' \in [Entries -> Entries \cup {Null}] /\ func' \in [Entries -> Funcs \cup {"free"}]
  BY <1>4, <1>5, <1>6 DEF EvtTypeOK
<1> QED BY <1>4, <1>7, <1>8, <1>9, <1>10 DEF HasGuest

\* The guest is removed and its entry freed; the other lists keep their form.
LEMMA RemoveMoves ==
  ASSUME EvtTypeOK, Keepers, Shaped, NEW t \in Tables, HasGuest(t), Remove(t, Guest[t])
  PROVE  /\ Alone(t)' /\ Keepers' /\ \A s \in Tables \ {t} : Kept(s)
         /\ head' \in [Tables -> Entries \cup {Null}] /\ tail' \in [Tables -> Entries \cup {Null}]
         /\ next' \in [Entries -> Entries \cup {Null}]
         /\ func' \in [Entries -> Funcs \cup {"free"}]
<1> DEFINE k == KeptAt[t]
           f == Guest[t]
<1>1. PICK e \in Entries : Joined(t, e)
  BY DEF HasGuest
<1>2. f \in Listed(t)
  <2>1. From(head[t]) = <<Keeper[t], f>>
    BY <1>1, Forms DEF FormsAre
  <2> QED BY <2>1 DEF Listed, Range
<1>3. /\ k \in Entries /\ func[k] = Keeper[t] /\ f # Keeper[t] /\ f # "free" /\ Keeper[t] # "free"
      /\ e # Null /\ k # e
  BY <1>1, Places, Heap DEF Joined, Keepers
<1>4. EntryOf(t, f) = e
  BY <1>1, <1>2 DEF EntryOf, Joined
<1>5. Before(t, e) = {k}
  <2>1. k \in Before(t, e)
    BY <1>1, <1>3 DEF Before, Joined
  <2>2. ASSUME NEW p \in Before(t, e) PROVE p = k
    <3>1. p \in Entries /\ func[p] # "free" /\ next[p] = e
      BY <2>2 DEF Before
    <3>2. PICK s \in Tables : p = KeptAt[s] \/ Joined(s, p)
      BY <3>1, Used
    <3>3. p = KeptAt[s]
      BY <1>3, <3>1, <3>2 DEF Joined
    <3>4. Joined(s, e)
      BY <1>3, <3>1, <3>3 DEF Shaped, Alone, HasGuest, Joined
    <3>5. s = t
      BY <1>1, <3>4, Places DEF Joined
    <3> QED BY <3>3, <3>5
  <2> QED BY <2>1, <2>2
<1>6. /\ next[e] = Null /\ head[t] = k /\ tail[t] = e
      /\ \A d \in Entries : func[d] = f <=> d = e
  BY <1>1 DEF Joined
<1> HIDE DEF k, f
<1>7. /\ head' = [head EXCEPT ![t] = IF @ = e THEN next[e] ELSE @]
      /\ tail' = [tail EXCEPT ![t] = IF @ # e THEN @
                                     ELSE IF {k} = {} THEN Null ELSE CHOOSE p \in {k} : TRUE]
      /\ next' = [x \in Entries |-> IF x \in {k} THEN next[e] ELSE IF x = e THEN Null ELSE next[x]]
      /\ func' = [func EXCEPT ![e] = "free"]
  BY <1>2, <1>4, <1>5 DEF Remove, f
<1>8. /\ head' = head /\ tail' = [tail EXCEPT ![t] = k] /\ func' = [func EXCEPT ![e] = "free"]
      /\ next' = [x \in Entries |-> IF x = k \/ x = e THEN Null ELSE next[x]]
  BY <1>3, <1>6, <1>7 DEF EvtTypeOK
<1>9. Alone(t)'
  BY <1>3, <1>6, <1>8 DEF Alone, EvtTypeOK, k, f
<1>10. \A s \in Tables : KeptAt[s] \in Entries /\ KeptAt[s] # e
  BY <1>3, <1>6, Places DEF Keepers, f
<1>11. Keepers'
  <2>1. \A s \in Tables : func'[KeptAt[s]] = Keeper[s]
    BY <1>8, <1>10 DEF Keepers, EvtTypeOK
  <2>2. \A d \in Entries \ 1..3 : func'[d] \notin {"appFrwk", "appSys", "outlet"}
    BY <1>8 DEF Keepers, EvtTypeOK
  <2> QED BY <2>1, <2>2 DEF Keepers
<1>12. ASSUME NEW s \in Tables \ {t} PROVE Kept(s)
  <2>1. KeptAt[s] \in Entries /\ KeptAt[s] # k /\ KeptAt[s] # e /\ Guest[s] # f /\ Guest[s] # "free"
    BY <1>10, Places DEF k, f
  <2>2. head'[s] = head[s] /\ tail'[s] = tail[s] /\ next'[KeptAt[s]] = next[KeptAt[s]]
    BY <1>8, <2>1 DEF EvtTypeOK
  <2>3. \A d \in Entries : func'[d] = Guest[s] <=> func[d] = Guest[s]
    BY <1>6, <1>8, <2>1 DEF EvtTypeOK
  <2>4. \A d \in Entries : func[d] = Guest[s] => next'[d] = next[d]
    <3> SUFFICES ASSUME NEW d \in Entries, func[d] = Guest[s] PROVE next'[d] = next[d]
      OBVIOUS
    <3>1. d # e /\ d # k
      BY <1>3, <1>6, <2>1, Places
    <3> QED BY <1>8, <3>1
  <2> QED BY <2>2, <2>3, <2>4 DEF Kept, Alone, Joined
<1>13. /\ head' \in [Tables -> Entries \cup {Null}] /\ tail' \in [Tables -> Entries \cup {Null}]
       /\ next' \in [Entries -> Entries \cup {Null}] /\ func' \in [Entries -> Funcs \cup {"free"}]
  BY <1>3, <1>8 DEF EvtTypeOK
<1> QED BY <1>9, <1>11, <1>12, <1>13

-----------------------------------------------------------------------------
\* The steps of a task that is at a place.
Quiet == UNCHANGED <<lists, prov, event, ops>>

\* Nobody is not a task.
LEMMA TaskNames == Nobody \notin Tasks
BY DEF Nobody, Tasks

\* The type of the tasks' variables after a step, by that of the lists.
LEMMA MoveType ==
  ASSUME EvtTypeOK, NEW k \in Tasks, NEW s \in Seq(Instructions), ToDo(k, s),
         UNCHANGED <<event, ops>>, owner' \in [Tables -> Tasks \cup {Nobody}],
         client' \in {"off", "on", "stopping"}, prov' \in {"off", "on", "freed"},
         \/ UNCHANGED lists
         \/ /\ head' \in [Tables -> Entries \cup {Null}] /\ tail' \in [Tables -> Entries \cup {Null}]
            /\ next' \in [Entries -> Entries \cup {Null}] /\ func' \in [Entries -> Funcs \cup {"free"}]
  PROVE  EvtTypeOK'
<1>1. todo' \in [Tasks -> Seq(Instructions)]
  BY DEF EvtTypeOK, ToDo
<1>2. /\ {head, tail}' \subseteq [Tables -> Entries \cup {Null}]
      /\ next' \in [Entries -> Entries \cup {Null}] /\ func' \in [Entries -> Funcs \cup {"free"}]
  BY DEF EvtTypeOK, lists
<1> QED BY <1>1, <1>2 DEF EvtTypeOK

\* At a place of the program P.
LEMMA InProgram ==
  ASSUME EvtTypeOK, NEW P \in Seq(Instructions), NEW n \in 1..Len(P), NEW H,
         NEW k \in Tasks, At(k, Rest(P, n), H)
  PROVE  /\ Now(k) = P[n] /\ Tail(todo[k]) = Rest(P, n + 1) /\ Rest(P, n + 1) \in Seq(Instructions)
         /\ todo[k] # <<>>
<1>1. todo[k] = Rest(P, n)
  BY DEF At
<1>2. Rest(P, n) # <<>> /\ Head(Rest(P, n)) = P[n] /\ Tail(Rest(P, n)) = Rest(P, n + 1)
  BY RestOf
<1>3. Tail(Rest(P, n)) \in Seq(Instructions)
  BY <1>2, RestOf, HeadTailProperties
<1> QED BY <1>1, <1>2, <1>3 DEF Now

\* A program goes on with a mutex more.
LEMMA TakeMoves ==
  ASSUME EvtTypeOK, NEW k \in Tasks, Step(k), NEW P \in Seq(Instructions), NEW n \in 1..Len(P),
         NEW H, At(k, Rest(P, n), H), NEW t \in Tables, P[n] = Do("take", t, Null)
  PROVE  /\ At(k, Rest(P, n + 1), H \cup {t})' /\ OwnMove(k) /\ EvtTypeOK'
         /\ Quiet /\ UNCHANGED client /\ owner[t] = Nobody /\ owner'[t] = k
<1>1. Now(k) = P[n] /\ Tail(todo[k]) = Rest(P, n + 1) /\ Rest(P, n + 1) \in Seq(Instructions)
  BY InProgram
<1>2. /\ UNCHANGED <<event, ops>> /\ UNCHANGED lists /\ UNCHANGED client /\ UNCHANGED prov
      /\ ToDo(k, Rest(P, n + 1)) /\ owner[t] = Nobody /\ owner' = [owner EXCEPT ![t] = k]
  <2>1. Now(k) = Do("take", t, Null)
    BY <1>1
  <2> QED BY <1>1, <2>1, TakeEffect
<1>3. /\ owner'[t] = k /\ \A s \in Tables \ {t} : owner'[s] = owner[s]
      /\ owner' \in [Tables -> Tasks \cup {Nobody}]
  BY <1>2 DEF EvtTypeOK
<1>4. At(k, Rest(P, n + 1), H \cup {t})'
  BY <1>2, <1>3 DEF At, Holds, ToDo, EvtTypeOK
<1>5. OwnMove(k)
  <2>1. \A j \in Tasks \ {k} : todo'[j] = todo[j] /\ \A s \in Tables : owner'[s] = j <=> owner[s] = j
    BY <1>2, <1>3, TaskNames DEF ToDo, EvtTypeOK
  <2>2. \A s \in Tables : Kept(s)
    BY <1>2 DEF Kept, Alone, Joined, lists
  <2> QED BY <2>1, <2>2 DEF OwnMove
<1>6. EvtTypeOK'
  BY <1>1, <1>2, <1>3, MoveType DEF EvtTypeOK
<1> QED BY <1>2, <1>3, <1>4, <1>5, <1>6 DEF Quiet

\* A program goes on with a mutex less.
LEMMA GiveMoves ==
  ASSUME EvtTypeOK, NEW k \in Tasks, Step(k), NEW P \in Seq(Instructions), NEW n \in 1..Len(P),
         NEW H, At(k, Rest(P, n), H), NEW t \in H, t \in Tables, P[n] = Do("give", t, Null)
  PROVE  /\ At(k, Rest(P, n + 1), H \ {t})' /\ OwnMove(k) /\ EvtTypeOK'
         /\ Quiet /\ UNCHANGED client /\ owner'[t] = Nobody
<1>1. Now(k) = P[n] /\ Tail(todo[k]) = Rest(P, n + 1) /\ Rest(P, n + 1) \in Seq(Instructions)
  BY InProgram
<1>2. /\ UNCHANGED <<event, ops>> /\ UNCHANGED lists /\ UNCHANGED client /\ UNCHANGED prov
      /\ ToDo(k, Rest(P, n + 1)) /\ owner' = [owner EXCEPT ![t] = Nobody]
  <2>1. Now(k) = Do("give", t, Null)
    BY <1>1
  <2> QED BY <1>1, <2>1, GiveEffect
<1>3. /\ owner'[t] = Nobody /\ \A s \in Tables \ {t} : owner'[s] = owner[s]
      /\ owner' \in [Tables -> Tasks \cup {Nobody}] /\ owner[t] = k
  BY <1>2 DEF EvtTypeOK, At, Holds
<1>4. At(k, Rest(P, n + 1), H \ {t})'
  BY <1>2, <1>3, TaskNames DEF At, Holds, ToDo, EvtTypeOK
<1>5. OwnMove(k)
  <2>1. \A j \in Tasks \ {k} : todo'[j] = todo[j] /\ \A s \in Tables : owner'[s] = j <=> owner[s] = j
    BY <1>2, <1>3, TaskNames DEF ToDo, EvtTypeOK
  <2>2. \A s \in Tables : Kept(s)
    BY <1>2 DEF Kept, Alone, Joined, lists
  <2> QED BY <2>1, <2>2 DEF OwnMove
<1>6. EvtTypeOK'
  BY <1>1, <1>2, <1>3, MoveType DEF EvtTypeOK
<1> QED BY <1>2, <1>3, <1>4, <1>5, <1>6 DEF Quiet

\* A program goes on with a guest more.
LEMMA AddStep ==
  ASSUME EvtTypeOK, Keepers, NEW k \in Tasks, Step(k), NEW P \in Seq(Instructions), NEW n \in 1..Len(P),
         NEW H, At(k, Rest(P, n), H), NEW t \in H, t \in Tables, P[n] = Do("add", t, Guest[t]), Alone(t)
  PROVE  /\ At(k, Rest(P, n + 1), H)' /\ OwnMove(k) /\ EvtTypeOK' /\ Keepers'
         /\ UNCHANGED <<owner, client, prov, event, ops>>
         /\ HasGuest(t)' /\ \A s \in Tables \ {t} : Kept(s)
<1>1. Now(k) = P[n] /\ Tail(todo[k]) = Rest(P, n + 1) /\ Rest(P, n + 1) \in Seq(Instructions)
  BY InProgram
<1>2. /\ UNCHANGED <<event, ops>> /\ UNCHANGED owner /\ UNCHANGED client /\ UNCHANGED prov
      /\ ToDo(k, Rest(P, n + 1)) /\ Add(t, Guest[t])
  <2>1. Now(k) = Do("add", t, Guest[t])
    BY <1>1
  <2> QED BY <1>1, <2>1, AddEffect
<1>3. /\ HasGuest(t)' /\ Keepers' /\ \A s \in Tables \ {t} : Kept(s)
      /\ head' \in [Tables -> Entries \cup {Null}] /\ tail' \in [Tables -> Entries \cup {Null}]
      /\ next' \in [Entries -> Entries \cup {Null}] /\ func' \in [Entries -> Funcs \cup {"free"}]
  BY <1>2, AddMoves
<1>4. At(k, Rest(P, n + 1), H)' /\ owner[t] = k
  BY <1>2 DEF At, Holds, ToDo, EvtTypeOK
<1>5. OwnMove(k)
  BY <1>2, <1>3, <1>4 DEF OwnMove, ToDo, EvtTypeOK
<1>6. EvtTypeOK'
  BY <1>1, <1>2, <1>3, MoveType DEF EvtTypeOK
<1> QED BY <1>2, <1>3, <1>4, <1>5, <1>6

\* A program goes on with a guest less.
LEMMA RemoveStep ==
  ASSUME EvtTypeOK, Keepers, Shaped, NEW k \in Tasks, Step(k), NEW P \in Seq(Instructions), NEW n \in 1..Len(P),
         NEW H, At(k, Rest(P, n), H), NEW t \in H, t \in Tables, P[n] = Do("remove", t, Guest[t]), HasGuest(t)
  PROVE  /\ At(k, Rest(P, n + 1), H)' /\ OwnMove(k) /\ EvtTypeOK' /\ Keepers'
         /\ UNCHANGED <<owner, client, prov, event, ops>>
         /\ Alone(t)' /\ \A s \in Tables \ {t} : Kept(s)
<1>1. Now(k) = P[n] /\ Tail(todo[k]) = Rest(P, n + 1) /\ Rest(P, n + 1) \in Seq(Instructions)
  BY InProgram
<1>2. /\ UNCHANGED <<event, ops>> /\ UNCHANGED owner /\ UNCHANGED client /\ UNCHANGED prov
      /\ ToDo(k, Rest(P, n + 1)) /\ Remove(t, Guest[t])
  <2>1. Now(k) = Do("remove", t, Guest[t])
    BY <1>1
  <2> QED BY <1>1, <2>1, RemoveEffect
<1>3. /\ Alone(t)' /\ Keepers' /\ \A s \in Tables \ {t} : Kept(s)
      /\ head' \in [Tables -> Entries \cup {Null}] /\ tail' \in [Tables -> Entries \cup {Null}]
      /\ next' \in [Entries -> Entries \cup {Null}] /\ func' \in [Entries -> Funcs \cup {"free"}]
  BY <1>2, RemoveMoves
<1>4. At(k, Rest(P, n + 1), H)' /\ owner[t] = k
  BY <1>2 DEF At, Holds, ToDo, EvtTypeOK
<1>5. OwnMove(k)
  BY <1>2, <1>3, <1>4 DEF OwnMove, ToDo, EvtTypeOK
<1>6. EvtTypeOK'
  BY <1>1, <1>2, <1>3, MoveType DEF EvtTypeOK
<1> QED BY <1>2, <1>3, <1>4, <1>5, <1>6

\* The last instruction of a program sets a mark.
LEMMA ClientMark ==
  ASSUME EvtTypeOK, NEW k \in Tasks, Step(k), NEW P \in Seq(Instructions), NEW n \in 1..Len(P),
         NEW H, At(k, Rest(P, n), H), NEW a \in {"on", "off"}, P[n] = Do("client", Nobody, a)
  PROVE  /\ At(k, Rest(P, n + 1), H)' /\ OwnMove(k) /\ EvtTypeOK'
         /\ UNCHANGED <<lists, owner, event, ops>> /\ UNCHANGED prov /\ client' = a
<1>1. Now(k) = P[n] /\ Tail(todo[k]) = Rest(P, n + 1) /\ Rest(P, n + 1) \in Seq(Instructions)
  BY InProgram
<1>2. /\ UNCHANGED <<event, ops>> /\ UNCHANGED owner /\ UNCHANGED lists
      /\ ToDo(k, Rest(P, n + 1)) /\ UNCHANGED prov /\ client' = a
  <2>1. Now(k) = Do("client", Nobody, a)
    BY <1>1
  <2> QED BY <1>1, <2>1, ClientEffect
<1>3. At(k, Rest(P, n + 1), H)'
  BY <1>2 DEF At, Holds, ToDo, EvtTypeOK
<1>4. OwnMove(k)
  <2>1. \A s \in Tables : Kept(s)
    BY <1>2 DEF Kept, Alone, Joined, lists
  <2> QED BY <1>2, <2>1 DEF OwnMove, ToDo, EvtTypeOK
<1>5. EvtTypeOK'
  BY <1>1, <1>2, MoveType DEF EvtTypeOK
<1> QED BY <1>2, <1>3, <1>4, <1>5

\* The same of the provisioning task.
LEMMA ProvMark ==
  ASSUME EvtTypeOK, NEW k \in Tasks, Step(k), NEW P \in Seq(Instructions), NEW n \in 1..Len(P),
         NEW H, At(k, Rest(P, n), H), NEW a \in {"on", "off"}, P[n] = Do("prov", Nobody, a)
  PROVE  /\ At(k, Rest(P, n + 1), H)' /\ OwnMove(k) /\ EvtTypeOK'
         /\ UNCHANGED <<lists, owner, event, ops>> /\ UNCHANGED client /\ prov' = a
<1>1. Now(k) = P[n] /\ Tail(todo[k]) = Rest(P, n + 1) /\ Rest(P, n + 1) \in Seq(Instructions)
  BY InProgram
<1>2. /\ UNCHANGED <<event, ops>> /\ UNCHANGED owner /\ UNCHANGED lists
      /\ ToDo(k, Rest(P, n + 1)) /\ UNCHANGED client /\ prov' = a
  <2>1. Now(k) = Do("prov", Nobody, a)
    BY <1>1
  <2> QED BY <1>1, <2>1, ProvEffect
<1>3. At(k, Rest(P, n + 1), H)'
  BY <1>2 DEF At, Holds, ToDo, EvtTypeOK
<1>4. OwnMove(k)
  <2>1. \A s \in Tables : Kept(s)
    BY <1>2 DEF Kept, Alone, Joined, lists
  <2> QED BY <1>2, <2>1 DEF OwnMove, ToDo, EvtTypeOK
<1>5. EvtTypeOK'
  BY <1>1, <1>2, MoveType DEF EvtTypeOK
<1> QED BY <1>2, <1>3, <1>4, <1>5

-----------------------------------------------------------------------------
\* A step of a notification: to its next place, or into the start of the client.
Passes(k, t) ==
    \/ At(k, Notify(t), {}) /\ At(k, Rest(Notify(t), 2), {t})'
    \/ At(k, Rest(Notify(t), 2), {t}) /\ At(k, Visit("call", t, head[t]), {t})'
    \/ At(k, Rest(Notify(t), 3), {t}) /\ Resting(k)'
    \/ \E e \in Entries :
         /\ InList(t, e) /\ At(k, Visit("call", t, e), {t})
         /\ At(k, Visit("after", t, e), {t})' \/ (t = "framework" /\ e = 1 /\ StartsAt(k, 1)')
    \/ \E e \in Entries :
         /\ InList(t, e) /\ At(k, Visit("after", t, e), {t})
         /\ IF next[e] = Null THEN At(k, Rest(Notify(t), 3), {t})'
                              ELSE At(k, Visit("call", t, next[e]), {t})'
Notified(k, t) ==
    /\ Passes(k, t) /\ Quiet /\ OwnMove(k) /\ EvtTypeOK'
    /\ \/ UNCHANGED client /\ (Resting(k)' \/ Notifying(k, t)')
       \/ t = "framework" /\ client = "on" /\ client' = "stopping" /\ Notifying(k, t)'
       \/ t = "framework" /\ client = "off" /\ UNCHANGED client /\ StartsAt(k, 1)'

\* Within a function's call the mutexes stay as they are.
LEMMA StayMoves ==
  ASSUME EvtTypeOK, NEW k \in Tasks, NEW s, NEW H, At(k, s, H), NEW r \in Seq(Instructions),
         ToDo(k, r), UNCHANGED owner, UNCHANGED <<event, ops>>, UNCHANGED lists, UNCHANGED prov,
         client' \in {"off", "on", "stopping"}
  PROVE  At(k, r, H)' /\ OwnMove(k) /\ EvtTypeOK' /\ Quiet
<1>1. At(k, r, H)'
  BY DEF At, Holds, ToDo, EvtTypeOK
<1>2. OwnMove(k)
  <2>1. \A s1 \in Tables : Kept(s1)
    BY DEF Kept, Alone, Joined, lists
  <2> QED BY <2>1 DEF OwnMove, ToDo, EvtTypeOK
<1>3. EvtTypeOK'
  BY MoveType DEF EvtTypeOK
<1> QED BY <1>1, <1>2, <1>3 DEF Quiet

\* An entry of a list has a function of its table, and appFrwk is the first of the framework's.
LEMMA Called ==
  ASSUME Keepers, NEW t \in Tables, NEW e \in Entries, InList(t, e)
  PROVE  /\ (func[e] = Keeper[t] /\ e = KeptAt[t]) \/ (func[e] = Guest[t] /\ Joined(t, e))
         /\ func[e] = "appFrwk" => t = "framework" /\ e = 1
<1>1. (func[e] = Keeper[t] /\ e = KeptAt[t]) \/ (func[e] = Guest[t] /\ Joined(t, e))
  BY DEF InList, Joined, Keepers
<1> QED BY <1>1 DEF Keeper, Guest, KeptAt, Tables

\* A call starts the client or returns.
LEMMA CallMoves ==
  ASSUME EvtTypeOK, Keepers, NEW k \in Tasks, Step(k), NEW t \in Tables, NEW e \in Entries,
         InList(t, e), At(k, Visit("call", t, e), {t})
  PROVE  Notified(k, t)
<1> DEFINE g == Rest(Notify(t), 3)
           x == Do("after", t, e)
<1>1. /\ Now(k) = Do("call", t, e) /\ Tail(todo[k]) = g
      /\ <<x>> \o g = Visit("after", t, e) /\ Visit("after", t, e) \in Seq(Instructions)
      /\ g = <<Do("give", t, Null)>>
  BY VisitCode DEF At, Now
<1> HIDE DEF g
<1>2. /\ UNCHANGED <<event, ops>> /\ UNCHANGED lists /\ UNCHANGED prov /\ UNCHANGED owner
      /\ ToDo(k, (Body(func[e], event[k]) \o <<x>>) \o g)
      /\ client' = IF func[e] = "appFrwk" /\ event[k] = "down" /\ client = "on"
                    THEN "stopping" ELSE client
  BY <1>1, CallEffect
<1>3. func[e] = "appFrwk" => t = "framework" /\ e = 1
  BY Called
<1>4. client' \in {"off", "on", "stopping"}
  BY <1>2 DEF EvtTypeOK
<1>5. CASE func[e] = "appFrwk" /\ event[k] = "up" /\ client = "off"
  <2>1. Body(func[e], event[k]) = StartClient /\ UNCHANGED client
    BY <1>2, <1>5 DEF Body
  <2>2. (StartClient \o <<x>>) \o g = Start
    BY <1>1, <1>3, <1>5 DEF Start
  <2>3. ToDo(k, Start) /\ Start \in Seq(Instructions)
    BY <1>2, <2>1, <2>2, StartCode
  <2>4. At(k, Start, {t})' /\ OwnMove(k) /\ EvtTypeOK' /\ Quiet
    BY <1>2, <1>4, <2>3, StayMoves
  <2>5. StartsAt(k, 1)'
    <3>1. Rest(Start, 1) = Start
      BY <2>3, WholeAndNothing
    <3>2. {"framework"} \cup Inner(1) = {t}
      BY <1>3, <1>5 DEF Inner
    <3> QED BY <2>4, <3>1, <3>2 DEF StartsAt
  <2>6. Passes(k, t)
    BY <1>3, <1>5, <2>5 DEF Passes
  <2> QED BY <1>3, <1>5, <2>1, <2>4, <2>5, <2>6 DEF Notified
<1>6. CASE ~(func[e] = "appFrwk" /\ event[k] = "up" /\ client = "off")
  <2>1. Body(func[e], event[k]) = <<>>
    BY <1>6 DEF Body
  <2>2. <<>> \o <<x>> = <<x>>
    <3>1. <<x>> \in Seq({x})
      OBVIOUS
    <3> QED BY <3>1, ConcatEmptySeq
  <2>3. ToDo(k, Visit("after", t, e))
    BY <1>1, <1>2, <2>1, <2>2
  <2>4. At(k, Visit("after", t, e), {t})' /\ OwnMove(k) /\ EvtTypeOK' /\ Quiet
    BY <1>1, <1>2, <1>4, <2>3, StayMoves
  <2>5. InList(t, e)'
    BY <1>2 DEF InList, Joined, lists
  <2>6. Notifying(k, t)'
    BY <2>4, <2>5 DEF Notifying
  <2>7. client' = client \/ (t = "framework" /\ client = "on" /\ client' = "stopping")
    BY <1>2, <1>3
  <2>8. Passes(k, t)
    BY <2>4 DEF Passes
  <2> QED BY <2>4, <2>6, <2>7, <2>8 DEF Notified
<1> QED BY <1>5, <1>6

\* On to entry d of the list, or to its end.
LEMMA WalkMoves ==
  ASSUME EvtTypeOK, NEW k \in Tasks, NEW t \in Tables, NEW s, At(k, s, {t}),
         NEW d \in Entries \cup {Null}, d # Null => InList(t, d),
         ToDo(k, Walk(t, d) \o Rest(Notify(t), 3)), UNCHANGED owner, UNCHANGED <<event, ops>>,
         UNCHANGED lists, UNCHANGED prov, UNCHANGED client
  PROVE  /\ Quiet /\ OwnMove(k) /\ EvtTypeOK' /\ UNCHANGED client /\ Notifying(k, t)'
         /\ IF d = Null THEN At(k, Rest(Notify(t), 3), {t})' ELSE At(k, Visit("call", t, d), {t})'
<1> DEFINE g == Rest(Notify(t), 3)
<1>0. g \in Seq(Instructions)
  BY NotifyCode, RestOf
<1> HIDE DEF g
<1>1. client' \in {"off", "on", "stopping"}
  BY DEF EvtTypeOK
<1>2. CASE d = Null
  <2>1. Walk(t, d) \o g = g
    BY <1>0, <1>2, ConcatEmptySeq DEF Walk
  <2>2. At(k, g, {t})' /\ OwnMove(k) /\ EvtTypeOK' /\ Quiet
    BY <1>0, <1>1, <2>1, StayMoves DEF g
  <2>3. Notifying(k, t)'
    BY <2>2 DEF Notifying, g
  <2> QED BY <1>2, <2>2, <2>3 DEF g
<1>3. CASE d # Null
  <2>1. /\ Walk(t, d) \o g = Visit("call", t, d) /\ Visit("call", t, d) \in Seq(Instructions)
    BY <1>3, VisitCode DEF Walk, g
  <2>2. At(k, Visit("call", t, d), {t})' /\ OwnMove(k) /\ EvtTypeOK' /\ Quiet
    BY <1>1, <2>1, StayMoves DEF g
  <2>3. InList(t, d)'
    BY <1>3 DEF InList, Joined, lists
  <2>4. Notifying(k, t)'
    BY <1>3, <2>2, <2>3 DEF Notifying
  <2> QED BY <1>3, <2>2, <2>4
<1> QED BY <1>2, <1>3

\* Every step of a notification.
LEMMA NotifyMoves ==
  ASSUME EvtTypeOK, Keepers, NEW k \in Tasks, Step(k), NEW t \in Tables, Notifying(k, t),
         Alone(t) \/ HasGuest(t)
  PROVE  Notified(k, t)
<1> DEFINE P == Notify(t)
<1>1. /\ P \in Seq(Instructions) /\ Len(P) = 3 /\ P[1] = Do("take", t, Null)
      /\ P[2] = Do("first", t, Null) /\ P[3] = Do("give", t, Null)
  BY NotifyCode
<1>2. Rest(P, 1) = P /\ Rest(P, 4) = <<>>
  <2>1. Len(P) + 1 = 4
    BY <1>1
  <2> QED BY <1>1, <2>1, WholeAndNothing
<1>3. CASE At(k, P, {})
  <2> DEFINE n == 1
  <2>1. n \in 1..Len(P) /\ P[n] = Do("take", t, Null) /\ At(k, Rest(P, n), {}) /\ n + 1 = 2
    BY <1>1, <1>2, <1>3
  <2> HIDE DEF P, n
  <2>2. At(k, Rest(P, n + 1), {} \cup {t})' /\ OwnMove(k) /\ EvtTypeOK' /\ Quiet /\ UNCHANGED client
    BY <1>1, <2>1, TakeMoves
  <2>3. At(k, Rest(P, 2), {t})'
    BY <2>1, <2>2
  <2>4. Notifying(k, t)'
    BY <2>3 DEF Notifying, P
  <2>5. Passes(k, t)
    BY <1>3, <2>3 DEF Passes, P
  <2> QED BY <2>2, <2>4, <2>5 DEF Notified
<1>4. CASE At(k, Rest(P, 2), {t})
  <2> DEFINE n == 2
  <2>1. n \in 1..Len(P) /\ P[n] = Do("first", t, Null) /\ At(k, Rest(P, n), {t}) /\ n + 1 = 3
    BY <1>1, <1>4
  <2> HIDE DEF P, n
  <2>2. Now(k) = P[n] /\ Tail(todo[k]) = Rest(P, n + 1)
    BY <1>1, <2>1, InProgram
  <2>3. /\ UNCHANGED <<event, ops>> /\ UNCHANGED lists /\ UNCHANGED client /\ UNCHANGED prov
        /\ UNCHANGED owner /\ ToDo(k, Walk(t, head[t]) \o Tail(todo[k]))
    <3>1. Now(k) = Do("first", t, Null)
      BY <2>1, <2>2
    <3> QED BY <3>1, FirstEffect
  <2>4. ToDo(k, Walk(t, head[t]) \o Rest(Notify(t), 3))
    BY <2>1, <2>2, <2>3 DEF P
  <2>5. head[t] \in Entries /\ InList(t, head[t])
    BY Places DEF Alone, HasGuest, Joined, InList
  <2>6. /\ Quiet /\ OwnMove(k) /\ EvtTypeOK' /\ UNCHANGED client /\ Notifying(k, t)'
        /\ IF head[t] = Null THEN At(k, Rest(Notify(t), 3), {t})'
                             ELSE At(k, Visit("call", t, head[t]), {t})'
    <3>1. PICK d \in Entries : d = head[t] /\ d # Null
      BY <2>5, Heap
    <3>2. d \in Entries \cup {Null} /\ InList(t, d) /\ ToDo(k, Walk(t, d) \o Rest(Notify(t), 3))
      BY <2>4, <2>5, <3>1
    <3>3. /\ Quiet /\ OwnMove(k) /\ EvtTypeOK' /\ UNCHANGED client /\ Notifying(k, t)'
          /\ IF d = Null THEN At(k, Rest(Notify(t), 3), {t})' ELSE At(k, Visit("call", t, d), {t})'
      BY <1>4, <2>3, <3>2, WalkMoves DEF P
    <3>4. head'[t] = d
      BY <2>3, <3>1 DEF lists
    <3> QED BY <3>1, <3>3, <3>4
  <2>7. Passes(k, t)
    BY <1>4, <2>5, <2>6, Heap DEF Passes, P
  <2> QED BY <2>6, <2>7 DEF Notified
<1>5. CASE At(k, Rest(P, 3), {t})
  <2> DEFINE n == 3
             H == {t}
  <2>1. /\ n \in 1..Len(P) /\ P[n] = Do("give", t, Null) /\ At(k, Rest(P, n), H) /\ n + 1 = 4
        /\ t \in H /\ H \ {t} = {}
    BY <1>1, <1>5
  <2> HIDE DEF P, n, H
  <2>2. At(k, Rest(P, n + 1), H \ {t})' /\ OwnMove(k) /\ EvtTypeOK' /\ Quiet /\ UNCHANGED client
    BY <1>1, <2>1, GiveMoves
  <2>3. Resting(k)'
    BY <1>2, <2>1, <2>2 DEF Resting
  <2>4. Passes(k, t)
    BY <1>5, <2>3 DEF Passes, P
  <2> QED BY <2>2, <2>3, <2>4 DEF Notified
<1>6. ASSUME NEW e \in Entries, InList(t, e), At(k, Visit("after", t, e), {t}) PROVE Notified(k, t)
  <2>1. Now(k) = Do("after", t, e) /\ Tail(todo[k]) = Rest(Notify(t), 3)
    BY <1>6, VisitCode DEF At, Now
  <2>2. /\ UNCHANGED <<event, ops>> /\ UNCHANGED lists /\ UNCHANGED client /\ UNCHANGED prov
        /\ UNCHANGED owner /\ ToDo(k, Walk(t, next[e]) \o Rest(Notify(t), 3))
    BY <2>1, AfterEffect
  <2>3. next[e] \in Entries \cup {Null} /\ (next[e] # Null => InList(t, next[e]))
    <3>1. next[e] \in Entries \cup {Null}
      BY DEF EvtTypeOK
    <3>2. CASE e = KeptAt[t]
      BY <3>2 DEF Alone, HasGuest, Joined, InList
    <3>3. CASE Joined(t, e)
      BY <3>3 DEF Joined
    <3> QED BY <1>6, <3>1, <3>2, <3>3 DEF InList
  <2>4. /\ Quiet /\ OwnMove(k) /\ EvtTypeOK' /\ UNCHANGED client /\ Notifying(k, t)'
        /\ IF next[e] = Null THEN At(k, Rest(Notify(t), 3), {t})'
                             ELSE At(k, Visit("call", t, next[e]), {t})'
    <3>1. PICK d \in Entries \cup {Null} : d = next[e]
      BY <2>3
    <3>2. (d # Null => InList(t, d)) /\ ToDo(k, Walk(t, d) \o Rest(Notify(t), 3))
      BY <2>2, <2>3, <3>1
    <3>3. /\ Quiet /\ OwnMove(k) /\ EvtTypeOK' /\ UNCHANGED client /\ Notifying(k, t)'
          /\ IF d = Null THEN At(k, Rest(Notify(t), 3), {t})' ELSE At(k, Visit("call", t, d), {t})'
      BY <1>6, <2>2, <3>2, WalkMoves
    <3>4. next'[e] = d
      BY <2>2, <3>1 DEF lists
    <3> QED BY <3>1, <3>3, <3>4
  <2>5. Passes(k, t)
    BY <1>6, <2>4 DEF Passes
  <2> QED BY <2>4, <2>5 DEF Notified
<1> QED
  <2>1. CASE \E n \in 2..3 : At(k, Rest(P, n), {t})
    BY <1>4, <1>5, <2>1
  <2>2. CASE \E e \in Entries, what \in {"call", "after"} : InList(t, e) /\ At(k, Visit(what, t, e), {t})
    BY <1>6, <2>2, CallMoves
  <2> QED BY <1>3, <2>1, <2>2 DEF Notifying

-----------------------------------------------------------------------------
\* Steps of the other programs.
LEMMA ListsStay ==
  ASSUME UNCHANGED lists
  PROVE  (Keepers => Keepers') /\ \A t \in Tables : Kept(t)
BY DEF Keepers, Kept, Alone, Joined, lists

\* Within the client's start, inside a call of the framework's table.
LEMMA StartMoves ==
  ASSUME EvtTypeOK, Keepers, NEW k \in Tasks, Step(k), NEW n \in 1..7, StartsAt(k, n),
         GuestIff("control", n > 2), GuestIff("socket", n > 5)
  PROVE  /\ OwnMove(k) /\ EvtTypeOK' /\ Keepers' /\ UNCHANGED <<prov, event, ops>>
         /\ Kept("framework")
         /\ n # 7 => /\ UNCHANGED client /\ StartsAt(k, n + 1)'
                     /\ GuestIff("control", n + 1 > 2)' /\ GuestIff("socket", n + 1 > 5)'
         /\ n = 7 => /\ client' = "on" /\ Notifying(k, "framework")'
                     /\ At(k, Visit("after", "framework", 1), {"framework"})'
                     /\ HasGuest("control")' /\ HasGuest("socket")'
<1> DEFINE H == {"framework"} \cup Inner(n)
<1>1. /\ Start \in Seq(Instructions) /\ n \in 1..Len(Start) /\ Start[n] = StartClient[n]
      /\ At(k, Rest(Start, n), H)
  BY StartCode DEF StartsAt
<1>2. "framework" \in Tables /\ "control" \in Tables /\ "socket" \in Tables
  BY DEF Tables
<1>3. ASSUME NEW t \in Tables, (n = 1 /\ t = "control") \/ (n = 4 /\ t = "socket")
      PROVE  /\ OwnMove(k) /\ EvtTypeOK' /\ Keepers' /\ UNCHANGED <<prov, event, ops>>
             /\ Kept("framework") /\ UNCHANGED client /\ StartsAt(k, n + 1)'
             /\ GuestIff("control", n + 1 > 2)' /\ GuestIff("socket", n + 1 > 5)'
  <2>1. Start[n] = Do("take", t, Null)
    BY <1>1, <1>3, StartClientCode
  <2>2. /\ At(k, Rest(Start, n + 1), H \cup {t})' /\ OwnMove(k) /\ EvtTypeOK'
        /\ Quiet /\ UNCHANGED client
    BY <1>1, <2>1, TakeMoves
  <2>3. H \cup {t} = {"framework"} \cup Inner(n + 1)
    BY <1>3 DEF Inner
  <2>4. Keepers' /\ \A s \in Tables : Kept(s)
    BY <2>2, ListsStay DEF Quiet
  <2>5. GuestIff("control", n > 2)' /\ GuestIff("socket", n > 5)'
    BY <1>2, <2>4 DEF Kept, GuestIff, HasGuest
  <2>6. (n > 2 <=> n + 1 > 2) /\ (n > 5 <=> n + 1 > 5)
    BY <1>3
  <2>7. GuestIff("control", n + 1 > 2)' /\ GuestIff("socket", n + 1 > 5)'
    BY <2>5, <2>6 DEF GuestIff
  <2> QED BY <1>2, <2>2, <2>3, <2>4, <2>7 DEF Quiet, StartsAt
<1>4. ASSUME NEW t \in Tables, (n = 2 /\ t = "control") \/ (n = 5 /\ t = "socket")
      PROVE  /\ OwnMove(k) /\ EvtTypeOK' /\ Keepers' /\ UNCHANGED <<prov, event, ops>>
             /\ Kept("framework") /\ UNCHANGED client /\ StartsAt(k, n + 1)'
             /\ GuestIff("control", n + 1 > 2)' /\ GuestIff("socket", n + 1 > 5)'
  <2>1. Start[n] = Do("add", t, Guest[t])
    BY <1>1, <1>4, StartClientCode DEF Guest
  <2>2. t \in H /\ H = {"framework"} \cup Inner(n + 1)
    BY <1>4 DEF Inner
  <2>3. Alone(t)
    BY <1>4 DEF GuestIff
  <2> HIDE DEF H
  <2>4. /\ At(k, Rest(Start, n + 1), H)' /\ OwnMove(k) /\ EvtTypeOK' /\ Keepers'
        /\ UNCHANGED <<owner, client, prov, event, ops>>
        /\ HasGuest(t)' /\ \A s \in Tables \ {t} : Kept(s)
    BY <1>1, <2>1, <2>2, <2>3, AddStep
  <2>5. "framework" \in Tables \ {t}
    BY <1>2, <1>4
  <2>6. ASSUME n = 2 PROVE GuestIff("control", n + 1 > 2)' /\ GuestIff("socket", n + 1 > 5)'
    <3>1. t = "control" /\ "socket" \in Tables \ {t} /\ ~(n > 5) /\ ~(n + 1 > 5) /\ n + 1 > 2
      BY <1>2, <1>4, <2>6
    <3>2. GuestIff("socket", n > 5)'
      BY <1>2, <2>4, <3>1 DEF Kept, GuestIff, HasGuest
    <3> QED BY <2>4, <3>1, <3>2 DEF GuestIff
  <2>7. ASSUME n = 5 PROVE GuestIff("control", n + 1 > 2)' /\ GuestIff("socket", n + 1 > 5)'
    <3>1. t = "socket" /\ "control" \in Tables \ {t} /\ n > 2 /\ n + 1 > 5 /\ n + 1 > 2
      BY <1>2, <1>4, <2>7
    <3>2. GuestIff("control", n > 2)'
      BY <1>2, <2>4, <3>1 DEF Kept, GuestIff, HasGuest
    <3> QED BY <2>4, <3>1, <3>2 DEF GuestIff
  <2>8. GuestIff("control", n + 1 > 2)' /\ GuestIff("socket", n + 1 > 5)'
    BY <1>4, <2>6, <2>7
  <2>9. StartsAt(k, n + 1)'
    BY <2>2, <2>4 DEF StartsAt
  <2> QED BY <2>4, <2>5, <2>8, <2>9
<1>5. ASSUME NEW t \in Tables, (n = 3 /\ t = "control") \/ (n = 6 /\ t = "socket")
      PROVE  /\ OwnMove(k) /\ EvtTypeOK' /\ Keepers' /\ UNCHANGED <<prov, event, ops>>
             /\ Kept("framework") /\ UNCHANGED client /\ StartsAt(k, n + 1)'
             /\ GuestIff("control", n + 1 > 2)' /\ GuestIff("socket", n + 1 > 5)'
  <2>1. Start[n] = Do("give", t, Null)
    BY <1>1, <1>5, StartClientCode
  <2>2. t \in H /\ H \ {t} = {"framework"} \cup Inner(n + 1)
    BY <1>5 DEF Inner
  <2> HIDE DEF H
  <2>3. /\ At(k, Rest(Start, n + 1), H \ {t})' /\ OwnMove(k) /\ EvtTypeOK'
        /\ Quiet /\ UNCHANGED client
    BY <1>1, <2>1, <2>2, GiveMoves
  <2>4. Keepers' /\ \A s \in Tables : Kept(s)
    BY <2>3, ListsStay DEF Quiet
  <2>5. GuestIff("control", n > 2)' /\ GuestIff("socket", n > 5)'
    BY <1>2, <2>4 DEF Kept, GuestIff, HasGuest
  <2>6. (n > 2 <=> n + 1 > 2) /\ (n > 5 <=> n + 1 > 5)
    BY <1>5
  <2>7. GuestIff("control", n + 1 > 2)' /\ GuestIff("socket", n + 1 > 5)'
    BY <2>5, <2>6 DEF GuestIff
  <2>8. StartsAt(k, n + 1)'
    BY <2>2, <2>3 DEF StartsAt
  <2> QED BY <1>2, <2>3, <2>4, <2>7, <2>8 DEF Quiet
<1>6. ASSUME n = 7
      PROVE  /\ OwnMove(k) /\ EvtTypeOK' /\ Keepers' /\ UNCHANGED <<prov, event, ops>>
             /\ Kept("framework") /\ client' = "on" /\ Notifying(k, "framework")'
             /\ At(k, Visit("after", "framework", 1), {"framework"})'
             /\ HasGuest("control")' /\ HasGuest("socket")'
  <2>1. Start[n] = Do("client", Nobody, "on") /\ H = {"framework"} /\ n + 1 = 8
    BY <1>1, <1>6, StartClientCode DEF Inner
  <2>2. HasGuest("control") /\ HasGuest("socket")
    BY <1>6 DEF GuestIff
  <2> HIDE DEF H
  <2>3. /\ At(k, Rest(Start, n + 1), H)' /\ OwnMove(k) /\ EvtTypeOK'
        /\ UNCHANGED <<lists, owner, event, ops>> /\ UNCHANGED prov /\ client' = "on"
    BY <1>1, <2>1, ClientMark
  <2>4. Keepers' /\ \A s \in Tables : Kept(s)
    BY <2>3, ListsStay
  <2>5. HasGuest("control")' /\ HasGuest("socket")'
    BY <1>2, <2>2, <2>4 DEF Kept, HasGuest
  <2>6. At(k, Visit("after", "framework", 1), {"framework"})'
    BY <2>1, <2>3, StartCode
  <2>7. 1 \in Entries /\ InList("framework", 1)'
    BY Heap DEF InList, KeptAt
  <2>8. Notifying(k, "framework")'
    BY <2>6, <2>7 DEF Notifying
  <2> QED BY <1>2, <2>3, <2>4, <2>5, <2>6, <2>8
<1> QED
  <2>1. n = 1 \/ n = 2 \/ n = 3 \/ n = 4 \/ n = 5 \/ n = 6 \/ n = 7
    OBVIOUS
  <2> QED BY <1>2, <1>3, <1>4, <1>5, <1>6, <2>1

\* Within its stop.
LEMMA StopMoves ==
  ASSUME EvtTypeOK, Keepers, Shaped, Step("client"), NEW n \in 1..7, StopsAt(n),
         GuestIff("control", n <= 2), GuestIff("socket", n <= 5)
  PROVE  /\ OwnMove("client") /\ EvtTypeOK' /\ Keepers' /\ UNCHANGED <<prov, event, ops>>
         /\ Kept("framework")
         /\ n # 7 => /\ UNCHANGED client /\ StopsAt(n + 1)'
                     /\ GuestIff("control", n + 1 <= 2)' /\ GuestIff("socket", n + 1 <= 5)'
         /\ n = 7 => /\ client' = "off" /\ Resting("client")'
                     /\ Alone("control")' /\ Alone("socket")'
<1> DEFINE H == Inner(n)
<1>1. /\ StopClient \in Seq(Instructions) /\ n \in 1..Len(StopClient) /\ "client" \in Tasks
      /\ At("client", Rest(StopClient, n), H)
  BY StopClientCode DEF StopsAt, Tasks
<1>2. "framework" \in Tables /\ "control" \in Tables /\ "socket" \in Tables
  BY DEF Tables
<1>3. ASSUME NEW t \in Tables, (n = 1 /\ t = "control") \/ (n = 4 /\ t = "socket")
      PROVE  /\ OwnMove("client") /\ EvtTypeOK' /\ Keepers' /\ UNCHANGED <<prov, event, ops>>
             /\ Kept("framework") /\ UNCHANGED client /\ StopsAt(n + 1)'
             /\ GuestIff("control", n + 1 <= 2)' /\ GuestIff("socket", n + 1 <= 5)'
  <2>1. StopClient[n] = Do("take", t, Null)
    BY <1>1, <1>3, StopClientCode
  <2>2. /\ At("client", Rest(StopClient, n + 1), H \cup {t})' /\ OwnMove("client") /\ EvtTypeOK'
        /\ Quiet /\ UNCHANGED client
    BY <1>1, <2>1, TakeMoves
  <2>3. H \cup {t} = Inner(n + 1)
    BY <1>3 DEF Inner
  <2>4. Keepers' /\ \A s \in Tables : Kept(s)
    BY <2>2, ListsStay DEF Quiet
  <2>5. GuestIff("control", n <= 2)' /\ GuestIff("socket", n <= 5)'
    BY <1>2, <2>4 DEF Kept, GuestIff, HasGuest
  <2>6. (n <= 2 <=> n + 1 <= 2) /\ (n <= 5 <=> n + 1 <= 5)
    BY <1>3
  <2>7. GuestIff("control", n + 1 <= 2)' /\ GuestIff("socket", n + 1 <= 5)'
    BY <2>5, <2>6 DEF GuestIff
  <2> QED BY <1>2, <2>2, <2>3, <2>4, <2>7 DEF Quiet, StopsAt
<1>4. ASSUME NEW t \in Tables, (n = 2 /\ t = "control") \/ (n = 5 /\ t = "socket")
      PROVE  /\ OwnMove("client") /\ EvtTypeOK' /\ Keepers' /\ UNCHANGED <<prov, event, ops>>
             /\ Kept("framework") /\ UNCHANGED client /\ StopsAt(n + 1)'
             /\ GuestIff("control", n + 1 <= 2)' /\ GuestIff("socket", n + 1 <= 5)'
  <2>1. StopClient[n] = Do("remove", t, Guest[t])
    BY <1>1, <1>4, StopClientCode DEF Guest
  <2>2. t \in H /\ H = Inner(n + 1)
    BY <1>4 DEF Inner
  <2>3. HasGuest(t)
    BY <1>4 DEF GuestIff
  <2> HIDE DEF H
  <2>4. /\ At("client", Rest(StopClient, n + 1), H)' /\ OwnMove("client") /\ EvtTypeOK' /\ Keepers'
        /\ UNCHANGED <<owner, client, prov, event, ops>>
        /\ Alone(t)' /\ \A s \in Tables \ {t} : Kept(s)
    BY <1>1, <2>1, <2>2, <2>3, RemoveStep
  <2>5. "framework" \in Tables \ {t}
    BY <1>2, <1>4
  <2>6. ASSUME n = 2 PROVE GuestIff("control", n + 1 <= 2)' /\ GuestIff("socket", n + 1 <= 5)'
    <3>1. t = "control" /\ "socket" \in Tables \ {t} /\ n <= 5 /\ n + 1 <= 5 /\ ~(n + 1 <= 2)
      BY <1>2, <1>4, <2>6
    <3>2. GuestIff("socket", n <= 5)'
      BY <1>2, <2>4, <3>1 DEF Kept, GuestIff, HasGuest
    <3> QED BY <2>4, <3>1, <3>2 DEF GuestIff
  <2>7. ASSUME n = 5 PROVE GuestIff("control", n + 1 <= 2)' /\ GuestIff("socket", n + 1 <= 5)'
    <3>1. t = "socket" /\ "control" \in Tables \ {t} /\ ~(n <= 2) /\ ~(n + 1 <= 5) /\ ~(n + 1 <= 2)
      BY <1>2, <1>4, <2>7
    <3>2. GuestIff("control", n <= 2)'
      BY <1>2, <2>4, <3>1 DEF Kept, GuestIff, HasGuest
    <3> QED BY <2>4, <3>1, <3>2 DEF GuestIff
  <2>8. GuestIff("control", n + 1 <= 2)' /\ GuestIff("socket", n + 1 <= 5)'
    BY <1>4, <2>6, <2>7
  <2>9. StopsAt(n + 1)'
    BY <2>2, <2>4 DEF StopsAt
  <2> QED BY <2>4, <2>5, <2>8, <2>9
<1>5. ASSUME NEW t \in Tables, (n = 3 /\ t = "control") \/ (n = 6 /\ t = "socket")
      PROVE  /\ OwnMove("client") /\ EvtTypeOK' /\ Keepers' /\ UNCHANGED <<prov, event, ops>>
             /\ Kept("framework") /\ UNCHANGED client /\ StopsAt(n + 1)'
             /\ GuestIff("control", n + 1 <= 2)' /\ GuestIff("socket", n + 1 <= 5)'
  <2>1. StopClient[n] = Do("give", t, Null)
    BY <1>1, <1>5, StopClientCode
  <2>2. t \in H /\ H \ {t} = Inner(n + 1)
    BY <1>5 DEF Inner
  <2> HIDE DEF H
  <2>3. /\ At("client", Rest(StopClient, n + 1), H \ {t})' /\ OwnMove("client") /\ EvtTypeOK'
        /\ Quiet /\ UNCHANGED client
    BY <1>1, <2>1, <2>2, GiveMoves
  <2>4. Keepers' /\ \A s \in Tables : Kept(s)
    BY <2>3, ListsStay DEF Quiet
  <2>5. GuestIff("control", n <= 2)' /\ GuestIff("socket", n <= 5)'
    BY <1>2, <2>4 DEF Kept, GuestIff, HasGuest
  <2>6. (n <= 2 <=> n + 1 <= 2) /\ (n <= 5 <=> n + 1 <= 5)
    BY <1>5
  <2>7. GuestIff("control", n + 1 <= 2)' /\ GuestIff("socket", n + 1 <= 5)'
    BY <2>5, <2>6 DEF GuestIff
  <2>8. StopsAt(n + 1)'
    BY <2>2, <2>3 DEF StopsAt
  <2> QED BY <1>2, <2>3, <2>4, <2>7, <2>8 DEF Quiet
<1>6. ASSUME n = 7
      PROVE  /\ OwnMove("client") /\ EvtTypeOK' /\ Keepers' /\ UNCHANGED <<prov, event, ops>>
             /\ Kept("framework") /\ client' = "off" /\ Resting("client")'
             /\ Alone("control")' /\ Alone("socket")'
  <2>1. StopClient[n] = Do("client", Nobody, "off") /\ H = {} /\ n + 1 = 8
    BY <1>1, <1>6, StopClientCode DEF Inner
  <2>2. Alone("control") /\ Alone("socket")
    BY <1>6 DEF GuestIff
  <2> HIDE DEF H
  <2>3. /\ At("client", Rest(StopClient, n + 1), H)' /\ OwnMove("client") /\ EvtTypeOK'
        /\ UNCHANGED <<lists, owner, event, ops>> /\ UNCHANGED prov /\ client' = "off"
    BY <1>1, <2>1, ClientMark
  <2>4. Keepers' /\ \A s \in Tables : Kept(s)
    BY <2>3, ListsStay
  <2>5. Alone("control")' /\ Alone("socket")'
    BY <1>2, <2>2, <2>4 DEF Kept
  <2>6. Rest(StopClient, 8) = <<>>
    <3>1. Len(StopClient) + 1 = 8
      BY StopClientCode
    <3> QED BY <1>1, <3>1, WholeAndNothing
  <2>7. Resting("client")'
    BY <2>1, <2>3, <2>6 DEF Resting
  <2> QED BY <1>2, <2>3, <2>4, <2>5, <2>7
<1> QED
  <2>1. n = 1 \/ n = 2 \/ n = 3 \/ n = 4 \/ n = 5 \/ n = 6 \/ n = 7
    OBVIOUS
  <2> QED BY <1>2, <1>3, <1>4, <1>5, <1>6, <2>1

\* The arrival of the provisioning task.
LEMMA JoinMoves ==
  ASSUME EvtTypeOK, Keepers, Shaped, Step("sys"), NEW n \in 1..4, JoinsAt(n),
         GuestIff("framework", n > 2)
  PROVE  /\ OwnMove("sys") /\ EvtTypeOK' /\ Keepers' /\ UNCHANGED <<client, event, ops>>
         /\ Kept("control") /\ Kept("socket")
         /\ n # 4 => /\ UNCHANGED prov /\ JoinsAt(n + 1)' /\ GuestIff("framework", n + 1 > 2)'
         /\ n = 4 => prov' = "on" /\ Resting("sys")' /\ HasGuest("framework")'
<1> DEFINE H == Outer(n)
           t == "framework"
<1>1. /\ Join \in Seq(Instructions) /\ n \in 1..Len(Join) /\ "sys" \in Tasks
      /\ At("sys", Rest(Join, n), H)
  BY JoinCode DEF JoinsAt, Tasks
<1>2. t \in Tables /\ "control" \in Tables \ {t} /\ "socket" \in Tables \ {t}
  BY DEF Tables
<1> HIDE DEF t
<1>3. CASE n = 1
  <2>1. Join[n] = Do("take", t, Null) /\ H \cup {t} = Outer(n + 1)
    BY <1>3, JoinCode DEF Outer, t
  <2>2. /\ At("sys", Rest(Join, n + 1), H \cup {t})' /\ OwnMove("sys") /\ EvtTypeOK'
        /\ Quiet /\ UNCHANGED client
    BY <1>1, <1>2, <2>1, TakeMoves
  <2>3. Keepers' /\ \A s \in Tables : Kept(s)
    BY <2>2, ListsStay DEF Quiet
  <2>4. GuestIff("framework", n + 1 > 2)'
    BY <1>2, <1>3, <2>3 DEF Kept, GuestIff, HasGuest, t
  <2>5. JoinsAt(n + 1)'
    BY <2>1, <2>2 DEF JoinsAt
  <2> QED BY <1>2, <1>3, <2>2, <2>3, <2>4, <2>5 DEF Quiet
<1>4. CASE n = 2
  <2>1. Join[n] = Do("add", t, Guest[t]) /\ t \in H /\ H = Outer(n + 1)
    BY <1>4, JoinCode DEF Outer, t, Guest
  <2>2. Alone(t)
    BY <1>4 DEF GuestIff, t
  <2> HIDE DEF H
  <2>3. /\ At("sys", Rest(Join, n + 1), H)' /\ OwnMove("sys") /\ EvtTypeOK' /\ Keepers'
        /\ UNCHANGED <<owner, client, prov, event, ops>>
        /\ HasGuest(t)' /\ \A s \in Tables \ {t} : Kept(s)
    BY <1>1, <1>2, <2>1, <2>2, AddStep
  <2>4. GuestIff("framework", n + 1 > 2)'
    BY <1>4, <2>3 DEF GuestIff, t
  <2>5. JoinsAt(n + 1)'
    BY <2>1, <2>3 DEF JoinsAt
  <2> QED BY <1>2, <1>4, <2>3, <2>4, <2>5
<1>5. CASE n = 3
  <2>1. Join[n] = Do("give", t, Null) /\ t \in H /\ H \ {t} = Outer(n + 1)
    BY <1>5, JoinCode DEF Outer, t
  <2> HIDE DEF H
  <2>2. /\ At("sys", Rest(Join, n + 1), H \ {t})' /\ OwnMove("sys") /\ EvtTypeOK'
        /\ Quiet /\ UNCHANGED client
    BY <1>1, <1>2, <2>1, GiveMoves
  <2>3. Keepers' /\ \A s \in Tables : Kept(s)
    BY <2>2, ListsStay DEF Quiet
  <2>4. GuestIff("framework", n + 1 > 2)'
    BY <1>2, <1>5, <2>3 DEF Kept, GuestIff, HasGuest, t
  <2>5. JoinsAt(n + 1)'
    BY <2>1, <2>2 DEF JoinsAt
  <2> QED BY <1>2, <1>5, <2>2, <2>3, <2>4, <2>5 DEF Quiet
<1>6. CASE n = 4
  <2>1. Join[n] = Do("prov", Nobody, "on") /\ H = {} /\ n + 1 = 5
    BY <1>6, JoinCode DEF Outer
  <2> HIDE DEF H
  <2>2. /\ At("sys", Rest(Join, n + 1), H)' /\ OwnMove("sys") /\ EvtTypeOK'
        /\ UNCHANGED <<lists, owner, event, ops>> /\ UNCHANGED client /\ prov' = "on"
    BY <1>1, <2>1, ProvMark
  <2>3. Keepers' /\ \A s \in Tables : Kept(s)
    BY <2>2, ListsStay
  <2>4. HasGuest("framework")'
    BY <1>2, <1>6, <2>3 DEF Kept, GuestIff, HasGuest, t
  <2>5. Rest(Join, 5) = <<>>
    <3>1. Len(Join) + 1 = 5
      BY JoinCode
    <3> QED BY <1>1, <3>1, WholeAndNothing
  <2>6. Resting("sys")'
    BY <2>1, <2>2, <2>5 DEF Resting
  <2> QED BY <1>2, <1>6, <2>2, <2>3, <2>4, <2>6
<1> QED BY <1>3, <1>4, <1>5, <1>6

\* Its leaving.
LEMMA LeaveMoves ==
  ASSUME EvtTypeOK, Keepers, Shaped, Step("prov"), NEW n \in 1..4, LeavesAt(n),
         GuestIff("framework", n <= 2)
  PROVE  /\ OwnMove("prov") /\ EvtTypeOK' /\ Keepers' /\ UNCHANGED <<client, event, ops>>
         /\ Kept("control") /\ Kept("socket")
         /\ n # 4 => /\ UNCHANGED prov /\ LeavesAt(n + 1)' /\ GuestIff("framework", n + 1 <= 2)'
         /\ n = 4 => prov' = "off" /\ Resting("prov")' /\ Alone("framework")'
<1> DEFINE H == Outer(n)
           t == "framework"
<1>1. /\ Leave \in Seq(Instructions) /\ n \in 1..Len(Leave) /\ "prov" \in Tasks
      /\ At("prov", Rest(Leave, n), H)
  BY LeaveCode DEF LeavesAt, Tasks
<1>2. t \in Tables /\ "control" \in Tables \ {t} /\ "socket" \in Tables \ {t}
  BY DEF Tables
<1> HIDE DEF t
<1>3. CASE n = 1
  <2>1. Leave[n] = Do("take", t, Null) /\ H \cup {t} = Outer(n + 1)
    BY <1>3, LeaveCode DEF Outer, t
  <2>2. /\ At("prov", Rest(Leave, n + 1), H \cup {t})' /\ OwnMove("prov") /\ EvtTypeOK'
        /\ Quiet /\ UNCHANGED client
    BY <1>1, <1>2, <2>1, TakeMoves
  <2>3. Keepers' /\ \A s \in Tables : Kept(s)
    BY <2>2, ListsStay DEF Quiet
  <2>4. GuestIff("framework", n + 1 <= 2)'
    BY <1>2, <1>3, <2>3 DEF Kept, GuestIff, HasGuest, t
  <2>5. LeavesAt(n + 1)'
    BY <2>1, <2>2 DEF LeavesAt
  <2> QED BY <1>2, <1>3, <2>2, <2>3, <2>4, <2>5 DEF Quiet
<1>4. CASE n = 2
  <2>1. Leave[n] = Do("remove", t, Guest[t]) /\ t \in H /\ H = Outer(n + 1)
    BY <1>4, LeaveCode DEF Outer, t, Guest
  <2>2. HasGuest(t)
    BY <1>4 DEF GuestIff, t
  <2> HIDE DEF H
  <2>3. /\ At("prov", Rest(Leave, n + 1), H)' /\ OwnMove("prov") /\ EvtTypeOK' /\ Keepers'
        /\ UNCHANGED <<owner, client, prov, event, ops>>
        /\ Alone(t)' /\ \A s \in Tables \ {t} : Kept(s)
    BY <1>1, <1>2, <2>1, <2>2, RemoveStep
  <2>4. GuestIff("framework", n + 1 <= 2)'
    BY <1>4, <2>3 DEF GuestIff, t
  <2>5. LeavesAt(n + 1)'
    BY <2>1, <2>3 DEF LeavesAt
  <2> QED BY <1>2, <1>4, <2>3, <2>4, <2>5
<1>5. CASE n = 3
  <2>1. Leave[n] = Do("give", t, Null) /\ t \in H /\ H \ {t} = Outer(n + 1)
    BY <1>5, LeaveCode DEF Outer, t
  <2> HIDE DEF H
  <2>2. /\ At("prov", Rest(Leave, n + 1), H \ {t})' /\ OwnMove("prov") /\ EvtTypeOK'
        /\ Quiet /\ UNCHANGED client
    BY <1>1, <1>2, <2>1, GiveMoves
  <2>3. Keepers' /\ \A s \in Tables : Kept(s)
    BY <2>2, ListsStay DEF Quiet
  <2>4. GuestIff("framework", n + 1 <= 2)'
    BY <1>2, <1>5, <2>3 DEF Kept, GuestIff, HasGuest, t
  <2>5. LeavesAt(n + 1)'
    BY <2>1, <2>2 DEF LeavesAt
  <2> QED BY <1>2, <1>5, <2>2, <2>3, <2>4, <2>5 DEF Quiet
<1>6. CASE n = 4
  <2>1. Leave[n] = Do("prov", Nobody, "off") /\ H = {} /\ n + 1 = 5
    BY <1>6, LeaveCode DEF Outer
  <2> HIDE DEF H
  <2>2. /\ At("prov", Rest(Leave, n + 1), H)' /\ OwnMove("prov") /\ EvtTypeOK'
        /\ UNCHANGED <<lists, owner, event, ops>> /\ UNCHANGED client /\ prov' = "off"
    BY <1>1, <2>1, ProvMark
  <2>3. Keepers' /\ \A s \in Tables : Kept(s)
    BY <2>2, ListsStay
  <2>4. Alone("framework")'
    BY <1>2, <1>6, <2>3 DEF Kept, GuestIff, HasGuest, t
  <2>5. Rest(Leave, 5) = <<>>
    <3>1. Len(Leave) + 1 = 5
      BY LeaveCode
    <3> QED BY <1>1, <3>1, WholeAndNothing
  <2>6. Resting("prov")'
    BY <2>1, <2>2, <2>5 DEF Resting
  <2> QED BY <1>2, <1>6, <2>2, <2>3, <2>4, <2>6
<1> QED BY <1>3, <1>4, <1>5, <1>6

-----------------------------------------------------------------------------
\* The places are apart.
LEMMA RestIndex ==
  ASSUME NEW P \in Seq(Instructions), NEW n \in 1..Len(P)
  PROVE  /\ Rest(P, n) \in Seq(Instructions) /\ Len(Rest(P, n)) = Len(P) - n + 1
         /\ \A j \in 1..Len(P) - n + 1 : Rest(P, n)[j] = P[n + j - 1]
BY SubSeqProperties DEF Rest

\* Whatever is left of a program has its last instruction.
LEMMA LastOfRest ==
  ASSUME NEW P \in Seq(Instructions), NEW n \in 1..Len(P)
  PROVE  Rest(P, n) # <<>> /\ Rest(P, n)[Len(Rest(P, n))] = P[Len(P)]
<1>1. /\ Len(Rest(P, n)) = Len(P) - n + 1
      /\ \A j \in 1..Len(P) - n + 1 : Rest(P, n)[j] = P[n + j - 1]
  BY RestIndex
<1>2. /\ Len(P) \in Nat /\ Len(P) - n + 1 \in 1..Len(P) - n + 1
      /\ n + (Len(P) - n + 1) - 1 = Len(P)
  BY LenProperties
<1> QED BY <1>1, <1>2, RestOf

Ends(k, x) == todo[k] # <<>> /\ todo[k][Len(todo[k])] = x

\* A notification ends with giving the mutex of its table.
LEMMA EndOfNotify ==
  ASSUME NEW k \in Tasks, NEW t \in Tables, Notifying(k, t)
  PROVE  Ends(k, Do("give", t, Null))
<1> DEFINE P == Notify(t)
<1>1. P \in Seq(Instructions) /\ Len(P) = 3 /\ P[Len(P)] = Do("give", t, Null)
  BY NotifyCode
<1>2. Rest(P, 1) = P
  BY <1>1, WholeAndNothing
<1>3. ASSUME NEW n \in 1..3, NEW H, At(k, Rest(P, n), H) PROVE Ends(k, Do("give", t, Null))
  <2>1. n \in 1..Len(P)
    BY <1>1
  <2> HIDE DEF P
  <2>2. Rest(P, n) # <<>> /\ Rest(P, n)[Len(Rest(P, n))] = P[Len(P)]
    BY <1>1, <2>1, LastOfRest
  <2> QED BY <1>1, <1>3, <2>2 DEF At, Ends
<1>4. ASSUME NEW w \in {"call", "after"}, NEW e \in Entries, At(k, Visit(w, t, e), {t})
      PROVE  Ends(k, Do("give", t, Null))
  <2>1. /\ Visit(w, t, e) # <<>> /\ Len(Visit(w, t, e)) = 2
        /\ Visit(w, t, e)[2] = Do("give", t, Null)
    BY VisitCode
  <2> QED BY <1>4, <2>1 DEF At, Ends
<1> HIDE DEF P
<1>5. CASE At(k, P, {})
  <2>1. 1 \in 1..3 /\ At(k, Rest(P, 1), {})
    BY <1>2, <1>5
  <2> QED BY <1>3, <2>1
<1>6. CASE \E n \in 2..3 : At(k, Rest(P, n), {t})
  BY <1>3, <1>6
<1> QED BY <1>4, <1>5, <1>6 DEF Notifying, P

\* So does one the client's start is in.
LEMMA EndOfStart ==
  ASSUME NEW k \in Tasks, NEW n \in 1..7, StartsAt(k, n)
  PROVE  Ends(k, Do("give", "framework", Null))
<1>1. /\ Start \in Seq(Instructions) /\ n \in 1..Len(Start)
      /\ Start[Len(Start)] = Do("give", "framework", Null)
  BY StartCode
<1>2. Rest(Start, n) # <<>> /\ Rest(Start, n)[Len(Rest(Start, n))] = Start[Len(Start)]
  BY <1>1, LastOfRest
<1> QED BY <1>1, <1>2 DEF StartsAt, At, Ends

\* The arrival ends with its mark.
LEMMA EndOfJoin ==
  ASSUME NEW n \in 1..4, JoinsAt(n)
  PROVE  Ends("sys", Do("prov", Nobody, "on"))
<1>1. /\ Join \in Seq(Instructions) /\ n \in 1..Len(Join)
      /\ Join[Len(Join)] = Do("prov", Nobody, "on")
  BY JoinCode
<1>2. Rest(Join, n) # <<>> /\ Rest(Join, n)[Len(Rest(Join, n))] = Join[Len(Join)]
  BY <1>1, LastOfRest
<1> QED BY <1>1, <1>2 DEF JoinsAt, At, Ends

\* The leaving ends with its mark.
LEMMA EndOfLeave ==
  ASSUME NEW n \in 1..4, LeavesAt(n)
  PROVE  Ends("prov", Do("prov", Nobody, "off"))
<1>1. /\ Leave \in Seq(Instructions) /\ n \in 1..Len(Leave)
      /\ Leave[Len(Leave)] = Do("prov", Nobody, "off")
  BY LeaveCode
<1>2. Rest(Leave, n) # <<>> /\ Rest(Leave, n)[Len(Rest(Leave, n))] = Leave[Len(Leave)]
  BY <1>1, LastOfRest
<1> QED BY <1>1, <1>2 DEF LeavesAt, At, Ends

\* The stop has something to do.
LEMMA EndOfStop ==
  ASSUME NEW n \in 1..7, StopsAt(n)
  PROVE  todo["client"] # <<>>
<1>1. StopClient \in Seq(Instructions) /\ n \in 1..Len(StopClient)
  BY StopClientCode
<1>2. Rest(StopClient, n) # <<>>
  BY <1>1, RestOf
<1> QED BY <1>2 DEF StopsAt, At

\* A caller is at rest or ends with giving the framework's mutex.
LEMMA EndOfBusy ==
  ASSUME NEW k \in Tasks, Busy(k)
  PROVE  Resting(k) \/ Ends(k, Do("give", "framework", Null))
<1>1. "framework" \in Tables
  BY DEF Tables
<1> QED BY <1>1, EndOfNotify, EndOfStart DEF Busy, Outside

\* Who arrives or leaves does nothing else.
LEMMA Apart ==
  /\ \A n \in 1..4 : JoinsAt(n) => ~Busy("sys")
  /\ \A n \in 1..4 : LeavesAt(n) => ~Busy("prov")
  /\ \A k \in Callers : \A n \in 1..7 : StartsAt(k, n) => Busy(k)
<1>1. Do("give", "framework", Null).what # Do("prov", Nobody, "on").what
      /\ Do("give", "framework", Null).what # Do("prov", Nobody, "off").what
  BY DEF Do
<1>2. "sys" \in Tasks /\ "prov" \in Tasks
  BY DEF Tasks
<1>3. \A k \in Tasks : Resting(k) => todo[k] = <<>>
  BY DEF Resting, At
<1>4. ASSUME NEW n \in 1..4, JoinsAt(n), Busy("sys") PROVE FALSE
  BY <1>1, <1>2, <1>3, <1>4, EndOfJoin, EndOfBusy DEF Ends
<1>5. ASSUME NEW n \in 1..4, LeavesAt(n), Busy("prov") PROVE FALSE
  BY <1>1, <1>2, <1>3, <1>5, EndOfLeave, EndOfBusy DEF Ends
<1> QED BY <1>4, <1>5 DEF Busy

\* A task with nothing to do rests, one with something does not.
LEMMA AtRest ==
  /\ \A k \in Callers : (Busy(k) \/ Calm(k)) /\ todo[k] = <<>> => Resting(k)
  /\ \A k \in Tasks : Resting(k) => todo[k] = <<>>
  /\ \A k \in Tasks, t \in Tables : Notifying(k, t) => todo[k] # <<>>
  /\ \A k \in Callers, n \in 1..7 : StartsAt(k, n) => todo[k] # <<>>
  /\ \A n \in 1..7 : StopsAt(n) => todo["client"] # <<>>
  /\ \A n \in 1..4 : JoinsAt(n) => todo["sys"] # <<>>
  /\ \A n \in 1..4 : LeavesAt(n) => todo["prov"] # <<>>
<1>1. Callers \subseteq Tasks /\ "framework" \in Tables
  BY DEF Callers, Tasks, Tables
<1>2. \A k \in Tasks : Resting(k) => todo[k] = <<>>
  BY DEF Resting, At
<1>3. \A k \in Tasks : \A t \in Tables : Notifying(k, t) => todo[k] # <<>>
  BY EndOfNotify DEF Ends
<1>4. \A k \in Callers : \A n \in 1..7 : StartsAt(k, n) => todo[k] # <<>>
  BY <1>1, EndOfStart DEF Ends
<1>5. \A n \in 1..7 : StopsAt(n) => todo["client"] # <<>>
  BY EndOfStop
<1>6. \A n \in 1..4 : JoinsAt(n) => todo["sys"] # <<>>
  BY EndOfJoin DEF Ends
<1>7. \A n \in 1..4 : LeavesAt(n) => todo["prov"] # <<>>
  BY EndOfLeave DEF Ends
<1>8. ASSUME NEW k \in Callers, Busy(k) \/ Calm(k), todo[k] = <<>> PROVE Resting(k)
  BY <1>1, <1>3, <1>4, <1>6, <1>7, <1>8 DEF Busy, Calm, Outside
<1> QED BY <1>2, <1>3, <1>4, <1>5, <1>6, <1>7, <1>8

-----------------------------------------------------------------------------
\* Every step keeps the invariant.
LEMMA CallerNames == Callers \subseteq Tasks /\ "framework" \in Tables /\ Callers = {"sys", "prov"}
BY DEF Callers, Tasks, Tables

\* The other tasks stay in the places of the phases.
LEMMA OthersToo ==
  ASSUME NEW k \in Tasks, NEW j \in Tasks \ {k}, OwnMove(k)
  PROVE  /\ Outside(j) => Outside(j)'
         /\ Busy(j) => Busy(j)'
         /\ Calm(j) => Calm(j)'
<1>1. Outside(j) => Outside(j)'
  BY Others, CallerNames DEF Outside
<1>2. Busy(j) => Busy(j)'
  BY <1>1, Others DEF Busy
<1>3. Calm(j) => Calm(j)'
  BY <1>1, Others DEF Calm
<1> QED BY <1>1, <1>2, <1>3

\* Every table is alone or has its guest.
LEMMA TablesShaped ==
  ASSUME ProvPhase, ClientPhase
  PROVE  Shaped
<1>1. Alone("framework") \/ HasGuest("framework")
  BY DEF ProvPhase, ProvAway, ProvHere, ProvJoins, ProvLeaves, GuestIff
<1>2. (Alone("control") \/ HasGuest("control")) /\ (Alone("socket") \/ HasGuest("socket"))
  BY DEF ClientPhase, ClientOff, ClientOn, ClientStarting, ClientStopping, GuestIff
<1> QED BY <1>1, <1>2 DEF Shaped, Tables

\* The phase of the provisioning task after a step of task k.
LEMMA ProvStays ==
  ASSUME NEW k \in Tasks, OwnMove(k), UNCHANGED prov, Kept("framework"), ProvPhase,
         k = "sys" => Busy("sys")' /\ ~\E n \in 1..4 : ProvJoins(n),
         k = "prov" => Busy("prov")' /\ ProvHere
  PROVE  ProvPhase'
<1>1. "sys" \in Tasks /\ "prov" \in Tasks
  BY DEF Tasks
<1>2. Busy("sys") => Busy("sys")'
  BY <1>1, OthersToo
<1>3. Busy("prov") => Busy("prov")'
  BY <1>1, OthersToo
<1>4. ASSUME ProvAway PROVE ProvAway'
  BY <1>1, <1>2, <1>4, Others DEF ProvAway, ProvHere, Kept
<1>5. ASSUME ProvHere PROVE ProvHere'
  BY <1>2, <1>3, <1>5 DEF ProvHere, Kept, HasGuest
<1>6. ASSUME NEW n \in 1..4, ProvJoins(n) PROVE ProvJoins(n)'
  <2>1. k # "sys"
    BY <1>6
  <2>2. k # "prov"
    BY <1>6 DEF ProvHere, ProvJoins
  <2>3. Resting("prov")'
    BY <1>1, <1>6, <2>2, Others DEF ProvJoins
  <2>4. JoinsAt(n)'
    BY <1>1, <1>6, <2>1, Others DEF ProvJoins
  <2>5. GuestIff("framework", n > 2)'
    BY <1>6 DEF ProvJoins, GuestIff, Kept, HasGuest
  <2> QED BY <1>6, <2>3, <2>4, <2>5 DEF ProvJoins
<1>7. ASSUME NEW n \in 1..4, ProvLeaves(n) PROVE ProvPhase'
  <2>1. CASE k = "prov"
    BY <1>5, <2>1 DEF ProvPhase
  <2>2. CASE k # "prov"
    <3>1. LeavesAt(n)'
      BY <1>1, <1>7, <2>2, Others DEF ProvLeaves
    <3>2. GuestIff("framework", n <= 2)'
      BY <1>7 DEF ProvLeaves, GuestIff, Kept, HasGuest
    <3>3. ProvLeaves(n)'
      BY <1>2, <1>7, <3>1, <3>2 DEF ProvLeaves
    <3> QED BY <3>3 DEF ProvPhase
  <2> QED BY <2>1, <2>2
<1> QED BY <1>4, <1>5, <1>6, <1>7 DEF ProvPhase

\* The phase of the client after a step that is not of its start or its stop.
LEMMA ClientStays ==
  ASSUME NEW k \in Tasks \ {"client"}, OwnMove(k), UNCHANGED client, Kept("control"), Kept("socket"),
         ClientPhase, k \in Callers => Calm(k)' /\ ~\E n \in 1..7 : ClientStarting(k, n)
  PROVE  ClientPhase'
<1>1. Callers \subseteq Tasks /\ "client" \in Tasks
  BY DEF Callers, Tasks
<1>2. \A j \in Callers : Calm(j) => Calm(j)'
  BY <1>1, OthersToo
<1>3. Resting("client") => Resting("client")'
  BY <1>1, Others
<1>4. /\ \A b \in BOOLEAN : GuestIff("control", b) => GuestIff("control", b)'
      /\ \A b \in BOOLEAN : GuestIff("socket", b) => GuestIff("socket", b)'
      /\ Alone("control") => Alone("control")'
      /\ Alone("socket") => Alone("socket")'
      /\ HasGuest("control") => HasGuest("control")'
      /\ HasGuest("socket") => HasGuest("socket")'
  BY DEF Kept, GuestIff, HasGuest
<1>5. ASSUME ClientOff PROVE ClientOff'
  BY <1>2, <1>3, <1>4, <1>5 DEF ClientOff
<1>6. ASSUME ClientOn PROVE ClientOn'
  BY <1>2, <1>3, <1>4, <1>6 DEF ClientOn
<1>7. ASSUME NEW n \in 1..7, ClientStopping(n) PROVE ClientStopping(n)'
  <2>1. StopsAt(n)'
    BY <1>1, <1>7, Others DEF ClientStopping
  <2>2. GuestIff("control", n <= 2)' /\ GuestIff("socket", n <= 5)'
    BY <1>7 DEF ClientStopping, Kept, GuestIff, HasGuest
  <2> QED BY <1>2, <1>7, <2>1, <2>2 DEF ClientStopping
<1>8. ASSUME NEW n \in 1..7, NEW j \in Callers, ClientStarting(j, n) PROVE ClientStarting(j, n)'
  <2>1. j # k
    BY <1>8
  <2>2. StartsAt(j, n)'
    BY <1>1, <1>8, <2>1, Others DEF ClientStarting
  <2>3. GuestIff("control", n > 2)' /\ GuestIff("socket", n > 5)'
    BY <1>8 DEF ClientStarting, Kept, GuestIff, HasGuest
  <2> QED BY <1>2, <1>3, <1>8, <2>2, <2>3 DEF ClientStarting
<1> QED BY <1>5, <1>6, <1>7, <1>8 DEF ClientPhase

\* A step within the client's start.
LEMMA StartingStep ==
  ASSUME EvtTypeOK, Keepers, NEW k \in Callers, NEW n \in 1..7, ClientStarting(k, n), Step(k)
  PROVE  /\ OwnMove(k) /\ EvtTypeOK' /\ Keepers' /\ UNCHANGED <<prov, event, ops>>
         /\ Kept("framework") /\ Busy(k)' /\ ClientPhase'
<1>1. k \in Tasks /\ "client" \in Tasks \ {k} /\ \A j \in Callers \ {k} : j \in Tasks \ {k}
  BY DEF Callers, Tasks
<1>2. /\ OwnMove(k) /\ EvtTypeOK' /\ Keepers' /\ UNCHANGED <<prov, event, ops>>
      /\ Kept("framework")
      /\ n # 7 => /\ UNCHANGED client /\ StartsAt(k, n + 1)'
                  /\ GuestIff("control", n + 1 > 2)' /\ GuestIff("socket", n + 1 > 5)'
      /\ n = 7 => /\ client' = "on" /\ Notifying(k, "framework")'
                  /\ HasGuest("control")' /\ HasGuest("socket")'
  BY <1>1, StartMoves DEF ClientStarting
<1>3. Resting("client")' /\ \A j \in Callers \ {k} : Calm(j)'
  BY <1>1, <1>2, Others, OthersToo DEF ClientStarting
<1>4. CASE n = 7
  <2>1. Outside(k)'
    BY <1>2, <1>4 DEF Outside
  <2>2. Busy(k)' /\ Calm(k)'
    BY <2>1 DEF Busy, Calm
  <2>3. ClientOn'
    BY <1>2, <1>3, <1>4, <2>2 DEF ClientOn
  <2> QED BY <1>2, <2>2, <2>3 DEF ClientPhase
<1>5. CASE n # 7
  <2>1. n + 1 \in 1..7
    BY <1>5
  <2>2. ClientStarting(k, n + 1)'
    BY <1>2, <1>3, <1>5 DEF ClientStarting
  <2>3. Busy(k)'
    BY <1>2, <1>5, <2>1 DEF Busy
  <2> QED BY <1>2, <2>1, <2>2, <2>3 DEF ClientPhase
<1> QED BY <1>4, <1>5

\* A step of a notification by one of the callers.
LEMMA CallerStep ==
  ASSUME EvtTypeOK, Keepers, Shaped, ClientPhase, NEW k \in Callers,
         ~\E n \in 1..7 : ClientStarting(k, n), Notifying(k, "framework"), Step(k)
  PROVE  /\ OwnMove(k) /\ EvtTypeOK' /\ Quiet /\ Busy(k)' /\ ClientPhase'
<1>1. k \in Tasks \ {"client"} /\ "framework" \in Tables
  BY DEF Callers, Tasks, Tables
<1>2. Notified(k, "framework")
  BY <1>1, NotifyMoves DEF Shaped
<1>3. Quiet /\ OwnMove(k) /\ EvtTypeOK' /\ \A t \in Tables : Kept(t)
  BY <1>2, ListsStay DEF Notified, Quiet
<1>4. Kept("control") /\ Kept("socket")
  BY <1>3 DEF Tables
<1>5. CASE UNCHANGED client /\ (Resting(k)' \/ Notifying(k, "framework")')
  <2>1. Outside(k)'
    BY <1>5 DEF Outside
  <2>2. Busy(k)' /\ Calm(k)'
    BY <2>1 DEF Busy, Calm
  <2> QED BY <1>1, <1>3, <1>4, <1>5, <2>2, ClientStays
<1>6. CASE client = "on" /\ client' = "stopping" /\ Notifying(k, "framework")'
  <2>1. Outside(k)'
    BY <1>6 DEF Outside
  <2>2. Busy(k)' /\ Calm(k)'
    BY <2>1 DEF Busy, Calm
  <2>3. ClientOn
    BY <1>6 DEF ClientPhase, ClientOff, ClientStarting, ClientStopping
  <2>4. "client" \in Tasks \ {k} /\ \A j \in Callers \ {k} : j \in Tasks \ {k}
    BY DEF Callers, Tasks
  <2>5. Resting("client")' /\ \A j \in Callers \ {k} : Calm(j)'
    BY <1>1, <1>3, <2>3, <2>4, Others, OthersToo DEF ClientOn
  <2>6. HasGuest("control")' /\ HasGuest("socket")'
    BY <1>4, <2>3 DEF ClientOn, Kept, HasGuest
  <2>7. ClientOn'
    BY <1>6, <2>2, <2>5, <2>6 DEF ClientOn
  <2> QED BY <1>3, <2>2, <2>7 DEF ClientPhase
<1>7. CASE client = "off" /\ UNCHANGED client /\ StartsAt(k, 1)'
  <2>1. owner'["framework"] = k
    BY <1>1, <1>7 DEF StartsAt, At, Holds
  <2>2. ClientOff
    <3>1. ASSUME NEW n \in 1..7, NEW j \in Callers, ClientStarting(j, n) PROVE FALSE
      <4>1. j # k
        BY <3>1
      <4>2. owner["framework"] = j
        BY <1>1, <3>1 DEF ClientStarting, StartsAt, At, Holds
      <4>3. owner'["framework"] = j
        BY <1>1, <1>3, <4>1, <4>2, CallerNames DEF OwnMove
      <4> QED BY <2>1, <4>1, <4>3
    <3> QED BY <1>7, <3>1 DEF ClientPhase, ClientOn, ClientStopping
  <2>3. "client" \in Tasks \ {k} /\ \A j \in Callers \ {k} : j \in Tasks \ {k}
    BY DEF Callers, Tasks
  <2>4. Resting("client")' /\ \A j \in Callers \ {k} : Calm(j)'
    BY <1>1, <1>3, <2>2, <2>3, Others, OthersToo DEF ClientOff
  <2>5. Alone("control")' /\ Alone("socket")'
    BY <1>4, <2>2 DEF ClientOff, Kept
  <2>6. GuestIff("control", 1 > 2)' /\ GuestIff("socket", 1 > 5)'
    BY <2>5 DEF GuestIff
  <2>7. ClientStarting(k, 1)'
    BY <1>7, <2>4, <2>6 DEF ClientStarting
  <2>8. 1 \in 1..7
    OBVIOUS
  <2> QED BY <1>3, <1>7, <2>7, <2>8 DEF ClientPhase, Busy
<1> QED BY <1>2, <1>5, <1>6, <1>7 DEF Notified

\* A step of each task.
LEMMA SysStep ==
  ASSUME EvtInv, Step("sys")
  PROVE  EvtInv'
<1> USE DEF EvtInv
<1>1. "sys" \in Tasks \ {"client"} /\ "sys" \in Callers /\ \A j \in {"control", "meter"} : j \in Tasks \ {"sys"}
  BY DEF Tasks, Callers
<1>2. Shaped /\ todo["sys"] # <<>>
  BY TablesShaped DEF Step, Take, Give, First, Call, After, Change, Mark, Goes
<1>3. OwnMove("sys") => OwnPlaces'
  <2>1. "control" \in Tables /\ "socket" \in Tables
    BY DEF Tables
  <2> QED BY <1>1, <2>1, Others DEF OwnPlaces
<1>4. ASSUME NEW n \in 1..7, ClientStarting("sys", n) PROVE EvtInv'
  <2>1. /\ OwnMove("sys") /\ EvtTypeOK' /\ Keepers' /\ UNCHANGED <<prov, event, ops>>
        /\ Kept("framework") /\ Busy("sys")' /\ ClientPhase'
    BY <1>1, <1>4, StartingStep
  <2>2. Busy("sys")
    BY <1>1, <1>4, Apart DEF ClientStarting
  <2>3. ~\E m \in 1..4 : ProvJoins(m)
    BY <2>2, Apart DEF ProvJoins
  <2>4. ProvPhase'
    BY <1>1, <2>1, <2>3, ProvStays
  <2> QED BY <1>3, <2>1, <2>4
<1>5. ASSUME ~\E n \in 1..7 : ClientStarting("sys", n) PROVE EvtInv'
  <2>1. Calm("sys")
    BY <1>1, <1>5 DEF ClientPhase, ClientOff, ClientOn, ClientStarting, ClientStopping
  <2>2. ASSUME NEW n \in 1..4, ProvJoins(n) PROVE EvtInv'
    <3>1. /\ OwnMove("sys") /\ EvtTypeOK' /\ Keepers' /\ UNCHANGED <<client, event, ops>>
          /\ Kept("control") /\ Kept("socket")
          /\ n # 4 => /\ UNCHANGED prov /\ JoinsAt(n + 1)' /\ GuestIff("framework", n + 1 > 2)'
          /\ n = 4 => prov' = "on" /\ Resting("sys")' /\ HasGuest("framework")'
      BY <1>2, <2>2, JoinMoves DEF ProvJoins
    <3>2. Resting("prov")'
      <4>1. "prov" \in Tasks \ {"sys"}
        BY DEF Tasks
      <4> QED BY <1>1, <2>2, <3>1, <4>1, Others DEF ProvJoins
    <3>3. CASE n = 4
      <4>1. Busy("sys")' /\ Calm("sys")' /\ Busy("prov")'
        BY <3>1, <3>2, <3>3 DEF Busy, Calm, Outside
      <4>2. ProvPhase'
        BY <3>1, <3>3, <4>1 DEF ProvPhase, ProvHere
      <4>3. ClientPhase'
        BY <1>1, <1>5, <3>1, <4>1, ClientStays
      <4> QED BY <1>3, <3>1, <4>2, <4>3
    <3>4. CASE n # 4
      <4>1. n + 1 \in 1..4
        BY <3>4
      <4>2. Calm("sys")'
        BY <3>1, <3>4, <4>1 DEF Calm
      <4>3. ProvJoins(n + 1)'
        BY <2>2, <3>1, <3>2, <3>4 DEF ProvJoins
      <4>4. ProvPhase'
        BY <4>1, <4>3 DEF ProvPhase
      <4>5. ClientPhase'
        BY <1>1, <1>5, <3>1, <4>2, ClientStays
      <4> QED BY <1>3, <3>1, <4>4, <4>5
    <3> QED BY <3>3, <3>4
  <2>3. ASSUME ~\E n \in 1..4 : ProvJoins(n) PROVE EvtInv'
    <3>1. Busy("sys")
      BY <2>3 DEF ProvPhase, ProvAway, ProvHere, ProvLeaves
    <3>2. Outside("sys")
      BY <2>1, <3>1, Apart DEF Calm
    <3>3. Notifying("sys", "framework")
      BY <1>1, <1>2, <3>2, AtRest DEF Outside
    <3>4. /\ OwnMove("sys") /\ EvtTypeOK' /\ Quiet /\ Busy("sys")' /\ ClientPhase'
      BY <1>1, <1>2, <1>5, <3>3, CallerStep
    <3>5. Keepers' /\ Kept("framework")
      BY <3>4, ListsStay, CallerNames DEF Quiet
    <3>6. ProvPhase'
      BY <1>1, <2>3, <3>4, <3>5, ProvStays DEF Quiet
    <3> QED BY <1>3, <3>4, <3>5, <3>6
  <2> QED BY <2>2, <2>3
<1> QED BY <1>4, <1>5

\* Of the provisioning task.
LEMMA ProvStep ==
  ASSUME EvtInv, Step("prov")
  PROVE  EvtInv'
<1> USE DEF EvtInv
<1>1. "prov" \in Tasks \ {"client"} /\ "prov" \in Callers /\ \A j \in {"control", "meter"} : j \in Tasks \ {"prov"}
  BY DEF Tasks, Callers
<1>2. Shaped /\ todo["prov"] # <<>>
  BY TablesShaped DEF Step, Take, Give, First, Call, After, Change, Mark, Goes
<1>3. OwnMove("prov") => OwnPlaces'
  <2>1. "control" \in Tables /\ "socket" \in Tables
    BY DEF Tables
  <2> QED BY <1>1, <2>1, Others DEF OwnPlaces
<1>4. ~Resting("prov")
  BY <1>1, <1>2, AtRest
<1>5. ASSUME NEW n \in 1..7, ClientStarting("prov", n) PROVE EvtInv'
  <2>1. /\ OwnMove("prov") /\ EvtTypeOK' /\ Keepers' /\ UNCHANGED <<prov, event, ops>>
        /\ Kept("framework") /\ Busy("prov")' /\ ClientPhase'
    BY <1>1, <1>5, StartingStep
  <2>2. Busy("prov")
    BY <1>1, <1>5, Apart DEF ClientStarting
  <2>3. ProvHere
    BY <1>4, <2>2, Apart DEF ProvPhase, ProvAway, ProvJoins, ProvLeaves
  <2>4. ProvPhase'
    BY <1>1, <2>1, <2>3, ProvStays
  <2> QED BY <1>3, <2>1, <2>4
<1>6. ASSUME ~\E n \in 1..7 : ClientStarting("prov", n) PROVE EvtInv'
  <2>1. Calm("prov")
    BY <1>1, <1>6 DEF ClientPhase, ClientOff, ClientOn, ClientStarting, ClientStopping
  <2>2. ASSUME NEW n \in 1..4, ProvLeaves(n) PROVE EvtInv'
    <3>1. /\ OwnMove("prov") /\ EvtTypeOK' /\ Keepers' /\ UNCHANGED <<client, event, ops>>
          /\ Kept("control") /\ Kept("socket")
          /\ n # 4 => /\ UNCHANGED prov /\ LeavesAt(n + 1)' /\ GuestIff("framework", n + 1 <= 2)'
          /\ n = 4 => prov' = "off" /\ Resting("prov")' /\ Alone("framework")'
      BY <1>2, <2>2, LeaveMoves DEF ProvLeaves
    <3>2. Busy("sys")'
      <4>1. "sys" \in Tasks \ {"prov"}
        BY DEF Tasks
      <4> QED BY <1>1, <2>2, <3>1, <4>1, OthersToo DEF ProvLeaves
    <3>3. CASE n = 4
      <4>1. Calm("prov")'
        BY <3>1, <3>3 DEF Calm, Outside
      <4>2. ProvPhase'
        BY <3>1, <3>2, <3>3 DEF ProvPhase, ProvAway
      <4>3. ClientPhase'
        BY <1>1, <1>6, <3>1, <4>1, ClientStays
      <4> QED BY <1>3, <3>1, <4>2, <4>3
    <3>4. CASE n # 4
      <4>1. n + 1 \in 1..4
        BY <3>4
      <4>2. Calm("prov")'
        BY <3>1, <3>4, <4>1 DEF Calm
      <4>3. ProvLeaves(n + 1)'
        BY <2>2, <3>1, <3>2, <3>4 DEF ProvLeaves
      <4>4. ProvPhase'
        BY <4>1, <4>3 DEF ProvPhase
      <4>5. ClientPhase'
        BY <1>1, <1>6, <3>1, <4>2, ClientStays
      <4> QED BY <1>3, <3>1, <4>4, <4>5
    <3> QED BY <3>3, <3>4
  <2>3. ASSUME ~\E n \in 1..4 : ProvLeaves(n) PROVE EvtInv'
    <3>1. ProvHere
      BY <1>4, <2>3 DEF ProvPhase, ProvAway, ProvJoins
    <3>2. Outside("prov")
      BY <2>1, <3>1, Apart DEF Calm, ProvHere
    <3>3. Notifying("prov", "framework")
      BY <1>4, <3>2 DEF Outside
    <3>4. /\ OwnMove("prov") /\ EvtTypeOK' /\ Quiet /\ Busy("prov")' /\ ClientPhase'
      BY <1>1, <1>2, <1>6, <3>3, CallerStep
    <3>5. Keepers' /\ Kept("framework")
      BY <3>4, ListsStay, CallerNames DEF Quiet
    <3>6. ProvPhase'
      BY <1>1, <3>1, <3>4, <3>5, ProvStays DEF Quiet
    <3> QED BY <1>3, <3>4, <3>5, <3>6
  <2> QED BY <2>2, <2>3
<1> QED BY <1>5, <1>6

\* Of the control task and of the meter's, each with a table of its own.
LEMMA OwnStep ==
  ASSUME EvtInv, NEW k \in Tasks, NEW t \in Tables, Step(k),
         (k = "control" /\ t = "control") \/ (k = "meter" /\ t = "socket")
  PROVE  EvtInv'
<1> USE DEF EvtInv
<1>1. /\ k \in Tasks \ {"client"} /\ k \notin Callers /\ k # "sys" /\ k # "prov"
      /\ "control" \in Tables /\ "socket" \in Tables /\ "control" \in Tasks /\ "meter" \in Tasks
      /\ t # "framework"
  BY DEF Tasks, Callers, Tables
<1>2. Shaped /\ todo[k] # <<>>
  BY TablesShaped DEF Step, Take, Give, First, Call, After, Change, Mark, Goes
<1>3. Notifying(k, t)
  BY <1>2, AtRest DEF OwnPlaces
<1>4. Notified(k, t)
  BY <1>2, <1>3, NotifyMoves DEF Shaped
<1>5. /\ Quiet /\ OwnMove(k) /\ EvtTypeOK' /\ UNCHANGED client
      /\ Resting(k)' \/ Notifying(k, t)'
  BY <1>1, <1>4 DEF Notified
<1>6. Keepers' /\ \A s \in Tables : Kept(s)
  BY <1>5, ListsStay DEF Quiet
<1>7. Kept("framework") /\ Kept("control") /\ Kept("socket")
  BY <1>6 DEF Tables
<1>8. OwnPlaces'
  BY <1>1, <1>5, Others DEF OwnPlaces
<1>9. ProvPhase'
  BY <1>1, <1>5, <1>7, ProvStays DEF Quiet
<1>10. ClientPhase'
  BY <1>1, <1>5, <1>7, ClientStays
<1> QED BY <1>5, <1>6, <1>8, <1>9, <1>10

\* Of the client.
LEMMA ClientStep ==
  ASSUME EvtInv, Step("client")
  PROVE  EvtInv'
<1> USE DEF EvtInv
<1>1. /\ "client" \in Tasks /\ \A j \in {"control", "meter", "sys", "prov"} : j \in Tasks \ {"client"}
      /\ "control" \in Tables /\ "socket" \in Tables /\ Callers = {"sys", "prov"}
  BY DEF Tasks, Callers, Tables
<1>2. Shaped /\ todo["client"] # <<>>
  BY TablesShaped DEF Step, Take, Give, First, Call, After, Change, Mark, Goes
<1>3. ~Resting("client")
  BY <1>1, <1>2, AtRest
<1>4. PICK n \in 1..7 : ClientStopping(n)
  BY <1>3 DEF ClientPhase, ClientOff, ClientOn, ClientStarting
<1>5. /\ OwnMove("client") /\ EvtTypeOK' /\ Keepers' /\ UNCHANGED <<prov, event, ops>>
      /\ Kept("framework")
      /\ n # 7 => /\ UNCHANGED client /\ StopsAt(n + 1)'
                  /\ GuestIff("control", n + 1 <= 2)' /\ GuestIff("socket", n + 1 <= 5)'
      /\ n = 7 => /\ client' = "off" /\ Resting("client")'
                  /\ Alone("control")' /\ Alone("socket")'
  BY <1>2, <1>4, StopMoves DEF ClientStopping
<1>6. OwnPlaces'
  BY <1>1, <1>5, Others DEF OwnPlaces
<1>7. ProvPhase'
  BY <1>1, <1>5, ProvStays
<1>8. \A j \in Callers : Calm(j)'
  BY <1>1, <1>4, <1>5, OthersToo DEF ClientStopping
<1>9. ClientPhase'
  <2>1. CASE n = 7
    BY <1>5, <1>8, <2>1 DEF ClientPhase, ClientOff
  <2>2. CASE n # 7
    <3>1. n + 1 \in 1..7
      BY <2>2
    <3>2. ClientStopping(n + 1)'
      BY <1>4, <1>5, <1>8, <2>2 DEF ClientStopping
    <3> QED BY <3>1, <3>2 DEF ClientPhase
  <2> QED BY <2>1, <2>2
<1> QED BY <1>5, <1>6, <1>7, <1>9

\* What the tasks begin.
LEMMA BeginMoves ==
  ASSUME EvtTypeOK, NEW k \in Tasks, NEW P \in Seq(Instructions), Begin(k, P), Resting(k),
         event' \in [Tasks -> Events]
  PROVE  /\ OwnMove(k) /\ EvtTypeOK' /\ At(k, P, {})' /\ UNCHANGED <<lists, client, prov>>
         /\ \A t \in Tables : Kept(t)
         /\ (Keepers => Keepers')
<1>1. /\ todo' = [todo EXCEPT ![k] = P] /\ UNCHANGED <<lists, owner, client, prov>>
      /\ ops > 0 /\ ops' = ops - 1
  BY DEF Begin
<1>2. todo' \in [Tasks -> Seq(Instructions)] /\ ops' \in 0..MaxOps
  BY <1>1, CallbackAssumption DEF EvtTypeOK, CallbackAssumption
<1>3. EvtTypeOK'
  BY <1>1, <1>2 DEF EvtTypeOK, lists
<1>4. At(k, P, {})'
  BY <1>1 DEF At, Holds, EvtTypeOK, Resting
<1>5. /\ \A t \in Tables : Kept(t)
      /\ (Keepers => Keepers')
  BY <1>1, ListsStay
<1>6. OwnMove(k)
  BY <1>1, <1>5 DEF OwnMove, EvtTypeOK
<1> QED BY <1>1, <1>3, <1>4, <1>5, <1>6

\* The event a task notifies has its type.
LEMMA EventType ==
  ASSUME EvtTypeOK, NEW k \in Tasks
  PROVE  \A ev \in Events : [event EXCEPT ![k] = ev] \in [Tasks -> Events]
BY DEF EvtTypeOK

\* A framework event, or the arrival of the provisioning task.
LEMMA SysBegin ==
  ASSUME EvtInv, SysBegins
  PROVE  EvtInv'
<1> USE DEF EvtInv
<1>1. /\ "sys" \in Tasks \ {"client"} /\ "sys" \in Callers
      /\ \A j \in {"control", "meter", "prov"} : j \in Tasks \ {"sys"}
      /\ "framework" \in Tables /\ "control" \in Tables /\ "socket" \in Tables
  BY DEF Tasks, Callers, Tables
<1>2. todo["sys"] = <<>>
  BY DEF SysBegins, Framework, Begin
<1>3. ~\E n \in 1..4 : ProvJoins(n)
  BY <1>2, AtRest DEF ProvJoins
<1>4. ~\E n \in 1..7 : ClientStarting("sys", n)
  BY <1>1, <1>2, AtRest DEF ClientStarting
<1>5. Busy("sys")
  BY <1>3 DEF ProvPhase, ProvAway, ProvHere, ProvLeaves
<1>6. Resting("sys")
  BY <1>1, <1>2, <1>5, AtRest
<1>7. CASE Framework("sys")
  <2>1. Notify("framework") \in Seq(Instructions) /\ event' \in [Tasks -> Events]
    BY <1>1, <1>7, NotifyCode, EventType DEF Framework
  <2>2. /\ OwnMove("sys") /\ EvtTypeOK' /\ At("sys", Notify("framework"), {})'
        /\ UNCHANGED <<lists, client, prov>> /\ \A t \in Tables : Kept(t)
        /\ (Keepers => Keepers')
    BY <1>1, <1>6, <1>7, <2>1, BeginMoves DEF Framework
  <2>3. Busy("sys")' /\ Calm("sys")'
    BY <2>2 DEF Busy, Calm, Outside, Notifying
  <2>4. ProvPhase' /\ ClientPhase'
    BY <1>1, <1>3, <1>4, <2>2, <2>3, ProvStays, ClientStays
  <2>5. OwnPlaces'
    BY <1>1, <2>2, Others DEF OwnPlaces
  <2> QED BY <2>2, <2>4, <2>5
<1>8. CASE prov = "off" /\ UNCHANGED event /\ Begin("sys", Join)
  <2>1. Join \in Seq(Instructions) /\ event' \in [Tasks -> Events]
    BY <1>8, JoinCode DEF EvtTypeOK
  <2>2. /\ OwnMove("sys") /\ EvtTypeOK' /\ At("sys", Join, {})'
        /\ UNCHANGED <<lists, client, prov>> /\ \A t \in Tables : Kept(t)
        /\ (Keepers => Keepers')
    BY <1>1, <1>6, <1>8, <2>1, BeginMoves
  <2>3. JoinsAt(1)'
    <3>1. Rest(Join, 1) = Join /\ Outer(1) = {}
      BY <2>1, WholeAndNothing DEF Outer
    <3> QED BY <2>2, <3>1 DEF JoinsAt
  <2>4. 1 \in 1..4
    OBVIOUS
  <2>5. ProvAway
    BY <1>3, <1>8 DEF ProvPhase, ProvHere, ProvLeaves
  <2>6. Resting("prov")'
    BY <1>1, <2>2, <2>5, Others DEF ProvAway
  <2>7. GuestIff("framework", 1 > 2)'
    BY <1>1, <2>2, <2>5 DEF ProvAway, Kept, GuestIff
  <2>8. ProvPhase'
    BY <1>8, <2>2, <2>3, <2>4, <2>6, <2>7 DEF ProvPhase, ProvJoins
  <2>9. Calm("sys")'
    BY <2>3, <2>4 DEF Calm
  <2>10. ClientPhase'
    BY <1>1, <1>4, <2>2, <2>9, ClientStays
  <2>11. OwnPlaces'
    BY <1>1, <2>2, Others DEF OwnPlaces
  <2> QED BY <2>2, <2>8, <2>10, <2>11
<1> QED BY <1>7, <1>8 DEF SysBegins, Join

\* An event of the provisioning task.
LEMMA ProvBegin ==
  ASSUME EvtInv, ProvBegins
  PROVE  EvtInv'
<1> USE DEF EvtInv
<1>1. /\ "prov" \in Tasks \ {"client"} /\ "prov" \in Callers
      /\ \A j \in {"control", "meter", "sys"} : j \in Tasks \ {"prov"}
      /\ "framework" \in Tables /\ "control" \in Tables /\ "socket" \in Tables
  BY DEF Tasks, Callers, Tables
<1>2. todo["prov"] = <<>> /\ prov = "on" /\ Framework("prov")
  BY DEF ProvBegins, Framework, Begin
<1>3. ProvHere
  BY <1>2, AtRest DEF ProvPhase, ProvAway, ProvJoins, ProvLeaves
<1>4. ~\E n \in 1..7 : ClientStarting("prov", n)
  BY <1>1, <1>2, AtRest DEF ClientStarting
<1>5. Resting("prov")
  BY <1>1, <1>2, <1>3, AtRest DEF ProvHere
<1>6. Notify("framework") \in Seq(Instructions) /\ event' \in [Tasks -> Events]
  BY <1>1, <1>2, NotifyCode, EventType DEF Framework
<1>7. /\ OwnMove("prov") /\ EvtTypeOK' /\ At("prov", Notify("framework"), {})'
      /\ UNCHANGED <<lists, client, prov>> /\ \A t \in Tables : Kept(t)
      /\ (Keepers => Keepers')
  BY <1>1, <1>2, <1>5, <1>6, BeginMoves DEF Framework
<1>8. Busy("prov")' /\ Calm("prov")'
  BY <1>7 DEF Busy, Calm, Outside, Notifying
<1>9. ProvPhase' /\ ClientPhase'
  BY <1>1, <1>3, <1>4, <1>7, <1>8, ProvStays, ClientStays
<1>10. OwnPlaces'
  BY <1>1, <1>7, Others DEF OwnPlaces
<1> QED BY <1>7, <1>9, <1>10

\* Its leaving, with the memory freed.
LEMMA ProvFree ==
  ASSUME EvtInv, ProvFrees
  PROVE  EvtInv'
<1> USE DEF EvtInv
<1>1. /\ "prov" \in Tasks \ {"client"} /\ "prov" \in Callers
      /\ \A j \in {"control", "meter", "sys"} : j \in Tasks \ {"prov"}
      /\ "framework" \in Tables /\ "control" \in Tables /\ "socket" \in Tables
  BY DEF Tasks, Callers, Tables
<1>2. /\ todo["prov"] = <<>> /\ prov = "on" /\ prov' = "freed" /\ ops > 0 /\ ops' = ops - 1
      /\ todo' = [todo EXCEPT !["prov"] = Leave] /\ UNCHANGED <<lists, owner, event, client>>
  BY DEF ProvFrees, Leave
<1>3. ProvHere
  BY <1>2, AtRest DEF ProvPhase, ProvAway, ProvJoins, ProvLeaves
<1>4. ~\E n \in 1..7 : ClientStarting("prov", n)
  BY <1>1, <1>2, AtRest DEF ClientStarting
<1>5. Resting("prov")
  BY <1>1, <1>2, <1>3, AtRest DEF ProvHere
<1>6. Leave \in Seq(Instructions)
  BY LeaveCode
<1>7. EvtTypeOK'
  <2>1. todo' \in [Tasks -> Seq(Instructions)]
    <3> HIDE DEF Leave
    <3> QED BY <1>2, <1>6 DEF EvtTypeOK
  <2>2. ops \in 0..MaxOps /\ MaxOps \in Nat /\ ops > 0 /\ ops' = ops - 1
    BY <1>2, CallbackAssumption DEF EvtTypeOK, CallbackAssumption
  <2>3. ops' \in 0..MaxOps
    BY <2>2
  <2> QED BY <1>2, <2>1, <2>3 DEF EvtTypeOK, lists
<1>8. At("prov", Leave, {})'
  BY <1>1, <1>2, <1>5 DEF At, Holds, EvtTypeOK, Resting
<1>9. (\A t \in Tables : Kept(t)) /\ Keepers'
  BY <1>2, ListsStay
<1>10. OwnMove("prov")
  BY <1>2, <1>9 DEF OwnMove, EvtTypeOK
<1>11. LeavesAt(1)' /\ 1 \in 1..4
  <2>1. Rest(Leave, 1) = Leave /\ Outer(1) = {}
    BY <1>6, WholeAndNothing DEF Outer
  <2> QED BY <1>8, <2>1 DEF LeavesAt
<1>12. Busy("sys")'
  BY <1>1, <1>3, <1>10, OthersToo DEF ProvHere
<1>13. GuestIff("framework", 1 <= 2)'
  BY <1>1, <1>3, <1>9 DEF ProvHere, Kept, GuestIff, HasGuest
<1>14. ProvPhase'
  BY <1>2, <1>11, <1>12, <1>13 DEF ProvPhase, ProvLeaves
<1>15. ClientPhase'
  <2>1. Calm("prov")'
    BY <1>11 DEF Calm
  <2> QED BY <1>1, <1>2, <1>4, <1>9, <1>10, <2>1, ClientStays
<1>16. OwnPlaces'
  BY <1>1, <1>10, Others DEF OwnPlaces
<1> QED BY <1>7, <1>9, <1>14, <1>15, <1>16

\* An event of the control task or of the meter's.
LEMMA OwnBegin ==
  ASSUME EvtInv, NEW k \in Tasks, NEW t \in Tables, Begin(k, Notify(t)), UNCHANGED event,
         (k = "control" /\ t = "control") \/ (k = "meter" /\ t = "socket")
  PROVE  EvtInv'
<1> USE DEF EvtInv
<1>1. /\ k \in Tasks \ {"client"} /\ k \notin Callers /\ k # "sys" /\ k # "prov"
      /\ "framework" \in Tables /\ "control" \in Tables /\ "socket" \in Tables
      /\ "control" \in Tasks /\ "meter" \in Tasks
  BY DEF Tasks, Callers, Tables
<1>2. Resting(k)
  BY <1>1, AtRest DEF OwnPlaces, Begin
<1>3. Notify(t) \in Seq(Instructions) /\ event' \in [Tasks -> Events]
  BY NotifyCode DEF EvtTypeOK
<1>4. /\ OwnMove(k) /\ EvtTypeOK' /\ At(k, Notify(t), {})'
      /\ UNCHANGED <<lists, client, prov>> /\ \A s \in Tables : Kept(s)
      /\ (Keepers => Keepers')
  BY <1>2, <1>3, BeginMoves
<1>5. Notifying(k, t)'
  BY <1>4 DEF Notifying
<1>6. OwnPlaces'
  BY <1>1, <1>4, <1>5, Others DEF OwnPlaces
<1>7. ProvPhase' /\ ClientPhase'
  BY <1>1, <1>4, ProvStays, ClientStays
<1> QED BY <1>4, <1>6, <1>7

\* The stop of the client.
LEMMA ClientBegin ==
  ASSUME EvtInv, ClientStops
  PROVE  EvtInv'
<1> USE DEF EvtInv
<1>1. /\ "client" \in Tasks /\ \A j \in {"control", "meter", "sys", "prov"} : j \in Tasks \ {"client"}
      /\ "framework" \in Tables /\ "control" \in Tables /\ "socket" \in Tables
      /\ Callers = {"sys", "prov"}
  BY DEF Tasks, Callers, Tables
<1>2. /\ client = "stopping" /\ todo["client"] = <<>>
      /\ todo' = [todo EXCEPT !["client"] = StopClient]
      /\ UNCHANGED <<lists, owner, event, client, prov, ops>>
  BY DEF ClientStops
<1>3. ClientOn
  BY <1>2, AtRest DEF ClientPhase, ClientOff, ClientStarting, ClientStopping
<1>4. StopClient \in Seq(Instructions) /\ Rest(StopClient, 1) = StopClient /\ Inner(1) = {}
  BY StopClientCode, WholeAndNothing DEF Inner
<1>5. At("client", StopClient, {})'
  BY <1>1, <1>2, <1>3 DEF At, Holds, EvtTypeOK, Resting, ClientOn
<1>6. Keepers' /\ \A t \in Tables : Kept(t)
  BY <1>2, ListsStay
<1>7. OwnMove("client")
  BY <1>2, <1>6 DEF OwnMove, EvtTypeOK
<1>8. EvtTypeOK'
  BY <1>2, <1>4 DEF EvtTypeOK, lists
<1>9. OwnPlaces'
  BY <1>1, <1>7, Others DEF OwnPlaces
<1>10. ProvPhase'
  BY <1>1, <1>2, <1>6, <1>7, ProvStays
<1>11. \A j \in Callers : Calm(j)'
  BY <1>1, <1>3, <1>7, OthersToo DEF ClientOn
<1>12. StopsAt(1)' /\ 1 \in 1..7
  BY <1>4, <1>5 DEF StopsAt
<1>13. GuestIff("control", 1 <= 2)' /\ GuestIff("socket", 1 <= 5)'
  BY <1>1, <1>3, <1>6 DEF ClientOn, GuestIff, Kept, HasGuest
<1>14. ClientPhase'
  BY <1>2, <1>11, <1>12, <1>13 DEF ClientPhase, ClientStopping
<1> QED BY <1>6, <1>8, <1>9, <1>10, <1>14

\* It holds after the start-up.
LEMMA EvtInitially == EvtInit => EvtInv
<1> SUFFICES ASSUME EvtInit PROVE EvtInv
  OBVIOUS
<1>1. /\ {1, 2, 3} \subseteq Entries /\ Null \notin Entries /\ MaxOps \in Nat
  BY Heap, CallbackAssumption DEF CallbackAssumption
<1>2. /\ head = KeptAt /\ tail = KeptAt
      /\ \A e \in Entries : next[e] = Null
      /\ \A e \in Entries : func[e] = CASE e = 1 -> "appFrwk" [] e = 2 -> "appSys"
                                        [] e = 3 -> "outlet" [] OTHER -> "free"
  BY DEF EvtInit, KeptAt
<1>3. \A t \in Tables : Alone(t)
  BY <1>1, <1>2 DEF Alone, KeptAt, Guest, Tables
<1>4. Keepers
  BY <1>1, <1>2 DEF Keepers, KeptAt, Keeper, Tables
<1>5. EvtTypeOK
  <2>1. head \in [Tables -> Entries \cup {Null}] /\ tail \in [Tables -> Entries \cup {Null}]
    BY <1>1, <1>2 DEF KeptAt, Tables
  <2>2. func \in [Entries -> Funcs \cup {"free"}] /\ next \in [Entries -> Entries \cup {Null}]
    BY DEF EvtInit, Funcs
  <2>3. todo \in [Tasks -> Seq(Instructions)]
    <3>1. <<>> \in Seq(Instructions)
      BY EmptySeq
    <3> QED BY <3>1 DEF EvtInit
  <2> QED BY <1>1, <2>1, <2>2, <2>3 DEF EvtInit, EvtTypeOK, Events
<1>6. \A k \in Tasks : Resting(k)
  BY TaskNames DEF EvtInit, Resting, At, Holds
<1>7. /\ "sys" \in Tasks /\ "prov" \in Tasks /\ "control" \in Tasks /\ "meter" \in Tasks
      /\ "client" \in Tasks /\ "framework" \in Tables /\ "control" \in Tables
      /\ "socket" \in Tables /\ Callers = {"sys", "prov"}
  BY DEF Tasks, Tables, Callers
<1>8. OwnPlaces /\ ProvPhase /\ ClientPhase
  BY <1>3, <1>6, <1>7 DEF OwnPlaces, ProvPhase, ProvAway, ClientPhase, ClientOff, Busy, Calm,
     Outside, EvtInit
<1> QED BY <1>4, <1>5, <1>8 DEF EvtInv

\* Every step keeps it.
LEMMA EvtInductive == EvtInv /\ [EvtNext]_evtVars => EvtInv'
<1> SUFFICES ASSUME EvtInv, [EvtNext]_evtVars PROVE EvtInv'
  OBVIOUS
<1>1. ASSUME NEW k \in Tasks, Step(k) PROVE EvtInv'
  <2>1. "control" \in Tables /\ "socket" \in Tables /\ "control" \in Tasks /\ "meter" \in Tasks
    BY DEF Tables, Tasks
  <2>2. k = "sys" \/ k = "prov" \/ k = "control" \/ k = "meter" \/ k = "client"
    BY DEF Tasks
  <2> QED BY <1>1, <2>1, <2>2, SysStep, ProvStep, OwnStep, ClientStep
<1>2. CASE SysBegins
  BY <1>2, SysBegin
<1>3. CASE ProvBegins \/ ProvFrees
  BY <1>3, ProvBegin, ProvFree
<1>4. CASE ControlBegins \/ MeterBegins
  <2>1. "control" \in Tables /\ "socket" \in Tables /\ "control" \in Tasks /\ "meter" \in Tasks
    BY DEF Tables, Tasks
  <2> QED BY <1>4, <2>1, OwnBegin DEF ControlBegins, MeterBegins
<1>5. CASE ClientStops
  BY <1>5, ClientBegin
<1>6. CASE UNCHANGED evtVars
  <2>1. UNCHANGED <<head, tail, next, func, owner, todo, event, client, prov, ops>>
    BY <1>6 DEF evtVars, lists
  <2>2. EvtTypeOK' /\ Keepers' /\ OwnPlaces'
    BY <2>1 DEF EvtInv, EvtTypeOK, Keepers, OwnPlaces, Resting, Notifying, At, Holds, InList, Joined
  <2>3. /\ \A k \in Tasks : Busy(k)' <=> Busy(k)
        /\ \A k \in Tasks : Calm(k)' <=> Calm(k)
        /\ \A k \in Tasks : Resting(k)' <=> Resting(k)
    BY <2>1 DEF Busy, Calm, Outside, Resting, Notifying, StartsAt, JoinsAt, LeavesAt, At, Holds, InList, Joined
  <2>4. /\ \A t \in Tables : (Alone(t)' <=> Alone(t)) /\ (HasGuest(t)' <=> HasGuest(t))
        /\ \A k \in Tasks, n \in 1..7 : StartsAt(k, n)' <=> StartsAt(k, n)
        /\ \A n \in 1..7 : StopsAt(n)' <=> StopsAt(n)
        /\ \A n \in 1..4 : (JoinsAt(n)' <=> JoinsAt(n)) /\ (LeavesAt(n)' <=> LeavesAt(n))
    BY <2>1 DEF Alone, HasGuest, Joined, StartsAt, StopsAt, JoinsAt, LeavesAt, At, Holds
  <2>5. /\ "sys" \in Tasks /\ "prov" \in Tasks /\ "client" \in Tasks /\ "framework" \in Tables
        /\ "control" \in Tables /\ "socket" \in Tables /\ Callers = {"sys", "prov"}
    BY DEF Tasks, Tables, Callers
  <2>6. ProvPhase'
    BY <2>1, <2>3, <2>4, <2>5 DEF EvtInv, ProvPhase, ProvAway, ProvHere, ProvJoins, ProvLeaves, GuestIff
  <2>7. ClientPhase'
    BY <2>1, <2>3, <2>4, <2>5 DEF EvtInv, ClientPhase, ClientOff, ClientOn, ClientStarting, ClientStopping, GuestIff
  <2> QED BY <2>2, <2>6, <2>7 DEF EvtInv
<1> QED BY <1>1, <1>2, <1>3, <1>4, <1>5, <1>6 DEF EvtNext

\* The tasks are always in their places, with the mutexes and the guests that go with
\* these.
THEOREM EvtInvariant == EvtSpec => []EvtInv
BY EvtInitially, EvtInductive, PTL DEF EvtSpec

\* Lists, mutexes and what the tasks have to do keep their types, for every heap and
\* any number of operations.
THEOREM CallbacksType == EvtSpec => []EvtTypeOK
<1>1. EvtInv => EvtTypeOK
  BY DEF EvtInv
<1> QED BY <1>1, EvtInvariant, PTL

-----------------------------------------------------------------------------
\* Whoever has a mutex goes on, or waits for one whose owner does.
LEMMA WhereTheyAre ==
  ASSUME EvtInv, NEW k \in Tasks
  PROVE  \/ Resting(k)
         \/ \E t \in Tables : Notifying(k, t)
         \/ \E n \in 1..7 : StartsAt(k, n)
         \/ k = "sys" /\ \E n \in 1..4 : JoinsAt(n)
         \/ k = "prov" /\ \E n \in 1..4 : LeavesAt(n)
         \/ k = "client" /\ \E n \in 1..7 : StopsAt(n)
<1>1. "framework" \in Tables /\ "control" \in Tables /\ "socket" \in Tables
  BY DEF Tables
<1>2. k \in Callers => Calm(k) \/ \E n \in 1..7 : StartsAt(k, n)
  BY DEF EvtInv, ClientPhase, ClientOff, ClientOn, ClientStarting, ClientStopping
<1>3. CASE k \in Callers
  BY <1>1, <1>2, <1>3 DEF Calm, Outside
<1>4. CASE k = "client"
  BY <1>4 DEF EvtInv, ClientPhase, ClientOff, ClientOn, ClientStarting, ClientStopping
<1>5. CASE k = "control" \/ k = "meter"
  BY <1>1, <1>5 DEF EvtInv, OwnPlaces
<1> QED BY <1>3, <1>4, <1>5 DEF Callers, Tasks

Moves(k) == todo[k] # <<>> /\ Now(k).what # "take"

\* The next instruction at a place of a program.
LEMMA AtProgram ==
  ASSUME NEW P \in Seq(Instructions), NEW n \in 1..Len(P), NEW k \in Tasks, NEW H, At(k, Rest(P, n), H)
  PROVE  todo[k] # <<>> /\ Now(k) = P[n]
BY RestOf DEF At, Now

\* A notification with its mutex goes on.
LEMMA NotifyHolds ==
  ASSUME NEW k \in Tasks, NEW t \in Tables, Notifying(k, t), NEW s \in Tables, owner[s] = k
  PROVE  Moves(k)
<1> DEFINE P == Notify(t)
<1>1. /\ P \in Seq(Instructions) /\ Len(P) = 3 /\ P[2] = Do("first", t, Null)
      /\ P[3] = Do("give", t, Null)
  BY NotifyCode
<1> HIDE DEF P
<1>2. ~At(k, P, {})
  BY DEF At, Holds
<1>3. ASSUME NEW n \in 2..3, At(k, Rest(P, n), {t}) PROVE Moves(k)
  <2>1. n \in 1..Len(P)
    BY <1>1
  <2>2. todo[k] # <<>> /\ Now(k) = P[n]
    BY <1>1, <1>3, <2>1, AtProgram
  <2>3. P[n].what # "take"
    BY <1>1 DEF Do
  <2> QED BY <2>2, <2>3 DEF Moves
<1>4. ASSUME NEW w \in {"call", "after"}, NEW e \in Entries, At(k, Visit(w, t, e), {t})
      PROVE  Moves(k)
  <2>1. todo[k] # <<>> /\ Now(k) = Do(w, t, e)
    BY <1>4, VisitCode DEF At, Now
  <2> QED BY <2>1 DEF Moves, Do
<1> QED BY <1>2, <1>3, <1>4 DEF Notifying, P

\* The client's start goes on but where it takes a mutex, with neither of these held.
LEMMA StartHolds ==
  ASSUME NEW k \in Tasks, NEW n \in 1..7, StartsAt(k, n)
  PROVE  /\ n \in {1, 4} \/ Moves(k)
         /\ n \in {1, 4} => /\ todo[k] # <<>> /\ owner["control"] # k /\ owner["socket"] # k
                            /\ Now(k).tab \in {"control", "socket"}
<1>1. /\ Start \in Seq(Instructions) /\ n \in 1..Len(Start) /\ Start[n] = StartClient[n]
  BY StartCode
<1>2. todo[k] # <<>> /\ Now(k) = StartClient[n]
  BY <1>1, AtProgram DEF StartsAt
<1>3. n \notin {1, 4} => StartClient[n].what # "take"
  BY StartClientCode DEF Do
<1>4. n \in {1, 4} => StartClient[n].tab \in {"control", "socket"}
  BY StartClientCode DEF Do
<1>5. n \in {1, 4} => owner["control"] # k /\ owner["socket"] # k
  BY DEF StartsAt, At, Holds, Inner, Tables
<1> QED BY <1>2, <1>3, <1>4, <1>5 DEF Moves

\* The client's stop with a mutex goes on.
LEMMA StopHolds ==
  ASSUME NEW n \in 1..7, StopsAt(n), NEW s \in Tables, owner[s] = "client"
  PROVE  Moves("client")
<1>1. StopClient \in Seq(Instructions) /\ n \in 1..Len(StopClient) /\ "client" \in Tasks
  BY StopClientCode DEF Tasks
<1>2. todo["client"] # <<>> /\ Now("client") = StopClient[n]
  BY <1>1, AtProgram DEF StopsAt
<1>3. n \in {2, 3, 5, 6}
  BY DEF StopsAt, At, Holds, Inner
<1>4. StopClient[n].what # "take"
  BY <1>3, StopClientCode DEF Do
<1> QED BY <1>2, <1>4 DEF Moves

\* So does the arrival of the provisioning task.
LEMMA JoinHolds ==
  ASSUME NEW n \in 1..4, JoinsAt(n), NEW s \in Tables, owner[s] = "sys"
  PROVE  Moves("sys")
<1>1. Join \in Seq(Instructions) /\ n \in 1..Len(Join) /\ "sys" \in Tasks
  BY JoinCode DEF Tasks
<1>2. todo["sys"] # <<>> /\ Now("sys") = Join[n]
  BY <1>1, AtProgram DEF JoinsAt
<1>3. n \in {2, 3}
  BY DEF JoinsAt, At, Holds, Outer
<1>4. Join[n].what # "take"
  BY <1>3, JoinCode DEF Do
<1> QED BY <1>2, <1>4 DEF Moves

\* So does its leaving.
LEMMA LeaveHolds ==
  ASSUME NEW n \in 1..4, LeavesAt(n), NEW s \in Tables, owner[s] = "prov"
  PROVE  Moves("prov")
<1>1. Leave \in Seq(Instructions) /\ n \in 1..Len(Leave) /\ "prov" \in Tasks
  BY LeaveCode DEF Tasks
<1>2. todo["prov"] # <<>> /\ Now("prov") = Leave[n]
  BY <1>1, AtProgram DEF LeavesAt
<1>3. n \in {2, 3}
  BY DEF LeavesAt, At, Holds, Outer
<1>4. Leave[n].what # "take"
  BY <1>3, LeaveCode DEF Do
<1> QED BY <1>2, <1>4 DEF Moves

\* Whoever has the mutex of the control task's table or the socket's goes on.
LEMMA InnerOwner ==
  ASSUME EvtInv, NEW k \in Tasks, NEW s \in {"control", "socket"}, owner[s] = k
  PROVE  Moves(k)
<1>1. s \in Tables
  BY DEF Tables
<1>2. ~Resting(k)
  BY <1>1 DEF Resting, At, Holds
<1>3. ASSUME NEW n \in 1..7, StartsAt(k, n) PROVE Moves(k)
  BY <1>3, StartHolds
<1> QED BY <1>1, <1>2, <1>3, WhereTheyAre, NotifyHolds, StopHolds, JoinHolds, LeaveHolds

\* If some mutex is held, some task goes on.
LEMMA SomebodyMoves ==
  ASSUME EvtInv, NEW k \in Tasks, NEW t \in Tables, owner[t] = k
  PROVE  \E j \in Tasks : GoesOn(j)
<1>1. \A j \in Tasks : Moves(j) => GoesOn(j)
  BY DEF Moves, GoesOn
<1>2. ~Resting(k)
  BY DEF Resting, At, Holds
<1>3. ASSUME NEW n \in 1..7, StartsAt(k, n) PROVE \E j \in Tasks : GoesOn(j)
  <2>1. CASE Moves(k)
    BY <1>1, <2>1
  <2>2. CASE ~Moves(k)
    <3>1. todo[k] # <<>> /\ Now(k).tab \in {"control", "socket"}
      BY <1>3, <2>2, StartHolds
    <3>2. CASE owner[Now(k).tab] = Nobody
      BY <3>1, <3>2 DEF GoesOn
    <3>3. CASE owner[Now(k).tab] # Nobody
      <4>1. owner[Now(k).tab] \in Tasks
        BY <3>1, <3>3 DEF EvtInv, EvtTypeOK, Tables
      <4> QED BY <1>1, <3>1, <4>1, InnerOwner
    <3> QED BY <3>2, <3>3
  <2> QED BY <2>1, <2>2
<1> QED BY <1>1, <1>2, <1>3, WhereTheyAre, NotifyHolds, StopHolds, JoinHolds, LeaveHolds

\* The tasks that take a mutex with another one held never wait for each other in
\* a circle, whatever is begun and however often.
THEOREM NobodyEverStuck == EvtSpec => []NobodyIsStuck
<1>1. ASSUME EvtInv PROVE NobodyIsStuck
  <2> SUFFICES ASSUME NEW k \in Tasks, todo[k] # <<>> PROVE \E j \in Tasks : GoesOn(j)
    BY DEF NobodyIsStuck
  <2>1. CASE GoesOn(k)
    BY <2>1
  <2>2. CASE ~GoesOn(k)
    <3>1. Now(k).what = "take" /\ owner[Now(k).tab] # Nobody
      BY <2>2 DEF GoesOn
    <3>2. Now(k).tab \in Tables
      <4>1. todo[k] \in Seq(Instructions)
        BY <1>1 DEF EvtInv, EvtTypeOK
      <4>2. Now(k) \in Instructions
        BY <4>1, HeadTailProperties DEF Now
      <4> QED BY <3>1, <4>2 DEF Instructions
    <3>3. owner[Now(k).tab] \in Tasks
      BY <1>1, <3>1, <3>2 DEF EvtInv, EvtTypeOK
    <3> QED BY <1>1, <3>2, <3>3, SomebodyMoves
  <2> QED BY <2>1, <2>2
<1> QED BY <1>1, EvtInvariant, PTL

\* Once the client has stopped nobody calls one of its functions, or is in one.
THEOREM GoneNeverCalled == EvtSpec => []GoneIsNotCalled
<1>1. ASSUME EvtInv PROVE GoneIsNotCalled
  <2> SUFFICES ASSUME client = "off", ~Starting, NEW k \in Tasks, NEW n \in Running(k)
               PROVE  func[todo[k][n].arg] \notin {"pwSys", "pwSocket"}
    BY DEF GoneIsNotCalled
  <2>1. todo[k][n].arg \in Entries
    <3>1. todo[k] \in Seq(Instructions) /\ n \in 1..Len(todo[k]) /\ todo[k][n].what \in {"call", "after"}
      BY <1>1 DEF EvtInv, EvtTypeOK, Running
    <3>2. todo[k][n] \in Instructions
      BY <3>1, ElementOfSeq
    <3> QED BY <3>1, <3>2 DEF Instructions
  <2>2. ASSUME NEW j \in Callers, NEW m \in 1..7, ClientStarting(j, m) PROVE FALSE
    <3> DEFINE i == 8 - m
               R == Rest(Start, m)
    <3>1. /\ Start \in Seq(Instructions) /\ Len(Start) = 9 /\ m \in 1..Len(Start)
          /\ Start[7] = Do("client", Nobody, "on")
      BY StartCode, StartClientCode
    <3>2. /\ R \in Seq(Instructions) /\ Len(R) = Len(Start) - m + 1
          /\ \A l \in 1..Len(Start) - m + 1 : R[l] = Start[m + l - 1]
      BY <3>1, RestIndex
    <3>3. i \in 1..Len(Start) - m + 1 /\ m + i - 1 = 7
      BY <3>1
    <3> HIDE DEF i, R
    <3>4. i \in DOMAIN R /\ R[i] = Do("client", Nobody, "on")
      BY <3>1, <3>2, <3>3
    <3>5. todo[j] = R /\ j \in Tasks
      BY <2>2, CallerNames DEF ClientStarting, StartsAt, At, R
    <3>6. Starting
      BY <3>4, <3>5 DEF Starting
    <3> QED BY <3>6
  <2>3. Alone("control") /\ Alone("socket")
    BY <1>1, <2>2 DEF EvtInv, ClientPhase, ClientOff, ClientOn, ClientStopping
  <2> QED BY <2>1, <2>3 DEF Alone, Guest
<1> QED BY <1>1, EvtInvariant, PTL

-----------------------------------------------------------------------------
\* The rest of a notification, by the place of the owner of the mutex.
NoCall(x) == x.what \notin {"call", "after"}

\* A program without calls.
LEMMA PendingNone ==
  ASSUME NEW t \in Tables, NEW k \in Tasks, owner[t] = k, NEW P \in Seq(Instructions),
         NEW n \in 1..Len(P), NEW H, At(k, Rest(P, n), H),
         \A m \in 1..Len(P) : NoCall(P[m])
  PROVE  PendingOf(t) = <<>>
<1> DEFINE R == Rest(P, n)
<1>1. /\ R \in Seq(Instructions) /\ Len(R) = Len(P) - n + 1
      /\ \A j \in 1..Len(P) - n + 1 : R[j] = P[n + j - 1]
  BY RestIndex
<1>2. todo[k] = R /\ DOMAIN R = 1..Len(P) - n + 1
  BY <1>1 DEF At
<1>3. \A j \in 1..Len(P) - n + 1 : n + j - 1 \in 1..Len(P)
  OBVIOUS
<1> HIDE DEF R
<1>4. Running(k) = {}
  BY <1>1, <1>2, <1>3 DEF Running, NoCall
<1> QED BY <1>4 DEF PendingOf

\* At an entry.
LEMMA PendingVisit ==
  ASSUME NEW t \in Tables, NEW k \in Tasks, owner[t] = k, NEW w \in {"call", "after"},
         NEW e \in Entries, At(k, Visit(w, t, e), {t})
  PROVE  PendingOf(t) = From(e)
<1> DEFINE V == Visit(w, t, e)
           at == {n \in Running(k) : todo[k][n].tab = t}
<1>1. /\ V \in Seq(Instructions) /\ Len(V) = 2 /\ V[1] = Do(w, t, e) /\ V[2] = Do("give", t, Null)
  BY VisitCode
<1>2. todo[k] = V /\ DOMAIN V = 1..2
  BY <1>1 DEF At
<1> HIDE DEF V
<1>3. V[1].what = w /\ V[1].tab = t /\ V[1].arg = e /\ V[2].what = "give"
  BY <1>1 DEF Do
<1>4. Running(k) = {1}
  <2>1. \A n \in 1..2 : n = 1 \/ n = 2
    OBVIOUS
  <2> QED BY <1>2, <1>3, <2>1 DEF Running
<1>5. at = {1}
  BY <1>2, <1>3, <1>4
<1>6. owner[t] # Nobody
  BY TaskNames
<1>7. PendingOf(t) = IF at = {} THEN <<>> ELSE From(todo[k][CHOOSE n \in at : TRUE].arg)
  BY <1>6 DEF PendingOf
<1>8. (CHOOSE n \in {1} : TRUE) = 1
  OBVIOUS
<1> QED BY <1>2, <1>3, <1>5, <1>7, <1>8

\* Within the client's start only the framework's table is being notified.
LEMMA PendingStart ==
  ASSUME NEW t \in Tables, NEW k \in Tasks, owner[t] = k, NEW n \in 1..7, StartsAt(k, n)
  PROVE  PendingOf(t) = IF t = "framework" THEN From(1) ELSE <<>>
<1> DEFINE R == Rest(Start, n)
           i == 9 - n
           at == {m \in Running(k) : todo[k][m].tab = t}
<1>1. /\ Start \in Seq(Instructions) /\ Len(Start) = 9 /\ n \in 1..Len(Start)
      /\ Start[8] = Do("after", "framework", 1) /\ Start[9] = Do("give", "framework", Null)
      /\ \A m \in 1..7 : Start[m] = StartClient[m]
  BY StartCode
<1>2. /\ Len(R) = Len(Start) - n + 1 /\ R \in Seq(Instructions)
      /\ \A j \in 1..Len(Start) - n + 1 : R[j] = Start[n + j - 1]
  BY <1>1, RestIndex
<1>3. todo[k] = R /\ DOMAIN R = 1..10 - n
  <2>1. Len(Start) - n + 1 = 10 - n
    BY <1>1
  <2> QED BY <1>2, <2>1 DEF StartsAt, At
<1>4. \A m \in 1..9 : m # 8 => Start[m].what \notin {"call", "after"}
  <2>1. \A m \in 1..7 : StartClient[m].what \notin {"call", "after"}
    BY StartClientCode DEF Do
  <2>2. Start[9].what \notin {"call", "after"}
    BY <1>1 DEF Do
  <2> QED BY <1>1, <2>1, <2>2
<1>5. i \in 1..10 - n /\ n + i - 1 = 8
  OBVIOUS
<1>6. \A j \in 1..10 - n : n + j - 1 \in 1..9 /\ (n + j - 1 = 8 => j = i)
  OBVIOUS
<1> HIDE DEF R, i
<1>7. R[i] = Do("after", "framework", 1)
  BY <1>1, <1>2, <1>5
<1>8. R[i].what = "after" /\ R[i].tab = "framework" /\ R[i].arg = 1
  BY <1>7 DEF Do
<1>9. \A j \in 1..10 - n : j # i => R[j].what \notin {"call", "after"}
  <2> SUFFICES ASSUME NEW j \in 1..10 - n, j # i PROVE R[j].what \notin {"call", "after"}
    OBVIOUS
  <2> DEFINE m == n + j - 1
  <2>1. m \in 1..9 /\ m # 8 /\ j \in 1..Len(Start) - n + 1
    BY <1>1, <1>6
  <2>2. R[j] = Start[m]
    BY <1>2, <2>1
  <2> HIDE DEF m
  <2> QED BY <1>4, <2>1, <2>2
<1>10. Running(k) = {i}
  BY <1>3, <1>5, <1>8, <1>9 DEF Running
<1>11. at = IF t = "framework" THEN {i} ELSE {}
  BY <1>3, <1>8, <1>10
<1>12. owner[t] # Nobody
  BY TaskNames
<1>13. PendingOf(t) = IF at = {} THEN <<>> ELSE From(todo[k][CHOOSE m \in at : TRUE].arg)
  BY <1>12 DEF PendingOf
<1>14. (CHOOSE m \in {i} : TRUE) = i
  OBVIOUS
<1> QED BY <1>3, <1>8, <1>11, <1>13, <1>14

\* All of them, and after a step.
PendingIs ==
    \A t \in Tables :
      /\ owner[t] = Nobody => PendingOf(t) = <<>>
      /\ \A k \in Tasks : owner[t] = k =>
           /\ \A n \in 1..3 : At(k, Rest(Notify(t), n), {t}) => PendingOf(t) = <<>>
           /\ \A w \in {"call", "after"}, e \in Entries :
                 At(k, Visit(w, t, e), {t}) => PendingOf(t) = From(e)
           /\ \A n \in 1..7 : StartsAt(k, n) =>
                 PendingOf(t) = IF t = "framework" THEN From(1) ELSE <<>>
           /\ \A n \in 1..7 : k = "client" /\ StopsAt(n) => PendingOf(t) = <<>>
           /\ \A n \in 1..4 : k = "sys" /\ JoinsAt(n) => PendingOf(t) = <<>>
           /\ \A n \in 1..4 : k = "prov" /\ LeavesAt(n) => PendingOf(t) = <<>>

\* The rest of each notification.
LEMMA Pending == PendingIs
<1> SUFFICES ASSUME NEW t \in Tables
             PROVE  /\ owner[t] = Nobody => PendingOf(t) = <<>>
                    /\ \A k \in Tasks : owner[t] = k =>
                         /\ \A n \in 1..3 : At(k, Rest(Notify(t), n), {t}) => PendingOf(t) = <<>>
                         /\ \A w \in {"call", "after"}, e \in Entries :
                               At(k, Visit(w, t, e), {t}) => PendingOf(t) = From(e)
                         /\ \A n \in 1..7 : StartsAt(k, n) =>
                               PendingOf(t) = IF t = "framework" THEN From(1) ELSE <<>>
                         /\ \A n \in 1..7 : k = "client" /\ StopsAt(n) => PendingOf(t) = <<>>
                         /\ \A n \in 1..4 : k = "sys" /\ JoinsAt(n) => PendingOf(t) = <<>>
                         /\ \A n \in 1..4 : k = "prov" /\ LeavesAt(n) => PendingOf(t) = <<>>
  BY DEF PendingIs
<1>1. owner[t] = Nobody => PendingOf(t) = <<>>
  BY DEF PendingOf
<1>2. ASSUME NEW k \in Tasks, owner[t] = k, NEW n \in 1..3, At(k, Rest(Notify(t), n), {t})
      PROVE  PendingOf(t) = <<>>
  <2> DEFINE P == Notify(t)
  <2>1. /\ P \in Seq(Instructions) /\ Len(P) = 3 /\ P[1] = Do("take", t, Null)
        /\ P[2] = Do("first", t, Null) /\ P[3] = Do("give", t, Null)
    BY NotifyCode
  <2>2. \A m \in 1..Len(P) : NoCall(P[m])
    BY <2>1 DEF NoCall, Do
  <2> HIDE DEF P
  <2>3. n \in 1..Len(P) /\ At(k, Rest(P, n), {t})
    BY <1>2, <2>1 DEF P
  <2> QED BY <1>2, <2>1, <2>2, <2>3, PendingNone
<1>3. ASSUME NEW n \in 1..7, StopsAt(n), owner[t] = "client" PROVE PendingOf(t) = <<>>
  <2>1. StopClient \in Seq(Instructions) /\ n \in 1..Len(StopClient) /\ "client" \in Tasks
    BY StopClientCode DEF Tasks
  <2>2. \A m \in 1..Len(StopClient) : NoCall(StopClient[m])
    BY StopClientCode DEF NoCall, Do
  <2> QED BY <1>3, <2>1, <2>2, PendingNone DEF StopsAt
<1>4. ASSUME NEW n \in 1..4, JoinsAt(n), owner[t] = "sys" PROVE PendingOf(t) = <<>>
  <2>1. Join \in Seq(Instructions) /\ n \in 1..Len(Join) /\ "sys" \in Tasks
    BY JoinCode DEF Tasks
  <2>2. \A m \in 1..Len(Join) : NoCall(Join[m])
    BY JoinCode DEF NoCall, Do
  <2> QED BY <1>4, <2>1, <2>2, PendingNone DEF JoinsAt
<1>5. ASSUME NEW n \in 1..4, LeavesAt(n), owner[t] = "prov" PROVE PendingOf(t) = <<>>
  <2>1. Leave \in Seq(Instructions) /\ n \in 1..Len(Leave) /\ "prov" \in Tasks
    BY LeaveCode DEF Tasks
  <2>2. \A m \in 1..Len(Leave) : NoCall(Leave[m])
    BY LeaveCode DEF NoCall, Do
  <2> QED BY <1>5, <2>1, <2>2, PendingNone DEF LeavesAt
<1> QED BY <1>1, <1>2, <1>3, <1>4, <1>5, PendingVisit, PendingStart

\* The same after a step.
LEMMA PendingNext == PendingIs'
BY Pending, PTL

\* The list of a table, by its form.
LEMMA RegOf ==
  ASSUME EvtTypeOK, Keepers, NEW t \in Tables
  PROVE  /\ Alone(t) => From(head[t]) = <<Keeper[t]>> /\ From(KeptAt[t]) = <<Keeper[t]>>
         /\ HasGuest(t) => /\ From(head[t]) = <<Keeper[t], Guest[t]>>
                           /\ From(KeptAt[t]) = <<Keeper[t], Guest[t]>>
         /\ \A e \in Entries : Joined(t, e) => From(e) = <<Guest[t]>>
<1>1. ASSUME Alone(t) PROVE From(head[t]) = <<Keeper[t]>> /\ From(KeptAt[t]) = <<Keeper[t]>>
  <2>1. From(head[t]) = <<Keeper[t]>>
    BY <1>1, Forms DEF FormsAre
  <2> QED BY <1>1, <2>1 DEF Alone
<1>2. ASSUME NEW e \in Entries, Joined(t, e)
      PROVE  /\ From(head[t]) = <<Keeper[t], Guest[t]>> /\ From(KeptAt[t]) = <<Keeper[t], Guest[t]>>
             /\ From(e) = <<Guest[t]>>
  <2>1. From(head[t]) = <<Keeper[t], Guest[t]>> /\ From(e) = <<Guest[t]>>
    BY <1>2, Forms DEF FormsAre
  <2> QED BY <1>2, <2>1 DEF Joined
<1> QED BY <1>1, <1>2 DEF HasGuest

RegIs ==
    EvtTypeOK /\ Keepers =>
      \A t \in Tables :
         /\ Alone(t) => From(head[t]) = <<Keeper[t]>> /\ From(KeptAt[t]) = <<Keeper[t]>>
         /\ HasGuest(t) => /\ From(head[t]) = <<Keeper[t], Guest[t]>>
                           /\ From(KeptAt[t]) = <<Keeper[t], Guest[t]>>
         /\ \A e \in Entries : Joined(t, e) => From(e) = <<Guest[t]>>

\* The lists of all tables.
LEMMA Reg == RegIs
BY RegOf DEF RegIs

\* The same after a step.
LEMMA RegNext == RegIs'
BY Reg, PTL

-----------------------------------------------------------------------------
\* What a step does to one table, as the registry sees it.
Unmoved(t) == From(head[t])' = From(head[t]) /\ PendingOf(t)' = PendingOf(t)
Registers(t) ==
    /\ PendingOf(t) = <<>> /\ PendingOf(t)' = <<>>
    /\ From(head[t]) = <<Keeper[t]>> /\ From(head[t])' = <<Keeper[t], Guest[t]>>
Unregisters(t) ==
    /\ PendingOf(t) = <<>> /\ PendingOf(t)' = <<>>
    /\ From(head[t]) = <<Keeper[t], Guest[t]>> /\ From(head[t])' = <<Keeper[t]>>
Notifies(t) ==
    PendingOf(t) = <<>> /\ PendingOf(t)' = From(head[t]) /\ From(head[t])' = From(head[t])
Returns(t) ==
    /\ PendingOf(t) # <<>> /\ PendingOf(t)' = Tail(PendingOf(t))
    /\ From(head[t])' = From(head[t])
Changes(t) == Registers(t) \/ Unregisters(t) \/ Notifies(t) \/ Returns(t)
OneTable ==
    \/ \A s \in Tables : Unmoved(s)
    \/ \E t \in Tables : Changes(t) /\ \A s \in Tables \ {t} : Unmoved(s)

\* A list that keeps its form keeps its functions.
LEMMA FormStays ==
  ASSUME EvtTypeOK, Keepers, EvtTypeOK', Keepers', NEW s \in Tables, Alone(s) \/ HasGuest(s), Kept(s)
  PROVE  /\ From(head[s])' = From(head[s])
         /\ \A e \in Entries : InList(s, e) => From(e)' = From(e)
<1>1. /\ Alone(s) => From(head[s]) = <<Keeper[s]>> /\ From(KeptAt[s]) = <<Keeper[s]>>
      /\ HasGuest(s) => /\ From(head[s]) = <<Keeper[s], Guest[s]>>
                        /\ From(KeptAt[s]) = <<Keeper[s], Guest[s]>>
      /\ \A e \in Entries : Joined(s, e) => From(e) = <<Guest[s]>>
  BY Reg DEF RegIs
<1>2. /\ Alone(s)' => From(head[s])' = <<Keeper[s]>> /\ From(KeptAt[s])' = <<Keeper[s]>>
      /\ HasGuest(s)' => /\ From(head[s])' = <<Keeper[s], Guest[s]>>
                         /\ From(KeptAt[s])' = <<Keeper[s], Guest[s]>>
      /\ \A e \in Entries : Joined(s, e)' => From(e)' = <<Guest[s]>>
  BY RegNext DEF RegIs
<1>3. CASE Alone(s)
  <2>1. Alone(s)'
    BY <1>3 DEF Kept
  <2>2. \A e \in Entries : ~Joined(s, e)
    BY <1>3 DEF Alone, Joined
  <2> QED BY <1>1, <1>2, <1>3, <2>1, <2>2 DEF InList
<1>4. CASE HasGuest(s)
  <2>1. HasGuest(s)' /\ \A e \in Entries : Joined(s, e) => Joined(s, e)'
    BY <1>4 DEF Kept, HasGuest
  <2> QED BY <1>1, <1>2, <1>4, <2>1 DEF InList
<1> QED BY <1>3, <1>4

\* The entry of appFrwk is the first of the framework's table.
LEMMA Framework1 == 1 \in Entries /\ "framework" \in Tables /\ KeptAt["framework"] = 1 /\ InList("framework", 1)
BY Heap DEF Tables, KeptAt, InList

\* The tables whose mutex the task has neither before nor after its step.
LEMMA Elsewhere ==
  ASSUME EvtInv, EvtInv', NEW k \in Tasks, OwnMove(k), NEW s \in Tables, owner[s] # k, owner'[s] # k
  PROVE  Unmoved(s)
<1>1. /\ EvtTypeOK /\ Keepers /\ EvtTypeOK' /\ Keepers' /\ (Alone(s) \/ HasGuest(s)) /\ Kept(s)
  BY TablesShaped DEF EvtInv, OwnMove, Shaped
<1>2. /\ From(head[s])' = From(head[s])
      /\ \A e \in Entries : InList(s, e) => From(e)' = From(e)
  BY <1>1, FormStays
<1>3. CASE owner[s] = Nobody
  <2>1. owner'[s] = Nobody
    BY <1>1, <1>3, TaskNames DEF OwnMove, EvtTypeOK
  <2>2. PendingOf(s) = <<>> /\ PendingOf(s)' = <<>>
    BY <1>3, <2>1, Pending, PendingNext DEF PendingIs
  <2> QED BY <1>2, <2>2 DEF Unmoved
<1>4. CASE owner[s] # Nobody
  <2>1. PICK j \in Tasks \ {k} : owner[s] = j
    BY <1>1, <1>4 DEF EvtTypeOK
  <2>2. owner'[s] = j
    BY <2>1 DEF OwnMove
  <2>3. ASSUME NEW n \in 1..3, At(j, Rest(Notify(s), n), {s})
        PROVE  PendingOf(s)' = PendingOf(s)
    <3>1. At(j, Rest(Notify(s), n), {s})'
      BY <2>1, <2>3, Others
    <3> QED BY <2>1, <2>2, <2>3, <3>1, Pending, PendingNext DEF PendingIs
  <2>4. ASSUME NEW w \in {"call", "after"}, NEW e \in Entries, InList(s, e), At(j, Visit(w, s, e), {s})
        PROVE  PendingOf(s)' = PendingOf(s)
    <3>1. At(j, Visit(w, s, e), {s})'
      BY <2>1, <2>4, Others
    <3>2. PendingOf(s) = From(e) /\ PendingOf(s)' = From(e)'
      BY <2>1, <2>2, <2>4, <3>1, Pending, PendingNext DEF PendingIs
    <3> QED BY <1>2, <2>4, <3>2
  <2>5. ASSUME NEW t \in Tables, Notifying(j, t)
        PROVE  PendingOf(s)' = PendingOf(s)
    <3>1. t = s \/ At(j, Notify(t), {})
      BY <2>1, <2>5 DEF Notifying, At, Holds
    <3>2. ~At(j, Notify(t), {})
      BY <2>1 DEF At, Holds
    <3>3. t = s
      BY <3>1, <3>2
    <3>4. 2..3 \subseteq 1..3
      OBVIOUS
    <3> QED BY <2>3, <2>4, <2>5, <3>2, <3>3, <3>4 DEF Notifying
  <2>6. ASSUME NEW n \in 1..7, StartsAt(j, n) PROVE PendingOf(s)' = PendingOf(s)
    <3>1. StartsAt(j, n)'
      BY <2>1, <2>6, Others
    <3>2. /\ PendingOf(s) = IF s = "framework" THEN From(1) ELSE <<>>
          /\ PendingOf(s)' = IF s = "framework" THEN From(1)' ELSE <<>>
      BY <2>1, <2>2, <2>6, <3>1, Pending, PendingNext DEF PendingIs
    <3> QED BY <1>2, <3>2, Framework1
  <2>7. ASSUME NEW n \in 1..7, j = "client", StopsAt(n) PROVE PendingOf(s)' = PendingOf(s)
    <3>1. StopsAt(n)'
      BY <2>1, <2>7, Others
    <3> QED BY <2>1, <2>2, <2>7, <3>1, Pending, PendingNext DEF PendingIs
  <2>8. ASSUME NEW n \in 1..4, j = "sys", JoinsAt(n) PROVE PendingOf(s)' = PendingOf(s)
    <3>1. JoinsAt(n)'
      BY <2>1, <2>8, Others
    <3> QED BY <2>1, <2>2, <2>8, <3>1, Pending, PendingNext DEF PendingIs
  <2>9. ASSUME NEW n \in 1..4, j = "prov", LeavesAt(n) PROVE PendingOf(s)' = PendingOf(s)
    <3>1. LeavesAt(n)'
      BY <2>1, <2>9, Others
    <3> QED BY <2>1, <2>2, <2>9, <3>1, Pending, PendingNext DEF PendingIs
  <2>10. ~Resting(j)
    BY <2>1 DEF Resting, At, Holds
  <2>11. PendingOf(s)' = PendingOf(s)
    BY <2>5, <2>6, <2>7, <2>8, <2>9, <2>10, WhereTheyAre
  <2> QED BY <1>2, <2>11 DEF Unmoved
<1> QED BY <1>3, <1>4

\* The tables whose mutex the task has, if it calls nothing of them.
LEMMA QuietEnds ==
  ASSUME EvtInv, EvtInv', NEW k \in Tasks, OwnMove(k), NEW t \in Tables,
         owner[t] = k => PendingOf(t) = <<>>, owner'[t] = k => PendingOf(t)' = <<>>
  PROVE  /\ From(head[t])' = From(head[t]) => Unmoved(t)
         /\ owner[t] = k => PendingOf(t) = <<>> /\ PendingOf(t)' = <<>>
<1>1. CASE owner[t] # k /\ owner'[t] # k
  BY <1>1, Elsewhere
<1>2. CASE owner[t] = k \/ owner'[t] = k
  <2>1. owner[t] \in {k, Nobody} /\ owner'[t] \in {k, Nobody}
    BY <1>2 DEF OwnMove, EvtInv, EvtTypeOK
  <2>2. PendingOf(t) = <<>> /\ PendingOf(t)' = <<>>
    BY <2>1, Pending, PendingNext DEF PendingIs
  <2> QED BY <2>2 DEF Unmoved
<1> QED BY <1>1, <1>2

\* A table without calls by the task, by its form before and after.
LEMMA OneEnd ==
  ASSUME EvtInv, EvtInv', NEW k \in Tasks, OwnMove(k), NEW t \in Tables,
         owner[t] = k => PendingOf(t) = <<>>, owner'[t] = k => PendingOf(t)' = <<>>,
         NEW b \in BOOLEAN, NEW c \in BOOLEAN, GuestIff(t, b), GuestIff(t, c)'
  PROVE  /\ b = c => Unmoved(t)
         /\ ~b /\ c => Registers(t)
         /\ b /\ ~c => Unregisters(t)
<1>1. EvtTypeOK /\ Keepers /\ EvtTypeOK' /\ Keepers'
  BY DEF EvtInv
<1>2. /\ ~b => From(head[t]) = <<Keeper[t]>>
      /\ b => From(head[t]) = <<Keeper[t], Guest[t]>>
  BY <1>1, Reg DEF RegIs, GuestIff
<1>3. /\ ~c => From(head[t])' = <<Keeper[t]>>
      /\ c => From(head[t])' = <<Keeper[t], Guest[t]>>
  BY <1>1, RegNext DEF RegIs, GuestIff
<1>4. b = c => Unmoved(t)
  BY <1>2, <1>3, QuietEnds
<1>5. b # c => owner[t] = k
  <2>1. Kept(t) => (b <=> c)
    BY Places DEF Kept, GuestIff, HasGuest, Alone, Joined
  <2> QED BY <2>1 DEF OwnMove
<1>6. b # c => PendingOf(t) = <<>> /\ PendingOf(t)' = <<>>
  BY <1>5, QuietEnds
<1> QED BY <1>2, <1>3, <1>4, <1>6 DEF Registers, Unregisters

\* A step of a notification.
LEMMA NotifySeen ==
  ASSUME EvtInv, EvtInv', NEW k \in Tasks, NEW t \in Tables, Passes(k, t), OwnMove(k), UNCHANGED lists
  PROVE  OneTable
<1> USE DEF EvtInv
<1>1. \A s \in Tables \ {t} : owner[s] # k /\ owner'[s] # k
  BY DEF Passes, At, Holds, Resting, StartsAt, Inner
<1>2. \A s \in Tables \ {t} : Unmoved(s)
  BY <1>1, Elsewhere
<1>3. /\ Alone(t) \/ HasGuest(t)
      /\ Kept(t)
  BY TablesShaped, ListsStay DEF Shaped
<1>4. /\ From(head[t])' = From(head[t])
      /\ \A e \in Entries : InList(t, e) => From(e)' = From(e)
  BY <1>3, FormStays
<1>5. Unmoved(t) \/ Changes(t) => OneTable
  BY <1>2 DEF OneTable
<1>6. CASE At(k, Notify(t), {}) /\ At(k, Rest(Notify(t), 2), {t})'
  <2>1. owner[t] # k /\ owner'[t] = k /\ 2 \in 1..3
    BY <1>6 DEF At, Holds
  <2>2. PendingOf(t)' = <<>>
    BY <1>6, <2>1, PendingNext DEF PendingIs
  <2> QED BY <1>4, <1>5, <2>1, <2>2, QuietEnds
<1>7. CASE At(k, Rest(Notify(t), 2), {t}) /\ At(k, Visit("call", t, head[t]), {t})'
  <2>1. owner[t] = k /\ owner'[t] = k /\ 2 \in 1..3
    BY <1>7 DEF At, Holds
  <2>2. PendingOf(t) = <<>>
    BY <1>7, <2>1, Pending DEF PendingIs
  <2>3. PICK d \in Entries : d = head'[t]
    BY <1>3, Places DEF Kept, Alone, HasGuest, Joined
  <2>4. At(k, Visit("call", t, d), {t})'
    BY <1>7, <2>3
  <2>5. PendingOf(t)' = From(d)'
    BY <2>1, <2>4, PendingNext DEF PendingIs
  <2>6. From(d)' = From(head[t])'
    BY <2>3
  <2> QED BY <1>4, <1>5, <2>2, <2>5, <2>6 DEF Notifies, Changes
<1>8. CASE At(k, Rest(Notify(t), 3), {t}) /\ Resting(k)'
  <2>1. owner'[t] # k /\ owner[t] = k /\ 3 \in 1..3
    BY <1>8 DEF At, Holds, Resting
  <2>2. PendingOf(t) = <<>>
    BY <1>8, <2>1, Pending DEF PendingIs
  <2> QED BY <1>4, <1>5, <2>1, <2>2, QuietEnds
<1>9. ASSUME NEW e \in Entries, InList(t, e), At(k, Visit("call", t, e), {t}),
             At(k, Visit("after", t, e), {t})' \/ (t = "framework" /\ e = 1 /\ StartsAt(k, 1)')
      PROVE  OneTable
  <2>1. owner[t] = k /\ owner'[t] = k /\ 1 \in 1..7
    BY <1>9 DEF At, Holds, StartsAt
  <2>2. PendingOf(t) = From(e)
    BY <1>9, <2>1, Pending DEF PendingIs
  <2>3. PendingOf(t)' = From(e)'
    BY <1>9, <2>1, PendingNext DEF PendingIs
  <2> QED BY <1>4, <1>5, <1>9, <2>2, <2>3 DEF Unmoved
<1>10. ASSUME NEW e \in Entries, InList(t, e), At(k, Visit("after", t, e), {t}),
              IF next[e] = Null THEN At(k, Rest(Notify(t), 3), {t})'
                                ELSE At(k, Visit("call", t, next[e]), {t})'
       PROVE  OneTable
  <2>1. owner[t] = k /\ owner'[t] = k /\ 3 \in 1..3
    BY <1>10 DEF At, Holds
  <2>2. PendingOf(t) = From(e)
    BY <1>10, <2>1, Pending DEF PendingIs
  <2>3. CASE next[e] = Null
    <3>1. PendingOf(t)' = <<>>
      BY <1>10, <2>1, <2>3, PendingNext DEF PendingIs
    <3>2. \E f : From(e) = <<f>>
      <4>1. e = KeptAt[t] => Alone(t)
        BY <1>3, <2>3, Places, Heap DEF HasGuest, Joined
      <4> QED BY <1>10, <4>1, Reg DEF RegIs, InList
    <3>3. From(e) # <<>> /\ Tail(From(e)) = <<>>
      BY <3>2
    <3> QED BY <1>4, <1>5, <2>2, <3>1, <3>3 DEF Returns, Changes
  <2>4. CASE next[e] # Null
    <3>1. e = KeptAt[t] /\ HasGuest(t)
      BY <1>3, <1>10, <2>4 DEF InList, Joined, Alone
    <3>2. PICK d \in Entries : Joined(t, d) /\ next[e] = d
      BY <3>1 DEF HasGuest, Joined
    <3>3. next'[e] = d /\ Joined(t, d)'
      BY <1>3, <3>2 DEF lists, Kept
    <3>4. At(k, Visit("call", t, d), {t})'
      BY <1>10, <2>4, <3>3
    <3>5. PendingOf(t)' = From(d)'
      BY <2>1, <3>4, PendingNext DEF PendingIs
    <3>6. From(d)' = <<Guest[t]>>
      BY <3>3, RegNext DEF RegIs
    <3>7. From(e) = <<Keeper[t], Guest[t]>>
      BY <3>1, Reg DEF RegIs
    <3>8. <<Keeper[t], Guest[t]>> # <<>> /\ Tail(<<Keeper[t], Guest[t]>>) = <<Guest[t]>>
      OBVIOUS
    <3> QED BY <1>4, <1>5, <2>2, <3>5, <3>6, <3>7, <3>8 DEF Returns, Changes
  <2> QED BY <2>3, <2>4
<1> QED BY <1>6, <1>7, <1>8, <1>9, <1>10 DEF Passes

\* The steps of the other programs.
LEMMA StartSeen ==
  ASSUME EvtInv, EvtInv', NEW k \in Callers, Step(k), NEW n \in 1..7, ClientStarting(k, n)
  PROVE  OneTable
<1> USE DEF EvtInv
<1>1. /\ k \in Tasks /\ Tables = {"framework", "control", "socket"}
      /\ "framework" \in Tables /\ "control" \in Tables /\ "socket" \in Tables
  BY CallerNames DEF Tables
<1>2. /\ OwnMove(k) /\ Kept("framework")
      /\ n # 7 => StartsAt(k, n + 1)' /\ GuestIff("control", n + 1 > 2)' /\ GuestIff("socket", n + 1 > 5)'
      /\ n = 7 => /\ At(k, Visit("after", "framework", 1), {"framework"})'
                  /\ HasGuest("control")' /\ HasGuest("socket")'
  BY <1>1, StartMoves DEF ClientStarting
<1>3. StartsAt(k, n) /\ GuestIff("control", n > 2) /\ GuestIff("socket", n > 5)
  BY DEF ClientStarting
<1>4. n # 7 => n + 1 \in 1..7
  OBVIOUS
<1>5. ASSUME NEW s \in Tables, s # "framework"
      PROVE  /\ owner[s] = k => PendingOf(s) = <<>>
             /\ owner'[s] = k => PendingOf(s)' = <<>>
  <2>1. owner[s] = k => PendingOf(s) = <<>>
    BY <1>1, <1>3, <1>5, Pending DEF PendingIs
  <2>2. n # 7 => (owner'[s] = k => PendingOf(s)' = <<>>)
    BY <1>1, <1>2, <1>4, <1>5, PendingNext DEF PendingIs
  <2>3. n = 7 => owner'[s] # k
    BY <1>2, <1>5 DEF At, Holds
  <2> QED BY <2>1, <2>2, <2>3
<1>6. Unmoved("framework")
  <2>1. owner["framework"] = k /\ owner'["framework"] = k
    BY <1>1, <1>2, <1>3, <1>4 DEF StartsAt, At, Holds
  <2>2. PendingOf("framework") = From(1)
    BY <1>1, <1>3, <2>1, Pending DEF PendingIs
  <2>3. PendingOf("framework")' = From(1)'
    BY <1>1, <1>2, <1>4, <2>1, PendingNext, Framework1 DEF PendingIs
  <2>4. Alone("framework") \/ HasGuest("framework")
    BY <1>1, TablesShaped DEF Shaped
  <2> QED BY <1>1, <1>2, <2>2, <2>3, <2>4, FormStays, Framework1 DEF Unmoved
<1>7. GuestIff("control", n + 1 > 2)' /\ GuestIff("socket", n + 1 > 5)'
  BY <1>2 DEF GuestIff
<1>8. /\ n # 2 => Unmoved("control")
      /\ n = 2 => Registers("control")
  <2> DEFINE b == n > 2
             c == n + 1 > 2
  <2>1. b \in BOOLEAN /\ c \in BOOLEAN /\ (n # 2 => b = c) /\ (n = 2 => ~b /\ c)
    OBVIOUS
  <2>2. GuestIff("control", b) /\ GuestIff("control", c)'
    BY <1>3, <1>7
  <2> HIDE DEF b, c
  <2> QED BY <1>1, <1>2, <1>5, <2>1, <2>2, OneEnd
<1>9. /\ n # 5 => Unmoved("socket")
      /\ n = 5 => Registers("socket")
  <2> DEFINE b == n > 5
             c == n + 1 > 5
  <2>1. b \in BOOLEAN /\ c \in BOOLEAN /\ (n # 5 => b = c) /\ (n = 5 => ~b /\ c)
    OBVIOUS
  <2>2. GuestIff("socket", b) /\ GuestIff("socket", c)'
    BY <1>3, <1>7
  <2> HIDE DEF b, c
  <2> QED BY <1>1, <1>2, <1>5, <2>1, <2>2, OneEnd
<1>10. CASE n = 2
  BY <1>1, <1>6, <1>8, <1>9, <1>10 DEF OneTable, Changes
<1>11. CASE n = 5
  BY <1>1, <1>6, <1>8, <1>9, <1>11 DEF OneTable, Changes
<1>12. CASE n # 2 /\ n # 5
  BY <1>1, <1>6, <1>8, <1>9, <1>12 DEF OneTable, Changes
<1> QED BY <1>10, <1>11, <1>12

\* The stop of the client.
LEMMA StopSeen ==
  ASSUME EvtInv, EvtInv', Step("client"), NEW n \in 1..7, ClientStopping(n)
  PROVE  OneTable
<1> USE DEF EvtInv
<1> DEFINE k == "client"
<1>1. /\ k \in Tasks /\ Tables = {"framework", "control", "socket"}
      /\ "framework" \in Tables /\ "control" \in Tables /\ "socket" \in Tables
  BY DEF Tables, Tasks
<1>2. /\ OwnMove(k) /\ Kept("framework")
      /\ n # 7 => StopsAt(n + 1)' /\ GuestIff("control", n + 1 <= 2)' /\ GuestIff("socket", n + 1 <= 5)'
      /\ n = 7 => Resting(k)' /\ Alone("control")' /\ Alone("socket")'
  BY StopMoves, TablesShaped DEF ClientStopping
<1>3. StopsAt(n) /\ GuestIff("control", n <= 2) /\ GuestIff("socket", n <= 5)
  BY DEF ClientStopping
<1>4. n # 7 => n + 1 \in 1..7
  OBVIOUS
<1> HIDE DEF k
<1>5. ASSUME NEW s \in Tables
      PROVE  /\ owner[s] = k => PendingOf(s) = <<>>
             /\ owner'[s] = k => PendingOf(s)' = <<>>
  <2>1. owner[s] = k => PendingOf(s) = <<>>
    BY <1>1, <1>3, <1>5, Pending DEF PendingIs, k
  <2>2. n # 7 => (owner'[s] = k => PendingOf(s)' = <<>>)
    BY <1>1, <1>2, <1>4, <1>5, PendingNext DEF PendingIs, k
  <2>3. n = 7 => owner'[s] # k
    BY <1>2, <1>5 DEF Resting, At, Holds
  <2> QED BY <2>1, <2>2, <2>3
<1>6. Unmoved("framework")
  <2>1. Alone("framework") \/ HasGuest("framework")
    BY <1>1, TablesShaped DEF Shaped
  <2>2. From(head["framework"])' = From(head["framework"])
    BY <1>1, <1>2, <2>1, FormStays
  <2> QED BY <1>1, <1>2, <1>5, <2>2, QuietEnds
<1>7. GuestIff("control", n + 1 <= 2)' /\ GuestIff("socket", n + 1 <= 5)'
  BY <1>2 DEF GuestIff
<1>8. /\ n # 2 => Unmoved("control")
      /\ n = 2 => Unregisters("control")
  <2> DEFINE b == n <= 2
             c == n + 1 <= 2
  <2>1. b \in BOOLEAN /\ c \in BOOLEAN /\ (n # 2 => b = c) /\ (n = 2 => b /\ ~c)
    OBVIOUS
  <2>2. GuestIff("control", b) /\ GuestIff("control", c)'
    BY <1>3, <1>7
  <2> HIDE DEF b, c
  <2> QED BY <1>1, <1>2, <1>5, <2>1, <2>2, OneEnd
<1>9. /\ n # 5 => Unmoved("socket")
      /\ n = 5 => Unregisters("socket")
  <2> DEFINE b == n <= 5
             c == n + 1 <= 5
  <2>1. b \in BOOLEAN /\ c \in BOOLEAN /\ (n # 5 => b = c) /\ (n = 5 => b /\ ~c)
    OBVIOUS
  <2>2. GuestIff("socket", b) /\ GuestIff("socket", c)'
    BY <1>3, <1>7
  <2> HIDE DEF b, c
  <2> QED BY <1>1, <1>2, <1>5, <2>1, <2>2, OneEnd
<1>10. CASE n = 2
  BY <1>1, <1>6, <1>8, <1>9, <1>10 DEF OneTable, Changes
<1>11. CASE n = 5
  BY <1>1, <1>6, <1>8, <1>9, <1>11 DEF OneTable, Changes
<1>12. CASE n # 2 /\ n # 5
  BY <1>1, <1>6, <1>8, <1>9, <1>12 DEF OneTable, Changes
<1> QED BY <1>10, <1>11, <1>12

\* The arrival of the provisioning task.
LEMMA JoinSeen ==
  ASSUME EvtInv, EvtInv', Step("sys"), NEW n \in 1..4, ProvJoins(n)
  PROVE  OneTable
<1> USE DEF EvtInv
<1> DEFINE k == "sys"
           t == "framework"
<1>1. k \in Tasks /\ t \in Tables
  BY DEF Tables, Tasks
<1>2. /\ OwnMove(k)
      /\ n # 4 => JoinsAt(n + 1)' /\ GuestIff(t, n + 1 > 2)'
      /\ n = 4 => Resting(k)' /\ HasGuest(t)'
  BY JoinMoves, TablesShaped DEF ProvJoins
<1>3. JoinsAt(n) /\ GuestIff(t, n > 2)
  BY DEF ProvJoins
<1>4. n # 4 => n + 1 \in 1..4
  OBVIOUS
<1> HIDE DEF k, t
<1>5. ASSUME NEW s \in Tables, s # t PROVE owner[s] # k /\ owner'[s] # k
  BY <1>2, <1>3, <1>5 DEF JoinsAt, At, Holds, Outer, Resting, k, t
<1>6. /\ owner[t] = k => PendingOf(t) = <<>>
      /\ owner'[t] = k => PendingOf(t)' = <<>>
  <2>1. owner[t] = k => PendingOf(t) = <<>>
    BY <1>1, <1>3, Pending DEF PendingIs, k
  <2>2. n # 4 => (owner'[t] = k => PendingOf(t)' = <<>>)
    BY <1>1, <1>2, <1>4, PendingNext DEF PendingIs, k
  <2>3. n = 4 => owner'[t] # k
    BY <1>1, <1>2 DEF Resting, At, Holds
  <2> QED BY <2>1, <2>2, <2>3
<1>7. /\ n # 2 => Unmoved(t)
      /\ n = 2 => Registers(t)
  <2> DEFINE b == n > 2
             c == n + 1 > 2
  <2>1. b \in BOOLEAN /\ c \in BOOLEAN /\ (n # 2 => b = c) /\ (n = 2 => ~b /\ c)
    OBVIOUS
  <2>2. GuestIff(t, b) /\ GuestIff(t, c)'
    BY <1>2, <1>3 DEF GuestIff
  <2> HIDE DEF b, c
  <2> QED BY <1>1, <1>2, <1>6, <2>1, <2>2, OneEnd
<1>8. \A s \in Tables \ {t} : Unmoved(s)
  BY <1>1, <1>2, <1>5, Elsewhere
<1> QED BY <1>1, <1>7, <1>8 DEF OneTable, Changes

\* Its leaving.
LEMMA LeaveSeen ==
  ASSUME EvtInv, EvtInv', Step("prov"), NEW n \in 1..4, ProvLeaves(n)
  PROVE  OneTable
<1> USE DEF EvtInv
<1> DEFINE k == "prov"
           t == "framework"
<1>1. k \in Tasks /\ t \in Tables
  BY DEF Tables, Tasks
<1>2. /\ OwnMove(k)
      /\ n # 4 => LeavesAt(n + 1)' /\ GuestIff(t, n + 1 <= 2)'
      /\ n = 4 => Resting(k)' /\ Alone(t)'
  BY LeaveMoves, TablesShaped DEF ProvLeaves
<1>3. LeavesAt(n) /\ GuestIff(t, n <= 2)
  BY DEF ProvLeaves
<1>4. n # 4 => n + 1 \in 1..4
  OBVIOUS
<1> HIDE DEF k, t
<1>5. ASSUME NEW s \in Tables, s # t PROVE owner[s] # k /\ owner'[s] # k
  BY <1>2, <1>3, <1>5 DEF LeavesAt, At, Holds, Outer, Resting, k, t
<1>6. /\ owner[t] = k => PendingOf(t) = <<>>
      /\ owner'[t] = k => PendingOf(t)' = <<>>
  <2>1. owner[t] = k => PendingOf(t) = <<>>
    BY <1>1, <1>3, Pending DEF PendingIs, k
  <2>2. n # 4 => (owner'[t] = k => PendingOf(t)' = <<>>)
    BY <1>1, <1>2, <1>4, PendingNext DEF PendingIs, k
  <2>3. n = 4 => owner'[t] # k
    BY <1>1, <1>2 DEF Resting, At, Holds
  <2> QED BY <2>1, <2>2, <2>3
<1>7. /\ n # 2 => Unmoved(t)
      /\ n = 2 => Unregisters(t)
  <2> DEFINE b == n <= 2
             c == n + 1 <= 2
  <2>1. b \in BOOLEAN /\ c \in BOOLEAN /\ (n # 2 => b = c) /\ (n = 2 => b /\ ~c)
    OBVIOUS
  <2>2. GuestIff(t, b) /\ GuestIff(t, c)'
    BY <1>2, <1>3 DEF GuestIff
  <2> HIDE DEF b, c
  <2> QED BY <1>1, <1>2, <1>6, <2>1, <2>2, OneEnd
<1>8. \A s \in Tables \ {t} : Unmoved(s)
  BY <1>1, <1>2, <1>5, Elsewhere
<1> QED BY <1>1, <1>7, <1>8 DEF OneTable, Changes

\* What is begun goes unseen, for the task has no mutex before or after.
LEMMA BeginSeen ==
  ASSUME EvtInv, EvtInv', NEW k \in Tasks, Resting(k),
         \A j \in Tasks \ {k} : todo'[j] = todo[j], UNCHANGED <<lists, owner>>
  PROVE  OneTable
<1>1. OwnMove(k)
  BY ListsStay DEF OwnMove
<1>2. \A s \in Tables : owner[s] # k /\ owner'[s] # k
  BY DEF Resting, At, Holds
<1> QED BY <1>1, <1>2, Elsewhere DEF OneTable

\* Every step of a task.
LEMMA StepSeen ==
  ASSUME EvtInv, EvtInv', NEW k \in Tasks, Step(k)
  PROVE  OneTable
<1> USE DEF EvtInv
<1>1. Shaped /\ todo[k] # <<>>
  BY TablesShaped DEF Step, Take, Give, First, Call, After, Change, Mark, Goes
<1>2. ~Resting(k)
  BY <1>1, AtRest
<1>3. ASSUME NEW t \in Tables, Notifying(k, t) PROVE OneTable
  <2>1. Notified(k, t)
    BY <1>1, <1>3, NotifyMoves DEF Shaped
  <2> QED BY <2>1, NotifySeen DEF Notified, Quiet
<1>4. ASSUME NEW n \in 1..7, StartsAt(k, n), k \in Callers PROVE OneTable
  <2>1. Busy(k)
    BY <1>4, Apart
  <2>2. ASSUME NEW j \in Callers, NEW m \in 1..7, ClientStarting(j, m) PROVE OneTable
    <3>1. CASE j = k
      BY <2>2, <3>1, StartSeen
    <3>2. CASE j # k
      <4>1. Calm(k)
        BY <1>4, <2>2, <3>2 DEF ClientStarting
      <4>2. Outside(k)
        BY <2>1, <4>1, Apart DEF Calm
      <4> QED BY <1>2, <1>3, <4>2, Framework1 DEF Outside
    <3> QED BY <3>1, <3>2
  <2>3. CASE \A j \in Callers : Calm(j)
    <3>1. Outside(k)
      BY <1>4, <2>1, <2>3, Apart DEF Calm
    <3> QED BY <1>2, <1>3, <3>1, Framework1 DEF Outside
  <2> QED BY <2>2, <2>3 DEF ClientPhase, ClientOff, ClientOn, ClientStopping
<1>5. ASSUME k = "sys", NEW n \in 1..4, JoinsAt(n) PROVE OneTable
  <2>1. ~Busy("sys")
    BY <1>5, Apart
  <2>2. PICK m \in 1..4 : ProvJoins(m)
    BY <2>1 DEF ProvPhase, ProvAway, ProvHere, ProvLeaves
  <2> QED BY <1>5, <2>2, JoinSeen
<1>6. ASSUME k = "prov", NEW n \in 1..4, LeavesAt(n) PROVE OneTable
  <2>1. ~Busy("prov") /\ ~Resting("prov")
    BY <1>2, <1>6, Apart
  <2>2. PICK m \in 1..4 : ProvLeaves(m)
    BY <2>1 DEF ProvPhase, ProvAway, ProvHere, ProvJoins
  <2> QED BY <1>6, <2>2, LeaveSeen
<1>7. CASE k = "client"
  <2>1. PICK m \in 1..7 : ClientStopping(m)
    BY <1>2, <1>7 DEF ClientPhase, ClientOff, ClientOn, ClientStarting
  <2> QED BY <1>7, <2>1, StopSeen
<1>8. CASE k = "control" \/ k = "meter"
  <2>1. "control" \in Tables /\ "socket" \in Tables
    BY DEF Tables
  <2> QED BY <1>2, <1>3, <1>8, <2>1 DEF OwnPlaces
<1>9. CASE k \in Callers
  BY <1>2, <1>3, <1>4, <1>5, <1>6, <1>9, WhereTheyAre DEF Callers
<1> QED BY <1>7, <1>8, <1>9 DEF Callers, Tasks

\* Every step there is.
LEMMA EveryStepSeen ==
  ASSUME EvtInv, EvtInv', [EvtNext]_evtVars
  PROVE  OneTable
<1> USE DEF EvtInv
<1>1. Tasks = {"sys", "prov", "control", "meter", "client"} /\ Callers = {"sys", "prov"}
  BY DEF Tasks, Callers
<1>2. ASSUME NEW k \in Tasks, NEW P, Begin(k, P) PROVE OneTable
  <2>1. Resting(k)
    <3>1. todo[k] = <<>>
      BY <1>2 DEF Begin
    <3>2. CASE k \in Callers
      <4>1. Calm(k) \/ Busy(k)
        BY <3>2, Apart DEF ClientPhase, ClientOff, ClientOn, ClientStarting, ClientStopping
      <4> QED BY <3>1, <3>2, <4>1, AtRest
    <3>3. CASE k = "control" \/ k = "meter"
      <4>1. "control" \in Tables /\ "socket" \in Tables
        BY DEF Tables
      <4> QED BY <1>1, <3>1, <3>3, <4>1, AtRest DEF OwnPlaces
    <3>4. CASE k = "client"
      BY <3>1, <3>4, AtRest DEF ClientPhase, ClientOff, ClientOn, ClientStarting, ClientStopping
    <3> QED BY <1>1, <3>2, <3>3, <3>4
  <2>2. /\ UNCHANGED <<lists, owner>>
        /\ \A j \in Tasks \ {k} : todo'[j] = todo[j]
    BY <1>2 DEF Begin, EvtTypeOK
  <2> QED BY <2>1, <2>2, BeginSeen
<1>3. CASE SysBegins \/ ProvBegins \/ ControlBegins \/ MeterBegins
  BY <1>1, <1>2, <1>3 DEF SysBegins, ProvBegins, ControlBegins, MeterBegins, Framework
<1>4. CASE ClientStops
  <2>1. Resting("client") /\ "client" \in Tasks
    BY <1>1, <1>4, AtRest DEF ClientStops, ClientPhase, ClientOff, ClientOn, ClientStarting, ClientStopping
  <2>2. /\ UNCHANGED <<lists, owner>>
        /\ \A j \in Tasks \ {"client"} : todo'[j] = todo[j]
    BY <1>4 DEF ClientStops, EvtTypeOK
  <2> QED BY <2>1, <2>2, BeginSeen
<1>6. CASE ProvFrees
  <2>1. Resting("prov") /\ "prov" \in Tasks
    <3>1. todo["prov"] = <<>>
      BY <1>6 DEF ProvFrees
    <3>2. Calm("prov") \/ Busy("prov")
      BY <1>1, Apart DEF ClientPhase, ClientOff, ClientOn, ClientStarting, ClientStopping
    <3> QED BY <1>1, <3>1, <3>2, AtRest
  <2>2. /\ UNCHANGED <<lists, owner>>
        /\ \A j \in Tasks \ {"prov"} : todo'[j] = todo[j]
    BY <1>6 DEF ProvFrees, EvtTypeOK
  <2> QED BY <2>1, <2>2, BeginSeen
<1>5. CASE UNCHANGED evtVars
  <2>1. UNCHANGED <<lists, owner, todo>>
    BY <1>5 DEF evtVars
  <2>2. \A k \in Tasks : OwnMove(k)
    BY <2>1, ListsStay DEF OwnMove
  <2>3. ASSUME NEW s \in Tables PROVE Unmoved(s)
    <3>1. PICK k \in Tasks : owner[s] # k
      BY <1>1
    <3>2. owner'[s] # k
      BY <2>1, <3>1
    <3> QED BY <2>2, <3>1, <3>2, Elsewhere
  <2> QED BY <2>3 DEF OneTable
<1> QED BY <1>3, <1>4, <1>5, <1>6, StepSeen DEF EvtNext

-----------------------------------------------------------------------------
\* The abstract tables.
LEMMA OneAndTwo ==
  ASSUME NEW S, NEW f \in S, NEW g \in S
  PROVE  /\ Append(<<f>>, g) = <<f, g>>
         /\ SubSeq(<<f, g>>, 1, 2 - 1) \o SubSeq(<<f, g>>, 2 + 1, Len(<<f, g>>)) = <<f>>
         /\ 2 \in DOMAIN <<f, g>> /\ <<f, g>>[2] = g
         /\ Range(<<f>>) = {f} /\ IsInjective(<<f>>) /\ <<f>> \in Seq(S)
<1>1. Append(<<f>>, g) = <<f, g>>
  <2>1. <<f>> \in Seq(S) /\ <<f, g>> \in Seq(S) /\ Len(<<f>>) = 1 /\ Len(<<f, g>>) = 2
    OBVIOUS
  <2> DEFINE s == <<f>>
             p == <<f, g>>
  <2>2. s[1] = f /\ p[1] = f /\ p[2] = g
    OBVIOUS
  <2>3. \A i \in 1..2 : i = 1 \/ i = 2
    OBVIOUS
  <2>4. 1 \in 1..1 /\ 1 + 1 = 2
    OBVIOUS
  <2> HIDE DEF s, p
  <2>5. s \in Seq(S) /\ p \in Seq(S) /\ Len(s) = 1 /\ Len(p) = 2
    BY <2>1 DEF s, p
  <2>6. /\ Append(s, g) \in Seq(S) /\ Len(Append(s, g)) = 2
        /\ Append(s, g)[1] = f /\ Append(s, g)[2] = g
    <3>1. /\ Append(s, g) \in Seq(S) /\ Len(Append(s, g)) = Len(s) + 1
          /\ \A i \in 1..Len(s) : Append(s, g)[i] = s[i]
          /\ Append(s, g)[Len(s) + 1] = g
      <4>1. s \in Seq(S) /\ g \in S
        BY <2>5
      <4>2. Append(s, g) \in Seq(S)
        BY <4>1, AppendProperties
      <4>3. Len(Append(s, g)) = Len(s) + 1
        BY <4>1, AppendProperties
      <4>4. \A i \in 1..Len(s) : Append(s, g)[i] = s[i]
        BY <4>1, AppendProperties
      <4>5. Append(s, g)[Len(s) + 1] = g
        BY <4>1, AppendProperties
      <4> QED BY <4>2, <4>3, <4>4, <4>5
    <3> DEFINE a == Append(s, g)
    <3> HIDE DEF a
    <3>2. /\ a \in Seq(S) /\ Len(a) = Len(s) + 1
          /\ \A i \in 1..Len(s) : a[i] = s[i]
          /\ a[Len(s) + 1] = g
      BY <3>1 DEF a
    <3>3. a \in Seq(S) /\ Len(a) = 2 /\ a[1] = f /\ a[2] = g
      BY <2>2, <2>4, <2>5, <3>2
    <3> QED BY <3>3 DEF a
  <2>7. Append(s, g) = p
    BY <2>2, <2>3, <2>5, <2>6, SeqEqual
  <2> QED BY <2>7 DEF s, p
<1>2. 2 \in DOMAIN <<f, g>> /\ <<f, g>>[2] = g
  OBVIOUS
<1>3. Range(<<f>>) = {f} /\ IsInjective(<<f>>) /\ <<f>> \in Seq(S)
  BY DEF Range, IsInjective
<1>4. SubSeq(<<f, g>>, 1, 2 - 1) \o SubSeq(<<f, g>>, 2 + 1, Len(<<f, g>>)) = <<f>>
  <2> DEFINE p == <<f, g>>
  <2>1. p \in Seq(S) /\ Len(p) = 2 /\ p[1] = f
    OBVIOUS
  <2> HIDE DEF p
  <2>2. SubSeq(p, 2 + 1, Len(p)) = <<>>
    BY <2>1, SubSeqEmpty
  <2>3. SubSeq(p, 1, 2 - 1) = <<f>>
    <3>1. 1 \in 1..Len(p) /\ 2 - 1 = 1
      BY <2>1
    <3>2. SubSeq(p, 1, 1) = <<p[1]>> \o SubSeq(p, 1 + 1, 1)
      BY <2>1, <3>1, SubSeqRecursiveFirst
    <3>3. SubSeq(p, 1 + 1, 1) = <<>>
      BY SubSeqEmpty
    <3>4. <<f>> \o <<>> = <<f>>
      BY <1>3, ConcatEmptySeq
    <3> QED BY <2>1, <3>1, <3>2, <3>3, <3>4
  <2>4. <<f>> \o <<>> = <<f>>
    BY <1>3, ConcatEmptySeq
  <2> QED BY <2>2, <2>3, <2>4 DEF p
<1> QED BY <1>1, <1>2, <1>3, <1>4

\* Every step is one of the registry or none.
LEMMA RegistryStep ==
  ASSUME EvtInv, EvtInv', [EvtNext]_evtVars
  PROVE  [Registry!Next]_(Registry!vars)
<1> DEFINE reg == [t \in Tables |-> From(head[t])]
           pending == [t \in Tables |-> PendingOf(t)]
<1>1. OneTable
  BY EveryStepSeen
<1>2. CASE \A s \in Tables : Unmoved(s)
  <2>1. reg' = reg /\ pending' = pending
    BY <1>2 DEF Unmoved
  <2> QED BY <2>1 DEF Registry!vars
<1>3. ASSUME NEW t \in Tables, Changes(t), \A s \in Tables \ {t} : Unmoved(s)
      PROVE  Registry!Next
  <2> DEFINE K == Keeper[t]
             G == Guest[t]
  <2>1. K \in Funcs /\ G \in Funcs /\ K # G
    BY Places
  <2> HIDE DEF K, G
  <2>2. /\ Append(<<K>>, G) = <<K, G>>
        /\ SubSeq(<<K, G>>, 1, 2 - 1) \o SubSeq(<<K, G>>, 2 + 1, Len(<<K, G>>)) = <<K>>
        /\ 2 \in DOMAIN <<K, G>> /\ <<K, G>>[2] = G /\ Range(<<K>>) = {K}
    BY <2>1, OneAndTwo
  <2>3. /\ reg' = [reg EXCEPT ![t] = From(head[t])']
        /\ pending' = [pending EXCEPT ![t] = PendingOf(t)']
        /\ reg[t] = From(head[t]) /\ pending[t] = PendingOf(t)
    BY <1>3 DEF Unmoved
  <2>4. From(head[t])' = From(head[t]) => reg' = reg
    BY <2>3
  <2>5. PendingOf(t)' = PendingOf(t) => pending' = pending
    BY <2>3
  <2> HIDE DEF reg, pending
  <2>6. CASE Registers(t)
    <3>1. /\ pending[t] = <<>> /\ G \notin Range(reg[t]) /\ pending' = pending
          /\ reg' = [reg EXCEPT ![t] = Append(@, G)]
      BY <2>1, <2>2, <2>3, <2>5, <2>6 DEF Registers, K, G
    <3>2. Registry!Register(t, G)
      BY <3>1 DEF Registry!Register, Registry!Range, Range, reg, pending
    <3> QED BY <2>1, <3>2 DEF Registry!Next
  <2>7. CASE Unregisters(t)
    <3>1. /\ pending[t] = <<>> /\ pending' = pending
          /\ 2 \in DOMAIN reg[t] /\ reg[t][2] = G
          /\ reg' = [reg EXCEPT ![t] = SubSeq(@, 1, 2 - 1) \o SubSeq(@, 2 + 1, Len(@))]
      BY <2>1, <2>2, <2>3, <2>5, <2>7 DEF Unregisters, K, G
    <3>2. Registry!Unregister(t, G)
      BY <3>1 DEF Registry!Unregister, reg, pending
    <3> QED BY <2>1, <3>2 DEF Registry!Next
  <2>8. CASE Notifies(t)
    <3>1. pending[t] = <<>> /\ pending' = [pending EXCEPT ![t] = reg[t]] /\ reg' = reg
      BY <2>3, <2>4, <2>8 DEF Notifies
    <3>2. Registry!Notify(t)
      BY <3>1 DEF Registry!Notify, reg, pending
    <3> QED BY <3>2 DEF Registry!Next
  <2>9. CASE Returns(t)
    <3>1. pending[t] # <<>> /\ pending' = [pending EXCEPT ![t] = Tail(@)] /\ reg' = reg
      BY <2>3, <2>4, <2>9 DEF Returns
    <3>2. Registry!Return(t)
      BY <3>1 DEF Registry!Return, reg, pending
    <3> QED BY <3>2 DEF Registry!Next
  <2> QED BY <1>3, <2>6, <2>7, <2>8, <2>9 DEF Changes
<1> QED BY <1>1, <1>2, <1>3 DEF OneTable

\* After the start-up each table has the one function that stays.
LEMMA RegistryInitially == EvtInit => Registry!Init
<1> SUFFICES ASSUME EvtInit PROVE Registry!Init
  OBVIOUS
<1>1. EvtTypeOK /\ Keepers /\ Shaped
  BY EvtInitially, TablesShaped DEF EvtInv
<1>2. \A t \in Tables : Alone(t)
  <2>1. \A t \in Tables : tail[t] = KeptAt[t]
    BY DEF EvtInit, KeptAt
  <2>2. \A t \in Tables : next[KeptAt[t]] = Null /\ KeptAt[t] # Null
    BY Places, Heap DEF EvtInit
  <2> QED BY <1>1, <2>1, <2>2, Places DEF Shaped, HasGuest, Joined
<1>3. ASSUME NEW t \in Tables
      PROVE  From(head[t]) \in Seq(Funcs) /\ IsInjective(From(head[t])) /\ PendingOf(t) = <<>>
  <2>1. From(head[t]) = <<Keeper[t]>>
    BY <1>1, <1>2, Reg DEF RegIs
  <2>2. owner[t] = Nobody
    BY DEF EvtInit
  <2>3. PendingOf(t) = <<>>
    BY <2>2, Pending DEF PendingIs
  <2>4. <<Keeper[t]>> \in Seq(Funcs) /\ IsInjective(<<Keeper[t]>>)
    <3>1. PICK f \in Funcs : f = Keeper[t]
      BY Places
    <3>2. <<f>> \in Seq(Funcs) /\ IsInjective(<<f>>)
      BY OneAndTwo
    <3> QED BY <3>1, <3>2
  <2> QED BY <2>1, <2>3, <2>4
<1> QED BY <1>3 DEF Registry!Init, Registry!IsInjective, IsInjective

\* Every registration, removal and notification of the tables, in whatever order
\* the tasks take their steps, is one of the tables of functions: a notification
\* calls all that are registered, in order, and nothing changes meanwhile.
THEOREM RegistryImplemented == EvtSpec => ImplementsRegistry
<1>1. EvtInv /\ EvtInv' /\ [EvtNext]_evtVars => [Registry!Next]_(Registry!vars)
  BY RegistryStep
<1> QED BY <1>1, RegistryInitially, EvtInvariant, PTL DEF EvtSpec, ImplementsRegistry, Registry!Spec

-----------------------------------------------------------------------------
(***************************************************************************)
(* The control task.                                                       *)
(***************************************************************************)
USE DEF Reboot, Signal, Wifi

\* The reboot after a factory reset waits in the queue.
ResetQueued == \E i \in 1..Len(queue) : queue[i] = Reboot("resetFactory")

\* A reset that is to be reported was made: the provisioning was erased before
\* the reboot was put in the queue, and before a start nothing is in the queue.
WipeInv ==
    /\ pc \in {"wiping", "wiped"} => "provisioning" \in wiped
    /\ ResetQueued => "provisioning" \in wiped
    /\ "resetFactory" \in {reboot, flash} => "provisioning" \in wiped
    /\ pc = "boot" => queue = <<>> /\ reboot = "none"

\* A try that is scheduled and not begun has a request of its own.
TryInv ==
    /\ begun <= asked
    /\ fw \in {"soon", "due"} /\ pc # "ota" => begun < asked
    /\ due.fw /\ pc \in {"checkWifi", "checkFw"} => fw = "due"
    /\ pc \in {"reset", "wiping", "wiped"} /\ due.fw => fw = "due"

\* What is in flash: the reason just ordered, or one that says nothing.
FlashInv ==
    /\ flash \in {"none", "crash", ordered}
    /\ pc = "rebooting" \/ clean => flash = ordered /\ ordered \in Reasons

IInv == TypeOK /\ WipeInv /\ TryInv /\ FlashInv

\* A message put in the queue leaves a queue of messages no longer than allowed.
LEMMA PutType ==
    ASSUME NEW q \in Seq(Messages), NEW m \in Messages, Len(q) <= QSize
    PROVE  Put(q, m) \in Seq(Messages) /\ Len(Put(q, m)) <= QSize
BY ControlAssumption, AppendProperties DEF Put

\* The head of a queue is a message and the tail a shorter queue.
LEMMA TailType ==
    ASSUME NEW q \in Seq(Messages), q # <<>>, Len(q) <= QSize
    PROVE  Head(q) \in Messages /\ Tail(q) \in Seq(Messages) /\ Len(Tail(q)) <= QSize
BY ControlAssumption, HeadTailProperties

\* A message in the queue was there before, or is the one that was put.
LEMMA PutQueued ==
    ASSUME NEW m \in Messages, m # Reboot("resetFactory"), queue \in Seq(Messages),
           queue' = Put(queue, m)
    PROVE  ResetQueued' => ResetQueued
<1> SUFFICES ASSUME NEW i \in 1..Len(queue'), queue'[i] = Reboot("resetFactory")
             PROVE  ResetQueued
  BY DEF ResetQueued
<1>1. CASE queue' = queue
  BY <1>1 DEF ResetQueued
<1>2. CASE queue' = Append(queue, m)
  <2>1. /\ Len(queue') = Len(queue) + 1 /\ queue'[Len(queue) + 1] = m
        /\ \A j \in 1..Len(queue) : queue'[j] = queue[j]
    BY <1>2, AppendProperties
  <2>2. i \in 1..Len(queue)
    BY <2>1
  <2> QED BY <2>1, <2>2 DEF ResetQueued
<1> QED BY <1>1, <1>2 DEF Put

\* It holds when the device is switched on.
LEMMA InitInv == Init => IInv
<1> SUFFICES ASSUME Init PROVE IInv
  OBVIOUS
<1> USE ControlAssumption DEF Init
<1>1. queue \in Seq(Messages) /\ Len(queue) = 0
  BY EmptySeq
<1>2. TypeOK
  <2>1. queue \in Seq(Messages) /\ Len(queue) <= QSize
    BY <1>1
  <2>2. wiped \subseteq Settings /\ {asked, begun} \subseteq Nat /\ trouble \in 0..MaxTrouble
    OBVIOUS
  <2>3. due \in [wifi : BOOLEAN, fw : BOOLEAN] /\ wifiLeft \in 0..WifiTimeout
    OBVIOUS
  <2> QED BY <2>1, <2>2, <2>3 DEF TypeOK
<1>3. WipeInv /\ TryInv /\ FlashInv
  BY DEF WipeInv, ResetQueued, TryInv, FlashInv, Reasons
<1> QED BY <1>2, <1>3 DEF IInv

\* Every step keeps the types.
LEMMA TypeStep == TypeOK /\ Next => TypeOK'
<1> SUFFICES ASSUME TypeOK, Next PROVE TypeOK'
  OBVIOUS
<1> USE ControlAssumption DEF TypeOK, timers, boot, resets, updates
<1>0. /\ \A r \in Reasons : Reboot(r) \in Messages
      /\ \A x \in Signals : Signal(x) \in Messages
      /\ Wifi("up") \in Messages /\ Wifi("lost") \in Messages
  BY DEF Messages
<1>1. CASE BootReasonGet
  BY <1>1 DEF BootReasonGet
<1>2. CASE RebootBegin
  BY <1>2 DEF RebootBegin
<1>3. CASE EspRestart \/ Crash
  <2>0. PowerUp
    BY <1>3, Zenon DEF EspRestart, Crash
  <2>1. clean' \in BOOLEAN
    BY <1>3, Zenon DEF EspRestart, Crash
  <2>5. trouble' \in 0..MaxTrouble
    <3>1. trouble' = trouble \/ (trouble > 0 /\ trouble' = trouble - 1)
      BY <1>3, Zenon DEF EspRestart, Crash
    <3> QED BY <3>1
  <2>2. queue' \in Seq(Messages) /\ Len(queue') <= QSize
    BY <2>0, EmptySeq DEF PowerUp
  <2>3. wiped' \subseteq Settings /\ {asked', begun'} \subseteq Nat
    BY <2>0 DEF PowerUp
  <2>4. due' \in [wifi : BOOLEAN, fw : BOOLEAN] /\ wifiLeft' \in 0..WifiTimeout
    BY <2>0 DEF PowerUp
  <2> QED BY <2>0, <2>1, <2>2, <2>3, <2>4, <2>5 DEF PowerUp
<1>4. CASE ReceiveNone
  BY <1>4 DEF ReceiveNone, Snapshot
<1>5. CASE Receive
  <2>1. /\ Head(queue) \in Messages
        /\ queue' \in Seq(Messages) /\ Len(queue') <= QSize
    BY <1>5, TailType DEF Receive
  <2>2. /\ wifi' \in {"init", "connUp", "connLost"} /\ wifiLeft' \in 0..WifiTimeout
        /\ fw' \in {"never", "soon", "due", "failed"}
        /\ reboot' \in Reasons \cup {"none"}
        /\ pc' \in {"checkWifi", "reset"}
    BY <1>5, <2>1 DEF Receive, HandleMsg, Messages, Signals
  <2> QED BY <1>5, <2>1, <2>2 DEF Receive, Snapshot
<1>6. CASE EraseProvisioning \/ ResetParameters
  BY <1>6 DEF EraseProvisioning, ResetParameters, Settings
<1>7. CASE ResetReboot
  BY <1>7, <1>0, PutType DEF ResetReboot, Reasons
<1>8. CASE CheckWifi
  BY <1>8, <1>0, PutType DEF CheckWifi, Reasons
<1>9. CASE CheckFwNone \/ CheckFwStart \/ FwFail
  BY <1>9 DEF CheckFwNone, CheckFwStart, FwFail
<1>10. CASE FwSuccess
  BY <1>10, <1>0, PutType DEF FwSuccess, Reasons
<1>11. CASE Tick
  BY <1>11 DEF Tick
<1>12. CASE LinkUp \/ LinkLost \/ StillDown
  <2>1. queue' \in Seq(Messages) /\ Len(queue') <= QSize
    BY <1>12, <1>0, PutType DEF LinkUp, LinkLost, StillDown
  <2>2. CASE LinkUp
    BY <2>1, <2>2 DEF LinkUp
  <2>4. CASE LinkLost
    <3>1. trouble > 0 /\ trouble' = trouble - 1
      BY <2>4 DEF LinkLost
    <3>2. trouble' \in 0..MaxTrouble
      BY <3>1
    <3>3. link' = "lost"
      BY <2>4, Zenon DEF LinkLost
    <3>4. UNCHANGED <<pc, timers, due, reboot, boot, resets, updates>>
      BY <2>4, Zenon DEF LinkLost
    <3> QED BY <2>1, <3>2, <3>3, <3>4
  <2>3. CASE StillDown
    BY <2>1, <2>3 DEF StillDown
  <2> QED BY <1>12, <2>2, <2>3, <2>4
<1>13. CASE \E m \in Requests : Request(m)
  <2>1. PICK m \in Requests : Request(m)
    BY <1>13
  <2>2. m \in Messages
    BY <1>0 DEF Requests, Reasons
  <2>3. queue' \in Seq(Messages) /\ Len(queue') <= QSize
    BY <2>1, <2>2, PutType DEF Request
  <2> QED BY <2>1, <2>3 DEF Request
<1> QED BY <1>1, <1>2, <1>3, <1>4, <1>5, <1>6, <1>7, <1>8, <1>9, <1>10, <1>11,
           <1>12, <1>13 DEF Next, ControlTask

\* A reset erases before it asks for the reboot, and what is erased is forgotten
\* by a start only, together with the reason.
LEMMA WipeStep == TypeOK /\ WipeInv /\ Next => WipeInv'
<1> SUFFICES ASSUME TypeOK, WipeInv, Next PROVE WipeInv'
  OBVIOUS
<1> USE DEF WipeInv, timers, boot, resets, updates
<1>0. /\ queue \in Seq(Messages)
      /\ \A r \in Reasons : Reboot(r) \in Messages
      /\ \A x \in Signals : Signal(x) \in Messages
      /\ Wifi("up") \in Messages /\ Wifi("lost") \in Messages
  BY DEF TypeOK, Messages
<1>1. CASE BootReasonGet
  BY <1>1 DEF BootReasonGet, ResetQueued
<1>2. CASE RebootBegin
  BY <1>2 DEF RebootBegin, ResetQueued
<1>3. CASE EspRestart \/ Crash
  <2>1. PowerUp
    BY <1>3 DEF EspRestart, Crash
  <2> QED BY <2>1 DEF PowerUp, ResetQueued
<1>4. CASE Receive
  <2>1. ResetQueued' => ResetQueued
    <3> SUFFICES ASSUME NEW i \in 1..Len(queue'), queue'[i] = Reboot("resetFactory")
                 PROVE  ResetQueued
      BY DEF ResetQueued
    <3>1. i + 1 \in 1..Len(queue) /\ queue'[i] = queue[i + 1]
      BY <1>0, <1>4, HeadTailProperties DEF Receive
    <3> QED BY <3>1 DEF ResetQueued
  <2>2. reboot' = "resetFactory" => reboot = "resetFactory" \/ ResetQueued
    <3>1. Head(queue) = queue[1] /\ 1 \in 1..Len(queue) /\ queue[1] \in Messages
      BY <1>0, <1>4, HeadTailProperties DEF Receive
    <3>2. reboot' = reboot \/ (queue[1].code = "reboot" /\ reboot' = queue[1].arg)
      BY <1>4, <3>1 DEF Receive, HandleMsg
    <3>3. queue[1].code = "reboot" /\ queue[1].arg = "resetFactory"
            => queue[1] = Reboot("resetFactory")
      BY <3>1 DEF Messages
    <3> QED BY <3>1, <3>2, <3>3 DEF ResetQueued
  <2>3. pc' \in {"checkWifi", "reset"} /\ wiped' = wiped /\ flash' = flash
    BY <1>4 DEF Receive, HandleMsg
  <2> QED BY <2>1, <2>2, <2>3
<1>5. CASE EraseProvisioning \/ ResetParameters
  BY <1>5 DEF EraseProvisioning, ResetParameters, ResetQueued
<1>6. CASE ResetReboot
  BY <1>6 DEF ResetReboot
<1>7. CASE ReceiveNone \/ CheckFwNone \/ CheckFwStart \/ FwFail \/ Tick
  BY <1>7 DEF ReceiveNone, CheckFwNone, CheckFwStart, FwFail, Tick, ResetQueued
<1>8. CASE CheckWifi
  <2>1. ResetQueued' => ResetQueued
    BY <1>0, <1>8, PutQueued DEF CheckWifi, Reasons, ResetQueued
  <2> QED BY <1>8, <2>1 DEF CheckWifi
<1>9. CASE FwSuccess
  <2>1. ResetQueued' => ResetQueued
    BY <1>0, <1>9, PutQueued DEF FwSuccess, Reasons
  <2> QED BY <1>9, <2>1 DEF FwSuccess
<1>10. CASE LinkUp \/ LinkLost \/ StillDown
  <2>1. ResetQueued' => ResetQueued
    BY <1>0, <1>10, PutQueued DEF LinkUp, LinkLost, StillDown
  <2> QED BY <1>10, <2>1 DEF LinkUp, LinkLost, StillDown
<1>11. CASE \E m \in Requests : Request(m)
  <2>1. PICK m \in Requests : Request(m)
    BY <1>11
  <2>2. m \in Messages /\ m # Reboot("resetFactory")
    BY <1>0 DEF Requests, Reasons
  <2>3. ResetQueued' => ResetQueued
    BY <1>0, <2>1, <2>2, PutQueued DEF Request
  <2> QED BY <2>1, <2>3 DEF Request
<1> QED BY <1>1, <1>2, <1>3, <1>4, <1>5, <1>6, <1>7, <1>8, <1>9, <1>10, <1>11
        DEF Next, ControlTask

\* A request taken pays for one try; a failed or successful one stops the timer.
LEMMA TryStep == TypeOK /\ TryInv /\ Next => TryInv'
<1> SUFFICES ASSUME TypeOK, TryInv, Next PROVE TryInv'
  OBVIOUS
<1> USE DEF TryInv, timers, boot, resets, updates, TypeOK
<1>1. CASE BootReasonGet \/ RebootBegin
  BY <1>1 DEF BootReasonGet, RebootBegin
<1>2. CASE EspRestart \/ Crash
  BY <1>2 DEF EspRestart, Crash, PowerUp
<1>3. CASE ReceiveNone
  BY <1>3 DEF ReceiveNone, Snapshot
<1>4. CASE Receive
  <2>1. /\ asked' >= asked /\ begun' = begun
        /\ fw' = fw \/ (fw' = "soon" /\ asked' = asked + 1)
    BY <1>4 DEF Receive, HandleMsg
  <2>2. due'.fw <=> fw' = "due"
    BY <1>4 DEF Receive, Snapshot
  <2>3. pc = "loop" /\ pc' \in {"checkWifi", "reset"}
    BY <1>4 DEF Receive, HandleMsg
  <2> QED BY <1>4, <2>1, <2>2, <2>3 DEF Receive
<1>5. CASE EraseProvisioning \/ ResetParameters \/ ResetReboot \/ CheckWifi \/ CheckFwNone
  BY <1>5 DEF EraseProvisioning, ResetParameters, ResetReboot, CheckWifi, CheckFwNone
<1>6. CASE CheckFwStart \/ FwSuccess \/ FwFail
  BY <1>6 DEF CheckFwStart, FwSuccess, FwFail
<1>7. CASE Tick \/ LinkUp \/ LinkLost \/ StillDown \/ \E m \in Requests : Request(m)
  BY <1>7 DEF Tick, LinkUp, LinkLost, StillDown, Request
<1> QED BY <1>1, <1>2, <1>3, <1>4, <1>5, <1>6, <1>7 DEF Next, ControlTask

\* The flash is written when a reboot begins and when its reason is read.
LEMMA FlashStep == TypeOK /\ FlashInv /\ Next => FlashInv'
<1> SUFFICES ASSUME TypeOK, FlashInv, Next PROVE FlashInv'
  OBVIOUS
<1> USE DEF FlashInv, timers, boot, resets, updates, TypeOK
<1>1. CASE BootReasonGet \/ RebootBegin
  BY <1>1 DEF BootReasonGet, RebootBegin
<1>2. CASE EspRestart \/ Crash
  BY <1>2 DEF EspRestart, Crash, PowerUp
<1>3. CASE Receive
  BY <1>3 DEF Receive, HandleMsg
<1>4. CASE ReceiveNone \/ EraseProvisioning \/ ResetParameters \/ ResetReboot
             \/ CheckWifi \/ CheckFwNone \/ CheckFwStart \/ FwSuccess \/ FwFail
  BY <1>4 DEF ReceiveNone, EraseProvisioning, ResetParameters, ResetReboot, CheckWifi,
              CheckFwNone, CheckFwStart, FwSuccess, FwFail
<1>5. CASE Tick \/ LinkUp \/ LinkLost \/ StillDown \/ \E m \in Requests : Request(m)
  BY <1>5 DEF Tick, LinkUp, LinkLost, StillDown, Request
<1> QED BY <1>1, <1>2, <1>3, <1>4, <1>5 DEF Next, ControlTask

\* The strengthening that the theorems follow from.
THEOREM Inductive == Spec => []IInv
<1>1. IInv /\ UNCHANGED vars => IInv'
  BY DEF IInv, TypeOK, WipeInv, ResetQueued, TryInv, FlashInv, vars, timers, boot, resets, updates
<1>2. IInv /\ [Next]_vars => IInv'
  BY <1>1, TypeStep, WipeStep, TryStep, FlashStep DEF IInv
<1> QED BY InitInv, <1>2, PTL DEF Spec

\* Every variable keeps its type, so the queue its length, in every run.
THEOREM ControlTypeOK == Spec => []TypeOK
<1>1. IInv => TypeOK
  BY DEF IInv
<1> QED BY <1>1, Inductive, PTL

\* The task never tries an update that was not asked for.
THEOREM TriesAreRequested == Spec => []OneTryPerRequest
<1>1. IInv => OneTryPerRequest
  BY DEF IInv, TryInv, OneTryPerRequest
<1> QED BY <1>1, Inductive, PTL

\* After an ordered reboot its reason is reported, after a crash no other, and
\* a factory reset only after the provisioning was erased.
THEOREM ReasonReported == Spec => BootReasonTrue
<1>1. IInv /\ [Next]_vars =>
        [ pc = "boot" /\ pc' = "loop" =>
            /\ clean => reported' = ordered
            /\ reported' \in {ordered, "crash", "firstBoot"}
            /\ reported' = "resetFactory" => "provisioning" \in wiped ]_vars
  <2> SUFFICES ASSUME IInv, Next, pc = "boot", pc' = "loop"
               PROVE  /\ clean => reported' = ordered
                      /\ reported' \in {ordered, "crash", "firstBoot"}
                      /\ reported' = "resetFactory" => "provisioning" \in wiped
    OBVIOUS
  <2>1. BootReasonGet
    BY DEF Next, ControlTask, RebootBegin, EspRestart, ReceiveNone, Receive,
           EraseProvisioning, ResetParameters, ResetReboot, CheckWifi, CheckFwNone,
           CheckFwStart, FwSuccess, FwFail, Tick, LinkUp, LinkLost, StillDown,
           Crash, PowerUp, Request
  <2> QED BY <2>1 DEF BootReasonGet, IInv, FlashInv, WipeInv, Reasons
<1> QED BY <1>1, Inductive, PTL DEF Spec, BootReasonTrue

=============================================================================
