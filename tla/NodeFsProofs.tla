--------------------------- MODULE NodeFsProofs ---------------------------
(***************************************************************************)
(* Theorems about NodeFs, for any set of objects, any limit of the queue    *)
(* and any number of events.                                                *)
(***************************************************************************)
EXTENDS NodeFs, SequenceTheorems, TLAPS

\* The loop of events() takes half of the events that are queued, rounded up.
LEMMA PolledHalf ==
    ASSUME NEW n \in Nat
    PROVE  /\ PolledCount(n) \in 0 .. n
           /\ PolledCount(n) = (n + 1) \div 2
<1> DEFINE P(k) == k >= n - k /\ \A j \in 0 .. k - 1 : j < n - j
<1>1. (n + 1) \div 2 \in 0 .. n /\ P((n + 1) \div 2)
  OBVIOUS
<1>2. \A k \in 0 .. n : P(k) => k = (n + 1) \div 2
  <2> SUFFICES ASSUME NEW k \in 0 .. n, P(k) PROVE k = (n + 1) \div 2
    OBVIOUS
  <2>1. CASE k = 0
    BY <2>1
  <2>2. CASE k > 0
    <3>1. k - 1 \in 0 .. k - 1
      BY <2>2
    <3>2. k - 1 < n - (k - 1)
      BY <3>1
    <3> QED BY <3>2
  <2> QED BY <2>1, <2>2
<1>3. PolledCount(n) \in 0 .. n /\ P(PolledCount(n))
  <2> HIDE DEF P
  <2>1. PolledCount(n) = CHOOSE k \in 0 .. n : P(k)
    BY DEF PolledCount, P
  <2> QED BY <1>1, <2>1
<1> QED BY <1>2, <1>3

---------------------------------------------------------------------------
(* Sequences of events that grow at the end and shrink inside.             *)

Increasing(s) == \A i, j \in 1 .. Len(s) : i < j => s[i] < s[j]

\* Of a queue q its front a goes to those given away, s, and b is left.
Polled(S, s, q, a, b) ==
    /\ a \in Seq(S) /\ b \in Seq(S)
    /\ Len(b) <= Len(q)
    /\ (s \o a) \o b = s \o q

\* A poll splits the queue and gives away its front: together they are the same.
LEMMA SplitConcat ==
    ASSUME NEW S, NEW s \in Seq(S), NEW q \in Seq(S), NEW k \in 0 .. Len(q)
    PROVE  Polled(S, s, q, SubSeq(q, 1, k), SubSeq(q, k + 1, Len(q)))
<1> DEFINE a == SubSeq(q, 1, k)
           b == SubSeq(q, k + 1, Len(q))
<1>1. a \in Seq(S) /\ b \in Seq(S) /\ Len(b) <= Len(q)
  OBVIOUS
<1>2. a \o b = SubSeq(q, 1, Len(q))
  <2>1. 1 \in 1 .. Len(q) + 1 /\ k \in 1 - 1 .. Len(q) /\ Len(q) \in k .. Len(q)
    OBVIOUS
  <2> QED BY <2>1, ConcatAdjacentSubSeq, Zenon
<1>3. SubSeq(q, 1, Len(q)) = q
  BY SubSeqFull
<1> HIDE DEF a, b
<1>4. (s \o a) \o b = s \o (a \o b)
  <2>1. \A t, u \in Seq(S) : (s \o t) \o u = s \o (t \o u)
    BY ConcatAssociative
  <2> QED BY <1>1, <2>1, Zenon
<1>5. Polled(S, s, q, a, b)
  BY <1>1, <1>2, <1>3, <1>4 DEF Polled
<1> QED BY <1>5 DEF a, b

\* A new event behind those that are there.
LEMMA AppendIncreasing ==
    ASSUME NEW s \in Seq(Nat), NEW x \in Nat,
           Increasing(s), \A i \in 1 .. Len(s) : s[i] < x
    PROVE  Increasing(Append(s, x)) /\ Range(Append(s, x)) = Range(s) \cup {x}
<1>1. Increasing(Append(s, x))
  BY DEF Increasing
<1>2. Range(Append(s, x)) = Range(s) \cup {x}
  <2>1. Range(Append(s, x)) \subseteq Range(s) \cup {x}
    BY DEF Range
  <2>2. \A y \in Range(s) : y \in Range(Append(s, x))
    BY DEF Range
  <2>3. x \in Range(Append(s, x))
    <3>1. Append(s, x)[Len(s) + 1] = x /\ Len(s) + 1 \in DOMAIN Append(s, x)
      OBVIOUS
    <3> QED BY <3>1 DEF Range
  <2> QED BY <2>1, <2>2, <2>3
<1> QED BY <1>1, <1>2

\* h is g without the element at p.
Without(h, g, p) ==
    /\ Len(g) = Len(h) + 1
    /\ \A i \in 1 .. p - 1 : h[i] = g[i]
    /\ \A i \in p .. Len(h) : h[i] = g[i + 1]

\* One event is taken out of a sequence.
LEMMA RemoveIncreasing ==
    ASSUME NEW g \in Seq(Nat), NEW h \in Seq(Nat), NEW p \in 1 .. Len(g),
           Increasing(g), Without(h, g, p)
    PROVE  Increasing(h) /\ Range(h) = Range(g) \ {g[p]}
<1> USE DEF Without
<1>1. DOMAIN g = 1 .. Len(g) /\ DOMAIN h = 1 .. Len(h) /\ Len(g) \in Nat /\ Len(h) \in Nat
  OBVIOUS
<1>2. \A i \in 1 .. Len(g) : g[i] \in Nat
  OBVIOUS
<1>3. \A i \in 1 .. Len(h) : \/ i < p /\ h[i] = g[i]
                             \/ i >= p /\ i + 1 \in 1 .. Len(g) /\ h[i] = g[i + 1]
  BY <1>1
<1>4. Increasing(h)
  <2> SUFFICES ASSUME NEW i \in 1 .. Len(h), NEW j \in 1 .. Len(h), i < j
               PROVE  h[i] < h[j]
    BY DEF Increasing
  <2>1. i \in 1 .. Len(g) /\ j \in 1 .. Len(g)
    BY <1>1
  <2>2. CASE j < p
    BY <1>1, <2>1, <2>2 DEF Increasing
  <2>3. CASE i < p /\ j >= p
    BY <1>1, <1>3, <2>1, <2>3 DEF Increasing
  <2>4. CASE i >= p
    <3>1. /\ i + 1 \in 1 .. Len(g) /\ j + 1 \in 1 .. Len(g) /\ i + 1 < j + 1
          /\ h[i] = g[i + 1] /\ h[j] = g[j + 1]
      BY <1>1, <1>3, <2>4
    <3> QED BY <3>1 DEF Increasing
  <2> QED BY <1>1, <2>2, <2>3, <2>4
<1>5. \A i \in 1 .. Len(g) : i # p => g[i] # g[p]
  BY <1>1, <1>2 DEF Increasing
<1>6. ASSUME NEW i \in 1 .. Len(h) PROVE h[i] \in Range(g) \ {g[p]}
  <2>1. \A k \in 1 .. Len(g) : g[k] \in Range(g)
    BY <1>1 DEF Range
  <2>2. PICK k \in 1 .. Len(g) : k # p /\ h[i] = g[k]
    <3>1. CASE i < p
      <4>1. i \in 1 .. Len(g) /\ i # p /\ h[i] = g[i]
        BY <1>1, <3>1
      <4> QED BY <4>1
    <3>2. CASE i >= p
      <4>1. i + 1 \in 1 .. Len(g) /\ i + 1 # p /\ h[i] = g[i + 1]
        BY <1>1, <3>2
      <4> QED BY <4>1
    <3> QED BY <1>1, <3>1, <3>2
  <2> QED BY <1>5, <2>1, <2>2
<1>7. ASSUME NEW i \in 1 .. Len(g), i # p PROVE g[i] \in Range(h)
  <2>1. CASE i < p
    <3>1. i \in 1 .. Len(h) /\ h[i] = g[i]
      BY <1>1, <2>1
    <3> QED BY <1>1, <3>1 DEF Range
  <2>2. CASE i > p
    <3>1. i - 1 \in 1 .. Len(h) /\ h[i - 1] = g[i]
      BY <1>1, <2>2
    <3> QED BY <1>1, <3>1 DEF Range
  <2> QED BY <1>1, <1>7, <2>1, <2>2
<1> QED BY <1>1, <1>4, <1>6, <1>7 DEF Range

\* The oldest queued event goes, from between those given away and the others.
LEMMA TailIncreasing ==
    ASSUME NEW s \in Seq(Nat), NEW q \in Seq(Nat), q # <<>>, Increasing(s \o q)
    PROVE  /\ Increasing(s \o Tail(q))
           /\ Range(s \o Tail(q)) = Range(s \o q) \ {Head(q)}
<1>1. /\ s \o q \in Seq(Nat) /\ s \o Tail(q) \in Seq(Nat)
      /\ Len(s \o q) = Len(s \o Tail(q)) + 1
      /\ Len(s) + 1 \in 1 .. Len(s \o q)
      /\ (s \o q)[Len(s) + 1] = Head(q)
  OBVIOUS
<1>2. \A i \in 1 .. Len(s) : (s \o Tail(q))[i] = (s \o q)[i]
  OBVIOUS
<1>3. \A i \in Len(s) + 1 .. Len(s \o Tail(q)) : (s \o Tail(q))[i] = (s \o q)[i + 1]
  OBVIOUS
<1> DEFINE g == s \o q
           h == s \o Tail(q)
           p == Len(s) + 1
<1>4. /\ g \in Seq(Nat) /\ h \in Seq(Nat) /\ p \in 1 .. Len(g)
      /\ Increasing(g) /\ Without(h, g, p)
  BY <1>1, <1>2, <1>3 DEF Without
<1>5. g[p] = Head(q)
  BY <1>1
<1> HIDE DEF g, h, p
<1>6. Increasing(h) /\ Range(h) = Range(g) \ {Head(q)}
  BY <1>4, <1>5, RemoveIncreasing
<1> QED BY <1>6, Zenon DEF g, h

---------------------------------------------------------------------------
(* The three invariants are inductive together with the types.             *)

IInv ==
    /\ TypeOK
    /\ CallpathsMatchTable
    /\ ExportsCurrent
    /\ EventsInOrder

\* The invariant holds when node_mount() returns.
LEMMA IInvInit == Init => IInv
<1> SUFFICES ASSUME Init PROVE IInv
  OBVIOUS
<1>1. /\ queue \in Seq(1 .. MaxEvents) /\ Len(queue) <= QueueMax
      /\ seen \in Seq(1 .. MaxEvents) /\ sent \in 0 .. MaxEvents
  BY EventsAssumption DEF Init
<1>2. tbl \in Tables
  BY DEF Init, Tables
<1>3. TypeOK
  <2>1. withdrawn \in BOOLEAN
    BY DEF Init
  <2> QED BY <1>1, <1>2, <2>1 DEF Init, TypeOK
<1>4. CallpathsMatchTable /\ ExportsCurrent
  BY DEF Init, CallpathsMatchTable, ExportsCurrent, NamesOf, NoTable
<1>5. seen \o queue = <<>>
  BY DEF Init
<1>6. EventsInOrder
  BY <1>5 DEF Init, EventsInOrder, Range
<1> QED BY <1>3, <1>4, <1>6 DEF IInv

\* etbl_changed_cb() and the new table.
LEMMA EtableStep ==
    ASSUME IInv, NEW new \in Tables, EtableChanged(new)
    PROVE  IInv'
<1> USE DEF IInv, TypeOK, EtableChanged, PathsReplaced, EtableReplaced
<1>1. withdrawn' \in BOOLEAN
  OBVIOUS
<1>2. TypeOK'
  <2>1. NamesOf(new) \subseteq Objects /\ (new # NoTable => new \subseteq Objects)
    BY DEF Tables, NamesOf, NoTable
  <2>2. callpaths' \in SUBSET Objects /\ exported' \in SUBSET Objects
    BY <2>1
  <2>3. run' \in {"serving", "crashed"} /\ etable' \in {"NULL", "json", "freed"}
    BY DEF AfterUse
  <2>4. tbl' \in Tables
    OBVIOUS
  <2> QED BY <1>1, <2>2, <2>3, <2>4
<1>3. CallpathsMatchTable'
  BY DEF CallpathsMatchTable, NamesOf
<1>4. ExportsCurrent'
  BY DEF ExportsCurrent
<1>5. EventsInOrder'
  BY DEF EventsInOrder
<1> QED BY <1>2, <1>3, <1>4, <1>5

\* The node sends an event, with room in the queue or without.
LEMMA ArrivalStep == IInv /\ EventArrives => IInv'
<1> SUFFICES ASSUME IInv, EventArrives PROVE IInv'
  OBVIOUS
<1> DEFINE given == seen \o queue
           new == sent + 1
<1>1. /\ given \in Seq(Nat) /\ seen \in Seq(Nat) /\ queue \in Seq(Nat)
      /\ new \in 1 .. MaxEvents /\ sent \in Nat
  BY EventsAssumption DEF IInv, TypeOK, EventArrives
<1>2. /\ Increasing(given)
      /\ Range(given) \cup dropped = 1 .. sent
      /\ Range(given) \cap dropped = {}
  BY DEF IInv, EventsInOrder, Increasing
<1>3. CallpathsMatchTable' /\ ExportsCurrent'
  BY DEF IInv, CallpathsMatchTable, ExportsCurrent, EventArrives
<1>4. ASSUME NEW g \in Seq(Nat), Increasing(g), Range(g) \subseteq 1 .. sent
      PROVE  /\ Increasing(Append(g, new))
             /\ Range(Append(g, new)) = Range(g) \cup {new}
  <2>1. \A i \in 1 .. Len(g) : g[i] \in Range(g)
    BY DEF Range
  <2>2. new \in Nat /\ \A i \in 1 .. Len(g) : g[i] < new
    BY <1>1, <1>4, <2>1
  <2> HIDE DEF new, given
  <2> QED BY <1>1, <1>4, <2>2, AppendIncreasing
<1>5. 1 .. sent' = (1 .. sent) \cup {new} /\ new \notin 1 .. sent
  BY <1>1 DEF EventArrives
<1>6. CASE Len(queue) < QueueMax /\ queue' = Append(queue, new) /\ UNCHANGED dropped
  <2>1. seen' \o queue' = Append(given, new)
    BY <1>1, <1>6 DEF EventArrives
  <2> HIDE DEF given
  <2>2. Increasing(Append(given, new)) /\ Range(Append(given, new)) = Range(given) \cup {new}
    BY <1>1, <1>2, <1>4
  <2>3. EventsInOrder'
    BY <1>2, <1>6, <1>5, <2>1, <2>2 DEF EventsInOrder, Increasing
  <2>4. TypeOK'
    BY <1>1, <1>6, EventsAssumption DEF IInv, TypeOK, EventArrives
  <2> QED BY <1>3, <2>3, <2>4 DEF IInv
<1>7. CASE /\ Len(queue) = QueueMax
           /\ queue' = Append(Tail(queue), new)
           /\ dropped' = dropped \cup {Head(queue)}
  <2>1. /\ queue # <<>> /\ Tail(queue) \in Seq(Nat)
        /\ Head(queue) \in 1 .. MaxEvents /\ queue' \in Seq(1 .. MaxEvents)
        /\ Len(queue') <= QueueMax
    BY <1>1, <1>7, EventsAssumption DEF IInv, TypeOK
  <2> DEFINE rest == seen \o Tail(queue)
  <2>2. Increasing(rest) /\ Range(rest) = Range(given) \ {Head(queue)}
    BY <1>1, <1>2, <2>1, TailIncreasing
  <2>3. Head(queue) \in Range(given)
    <3>1. given[Len(seen) + 1] = Head(queue) /\ Len(seen) + 1 \in DOMAIN given
      BY <1>1, <2>1
    <3> QED BY <3>1 DEF Range
  <2>4. rest \in Seq(Nat) /\ seen' \o queue' = Append(rest, new)
    BY <1>1, <1>7, <2>1 DEF EventArrives
  <2> HIDE DEF rest, given
  <2>5. Increasing(Append(rest, new)) /\ Range(Append(rest, new)) = Range(rest) \cup {new}
    BY <1>2, <1>4, <2>2, <2>4
  <2>6. EventsInOrder'
    <3> DEFINE all == Append(rest, new)
    <3> HIDE DEF all
    <3>1. Range(all) \cup dropped' = 1 .. sent' /\ Range(all) \cap dropped' = {}
      <4>1. Range(all) = (Range(given) \ {Head(queue)}) \cup {new}
        BY <2>2, <2>5 DEF all
      <4>2. dropped' = dropped \cup {Head(queue)} /\ 1 .. sent' = (1 .. sent) \cup {new}
        BY <1>5, <1>7
      <4> HIDE DEF new
      <4>3. new \notin dropped /\ new # Head(queue)
        BY <1>2, <1>5, <2>3
      <4> QED BY <1>2, <2>3, <4>1, <4>2, <4>3
    <3>2. Increasing(all) /\ seen' \o queue' = all
      BY <2>4, <2>5 DEF all
    <3> QED BY <3>1, <3>2 DEF EventsInOrder, Increasing
  <2>7. TypeOK'
    <3>1. sent' \in 0 .. MaxEvents
      BY <1>1 DEF EventArrives
    <3>2. dropped' \in SUBSET (1 .. MaxEvents)
      BY <1>7, <2>1 DEF IInv, TypeOK
    <3> QED BY <2>1, <3>1, <3>2 DEF IInv, TypeOK, EventArrives
  <2> QED BY <1>3, <2>6, <2>7 DEF IInv
<1>8. CASE /\ Len(queue) = QueueMax
           /\ dropped' = dropped \cup {new} /\ UNCHANGED queue
  <2>1. EventsInOrder'
    BY <1>1, <1>2, <1>8 DEF EventsInOrder, Increasing, EventArrives
  <2>2. TypeOK'
    BY <1>1, <1>8 DEF IInv, TypeOK, EventArrives
  <2> QED BY <1>3, <2>1, <2>2 DEF IInv
<1> QED BY <1>6, <1>7, <1>8 DEF EventArrives

\* A poll of /events.
LEMMA PollStep == IInv /\ Events => IInv'
<1> SUFFICES ASSUME IInv, Events PROVE IInv'
  OBVIOUS
<1> DEFINE k == PolledCount(Len(queue))
<1>1. /\ seen \in Seq(1 .. MaxEvents) /\ queue \in Seq(1 .. MaxEvents)
      /\ Len(queue) <= QueueMax /\ Len(queue) \in Nat
  BY DEF IInv, TypeOK
<1>2. k \in 0 .. Len(queue)
  BY <1>1, PolledHalf
<1>3. seen' = seen \o SubSeq(queue, 1, k) /\ queue' = SubSeq(queue, k + 1, Len(queue))
  BY DEF Events
<1> HIDE DEF k
<1>4. /\ seen' \in Seq(1 .. MaxEvents) /\ queue' \in Seq(1 .. MaxEvents)
      /\ Len(queue') <= Len(queue) /\ seen' \o queue' = seen \o queue
  <2> DEFINE a == SubSeq(queue, 1, k)
             b == SubSeq(queue, k + 1, Len(queue))
  <2>1. /\ a \in Seq(1 .. MaxEvents) /\ b \in Seq(1 .. MaxEvents)
        /\ Len(b) <= Len(queue) /\ (seen \o a) \o b = seen \o queue
    <3> DEFINE T == 1 .. MaxEvents
    <3>1. seen \in Seq(T) /\ queue \in Seq(T)
      BY <1>1
    <3> HIDE DEF T
    <3>2. Polled(T, seen, queue, a, b)
      BY <1>2, <3>1, SplitConcat, Zenon
    <3> HIDE DEF a, b
    <3> QED BY <3>2, Zenon DEF T, Polled
  <2>2. seen' = seen \o a /\ queue' = b
    BY <1>3
  <2> HIDE DEF a, b
  <2>3. seen \o a \in Seq(1 .. MaxEvents)
    BY <1>1, <2>1
  <2> QED BY <2>1, <2>2, <2>3, Zenon
<1>5. UNCHANGED <<tbl, callpaths, etable, exported, sent, dropped, run, withdrawn>>
  BY DEF Events
<1>6. Len(queue') <= QueueMax
  <2>1. Len(queue') \in Nat /\ QueueMax \in Nat
    BY <1>4, EventsAssumption
  <2> QED BY <1>1, <1>4, <2>1
<1>7. TypeOK'
  BY <1>4, <1>5, <1>6, Zenon DEF IInv, TypeOK
<1>8. EventsInOrder'
  BY <1>4, <1>5, Zenon DEF IInv, EventsInOrder
<1> QED BY <1>5, <1>7, <1>8 DEF IInv, CallpathsMatchTable, ExportsCurrent

\* Every step keeps the invariant.
LEMMA IInvStep == IInv /\ [Next]_vars => IInv'
<1> SUFFICES ASSUME IInv, [Next]_vars PROVE IInv'
  OBVIOUS
<1> USE DEF IInv, TypeOK, CallpathsMatchTable, ExportsCurrent, EventsInOrder
<1>1. CASE UNCHANGED vars
  BY <1>1 DEF vars
<1>2. CASE Exports
  BY <1>2 DEF Exports, AfterUse
<1>3. CASE Unmount
  BY <1>3 DEF Unmount
<1> QED BY <1>1, <1>2, <1>3, EtableStep, ArrivalStep, PollStep DEF Next

\* The invariant is inductive.
LEMMA Inductive == Spec => []IInv
BY IInvInit, IInvStep, PTL DEF Spec

---------------------------------------------------------------------------
\* The variables of a node mountpoint keep their types, and the aura core never
\* holds more events than it was told to.
THEOREM TypeCorrect == Spec => []TypeOK
BY Inductive, PTL DEF IInv

\* /call/<name> and /acall/<name> are registered for the objects of the current
\* table, over any sequence of tables.
THEOREM CallpathsAlwaysMatch == Spec => []CallpathsMatchTable
BY Inductive, PTL DEF IInv

\* /exports shows the current table, and nd->etable only dangles after the node
\* has withdrawn its table.
THEOREM ExportsAlwaysCurrent == Spec => []ExportsCurrent
BY Inductive, PTL DEF IInv

\* Clients of /events see the events in order, once, and all but those dropped,
\* whatever part of the queue a poll takes.
THEOREM EventsAlwaysInOrder == Spec => []EventsInOrder
BY Inductive, PTL DEF IInv

\* The loop of events(), whose bound is asked for anew in every round, gives a
\* client half of the queue, rounded up, however long it is.
THEOREM PollsTakeHalf == Spec => PollTakesHalf
<1>1. IInv /\ [Next]_vars => [Events => Len(queue') = Len(queue) \div 2]_vars
  <2> SUFFICES ASSUME IInv, Events PROVE Len(queue') = Len(queue) \div 2
    OBVIOUS
  <2> DEFINE n == Len(queue)
             k == PolledCount(n)
  <2>1. queue \in Seq(1 .. MaxEvents) /\ n \in Nat
    BY DEF IInv, TypeOK
  <2>2. k \in 0 .. n /\ k = (n + 1) \div 2
    BY <2>1, PolledHalf
  <2>3. queue' = SubSeq(queue, k + 1, n)
    BY DEF Events
  <2> HIDE DEF k
  <2>4. Len(queue') = n - k
    <3>1. k + 1 \in 1 .. n + 1 /\ n \in k .. n /\ n - (k + 1) + 1 = n - k
      BY <2>1, <2>2
    <3>2. Len(SubSeq(queue, k + 1, n)) = IF k + 1 <= n THEN n - (k + 1) + 1 ELSE 0
      BY <2>1, <2>2
    <3> HIDE DEF n
    <3> QED BY <2>1, <2>2, <2>3, <3>1, <3>2
  <2>5. n - k = n \div 2
    <3> HIDE DEF n
    <3> QED BY <2>1, <2>2
  <2> QED BY <2>4, <2>5
<1> QED BY <1>1, Inductive, PTL DEF Spec, PollTakesHalf
===========================================================================
