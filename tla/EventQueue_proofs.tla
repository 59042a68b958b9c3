-------------------------- MODULE EventQueue_proofs --------------------------
(***************************************************************************)
(* Proofs about the event ring with one publisher, for every size, every   *)
(* number of events and every interleaving of the publisher and the poller. *)
(***************************************************************************)
EXTENDS EventQueue, SequenceTheorems, TLAPS

SinglePublisher ==
  /\ \E p \in Task : Publisher = {p}
  /\ Poller \notin Publisher

LEMMA AdvanceType == \A i \in Slot : Advance(i) \in Slot
BY SizeAssumption DEF Advance, Slot

\* Advance is injective: this is what keeps the two indices apart.
LEMMA AdvanceInjective ==
  \A i, j \in Slot : Advance(i) = Advance(j) => i = j
BY SizeAssumption DEF Advance, Slot

LEMMA AtType ==
  ASSUME NEW t \in Task, NEW from, NEW next \in Label, TypeOK, At(t, from, next)
  PROVE  /\ pc' \in [Task -> Label]
         /\ pc[t] = from /\ pc'[t] = next
         /\ \A u \in Task \ {t} : pc'[u] = pc[u]
BY DEF At, TypeOK

LEMMA InitIInv == SinglePublisher /\ Init => IInv
BY SizeAssumption, TaskAssumption DEF Init, IInv, TypeOK, Slot, Label, SinglePublisher

-----------------------------------------------------------------------------
(* The publisher's statements.                                             *)
LEMMA PublishIInv ==
  ASSUME SinglePublisher, IInv, NEW t \in Publisher, event_publish(t)
  PROVE  IInv'
<1>1. /\ Publisher = {t} /\ t # Poller /\ t \in Task /\ Poller \in Task
  BY TaskAssumption DEF SinglePublisher
<1>2. TypeOK
  BY DEF IInv
<1> USE DEF IInv, Label
<1>3. CASE LoadHead(t)
  <2>1. TypeOK'
    BY <1>1, <1>2, <1>3, AtType DEF LoadHead, TypeOK
  <2> QED
    BY <1>1, <1>2, <1>3, <2>1, AtType DEF LoadHead, TypeOK
<1>4. CASE HasRoom(t)
  <2>1. TypeOK'
    BY <1>1, <1>2, <1>4, AtType DEF HasRoom, TypeOK
  <2> QED
    BY <1>1, <1>2, <1>4, <2>1, AtType DEF HasRoom, TypeOK
<1>5. CASE IsFull(t)
  <2>1. TypeOK'
    BY <1>1, <1>2, <1>5, AtType DEF IsFull, TypeOK
  <2> QED
    BY <1>1, <1>2, <1>5, <2>1, AtType DEF IsFull, TypeOK
<1>6. CASE StoreEvent(t)
  <2>1. TypeOK'
    BY <1>1, <1>2, <1>6, AtType DEF StoreEvent, TypeOK
  <2> QED
    BY <1>1, <1>2, <1>6, <2>1, AtType DEF StoreEvent, TypeOK
<1>7. CASE AdvanceHead(t)
  <2>1. TypeOK'
    BY <1>1, <1>2, <1>7, AtType, AdvanceType DEF AdvanceHead, TypeOK
  <2>2. head' = Advance(head) /\ head' # tail
    BY <1>1, <1>2, <1>7, AtType DEF AdvanceHead, TypeOK
  <2> QED
    BY <1>1, <1>2, <1>7, <2>1, <2>2, AtType DEF AdvanceHead, TypeOK
<1> QED
  BY <1>3, <1>4, <1>5, <1>6, <1>7 DEF event_publish

(* The poller's statements.                                                *)
LEMMA PollIInv ==
  ASSUME SinglePublisher, IInv, event_poll(Poller)
  PROVE  IInv'
<1>1. /\ \A t \in Publisher : t \in Task /\ t # Poller
      /\ Poller \in Task
  BY TaskAssumption DEF SinglePublisher
<1>2. TypeOK
  BY DEF IInv
<1> USE DEF IInv, Label
<1>3. CASE LoadTail(Poller)
  <2>1. TypeOK'
    BY <1>1, <1>2, <1>3, AtType DEF LoadTail, TypeOK
  <2> QED
    BY <1>1, <1>2, <1>3, <2>1, AtType DEF LoadTail, TypeOK
<1>4. CASE IsEmpty(Poller)
  <2>1. TypeOK'
    BY <1>1, <1>2, <1>4, AtType DEF IsEmpty, TypeOK
  <2> QED
    BY <1>1, <1>2, <1>4, <2>1, AtType DEF IsEmpty, TypeOK
<1>5. CASE HasEvent(Poller)
  <2>1. TypeOK'
    BY <1>1, <1>2, <1>5, AtType DEF HasEvent, TypeOK
  <2> QED
    BY <1>1, <1>2, <1>5, <2>1, AtType DEF HasEvent, TypeOK
<1>6. CASE CopyEvent(Poller)
  <2>1. TypeOK'
    BY <1>1, <1>2, <1>6, AtType DEF CopyEvent, TypeOK
  <2> QED
    BY <1>1, <1>2, <1>6, <2>1, AtType DEF CopyEvent, TypeOK
<1>7. CASE AdvanceTail(Poller)
  <2>1. TypeOK'
    BY <1>1, <1>2, <1>7, AtType, AdvanceType DEF AdvanceTail, TypeOK
  <2>2. tail' = Advance(tail) /\ tail # head
    BY <1>1, <1>2, <1>7, AtType DEF AdvanceTail, TypeOK
  <2>3. Advance(head) # tail'
    BY <1>2, <2>2, AdvanceInjective DEF TypeOK
  <2> QED
    BY <1>1, <1>2, <1>7, <2>1, <2>3, AtType DEF AdvanceTail, TypeOK
<1> QED
  BY <1>3, <1>4, <1>5, <1>6, <1>7 DEF event_poll

LEMMA NextIInv ==
  ASSUME SinglePublisher, IInv, [Next]_vars
  PROVE  IInv'
<1>1. CASE UNCHANGED vars
  BY <1>1 DEF vars, IInv, TypeOK
<1> QED
  BY <1>1, PublishIInv, PollIInv DEF Next

THEOREM Invariant == ASSUME SinglePublisher PROVE Spec => []IInv
<1>1. IInv /\ [Next]_vars => IInv'
  BY NextIInv
<1> QED
  BY <1>1, InitIInv, PTL DEF Spec

(* Head and tail stay within the ring (event.c:23, 42).                    *)
THEOREM TypeCorrect == ASSUME SinglePublisher PROVE Spec => []TypeOK
<1>1. IInv => TypeOK
  BY DEF IInv
<1> QED
  BY <1>1, Invariant, PTL

(* With one publisher, the copy of an event into the ring and the copy of  *)
(* one out of it are never about the same slot (event.c:22-27, 38-41).     *)
THEOREM SlotsAreExclusive ==
  ASSUME SinglePublisher PROVE Spec => []SlotExclusive
<1>1. IInv => SlotExclusive
  BY DEF IInv, SlotExclusive
<1> QED
  BY <1>1, Invariant, PTL

(* A slot that holds an event is not in anybody's way: only StoreEvent     *)
(* writes, and it writes the slot at head, which is never in use.          *)
LEMMA KeptStep ==
  ASSUME SinglePublisher, IInv, [Next]_vars
  PROVE  \A i \in InUse \cap InUse' : data'[i] = data[i]
<1>1. head \notin InUse /\ InUse \subseteq Slot
  BY SizeAssumption DEF IInv, TypeOK, InUse, Slot
<1>2. CASE \E t \in Publisher : StoreEvent(t)
  BY <1>1, <1>2, TaskAssumption DEF StoreEvent, At, IInv, TypeOK
<1>3. CASE ~ \E t \in Publisher : StoreEvent(t)
  BY <1>3 DEF Next, vars, event_publish, LoadHead, HasRoom, IsFull, AdvanceHead,
     event_poll, LoadTail, IsEmpty, HasEvent, CopyEvent, AdvanceTail
<1> QED
  BY <1>2, <1>3

(* No event is overwritten before it is taken, however full the ring is    *)
(* (event.c:25).                                                           *)
THEOREM EventsAreKept == ASSUME SinglePublisher PROVE Spec => EventsKept
<1>1. IInv /\ [Next]_vars => [\A i \in InUse \cap InUse' : data'[i] = data[i]]_vars
  BY KeptStep
<1> QED
  BY <1>1, Invariant, PTL DEF Spec, EventsKept

-----------------------------------------------------------------------------
(* The ring as a queue, for a head h, a tail t and the data d.             *)
Ring(h, t, d) == IF t <= h
                 THEN [i \in 1 .. h - t |-> d[t + i - 1]]
                 ELSE [i \in 1 .. Size - t |-> d[t + i - 1]]
                        \o [i \in 1 .. h |-> d[i - 1]]

Used(h, t) == IF t <= h THEN h - t ELSE Size - t + h

\* The slot of the i-th event from the tail.
Place(t, i) == IF t + i - 1 < Size THEN t + i - 1 ELSE t + i - 1 - Size

LEMMA QueueIsRing == Queue = Ring(head, tail, data) /\ Queue' = Ring(head', tail', data')
BY DEF Queue, Ring

LEMMA Places ==
  ASSUME NEW h \in Slot, NEW t \in Slot
  PROVE  /\ Used(h, t) \in 0 .. Size - 1
         /\ \A i \in 1 .. Used(h, t) : Place(t, i) \in Slot /\ Place(t, i) # h
BY SizeAssumption DEF Used, Place, Slot

LEMMA RingIsQueue ==
  ASSUME NEW h \in Slot, NEW t \in Slot, NEW d \in [Slot -> Nat]
  PROVE  /\ Ring(h, t, d) \in Seq(Nat)
         /\ Len(Ring(h, t, d)) = Used(h, t)
         /\ \A i \in 1 .. Used(h, t) : Ring(h, t, d)[i] = d[Place(t, i)]
<1>1. Size \in Nat /\ h \in Nat /\ t \in Nat /\ h < Size /\ t < Size
  BY SizeAssumption DEF Slot
<1>2. CASE t <= h
  <2> DEFINE n == h - t
             s == [i \in 1 .. n |-> d[t + i - 1]]
  <2>1. n \in Nat /\ \A i \in 1 .. n : t + i - 1 \in Slot
    BY <1>1, <1>2 DEF Slot
  <2>2. s \in [1 .. n -> Nat]
    BY <2>1
  <2>3. s \in Seq(Nat) /\ Len(s) = n
    BY <2>1, <2>2
  <2>4. \A i \in 1 .. n : s[i] = d[Place(t, i)]
    BY <1>1, <1>2 DEF Place
  <2> QED
    BY <1>2, <2>3, <2>4 DEF Ring, Used
<1>3. CASE ~(t <= h)
  <2> DEFINE m  == Size - t
             s1 == [i \in 1 .. m |-> d[t + i - 1]]
             s2 == [i \in 1 .. h |-> d[i - 1]]
  <2>1. /\ m \in Nat /\ \A i \in 1 .. m : t + i - 1 \in Slot
        /\ \A i \in 1 .. h : i - 1 \in Slot
    BY <1>1 DEF Slot
  <2>2. s1 \in [1 .. m -> Nat] /\ s2 \in [1 .. h -> Nat]
    BY <2>1
  <2>3. s1 \in Seq(Nat) /\ Len(s1) = m /\ s2 \in Seq(Nat) /\ Len(s2) = h
    BY <1>1, <2>1, <2>2
  <2>4. /\ \A i \in 1 .. m : s1[i] = d[Place(t, i)]
        /\ \A i \in m + 1 .. m + h : i - m \in 1 .. h /\ s2[i - m] = d[Place(t, i)]
    <3>1. ASSUME NEW i \in 1 .. m PROVE s1[i] = d[Place(t, i)]
      BY <1>1 DEF Place
    <3>2. ASSUME NEW i \in m + 1 .. m + h
          PROVE  i - m \in 1 .. h /\ s2[i - m] = d[Place(t, i)]
      <4>1. i - m \in 1 .. h
        BY <1>1
      <4>2. i - m - 1 = Place(t, i)
        BY <1>1 DEF Place
      <4> QED
        BY <4>1, <4>2
    <3> QED
      BY <3>1, <3>2
  <2> HIDE DEF s1, s2, m
  <2>5. /\ s1 \o s2 \in Seq(Nat) /\ Len(s1 \o s2) = m + h
        /\ \A i \in 1 .. m + h : (s1 \o s2)[i] = IF i <= m THEN s1[i] ELSE s2[i - m]
    BY <2>3, ConcatProperties
  <2>6. ASSUME NEW i \in 1 .. m + h
        PROVE  (s1 \o s2)[i] = d[Place(t, i)]
    <3>1. CASE i <= m
      BY <1>1, <2>1, <2>4, <2>5, <3>1
    <3>2. CASE ~(i <= m)
      <4>1. i \in m + 1 .. m + h
        BY <1>1, <2>1, <3>2
      <4> QED
        BY <2>4, <2>5, <3>2, <4>1
    <3> QED
      BY <3>1, <3>2
  <2>7. Ring(h, t, d) = s1 \o s2 /\ Used(h, t) = m + h
    BY <1>1, <1>3 DEF Ring, Used, s1, s2, m
  <2> QED
    BY <2>5, <2>6, <2>7
<1> QED
  BY <1>2, <1>3

\* A slot that is not in use may change.
LEMMA StoreKeepsRing ==
  ASSUME NEW h \in Slot, NEW t \in Slot, NEW d \in [Slot -> Nat], NEW e \in Nat
  PROVE  Ring(h, t, [d EXCEPT ![h] = e]) = Ring(h, t, d)
<1> DEFINE d2 == [d EXCEPT ![h] = e]
<1>1. d2 \in [Slot -> Nat] /\ \A i \in Slot : i # h => d2[i] = d[i]
  OBVIOUS
<1> HIDE DEF d2
<1>2. \A i \in 1 .. Used(h, t) : d2[Place(t, i)] = d[Place(t, i)]
  BY <1>1, Places
<1>3. Ring(h, t, d2) = Ring(h, t, d)
  <2>1. Ring(h, t, d2) \in Seq(Nat) /\ Len(Ring(h, t, d2)) = Used(h, t)
        /\ \A i \in 1 .. Used(h, t) : Ring(h, t, d2)[i] = d2[Place(t, i)]
    BY <1>1, RingIsQueue
  <2>2. Ring(h, t, d) \in Seq(Nat) /\ Len(Ring(h, t, d)) = Used(h, t)
        /\ \A i \in 1 .. Used(h, t) : Ring(h, t, d)[i] = d[Place(t, i)]
    BY RingIsQueue
  <2> QED
    BY <1>2, <2>1, <2>2, SeqEqual
<1> QED
  BY <1>3 DEF d2

\* The head that moves past a slot appends what is in it.
LEMMA HeadAppends ==
  ASSUME NEW h \in Slot, NEW t \in Slot, NEW d \in [Slot -> Nat], Advance(h) # t
  PROVE  /\ Len(Ring(h, t, d)) < Size - 1
         /\ Ring(Advance(h), t, d) = Append(Ring(h, t, d), d[h])
<1> DEFINE q == Ring(h, t, d)
           r == Ring(Advance(h), t, d)
           n == Used(h, t)
<1>1. Advance(h) \in Slot
  BY AdvanceType
<1>2. q \in Seq(Nat) /\ Len(q) = n /\ \A i \in 1 .. n : q[i] = d[Place(t, i)]
  BY RingIsQueue
<1>3. n \in Nat /\ n < Size - 1 /\ Used(Advance(h), t) = n + 1 /\ Place(t, n + 1) = h
  BY SizeAssumption DEF Advance, Used, Place, Slot
<1>4. r \in Seq(Nat) /\ Len(r) = n + 1 /\ \A i \in 1 .. n + 1 : r[i] = d[Place(t, i)]
  BY <1>1, <1>3, RingIsQueue
<1>5. d[h] \in Nat
  OBVIOUS
<1> HIDE DEF q, r, n
<1>6. /\ Append(q, d[h]) \in Seq(Nat) /\ Len(Append(q, d[h])) = n + 1
      /\ \A i \in 1 .. n : Append(q, d[h])[i] = q[i]
      /\ Append(q, d[h])[n + 1] = d[h]
  BY <1>2, <1>5, AppendProperties
<1>7. \A i \in 1 .. n + 1 : r[i] = Append(q, d[h])[i]
  <2> SUFFICES ASSUME NEW i \in 1 .. n + 1 PROVE r[i] = Append(q, d[h])[i]
    OBVIOUS
  <2>1. CASE i = n + 1
    BY <1>3, <1>4, <1>6, <2>1
  <2>2. CASE i # n + 1
    <3>1. i \in 1 .. n
      BY <1>3, <2>2
    <3> QED
      BY <1>2, <1>4, <1>6, <3>1
  <2> QED
    BY <2>1, <2>2
<1>8. r = Append(q, d[h])
  BY <1>4, <1>6, <1>7, SeqEqual
<1> QED
  BY <1>2, <1>3, <1>8 DEF q, r

\* And it moves on until the ring is full but for one slot.
LEMMA FullRing ==
  ASSUME NEW h \in Slot, NEW t \in Slot, NEW d \in [Slot -> Nat], Advance(h) = t
  PROVE  Len(Ring(h, t, d)) = Size - 1
<1>1. Used(h, t) = Size - 1
  BY SizeAssumption DEF Advance, Used, Slot
<1> QED
  BY <1>1, RingIsQueue

\* The tail that moves past a slot takes what was in it.
LEMMA TailTakes ==
  ASSUME NEW h \in Slot, NEW t \in Slot, NEW d \in [Slot -> Nat], t # h
  PROVE  /\ Ring(h, t, d) # <<>>
         /\ Head(Ring(h, t, d)) = d[t]
         /\ Tail(Ring(h, t, d)) = Ring(h, Advance(t), d)
<1> DEFINE q == Ring(h, t, d)
           r == Ring(h, Advance(t), d)
           n == Used(h, t)
<1>1. Advance(t) \in Slot
  BY AdvanceType
<1>2. q \in Seq(Nat) /\ Len(q) = n /\ \A i \in 1 .. n : q[i] = d[Place(t, i)]
  BY RingIsQueue
<1>3. /\ n \in Nat /\ n >= 1 /\ Used(h, Advance(t)) = n - 1 /\ Place(t, 1) = t
      /\ \A i \in 1 .. n - 1 : Place(Advance(t), i) = Place(t, i + 1)
  BY SizeAssumption DEF Advance, Used, Place, Slot
<1>4. r \in Seq(Nat) /\ Len(r) = n - 1
      /\ \A i \in 1 .. n - 1 : r[i] = d[Place(Advance(t), i)]
  <2> DEFINE m == Used(h, Advance(t))
  <2>1. r \in Seq(Nat) /\ Len(r) = m /\ \A i \in 1 .. m : r[i] = d[Place(Advance(t), i)]
    BY <1>1, RingIsQueue
  <2>2. m = n - 1
    BY <1>3
  <2> HIDE DEF m, n, r
  <2> QED
    BY <2>1, <2>2
<1> HIDE DEF q, r, n
<1>5. q # <<>>
  BY <1>2, <1>3, EmptySeq
<1>6. Tail(q) \in Seq(Nat) /\ Len(Tail(q)) = n - 1
      /\ \A i \in 1 .. n - 1 : Tail(q)[i] = q[i + 1]
  BY <1>2, <1>5, HeadTailProperties
<1>7. \A i \in 1 .. n - 1 : Tail(q)[i] = r[i]
  <2> SUFFICES ASSUME NEW i \in 1 .. n - 1 PROVE Tail(q)[i] = r[i]
    OBVIOUS
  <2>1. i + 1 \in 1 .. n
    BY <1>3
  <2> QED
    BY <1>2, <1>3, <1>4, <1>6, <2>1
<1>8. Tail(q) = r
  BY <1>4, <1>6, <1>7, SeqEqual
<1>9. Head(q) = d[t]
  <2>1. Head(q) = q[1]
    BY <1>2, <1>5
  <2> QED
    BY <1>2, <1>3, <2>1
<1> QED
  BY <1>5, <1>8, <1>9 DEF q, r


-----------------------------------------------------------------------------
(* The numbers of the events: those in the ring, and the last one taken,   *)
(* are below the number that the publisher has in hand.                    *)
Below(n) == last < n /\ \A i \in 1 .. Len(Queue) : Queue[i] < n

Numbered ==
  /\ seq <= MaxEvents
  /\ Below(seq + 1)
  /\ \A t \in Publisher :
       /\ pc[t] \in {"full?", "store", "advance"} => ev[t] = seq /\ seq >= 1 /\ Below(seq)
       /\ pc[t] = "advance" => data[head] = ev[t]
  /\ pc[Poller] = "take" => ev[Poller] = data[tail]

FInv == IInv /\ Numbered

LEMMA InitNumbered ==
  ASSUME SinglePublisher, Init
  PROVE  Numbered /\ Queue = <<>>
<1>1. TypeOK
  BY InitIInv DEF IInv
<1>2. Used(head, tail) = 0
  BY SizeAssumption DEF Init, Used
<1>3. Queue \in Seq(Nat) /\ Len(Queue) = 0
  BY <1>1, <1>2, RingIsQueue, QueueIsRing DEF TypeOK
<1>4. Queue = <<>>
  BY <1>3, EmptySeq
<1>5. Numbered
  BY <1>3, SizeAssumption, TaskAssumption DEF Init, Numbered, Below
<1> QED
  BY <1>4, <1>5

\* What the steps of the abstract queue are for this one.
FifoStep == Fifo!Next \/ UNCHANGED <<Queue, last, lost>>

LEMMA PublishFifo ==
  ASSUME SinglePublisher, FInv, NEW t \in Publisher, event_publish(t)
  PROVE  Numbered' /\ FifoStep
<1>1. /\ Publisher = {t} /\ t # Poller /\ t \in Task /\ Poller \in Task
  BY TaskAssumption DEF SinglePublisher
<1>2. TypeOK /\ IInv /\ Numbered
  BY DEF FInv, IInv
<1>3. head \in Slot /\ tail \in Slot /\ data \in [Slot -> Nat] /\ seq \in Nat
      /\ last \in Nat /\ lost \in Nat /\ ev \in [Task -> Nat] /\ idx \in [Task -> Slot]
  BY <1>2 DEF TypeOK
<1>4. Queue \in Seq(Nat) /\ Len(Queue) \in Nat
  BY <1>3, RingIsQueue, QueueIsRing
<1>5. CASE LoadHead(t)
  <2>1. UNCHANGED <<Queue, last, lost>>
    BY <1>5 DEF LoadHead, Queue
  <2>2. pc'[t] = "full?" /\ pc'[Poller] = pc[Poller] /\ ev'[t] = seq + 1 /\ seq' = seq + 1
        /\ ev'[Poller] = ev[Poller] /\ UNCHANGED <<head, tail, data>> /\ seq < MaxEvents
    BY <1>1, <1>2, <1>3, <1>5, AtType DEF LoadHead, Label
  <2>3. Numbered'
    BY <1>1, <1>2, <1>3, <1>4, <2>1, <2>2, SizeAssumption DEF Numbered, Below
  <2> QED
    BY <2>1, <2>3 DEF FifoStep
<1>6. CASE HasRoom(t)
  <2>1. UNCHANGED <<Queue, last, lost>>
    BY <1>6 DEF HasRoom, Queue
  <2>2. pc[t] = "full?" /\ pc'[t] = "store" /\ pc'[Poller] = pc[Poller]
        /\ UNCHANGED <<head, tail, data, ev, seq>>
    BY <1>1, <1>2, <1>3, <1>6, AtType DEF HasRoom, Label
  <2>3. Numbered'
    BY <1>1, <1>2, <1>3, <1>4, <2>1, <2>2 DEF Numbered, Below
  <2> QED
    BY <2>1, <2>3 DEF FifoStep
<1>7. CASE IsFull(t)
  <2>1. UNCHANGED <<Queue, last>>
    BY <1>7 DEF IsFull, Queue
  <2>2. pc[t] = "full?" /\ pc'[t] = "idle" /\ pc'[Poller] = pc[Poller]
        /\ UNCHANGED <<head, tail, data, ev, seq>> /\ lost' = lost + 1
    BY <1>1, <1>2, <1>3, <1>7, AtType DEF IsFull, Label
  <2>3. Numbered'
    BY <1>1, <1>2, <1>3, <1>4, <2>1, <2>2 DEF Numbered, Below
  <2>4. Advance(head) = tail
    BY <1>1, <1>2, <1>7, <2>2 DEF IsFull, IInv
  <2>5. Len(Queue) = Size - 1
    BY <1>3, <2>4, FullRing, QueueIsRing
  <2>6. Fifo!Refuse
    BY <2>1, <2>2, <2>5 DEF Fifo!Refuse
  <2> QED
    BY <2>3, <2>6 DEF FifoStep, Fifo!Next
<1>8. CASE StoreEvent(t)
  <2>1. /\ pc[t] = "store" /\ pc'[t] = "advance" /\ pc'[Poller] = pc[Poller]
        /\ UNCHANGED <<head, tail, ev, seq, last, lost>>
    BY <1>1, <1>2, <1>3, <1>8, AtType DEF StoreEvent, Label
  <2>2. idx[t] = head /\ ev[t] \in Nat
    BY <1>1, <1>2, <1>3, <2>1 DEF IInv
  <2>3. data' = [data EXCEPT ![head] = ev[t]]
    BY <1>8, <2>2 DEF StoreEvent
  <2>4. Queue' = Queue
    BY <1>3, <2>1, <2>2, <2>3, StoreKeepsRing, QueueIsRing
  <2>5. data'[head] = ev[t] /\ (tail # head => data'[tail] = data[tail])
    BY <1>3, <2>3
  <2>6. pc[Poller] = "take" => tail # head
    BY <1>2 DEF IInv
  <2>7. Numbered'
    BY <1>1, <1>2, <1>3, <1>4, <2>1, <2>4, <2>5, <2>6 DEF Numbered, Below
  <2> QED
    BY <2>1, <2>4, <2>7 DEF FifoStep
<1>9. CASE AdvanceHead(t)
  <2>1. /\ pc[t] = "advance" /\ pc'[t] = "idle" /\ pc'[Poller] = pc[Poller]
        /\ UNCHANGED <<tail, data, ev, seq, last, lost>>
    BY <1>1, <1>2, <1>3, <1>9, AtType DEF AdvanceHead, Label
  <2>2. head' = Advance(head) /\ Advance(head) # tail
    BY <1>1, <1>2, <1>9, <2>1 DEF AdvanceHead, IInv
  <2>3. data[head] = seq /\ seq >= 1 /\ seq <= MaxEvents /\ Below(seq)
    BY <1>1, <1>2, <2>1 DEF Numbered
  <2>4. Len(Queue) < Size - 1 /\ Queue' = Append(Queue, seq)
    BY <1>3, <2>1, <2>2, <2>3, HeadAppends, QueueIsRing
  <2>5. /\ Len(Queue') = Len(Queue) + 1 /\ Queue'[Len(Queue) + 1] = seq
        /\ \A i \in 1 .. Len(Queue) : Queue'[i] = Queue[i]
    BY <1>3, <1>4, <2>4, AppendProperties
  <2>6. Below(seq + 1)'
    <3> SUFFICES ASSUME NEW i \in 1 .. Len(Queue) + 1 PROVE Queue'[i] < seq + 1
      BY <1>3, <2>1, <2>3, <2>5 DEF Below
    <3>1. CASE i = Len(Queue) + 1
      BY <1>3, <2>5, <3>1
    <3>2. CASE i # Len(Queue) + 1
      <4>1. i \in 1 .. Len(Queue)
        BY <1>4, <3>2
      <4>2. Queue[i] < seq /\ Queue[i] \in Nat
        BY <1>4, <2>3, <4>1 DEF Below
      <4> QED
        BY <1>3, <2>5, <4>1, <4>2
    <3> QED
      BY <3>1, <3>2
  <2>7. Numbered'
    BY <1>1, <1>2, <2>1, <2>3, <2>6 DEF Numbered
  <2>8. Fifo!Accept
    <3>1. seq \in 1 .. MaxEvents
      BY <1>3, <2>3, SizeAssumption
    <3> QED
      BY <2>1, <2>3, <2>4, <3>1 DEF Fifo!Accept, Below
  <2> QED
    BY <2>7, <2>8 DEF FifoStep, Fifo!Next
<1> QED
  BY <1>5, <1>6, <1>7, <1>8, <1>9 DEF event_publish

LEMMA PollFifo ==
  ASSUME SinglePublisher, FInv, event_poll(Poller)
  PROVE  Numbered' /\ FifoStep
<1>1. /\ \A t \in Publisher : t \in Task /\ t # Poller
      /\ Poller \in Task
  BY TaskAssumption DEF SinglePublisher
<1>2. TypeOK /\ IInv /\ Numbered
  BY DEF FInv, IInv
<1>3. head \in Slot /\ tail \in Slot /\ data \in [Slot -> Nat] /\ seq \in Nat
      /\ last \in Nat /\ lost \in Nat /\ ev \in [Task -> Nat] /\ idx \in [Task -> Slot]
  BY <1>2 DEF TypeOK
<1>4. Queue \in Seq(Nat) /\ Len(Queue) \in Nat
  BY <1>3, RingIsQueue, QueueIsRing
<1>5. ASSUME LoadTail(Poller) \/ IsEmpty(Poller) \/ HasEvent(Poller)
      PROVE  Numbered' /\ FifoStep
  <2>1. UNCHANGED <<Queue, last, lost, head, tail, data, ev, seq>>
    BY <1>5 DEF LoadTail, IsEmpty, HasEvent, Queue
  <2>2. pc'[Poller] # "take" /\ \A t \in Publisher : pc'[t] = pc[t]
    BY <1>1, <1>2, <1>5, AtType DEF LoadTail, IsEmpty, HasEvent, Label
  <2>3. Numbered'
    BY <1>2, <2>1, <2>2 DEF Numbered, Below
  <2> QED
    BY <2>1, <2>3 DEF FifoStep
<1>6. CASE CopyEvent(Poller)
  <2>1. UNCHANGED <<Queue, last, lost, head, tail, data, seq>>
    BY <1>6 DEF CopyEvent, Queue
  <2>2. pc[Poller] = "copy" /\ \A t \in Publisher : pc'[t] = pc[t] /\ ev'[t] = ev[t]
    BY <1>1, <1>2, <1>3, <1>6, AtType DEF CopyEvent, Label
  <2>3. idx[Poller] = tail
    BY <1>2, <2>2 DEF IInv
  <2>4. ev'[Poller] = data[tail]
    BY <1>1, <1>3, <1>6, <2>3 DEF CopyEvent
  <2>5. Numbered'
    BY <1>2, <2>1, <2>2, <2>4 DEF Numbered, Below
  <2> QED
    BY <2>1, <2>5 DEF FifoStep
<1>7. CASE AdvanceTail(Poller)
  <2>1. /\ pc[Poller] = "take" /\ pc'[Poller] = "idle"
        /\ \A t \in Publisher : pc'[t] = pc[t]
        /\ UNCHANGED <<head, data, ev, seq, lost>>
    BY <1>1, <1>2, <1>3, <1>7, AtType DEF AdvanceTail, Label
  <2>2. tail' = Advance(tail) /\ tail # head /\ last' = data[tail]
    BY <1>2, <1>7, <2>1 DEF AdvanceTail, IInv, Numbered
  <2>3. Queue # <<>> /\ Head(Queue) = data[tail] /\ Tail(Queue) = Queue'
    BY <1>3, <2>1, <2>2, TailTakes, QueueIsRing
  <2>4. /\ Len(Queue') = Len(Queue) - 1
        /\ \A i \in 1 .. Len(Queue') : Queue'[i] = Queue[i + 1]
        /\ Len(Queue) >= 1 /\ Head(Queue) = Queue[1]
    BY <1>4, <2>3, HeadTailProperties, EmptySeq
  <2>5. ASSUME NEW n \in Nat, Below(n) PROVE Below(n)'
    <3>1. last' < n
      BY <1>4, <2>2, <2>3, <2>4, <2>5 DEF Below
    <3>2. \A i \in 1 .. Len(Queue') : i + 1 \in 1 .. Len(Queue)
      BY <1>4, <2>4
    <3> QED
      BY <2>4, <2>5, <3>1, <3>2 DEF Below
  <2>6. Numbered'
    <3>1. seq + 1 \in Nat
      BY <1>3
    <3> QED
      BY <1>2, <1>3, <2>1, <2>5, <3>1 DEF Numbered
  <2>7. Fifo!Take
    BY <2>1, <2>2, <2>3 DEF Fifo!Take
  <2> QED
    BY <2>6, <2>7 DEF FifoStep, Fifo!Next
<1> QED
  BY <1>5, <1>6, <1>7 DEF event_poll

LEMMA NextFifo ==
  ASSUME SinglePublisher, FInv, [Next]_vars
  PROVE  FInv' /\ FifoStep
<1>1. IInv'
  BY NextIInv DEF FInv
<1>2. CASE UNCHANGED vars
  <2>1. UNCHANGED Queue
    BY <1>2 DEF vars, Queue
  <2> QED
    BY <1>1, <1>2, <2>1 DEF vars, FInv, Numbered, Below, FifoStep
<1>3. CASE Next
  <2>1. Numbered' /\ FifoStep
    BY <1>3, PublishFifo, PollFifo DEF Next
  <2> QED
    BY <1>1, <2>1 DEF FInv
<1> QED
  BY <1>2, <1>3

(* The ring, in its steps, is the bounded queue of Fifo: it takes in every *)
(* event in order unless it is full, loses none and hands each out once    *)
(* (event.c:15-46).                                                        *)
THEOREM RefinesFifo == ASSUME SinglePublisher PROVE Spec => ImplementsFifo
<1>1. Init => FInv /\ Fifo!Init
  BY InitIInv, InitNumbered DEF FInv, Init, Fifo!Init
<1>2. FInv /\ [Next]_vars => FInv' /\ [Fifo!Next]_(Fifo!vars)
  BY NextFifo DEF FifoStep, Fifo!vars
<1> QED
  BY <1>1, <1>2, PTL DEF Spec, ImplementsFifo, Fifo!Spec


=============================================================================
