----------------------------- MODULE EventQueue -----------------------------
(***************************************************************************)
(* The event ring (src/runtime/event.c), one step per statement that reads *)
(* or writes the ring.  Each task runs one operation at a time; a task     *)
(* waits while one of higher priority is in the middle of its own.  Tasks  *)
(* of equal priority interleave anywhere.                                  *)
(*                                                                         *)
(* The stores are in program order, as gcc emits them at every level; the  *)
(* code has no fence that would oblige it to.  An event is the number of   *)
(* the event_publish call that carried it.                                 *)
(***************************************************************************)
EXTENDS Naturals, Sequences

CONSTANTS
  Task,       \* the tasks that use the ring
  Priority,   \* of each task
  Publisher,  \* the tasks that publish
  Poller,     \* the task that polls
  Size,       \* EVENT_QUEUE_CAPACITY, 16 in the code
  MaxEvents   \* bound: calls of event_publish

ASSUME TaskAssumption == Publisher \subseteq Task /\ Poller \in Task
ASSUME PriorityAssumption == Priority \in [Task -> Nat]
ASSUME SizeAssumption == Size \in Nat /\ Size >= 2 /\ MaxEvents \in Nat

VARIABLES
  head, tail,  \* q->head and q->tail
  data,        \* q->data
  pc,          \* the statement each task is at
  idx,         \* the index each task loaded
  ev,          \* the event each task has in hand
  seq,         \* event_publish calls begun
  \* History, no part of the program:
  last,        \* the last event that event_poll returned
  lost         \* event_publish calls that returned false

vars == <<head, tail, data, pc, idx, ev, seq, last, lost>>

Slot  == 0 .. Size - 1
Label == {"idle", "full?", "store", "advance", "empty?", "copy", "take"}

\* (i + 1) & EVENT_QUEUE_MASK, for an index in range.
Advance(i) == IF i = Size - 1 THEN 0 ELSE i + 1

Init ==
  /\ head = 0 /\ tail = 0 /\ data = [i \in Slot |-> 0]
  /\ pc = [t \in Task |-> "idle"]
  /\ idx = [t \in Task |-> 0] /\ ev = [t \in Task |-> 0]
  /\ seq = 0 /\ last = 0 /\ lost = 0

-----------------------------------------------------------------------------
\* Task t executes the statement at label from and goes on to label next.
At(t, from, next) ==
  /\ pc[t] = from
  /\ \A u \in Task : Priority[u] > Priority[t] => pc[u] = "idle"
  /\ pc' = [pc EXCEPT ![t] = next]

LoadHead(t) ==
  /\ At(t, "idle", "full?")
  /\ seq < MaxEvents /\ seq' = seq + 1
  /\ ev' = [ev EXCEPT ![t] = seq + 1]
  /\ idx' = [idx EXCEPT ![t] = head]
  /\ UNCHANGED <<head, tail, data, last, lost>>

\* Mutant: the ring may fill all its slots, and then looks empty.
HasRoom_AllSlots(t) ==
  /\ At(t, "full?", "store")
  /\ UNCHANGED <<head, tail, data, idx, ev, seq, last, lost>>

HasRoom(t) ==
  /\ At(t, "full?", "store")
  /\ Advance(idx[t]) # tail
  /\ UNCHANGED <<head, tail, data, idx, ev, seq, last, lost>>

IsFull(t) ==
  /\ At(t, "full?", "idle")
  /\ Advance(idx[t]) = tail
  /\ lost' = lost + 1
  /\ UNCHANGED <<head, tail, data, idx, ev, seq, last>>

StoreEvent(t) ==
  /\ At(t, "store", "advance")
  /\ data' = [data EXCEPT ![idx[t]] = ev[t]]
  /\ UNCHANGED <<head, tail, idx, ev, seq, last, lost>>

AdvanceHead(t) ==
  /\ At(t, "advance", "idle")
  /\ head' = Advance(idx[t])
  /\ UNCHANGED <<tail, data, idx, ev, seq, last, lost>>

\* Mutant: head is advanced first, the event stored second.
event_publish_HeadFirst(t) ==
  \/ LoadHead(t) \/ HasRoom(t) \/ IsFull(t)
  \/ /\ At(t, "store", "advance")
     /\ head' = Advance(idx[t])
     /\ UNCHANGED <<tail, data, idx, ev, seq, last, lost>>
  \/ /\ At(t, "advance", "idle")
     /\ data' = [data EXCEPT ![idx[t]] = ev[t]]
     /\ UNCHANGED <<head, tail, idx, ev, seq, last, lost>>

event_publish(t) ==
  LoadHead(t) \/ HasRoom(t) \/ IsFull(t) \/ StoreEvent(t) \/ AdvanceHead(t)

-----------------------------------------------------------------------------
LoadTail(t) ==
  /\ At(t, "idle", "empty?")
  /\ idx' = [idx EXCEPT ![t] = tail]
  /\ UNCHANGED <<head, tail, data, ev, seq, last, lost>>

IsEmpty(t) ==
  /\ At(t, "empty?", "idle")
  /\ idx[t] = head
  /\ UNCHANGED <<head, tail, data, idx, ev, seq, last, lost>>

HasEvent(t) ==
  /\ At(t, "empty?", "copy")
  /\ idx[t] # head
  /\ UNCHANGED <<head, tail, data, idx, ev, seq, last, lost>>

CopyEvent(t) ==
  /\ At(t, "copy", "take")
  /\ ev' = [ev EXCEPT ![t] = data[idx[t]]]
  /\ UNCHANGED <<head, tail, data, idx, seq, last, lost>>

\* Mutant: drains the ring, skipping what came in since.
AdvanceTail_ToHead(t) ==
  /\ At(t, "take", "idle")
  /\ tail' = head
  /\ last' = ev[t]
  /\ UNCHANGED <<head, data, idx, ev, seq, lost>>

AdvanceTail(t) ==
  /\ At(t, "take", "idle")
  /\ tail' = Advance(idx[t])
  /\ last' = ev[t]
  /\ UNCHANGED <<head, data, idx, ev, seq, lost>>

event_poll(t) ==
  LoadTail(t) \/ IsEmpty(t) \/ HasEvent(t) \/ CopyEvent(t) \/ AdvanceTail(t)

Next == (\E t \in Publisher : event_publish(t)) \/ event_poll(Poller)

Spec == Init /\ [][Next]_vars

(* The poller is a periodic task that completes its calls, and a publisher *)
(* completes the call it is in; nobody has to publish.                     *)
FairSpec ==
  /\ Spec
  /\ WF_vars(event_poll(Poller))
  /\ \A t \in Publisher : WF_vars(event_publish(t) /\ pc[t] # "idle")

-----------------------------------------------------------------------------
TypeOK ==
  /\ head \in Slot /\ tail \in Slot
  /\ data \in [Slot -> Nat]
  /\ pc \in [Task -> Label]
  /\ idx \in [Task -> Slot] /\ ev \in [Task -> Nat]
  /\ seq \in Nat /\ last \in Nat /\ lost \in Nat

\* The slots that hold an event.
InUse == IF tail <= head THEN tail .. head - 1 ELSE Slot \ (head .. tail - 1)

(* The copy into a slot and the copy out of one take many instructions and *)
(* no lock: with one publisher they are never about the same slot          *)
(* (event.c:27, 41), which is why one step each is enough for them here.   *)
SlotExclusive ==
  \A t \in Publisher :
    pc[t] = "store" /\ pc[Poller] = "copy" => idx[t] # idx[Poller]

(* No slot that holds an event is written before the event is taken.       *)
EventsKept == [][\A i \in InUse \cap InUse' : data'[i] = data[i]]_vars

(* The ring is a queue of Size - 1 places.                                 *)
Queue == IF tail <= head
         THEN [i \in 1 .. head - tail |-> data[tail + i - 1]]
         ELSE [i \in 1 .. Size - tail |-> data[tail + i - 1]]
                \o [i \in 1 .. head |-> data[i - 1]]

Fifo == INSTANCE Fifo WITH
  queue <- Queue, Capacity <- Size - 1, Event <- 1 .. MaxEvents

ImplementsFifo == Fifo!Spec

(* Every event that was accepted is taken in the end.                      *)
Drained ==
  \A e \in 1 .. MaxEvents : (\E i \in InUse : data[i] = e) ~> last = e

-----------------------------------------------------------------------------
(* The inductive invariant behind SlotExclusive and EventsKept: a check    *)
(* that passed stays true, since each index moves away from the other's.   *)
IInv ==
  /\ TypeOK
  /\ \A t \in Publisher :
       /\ pc[t] \in {"full?", "store", "advance"} => idx[t] = head
       /\ pc[t] \in {"store", "advance"} => Advance(head) # tail
  /\ pc[Poller] \in {"empty?", "copy", "take"} => idx[Poller] = tail
  /\ pc[Poller] \in {"copy", "take"} => tail # head
=============================================================================
