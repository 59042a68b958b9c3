-------------------------------- MODULE Fifo --------------------------------
(***************************************************************************)
(* What the event queue promises: a bounded queue that hands the events    *)
(* out in the order they were accepted, each once, and that refuses an     *)
(* event only when it is full.  Events are numbered by the publisher.      *)
(***************************************************************************)
EXTENDS Naturals, Sequences

CONSTANTS Event, Capacity

VARIABLES
  queue,  \* the events accepted and not yet taken
  last,   \* the last event taken, 0 before the first
  lost    \* the events refused

vars == <<queue, last, lost>>

Init == queue = <<>> /\ last = 0 /\ lost = 0

Accept ==
  /\ Len(queue) < Capacity
  /\ \E e \in Event :
       /\ last < e /\ \A i \in 1 .. Len(queue) : queue[i] < e
       /\ queue' = Append(queue, e)
  /\ UNCHANGED <<last, lost>>

Refuse ==
  /\ Len(queue) = Capacity
  /\ lost' = lost + 1
  /\ UNCHANGED <<queue, last>>

Take ==
  /\ queue # <<>>
  /\ last' = Head(queue) /\ queue' = Tail(queue)
  /\ UNCHANGED lost

Next == Accept \/ Refuse \/ Take

Spec == Init /\ [][Next]_vars
=============================================================================
