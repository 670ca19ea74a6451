----------------------------- MODULE Ringbuffer -----------------------------
(***************************************************************************)
(* The ring buffer that holds the queued messages of a subscription: an    *)
(* array, the index of the next write and the number of elements. The      *)
(* index arithmetic is that of the code, with its case distinctions.       *)
(***************************************************************************)
EXTENDS Integers, Sequences

CONSTANTS
  Values,   \* elements
  Size,     \* capacity; rb_init refuses 0
  None,     \* no element
  Garbage   \* a slot that was never written

ASSUME RingSize == Size \in Nat \ {0}
ASSUME NotElements == None \notin Values /\ Garbage \notin Values

VARIABLES
  data, current, count,   \* the fields of the Ringbuffer
  effect                  \* what the last call returned, and the element given to cleanup_fn

vars == <<data, current, count, effect>>

Slots == 0..(Size - 1)
Returns(ret, released) == effect' = [ret |-> ret, released |-> released]

\* The slot of the oldest element, as in rb_front and rb_pop
Front == IF current >= count THEN current - count ELSE Size - (count - current)

\* The slot of the element idx, as in rb_at
At(idx) ==
  IF current >= count THEN (current - count) + idx
  ELSE LET index == Size - (count - current) IN
       IF index + idx >= Size THEN (index + idx) - Size ELSE index + idx

\* Mutant: a full buffer overwrites its oldest element without releasing it.
PushLeaks(v) ==
  /\ data' = [data EXCEPT ![current] = v]
  /\ current' = IF current + 1 = Size THEN 0 ELSE current + 1
  /\ count' = IF count < Size THEN count + 1 ELSE count
  /\ Returns(IF count = Size THEN 1 ELSE 0, None)
\* rb_push
Push(v) ==
  /\ data' = [data EXCEPT ![current] = v]
  /\ current' = IF current + 1 = Size THEN 0 ELSE current + 1
  /\ count' = IF count < Size THEN count + 1 ELSE count
  /\ IF count = Size THEN Returns(1, data[current]) ELSE Returns(0, None)

\* rb_pop; rb_free pops until the buffer is empty
Pop ==
  /\ IF count > 0 THEN count' = count - 1 /\ Returns(0, data[Front])
     ELSE count' = count /\ Returns(-1, None)
  /\ UNCHANGED <<data, current>>

\* sendQueuedMessages and broker_clear_messsage_ids change the msg_id of an
\* element through the pointer that rb_at returns.
Modify(idx, v) ==
  /\ idx < count
  /\ data' = [data EXCEPT ![At(idx)] = v]
  /\ UNCHANGED <<current, count, effect>>

Init ==
  /\ data = [i \in Slots |-> Garbage] /\ current = 0 /\ count = 0
  /\ effect = [ret |-> 0, released |-> None]

Next == Pop \/ \E v \in Values : Push(v) \/ \E idx \in Slots : Modify(idx, v)

Spec == Init /\ [][Next]_vars
-----------------------------------------------------------------------------
(***************************************************************************)
(* Properties.                                                             *)
(***************************************************************************)
\* The fields stay in range, and a slot that holds an element was written.
TypeOK ==
  /\ data \in [Slots -> Values \cup {Garbage}] /\ current \in Slots /\ count \in 0..Size
  /\ effect \in [ret : {-1, 0, 1}, released : Values \cup {None}]
  /\ \A idx \in 0..(count - 1) : At(idx) \in Slots /\ data[At(idx)] \in Values

\* What the buffer holds: its elements in the order of rb_at
Contents == [i \in 1..count |-> data[At(i - 1)]]

\* The ring buffer is the bounded queue of its contents: rb_push and rb_pop
\* return and release what the queue does.
Queue == INSTANCE BoundedQueue WITH queue <- Contents
IsBoundedQueue == Queue!Spec
=============================================================================
