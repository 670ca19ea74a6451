---------------------------- MODULE BoundedQueue ----------------------------
(***************************************************************************)
(* What a Ringbuffer promises (ringbuffer.h): a queue of at most Size      *)
(* elements, first in first out, that gives up its oldest element for a    *)
(* new one when it is full. Every element is released exactly once, when   *)
(* it leaves the queue.                                                    *)
(***************************************************************************)
EXTENDS Integers, Sequences

CONSTANTS
  Values,   \* elements
  Size,     \* capacity, at least 1
  None      \* no element, not one of Values

VARIABLES
  queue,    \* the elements, oldest first
  effect    \* what the last call returned, and the element that it released

vars == <<queue, effect>>

Returns(ret, released) == effect' = [ret |-> ret, released |-> released]

Init == queue = <<>> /\ effect = [ret |-> 0, released |-> None]

Push(v) ==
  \/ /\ Len(queue) < Size
     /\ queue' = Append(queue, v) /\ Returns(0, None)
  \/ /\ Len(queue) = Size
     /\ queue' = Append(Tail(queue), v) /\ Returns(1, Head(queue))

Pop ==
  \/ /\ queue # <<>>
     /\ queue' = Tail(queue) /\ Returns(0, Head(queue))
  \/ /\ queue = <<>>
     /\ UNCHANGED queue /\ Returns(-1, None)

\* The owner changes an element in its place.
Modify(i, v) ==
  /\ i \in 1..Len(queue)
  /\ queue' = [queue EXCEPT ![i] = v] /\ UNCHANGED effect

Next == Pop \/ \E v \in Values : Push(v) \/ \E i \in 1..Size : Modify(i, v)

Spec == Init /\ [][Next]_vars
=============================================================================
