------------------------------ MODULE MCQueues ------------------------------
(***************************************************************************)
(* Model checking of the two queues of the SDK, the ring buffer of a       *)
(* subscription and the task vector of the thread-safe API. They share     *)
(* nothing, so each is explored while the other one is at rest.            *)
(***************************************************************************)
EXTENDS Ringbuffer

CONSTANTS Threads, Loop, Idle, MaxTasks

VARIABLES cell, size, call, sent, up, running, made, added, ran, overlapped

taskVars == <<cell, size, call, sent, up, running, made, added, ran, overlapped>>

Task == INSTANCE AsyncTasks

InitQueues == Init /\ Task!Init

NextQueues ==
  \/ Task!Init /\ Next /\ UNCHANGED taskVars
  \/ Init /\ Task!Next /\ UNCHANGED vars

SpecQueues == InitQueues /\ [][NextQueues]_<<vars, taskVars>>


\* No task of the thread-safe API is lost, run twice or left without a wakeup as
\* long as calls do not overlap (dslink.c:637).
TasksKept == Task!TasksKept
=============================================================================
