----------------------------- MODULE AsyncTasks -----------------------------
(***************************************************************************)
(* The "thread-safe API" of the SDK (dslink_run_safe and the others): a    *)
(* call puts a task into a vector and wakes the loop, which swaps the      *)
(* vector for an empty one and runs the tasks it held. The callback of a   *)
(* task may call the API, too. lock_tasks_data does nothing, so the calls  *)
(* of two threads, and a call and the swap, may interleave.                *)
(*                                                                         *)
(* The vector grows as needed. What a task does to the nodes is left out,  *)
(* and so is that the process ends when the value of a node that is not    *)
(* there is asked for.                                                     *)
(***************************************************************************)
EXTENDS Naturals, Sequences

CONSTANTS
  Threads,   \* threads that call the API
  Loop,      \* the caller when a callback calls it
  Idle,      \* no call under way
  Garbage,   \* a cell that was not written
  MaxTasks   \* bound: tasks

Callers == Threads \cup {Loop}
Tasks == 1..MaxTasks
Cells == 0..(MaxTasks + 1)

VARIABLES
  cell, size,  \* link->async_tasks.data, a Vector that is made by the first call
  call,        \* by caller: its task and the index where it was put
  sent,        \* uv_async_send was called since the last wakeup
  up,          \* the loop runs: between reconnections it does not
  running,     \* processing_queue
  made,        \* tasks made so far
  added, ran,  \* history: tasks in the order their calls returned, and were run
  overlapped   \* history: a call was interleaved with another one or the swap

vars == <<cell, size, call, sent, up, running, made, added, ran, overlapped>>

NoCells == [i \in Cells |-> Garbage]
Contents == [i \in 1..size |-> cell[i - 1]]
Calling == {c \in Callers : call[c] # Idle}

-----------------------------------------------------------------------------
\* add_async_task up to the memcpy of vector_append
Copy(c) ==
  /\ call[c] = Idle /\ made < MaxTasks /\ made' = made + 1
  /\ c = Loop => running # <<>>
  /\ call' = [call EXCEPT ![c] = [task |-> made', at |-> size]]
  /\ cell' = [cell EXCEPT ![size] = made']
  /\ overlapped' = (overlapped \/ Calling # {})
  /\ UNCHANGED <<size, sent, up, running, added, ran>>

\* ++vec->size, which may work on the value that was read before, and
\* uv_async_send
Count(c) ==
  /\ call[c] # Idle /\ call' = [call EXCEPT ![c] = Idle]
  /\ size' \in {size + 1, call[c].at + 1}
  /\ sent' = TRUE
  /\ added' = Append(added, call[c].task)
  /\ overlapped' = (overlapped \/ Calling # {c})
  /\ UNCHANGED <<cell, up, running, made, ran>>

\* Mutant: the tasks are taken one at a time, for one wakeup.
ProcessOne ==
  /\ up /\ sent /\ sent' = FALSE /\ running = <<>>
  /\ running' = IF size = 0 THEN <<>> ELSE <<cell[0]>>
  /\ cell' = [i \in Cells |-> IF i + 1 \in Cells THEN cell[i + 1] ELSE Garbage]
  /\ size' = IF size = 0 THEN 0 ELSE size - 1
  /\ overlapped' = (overlapped \/ Calling # {})
  /\ UNCHANGED <<call, up, made, added, ran>>
\* dslink_process_async_tasks up to the swap
Process ==
  /\ up /\ sent /\ sent' = FALSE /\ running = <<>>
  /\ running' = Contents
  /\ cell' = NoCells /\ size' = 0
  /\ overlapped' = (overlapped \/ Calling # {})
  /\ UNCHANGED <<call, up, made, added, ran>>

\* The wrapper of the next task returns.
Run ==
  /\ running # <<>> /\ call[Loop] = Idle
  /\ ran' = Append(ran, Head(running)) /\ running' = Tail(running)
  /\ UNCHANGED <<cell, size, call, sent, up, made, added, overlapped>>

\* dslink_init: the loop ends with the connection and runs again with the next
\* one; the async handle, and what is in its vector, stays.
Reconnect ==
  /\ running = <<>> /\ up' = ~up
  /\ UNCHANGED <<cell, size, call, sent, running, made, added, ran, overlapped>>

Init ==
  /\ cell = NoCells /\ size = 0 /\ sent = FALSE /\ up = FALSE
  /\ call = [c \in Callers |-> Idle]
  /\ running = <<>> /\ made = 0 /\ added = <<>> /\ ran = <<>> /\ overlapped = FALSE

Next == Process \/ Run \/ Reconnect \/ \E c \in Callers : Copy(c) \/ Count(c)

Spec == Init /\ [][Next]_vars

-----------------------------------------------------------------------------
\* As long as the calls come one after the other, no task is lost or run twice:
\* those that were added are, in their order, those that were run, those that are
\* being run and those that wait, also when callbacks add tasks and across
\* reconnections; and while tasks wait the loop has been woken (dslink.c:637).
TasksKept ==
  ~overlapped => /\ added = ran \o running \o Contents
                 /\ size > 0 /\ Calling = {} => sent
=============================================================================
