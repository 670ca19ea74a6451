---------------------------- MODULE Queues_proofs ----------------------------
(***************************************************************************)
(* Proofs about the two queues of the SDK. Ringbuffer, for any size and    *)
(* any elements: the index arithmetic of rb_push, rb_pop and rb_at         *)
(* implements a bounded queue. AsyncTasks, for any threads and any number  *)
(* of tasks: none is lost, run twice or left without a wakeup while calls  *)
(* do not overlap.                                                         *)
(***************************************************************************)
EXTENDS MCQueues, SequenceTheorems, TLAPS

\* The fields in range: what the arithmetic depends on
InRange == current \in Slots /\ count \in 0..Size

USE RingSize DEF Slots

\* The elements are in different slots, and the slot that is written next
\* holds an element only if the buffer is full: then the oldest.
LEMMA AtSlots ==
  ASSUME InRange, NEW idx \in 0..(count - 1)
  PROVE  /\ At(idx) \in Slots
         /\ At(idx) = current <=> (count = Size /\ idx = 0)
         /\ \A j \in 0..(count - 1) : At(idx) = At(j) => idx = j
BY DEF InRange, At

LEMMA FrontIsFirst ==
  ASSUME InRange, count > 0
  PROVE  Front = At(0) /\ Front \in Slots
BY DEF InRange, At, Front

\* rb_push below the size: the elements stay where they are.
LEMMA PushMoves ==
  ASSUME InRange, count < Size, NEW v, Push(v)
  PROVE  /\ InRange' /\ count' = count + 1
         /\ \A idx \in 0..(count - 1) : At(idx)' = At(idx)
         /\ \A idx : idx = count => At(idx)' = current
<1>1. current' = (IF current + 1 = Size THEN 0 ELSE current + 1) /\ count' = count + 1
  BY DEF Push, InRange
<1>2. InRange'
  BY <1>1 DEF InRange
<1>3. \A idx : idx = count => At(idx)' = current
  BY <1>1 DEF InRange, At
<1>4. \A idx \in 0..(count - 1) : At(idx)' = At(idx)
  BY <1>1 DEF InRange, At
<1>5. QED BY <1>1, <1>2, <1>3, <1>4

\* rb_push at the size: every element is one place nearer to the front.
LEMMA PushFullMoves ==
  ASSUME InRange, count = Size, NEW v, Push(v)
  PROVE  /\ InRange' /\ count' = count /\ Front = current
         /\ \A idx \in 0..(count - 2) : At(idx)' = At(idx + 1)
         /\ \A idx : idx = count - 1 => At(idx)' = current
BY DEF InRange, At, Front, Push

LEMMA PopMoves ==
  ASSUME InRange, count > 0, Pop
  PROVE  /\ InRange' /\ count' = count - 1
         /\ \A idx \in 0..(count - 2) : At(idx)' = At(idx + 1)
BY DEF InRange, At, Pop

-----------------------------------------------------------------------------
LEMMA InitTypeOK == Init => TypeOK
BY DEF Init, TypeOK

LEMMA PushTypeOK ==
  ASSUME TypeOK, NEW v \in Values, Push(v)
  PROVE  TypeOK'
<1>1. InRange /\ data \in [Slots -> Values \cup {Garbage}] /\ current \in Slots
      /\ \A idx \in 0..(count - 1) : At(idx) \in Slots /\ data[At(idx)] \in Values
  BY DEF TypeOK, InRange
<1>2. data' \in [Slots -> Values \cup {Garbage}] /\ data'[current] = v
      /\ \A i \in Slots : i # current => data'[i] = data[i]
  BY <1>1 DEF Push
<1>3. CASE count < Size
  <2>1. InRange' /\ count' = count + 1 /\ (\A idx : idx = count => At(idx)' = current)
        /\ \A idx \in 0..(count - 1) : At(idx)' = At(idx)
    BY <1>1, <1>3, PushMoves
  <2>2. effect' \in [ret : {-1, 0, 1}, released : Values \cup {None}]
    BY <1>1, <1>3 DEF Push, Returns, InRange
  <2>3. ASSUME NEW idx \in 0..(count' - 1)
        PROVE  At(idx)' \in Slots /\ data'[At(idx)'] \in Values
    <3>1. CASE idx = count
      BY <1>1, <1>2, <2>1, <3>1
    <3>2. CASE idx \in 0..(count - 1)
      <4>1. At(idx) # current /\ At(idx) \in Slots /\ data[At(idx)] \in Values
        BY <1>1, <1>3, <3>2, AtSlots DEF InRange
      <4>2. At(idx)' = At(idx) /\ data'[At(idx)] = data[At(idx)]
        BY <1>2, <2>1, <3>2, <4>1
      <4>3. QED BY <4>1, <4>2
    <3>3. QED BY <1>1, <2>1, <3>1, <3>2 DEF InRange
  <2>4. QED BY <1>2, <2>1, <2>2, <2>3 DEF TypeOK, InRange
<1>4. CASE count = Size
  <2>1. InRange' /\ count' = count /\ Front = current
        /\ (\A idx : idx = count - 1 => At(idx)' = current)
        /\ \A idx \in 0..(count - 2) : At(idx)' = At(idx + 1)
    BY <1>1, <1>4, PushFullMoves
  <2>2. data[current] \in Values
    BY <1>1, <1>4, <2>1, FrontIsFirst DEF InRange
  <2>3. effect' \in [ret : {-1, 0, 1}, released : Values \cup {None}]
    BY <1>4, <2>2 DEF Push, Returns
  <2>4. ASSUME NEW idx \in 0..(count' - 1)
        PROVE  At(idx)' \in Slots /\ data'[At(idx)'] \in Values
    <3>1. CASE idx = count - 1
      BY <1>1, <1>2, <2>1, <3>1
    <3>2. CASE idx \in 0..(count - 2)
      <4>1. idx + 1 \in 0..(count - 1) /\ idx + 1 # 0
        BY <1>1, <3>2 DEF InRange
      <4>2. At(idx + 1) # current
        BY <1>1, <4>1, AtSlots
      <4>3. QED BY <1>1, <1>2, <2>1, <3>2, <4>1, <4>2
    <3>3. QED BY <1>1, <2>1, <3>1, <3>2 DEF InRange
  <2>5. QED BY <1>2, <2>1, <2>3, <2>4 DEF TypeOK, InRange
<1>5. QED BY <1>1, <1>3, <1>4 DEF InRange

LEMMA PopTypeOK ==
  ASSUME TypeOK, Pop
  PROVE  TypeOK'
<1>1. InRange /\ data \in [Slots -> Values \cup {Garbage}]
      /\ \A idx \in 0..(count - 1) : At(idx) \in Slots /\ data[At(idx)] \in Values
  BY DEF TypeOK, InRange
<1>2. CASE count > 0
  <2>1. InRange' /\ count' = count - 1 /\ data' = data
        /\ \A idx \in 0..(count - 2) : At(idx)' = At(idx + 1)
    BY <1>1, <1>2, PopMoves DEF Pop
  <2>2. effect' \in [ret : {-1, 0, 1}, released : Values \cup {None}]
    BY <1>1, <1>2, FrontIsFirst DEF Pop, Returns, InRange
  <2>3. \A idx \in 0..(count' - 1) : At(idx)' \in Slots /\ data'[At(idx)'] \in Values
    BY <1>1, <2>1 DEF InRange
  <2>4. QED BY <1>1, <2>1, <2>2, <2>3 DEF TypeOK, InRange
<1>3. CASE ~(count > 0)
  <2>1. count = 0 /\ count' = 0 /\ UNCHANGED <<data, current>> /\ Returns(-1, None)
    BY <1>1, <1>3 DEF InRange, Pop
  <2>2. QED BY <1>1, <2>1 DEF TypeOK, Returns, InRange
<1>4. QED BY <1>2, <1>3

LEMMA ModifyTypeOK ==
  ASSUME TypeOK, NEW k \in Slots, NEW v \in Values, Modify(k, v)
  PROVE  TypeOK'
<1>1. InRange /\ k \in 0..(count - 1)
  BY DEF TypeOK, InRange, Modify
<1>2. At(k) \in Slots
  BY <1>1, AtSlots
<1>3. \A idx : At(idx)' = At(idx)
  BY DEF Modify, At
<1>4. data' \in [Slots -> Values \cup {Garbage}] /\ \A i \in Slots : data'[i] = IF i = At(k) THEN v ELSE data[i]
  BY <1>2 DEF TypeOK, Modify
<1>5. \A idx \in 0..(count - 1) : At(idx) \in Slots /\ data'[At(idx)] \in Values
  BY <1>4 DEF TypeOK
<1>6. QED BY <1>3, <1>4, <1>5 DEF TypeOK, Modify

\* The fields stay in range and every element that rb_at reaches was
\* written, whatever the order of pushes, pops and changes.
THEOREM TypeCorrect == Spec => []TypeOK
<1>1. Init => TypeOK
  BY InitTypeOK
<1>2. TypeOK /\ [Next]_vars => TypeOK'
  <2> SUFFICES ASSUME TypeOK, [Next]_vars PROVE TypeOK'
    OBVIOUS
  <2>1. CASE Pop
    BY <2>1, PopTypeOK
  <2>2. ASSUME NEW v \in Values, Push(v) PROVE TypeOK'
    BY <2>2, PushTypeOK
  <2>3. ASSUME NEW v \in Values, NEW idx \in Slots, Modify(idx, v) PROVE TypeOK'
    BY <2>3, ModifyTypeOK
  <2>4. CASE UNCHANGED vars
    BY <2>4 DEF vars, TypeOK, At
  <2>5. QED BY <2>1, <2>2, <2>3, <2>4 DEF Next
<1>3. QED BY <1>1, <1>2, PTL DEF Spec

-----------------------------------------------------------------------------
\* The contents are a sequence of elements, in the order of rb_at.
Listed ==
  /\ Contents \in Seq(Values) /\ Len(Contents) = count
  /\ \A i \in 1..count : Contents[i] = data[At(i - 1)]
  /\ Contents = <<>> <=> count = 0

LEMMA ContentsListed == TypeOK => Listed
<1> SUFFICES ASSUME TypeOK PROVE Listed
  OBVIOUS
<1>1. count \in Nat /\ \A idx \in 0..(count - 1) : data[At(idx)] \in Values
  BY DEF TypeOK
<1>2. \A i \in 1..count : data[At(i - 1)] \in Values
  BY <1>1
<1>3. Contents \in [1..count -> Values]
  BY <1>2 DEF Contents
<1>4. Contents \in Seq(Values) /\ Len(Contents) = count
  BY <1>1, <1>3
<1>5. \A i \in 1..count : Contents[i] = data[At(i - 1)]
  BY DEF Contents
<1>6. Contents = <<>> <=> count = 0
  BY <1>4, EmptySeq
<1>7. QED BY <1>4, <1>5, <1>6 DEF Listed

LEMMA ContentsListedNext == TypeOK' => Listed'
BY ContentsListed, PTL

\* The facts of a state and the next one that the steps below start from
LEMMA StepFacts ==
  ASSUME TypeOK, TypeOK'
  PROVE  InRange /\ Listed /\ Listed' /\ count \in Nat
<1>1. Listed
  BY ContentsListed
<1>2. Listed'
  BY ContentsListedNext
<1>3. InRange /\ count \in Nat
  BY DEF TypeOK, InRange
<1>4. QED BY <1>1, <1>2, <1>3

LEMMA PushImplements ==
  ASSUME TypeOK, TypeOK', NEW v \in Values, Push(v)
  PROVE  Queue!Push(v)
<1>1. InRange /\ Listed /\ Listed' /\ count \in Nat
  BY StepFacts
<1>2. data' = [data EXCEPT ![current] = v] /\ data'[current] = v
      /\ \A i \in Slots : i # current => data'[i] = data[i]
  BY DEF Push, TypeOK
<1>3. CASE count < Size
  <2>1. InRange' /\ count' = count + 1 /\ (\A idx : idx = count => At(idx)' = current)
        /\ \A idx \in 0..(count - 1) : At(idx)' = At(idx)
    BY <1>1, <1>3, PushMoves
  <2>2. /\ Append(Contents, v) \in Seq(Values) /\ Len(Append(Contents, v)) = count + 1
        /\ \A i \in 1..count : Append(Contents, v)[i] = Contents[i]
        /\ Append(Contents, v)[count + 1] = v
    BY <1>1, AppendProperties DEF Listed
  <2>3. ASSUME NEW i \in 1..(count + 1) PROVE Contents'[i] = Append(Contents, v)[i]
    <3>1. Contents'[i] = data'[At(i - 1)']
      BY <1>1, <2>1 DEF Listed
    <3>2. CASE i = count + 1
      <4>1. i - 1 = count
        BY <1>1, <3>2
      <4>2. At(i - 1)' = current
        BY <2>1, <4>1
      <4>3. QED BY <1>2, <2>2, <3>1, <3>2, <4>2
    <3>3. CASE i \in 1..count
      <4>1. i - 1 \in 0..(count - 1)
        BY <1>1, <3>3
      <4>2. At(i - 1) # current /\ At(i - 1) \in Slots
        BY <1>1, <1>3, <4>1, AtSlots
      <4>3. At(i - 1)' = At(i - 1) /\ data'[At(i - 1)] = data[At(i - 1)]
        BY <1>2, <2>1, <4>1, <4>2
      <4>4. QED BY <1>1, <2>2, <3>1, <3>3, <4>3 DEF Listed
    <3>4. i = count + 1 \/ i \in 1..count
      BY <1>1
    <3>5. QED BY <3>2, <3>3, <3>4
  <2>4. Contents' = Append(Contents, v)
    BY <1>1, <2>1, <2>2, <2>3, SeqEqual DEF Listed
  <2>5. effect' = [ret |-> 0, released |-> None]
    BY <1>1, <1>3 DEF Push, Returns
  <2>6. QED BY <1>1, <1>3, <2>4, <2>5 DEF Queue!Push, Queue!Returns, Listed
<1>4. CASE count = Size
  <2>1. InRange' /\ count' = count /\ Front = current
        /\ (\A idx : idx = count - 1 => At(idx)' = current)
        /\ \A idx \in 0..(count - 2) : At(idx)' = At(idx + 1)
    BY <1>1, <1>4, PushFullMoves
  <2>2. /\ Tail(Contents) \in Seq(Values) /\ Len(Tail(Contents)) = count - 1
        /\ \A i \in 1..(count - 1) : Tail(Contents)[i] = Contents[i + 1]
        /\ Head(Contents) = Contents[1]
    BY <1>1, <1>4, HeadTailProperties DEF Listed
  <2>3. /\ Append(Tail(Contents), v) \in Seq(Values) /\ Len(Append(Tail(Contents), v)) = count
        /\ \A i \in 1..(count - 1) : Append(Tail(Contents), v)[i] = Contents[i + 1]
        /\ Append(Tail(Contents), v)[count] = v
    BY <1>1, <2>2, AppendProperties
  <2>4. ASSUME NEW i \in 1..count PROVE Contents'[i] = Append(Tail(Contents), v)[i]
    <3>1. Contents'[i] = data'[At(i - 1)']
      BY <1>1, <2>1 DEF Listed
    <3>2. CASE i = count
      <4>1. At(i - 1)' = current
        BY <2>1, <3>2
      <4>2. QED BY <1>2, <2>3, <3>1, <3>2, <4>1
    <3>3. CASE i \in 1..(count - 1)
      <4>1. i - 1 \in 0..(count - 2) /\ i \in 0..(count - 1) /\ i # 0 /\ i + 1 \in 1..count
        BY <1>1, <3>3
      <4>2. At(i) # current /\ At(i) \in Slots
        BY <1>1, <4>1, AtSlots
      <4>3. At(i - 1)' = At(i) /\ data'[At(i)] = data[At(i)]
        BY <1>1, <1>2, <2>1, <4>1, <4>2
      <4>4. Contents[i + 1] = data[At(i)]
        BY <1>1, <4>1 DEF Listed
      <4>5. QED BY <2>3, <3>1, <3>3, <4>3, <4>4
    <3>4. i = count \/ i \in 1..(count - 1)
      BY <1>1
    <3>5. QED BY <3>2, <3>3, <3>4
  <2>5. Contents' = Append(Tail(Contents), v)
    BY <1>1, <2>1, <2>3, <2>4, SeqEqual DEF Listed
  <2>6. effect' = [ret |-> 1, released |-> data[current]]
    BY <1>4 DEF Push, Returns
  <2>7. data[current] = Head(Contents)
    BY <1>1, <1>4, <2>1, <2>2, FrontIsFirst DEF Listed
  <2>8. QED BY <1>1, <1>4, <2>5, <2>6, <2>7 DEF Queue!Push, Queue!Returns, Listed
<1>5. QED BY <1>1, <1>3, <1>4 DEF InRange

LEMMA PopImplements ==
  ASSUME TypeOK, TypeOK', Pop
  PROVE  Queue!Pop
<1>1. InRange /\ Listed /\ Listed' /\ count \in Nat
  BY StepFacts
<1>2. CASE count > 0
  <2>1. InRange' /\ count' = count - 1 /\ data' = data
        /\ \A idx \in 0..(count - 2) : At(idx)' = At(idx + 1)
    BY <1>1, <1>2, PopMoves DEF Pop
  <2>2. /\ Tail(Contents) \in Seq(Values) /\ Len(Tail(Contents)) = count - 1
        /\ \A i \in 1..(count - 1) : Tail(Contents)[i] = Contents[i + 1]
        /\ Head(Contents) = Contents[1]
    BY <1>1, <1>2, HeadTailProperties DEF Listed
  <2>3. ASSUME NEW i \in 1..(count - 1) PROVE Contents'[i] = Tail(Contents)[i]
    <3>1. i - 1 \in 0..(count - 2) /\ i + 1 \in 1..count /\ (i - 1) + 1 = i /\ (i + 1) - 1 = i
      BY <1>1
    <3>2. Contents'[i] = data[At(i)]
      BY <1>1, <2>1, <3>1 DEF Listed
    <3>3. Contents[i + 1] = data[At(i)]
      BY <1>1, <3>1 DEF Listed
    <3>4. QED BY <2>2, <3>2, <3>3
  <2>4. Contents' = Tail(Contents)
    BY <1>1, <2>1, <2>2, <2>3, SeqEqual DEF Listed
  <2>5. effect' = [ret |-> 0, released |-> Head(Contents)]
    BY <1>1, <1>2, <2>2, FrontIsFirst DEF Pop, Returns, Listed
  <2>6. QED BY <1>1, <1>2, <2>4, <2>5 DEF Queue!Pop, Queue!Returns, Listed
<1>3. CASE ~(count > 0)
  <2>1. count = 0 /\ count' = 0 /\ effect' = [ret |-> -1, released |-> None]
    BY <1>1, <1>3 DEF InRange, Pop, Returns
  <2>2. Contents = <<>> /\ Contents' = <<>>
    BY <1>1, <2>1 DEF Listed
  <2>3. QED BY <2>1, <2>2 DEF Queue!Pop, Queue!Returns
<1>4. QED BY <1>2, <1>3

LEMMA ModifyImplements ==
  ASSUME TypeOK, TypeOK', NEW k \in Slots, NEW v \in Values, Modify(k, v)
  PROVE  Queue!Modify(k + 1, v)
<1>1. InRange /\ Listed /\ Listed' /\ count \in Nat
  BY StepFacts
<1>2. k \in 0..(count - 1) /\ k + 1 \in 1..count /\ count' = count
  BY <1>1 DEF Modify
<1>3. At(k) \in Slots /\ \A idx \in 0..(count - 1) : At(k) = At(idx) => k = idx
  BY <1>1, <1>2, AtSlots
<1>4. \A idx : At(idx)' = At(idx)
  BY DEF Modify, At
<1>5. \A i \in Slots : data'[i] = IF i = At(k) THEN v ELSE data[i]
  BY <1>3 DEF Modify, TypeOK
<1>6. /\ [Contents EXCEPT ![k + 1] = v] \in Seq(Values) /\ Len([Contents EXCEPT ![k + 1] = v]) = count
      /\ \A i \in 1..count : [Contents EXCEPT ![k + 1] = v][i] = IF i = k + 1 THEN v ELSE Contents[i]
  BY <1>1, <1>2, ExceptSeq DEF Listed
<1>7. ASSUME NEW i \in 1..count PROVE Contents'[i] = [Contents EXCEPT ![k + 1] = v][i]
  <2>1. i - 1 \in 0..(count - 1) /\ (i - 1 = k <=> i = k + 1)
    BY <1>1
  <2>2. Contents'[i] = data'[At(i - 1)]
    BY <1>1, <1>2, <1>4 DEF Listed
  <2>3. At(i - 1) \in Slots /\ (At(i - 1) = At(k) <=> i = k + 1)
    BY <1>1, <1>3, <2>1, AtSlots
  <2>4. data'[At(i - 1)] = IF i = k + 1 THEN v ELSE data[At(i - 1)]
    BY ONLY <1>5, <2>3
  <2>5. Contents[i] = data[At(i - 1)]
    BY <1>1 DEF Listed
  <2> QED BY <1>6, <2>2, <2>4, <2>5
<1>8. Contents' = [Contents EXCEPT ![k + 1] = v]
  BY <1>1, <1>2, <1>6, <1>7, SeqEqual DEF Listed
<1>9. QED BY <1>1, <1>2, <1>8 DEF Queue!Modify, Modify, Listed

\* The ring buffer implements the bounded queue: every call returns and
\* releases what the queue's operation does, and leaves its contents.
THEOREM RingbufferIsBoundedQueue == Spec => IsBoundedQueue
<1>1. Init => Queue!Init
  <2> SUFFICES ASSUME Init PROVE Queue!Init
    OBVIOUS
  <2>1. Listed
    BY InitTypeOK, ContentsListed
  <2>2. QED BY <2>1 DEF Init, Queue!Init, Listed
<1>2. TypeOK /\ TypeOK' /\ [Next]_vars => [Queue!Next]_(Queue!vars)
  <2> SUFFICES ASSUME TypeOK, TypeOK', [Next]_vars PROVE [Queue!Next]_(Queue!vars)
    OBVIOUS
  <2>1. CASE Pop
    BY <2>1, PopImplements DEF Queue!Next
  <2>2. ASSUME NEW v \in Values, Push(v) PROVE Queue!Next
    BY <2>2, PushImplements DEF Queue!Next
  <2>3. ASSUME NEW v \in Values, NEW idx \in Slots, Modify(idx, v) PROVE Queue!Next
    <3>1. Queue!Modify(idx + 1, v) /\ idx + 1 \in 1..Size
      BY <2>3, ModifyImplements
    <3>2. QED BY <3>1 DEF Queue!Next
  <2>4. CASE UNCHANGED vars
    BY <2>4 DEF vars, Queue!vars, Contents, At
  <2>5. QED BY <2>1, <2>2, <2>3, <2>4 DEF Next
<1>3. QED BY <1>1, <1>2, TypeCorrect, PTL DEF Spec, IsBoundedQueue, Queue!Spec

-----------------------------------------------------------------------------
(***************************************************************************)
(* The tasks of the thread-safe API.                                       *)
(***************************************************************************)
Written == Nat \cup {Garbage}

QueueTypes ==
  /\ cell \in [Task!Cells -> Written] /\ size \in Nat /\ made \in 0..MaxTasks
  /\ added \in Seq(Written) /\ ran \in Seq(Written) /\ running \in Seq(Written)
  /\ call \in [Task!Callers -> {Idle} \cup [task : Nat, at : Nat]]

\* At most one call is under way, and its task is in the cell behind the last
\* one that was counted; there is room for it.
OneCall ==
  /\ \A c, d \in Task!Calling : c = d
  /\ \A c \in Task!Calling :
       /\ call[c] \in [task : Nat, at : Nat]
       /\ call[c].at = size /\ cell[size] = call[c].task /\ size < made
  /\ size <= made

Kept == added = (ran \o running) \o Task!Contents
Woken == size > 0 /\ Task!Calling = {} => sent

\* TasksKept with what it needs of a call that is under way.
QueueInv == ~overlapped => QueueTypes /\ OneCall /\ Kept /\ Woken

LEMMA ContentsType ==
  ASSUME MaxTasks \in Nat, QueueTypes, size <= made
  PROVE  Task!Contents \in Seq(Written) /\ Len(Task!Contents) = size /\ \A i \in 1..size : Task!Contents[i] = cell[i - 1]
<1>1. \A i \in 1..size : i - 1 \in Task!Cells
  BY DEF QueueTypes, Task!Cells
<1>2. \A i \in 1..size : cell[i - 1] \in Written
  BY <1>1 DEF QueueTypes
<1> QED
  BY <1>2 DEF Task!Contents, QueueTypes

\* A task behind the counted ones does not change them.
LEMMA CopyKeeps ==
  ASSUME MaxTasks \in Nat, QueueInv, NEW c \in Task!Callers, Task!Copy(c)
  PROVE  QueueInv'
<1> SUFFICES ASSUME ~overlapped' PROVE (QueueTypes /\ OneCall /\ Kept /\ Woken)'
  BY DEF QueueInv
<1>1. ~overlapped /\ Task!Calling = {}
  BY DEF Task!Copy
<1>2. QueueTypes /\ OneCall /\ Kept /\ Woken
  BY <1>1 DEF QueueInv
<1>3. /\ made' = made + 1 /\ made < MaxTasks /\ size' = size /\ size <= made
      /\ call' = [call EXCEPT ![c] = [task |-> made', at |-> size]]
      /\ cell' = [cell EXCEPT ![size] = made']
      /\ added' = added /\ ran' = ran /\ running' = running /\ sent' = sent
  BY <1>2 DEF Task!Copy, OneCall
<1>4. size \in Task!Cells /\ made' \in Nat /\ size \in Nat
  BY <1>2, <1>3 DEF QueueTypes, Task!Cells
<1>5. [task |-> made', at |-> size] \in [task : Nat, at : Nat]
  BY <1>4
<1>6. QueueTypes'
  BY <1>2, <1>3, <1>4, <1>5 DEF QueueTypes, Written
<1>7. \A d \in Task!Calling' : d = c
  BY <1>1, <1>2, <1>3 DEF Task!Calling, QueueTypes
<1>8. OneCall'
  <2>1. call'[c] = [task |-> made', at |-> size] /\ cell'[size] = made' /\ size < made'
    BY <1>2, <1>3, <1>4 DEF QueueTypes
  <2> QED
    BY <2>1, <1>3, <1>4, <1>5, <1>7 DEF OneCall
<1>9. Task!Contents' = Task!Contents
  <2>1. \A i \in 1..size : cell'[i - 1] = cell[i - 1]
    BY <1>2, <1>3, <1>4 DEF QueueTypes, Task!Cells
  <2> QED
    BY <2>1, <1>3 DEF Task!Contents
<1>10. Kept'
  BY <1>2, <1>3, <1>9 DEF Kept
<1>11. Woken'
  BY <1>1, <1>2, <1>3 DEF Woken
<1> QED
  BY <1>6, <1>8, <1>10, <1>11

\* A call that nothing interleaved with adds its own task to the end.
LEMMA CountKeeps ==
  ASSUME MaxTasks \in Nat, QueueInv, NEW c \in Task!Callers, Task!Count(c)
  PROVE  QueueInv'
<1> SUFFICES ASSUME ~overlapped' PROVE (QueueTypes /\ OneCall /\ Kept /\ Woken)'
  BY DEF QueueInv
<1> DEFINE x == call[c].task
<1>1. ~overlapped /\ Task!Calling = {c}
  BY DEF Task!Count
<1>2. QueueTypes /\ OneCall /\ Kept /\ Woken
  BY <1>1 DEF QueueInv
<1>3. x \in Nat /\ call[c].at = size /\ cell[size] = x /\ size < made /\ size \in Nat
  BY <1>1, <1>2 DEF OneCall, QueueTypes
<1>4. /\ call' = [call EXCEPT ![c] = Idle] /\ size' = size + 1 /\ sent'
      /\ added' = Append(added, x) /\ cell' = cell /\ made' = made
      /\ ran' = ran /\ running' = running
  BY <1>3 DEF Task!Count
<1> HIDE DEF x
<1>5. x \in Written
  BY <1>3 DEF Written
<1>6. QueueTypes'
  BY <1>2, <1>3, <1>4, <1>5, AppendProperties DEF QueueTypes
<1>7. Task!Calling' = {}
  BY <1>1, <1>2, <1>4 DEF Task!Calling, QueueTypes
<1>8. OneCall'
  BY <1>3, <1>4, <1>7, <1>2 DEF OneCall, QueueTypes
<1>9. Task!Contents' = Append(Task!Contents, x)
  <2>1. /\ Task!Contents \in Seq(Written) /\ Len(Task!Contents) = size
        /\ \A i \in 1..size : Task!Contents[i] = cell[i - 1]
    BY <1>2, ContentsType DEF OneCall
  <2>2. /\ Task!Contents' \in Seq(Written) /\ Len(Task!Contents') = size + 1
        /\ \A i \in 1..(size + 1) : Task!Contents'[i] = cell[i - 1]
    <3>1. size' <= made'
      BY <1>8 DEF OneCall
    <3>2. \A i \in 1..(size + 1) : i - 1 \in Task!Cells
      BY <1>2, <1>3 DEF Task!Cells, QueueTypes
    <3>3. \A i \in 1..(size + 1) : cell[i - 1] \in Written
      BY <1>2, <3>2 DEF QueueTypes
    <3>4. Task!Contents' = [i \in 1..(size + 1) |-> cell[i - 1]]
      BY <1>4 DEF Task!Contents
    <3> QED
      BY <3>3, <3>4, <1>3
  <2>3. /\ Append(Task!Contents, x) \in Seq(Written) /\ Len(Append(Task!Contents, x)) = size + 1
        /\ \A i \in 1..size : Append(Task!Contents, x)[i] = Task!Contents[i]
        /\ Append(Task!Contents, x)[size + 1] = x
    BY <2>1, <1>5, AppendProperties
  <2>4. \A i \in 1..(size + 1) : Task!Contents'[i] = Append(Task!Contents, x)[i]
    <3> TAKE i \in 1..(size + 1)
    <3>1. CASE i = size + 1
      BY <3>1, <2>2, <2>3, <1>3
    <3>2. CASE i # size + 1
      <4>1. i \in 1..size
        BY <3>2, <1>3
      <4> QED
        BY <4>1, <2>1, <2>2, <2>3
    <3> QED
      BY <3>1, <3>2
  <2> HIDE DEF Task!Contents
  <2> QED
    BY <2>2, <2>3, <2>4, SeqEqual
<1>10. Kept'
  <2>1. Task!Contents \in Seq(Written) /\ ran \o running \in Seq(Written)
    BY <1>2, ContentsType, ConcatProperties DEF OneCall, QueueTypes
  <2> HIDE DEF Task!Contents
  <2>2. /\ Append(Task!Contents, x) = Task!Contents \o <<x>>
        /\ Append(added, x) = added \o <<x>> /\ <<x>> \in Seq(Written)
    BY <2>1, <1>2, <1>5, AppendIsConcat DEF QueueTypes
  <2>3. (ran \o running) \o (Task!Contents \o <<x>>) = ((ran \o running) \o Task!Contents) \o <<x>>
    BY <2>1, <2>2, ConcatAssociative
  <2> QED
    BY <1>2, <1>4, <1>9, <2>2, <2>3 DEF Kept
<1>11. Woken'
  BY <1>4 DEF Woken
<1> QED
  BY <1>6, <1>8, <1>10, <1>11

\* The swap hands the whole vector over.
LEMMA ProcessKeeps ==
  ASSUME MaxTasks \in Nat, QueueInv, Task!Process
  PROVE  QueueInv'
<1> SUFFICES ASSUME ~overlapped' PROVE (QueueTypes /\ OneCall /\ Kept /\ Woken)'
  BY DEF QueueInv
<1>1. ~overlapped /\ Task!Calling = {}
  BY DEF Task!Process
<1>2. QueueTypes /\ OneCall /\ Kept /\ Woken
  BY <1>1 DEF QueueInv
<1>3. /\ running = <<>> /\ running' = Task!Contents /\ cell' = Task!NoCells /\ size' = 0
      /\ call' = call /\ made' = made /\ added' = added /\ ran' = ran
  BY DEF Task!Process
<1>4. Task!Contents \in Seq(Written) /\ Task!Contents' = <<>>
  BY <1>2, <1>3, ContentsType DEF OneCall, Task!Contents
<1> HIDE DEF Task!Contents
<1>5. QueueTypes'
  BY <1>2, <1>3, <1>4 DEF QueueTypes, Task!NoCells, Written
<1>6. Task!Calling' = {}
  BY <1>1, <1>3 DEF Task!Calling
<1>7. OneCall'
  BY <1>2, <1>3, <1>6 DEF OneCall, QueueTypes
<1>8. Kept'
  <2>1. ran \o running = ran
    BY <1>2, <1>3, ConcatEmptySeq DEF QueueTypes
  <2>2. ran \o Task!Contents \in Seq(Written)
    BY <1>2, <1>4, ConcatProperties DEF QueueTypes
  <2>3. (ran \o Task!Contents) \o <<>> = ran \o Task!Contents
    BY <2>2, ConcatEmptySeq
  <2> QED
    BY <1>2, <1>3, <1>4, <2>1, <2>3 DEF Kept
<1>9. Woken'
  BY <1>3 DEF Woken
<1> QED
  BY <1>5, <1>7, <1>8, <1>9

\* What is run next was first in the vector.
LEMMA RunKeeps ==
  ASSUME MaxTasks \in Nat, QueueInv, Task!Run
  PROVE  QueueInv'
<1> SUFFICES ASSUME ~overlapped' PROVE (QueueTypes /\ OneCall /\ Kept /\ Woken)'
  BY DEF QueueInv
<1>1. ~overlapped
  BY DEF Task!Run
<1>2. QueueTypes /\ OneCall /\ Kept /\ Woken
  BY <1>1 DEF QueueInv
<1>3. /\ running # <<>> /\ ran' = Append(ran, Head(running)) /\ running' = Tail(running)
      /\ UNCHANGED <<cell, size, call, sent, made, added>>
  BY DEF Task!Run
<1>4. /\ Head(running) \in Written /\ Tail(running) \in Seq(Written)
      /\ running = <<Head(running)>> \o Tail(running) /\ <<Head(running)>> \in Seq(Written)
  <2>1. Head(running) \in Written /\ Tail(running) \in Seq(Written)
    BY <1>2, <1>3, HeadTailProperties DEF QueueTypes
  <2>2. running = <<Head(running)>> \o Tail(running)
    BY <1>2, <1>3 DEF QueueTypes
  <2> QED
    BY <2>1, <2>2
<1>5. QueueTypes'
  BY <1>2, <1>3, <1>4, AppendProperties DEF QueueTypes
<1>6. OneCall'
  BY <1>2, <1>3 DEF OneCall, Task!Calling
<1>7. ran' \o running' = ran \o running
  <2>1. ran' = ran \o <<Head(running)>>
    BY <1>2, <1>3, <1>4, AppendIsConcat DEF QueueTypes
  <2>2. (ran \o <<Head(running)>>) \o Tail(running) = ran \o (<<Head(running)>> \o Tail(running))
    BY <1>2, <1>4, ConcatAssociative DEF QueueTypes
  <2> QED
    BY <2>1, <2>2, <1>3, <1>4
<1>8. Kept'
  BY <1>2, <1>3, <1>7 DEF Kept, Task!Contents
<1>9. Woken'
  BY <1>2, <1>3 DEF Woken, Task!Calling
<1> QED
  BY <1>5, <1>6, <1>8, <1>9

LEMMA InitQueueInv == ASSUME MaxTasks \in Nat, Task!Init PROVE QueueInv
<1>1. QueueTypes
  BY DEF Task!Init, QueueTypes, Task!NoCells, Written
<1>2. Task!Calling = {}
  BY DEF Task!Init, Task!Calling
<1>3. OneCall /\ Woken
  BY <1>2 DEF Task!Init, OneCall, Woken
<1>4. Kept
  BY DEF Task!Init, Kept, Task!Contents
<1> QED
  BY <1>1, <1>3, <1>4 DEF QueueInv

LEMMA NextQueueInv == ASSUME MaxTasks \in Nat PROVE QueueInv /\ [Task!Next]_(Task!vars) => QueueInv'
<1> SUFFICES ASSUME QueueInv, [Task!Next]_(Task!vars) PROVE QueueInv'
  OBVIOUS
<1>1. CASE Task!Process
  BY <1>1, ProcessKeeps
<1>2. CASE Task!Run
  BY <1>2, RunKeeps
<1>3. CASE Task!Reconnect
  BY <1>3 DEF Task!Reconnect, QueueInv, QueueTypes, OneCall, Kept, Woken, Task!Contents, Task!Calling
<1>4. ASSUME NEW c \in Task!Callers, Task!Copy(c) \/ Task!Count(c) PROVE QueueInv'
  BY <1>4, CopyKeeps, CountKeeps
<1>5. CASE UNCHANGED Task!vars
  BY <1>5 DEF Task!vars, QueueInv, QueueTypes, OneCall, Kept, Woken, Task!Contents, Task!Calling
<1> QED
  BY <1>1, <1>2, <1>3, <1>4, <1>5 DEF Task!Next

\* As long as calls do not overlap every task that was added is run once, in
\* order, or waits with a wakeup on its way (dslink.c:637), for any threads and
\* any number of tasks, added from callbacks too, and across reconnections.
THEOREM TasksKeptAlways == ASSUME MaxTasks \in Nat PROVE Task!Spec => []TasksKept
<1>1. QueueInv => TasksKept
  BY DEF QueueInv, Kept, Woken, TasksKept, Task!TasksKept
<1>2. Task!Init => QueueInv
  BY InitQueueInv
<1>3. QueueInv /\ [Task!Next]_(Task!vars) => QueueInv'
  BY NextQueueInv
<1> QED
  BY <1>1, <1>2, <1>3, PTL DEF Task!Spec

-----------------------------------------------------------------------------
\* The specification that is model-checked explores each queue while the other
\* one is at rest: it implements both, so what is proved of each holds of it.
THEOREM QueuesCompose == SpecQueues => Spec /\ Task!Spec
<1>1. NextQueues => [Next]_vars /\ [Task!Next]_(Task!vars)
  BY DEF NextQueues, taskVars, Task!vars
<1>2. UNCHANGED <<vars, taskVars>> => UNCHANGED vars /\ UNCHANGED Task!vars
  BY DEF taskVars, Task!vars
<1>3. InitQueues => Init /\ Task!Init
  BY DEF InitQueues
<1> QED
  BY <1>1, <1>2, <1>3, PTL DEF SpecQueues, Spec, Task!Spec
=============================================================================
