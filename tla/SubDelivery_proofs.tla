------------------------- MODULE SubDelivery_proofs -------------------------
(***************************************************************************)
(* Theorems about SubDelivery, for every set of paths and sids, every queue *)
(* size and window, and any number of values, acks and reconnections.      *)
(***************************************************************************)
EXTENDS SubDelivery, FiniteSetTheorems, SequenceTheorems, TLAPS

\* What the functions of subscription.c take and return.
DeliveryState ==
  [r : SubRequester, w : Seq(Message), d : Seq(Nat) \cup {NoRecord}, f : Files]

\* A non-empty set of naturals has a least element: the loops of
\* sendQueuedMessages and removeFromMessageQueue stop at a definite index.
LEMMA MinExists ==
  ASSUME NEW S \in SUBSET Nat, S # {}
  PROVE  /\ Min(S) \in S
         /\ \A y \in S : Min(S) <= y
<1> DEFINE R == {ss \in Nat \X Nat : ss[1] < ss[2]}
<1>0. OpToRel(<, Nat) = R
  BY Zenon DEF OpToRel
<1>1. IsWellFoundedOn(R, Nat)
  BY NatLessThanWellFounded, <1>0
<1>2. PICK x \in S : \A y \in S : ~(<<y, x>> \in R)
  <2> HIDE DEF R
  <2> QED BY <1>1, WFMin
<1>3. ASSUME NEW y \in S PROVE x <= y
  <2>1. ~(<<y, x>> \in R)
    BY <1>2
  <2>2. <<y, x>> \in Nat \X Nat
    OBVIOUS
  <2>3. ~(<<y, x>>[1] < <<y, x>>[2])
    BY ONLY <2>1, <2>2 DEF R
  <2>4. ~(y < x)
    BY ONLY <2>3
  <2> QED BY <2>4
<1>4. QED BY <1>3 DEF Min

\* The send loop leaves messageOutputQueueCount where it was or moves it
\* forward, never past the window.
LEMMA StopAtBounds ==
  ASSUME NEW r \in SubRequester
  PROVE  /\ StopAt(r) \in 0..CountMax
         /\ r.out <= StopAt(r)
         /\ StopAt(r) = r.out \/ StopAt(r) <= Len(r.queue)
         /\ r.out <= SendWindow => StopAt(r) <= SendWindow
<1> DEFINE S == {i \in r.out .. r.out + Len(r.queue) :
                   i >= SendWindow \/ i >= Len(r.queue) \/ r.queue[i + 1].id > 0}
<1>1. r.out \in Nat /\ Len(r.queue) \in Nat /\ r.out <= CountMax
  BY SizeAssumption DEF SubRequester
<1>2. r.out + Len(r.queue) \in S
  BY <1>1
<1>3. S \subseteq Nat
  BY <1>1
<1>4. Min(S) \in S /\ \A y \in S : Min(S) <= y
  <2> HIDE DEF S
  <2> QED BY <1>2, <1>3, MinExists
<1>5. StopAt(r) = Min(S)
  BY DEF StopAt
<1>6. StopAt(r) \in Nat /\ r.out <= StopAt(r)
  BY <1>1, <1>3, <1>4, <1>5
<1>7. StopAt(r) = r.out \/ StopAt(r) <= Len(r.queue)
  <2>1. Len(r.queue) >= r.out => Len(r.queue) \in S
    BY <1>1
  <2>2. Len(r.queue) < r.out => r.out \in S
    BY <1>1
  <2> HIDE DEF S
  <2> QED BY <1>1, <1>4, <1>5, <1>6, <2>1, <2>2
<1>8. r.out <= SendWindow => StopAt(r) <= SendWindow
  <2>1. SendWindow \in r.out .. r.out + Len(r.queue) => SendWindow \in S
    BY <1>1, SizeAssumption
  <2> HIDE DEF S
  <2> QED BY <1>1, <1>2, <1>4, <1>5, <1>6, <2>1, SizeAssumption
<1>9. ~(r.out <= SendWindow) => StopAt(r) = r.out
  <2>1. ~(r.out <= SendWindow) => r.out \in S
    BY <1>1, SizeAssumption
  <2> HIDE DEF S
  <2> QED BY <1>1, <1>4, <1>5, <1>6, <2>1
<1> HIDE DEF S
<1> QED BY <1>1, <1>6, <1>7, <1>8, <1>9, SizeAssumption

LEMMA PoppedBounds ==
  ASSUME NEW r \in SubRequester, NEW id
  PROVE  Popped(r, id) \in 0..Len(r.queue)
<1> DEFINE S == {i \in 0..Len(r.queue) :
                   i = Len(r.queue) \/ r.queue[i + 1].id = 0 \/ r.queue[i + 1].id > id}
<1>1. Len(r.queue) \in Nat
  BY DEF SubRequester
<1>2. Len(r.queue) \in S /\ S \subseteq Nat
  BY <1>1
<1>3. Min(S) \in S
  <2> HIDE DEF S
  <2> QED BY <1>2, MinExists
<1> QED BY <1>3 DEF Popped

-----------------------------------------------------------------------------
(***************************************************************************)
(* The functions of subscription.c keep the types and the subscription's   *)
(* sid.                                                                    *)
(***************************************************************************)
LEMMA FunctionIsSeq ==
  ASSUME NEW S, NEW n \in Nat, NEW f \in [1..n -> S]
  PROVE  f \in Seq(S) /\ Len(f) = n /\ DOMAIN f = 1..n
OBVIOUS

\* The fields of a DeliveryState.
LEMMA DeliveryFields ==
  ASSUME NEW st \in DeliveryState
  PROVE  /\ st.r \in SubRequester /\ st.w \in Seq(Message) /\ Len(st.w) \in Nat
         /\ st.d \in Seq(Nat) \cup {NoRecord} /\ st.f \in Files
         /\ st.r.sid \in Sids \cup {Unset} /\ st.r.qos \in 0..3 /\ st.r.out \in Nat
         /\ st.r.out <= CountMax
         /\ st.r.queue \in Seq(QueuedMessage) /\ Len(st.r.queue) \in Nat
         /\ st.r.pend \in SUBSET Nat /\ st.r.qosQueue \in Seq(Nat)
BY SizeAssumption DEF DeliveryState, SubRequester

LEMMA UpdateType ==
  ASSUME NEW p \in Paths, NEW s \in Sids \cup {Unset}, NEW vs \in Seq(Nat)
  PROVE  Update(p, s, vs) \in Message
BY DEF Update, Message

LEMMA ClosedResponseType == ClosedResponse \in Message
BY DEF Update, Message, ClosedResponse

LEMMA SendMessageType ==
  ASSUME NEW p \in Paths, NEW st \in DeliveryState, NEW v \in Nat
  PROVE  /\ SendMessage(p, st, v) \in DeliveryState
         /\ SendMessage(p, st, v).r.sid = st.r.sid
<1>1. <<v>> \in Seq(Nat)
  OBVIOUS
<1>2. Update(p, st.r.sid, <<v>>) \in Message
  BY <1>1, UpdateType, DeliveryFields
<1>3. Append(st.w, Update(p, st.r.sid, <<v>>)) \in Seq(Message)
  BY <1>2, DeliveryFields
<1>4. (IF st.r.out = CountMax THEN 0 ELSE st.r.out + 1) \in 0..CountMax
  BY DeliveryFields, SizeAssumption
<1>5. st.r.pend \cup {Len(st.w) + 1} \in SUBSET Nat
  BY DeliveryFields
<1>6. [st.r EXCEPT !.out = IF @ = CountMax THEN 0 ELSE @ + 1,
                   !.pend = @ \cup {Len(st.w) + 1}] \in SubRequester
  BY <1>4, <1>5, DeliveryFields DEF SubRequester
<1>7. [st.r EXCEPT !.out = IF @ = CountMax THEN 0 ELSE @ + 1,
                   !.pend = @ \cup {Len(st.w) + 1}].sid = st.r.sid
  BY DeliveryFields DEF SubRequester
<1> QED
  BY <1>3, <1>6, <1>7, DeliveryFields DEF SendMessage, DeliveryState

LEMMA AddToMessageQueueType ==
  ASSUME NEW r \in SubRequester, NEW v \in Nat
  PROVE  /\ AddToMessageQueue(r, v) \in SubRequester
         /\ AddToMessageQueue(r, v).sid = r.sid
         /\ AddToMessageQueue(r, v).out = r.out
         /\ AddToMessageQueue(r, v).pend = r.pend
         /\ AddToMessageQueue(r, v).qos = r.qos
         /\ AddToMessageQueue(r, v).hasQueue
<1> DEFINE rest == IF Len(r.queue) = QueueSize THEN Tail(r.queue) ELSE r.queue
<1>1. rest \in Seq(QueuedMessage)
  <2>1. CASE Len(r.queue) = QueueSize
    <3>1. r.queue # <<>>
      BY <2>1, SizeAssumption DEF SubRequester
    <3> QED BY <2>1, <3>1 DEF SubRequester
  <2> QED BY <2>1 DEF SubRequester
<1>2. Append(rest, [val |-> v, id |-> 0]) \in Seq(QueuedMessage)
  BY <1>1 DEF QueuedMessage
<1> QED
  BY <1>2 DEF AddToMessageQueue, SubRequester

LEMMA SentUpdatesType ==
  ASSUME NEW p \in Paths, NEW r \in SubRequester,
         NEW n \in Nat, r.out <= n, n = r.out \/ n <= Len(r.queue)
  PROVE  /\ SentUpdates(p, r, n) \in Seq(Message)
         /\ Len(SentUpdates(p, r, n)) = n - r.out
<1>1. /\ r.out \in Nat /\ r.sid \in Sids \cup {Unset}
      /\ r.queue \in Seq(QueuedMessage) /\ n - r.out \in Nat
  BY SizeAssumption DEF SubRequester
<1>2. ASSUME NEW j \in 1 .. n - r.out
      PROVE  Update(p, r.sid, <<r.queue[r.out + j].val>>) \in Message
  <2>0. r.out + j \in 1 .. Len(r.queue)
    <3>1. /\ r.out \in Nat /\ Len(r.queue) \in Nat /\ n \in Nat
          /\ n = r.out \/ n <= Len(r.queue)
          /\ j \in 1 .. n - r.out
      BY <1>1
    <3> QED BY ONLY <3>1
  <2>1. r.queue[r.out + j] \in QueuedMessage
    BY <1>1, <2>0
  <2>2. <<r.queue[r.out + j].val>> \in Seq(Nat)
    BY <2>1 DEF QueuedMessage
  <2> QED BY <1>1, <2>2, UpdateType
<1>3. SentUpdates(p, r, n) \in [1 .. n - r.out -> Message]
  BY <1>2 DEF SentUpdates
<1> QED BY <1>1, <1>3, FunctionIsSeq

LEMMA MarkSentType ==
  ASSUME NEW r \in SubRequester, NEW n \in Nat, NEW m \in Nat
  PROVE  MarkSent(r, n, m) \in Seq(QueuedMessage) /\ Len(MarkSent(r, n, m)) = Len(r.queue)
<1>1. /\ r.out \in Nat /\ r.queue \in Seq(QueuedMessage) /\ Len(r.queue) \in Nat
      /\ DOMAIN r.queue = 1 .. Len(r.queue)
  BY SizeAssumption DEF SubRequester
<1>2. ASSUME NEW i \in 1 .. Len(r.queue)
      PROVE  (IF i \in r.out + 1 .. n THEN [r.queue[i] EXCEPT !.id = m + i - r.out]
              ELSE r.queue[i]) \in QueuedMessage
  <2>1. r.queue[i] \in QueuedMessage
    BY <1>1
  <2>2. i \in r.out + 1 .. n => m + i - r.out \in Nat
    BY <1>1
  <2> QED BY <2>1, <2>2 DEF QueuedMessage
<1>3. MarkSent(r, n, m) \in [1 .. Len(r.queue) -> QueuedMessage]
  BY <1>1, <1>2 DEF MarkSent
<1> QED BY <1>1, <1>3, FunctionIsSeq

LEMMA SendQueuedType ==
  ASSUME NEW p \in Paths, NEW st \in DeliveryState, NEW up \in BOOLEAN
  PROVE  LET t == SendQueued(p, st, up) IN
         /\ t \in DeliveryState
         /\ t.r.sid = st.r.sid /\ t.r.qos = st.r.qos /\ t.r.hasQueue = st.r.hasQueue
         /\ t.d = st.d /\ t.f = st.f
         /\ st.r.out <= t.r.out
         /\ st.r.out <= SendWindow => t.r.out <= SendWindow
         /\ Len(t.w) = Len(st.w) + t.r.out - st.r.out
         /\ t.r.pend = st.r.pend \cup (Len(st.w) + 1 .. Len(t.w))
         /\ st.r.queue = <<>> => t.r.queue = <<>> /\ t.r.out = st.r.out
<1> DEFINE n == IF up /\ st.r.sid # Unset THEN StopAt(st.r) ELSE st.r.out
           m == Len(st.w)
           more == m + 1 .. m + n - st.r.out
           r2 == [st.r EXCEPT !.out = n, !.pend = @ \cup more,
                              !.queue = MarkSent(st.r, n, m)]
           w2 == st.w \o SentUpdates(p, st.r, n)
<1>1. /\ n \in 0..CountMax /\ n \in Nat
      /\ st.r.out <= n
      /\ n = st.r.out \/ n <= Len(st.r.queue)
      /\ st.r.out <= SendWindow => n <= SendWindow
  BY DeliveryFields, StopAtBounds, SizeAssumption
<1>2. m \in Nat /\ n - st.r.out \in Nat /\ more \subseteq Nat
  BY <1>1, DeliveryFields
<1> HIDE DEF n, m, more
<1>3. /\ MarkSent(st.r, n, m) \in Seq(QueuedMessage)
      /\ Len(MarkSent(st.r, n, m)) = Len(st.r.queue)
  BY <1>1, <1>2, MarkSentType, DeliveryFields
<1>4. SentUpdates(p, st.r, n) \in Seq(Message) /\ Len(SentUpdates(p, st.r, n)) = n - st.r.out
  BY <1>1, SentUpdatesType, DeliveryFields
<1>5. w2 \in Seq(Message) /\ Len(w2) = Len(st.w) + n - st.r.out
  <2>1. st.w \in Seq(Message) /\ Len(st.w) \in Nat /\ n \in Nat /\ st.r.out \in Nat
    BY <1>1, DeliveryFields
  <2>2. /\ st.w \o SentUpdates(p, st.r, n) \in Seq(Message)
        /\ Len(st.w \o SentUpdates(p, st.r, n)) = Len(st.w) + Len(SentUpdates(p, st.r, n))
    BY <1>4, <2>1, ConcatProperties
  <2> QED BY ONLY <1>4, <2>1, <2>2 DEF w2
<1>6. /\ r2 \in SubRequester
      /\ r2.sid = st.r.sid /\ r2.qos = st.r.qos /\ r2.hasQueue = st.r.hasQueue
      /\ r2.out = n /\ r2.pend = st.r.pend \cup more /\ r2.queue = MarkSent(st.r, n, m)
  BY <1>1, <1>2, <1>3, DeliveryFields DEF SubRequester
<1> HIDE DEF r2, w2
<1>7. SendQueued(p, st, up) = [r |-> r2, w |-> w2, d |-> st.d, f |-> st.f]
  BY DEF SendQueued, r2, w2, n, m, more
<1>8. more = Len(st.w) + 1 .. Len(w2)
  BY <1>5 DEF more, m
<1>9. [r |-> r2, w |-> w2, d |-> st.d, f |-> st.f] \in DeliveryState
  BY <1>5, <1>6, DeliveryFields DEF DeliveryState
<1>10. st.r.queue = <<>> => r2.queue = <<>> /\ r2.out = st.r.out
  BY <1>1, <1>3, <1>6, DeliveryFields
<1> QED BY <1>1, <1>5, <1>6, <1>7, <1>8, <1>9, <1>10

LEMMA WithType ==
  ASSUME NEW st \in DeliveryState, NEW r \in SubRequester
  PROVE  /\ With(st, r) \in DeliveryState
         /\ With(st, r).r = r /\ With(st, r).w = st.w /\ With(st, r).d = st.d
         /\ With(st, r).f = st.f
BY DeliveryFields DEF With, DeliveryState

\* A file after a save has begun, and after an unlink.
LEMMA FileTypes ==
  ASSUME NEW f \in Files
  PROVE  /\ \A d \in Seq(Nat) : SaveBegun(f, d) \in Files
         /\ FileUnlinked(f) \in Files
BY DEF Files, SaveBegun, FileUnlinked

LEMMA SerializeType ==
  ASSUME NEW st \in DeliveryState
  PROVE  /\ Serialize(st) \in DeliveryState
         /\ Serialize(st).r = st.r /\ Serialize(st).w = st.w
<1>1. st.r.qosQueue \in Seq(Nat) /\ SaveBegun(st.f, st.r.qosQueue) \in Files
  BY DeliveryFields, FileTypes
<1> QED BY <1>1, DeliveryFields DEF Serialize, DeliveryState

LEMMA ClearQosQueueType ==
  ASSUME NEW st \in DeliveryState
  PROVE  /\ ClearQosQueue(st) \in DeliveryState
         /\ ClearQosQueue(st).r.sid = st.r.sid
<1>1. <<>> \in Seq(Nat)
  OBVIOUS
<1>2. /\ [st.r EXCEPT !.qosQueue = <<>>] \in SubRequester
      /\ [st.r EXCEPT !.qosQueue = <<>>].sid = st.r.sid
  BY <1>1, DeliveryFields DEF SubRequester
<1> DEFINE c == With(st, [st.r EXCEPT !.qosQueue = <<>>])
<1>3. c \in DeliveryState /\ c.r.sid = st.r.sid
  BY <1>2, WithType
<1>4. ClearQosQueue(st) = IF st.r.qos > 2 THEN Serialize(c) ELSE c
  BY DEF ClearQosQueue
<1> HIDE DEF c
<1>5. Serialize(c) \in DeliveryState /\ Serialize(c).r.sid = st.r.sid
  BY <1>3, SerializeType
<1> QED
  BY <1>3, <1>4, <1>5

LEMMA AppendToQosQueueType ==
  ASSUME NEW st \in DeliveryState, NEW v \in Nat
  PROVE  /\ AppendToQosQueue(st, v) \in DeliveryState
         /\ AppendToQosQueue(st, v).r.sid = st.r.sid
<1>1. Append(st.r.qosQueue, v) \in Seq(Nat)
  BY DeliveryFields
<1> DEFINE r2 == [st.r EXCEPT !.qosQueue = Append(@, v)]
<1>2. r2 \in SubRequester /\ r2.sid = st.r.sid
  BY <1>1, DeliveryFields DEF SubRequester
<1>3. AppendToQosQueue(st, v) =
        IF Len(st.r.qosQueue) >= QueueSize THEN ClearQosQueue(st) ELSE Serialize(With(st, r2))
  BY DEF AppendToQosQueue
<1> HIDE DEF r2
<1> QED
  BY <1>2, <1>3, WithType, SerializeType, ClearQosQueueType

LEMMA UpdateSubReqType ==
  ASSUME NEW p \in Paths, NEW st \in DeliveryState, NEW v \in Nat, NEW up \in BOOLEAN
  PROVE  /\ UpdateSubReq(p, st, v, up) \in DeliveryState
         /\ UpdateSubReq(p, st, v, up).r.sid = st.r.sid
<1> DEFINE r1 == [st.r EXCEPT !.owed = @ \cup {v}]
           o  == With(st, r1)
           o2 == With(o, AddToMessageQueue(o.r, v))
<1>1. r1 \in SubRequester /\ r1.sid = st.r.sid
  BY DeliveryFields DEF SubRequester
<1> HIDE DEF r1
<1>2. o \in DeliveryState /\ o.r = r1
  BY <1>1, WithType
<1> HIDE DEF o
<1>3. o2 \in DeliveryState /\ o2.r.sid = st.r.sid
  <2>1. AddToMessageQueue(r1, v) \in SubRequester /\ AddToMessageQueue(r1, v).sid = r1.sid
    BY <1>1, AddToMessageQueueType
  <2> QED BY <1>1, <1>2, <2>1, WithType
<1> HIDE DEF o2
<1>4. UpdateSubReq(p, st, v, up) = IF st.r.qos <= 2 THEN SendQueued(p, o2, up)
                                   ELSE IF up THEN SendMessage(p, o, v)
                                   ELSE AppendToQosQueue(o, v)
  BY DEF UpdateSubReq, o, o2, r1
<1>5. SendQueued(p, o2, up) \in DeliveryState /\ SendQueued(p, o2, up).r.sid = st.r.sid
  BY <1>3, SendQueuedType
<1>6. SendMessage(p, o, v) \in DeliveryState /\ SendMessage(p, o, v).r.sid = st.r.sid
  BY <1>1, <1>2, SendMessageType
<1>7. AppendToQosQueue(o, v) \in DeliveryState /\ AppendToQosQueue(o, v).r.sid = st.r.sid
  BY <1>1, <1>2, AppendToQosQueueType
<1> QED BY <1>4, <1>5, <1>6, <1>7

LEMMA FlushQosQueueType ==
  ASSUME NEW p \in Paths, NEW st \in DeliveryState
  PROVE  /\ FlushQosQueue(p, st) \in DeliveryState
         /\ FlushQosQueue(p, st).r.sid = st.r.sid
<1> DEFINE w2 == Append(st.w, Update(p, st.r.sid, st.r.qosQueue))
<1>1. w2 \in Seq(Message)
  <2>1. Update(p, st.r.sid, st.r.qosQueue) \in Message
    BY UpdateType, DeliveryFields
  <2> QED BY <2>1, DeliveryFields
<1> HIDE DEF w2
<1>2. [r |-> st.r, w |-> w2, d |-> st.d, f |-> st.f] \in DeliveryState
  BY <1>1, DeliveryFields DEF DeliveryState
<1> QED BY <1>2, ClearQosQueueType DEF FlushQosQueue, w2

LEMMA UpdateSubQosType ==
  ASSUME NEW st \in DeliveryState, NEW q \in 0..3
  PROVE  /\ UpdateSubQos(st, q) \in DeliveryState
         /\ UpdateSubQos(st, q).r = [st.r EXCEPT !.qos = q]
         /\ UpdateSubQos(st, q).w = st.w
<1> DEFINE c == With(st, [st.r EXCEPT !.qos = q])
<1>1. [st.r EXCEPT !.qos = q] \in SubRequester
  BY DeliveryFields DEF SubRequester
<1>2. c \in DeliveryState /\ c.r = [st.r EXCEPT !.qos = q] /\ c.w = st.w
  BY <1>1, WithType
<1> HIDE DEF c
<1> DEFINE n == [c EXCEPT !.d = NoRecord, !.f = FileUnlinked(@)]
<1>3. n \in DeliveryState /\ n.r = c.r /\ n.w = c.w
  BY <1>2, DeliveryFields, FileTypes DEF DeliveryState
<1> QED BY <1>2, <1>3, SerializeType DEF UpdateSubQos, c

LEMMA ClearMessageIdsType ==
  ASSUME NEW r \in SubRequester
  PROVE  ClearMessageIds(r) \in SubRequester
<1>1. /\ r.queue \in Seq(QueuedMessage) /\ Len(r.queue) \in Nat
      /\ DOMAIN r.queue = 1 .. Len(r.queue)
  BY DEF SubRequester
<1> DEFINE q == [i \in DOMAIN r.queue |->
                   IF i <= r.out THEN [r.queue[i] EXCEPT !.id = 0] ELSE r.queue[i]]
<1>2. ASSUME NEW i \in 1 .. Len(r.queue)
      PROVE  (IF i <= r.out THEN [r.queue[i] EXCEPT !.id = 0] ELSE r.queue[i]) \in QueuedMessage
  <2>1. r.queue[i] \in QueuedMessage
    BY <1>1
  <2> QED BY <2>1 DEF QueuedMessage
<1>3. q \in Seq(QueuedMessage)
  <2>1. q \in [1 .. Len(r.queue) -> QueuedMessage]
    BY <1>1, <1>2
  <2> HIDE DEF q
  <2> QED BY <1>1, <2>1, FunctionIsSeq
<1> DEFINE q2 == IF r.out > Len(r.queue) THEN r.queue ELSE q
<1>4. q2 \in Seq(QueuedMessage)
  BY <1>1, <1>3
<1>5. ClearMessageIds(r) = [r EXCEPT !.out = 0, !.queue = q2]
  BY DEF ClearMessageIds
<1> HIDE DEF q2
<1>6. 0 \in 0..CountMax
  BY SizeAssumption
<1> QED BY <1>4, <1>5, <1>6 DEF SubRequester

LEMMA AckOneType ==
  ASSUME NEW p \in Paths, NEW st \in DeliveryState, NEW id
  PROVE  /\ AckOne(p, st, id) \in DeliveryState
         /\ AckOne(p, st, id).r.sid = st.r.sid
<1> DEFINE k  == Popped(st.r, id)
           n  == IF st.r.out = 0 THEN CountMax ELSE st.r.out - 1
           q  == SubSeq(st.r.queue, k + 1, Len(st.r.queue))
           r2 == [st.r EXCEPT !.pend = @ \ {id}, !.out = n, !.queue = q]
<1>1. k \in 0..Len(st.r.queue)
  BY PoppedBounds, DeliveryFields
<1>2. q \in Seq(QueuedMessage)
  <2> HIDE DEF k
  <2> QED BY <1>1, DeliveryFields
<1>3. n \in 0..CountMax
  BY DeliveryFields, SizeAssumption
<1> HIDE DEF k, n, q
<1>4. r2 \in SubRequester /\ r2.sid = st.r.sid
  BY <1>2, <1>3, DeliveryFields DEF SubRequester
<1>5. AckOne(p, st, id) = IF k > 0 THEN SendQueued(p, With(st, r2), TRUE) ELSE With(st, r2)
  BY DEF AckOne, k, n, q
<1> HIDE DEF r2
<1>6. With(st, r2) \in DeliveryState /\ With(st, r2).r.sid = st.r.sid
  BY <1>4, WithType
<1>7. /\ SendQueued(p, With(st, r2), TRUE) \in DeliveryState
      /\ SendQueued(p, With(st, r2), TRUE).r.sid = st.r.sid
  BY <1>6, SendQueuedType
<1> QED BY <1>5, <1>6, <1>7

LEMMA BlankType == Blank \in SubRequester
<1>1. /\ 0 \in 0..CountMax /\ <<>> \in Seq(QueuedMessage) /\ <<>> \in Seq(Nat)
      /\ {} \in SUBSET Nat
  BY SizeAssumption
<1> QED BY <1>1 DEF Blank, SubRequester

LEMMA CreateType ==
  ASSUME NEW s \in Sids, NEW q \in 0..3, NEW stored \in Seq(Nat), NEW block \in SUBSET Nat
  PROVE  /\ Create(s, q, stored, block) \in SubRequester
         /\ Create(s, q, stored, block).sid = s
         /\ Create(s, q, stored, block).qos = q
<1> DEFINE h == {stored[i] : i \in DOMAIN stored}
<1>1. h \in SUBSET Nat
  OBVIOUS
<1>2. Create(s, q, stored, block) =
        [Blank EXCEPT !.sid = s, !.qos = q, !.qosQueue = stored, !.pend = block, !.owed = h]
  BY Zenon DEF Create
<1>3. /\ 0 \in 0..CountMax /\ <<>> \in Seq(QueuedMessage) /\ {} \in SUBSET Nat
      /\ s \in Sids \cup {Unset}
  BY SizeAssumption
<1> HIDE DEF h
<1> QED BY <1>1, <1>2, <1>3 DEF SubRequester, Blank

LEMMA AddNewType ==
  ASSUME NEW p \in Paths, NEW st \in DeliveryState, NEW v \in Nat, NEW up \in BOOLEAN
  PROVE  /\ AddNew(p, st, v, up) \in DeliveryState
         /\ AddNew(p, st, v, up).r.sid = st.r.sid
BY UpdateSubReqType DEF AddNew

-----------------------------------------------------------------------------
(***************************************************************************)
(* What the handlers do to the broker's state.                             *)
(***************************************************************************)
LEMMA StateType ==
  ASSUME TypeOK, NEW p \in Paths
  PROVE  /\ State(p) \in DeliveryState /\ State(p).r = sub[p]
         /\ Answered(p) \in DeliveryState /\ Answered(p).r = sub[p]
<1>1. /\ sub[p] \in SubRequester /\ wire \in Seq(Message)
      /\ store[p] \in Seq(Nat) \cup {NoRecord} /\ file[p] \in Files
  BY DEF TypeOK
<1>2. Append(wire, ClosedResponse) \in Seq(Message)
  BY <1>1, ClosedResponseType
<1> QED BY <1>1, <1>2 DEF State, Answered, DeliveryState

LEMMA FileAfterFreeType ==
  ASSUME TypeOK, NEW x \in Paths
  PROVE  FileAfterFree(x) \in Files
<1>1. file[x] \in Files /\ <<>> \in Seq(Nat)
  BY DEF TypeOK
<1>2. FileUnlinked(file[x]) \in Files
  BY <1>1, FileTypes
<1>3. SaveBegun(FileUnlinked(file[x]), <<>>) \in Files
  BY <1>1, <1>2, FileTypes
<1> QED BY <1>1, <1>3 DEF FileAfterFree

LEMMA FreeAndSetType ==
  ASSUME TypeOK, NEW o, NEW p \in Paths, NEW st \in DeliveryState, FreeAndSet(o, p, st)
  PROVE  /\ sub' \in [Paths -> SubRequester]
         /\ store' \in [Paths -> Seq(Nat) \cup {NoRecord}]
         /\ file' \in [Paths -> Files]
         /\ wire' \in Seq(Message)
         /\ sub'[p] = st.r
         /\ \A x \in Paths \ {p} : sub'[x] = IF x = o THEN Blank ELSE sub[x]
<1>1. /\ sub \in [Paths -> SubRequester]
      /\ store \in [Paths -> Seq(Nat) \cup {NoRecord}]
      /\ file \in [Paths -> Files]
  BY DEF TypeOK
<1>2. /\ st.r \in SubRequester /\ st.w \in Seq(Message) /\ st.d \in Seq(Nat) \cup {NoRecord}
      /\ st.f \in Files
  BY DeliveryFields
<1>3. \A x \in Paths : /\ RecordAfterFree(x) \in Seq(Nat) \cup {NoRecord}
                       /\ FileAfterFree(x) \in Files
  BY <1>1, FileAfterFreeType DEF RecordAfterFree
<1>4. /\ sub' = [x \in Paths |-> IF x = p THEN st.r ELSE IF x = o THEN Blank ELSE sub[x]]
      /\ store' = [x \in Paths |-> IF x = p THEN st.d
                                  ELSE IF x = o THEN RecordAfterFree(x) ELSE store[x]]
      /\ file' = [x \in Paths |-> IF x = p THEN st.f
                                  ELSE IF x = o THEN FileAfterFree(x) ELSE file[x]]
      /\ wire' = st.w
  BY DEF FreeAndSet
<1> QED BY <1>1, <1>2, <1>3, <1>4, BlankType

LEMMA SetStateSub ==
  ASSUME TypeOK, NEW p \in Paths, NEW st \in DeliveryState, FreeAndSet(NoPath, p, st)
  PROVE  sub'[p] = st.r /\ \A x \in Paths \ {p} : sub'[x] = sub[x]
<1>1. /\ sub'[p] = st.r
      /\ \A x \in Paths \ {p} : sub'[x] = IF x = NoPath THEN Blank ELSE sub[x]
  BY FreeAndSetType
<1> QED BY <1>1, PathAssumption

\* The sid table and the pendingAcks blocks after a subscription is freed.
LEMMA FreeType ==
  ASSUME TypeOK, NEW s \in Sids
  PROVE  /\ SidsWithout(sids[s]) \in [Sids -> Paths \cup {NoPath}]
         /\ FreedWith(sids[s]) \subseteq SUBSET Nat
<1> DEFINE o == sids[s]
<1>1. o \in Paths \cup {NoPath} /\ (o # NoPath => sub[o] \in SubRequester)
  BY DEF TypeOK
<1> HIDE DEF o
<1>2. o # NoPath => sub[o].pend \in SUBSET Nat
  BY <1>1 DEF SubRequester
<1>3. SidsWithout(o) \in [Sids -> Paths \cup {NoPath}]
  BY <1>1 DEF TypeOK, SidsWithout
<1>4. FreedWith(o) \subseteq SUBSET Nat
  BY <1>2 DEF TypeOK, FreedWith
<1> QED BY <1>3, <1>4 DEF o

\* What Resubscribe puts in place of the subscription it found.
LEMMA ResubscribedType ==
  ASSUME TypeOK, NEW p \in Paths, NEW s \in Sids, NEW q \in QosLevels
  PROVE  LET st == UpdateSubQos(With(Answered(p), [sub[p] EXCEPT !.sid = s]), q)
         IN  /\ st \in DeliveryState /\ st.r.sid = s
             /\ FlushQosQueue(p, st) \in DeliveryState /\ FlushQosQueue(p, st).r.sid = s
             /\ SendQueued(p, st, TRUE) \in DeliveryState /\ SendQueued(p, st, TRUE).r.sid = s
             /\ UpdateSubReq(p, st, value[p], TRUE) \in DeliveryState
             /\ UpdateSubReq(p, st, value[p], TRUE).r.sid = s
<1> DEFINE r1 == [sub[p] EXCEPT !.sid = s]
           a  == With(Answered(p), r1)
           st == UpdateSubQos(a, q)
<1>1. r1 \in SubRequester /\ r1.sid = s
  <2>1. sub[p] \in SubRequester
    BY DEF TypeOK
  <2> QED BY <2>1 DEF SubRequester
<1> HIDE DEF r1
<1>2. a \in DeliveryState /\ a.r = r1
  BY <1>1, StateType, WithType
<1> HIDE DEF a
<1>3. q \in 0..3
  BY QosAssumption
<1>4. st \in DeliveryState /\ st.r = [a.r EXCEPT !.qos = q]
  BY <1>2, <1>3, UpdateSubQosType
<1> HIDE DEF st
<1>5. st.r.sid = s
  BY <1>1, <1>2, <1>4 DEF SubRequester
<1>6. value[p] \in Nat
  BY DEF TypeOK
<1>7. SendQueued(p, st, TRUE) \in DeliveryState /\ SendQueued(p, st, TRUE).r.sid = s
  BY <1>4, <1>5, SendQueuedType
<1>8. QED
  BY <1>4, <1>5, <1>6, <1>7, FlushQosQueueType, UpdateSubReqType DEF st, a, r1

\* The new SubRequester of SubscribeNew, and of a stored record at a restart.
LEMMA AddedType ==
  ASSUME TypeOK, NEW p \in Paths, NEW s \in Sids, NEW q \in QosLevels, NEW block \in SUBSET Nat
  PROVE  LET ok == With(Answered(p), Create(s, q, <<>>, block))
             st == AddNew(p, IF q > 2 THEN Serialize(ok) ELSE ok, value[p], TRUE)
         IN  st \in DeliveryState /\ st.r.sid = s
<1> DEFINE c  == Create(s, q, <<>>, block)
           ok == With(Answered(p), c)
<1>1. c \in SubRequester /\ c.sid = s
  <2> DEFINE none == <<>>
  <2>1. q \in 0..3 /\ none \in Seq(Nat)
    BY QosAssumption
  <2> HIDE DEF none
  <2>2. /\ Create(s, q, none, block) \in SubRequester
        /\ Create(s, q, none, block).sid = s
    BY <2>1, CreateType
  <2> QED BY <2>2 DEF c, none
<1> HIDE DEF c
<1>2. ok \in DeliveryState /\ ok.r.sid = s
  BY <1>1, StateType, WithType
<1> HIDE DEF ok
<1>3. value[p] \in Nat
  BY DEF TypeOK
<1>4. (IF q > 2 THEN Serialize(ok) ELSE ok) \in DeliveryState
      /\ (IF q > 2 THEN Serialize(ok) ELSE ok).r.sid = s
  BY <1>2, SerializeType
<1> QED BY <1>3, <1>4, AddNewType DEF ok, c

\* What a restart finds is a record, nothing, or what does not parse.
LEMMA FoundType ==
  ASSUME TypeOK, NEW found \in FoundFiles, NEW p \in Paths
  PROVE  found[p] \in file[p] /\ found[p] \in Seq(Nat) \cup {NoRecord, Torn}
<1>1. found[p] \in file[p] /\ file[p] \in Files
  BY DEF FoundFiles, TypeOK
<1> QED BY <1>1 DEF Files

LEMMA LoadedType ==
  ASSUME TypeOK, NEW p \in Paths, NEW found \in FoundFiles,
         found[p] \notin {NoRecord, Torn}, NEW n \in Nat
  PROVE  LET st == AddNew(p, [r |-> Create(0, 3, found[p], {}), w |-> <<>>, d |-> found[p],
                              f |-> {found[p]}], n, FALSE)
         IN  st \in DeliveryState /\ st.r.sid = 0
<1>1. found[p] \in Seq(Nat) /\ {found[p]} \in Files /\ 0 \in Sids /\ {} \in SUBSET Nat /\ 3 \in 0..3
  BY SidAssumption, FoundType DEF Files
<1> DEFINE c == Create(0, 3, found[p], {})
<1>2. c \in SubRequester /\ c.sid = 0
  BY <1>1, CreateType
<1> HIDE DEF c
<1>3. [r |-> c, w |-> <<>>, d |-> found[p], f |-> {found[p]}] \in DeliveryState
  BY <1>1, <1>2 DEF DeliveryState
<1> QED BY <1>2, <1>3, AddNewType DEF c

LEMMA InitType == Init => TypeOK
<1> SUFFICES ASSUME Init PROVE TypeOK
  OBVIOUS
<1>1. sub \in [Paths -> SubRequester] /\ \A p \in Paths \ live : sub[p] = Blank
  BY BlankType DEF Init
<1>2. wire \in Seq(Message) /\ freed \subseteq SUBSET Nat
  BY DEF Init
<1>3. /\ sids \in [Sids -> Paths \cup {NoPath}]
      /\ store \in [Paths -> Seq(Nat) \cup {NoRecord}]
      /\ file \in [Paths -> Files]
      /\ value \in [Paths -> Nat] /\ written \in [Paths -> Nat]
  BY DEF Init, Files
<1> QED BY <1>1, <1>2, <1>3 DEF Init, TypeOK

LEMMA PublishType ==
  ASSUME TypeOK, NEW p \in Paths, Publish(p)
  PROVE  TypeOK'
<1>1. /\ written[p] + 1 \in Nat
      /\ written' = [written EXCEPT ![p] = @ + 1]
      /\ value' = [value EXCEPT ![p] = written[p] + 1]
      /\ value'[p] \in Nat
  BY DEF Publish, TypeOK
<1>2. value' \in [Paths -> Nat] /\ written' \in [Paths -> Nat]
  BY <1>1 DEF TypeOK
<1>3. UNCHANGED <<link, live, sids, freed, acked, ackUpTo>>
  BY DEF Publish
<1>4. CASE p \in live
  <2> DEFINE st == UpdateSubReq(p, State(p), value'[p], link)
  <2>1. FreeAndSet(NoPath, p, st)
    BY <1>4 DEF Publish, SetState
  <2>2. st \in DeliveryState
    BY <1>1, StateType, UpdateSubReqType DEF TypeOK
  <2> HIDE DEF st
  <2>3. /\ sub' \in [Paths -> SubRequester]
        /\ store' \in [Paths -> Seq(Nat) \cup {NoRecord}]
        /\ file' \in [Paths -> Files]
        /\ wire' \in Seq(Message)
        /\ \A x \in Paths \ {p} : sub'[x] = IF x = NoPath THEN Blank ELSE sub[x]
    BY <2>1, <2>2, FreeAndSetType
  <2> QED BY <1>2, <1>3, <1>4, <2>3, PathAssumption DEF TypeOK
<1>5. CASE p \notin live
  BY <1>2, <1>3, <1>5 DEF TypeOK, Publish
<1> QED BY <1>4, <1>5

LEMMA SubscribeType ==
  ASSUME TypeOK, NEW p \in Paths, NEW s \in Sids, NEW q \in QosLevels, Subscribe(p, s, q)
  PROVE  TypeOK'
<1>1. CASE SubscribeSame(p, s, q)
  <2>1. UpdateSubQos(Answered(p), q) \in DeliveryState
    BY StateType, UpdateSubQosType, QosAssumption
  <2>2. FreeAndSet(NoPath, p, UpdateSubQos(Answered(p), q))
    BY <1>1 DEF SubscribeSame, SetState
  <2>3. /\ p \in live
        /\ UNCHANGED <<link, live, sids, freed, value, written, acked, ackUpTo>>
    BY <1>1 DEF SubscribeSame
  <2> HIDE DEF UpdateSubQos, Answered
  <2>4. /\ sub' \in [Paths -> SubRequester]
        /\ store' \in [Paths -> Seq(Nat) \cup {NoRecord}]
        /\ file' \in [Paths -> Files]
        /\ wire' \in Seq(Message)
        /\ \A x \in Paths \ {p} : sub'[x] = IF x = NoPath THEN Blank ELSE sub[x]
    BY <2>1, <2>2, FreeAndSetType
  <2> QED BY <2>3, <2>4, PathAssumption DEF TypeOK
<1>2. CASE Resubscribe(p, s, q)
  <2> DEFINE o  == sids[s]
  <2>1. /\ p \in live /\ o # p /\ live' = live \ {o}
        /\ sids' = [t \in Sids |-> IF t = s THEN p
                                   ELSE IF t = sub[p].sid THEN NoPath ELSE SidsWithout(o)[t]]
        /\ freed' = FreedWith(o)
        /\ UNCHANGED <<link, value, written, acked, ackUpTo>>
    BY <1>2 DEF Resubscribe, SidsMoved
  <2>2. PICK st \in DeliveryState : FreeAndSet(o, p, st)
    BY <1>2, ResubscribedType DEF Resubscribe
  <2>3. /\ sub' \in [Paths -> SubRequester]
        /\ store' \in [Paths -> Seq(Nat) \cup {NoRecord}]
        /\ file' \in [Paths -> Files]
        /\ wire' \in Seq(Message)
        /\ \A x \in Paths \ {p} : sub'[x] = IF x = o THEN Blank ELSE sub[x]
    BY <2>2, FreeAndSetType
  <2>4. /\ SidsWithout(o) \in [Sids -> Paths \cup {NoPath}]
        /\ FreedWith(o) \subseteq SUBSET Nat
    BY FreeType
  <2> HIDE DEF o
  <2>5. \A x \in Paths \ live' : sub'[x] = Blank
    BY <2>1, <2>3 DEF TypeOK
  <2>6. sids' \in [Sids -> Paths \cup {NoPath}]
    BY <2>1, <2>4
  <2> QED BY <2>1, <2>3, <2>4, <2>5, <2>6 DEF TypeOK
<1>3. ASSUME NEW block \in FreedWith(sids[s]) \cup {{}}, SubscribeNew(p, s, q, block)
      PROVE  TypeOK'
  <2> DEFINE o  == sids[s]
             ok == With(Answered(p), Create(s, q, <<>>, block))
             st == AddNew(p, IF q > 2 THEN Serialize(ok) ELSE ok, value[p], TRUE)
  <2>1. /\ p \notin live /\ live' = (live \ {o}) \cup {p}
        /\ sids' = [SidsWithout(o) EXCEPT ![s] = p]
        /\ freed' = FreedWith(o) \ {block}
        /\ FreeAndSet(o, p, st)
        /\ UNCHANGED <<link, value, written, acked, ackUpTo>>
    BY <1>3 DEF SubscribeNew
  <2>2. /\ SidsWithout(o) \in [Sids -> Paths \cup {NoPath}]
        /\ FreedWith(o) \subseteq SUBSET Nat
    BY FreeType
  <2>3. st \in DeliveryState
    <3>1. block \in SUBSET Nat
      BY <2>2
    <3> QED BY <3>1, AddedType
  <2> HIDE DEF st, ok, o
  <2>4. /\ sub' \in [Paths -> SubRequester]
        /\ store' \in [Paths -> Seq(Nat) \cup {NoRecord}]
        /\ file' \in [Paths -> Files]
        /\ wire' \in Seq(Message)
        /\ \A x \in Paths \ {p} : sub'[x] = IF x = o THEN Blank ELSE sub[x]
    BY <2>1, <2>3, FreeAndSetType
  <2>5. \A x \in Paths \ live' : sub'[x] = Blank
    BY <2>1, <2>4 DEF TypeOK
  <2>6. sids' \in [Sids -> Paths \cup {NoPath}]
    BY <2>1, <2>2
  <2> QED BY <2>1, <2>2, <2>4, <2>5, <2>6 DEF TypeOK
<1> QED BY <1>1, <1>2, <1>3 DEF Subscribe

LEMMA UnsubscribeType ==
  ASSUME TypeOK, NEW s \in Sids, Unsubscribe(s)
  PROVE  TypeOK'
<1> DEFINE o == sids[s]
<1>1. /\ live' = live \ {o}
      /\ sids' = [SidsWithout(o) EXCEPT ![s] = NoPath]
      /\ freed' = FreedWith(o)
      /\ sub' = [x \in Paths |-> IF x = o THEN Blank ELSE sub[x]]
      /\ store' = [x \in Paths |-> IF x = o THEN RecordAfterFree(x) ELSE store[x]]
      /\ file' = [x \in Paths |-> IF x = o THEN FileAfterFree(x) ELSE file[x]]
      /\ wire' = Append(wire, ClosedResponse)
      /\ UNCHANGED <<link, value, written, acked, ackUpTo>>
  BY DEF Unsubscribe
<1>2. /\ SidsWithout(o) \in [Sids -> Paths \cup {NoPath}]
      /\ FreedWith(o) \subseteq SUBSET Nat
  BY FreeType
<1> HIDE DEF o
<1>3. sids' \in [Sids -> Paths \cup {NoPath}]
  BY <1>1, <1>2
<1>4. store' \in [Paths -> Seq(Nat) \cup {NoRecord}]
  BY <1>1 DEF TypeOK, RecordAfterFree
<1>8. file' \in [Paths -> Files]
  <2>1. \A x \in Paths : file[x] \in Files /\ FileAfterFree(x) \in Files
    BY FileAfterFreeType DEF TypeOK
  <2> QED BY <1>1, <2>1
<1>5. wire' \in Seq(Message)
  BY <1>1, ClosedResponseType DEF TypeOK
<1>6. sub' \in [Paths -> SubRequester]
  BY <1>1, BlankType DEF TypeOK
<1>7. \A x \in Paths \ live' : sub'[x] = Blank
  BY <1>1 DEF TypeOK
<1> QED BY <1>1, <1>2, <1>3, <1>4, <1>5, <1>6, <1>7, <1>8 DEF TypeOK

LEMMA AckType ==
  ASSUME TypeOK, NEW n \in 1..Len(wire), Ack(n)
  PROVE  TypeOK'
<1>1. n \in Nat /\ n <= Len(wire) /\ acked \in Nat /\ wire \in Seq(Message)
  BY DEF TypeOK
<1>2. /\ acked' = n
      /\ sub' = [p \in Paths |->
                   IF p \in live
                     THEN [sub[p] EXCEPT !.got = @ \cup ValuesSent(wire, p, acked + 1, n)]
                     ELSE sub[p]]
      /\ ackUpTo' = IF Covered(n) = {} THEN 0 ELSE n
      /\ UNCHANGED <<link, live, sids, freed, store, file, value, written, wire>>
  BY DEF Ack
<1>3. ASSUME NEW p \in Paths PROVE ValuesSent(wire, p, acked + 1, n) \in SUBSET Nat
  <2>1. ASSUME NEW m \in acked + 1 .. n PROVE wire[m].vals \in Seq(Nat)
    <3>1. m \in 1..Len(wire)
      BY <1>1
    <3>2. wire[m] \in Message
      BY <1>1, <3>1
    <3> QED BY <3>2 DEF Message
  <2>2. ASSUME NEW m \in acked + 1 .. n, NEW x \in DOMAIN wire[m].vals
        PROVE  wire[m].vals[x] \in Nat
    BY <2>1
  <2> QED BY <2>2 DEF ValuesSent
<1>4. ASSUME NEW p \in Paths
      PROVE  [sub[p] EXCEPT !.got = @ \cup ValuesSent(wire, p, acked + 1, n)] \in SubRequester
  <2>1. sub[p] \in SubRequester /\ ValuesSent(wire, p, acked + 1, n) \in SUBSET Nat
    BY <1>3 DEF TypeOK
  <2> QED BY <2>1 DEF SubRequester
<1>5. /\ sub' \in [Paths -> SubRequester]
      /\ \A p \in Paths \ live : sub'[p] = sub[p]
  BY <1>2, <1>4 DEF TypeOK
<1> QED BY <1>1, <1>2, <1>5 DEF TypeOK

LEMMA AckStepType ==
  ASSUME TypeOK, AckStep
  PROVE  TypeOK'
<1> DEFINE id == Max(Covered(ackUpTo))
<1>1. /\ \/ \E p \in Paths :
              /\ id \in sub[p].pend
              /\ SetState(p, AckOne(p, State(p), id))
              /\ UNCHANGED freed
         \/ \E block \in freed :
              /\ id \in block
              /\ freed' = (freed \ {block}) \cup ({block \ {id}} \ {{}})
              /\ UNCHANGED <<sub, store, file, wire>>
      /\ ackUpTo' = IF Covered(ackUpTo) = {id} THEN 0 ELSE ackUpTo
      /\ UNCHANGED <<link, live, sids, value, written, acked>>
  BY DEF AckStep
<1> HIDE DEF id
<1>2. ackUpTo' \in Nat
  BY <1>1 DEF TypeOK
<1>3. ASSUME NEW p \in Paths, id \in sub[p].pend,
             SetState(p, AckOne(p, State(p), id)), UNCHANGED freed
      PROVE  TypeOK'
  <2>1. AckOne(p, State(p), id) \in DeliveryState
    BY StateType, AckOneType
  <2>2. FreeAndSet(NoPath, p, AckOne(p, State(p), id))
    BY <1>3 DEF SetState
  <2>3. p \in live
    BY <1>3 DEF TypeOK, Blank
  <2>4. /\ sub' \in [Paths -> SubRequester]
        /\ store' \in [Paths -> Seq(Nat) \cup {NoRecord}]
        /\ file' \in [Paths -> Files]
        /\ wire' \in Seq(Message)
        /\ \A x \in Paths \ {p} : sub'[x] = IF x = NoPath THEN Blank ELSE sub[x]
    BY <2>1, <2>2, FreeAndSetType
  <2> QED BY <1>1, <1>2, <1>3, <2>3, <2>4, PathAssumption DEF TypeOK
<1>4. ASSUME NEW block \in freed, freed' = (freed \ {block}) \cup ({block \ {id}} \ {{}}),
             UNCHANGED <<sub, store, file, wire>>
      PROVE  TypeOK'
  BY <1>1, <1>2, <1>4 DEF TypeOK
<1> QED BY <1>1, <1>3, <1>4

LEMMA DisconnectType ==
  ASSUME TypeOK, Disconnect
  PROVE  TypeOK'
<1>1. /\ link' = FALSE
      /\ live' = {p \in live : sub[p].qos >= 2}
      /\ sub' = [p \in Paths |->
                   IF p \in live'
                     THEN [ClearMessageIds(sub[p]) EXCEPT !.sid = Unset, !.pend = {}]
                     ELSE Blank]
      /\ sids' = [s \in Sids |-> NoPath]
      /\ freed' = {} /\ wire' = <<>> /\ acked' = 0
      /\ UNCHANGED <<store, file, value, written, ackUpTo>>
  BY DEF Disconnect
<1>2. ASSUME NEW p \in Paths
      PROVE  [ClearMessageIds(sub[p]) EXCEPT !.sid = Unset, !.pend = {}] \in SubRequester
  <2>1. ClearMessageIds(sub[p]) \in SubRequester
    BY ClearMessageIdsType DEF TypeOK
  <2> QED BY <2>1 DEF SubRequester
<1>3. sub' \in [Paths -> SubRequester] /\ \A p \in Paths \ live' : sub'[p] = Blank
  BY <1>1, <1>2, BlankType
<1>4. wire' \in Seq(Message) /\ freed' = {}
  <2>1. wire' = <<>> /\ freed' = {}
    BY <1>1
  <2> QED BY ONLY <2>1
<1>6. sids' \in [Sids -> Paths \cup {NoPath}]
  BY <1>1
<1>5. live' \subseteq Paths
  BY <1>1 DEF TypeOK
<1> QED BY <1>1, <1>3, <1>4, <1>5, <1>6 DEF TypeOK

LEMMA RestartType ==
  ASSUME TypeOK, NEW v \in SavedValues, NEW found \in FoundFiles, Restart(v, found)
  PROVE  TypeOK'
<1> DEFINE loaded == {p \in Paths : found[p] \notin {NoRecord, Torn}}
           st(p) == AddNew(p, [r |-> Create(0, 3, found[p], {}), w |-> <<>>, d |-> found[p], f |-> {found[p]}],
                           v[p], FALSE)
<1>1. /\ link' = FALSE /\ value' = v /\ live' = loaded
      /\ sub' = [p \in Paths |-> IF p \in loaded THEN st(p).r ELSE Blank]
      /\ store' = [p \in Paths |-> IF p \in loaded THEN st(p).d ELSE NoRecord]
      /\ file' = [p \in Paths |-> IF p \in loaded THEN st(p).f ELSE {found[p]}]
      /\ sids' \in {[s \in Sids |-> IF s = 0 THEN last ELSE NoPath] :
                      last \in IF loaded = {} THEN {NoPath} ELSE loaded}
      /\ freed' = {} /\ wire' = <<>> /\ acked' = 0
      /\ UNCHANGED <<written, ackUpTo>>
  BY DEF Restart
<1>2. v \in [Paths -> Nat]
  BY BoundAssumption DEF SavedValues
<1>3. ASSUME NEW p \in loaded PROVE st(p) \in DeliveryState
  BY <1>2, LoadedType
<1>4. ASSUME NEW p \in loaded
      PROVE  /\ st(p).r \in SubRequester /\ st(p).d \in Seq(Nat) \cup {NoRecord}
             /\ st(p).f \in Files
  BY <1>3, DeliveryFields
<1> HIDE DEF st
<1>5. /\ sub' \in [Paths -> SubRequester]
      /\ store' \in [Paths -> Seq(Nat) \cup {NoRecord}]
  BY <1>1, <1>4, BlankType
<1>9. file' \in [Paths -> Files]
  <2>1. \A p \in Paths : {found[p]} \in Files
    BY FoundType DEF Files
  <2> QED BY <1>1, <1>4, <2>1
<1>6. \A p \in Paths \ live' : sub'[p] = Blank
  BY <1>1
<1>7. sids' \in [Sids -> Paths \cup {NoPath}]
  BY <1>1
<1>8. wire' \in Seq(Message)
  BY <1>1
<1> QED BY <1>1, <1>2, <1>5, <1>6, <1>7, <1>8, <1>9 DEF TypeOK

\* The end of a save changes nothing but the file.
LEMMA SaveEndsOnly ==
  ASSUME NEW p \in Paths, SaveEnds(p)
  PROVE  UNCHANGED <<link, live, sids, sub, freed, store, value, written, wire, acked, ackUpTo>>
BY DEF SaveEnds

LEMMA SaveEndsType ==
  ASSUME TypeOK, NEW p \in Paths, SaveEnds(p)
  PROVE  TypeOK'
<1>1. PICK f \in IF store[p] = NoRecord THEN file[p] ELSE {store[p]} \cup ({Torn} \cap file[p]) :
        file' = [file EXCEPT ![p] = {f}]
  BY DEF SaveEnds
<1>2. /\ file \in [Paths -> Files] /\ file[p] \in Files
      /\ store[p] \in Seq(Nat) \cup {NoRecord}
  BY DEF TypeOK
<1>3. {f} \in Files
  BY <1>1, <1>2 DEF Files
<1>4. file' \in [Paths -> Files]
  BY <1>1, <1>2, <1>3
<1> QED BY <1>4, SaveEndsOnly DEF TypeOK

-----------------------------------------------------------------------------
LEMMA TypeKept == TypeOK /\ [Next]_vars => TypeOK'
<1> SUFFICES ASSUME TypeOK, [Next]_vars PROVE TypeOK'
  OBVIOUS
<1>1. ASSUME NEW p \in Paths, Publish(p) PROVE TypeOK'
  BY <1>1, PublishType
<1>2. ASSUME NEW p \in Paths, NEW s \in Sids, NEW q \in QosLevels, Subscribe(p, s, q)
      PROVE  TypeOK'
  BY <1>2, SubscribeType
<1>3. ASSUME NEW s \in Sids, Unsubscribe(s) PROVE TypeOK'
  BY <1>3, UnsubscribeType
<1>4. ASSUME NEW n \in 1..Len(wire), Ack(n) PROVE TypeOK'
  BY <1>4, AckType
<1>5. CASE AckStep
  BY <1>5, AckStepType
<1>6. CASE Connect
  BY <1>6 DEF Connect, TypeOK
<1>7. CASE Disconnect
  BY <1>7, DisconnectType
<1>8. ASSUME NEW v \in SavedValues, NEW found \in FoundFiles, Restart(v, found) PROVE TypeOK'
  BY <1>8, RestartType
<1>9. CASE UNCHANGED vars
  BY <1>9 DEF vars, TypeOK
<1>10. ASSUME NEW p \in Paths, SaveEnds(p) PROVE TypeOK'
  BY <1>10, SaveEndsType
<1> QED BY <1>1, <1>2, <1>3, <1>4, <1>5, <1>6, <1>7, <1>8, <1>9, <1>10 DEF Next, Restarts

\* Type correctness: every handler leaves well-formed subscriptions, records,
\* messages and tables, and nothing of a subscription that has ended.
THEOREM TypeCorrect == Spec => []TypeOK
<1>1. Init => TypeOK
  BY InitType
<1> QED BY <1>1, TypeKept, PTL DEF Spec

-----------------------------------------------------------------------------
(***************************************************************************)
(* The sid table. SidTable is inductive given TypeOK: a subscription       *)
(* loses its entry before it is freed or gets another sid.                 *)
(***************************************************************************)

\* Handing a value to a subscription, and every other step that leaves the
\* set of subscriptions and the table alone, keeps each subscription's sid.
LEMMA SidTableKept ==
  ASSUME TypeOK, SidTable, UNCHANGED <<live, sids>>,
         \A p \in live : sub'[p].sid = sub[p].sid
  PROVE  SidTable'
BY DEF TypeOK, SidTable

\* What broker_free_sub_requester leaves in the table for another sid.
LEMMA SidTableFreed ==
  ASSUME TypeOK, SidTable, NEW s \in Sids, NEW t \in Sids, t # s,
         SidsWithout(sids[s])[t] # NoPath
  PROVE  /\ SidsWithout(sids[s])[t] = sids[t]
         /\ sids[t] \in live \ {sids[s]} /\ sub[sids[t]].sid = t
<1>1. CASE sids[s] = NoPath \/ sub[sids[s]].sid = Unset
  BY <1>1, SidAssumption DEF TypeOK, SidTable, SidsWithout
<1>2. CASE ~(sids[s] = NoPath \/ sub[sids[s]].sid = Unset)
  <2>1. sub[sids[s]].sid = s
    BY <1>2 DEF SidTable
  <2>2. SidsWithout(sids[s]) = [sids EXCEPT ![s] = NoPath]
    BY <1>2, <2>1 DEF SidsWithout
  <2> QED BY <2>1, <2>2 DEF TypeOK, SidTable
<1> QED BY <1>1, <1>2

LEMMA PublishSidTable ==
  ASSUME TypeOK, SidTable, NEW p \in Paths, Publish(p)
  PROVE  SidTable'
<1>1. UNCHANGED <<live, sids>>
  BY DEF Publish
<1>2. CASE p \in live
  <2> DEFINE st == UpdateSubReq(p, State(p), value'[p], link)
  <2>1. FreeAndSet(NoPath, p, st)
    BY <1>2 DEF Publish, SetState
  <2>2. value'[p] \in Nat /\ link \in BOOLEAN
    BY DEF Publish, TypeOK
  <2>3. st \in DeliveryState /\ st.r.sid = sub[p].sid
    <3>1. State(p) \in DeliveryState /\ State(p).r = sub[p]
      BY StateType
    <3> QED BY <2>2, <3>1, UpdateSubReqType
  <2> HIDE DEF st
  <2>4. sub'[p] = st.r /\ \A x \in Paths \ {p} : sub'[x] = sub[x]
    BY <2>1, <2>3, SetStateSub
  <2> QED BY <1>1, <2>3, <2>4, SidTableKept DEF TypeOK
<1>3. CASE p \notin live
  BY <1>1, <1>3, SidTableKept DEF Publish
<1> QED BY <1>2, <1>3

LEMMA SubscribeSidTable ==
  ASSUME TypeOK, SidTable, NEW p \in Paths, NEW s \in Sids, NEW q \in QosLevels,
         Subscribe(p, s, q)
  PROVE  SidTable'
<1>1. CASE SubscribeSame(p, s, q)
  <2> DEFINE st == UpdateSubQos(Answered(p), q)
  <2>1. st \in DeliveryState /\ st.r.sid = sub[p].sid
    <3>0. Answered(p) \in DeliveryState /\ Answered(p).r = sub[p] /\ q \in 0..3
      BY StateType, QosAssumption
    <3>1. st \in DeliveryState /\ st.r = [sub[p] EXCEPT !.qos = q]
      BY <3>0, UpdateSubQosType
    <3>2. sub[p] \in SubRequester
      BY DEF TypeOK
    <3> HIDE DEF st
    <3> QED BY <3>1, <3>2 DEF SubRequester
  <2>2. FreeAndSet(NoPath, p, st) /\ UNCHANGED <<live, sids>>
    BY <1>1 DEF SubscribeSame, SetState
  <2> HIDE DEF st
  <2>3. sub'[p] = st.r /\ \A x \in Paths \ {p} : sub'[x] = sub[x]
    BY <2>1, <2>2, SetStateSub
  <2> QED BY <2>1, <2>2, <2>3, SidTableKept DEF TypeOK
<1>2. CASE Resubscribe(p, s, q)
  <2> DEFINE o == sids[s]
  <2>1. /\ p \in live /\ o # p /\ live' = live \ {o}
        /\ sids' = [t \in Sids |-> IF t = s THEN p
                                   ELSE IF t = sub[p].sid THEN NoPath ELSE SidsWithout(o)[t]]
    BY <1>2 DEF Resubscribe, SidsMoved
  <2>2. PICK st \in DeliveryState : st.r.sid = s /\ FreeAndSet(o, p, st)
    BY <1>2, ResubscribedType DEF Resubscribe
  <2>3. /\ sub'[p].sid = s
        /\ \A x \in Paths \ {p} : sub'[x] = IF x = o THEN Blank ELSE sub[x]
    <3> HIDE DEF o
    <3>1. /\ sub'[p] = st.r
          /\ \A x \in Paths \ {p} : sub'[x] = IF x = o THEN Blank ELSE sub[x]
      BY <2>2, FreeAndSetType
    <3> QED BY <2>2, <3>1
  <2>4. ASSUME NEW t \in Sids, sids'[t] # NoPath
        PROVE  sids'[t] \in live' /\ sub'[sids'[t]].sid = t
    <3>1. CASE t = s
      BY <2>1, <2>3, <3>1
    <3>2. CASE t # s
      <4>1. sids'[t] = SidsWithout(o)[t] /\ t # sub[p].sid
        BY <2>1, <2>4, <3>2
      <4>2. sids'[t] = sids[t] /\ sids[t] \in live \ {o} /\ sub[sids[t]].sid = t
        BY <2>4, <3>2, <4>1, SidTableFreed
      <4> HIDE DEF o
      <4> QED BY <2>1, <2>3, <4>1, <4>2 DEF TypeOK
    <3> QED BY <3>1, <3>2
  <2> QED BY <2>4 DEF SidTable
<1>3. ASSUME NEW block \in FreedWith(sids[s]) \cup {{}}, SubscribeNew(p, s, q, block)
      PROVE  SidTable'
  <2> DEFINE o  == sids[s]
             ok == With(Answered(p), Create(s, q, <<>>, block))
             st == AddNew(p, IF q > 2 THEN Serialize(ok) ELSE ok, value[p], TRUE)
  <2>1. /\ p \notin live /\ live' = (live \ {o}) \cup {p}
        /\ sids' = [SidsWithout(o) EXCEPT ![s] = p]
        /\ FreeAndSet(o, p, st)
    BY <1>3 DEF SubscribeNew
  <2>2. SidsWithout(o) \in [Sids -> Paths \cup {NoPath}]
    BY FreeType
  <2>3. st \in DeliveryState /\ st.r.sid = s
    <3>1. block \in SUBSET Nat
      BY FreeType
    <3> QED BY <3>1, AddedType
  <2> HIDE DEF st, ok
  <2>4. /\ sub'[p].sid = s
        /\ \A x \in Paths \ {p} : sub'[x] = IF x = o THEN Blank ELSE sub[x]
    <3> HIDE DEF o
    <3>1. /\ sub'[p] = st.r
          /\ \A x \in Paths \ {p} : sub'[x] = IF x = o THEN Blank ELSE sub[x]
      BY <2>1, <2>3, FreeAndSetType
    <3> QED BY <2>3, <3>1
  <2>5. ASSUME NEW t \in Sids, sids'[t] # NoPath
        PROVE  sids'[t] \in live' /\ sub'[sids'[t]].sid = t
    <3>1. CASE t = s
      BY <2>1, <2>2, <2>4, <3>1
    <3>2. CASE t # s
      <4>1. sids'[t] = SidsWithout(o)[t]
        BY <2>1, <2>2, <3>2
      <4>2. sids'[t] = sids[t] /\ sids[t] \in live \ {o} /\ sub[sids[t]].sid = t
        BY <2>5, <3>2, <4>1, SidTableFreed
      <4> HIDE DEF o
      <4> QED BY <2>1, <2>4, <4>2 DEF TypeOK
    <3> QED BY <3>1, <3>2
  <2> QED BY <2>5 DEF SidTable
<1> QED BY <1>1, <1>2, <1>3 DEF Subscribe

LEMMA UnsubscribeSidTable ==
  ASSUME TypeOK, SidTable, NEW s \in Sids, Unsubscribe(s)
  PROVE  SidTable'
<1> DEFINE o == sids[s]
<1>1. /\ live' = live \ {o}
      /\ sids' = [SidsWithout(o) EXCEPT ![s] = NoPath]
      /\ sub' = [x \in Paths |-> IF x = o THEN Blank ELSE sub[x]]
  BY DEF Unsubscribe
<1>2. SidsWithout(o) \in [Sids -> Paths \cup {NoPath}]
  BY FreeType
<1>3. ASSUME NEW t \in Sids, sids'[t] # NoPath
      PROVE  sids'[t] \in live' /\ sub'[sids'[t]].sid = t
  <2>1. t # s /\ sids'[t] = SidsWithout(o)[t]
    BY <1>1, <1>2, <1>3
  <2>2. sids'[t] = sids[t] /\ sids[t] \in live \ {o} /\ sub[sids[t]].sid = t
    BY <1>3, <2>1, SidTableFreed
  <2> HIDE DEF o
  <2> QED BY <1>1, <2>2 DEF TypeOK
<1> QED BY <1>3 DEF SidTable

LEMMA AckSidTable ==
  ASSUME TypeOK, SidTable, NEW n \in 1..Len(wire), Ack(n)
  PROVE  SidTable'
<1>1. /\ sub' = [p \in Paths |->
                   IF p \in live
                     THEN [sub[p] EXCEPT !.got = @ \cup ValuesSent(wire, p, acked + 1, n)]
                     ELSE sub[p]]
      /\ UNCHANGED <<live, sids>>
  BY DEF Ack
<1>2. ASSUME NEW p \in live PROVE sub'[p].sid = sub[p].sid
  <2>1. p \in Paths /\ sub[p] \in SubRequester
    BY DEF TypeOK
  <2> HIDE DEF ValuesSent
  <2>2. sub'[p] = [sub[p] EXCEPT !.got = @ \cup ValuesSent(wire, p, acked + 1, n)]
    BY <1>1, <2>1
  <2> QED BY <2>1, <2>2 DEF SubRequester
<1> QED BY <1>1, <1>2, SidTableKept

LEMMA AckStepSidTable ==
  ASSUME TypeOK, SidTable, AckStep
  PROVE  SidTable'
<1> DEFINE id == Max(Covered(ackUpTo))
<1>1. /\ \/ \E p \in Paths : SetState(p, AckOne(p, State(p), id))
         \/ sub' = sub
      /\ UNCHANGED <<live, sids>>
  BY DEF AckStep
<1> HIDE DEF id
<1>2. ASSUME NEW p \in Paths, SetState(p, AckOne(p, State(p), id))
      PROVE  \A x \in Paths : sub'[x].sid = sub[x].sid
  <2>1. AckOne(p, State(p), id) \in DeliveryState /\ AckOne(p, State(p), id).r.sid = sub[p].sid
    BY StateType, AckOneType
  <2>2. FreeAndSet(NoPath, p, AckOne(p, State(p), id))
    BY <1>2 DEF SetState
  <2>3. /\ sub'[p] = AckOne(p, State(p), id).r
        /\ \A x \in Paths \ {p} : sub'[x] = sub[x]
    BY <2>1, <2>2, SetStateSub
  <2> QED BY <2>1, <2>3
<1> QED BY <1>1, <1>2, SidTableKept DEF TypeOK

LEMMA RestartSidTable ==
  ASSUME TypeOK, NEW v \in SavedValues, NEW found \in FoundFiles, Restart(v, found)
  PROVE  SidTable'
<1> DEFINE loaded == {p \in Paths : found[p] \notin {NoRecord, Torn}}
           st(p) == AddNew(p, [r |-> Create(0, 3, found[p], {}), w |-> <<>>, d |-> found[p], f |-> {found[p]}],
                           v[p], FALSE)
<1>1. /\ live' = loaded
      /\ sub' = [p \in Paths |-> IF p \in loaded THEN st(p).r ELSE Blank]
  BY DEF Restart
<1>2. PICK last \in IF loaded = {} THEN {NoPath} ELSE loaded :
        sids' = [s \in Sids |-> IF s = 0 THEN last ELSE NoPath]
  BY DEF Restart
<1>3. v \in [Paths -> Nat]
  BY BoundAssumption DEF SavedValues
<1>4. ASSUME NEW p \in loaded PROVE st(p).r.sid = 0
  BY <1>3, LoadedType
<1> HIDE DEF st
<1> QED BY <1>1, <1>2, <1>4 DEF SidTable

\* No entry of req_sub_sids points at a freed subscription, and each live
\* subscription it points at knows itself by that sid: an unsubscribe or a
\* subscribe that finds a sid in use (msg_subscribe.c:174, msg_unsubscribe.c:36)
\* never reaches freed memory through the table.
THEOREM SidTableCorrect == Spec => []SidTable
<1>1. Init => SidTable
  BY DEF Init, SidTable
<1>2. TypeOK /\ SidTable /\ [Next]_vars => SidTable'
  <2> SUFFICES ASSUME TypeOK, SidTable, [Next]_vars PROVE SidTable'
    OBVIOUS
  <2>1. ASSUME NEW p \in Paths, Publish(p) PROVE SidTable'
    BY <2>1, PublishSidTable
  <2>2. ASSUME NEW p \in Paths, NEW s \in Sids, NEW q \in QosLevels, Subscribe(p, s, q)
        PROVE  SidTable'
    BY <2>2, SubscribeSidTable
  <2>3. ASSUME NEW s \in Sids, Unsubscribe(s) PROVE SidTable'
    BY <2>3, UnsubscribeSidTable
  <2>4. ASSUME NEW n \in 1..Len(wire), Ack(n) PROVE SidTable'
    BY <2>4, AckSidTable
  <2>5. CASE AckStep
    BY <2>5, AckStepSidTable
  <2>6. CASE Connect
    BY <2>6 DEF Connect, SidTable
  <2>7. CASE Disconnect
    BY <2>7 DEF Disconnect, SidTable
  <2>8. ASSUME NEW v \in SavedValues, NEW found \in FoundFiles, Restart(v, found) PROVE SidTable'
    BY <2>8, RestartSidTable
  <2>9. CASE UNCHANGED vars
    BY <2>9 DEF vars, SidTable
  <2>10. ASSUME NEW p \in Paths, SaveEnds(p) PROVE SidTable'
    BY <2>10, SaveEndsOnly DEF SidTable
  <2> QED BY <2>1, <2>2, <2>3, <2>4, <2>5, <2>6, <2>7, <2>8, <2>9, <2>10 DEF Next, Restarts
<1> QED BY <1>1, <1>2, TypeCorrect, PTL DEF Spec

-----------------------------------------------------------------------------
(***************************************************************************)
(* Ack accounting of qos 0-2. AckAccounting alone is not inductive: the    *)
(* count must stay within the window, the pending ids must be ids of sent  *)
(* messages (so that new ids are new), a subscription without a message    *)
(* queue must have nothing pending (or freeing it would leave pendingAcks  *)
(* behind), and there must be no stored record (or a restart would make a  *)
(* qos 3 subscription).                                                    *)
(***************************************************************************)
Accounted(r, m) ==
  /\ r.qos <= 2
  /\ r.hasQueue \/ (r.pend = {} /\ r.queue = <<>>)
  /\ r.pend \subseteq 1..m
  /\ IsFiniteSet(r.pend)
  /\ r.out = Cardinality(r.pend)
  /\ r.out <= SendWindow

AccountedState(st) == Accounted(st.r, Len(st.w)) /\ st.d = NoRecord /\ st.f = {NoRecord}

AccountingInv ==
  /\ TypeOK
  /\ freed = {}
  /\ \A p \in Paths : store[p] = NoRecord /\ file[p] = {NoRecord}
  /\ \A p \in live : Accounted(sub[p], Len(wire))

LEMMA AccountedLater ==
  ASSUME NEW r, NEW m \in Nat, NEW n \in Nat, m <= n, Accounted(r, m)
  PROVE  Accounted(r, n)
BY DEF Accounted

LEMMA SendQueuedAccounted ==
  ASSUME NEW p \in Paths, NEW st \in DeliveryState, NEW up \in BOOLEAN, AccountedState(st)
  PROVE  /\ AccountedState(SendQueued(p, st, up))
         /\ Len(st.w) <= Len(SendQueued(p, st, up).w)
<1> DEFINE t == SendQueued(p, st, up)
<1>1. /\ t \in DeliveryState
      /\ t.r.qos = st.r.qos /\ t.r.hasQueue = st.r.hasQueue /\ t.d = st.d /\ t.f = st.f
      /\ st.r.out <= t.r.out
      /\ st.r.out <= SendWindow => t.r.out <= SendWindow
      /\ Len(t.w) = Len(st.w) + t.r.out - st.r.out
      /\ t.r.pend = st.r.pend \cup (Len(st.w) + 1 .. Len(t.w))
      /\ st.r.queue = <<>> => t.r.queue = <<>> /\ t.r.out = st.r.out
  BY SendQueuedType
<1> HIDE DEF t
<1>2. /\ Len(st.w) \in Nat /\ Len(t.w) \in Nat /\ st.r.out \in Nat /\ t.r.out \in Nat
      /\ Len(st.w) <= Len(t.w)
  BY <1>1, DeliveryFields
<1>3. /\ st.r.qos <= 2 /\ st.d = NoRecord /\ st.f = {NoRecord}
      /\ st.r.hasQueue \/ (st.r.pend = {} /\ st.r.queue = <<>>)
      /\ st.r.pend \subseteq 1..Len(st.w) /\ IsFiniteSet(st.r.pend)
      /\ st.r.out = Cardinality(st.r.pend) /\ st.r.out <= SendWindow
  BY DEF AccountedState, Accounted
<1> DEFINE more == Len(st.w) + 1 .. Len(t.w)
<1>4. IsFiniteSet(more) /\ Cardinality(more) = Len(t.w) - Len(st.w)
  <2> DEFINE a == Len(st.w) + 1
             b == Len(t.w)
  <2>1. a \in Int /\ b \in Int
    BY <1>2
  <2> HIDE DEF a, b
  <2>2. /\ IsFiniteSet(a..b)
        /\ Cardinality(a..b) = IF a > b THEN 0 ELSE b - a + 1
    BY <2>1, FS_Interval
  <2>3. more = a..b
    BY DEF a, b
  <2>4. (IF a > b THEN 0 ELSE b - a + 1) = Len(t.w) - Len(st.w)
    <3>1. Len(st.w) \in Nat /\ Len(t.w) \in Nat /\ Len(st.w) <= Len(t.w)
      BY <1>2
    <3>2. a = Len(st.w) + 1 /\ b = Len(t.w)
      BY DEF a, b
    <3>3. CASE a > b
      BY ONLY <3>1, <3>2, <3>3
    <3>4. CASE ~(a > b)
      BY ONLY <3>1, <3>2, <3>4
    <3> QED BY <3>3, <3>4
  <2> QED BY <2>2, <2>3, <2>4
<1>5. st.r.pend \cap more = {}
  BY <1>2, <1>3
<1>6. /\ IsFiniteSet(st.r.pend \cup more)
      /\ Cardinality(st.r.pend \cup more)
           = Cardinality(st.r.pend) + Cardinality(more) - Cardinality(st.r.pend \cap more)
  <2> HIDE DEF more
  <2> QED BY <1>3, <1>4, FS_Union
<1>7. Cardinality(st.r.pend \cap more) = 0
  BY <1>5, FS_EmptySet
<1>8. IsFiniteSet(t.r.pend) /\ t.r.out = Cardinality(t.r.pend)
  <2>1. t.r.pend = st.r.pend \cup more
    BY <1>1
  <2>2. /\ IsFiniteSet(t.r.pend)
        /\ Cardinality(t.r.pend) = st.r.out + (Len(t.w) - Len(st.w)) - 0
    BY <2>1, <1>3, <1>4, <1>6, <1>7, Zenon
  <2>3. Len(t.w) = Len(st.w) + t.r.out - st.r.out
    BY <1>1
  <2> QED BY ONLY <2>2, <2>3, <1>2
<1>9. t.r.pend \subseteq 1..Len(t.w)
  BY <1>1, <1>2, <1>3
<1>10. t.r.hasQueue \/ (t.r.pend = {} /\ t.r.queue = <<>>)
  <2>1. t.r.out = st.r.out => more = {}
    BY <1>1, <1>2
  <2> QED BY <1>1, <1>3, <2>1
<1> QED BY <1>1, <1>2, <1>3, <1>8, <1>9, <1>10 DEF AccountedState, Accounted, t

LEMMA UpdateSubReqAccounted ==
  ASSUME NEW p \in Paths, NEW st \in DeliveryState, NEW v \in Nat, NEW up \in BOOLEAN,
         AccountedState(st)
  PROVE  /\ AccountedState(UpdateSubReq(p, st, v, up))
         /\ Len(st.w) <= Len(UpdateSubReq(p, st, v, up).w)
<1> DEFINE r1 == [st.r EXCEPT !.owed = @ \cup {v}]
           o  == With(st, r1)
           r2 == AddToMessageQueue(r1, v)
           o2 == With(o, r2)
<1>1. /\ r1 \in SubRequester /\ r1.qos = st.r.qos /\ r1.pend = st.r.pend /\ r1.out = st.r.out
  BY DeliveryFields DEF SubRequester
<1> HIDE DEF r1
<1>2. /\ r2 \in SubRequester /\ r2.qos = st.r.qos /\ r2.pend = st.r.pend
      /\ r2.out = st.r.out /\ r2.hasQueue
  BY <1>1, AddToMessageQueueType
<1> HIDE DEF r2
<1>3. /\ o2 \in DeliveryState /\ o2.r = r2 /\ o2.w = st.w /\ o2.d = st.d /\ o2.f = st.f
      /\ o.r = r1
  BY <1>1, <1>2, WithType
<1>4. UpdateSubReq(p, st, v, up) = SendQueued(p, o2, up)
  <2>1. st.r.qos <= 2
    BY DEF AccountedState, Accounted
  <2> QED BY <1>3, <2>1 DEF UpdateSubReq, r2, r1
<1> HIDE DEF o2
<1>5. AccountedState(o2)
  BY <1>2, <1>3 DEF AccountedState, Accounted
<1> QED BY <1>3, <1>4, <1>5, SendQueuedAccounted

\* One acknowledged message: --messageOutputQueueCount takes the count from
\* the size of pendingAcks with the id to the size without it.
LEMMA AckOneAccounted ==
  ASSUME NEW p \in Paths, NEW st \in DeliveryState, NEW id \in st.r.pend, AccountedState(st)
  PROVE  /\ AccountedState(AckOne(p, st, id))
         /\ Len(st.w) <= Len(AckOne(p, st, id).w)
<1> DEFINE k  == Popped(st.r, id)
           n  == IF st.r.out = 0 THEN CountMax ELSE st.r.out - 1
           q  == SubSeq(st.r.queue, k + 1, Len(st.r.queue))
           r2 == [st.r EXCEPT !.pend = @ \ {id}, !.out = n, !.queue = q]
           s2 == With(st, r2)
<1>1. /\ st.r.qos <= 2 /\ st.d = NoRecord /\ st.f = {NoRecord} /\ st.r.hasQueue
      /\ st.r.pend \subseteq 1..Len(st.w) /\ IsFiniteSet(st.r.pend)
      /\ st.r.out = Cardinality(st.r.pend) /\ st.r.out <= SendWindow
  BY DEF AccountedState, Accounted
<1>2. /\ IsFiniteSet(st.r.pend \ {id})
      /\ Cardinality(st.r.pend \ {id}) = Cardinality(st.r.pend) - 1
  BY <1>1, FS_RemoveElement
<1>3. Cardinality(st.r.pend \ {id}) \in Nat
  BY <1>2, FS_CardinalityType
<1>4. n = Cardinality(st.r.pend \ {id}) /\ n \in 0..CountMax /\ n <= SendWindow
  BY <1>1, <1>2, <1>3, DeliveryFields, SizeAssumption
<1>5. k \in 0..Len(st.r.queue)
  BY PoppedBounds, DeliveryFields
<1>6. q \in Seq(QueuedMessage)
  <2> HIDE DEF k
  <2> QED BY <1>5, DeliveryFields
<1>7. AckOne(p, st, id) = IF k > 0 THEN SendQueued(p, s2, TRUE) ELSE s2
  BY DEF AckOne
<1> HIDE DEF k, n, q
<1>8. /\ r2 \in SubRequester /\ r2.qos = st.r.qos /\ r2.hasQueue = st.r.hasQueue
      /\ r2.pend = st.r.pend \ {id} /\ r2.out = n
  BY <1>4, <1>6, DeliveryFields DEF SubRequester
<1> HIDE DEF r2
<1>9. s2 \in DeliveryState /\ s2.r = r2 /\ s2.w = st.w /\ s2.d = st.d /\ s2.f = st.f
  BY <1>8, WithType
<1> HIDE DEF s2
<1>10. AccountedState(s2)
  BY <1>1, <1>2, <1>4, <1>8, <1>9 DEF AccountedState, Accounted
<1>11. Len(s2.w) = Len(st.w) /\ Len(st.w) <= Len(st.w)
  BY <1>9, DeliveryFields
<1> QED BY <1>7, <1>9, <1>10, <1>11, SendQueuedAccounted

\* Every path, subscribed or not, has a qos below 3, and freeing what is
\* there leaves no pendingAcks and no record behind.
LEMMA FreesCleanly ==
  ASSUME AccountingInv
  PROVE  /\ \A p \in Paths : /\ sub[p].qos <= 2 /\ RecordAfterFree(p) = NoRecord
                             /\ FileAfterFree(p) = {NoRecord}
         /\ \A s \in Sids : FreedWith(sids[s]) = {}
<1>1. \A p \in Paths : /\ sub[p].qos <= 2 /\ ~(sub[p].qos > 2)
                       /\ sub[p].hasQueue \/ sub[p].pend = {}
  <2> SUFFICES ASSUME NEW p \in Paths
               PROVE  /\ sub[p].qos <= 2 /\ ~(sub[p].qos > 2)
                      /\ sub[p].hasQueue \/ sub[p].pend = {}
    OBVIOUS
  <2>1. sub[p] \in SubRequester
    BY DEF AccountingInv, TypeOK
  <2>2. CASE p \in live
    BY <2>1, <2>2 DEF AccountingInv, Accounted, SubRequester
  <2>3. CASE p \notin live
    BY <2>3 DEF AccountingInv, TypeOK, Blank
  <2> QED BY <2>2, <2>3
<1>2. \A p \in Paths : RecordAfterFree(p) = NoRecord /\ FileAfterFree(p) = {NoRecord}
  BY <1>1 DEF RecordAfterFree, FileAfterFree, AccountingInv
<1>3. \A s \in Sids : sids[s] \in Paths \cup {NoPath}
  BY DEF AccountingInv, TypeOK
<1>4. \A s \in Sids : FreedWith(sids[s]) = {}
  BY <1>1, <1>3 DEF FreedWith, AccountingInv
<1> QED BY <1>1, <1>2, <1>4

LEMMA FreeAndSetAccounting ==
  ASSUME AccountingInv, TypeOK', NEW o, NEW p \in Paths, NEW st \in DeliveryState,
         FreeAndSet(o, p, st), AccountedState(st), Len(wire) <= Len(st.w),
         live' \subseteq (live \ {o}) \cup {p}, freed' = {}
  PROVE  AccountingInv'
<1>1. TypeOK /\ Len(wire) \in Nat /\ Len(st.w) \in Nat
  BY DeliveryFields DEF AccountingInv, TypeOK
<1>2. /\ sub'[p] = st.r
      /\ \A x \in Paths \ {p} : sub'[x] = IF x = o THEN Blank ELSE sub[x]
  BY ONLY <1>1, FreeAndSet(o, p, st), p \in Paths, st \in DeliveryState, FreeAndSetType
<1>3. wire' = st.w
      /\ store' = [x \in Paths |-> IF x = p THEN st.d
                                  ELSE IF x = o THEN RecordAfterFree(x) ELSE store[x]]
      /\ file' = [x \in Paths |-> IF x = p THEN st.f
                                  ELSE IF x = o THEN FileAfterFree(x) ELSE file[x]]
  BY DEF FreeAndSet
<1>4. \A x \in Paths : store'[x] = NoRecord /\ file'[x] = {NoRecord}
  BY <1>3, FreesCleanly DEF AccountedState, AccountingInv
<1>5. ASSUME NEW x \in live' PROVE Accounted(sub'[x], Len(wire'))
  <2>1. CASE x = p
    BY <1>2, <1>3, <2>1 DEF AccountedState
  <2>2. CASE x # p
    <3>1. x \in live /\ x # o /\ x \in Paths
      BY <2>2, <1>1 DEF TypeOK
    <3>2. sub'[x] = sub[x] /\ Accounted(sub[x], Len(wire))
      BY <1>2, <2>2, <3>1 DEF AccountingInv
    <3> QED BY <1>1, <1>3, <3>2, AccountedLater
  <2> QED BY <2>1, <2>2
<1> QED BY <1>4, <1>5 DEF AccountingInv

LEMMA AnsweredAccounted ==
  ASSUME AccountingInv, NEW p \in Paths
  PROVE  /\ Answered(p) \in DeliveryState /\ Answered(p).r = sub[p] /\ Answered(p).d = NoRecord /\ Answered(p).f = {NoRecord}
         /\ Len(wire) \in Nat /\ Len(Answered(p).w) = Len(wire) + 1
         /\ Len(wire) <= Len(Answered(p).w)
         /\ p \in live => AccountedState(Answered(p))
<1>1. TypeOK /\ wire \in Seq(Message)
  BY DEF AccountingInv, TypeOK
<1>2. Answered(p) \in DeliveryState /\ Answered(p).r = sub[p]
  BY <1>1, StateType
<1>3. Answered(p).w = Append(wire, ClosedResponse) /\ Answered(p).d = NoRecord /\ Answered(p).f = {NoRecord}
  BY DEF Answered, AccountingInv
<1>4. Len(wire) \in Nat /\ Len(Answered(p).w) = Len(wire) + 1
  BY <1>1, <1>3
<1>5. p \in live => Accounted(sub[p], Len(wire) + 1)
  BY <1>4, AccountedLater DEF AccountingInv
<1> QED BY <1>2, <1>3, <1>4, <1>5 DEF AccountedState

LEMMA UpdateSubQosAccounted ==
  ASSUME NEW st \in DeliveryState, AccountedState(st), NEW q \in 0..2
  PROVE  /\ UpdateSubQos(st, q) \in DeliveryState /\ AccountedState(UpdateSubQos(st, q))
         /\ UpdateSubQos(st, q).w = st.w
<1>1. st.r \in SubRequester /\ q # 3 /\ q \in 0..3 /\ st.r.qos # 3
  BY DeliveryFields DEF AccountedState, Accounted
<1>2. /\ UpdateSubQos(st, q) \in DeliveryState
      /\ UpdateSubQos(st, q).r = [st.r EXCEPT !.qos = q]
      /\ UpdateSubQos(st, q).w = st.w
  BY <1>1, UpdateSubQosType
<1>3. UpdateSubQos(st, q).d = st.d /\ UpdateSubQos(st, q).f = st.f
  BY <1>1 DEF UpdateSubQos, With
<1>4. Accounted([st.r EXCEPT !.qos = q], Len(st.w))
  BY <1>1 DEF AccountedState, Accounted, SubRequester
<1> QED BY <1>2, <1>3, <1>4 DEF AccountedState

LEMMA FlushQosQueueAccounted ==
  ASSUME NEW p \in Paths, NEW st \in DeliveryState, AccountedState(st)
  PROVE  /\ AccountedState(FlushQosQueue(p, st))
         /\ Len(st.w) <= Len(FlushQosQueue(p, st).w)
<1> DEFINE w2 == Append(st.w, Update(p, st.r.sid, st.r.qosQueue))
           r2 == [st.r EXCEPT !.qosQueue = <<>>]
<1>1. Len(w2) = Len(st.w) + 1 /\ Len(st.w) \in Nat
  BY DeliveryFields
<1>2. st.r \in SubRequester /\ ~(st.r.qos > 2) /\ Accounted(st.r, Len(st.w)) /\ st.d = NoRecord /\ st.f = {NoRecord}
  BY DeliveryFields DEF AccountedState, Accounted
<1>3. FlushQosQueue(p, st) = [r |-> r2, w |-> w2, d |-> st.d, f |-> st.f]
  BY <1>2 DEF FlushQosQueue, ClearQosQueue, With
<1>4. Accounted(st.r, Len(w2))
  <2> HIDE DEF w2
  <2> QED BY <1>1, <1>2, AccountedLater
<1>5. Accounted(r2, Len(w2))
  <2> HIDE DEF w2
  <2> QED BY <1>2, <1>4 DEF Accounted, SubRequester
<1> HIDE DEF w2, r2
<1> QED BY <1>1, <1>2, <1>3, <1>5 DEF AccountedState

LEMMA CreateAccounted ==
  ASSUME AccountingInv, NEW p \in Paths, NEW s \in Sids, NEW q \in 0..2
  PROVE  LET ok == With(Answered(p), Create(s, q, <<>>, {}))
             st == AddNew(p, IF q > 2 THEN Serialize(ok) ELSE ok, value[p], TRUE)
         IN  st \in DeliveryState /\ AccountedState(st) /\ Len(wire) <= Len(st.w)
<1> DEFINE c  == Create(s, q, <<>>, {})
           ok == With(Answered(p), c)
<1>1. /\ c \in SubRequester /\ c.qos = q
  <2>1. q \in 0..3 /\ <<>> \in Seq(Nat) /\ {} \in SUBSET Nat
    OBVIOUS
  <2> HIDE DEF Create
  <2>2. \A sq \in Seq(Nat), bl \in SUBSET Nat :
          Create(s, q, sq, bl) \in SubRequester /\ Create(s, q, sq, bl).qos = q
    BY <2>1, CreateType
  <2> QED BY <2>1, <2>2
<1>2. c.pend = {} /\ c.out = 0 /\ c.queue = <<>>
  BY DEF Create, Blank
<1> HIDE DEF c
<1>3. /\ ok \in DeliveryState /\ ok.r = c /\ ok.d = NoRecord /\ ok.f = {NoRecord}
      /\ Len(ok.w) = Len(wire) + 1 /\ Len(wire) \in Nat
  BY <1>1, AnsweredAccounted, WithType
<1> HIDE DEF ok
<1>4. 0 = Cardinality(c.pend) /\ IsFiniteSet(c.pend) /\ 0 <= SendWindow
  BY <1>2, FS_EmptySet, SizeAssumption
<1>5. AccountedState(ok)
  <2>1. c.qos <= 2 /\ c.pend \subseteq 1..Len(ok.w)
    BY <1>1, <1>2
  <2>2. Accounted(c, Len(ok.w))
    BY <1>2, <1>4, <2>1 DEF Accounted
  <2> QED BY <1>3, <2>2 DEF AccountedState
<1>6. value[p] \in Nat
  BY DEF AccountingInv, TypeOK
<1>7. /\ UpdateSubReq(p, ok, value[p], TRUE) \in DeliveryState
      /\ AccountedState(UpdateSubReq(p, ok, value[p], TRUE))
      /\ Len(ok.w) <= Len(UpdateSubReq(p, ok, value[p], TRUE).w)
  BY <1>3, <1>5, <1>6, UpdateSubReqType, UpdateSubReqAccounted
<1>8. AddNew(p, IF q > 2 THEN Serialize(ok) ELSE ok, value[p], TRUE)
        = IF value[p] > 0 THEN UpdateSubReq(p, ok, value[p], TRUE) ELSE ok
  <2>1. ~(q > 2)
    OBVIOUS
  <2> QED BY <2>1 DEF AddNew
<1>9. Len(wire) <= Len(UpdateSubReq(p, ok, value[p], TRUE).w)
  <2> DEFINE u == UpdateSubReq(p, ok, value[p], TRUE)
  <2> HIDE DEF u
  <2>1. u \in DeliveryState /\ Len(ok.w) <= Len(u.w)
    BY <1>7 DEF u
  <2>2. Len(u.w) \in Nat
    BY <2>1, DeliveryFields
  <2>3. Len(wire) <= Len(u.w)
    BY ONLY <1>3, <2>1, <2>2
  <2> QED BY <2>3 DEF u
<1>10. Len(wire) <= Len(ok.w)
  BY <1>3
<1> HIDE DEF AddNew
<1>11. QED BY <1>3, <1>5, <1>7, <1>8, <1>9, <1>10 DEF ok, c

LEMMA PublishAccounting ==
  ASSUME AccountingInv, TypeOK', NEW p \in Paths, Publish(p)
  PROVE  AccountingInv'
<1>1. UNCHANGED <<live, freed>> /\ TypeOK
  BY DEF Publish, AccountingInv
<1>2. CASE p \in live
  <2> DEFINE st == UpdateSubReq(p, State(p), value'[p], link)
  <2>1. FreeAndSet(NoPath, p, st)
    BY <1>2 DEF Publish, SetState
  <2>2. value'[p] \in Nat /\ link \in BOOLEAN
    BY <1>1 DEF Publish, TypeOK
  <2>3. State(p) \in DeliveryState /\ AccountedState(State(p)) /\ State(p).w = wire
    BY <1>1, <1>2, StateType DEF AccountingInv, AccountedState, State
  <2>4. st \in DeliveryState /\ AccountedState(st) /\ Len(wire) <= Len(st.w)
    BY <2>2, <2>3, UpdateSubReqType, UpdateSubReqAccounted
  <2> HIDE DEF st
  <2>5. live' \subseteq (live \ {NoPath}) \cup {p} /\ freed' = {}
    BY <1>1, PathAssumption DEF TypeOK, AccountingInv
  <2> QED BY <2>1, <2>4, <2>5, FreeAndSetAccounting
<1>3. CASE p \notin live
  BY <1>1, <1>3 DEF Publish, AccountingInv
<1> QED BY <1>2, <1>3

LEMMA SubscribeAccounting ==
  ASSUME AccountingInv, TypeOK', 3 \notin QosLevels,
         NEW p \in Paths, NEW s \in Sids, NEW q \in QosLevels, Subscribe(p, s, q)
  PROVE  AccountingInv'
<1>0. q \in 0..2 /\ TypeOK /\ NoPath \notin live
  BY QosAssumption, PathAssumption DEF AccountingInv, TypeOK
<1>1. CASE SubscribeSame(p, s, q)
  <2> DEFINE st == UpdateSubQos(Answered(p), q)
  <2>1. FreeAndSet(NoPath, p, st) /\ UNCHANGED <<live, freed>> /\ p \in live
    BY <1>1 DEF SubscribeSame, SetState
  <2>2. Answered(p) \in DeliveryState /\ AccountedState(Answered(p))
        /\ Len(wire) <= Len(Answered(p).w)
    BY <2>1, AnsweredAccounted
  <2>3. st \in DeliveryState /\ AccountedState(st) /\ Len(wire) <= Len(st.w)
    BY <1>0, <2>2, UpdateSubQosAccounted
  <2> HIDE DEF st
  <2>4. live' \subseteq (live \ {NoPath}) \cup {p} /\ freed' = {}
    BY <1>0, <2>1 DEF AccountingInv
  <2> QED BY <2>1, <2>3, <2>4, FreeAndSetAccounting
<1>2. CASE Resubscribe(p, s, q)
  <2> DEFINE o  == sids[s]
             r1 == [sub[p] EXCEPT !.sid = s]
             a  == With(Answered(p), r1)
             st == UpdateSubQos(a, q)
             t  == CASE Len(st.r.qosQueue) > 0 -> FlushQosQueue(p, st)
                     [] Len(st.r.qosQueue) = 0 /\ q = 2 -> SendQueued(p, st, TRUE)
                     [] Len(st.r.qosQueue) = 0 /\ q # 2 /\ value[p] > 0 ->
                          UpdateSubReq(p, st, value[p], TRUE)
                     [] OTHER -> st
  <2>1. p \in live /\ live' = live \ {o} /\ freed' = FreedWith(o) /\ FreeAndSet(o, p, t)
    BY <1>2 DEF Resubscribe
  <2>2. /\ Answered(p) \in DeliveryState /\ AccountedState(Answered(p))
        /\ Answered(p).r = sub[p] /\ Len(wire) <= Len(Answered(p).w)
    BY <2>1, AnsweredAccounted
  <2>3. a \in DeliveryState /\ AccountedState(a) /\ a.w = Answered(p).w
    <3>1. sub[p] \in SubRequester
      BY <1>0 DEF TypeOK
    <3>2. /\ r1 \in SubRequester /\ r1.qos = sub[p].qos /\ r1.pend = sub[p].pend
          /\ r1.queue = sub[p].queue /\ r1.out = sub[p].out /\ r1.hasQueue = sub[p].hasQueue
      BY <3>1 DEF SubRequester
    <3> HIDE DEF r1
    <3>3. a \in DeliveryState /\ a.r = r1 /\ a.w = Answered(p).w /\ a.d = Answered(p).d /\ a.f = Answered(p).f
      BY <2>2, <3>2, WithType
    <3> HIDE DEF a
    <3> QED BY <2>2, <3>2, <3>3 DEF AccountedState, Accounted
  <2> HIDE DEF a
  <2>4. st \in DeliveryState /\ AccountedState(st) /\ Len(wire) <= Len(st.w)
    BY <1>0, <2>2, <2>3, UpdateSubQosAccounted
  <2> HIDE DEF st
  <2>5. value[p] \in Nat /\ Len(wire) \in Nat /\ Len(st.w) \in Nat
    BY <1>0, <2>4, DeliveryFields DEF TypeOK
  <2>6. ASSUME NEW x \in DeliveryState, Len(st.w) <= Len(x.w)
        PROVE  Len(wire) <= Len(x.w)
    BY <2>4, <2>5, <2>6, DeliveryFields
  <2>7. t \in {FlushQosQueue(p, st), SendQueued(p, st, TRUE),
               UpdateSubReq(p, st, value[p], TRUE), st}
    OBVIOUS
  <2> HIDE DEF t
  <2>8. FlushQosQueue(p, st) \in DeliveryState /\ AccountedState(FlushQosQueue(p, st))
        /\ Len(wire) <= Len(FlushQosQueue(p, st).w)
    BY <2>4, <2>6, FlushQosQueueType, FlushQosQueueAccounted
  <2>9. SendQueued(p, st, TRUE) \in DeliveryState /\ AccountedState(SendQueued(p, st, TRUE))
        /\ Len(wire) <= Len(SendQueued(p, st, TRUE).w)
    <3>1. SendQueued(p, st, TRUE) \in DeliveryState
      BY <2>4, SendQueuedType
    <3> QED BY <2>4, <2>6, <3>1, SendQueuedAccounted
  <2>10. /\ UpdateSubReq(p, st, value[p], TRUE) \in DeliveryState
         /\ AccountedState(UpdateSubReq(p, st, value[p], TRUE))
         /\ Len(wire) <= Len(UpdateSubReq(p, st, value[p], TRUE).w)
    BY <2>4, <2>5, <2>6, UpdateSubReqType, UpdateSubReqAccounted
  <2>11. t \in DeliveryState /\ AccountedState(t) /\ Len(wire) <= Len(t.w)
    BY <2>4, <2>7, <2>8, <2>9, <2>10
  <2>12. live' \subseteq (live \ {o}) \cup {p} /\ freed' = {}
    BY <2>1, FreesCleanly
  <2> HIDE DEF o
  <2> QED BY <2>1, <2>11, <2>12, FreeAndSetAccounting
<1>3. ASSUME NEW block \in FreedWith(sids[s]) \cup {{}}, SubscribeNew(p, s, q, block)
      PROVE  AccountingInv'
  <2> DEFINE o  == sids[s]
             ok == With(Answered(p), Create(s, q, <<>>, {}))
             st == AddNew(p, IF q > 2 THEN Serialize(ok) ELSE ok, value[p], TRUE)
  <2>1. block = {} /\ FreedWith(o) = {}
    BY FreesCleanly
  <2>2. /\ live' = (live \ {o}) \cup {p} /\ freed' = FreedWith(o) \ {block}
        /\ FreeAndSet(o, p, st)
    BY <1>3, <2>1 DEF SubscribeNew
  <2>3. st \in DeliveryState /\ AccountedState(st) /\ Len(wire) <= Len(st.w)
    BY <1>0, CreateAccounted
  <2> HIDE DEF st, o
  <2>4. live' \subseteq (live \ {o}) \cup {p} /\ freed' = {}
    BY <2>1, <2>2
  <2> QED BY <2>2, <2>3, <2>4, FreeAndSetAccounting
<1> QED BY <1>1, <1>2, <1>3 DEF Subscribe

LEMMA UnsubscribeAccounting ==
  ASSUME AccountingInv, TypeOK', NEW s \in Sids, Unsubscribe(s)
  PROVE  AccountingInv'
<1> DEFINE o == sids[s]
<1>1. /\ live' = live \ {o} /\ freed' = FreedWith(o)
      /\ sub' = [x \in Paths |-> IF x = o THEN Blank ELSE sub[x]]
      /\ store' = [x \in Paths |-> IF x = o THEN RecordAfterFree(x) ELSE store[x]]
      /\ file' = [x \in Paths |-> IF x = o THEN FileAfterFree(x) ELSE file[x]]
      /\ wire' = Append(wire, ClosedResponse)
  BY DEF Unsubscribe
<1>2. freed' = {} /\ \A x \in Paths : store'[x] = NoRecord /\ file'[x] = {NoRecord}
  BY <1>1, FreesCleanly DEF AccountingInv
<1> HIDE DEF o
<1>3. Len(wire) \in Nat /\ Len(wire') = Len(wire) + 1 /\ Len(wire) <= Len(wire')
  BY <1>1 DEF AccountingInv, TypeOK
<1>4. ASSUME NEW x \in live' PROVE Accounted(sub'[x], Len(wire'))
  <2>1. sub'[x] = sub[x] /\ Accounted(sub[x], Len(wire))
    BY <1>1 DEF AccountingInv, TypeOK
  <2>2. Len(wire') \in Nat
    BY <1>3
  <2> QED BY <1>3, <2>1, <2>2, AccountedLater
<1> QED BY <1>2, <1>4 DEF AccountingInv

LEMMA AckReceiptAccounting ==
  ASSUME AccountingInv, TypeOK', NEW n \in 1..Len(wire), Ack(n)
  PROVE  AccountingInv'
<1>1. /\ sub' = [p \in Paths |->
                   IF p \in live
                     THEN [sub[p] EXCEPT !.got = @ \cup ValuesSent(wire, p, acked + 1, n)]
                     ELSE sub[p]]
      /\ UNCHANGED <<live, freed, store, file, wire>>
  BY DEF Ack
<1>2. ASSUME NEW p \in live PROVE Accounted(sub'[p], Len(wire))
  <2>1. p \in Paths /\ sub[p] \in SubRequester /\ Accounted(sub[p], Len(wire))
    BY DEF AccountingInv, TypeOK
  <2> HIDE DEF ValuesSent
  <2>2. sub'[p] = [sub[p] EXCEPT !.got = @ \cup ValuesSent(wire, p, acked + 1, n)]
    BY <1>1, <2>1
  <2> QED BY <2>1, <2>2 DEF SubRequester, Accounted
<1> QED BY <1>1, <1>2 DEF AccountingInv

LEMMA AckStepAccounting ==
  ASSUME AccountingInv, TypeOK', AckStep
  PROVE  AccountingInv'
<1> DEFINE id == Max(Covered(ackUpTo))
<1>1. /\ \E p \in Paths : /\ id \in sub[p].pend
                          /\ SetState(p, AckOne(p, State(p), id))
                          /\ UNCHANGED freed
      /\ UNCHANGED live
  BY DEF AckStep, AccountingInv
<1> HIDE DEF id
<1>2. PICK p \in Paths : /\ id \in sub[p].pend
                         /\ FreeAndSet(NoPath, p, AckOne(p, State(p), id))
                         /\ UNCHANGED freed
  BY <1>1 DEF SetState
<1>3. p \in live /\ TypeOK
  BY <1>2 DEF AccountingInv, TypeOK, Blank
<1>4. /\ State(p) \in DeliveryState /\ AccountedState(State(p)) /\ State(p).w = wire
      /\ State(p).r = sub[p]
  BY <1>3, StateType DEF AccountingInv, AccountedState, State
<1>5. /\ AckOne(p, State(p), id) \in DeliveryState
      /\ AccountedState(AckOne(p, State(p), id))
      /\ Len(wire) <= Len(AckOne(p, State(p), id).w)
  BY <1>2, <1>4, AckOneType, AckOneAccounted
<1>6. live' \subseteq (live \ {NoPath}) \cup {p} /\ freed' = {}
  BY <1>1, <1>2, <1>3, PathAssumption DEF TypeOK, AccountingInv
<1> QED BY <1>2, <1>5, <1>6, FreeAndSetAccounting

LEMMA DisconnectAccounting ==
  ASSUME AccountingInv, TypeOK', Disconnect
  PROVE  AccountingInv'
<1>1. /\ live' = {p \in live : sub[p].qos >= 2}
      /\ sub' = [p \in Paths |->
                   IF p \in live'
                     THEN [ClearMessageIds(sub[p]) EXCEPT !.sid = Unset, !.pend = {}]
                     ELSE Blank]
      /\ freed' = {} /\ wire' = <<>> /\ UNCHANGED <<store, file>>
  BY DEF Disconnect
<1>2. ASSUME NEW p \in live' PROVE Accounted(sub'[p], Len(wire'))
  <2> DEFINE c == ClearMessageIds(sub[p])
  <2>1. p \in Paths /\ p \in live /\ sub[p] \in SubRequester /\ Accounted(sub[p], Len(wire))
    BY <1>1 DEF AccountingInv, TypeOK
  <2>2. /\ c.qos = sub[p].qos /\ c.hasQueue = sub[p].hasQueue /\ c.out = 0
        /\ sub[p].queue = <<>> => c.queue = <<>>
    BY <2>1 DEF ClearMessageIds, SubRequester
  <2>3. c \in SubRequester
    BY <2>1, ClearMessageIdsType
  <2> HIDE DEF c
  <2>4. sub'[p] = [c EXCEPT !.sid = Unset, !.pend = {}]
    BY <1>1, <2>1 DEF c
  <2>5. /\ sub'[p].qos = c.qos /\ sub'[p].hasQueue = c.hasQueue /\ sub'[p].out = 0
        /\ sub'[p].queue = c.queue /\ sub'[p].pend = {}
    BY <2>2, <2>3, <2>4 DEF SubRequester
  <2>6. IsFiniteSet({}) /\ Cardinality({}) = 0 /\ 0 <= SendWindow
    BY FS_EmptySet, SizeAssumption
  <2> QED BY <2>1, <2>2, <2>5, <2>6 DEF Accounted
<1> QED BY <1>1, <1>2 DEF AccountingInv

LEMMA AccountingKept ==
  ASSUME 3 \notin QosLevels, AccountingInv, [Next]_vars
  PROVE  AccountingInv'
<1>0. TypeOK /\ TypeOK'
  BY TypeKept DEF AccountingInv
<1>1. ASSUME NEW p \in Paths, Publish(p) PROVE AccountingInv'
  BY <1>0, <1>1, PublishAccounting
<1>2. ASSUME NEW p \in Paths, NEW s \in Sids, NEW q \in QosLevels, Subscribe(p, s, q)
      PROVE  AccountingInv'
  BY <1>0, <1>2, SubscribeAccounting
<1>3. ASSUME NEW s \in Sids, Unsubscribe(s) PROVE AccountingInv'
  BY <1>0, <1>3, UnsubscribeAccounting
<1>4. ASSUME NEW n \in 1..Len(wire), Ack(n) PROVE AccountingInv'
  BY <1>0, <1>4, AckReceiptAccounting
<1>5. CASE AckStep
  BY <1>0, <1>5, AckStepAccounting
<1>6. CASE Connect
  BY <1>0, <1>6 DEF Connect, AccountingInv
<1>7. CASE Disconnect
  BY <1>0, <1>7, DisconnectAccounting
<1>8. ASSUME NEW v \in SavedValues, NEW found \in FoundFiles, Restart(v, found) PROVE AccountingInv'
  <2>1. \A p \in Paths : found[p] = NoRecord
    BY <1>0, FoundType DEF AccountingInv
  <2>2. /\ live' = {} /\ store' = [p \in Paths |-> NoRecord] /\ freed' = {}
        /\ file' = [p \in Paths |-> {NoRecord}]
    BY <1>8, <2>1 DEF Restart
  <2> QED BY <1>0, <2>2 DEF AccountingInv
<1>9. CASE UNCHANGED vars
  BY <1>0, <1>9 DEF vars, AccountingInv
<1>10. \A p \in Paths : ~SaveEnds(p)
  BY DEF SaveEnds, Settled, AccountingInv
<1> QED BY <1>1, <1>2, <1>3, <1>4, <1>5, <1>6, <1>7, <1>8, <1>9, <1>10 DEF Next, Restarts

LEMMA AccountingAlways ==
  ASSUME 3 \notin QosLevels
  PROVE  Spec => []AccountingInv
<1>1. Init => AccountingInv
  BY InitType DEF Init, AccountingInv
<1>2. AccountingInv /\ [Next]_vars => AccountingInv'
  BY AccountingKept
<1> QED BY <1>1, <1>2, PTL DEF Spec

\* The count of a subscription's messages in flight is the number of its
\* entries in pendingAcks, and --messageOutputQueueCount in
\* check_subscription_ack (subscription.c:75) never wraps, for any acks,
\* overflow, resubscription, disconnection and restart, while no client
\* subscribes with qos 3.
THEOREM AckAccountingCorrect ==
  ASSUME 3 \notin QosLevels
  PROVE  Spec => []AckAccounting
<1>1. AccountingInv => AckAccounting
  BY DEF AccountingInv, Accounted, AckAccounting
<1> QED BY <1>1, AccountingAlways, PTL

-----------------------------------------------------------------------------
(***************************************************************************)
(* The qos storage. With TypeOK, MirrorInv says of every path, subscribed  *)
(* or not, what StoreMirrors says, and that below qos 3 a record goes with *)
(* an empty queue; each function of subscription.c keeps it.               *)
(***************************************************************************)
Mirrored(r, d) ==
  IF r.qos = 3 THEN d = r.qosQueue ELSE d = NoRecord \/ (d = <<>> /\ r.qosQueue = <<>>)
MirroredState(st) == Mirrored(st.r, st.d)
MirrorInv == \A p \in Paths : Mirrored(sub[p], store[p])

\* What a function leaves alone when it has no business with the storage.
SameStorage(st, t) == t.r.qos = st.r.qos /\ t.r.qosQueue = st.r.qosQueue /\ t.d = st.d

LEMMA SameStorageMirrored ==
  ASSUME NEW st, NEW t, SameStorage(st, t), MirroredState(st)
  PROVE  MirroredState(t)
BY DEF SameStorage, MirroredState, Mirrored

LEMMA MirrorInvImplies == TypeOK /\ MirrorInv => StoreMirrors
<1> SUFFICES ASSUME TypeOK, MirrorInv PROVE StoreMirrors
  OBVIOUS
<1>1. \A p \in Paths \ live : sub[p].qos = 0
  BY DEF TypeOK, Blank
<1> QED
  BY <1>1 DEF StoreMirrors, MirrorInv, Mirrored

LEMMA BlankMirrored ==
  ASSUME NEW d \in {NoRecord, <<>>}
  PROVE  Mirrored(Blank, d)
<1>1. Blank.qos = 0 /\ Blank.qosQueue = <<>>
  BY DEF Blank
<1> QED BY <1>1 DEF Mirrored

LEMMA SendMessageStorage ==
  ASSUME NEW p \in Paths, NEW st \in DeliveryState, NEW v \in Nat
  PROVE  SameStorage(st, SendMessage(p, st, v))
BY DeliveryFields DEF SendMessage, SameStorage, SubRequester

LEMMA SendQueuedStorage ==
  ASSUME NEW p \in Paths, NEW st \in DeliveryState, NEW up \in BOOLEAN
  PROVE  SameStorage(st, SendQueued(p, st, up))
<1> DEFINE n == IF up /\ st.r.sid # Unset THEN StopAt(st.r) ELSE st.r.out
           m == Len(st.w)
           more == m + 1 .. m + n - st.r.out
           q2 == MarkSent(st.r, n, m)
           r2 == [st.r EXCEPT !.out = n, !.pend = @ \cup more, !.queue = q2]
<1>1. SendQueued(p, st, up).r = r2 /\ SendQueued(p, st, up).d = st.d
  BY DEF SendQueued
<1> HIDE DEF n, m, more, q2
<1>2. r2.qos = st.r.qos /\ r2.qosQueue = st.r.qosQueue
  BY DeliveryFields DEF SubRequester
<1> QED BY <1>1, <1>2 DEF SameStorage

LEMMA SerializeMirrored ==
  ASSUME NEW st \in DeliveryState, st.r.qos = 3
  PROVE  MirroredState(Serialize(st))
BY DeliveryFields DEF Serialize, MirroredState, Mirrored, DeliveryState

LEMMA ClearQosQueueMirrored ==
  ASSUME NEW st \in DeliveryState, MirroredState(st)
  PROVE  MirroredState(ClearQosQueue(st))
<1> DEFINE r2 == [st.r EXCEPT !.qosQueue = <<>>]
           c  == With(st, r2)
<1>1. r2 \in SubRequester /\ r2.qos = st.r.qos /\ r2.qosQueue = <<>>
  <2>1. <<>> \in Seq(Nat)
    OBVIOUS
  <2> QED BY <2>1, DeliveryFields DEF SubRequester
<1>2. ClearQosQueue(st) = IF st.r.qos > 2 THEN Serialize(c) ELSE c
  BY DEF ClearQosQueue
<1> HIDE DEF r2
<1>3. c \in DeliveryState /\ c.r = r2 /\ c.d = st.d
  BY <1>1, WithType
<1> HIDE DEF c
<1>4. st.r.qos \in 0..3
  BY DeliveryFields
<1>5. CASE st.r.qos > 2
  BY <1>1, <1>2, <1>3, <1>4, <1>5, SerializeMirrored
<1>6. CASE ~(st.r.qos > 2)
  BY <1>1, <1>2, <1>3, <1>4, <1>6 DEF MirroredState, Mirrored
<1> QED BY <1>5, <1>6

LEMMA AppendToQosQueueMirrored ==
  ASSUME NEW st \in DeliveryState, NEW v \in Nat, MirroredState(st), st.r.qos = 3
  PROVE  MirroredState(AppendToQosQueue(st, v))
<1> DEFINE r2 == [st.r EXCEPT !.qosQueue = Append(@, v)]
<1>1. Append(st.r.qosQueue, v) \in Seq(Nat)
  BY DeliveryFields
<1>2. r2 \in SubRequester /\ r2.qos = 3
  BY <1>1, DeliveryFields DEF SubRequester
<1>3. AppendToQosQueue(st, v) =
        IF Len(st.r.qosQueue) >= QueueSize THEN ClearQosQueue(st) ELSE Serialize(With(st, r2))
  BY DEF AppendToQosQueue
<1> HIDE DEF r2
<1>4. With(st, r2) \in DeliveryState /\ With(st, r2).r = r2
  BY <1>2, WithType
<1> QED BY <1>2, <1>3, <1>4, SerializeMirrored, ClearQosQueueMirrored

LEMMA UpdateSubReqMirrored ==
  ASSUME NEW p \in Paths, NEW st \in DeliveryState, NEW v \in Nat, NEW up \in BOOLEAN,
         MirroredState(st)
  PROVE  MirroredState(UpdateSubReq(p, st, v, up))
<1> DEFINE r1 == [st.r EXCEPT !.owed = @ \cup {v}]
           o  == With(st, r1)
           r3 == AddToMessageQueue(r1, v)
           o2 == With(o, AddToMessageQueue(o.r, v))
<1>1. r1 \in SubRequester /\ r1.qos = st.r.qos /\ r1.qosQueue = st.r.qosQueue
  BY DeliveryFields DEF SubRequester
<1>2. UpdateSubReq(p, st, v, up) = IF st.r.qos <= 2 THEN SendQueued(p, o2, up)
                                   ELSE IF up THEN SendMessage(p, o, v)
                                   ELSE AppendToQosQueue(o, v)
  BY DEF UpdateSubReq
<1> HIDE DEF r1
<1>3. o \in DeliveryState /\ o.r = r1 /\ o.d = st.d
  BY <1>1, WithType
<1> HIDE DEF o
<1>4. r3 \in SubRequester /\ r3.qos = r1.qos /\ r3.qosQueue = r1.qosQueue
  <2>1. r3 \in SubRequester /\ r3.qos = r1.qos
    BY <1>1, AddToMessageQueueType
  <2>2. r3.qosQueue = r1.qosQueue
    BY <1>1 DEF AddToMessageQueue, SubRequester
  <2> QED BY <2>1, <2>2
<1> HIDE DEF r3
<1>5. o2 \in DeliveryState /\ o2.r = r3 /\ o2.d = st.d
  BY <1>3, <1>4, WithType DEF r3
<1> HIDE DEF o2
<1>6. MirroredState(o) /\ MirroredState(o2)
  BY <1>1, <1>3, <1>4, <1>5 DEF MirroredState, Mirrored
<1>7. MirroredState(SendQueued(p, o2, up))
  BY <1>5, <1>6, SendQueuedStorage, SameStorageMirrored
<1>8. MirroredState(SendMessage(p, o, v))
  BY <1>3, <1>6, SendMessageStorage, SameStorageMirrored
<1>9. CASE st.r.qos <= 2
  BY <1>2, <1>7, <1>9
<1>10. CASE ~(st.r.qos <= 2)
  <2>1. o.r.qos = 3
    BY <1>1, <1>3, <1>10, DeliveryFields
  <2> QED BY <1>2, <1>3, <1>6, <1>8, <1>10, <2>1, AppendToQosQueueMirrored
<1> QED BY <1>9, <1>10

LEMMA FlushQosQueueMirrored ==
  ASSUME NEW p \in Paths, NEW st \in DeliveryState, MirroredState(st)
  PROVE  MirroredState(FlushQosQueue(p, st))
<1> DEFINE w2 == Append(st.w, Update(p, st.r.sid, st.r.qosQueue))
           t  == [r |-> st.r, w |-> w2, d |-> st.d, f |-> st.f]
<1>1. w2 \in Seq(Message)
  <2>1. Update(p, st.r.sid, st.r.qosQueue) \in Message
    BY UpdateType, DeliveryFields
  <2> QED BY <2>1, DeliveryFields
<1>2. FlushQosQueue(p, st) = ClearQosQueue(t)
  BY DEF FlushQosQueue
<1> HIDE DEF w2
<1>3. t \in DeliveryState /\ t.r = st.r /\ t.d = st.d
  BY <1>1, DeliveryFields DEF DeliveryState
<1> HIDE DEF t
<1>4. MirroredState(t)
  BY <1>3 DEF MirroredState
<1> QED BY <1>2, <1>3, <1>4, ClearQosQueueMirrored

\* The record is deleted with the qos 3 and written with it.
LEMMA UpdateSubQosMirrored ==
  ASSUME NEW st \in DeliveryState, NEW q \in 0..3, MirroredState(st)
  PROVE  MirroredState(UpdateSubQos(st, q))
<1> DEFINE r2 == [st.r EXCEPT !.qos = q]
           c  == With(st, r2)
           e  == [c EXCEPT !.d = NoRecord, !.f = FileUnlinked(@)]
<1>1. r2 \in SubRequester /\ r2.qos = q /\ r2.qosQueue = st.r.qosQueue
  BY DeliveryFields DEF SubRequester
<1>2. UpdateSubQos(st, q) = IF st.r.qos = 3 /\ q # 3 THEN e
                            ELSE IF st.r.qos # 3 /\ q = 3 THEN Serialize(c) ELSE c
  BY DEF UpdateSubQos
<1> HIDE DEF r2
<1>3. c \in DeliveryState /\ c.r = r2 /\ c.d = st.d
  BY <1>1, WithType
<1> HIDE DEF c
<1>4. e.r = c.r /\ e.d = NoRecord
  BY <1>3 DEF DeliveryState
<1>5. CASE st.r.qos = 3 /\ q # 3
  BY <1>1, <1>2, <1>3, <1>4, <1>5 DEF MirroredState, Mirrored
<1>6. CASE st.r.qos # 3 /\ q = 3
  BY <1>1, <1>2, <1>3, <1>6, SerializeMirrored
<1>7. CASE (st.r.qos = 3) <=> (q = 3)
  BY <1>1, <1>2, <1>3, <1>7 DEF MirroredState, Mirrored
<1> QED BY <1>5, <1>6, <1>7

LEMMA AckOneStorage ==
  ASSUME NEW p \in Paths, NEW st \in DeliveryState, NEW id
  PROVE  SameStorage(st, AckOne(p, st, id))
<1> DEFINE k  == Popped(st.r, id)
           n  == IF st.r.out = 0 THEN CountMax ELSE st.r.out - 1
           q  == SubSeq(st.r.queue, k + 1, Len(st.r.queue))
           r2 == [st.r EXCEPT !.pend = @ \ {id}, !.out = n, !.queue = q]
<1>1. AckOne(p, st, id) = IF k > 0 THEN SendQueued(p, With(st, r2), TRUE) ELSE With(st, r2)
  BY DEF AckOne
<1>2. k \in 0..Len(st.r.queue)
  BY PoppedBounds, DeliveryFields
<1>3. q \in Seq(QueuedMessage)
  <2> HIDE DEF k
  <2> QED BY <1>2, DeliveryFields
<1>4. n \in 0..CountMax
  BY DeliveryFields, SizeAssumption
<1> HIDE DEF k, n, q
<1>5. r2 \in SubRequester /\ r2.qos = st.r.qos /\ r2.qosQueue = st.r.qosQueue
  BY <1>3, <1>4, DeliveryFields DEF SubRequester
<1> HIDE DEF r2
<1> DEFINE s2 == With(st, r2)
<1>6. s2 \in DeliveryState /\ s2.r = r2 /\ s2.d = st.d
  BY <1>5, WithType
<1>7. AckOne(p, st, id) = IF k > 0 THEN SendQueued(p, s2, TRUE) ELSE s2
  BY <1>1
<1> HIDE DEF s2
<1>8. SameStorage(s2, SendQueued(p, s2, TRUE)) /\ SameStorage(s2, s2)
  BY <1>6, SendQueuedStorage DEF SameStorage
<1>9. SameStorage(s2, AckOne(p, st, id))
  BY ONLY <1>7, <1>8
<1> QED BY <1>5, <1>6, <1>9 DEF SameStorage

LEMMA StateMirrored ==
  ASSUME TypeOK, MirrorInv, NEW p \in Paths
  PROVE  MirroredState(State(p)) /\ MirroredState(Answered(p))
BY DEF MirrorInv, State, Answered, MirroredState

\* A freed subscription leaves an empty record or none.
LEMMA FreedRecord ==
  ASSUME TypeOK, MirrorInv, NEW o \in Paths
  PROVE  RecordAfterFree(o) \in {NoRecord, <<>>}
<1>1. Mirrored(sub[o], store[o]) /\ sub[o].qos \in 0..3
  BY DEF MirrorInv, TypeOK, SubRequester
<1> QED BY <1>1 DEF Mirrored, RecordAfterFree

LEMMA FreeAndSetMirrored ==
  ASSUME TypeOK, MirrorInv, NEW o, NEW p \in Paths, NEW st \in DeliveryState,
         FreeAndSet(o, p, st), MirroredState(st)
  PROVE  MirrorInv'
<1>1. /\ sub' = [x \in Paths |-> IF x = p THEN st.r ELSE IF x = o THEN Blank ELSE sub[x]]
      /\ store' = [x \in Paths |-> IF x = p THEN st.d
                                  ELSE IF x = o THEN RecordAfterFree(x) ELSE store[x]]
  BY DEF FreeAndSet
<1> SUFFICES ASSUME NEW x \in Paths PROVE Mirrored(sub'[x], store'[x])
  BY DEF MirrorInv
<1>2. CASE x = p
  BY <1>1, <1>2 DEF MirroredState
<1>3. CASE x # p /\ x = o
  <2>1. sub'[x] = Blank /\ store'[x] = RecordAfterFree(x)
    BY <1>1, <1>3
  <2> QED BY <2>1, FreedRecord, BlankMirrored
<1>4. CASE x # p /\ x # o
  <2>1. sub'[x] = sub[x] /\ store'[x] = store[x]
    BY <1>1, <1>4
  <2> QED BY <2>1 DEF MirrorInv
<1> QED BY <1>2, <1>3, <1>4

LEMMA PublishMirrors ==
  ASSUME TypeOK, MirrorInv, NEW p \in Paths, Publish(p)
  PROVE  MirrorInv'
<1>1. CASE p \in live
  <2> DEFINE st == UpdateSubReq(p, State(p), value'[p], link)
  <2>1. FreeAndSet(NoPath, p, st)
    BY <1>1 DEF Publish, SetState
  <2>2. value'[p] \in Nat /\ link \in BOOLEAN
    BY DEF Publish, TypeOK
  <2>3. st \in DeliveryState
    BY <2>2, StateType, UpdateSubReqType
  <2>4. MirroredState(st)
    BY <2>2, StateType, StateMirrored, UpdateSubReqMirrored
  <2> HIDE DEF st
  <2> QED BY <2>1, <2>3, <2>4, FreeAndSetMirrored
<1>2. CASE p \notin live
  BY <1>2 DEF Publish, MirrorInv
<1> QED BY <1>1, <1>2

LEMMA ResubscribeMirrors ==
  ASSUME TypeOK, MirrorInv, NEW p \in Paths, NEW s \in Sids, NEW q \in QosLevels,
         Resubscribe(p, s, q)
  PROVE  MirrorInv'
<1> DEFINE o  == sids[s]
           r1 == [sub[p] EXCEPT !.sid = s]
           a  == With(Answered(p), r1)
           st == UpdateSubQos(a, q)
<1>1. r1 \in SubRequester /\ r1.qos = sub[p].qos /\ r1.qosQueue = sub[p].qosQueue
  <2>1. sub[p] \in SubRequester
    BY DEF TypeOK
  <2> QED BY <2>1 DEF SubRequester
<1>2. \/ FreeAndSet(o, p, FlushQosQueue(p, st))
      \/ FreeAndSet(o, p, SendQueued(p, st, TRUE))
      \/ FreeAndSet(o, p, UpdateSubReq(p, st, value[p], TRUE))
      \/ FreeAndSet(o, p, st)
  BY DEF Resubscribe
<1> HIDE DEF r1, o
<1>3. Answered(p) \in DeliveryState /\ Answered(p).r = sub[p] /\ MirroredState(Answered(p))
  BY StateType, StateMirrored
<1>4. a \in DeliveryState /\ a.r = r1 /\ a.d = Answered(p).d
  BY <1>1, <1>3, WithType
<1> HIDE DEF a
<1>5. MirroredState(a)
  BY <1>1, <1>3, <1>4 DEF MirroredState, Mirrored
<1>6. q \in 0..3 /\ value[p] \in Nat
  BY QosAssumption DEF TypeOK
<1>7. st \in DeliveryState /\ MirroredState(st)
  BY <1>4, <1>5, <1>6, UpdateSubQosType, UpdateSubQosMirrored
<1> HIDE DEF st
<1>8. FlushQosQueue(p, st) \in DeliveryState /\ MirroredState(FlushQosQueue(p, st))
  BY <1>7, FlushQosQueueType, FlushQosQueueMirrored
<1>9. SendQueued(p, st, TRUE) \in DeliveryState /\ MirroredState(SendQueued(p, st, TRUE))
  BY <1>7, SendQueuedType, SendQueuedStorage, SameStorageMirrored
<1>10. /\ UpdateSubReq(p, st, value[p], TRUE) \in DeliveryState
       /\ MirroredState(UpdateSubReq(p, st, value[p], TRUE))
  BY <1>6, <1>7, UpdateSubReqType, UpdateSubReqMirrored
<1> QED BY <1>2, <1>7, <1>8, <1>9, <1>10, FreeAndSetMirrored

LEMMA SubscribeNewMirrors ==
  ASSUME TypeOK, MirrorInv, NEW p \in Paths, NEW s \in Sids, NEW q \in QosLevels,
         NEW block \in FreedWith(sids[s]) \cup {{}}, SubscribeNew(p, s, q, block)
  PROVE  MirrorInv'
<1> DEFINE o  == sids[s]
           c  == Create(s, q, <<>>, block)
           ok == With(Answered(p), c)
           st == IF q > 2 THEN Serialize(ok) ELSE ok
<1>1. FreeAndSet(o, p, AddNew(p, st, value[p], TRUE)) /\ p \notin live
  BY DEF SubscribeNew
<1>2. q \in 0..3 /\ value[p] \in Nat /\ block \in SUBSET Nat
  BY FreeType, QosAssumption DEF TypeOK
<1>3. c \in SubRequester /\ c.qos = q /\ c.qosQueue = <<>>
  <2> DEFINE none == <<>>
  <2>1. none \in Seq(Nat)
    OBVIOUS
  <2> HIDE DEF none
  <2>2. Create(s, q, none, block) \in SubRequester /\ Create(s, q, none, block).qos = q
    BY <1>2, <2>1, CreateType
  <2>3. Create(s, q, none, block).qosQueue = none
    BY DEF Create, Blank
  <2> QED BY <2>2, <2>3 DEF none
<1> HIDE DEF o, c
<1>4. ok \in DeliveryState /\ ok.r = c /\ ok.d = store[p]
  BY <1>3, StateType, WithType DEF Answered
<1> HIDE DEF ok
<1>5. store[p] \in {NoRecord, <<>>}
  <2>1. sub[p].qos = 0 /\ Mirrored(sub[p], store[p])
    BY <1>1 DEF TypeOK, Blank, MirrorInv
  <2> QED BY <2>1 DEF Mirrored
<1>6. st \in DeliveryState /\ MirroredState(st)
  <2>1. CASE q > 2
    <3>1. q = 3
      BY <1>2, <2>1
    <3> QED BY <1>3, <1>4, <2>1, <3>1, SerializeType, SerializeMirrored
  <2>2. CASE ~(q > 2)
    BY <1>3, <1>4, <1>5, <2>2 DEF MirroredState, Mirrored
  <2> QED BY <2>1, <2>2
<1> HIDE DEF st
<1>7. AddNew(p, st, value[p], TRUE) \in DeliveryState /\ MirroredState(AddNew(p, st, value[p], TRUE))
  BY <1>2, <1>6, AddNewType, UpdateSubReqMirrored DEF AddNew
<1> QED BY <1>1, <1>7, FreeAndSetMirrored

LEMMA SubscribeMirrors ==
  ASSUME TypeOK, MirrorInv, NEW p \in Paths, NEW s \in Sids, NEW q \in QosLevels,
         Subscribe(p, s, q)
  PROVE  MirrorInv'
<1>1. CASE SubscribeSame(p, s, q)
  <2> DEFINE st == UpdateSubQos(Answered(p), q)
  <2>1. st \in DeliveryState /\ MirroredState(st)
    BY StateType, StateMirrored, UpdateSubQosType, UpdateSubQosMirrored, QosAssumption
  <2>2. FreeAndSet(NoPath, p, st)
    BY <1>1 DEF SubscribeSame, SetState
  <2> HIDE DEF st
  <2> QED BY <2>1, <2>2, FreeAndSetMirrored
<1> QED BY <1>1, ResubscribeMirrors, SubscribeNewMirrors DEF Subscribe

LEMMA UnsubscribeMirrors ==
  ASSUME TypeOK, MirrorInv, NEW s \in Sids, Unsubscribe(s)
  PROVE  MirrorInv'
<1>1. /\ sub' = [x \in Paths |-> IF x = sids[s] THEN Blank ELSE sub[x]]
      /\ store' = [x \in Paths |-> IF x = sids[s] THEN RecordAfterFree(x) ELSE store[x]]
  BY DEF Unsubscribe
<1> SUFFICES ASSUME NEW x \in Paths PROVE Mirrored(sub'[x], store'[x])
  BY DEF MirrorInv
<1>2. CASE x = sids[s]
  <2>1. sub'[x] = Blank /\ store'[x] = RecordAfterFree(x)
    BY <1>1, <1>2
  <2> QED BY <2>1, FreedRecord, BlankMirrored
<1>3. CASE x # sids[s]
  BY <1>1, <1>3 DEF MirrorInv
<1> QED BY <1>2, <1>3

LEMMA AckMirrors ==
  ASSUME TypeOK, MirrorInv, NEW n \in 1..Len(wire), Ack(n)
  PROVE  MirrorInv'
<1>1. /\ sub' = [p \in Paths |->
                   IF p \in live
                     THEN [sub[p] EXCEPT !.got = @ \cup ValuesSent(wire, p, acked + 1, n)]
                     ELSE sub[p]]
      /\ store' = store
  BY DEF Ack
<1>2. ASSUME NEW p \in Paths PROVE sub'[p].qos = sub[p].qos /\ sub'[p].qosQueue = sub[p].qosQueue
  <2>1. sub[p] \in SubRequester
    BY DEF TypeOK
  <2> HIDE DEF ValuesSent
  <2>2. sub'[p] = IF p \in live
                    THEN [sub[p] EXCEPT !.got = @ \cup ValuesSent(wire, p, acked + 1, n)]
                    ELSE sub[p]
    BY <1>1
  <2> QED BY <2>1, <2>2 DEF SubRequester
<1> QED BY <1>1, <1>2 DEF MirrorInv, Mirrored

LEMMA AckStepMirrors ==
  ASSUME TypeOK, MirrorInv, AckStep
  PROVE  MirrorInv'
<1> DEFINE id == Max(Covered(ackUpTo))
<1>1. \/ \E p \in Paths : SetState(p, AckOne(p, State(p), id))
      \/ UNCHANGED <<sub, store>>
  BY DEF AckStep
<1> HIDE DEF id
<1>2. ASSUME NEW p \in Paths, SetState(p, AckOne(p, State(p), id))
      PROVE  MirrorInv'
  <2>1. AckOne(p, State(p), id) \in DeliveryState /\ MirroredState(AckOne(p, State(p), id))
    BY StateType, StateMirrored, AckOneType, AckOneStorage, SameStorageMirrored
  <2>2. FreeAndSet(NoPath, p, AckOne(p, State(p), id))
    BY <1>2 DEF SetState
  <2> QED BY <2>1, <2>2, FreeAndSetMirrored
<1>3. CASE UNCHANGED <<sub, store>>
  BY <1>3 DEF MirrorInv
<1> QED BY <1>1, <1>2, <1>3

LEMMA DisconnectMirrors ==
  ASSUME TypeOK, MirrorInv, Disconnect
  PROVE  MirrorInv'
<1>1. /\ live' = {p \in live : sub[p].qos >= 2}
      /\ sub' = [p \in Paths |->
                   IF p \in live'
                     THEN [ClearMessageIds(sub[p]) EXCEPT !.sid = Unset, !.pend = {}]
                     ELSE Blank]
      /\ store' = store
  BY DEF Disconnect
<1> SUFFICES ASSUME NEW p \in Paths PROVE Mirrored(sub'[p], store[p])
  BY <1>1 DEF MirrorInv
<1>2. sub[p] \in SubRequester /\ Mirrored(sub[p], store[p]) /\ sub[p].qos \in 0..3
  BY DEF TypeOK, MirrorInv, SubRequester
<1>3. CASE p \in live'
  <2> DEFINE c == ClearMessageIds(sub[p])
  <2>1. c \in SubRequester
    BY <1>2, ClearMessageIdsType
  <2>2. c.qos = sub[p].qos /\ c.qosQueue = sub[p].qosQueue
    BY <1>2 DEF ClearMessageIds, SubRequester
  <2>3. sub'[p] = [c EXCEPT !.sid = Unset, !.pend = {}]
    BY <1>1, <1>3
  <2> HIDE DEF c
  <2>4. sub'[p].qos = c.qos /\ sub'[p].qosQueue = c.qosQueue
    BY <2>1, <2>3 DEF SubRequester
  <2> QED BY <1>2, <2>2, <2>4 DEF Mirrored
<1>4. CASE p \notin live'
  <2>1. sub'[p] = Blank
    BY <1>1, <1>4
  <2>2. sub[p].qos # 3
    <3>1. CASE p \in live
      <4>1. ~(sub[p].qos >= 2)
        BY <1>1, <1>4, <3>1
      <4> QED BY <1>2, <4>1
    <3>2. CASE p \notin live
      <4>1. sub[p] = Blank /\ Blank.qos = 0
        BY <3>2 DEF TypeOK, Blank
      <4> QED BY <4>1
    <3> QED BY <3>1, <3>2
  <2>3. store[p] \in {NoRecord, <<>>}
    BY <1>2, <2>2 DEF Mirrored
  <2> QED BY <2>1, <2>3, BlankMirrored
<1> QED BY <1>3, <1>4

LEMMA RestartMirrors ==
  ASSUME TypeOK, NEW v \in SavedValues, NEW found \in FoundFiles, Restart(v, found)
  PROVE  MirrorInv'
<1> DEFINE loaded == {p \in Paths : found[p] \notin {NoRecord, Torn}}
           st(p) == AddNew(p, [r |-> Create(0, 3, found[p], {}), w |-> <<>>, d |-> found[p], f |-> {found[p]}],
                           v[p], FALSE)
<1>1. /\ sub' = [p \in Paths |-> IF p \in loaded THEN st(p).r ELSE Blank]
      /\ store' = [p \in Paths |-> IF p \in loaded THEN st(p).d ELSE NoRecord]
  BY DEF Restart
<1>2. v \in [Paths -> Nat]
  BY BoundAssumption DEF SavedValues
<1>3. ASSUME NEW p \in loaded PROVE MirroredState(st(p))
  <2> DEFINE c == Create(0, 3, found[p], {})
             t == [r |-> c, w |-> <<>>, d |-> found[p], f |-> {found[p]}]
  <2>1. /\ found[p] \in Seq(Nat) /\ {found[p]} \in Files
        /\ 0 \in Sids /\ {} \in SUBSET Nat /\ 3 \in 0..3 /\ v[p] \in Nat
    BY <1>2, SidAssumption, FoundType DEF Files
  <2>2. c \in SubRequester /\ c.qos = 3
    BY <2>1, CreateType
  <2>3. c.qosQueue = found[p]
    BY DEF Create, Blank
  <2> HIDE DEF c
  <2>4. t \in DeliveryState /\ t.r = c /\ t.d = found[p]
    BY <2>1, <2>2 DEF DeliveryState
  <2>5. st(p) = AddNew(p, t, v[p], FALSE)
    BY DEF c
  <2> HIDE DEF t, st
  <2>6. MirroredState(t)
    BY <2>2, <2>3, <2>4 DEF MirroredState, Mirrored
  <2> QED BY <2>1, <2>4, <2>5, <2>6, UpdateSubReqMirrored DEF AddNew
<1> HIDE DEF st
<1> SUFFICES ASSUME NEW p \in Paths PROVE Mirrored(sub'[p], store'[p])
  BY DEF MirrorInv
<1>4. CASE p \in loaded
  BY <1>1, <1>3, <1>4 DEF MirroredState
<1>5. CASE p \notin loaded
  BY <1>1, <1>5, BlankMirrored
<1> QED BY <1>4, <1>5

LEMMA MirrorKept == TypeOK /\ MirrorInv /\ [Next]_vars => MirrorInv'
<1> SUFFICES ASSUME TypeOK, MirrorInv, [Next]_vars PROVE MirrorInv'
  OBVIOUS
<1>1. ASSUME NEW p \in Paths, Publish(p) PROVE MirrorInv'
  BY <1>1, PublishMirrors
<1>2. ASSUME NEW p \in Paths, NEW s \in Sids, NEW q \in QosLevels, Subscribe(p, s, q)
      PROVE  MirrorInv'
  BY <1>2, SubscribeMirrors
<1>3. ASSUME NEW s \in Sids, Unsubscribe(s) PROVE MirrorInv'
  BY <1>3, UnsubscribeMirrors
<1>4. ASSUME NEW n \in 1..Len(wire), Ack(n) PROVE MirrorInv'
  BY <1>4, AckMirrors
<1>5. CASE AckStep
  BY <1>5, AckStepMirrors
<1>6. CASE Connect
  BY <1>6 DEF Connect, MirrorInv
<1>7. CASE Disconnect
  BY <1>7, DisconnectMirrors
<1>8. ASSUME NEW v \in SavedValues, NEW found \in FoundFiles, Restart(v, found) PROVE MirrorInv'
  BY <1>8, RestartMirrors
<1>9. CASE UNCHANGED vars
  BY <1>9 DEF vars, MirrorInv
<1>10. ASSUME NEW p \in Paths, SaveEnds(p) PROVE MirrorInv'
  BY <1>10, SaveEndsOnly DEF MirrorInv
<1> QED BY <1>1, <1>2, <1>3, <1>4, <1>5, <1>6, <1>7, <1>8, <1>9, <1>10 DEF Next, Restarts

\* The stored record of a subscription of qos 3 is what is queued in memory, and a
\* record of any other path holds nothing, whatever the updates, overflows,
\* changes of qos and sid, disconnections and restarts were
\* (subscription.c:110-165, 337-350, node_serialization.c:118): what a restart
\* delivers is what was not delivered before.
THEOREM StoreMirrorsAlways == Spec => []StoreMirrors
<1>1. Init => MirrorInv
  BY BlankMirrored DEF Init, MirrorInv
<1>2. TypeOK /\ MirrorInv /\ [Next]_vars => MirrorInv'
  BY MirrorKept
<1> QED BY <1>1, <1>2, MirrorInvImplies, TypeCorrect, PTL DEF Spec

-----------------------------------------------------------------------------
(***************************************************************************)
(* What is stored for an absent requester. A step of KeptUntilSent: what   *)
(* the queue of a subscription r loses from r to t is in the messages of t *)
(* after the first m, or the queue was full.                               *)
(***************************************************************************)
Kept(p, r, m, t) ==
  \A v \in Elements(r.qosQueue) :
    \/ v \in Elements(t.r.qosQueue)
    \/ v \in ValuesSent(t.w, p, m + 1, Len(t.w))
    \/ Len(r.qosQueue) >= QueueSize

KeptStep ==
  \A p \in live \cap live' : \A v \in Elements(sub[p].qosQueue) :
    \/ v \in Elements(sub'[p].qosQueue)
    \/ v \in ValuesSent(wire', p, Len(wire) + 1, Len(wire'))
    \/ Len(sub[p].qosQueue) >= QueueSize

\* Only an update for an absent requester changes the queue.
LEMMA UpdateSubReqKeeps ==
  ASSUME NEW p \in Paths, NEW st \in DeliveryState, NEW v \in Nat, NEW up \in BOOLEAN
  PROVE  LET t == UpdateSubReq(p, st, v, up) IN
         \/ t.r.qosQueue = st.r.qosQueue
         \/ Len(st.r.qosQueue) >= QueueSize
         \/ ~up /\ t.r.qosQueue = Append(st.r.qosQueue, v)
<1> DEFINE r1 == [st.r EXCEPT !.owed = @ \cup {v}]
           o  == With(st, r1)
           r3 == AddToMessageQueue(r1, v)
           o2 == With(o, AddToMessageQueue(o.r, v))
           r4 == [o.r EXCEPT !.qosQueue = Append(@, v)]
<1>1. r1 \in SubRequester /\ r1.qosQueue = st.r.qosQueue
  BY DeliveryFields DEF SubRequester
<1>2. UpdateSubReq(p, st, v, up) = IF st.r.qos <= 2 THEN SendQueued(p, o2, up)
                                   ELSE IF up THEN SendMessage(p, o, v)
                                   ELSE AppendToQosQueue(o, v)
  BY DEF UpdateSubReq
<1>3. AppendToQosQueue(o, v) =
        IF Len(o.r.qosQueue) >= QueueSize THEN ClearQosQueue(o) ELSE Serialize(With(o, r4))
  BY DEF AppendToQosQueue
<1> HIDE DEF r1
<1>4. o \in DeliveryState /\ o.r = r1
  BY <1>1, WithType
<1> HIDE DEF o
<1>5. r3 \in SubRequester /\ r3.qosQueue = r1.qosQueue
  BY <1>1, AddToMessageQueueType DEF AddToMessageQueue, SubRequester
<1> HIDE DEF r3
<1>6. o2 \in DeliveryState /\ o2.r = r3
  BY <1>4, <1>5, WithType DEF r3
<1> HIDE DEF o2
<1>7. SendQueued(p, o2, up).r.qosQueue = st.r.qosQueue
  BY <1>1, <1>5, <1>6, SendQueuedStorage DEF SameStorage
<1>8. SendMessage(p, o, v).r.qosQueue = st.r.qosQueue
  BY <1>1, <1>4, SendMessageStorage DEF SameStorage
<1>9. Len(st.r.qosQueue) < QueueSize =>
        AppendToQosQueue(o, v).r.qosQueue = Append(st.r.qosQueue, v)
  <2> SUFFICES ASSUME Len(st.r.qosQueue) < QueueSize
               PROVE  AppendToQosQueue(o, v).r.qosQueue = Append(st.r.qosQueue, v)
    OBVIOUS
  <2>1. r4 \in SubRequester /\ r4.qosQueue = Append(st.r.qosQueue, v)
    <3>1. o.r \in SubRequester /\ o.r.qosQueue = st.r.qosQueue
      BY <1>1, <1>4
    <3>2. Append(o.r.qosQueue, v) \in Seq(Nat)
      BY <3>1, DeliveryFields
    <3> QED BY <3>1, <3>2 DEF SubRequester
  <2> HIDE DEF r4
  <2>2. With(o, r4) \in DeliveryState /\ With(o, r4).r = r4
    BY <1>4, <2>1, WithType
  <2>3. Serialize(With(o, r4)).r = r4
    BY <2>2, SerializeType
  <2>4. ~(Len(o.r.qosQueue) >= QueueSize)
    BY <1>1, <1>4, SizeAssumption, DeliveryFields
  <2> QED BY <1>3, <2>1, <2>3, <2>4
<1>10. Len(st.r.qosQueue) \in Nat
  BY DeliveryFields
<1> QED BY <1>2, <1>7, <1>8, <1>9, <1>10, SizeAssumption

\* A value that is queued removes none.
LEMMA AppendElements ==
  ASSUME NEW q \in Seq(Nat), NEW v \in Nat
  PROVE  Elements(q) \subseteq Elements(Append(q, v))
<1>1. \A i \in DOMAIN q : i \in DOMAIN Append(q, v) /\ Append(q, v)[i] = q[i]
  BY AppendProperties
<1> QED BY <1>1 DEF Elements

LEMMA UpdateSubReqKept ==
  ASSUME NEW p \in Paths, NEW st \in DeliveryState, NEW v \in Nat, NEW up \in BOOLEAN, NEW m
  PROVE  Kept(p, st.r, m, UpdateSubReq(p, st, v, up))
<1> DEFINE t == UpdateSubReq(p, st, v, up)
<1>1. \/ t.r.qosQueue = st.r.qosQueue
      \/ Len(st.r.qosQueue) >= QueueSize
      \/ t.r.qosQueue = Append(st.r.qosQueue, v)
  BY UpdateSubReqKeeps
<1>2. Elements(st.r.qosQueue) \subseteq Elements(Append(st.r.qosQueue, v))
  BY DeliveryFields, AppendElements
<1> HIDE DEF t
<1>3. Kept(p, st.r, m, t)
  BY <1>1, <1>2 DEF Kept
<1> QED BY <1>3 DEF t

\* The whole queue goes out in one message.
LEMMA FlushQosQueueKept ==
  ASSUME NEW p \in Paths, NEW st \in DeliveryState, NEW m \in Nat, m <= Len(st.w)
  PROVE  Kept(p, st.r, m, FlushQosQueue(p, st))
<1> DEFINE u  == Update(p, st.r.sid, st.r.qosQueue)
           w2 == Append(st.w, u)
           t  == [r |-> st.r, w |-> w2, d |-> st.d, f |-> st.f]
           r2 == [t.r EXCEPT !.qosQueue = <<>>]
<1>1. u \in Message /\ u.path = p /\ u.vals = st.r.qosQueue
  BY UpdateType, DeliveryFields DEF Update
<1>2. ClearQosQueue(t) = IF t.r.qos > 2 THEN Serialize(With(t, r2)) ELSE With(t, r2)
  BY DEF ClearQosQueue
<1>3. FlushQosQueue(p, st) = ClearQosQueue(t)
  BY DEF FlushQosQueue
<1>4. ClearQosQueue(t).w = w2
  <2> HIDE DEF w2, r2
  <2>1. With(t, r2).w = w2 /\ Serialize(With(t, r2)).w = w2
    BY DEF With, Serialize
  <2> QED BY <1>2, <2>1
<1> HIDE DEF u
<1>5. w2 \in Seq(Message) /\ Len(w2) = Len(st.w) + 1 /\ w2[Len(w2)] = u
  BY <1>1, DeliveryFields
<1>6. Len(w2) \in m + 1 .. Len(w2)
  BY <1>5, DeliveryFields
<1> HIDE DEF w2, t, r2
<1>7. Elements(st.r.qosQueue) \subseteq ValuesSent(w2, p, m + 1, Len(w2))
  BY <1>1, <1>5, <1>6 DEF Elements, ValuesSent
<1> QED BY <1>3, <1>4, <1>7 DEF Kept

LEMMA FreeAndSetKept ==
  ASSUME TypeOK, NEW o, NEW p \in Paths, NEW st \in DeliveryState, FreeAndSet(o, p, st),
         p \in live => Kept(p, sub[p], Len(wire), st), o \notin live'
  PROVE  KeptStep
<1>1. /\ sub' = [x \in Paths |-> IF x = p THEN st.r ELSE IF x = o THEN Blank ELSE sub[x]]
      /\ wire' = st.w
  BY DEF FreeAndSet
<1> SUFFICES ASSUME NEW x \in live \cap live', NEW v \in Elements(sub[x].qosQueue)
             PROVE  \/ v \in Elements(sub'[x].qosQueue)
                    \/ v \in ValuesSent(wire', x, Len(wire) + 1, Len(wire'))
                    \/ Len(sub[x].qosQueue) >= QueueSize
  BY DEF KeptStep
<1>2. x \in Paths /\ x # o
  BY DEF TypeOK
<1>3. CASE x = p
  BY <1>1, <1>2, <1>3 DEF Kept
<1>4. CASE x # p
  BY <1>1, <1>2, <1>4
<1> QED BY <1>3, <1>4

\* A step that leaves the queues of all that live on.
LEMMA QueuesKept ==
  ASSUME \A p \in live \cap live' : sub'[p].qosQueue = sub[p].qosQueue
  PROVE  KeptStep
BY DEF KeptStep

LEMMA PublishKept ==
  ASSUME TypeOK, NEW p \in Paths, Publish(p)
  PROVE  KeptStep
<1>1. CASE p \in live
  <2> DEFINE st == UpdateSubReq(p, State(p), value'[p], link)
  <2>1. FreeAndSet(NoPath, p, st) /\ live' = live
    BY <1>1 DEF Publish, SetState
  <2>2. value'[p] \in Nat /\ link \in BOOLEAN
    BY DEF Publish, TypeOK
  <2>3. st \in DeliveryState
    BY <2>2, StateType, UpdateSubReqType
  <2>4. Kept(p, sub[p], Len(wire), st)
    <3>1. State(p) \in DeliveryState /\ State(p).r = sub[p]
      BY StateType
    <3>2. Kept(p, State(p).r, Len(wire), st)
      BY <2>2, <3>1, UpdateSubReqKept
    <3> HIDE DEF st
    <3> QED BY <3>1, <3>2
  <2>5. NoPath \notin live'
    BY <2>1, PathAssumption DEF TypeOK
  <2> HIDE DEF st
  <2> QED BY <2>1, <2>3, <2>4, <2>5, FreeAndSetKept
<1>2. CASE p \notin live
  BY <1>2, QueuesKept DEF Publish
<1> QED BY <1>1, <1>2

LEMMA ResubscribeKept ==
  ASSUME TypeOK, NEW p \in Paths, NEW s \in Sids, NEW q \in QosLevels, Resubscribe(p, s, q)
  PROVE  KeptStep
<1> DEFINE o  == sids[s]
           r1 == [sub[p] EXCEPT !.sid = s]
           a  == With(Answered(p), r1)
           st == UpdateSubQos(a, q)
<1>1. r1 \in SubRequester /\ r1.qosQueue = sub[p].qosQueue
  <2>1. sub[p] \in SubRequester
    BY DEF TypeOK
  <2> QED BY <2>1 DEF SubRequester
<1>2. /\ o \notin live'
      /\ \/ FreeAndSet(o, p, FlushQosQueue(p, st))
         \/ FreeAndSet(o, p, SendQueued(p, st, TRUE))
         \/ FreeAndSet(o, p, UpdateSubReq(p, st, value[p], TRUE))
         \/ FreeAndSet(o, p, st)
  BY DEF Resubscribe
<1> HIDE DEF r1, o
<1>3. Answered(p) \in DeliveryState /\ Answered(p).w = Append(wire, ClosedResponse)
  BY StateType DEF Answered
<1>4. a \in DeliveryState /\ a.r = r1 /\ a.w = Answered(p).w
  BY <1>1, <1>3, WithType
<1> HIDE DEF a
<1>5. q \in 0..3 /\ value[p] \in Nat /\ wire \in Seq(Message)
  BY QosAssumption DEF TypeOK
<1>6. st \in DeliveryState /\ st.r = [a.r EXCEPT !.qos = q] /\ st.w = a.w
  BY <1>4, <1>5, UpdateSubQosType
<1> HIDE DEF st
<1>7. st.r.qosQueue = sub[p].qosQueue
  BY <1>1, <1>4, <1>6 DEF SubRequester
<1>8. Len(wire) \in Nat /\ Len(wire) <= Len(st.w)
  BY <1>3, <1>4, <1>5, <1>6, ClosedResponseType
<1>9. \A t : Kept(p, st.r, Len(wire), t) => Kept(p, sub[p], Len(wire), t)
  BY <1>7 DEF Kept
<1>10. FlushQosQueue(p, st) \in DeliveryState /\ Kept(p, st.r, Len(wire), FlushQosQueue(p, st))
  BY <1>6, <1>8, FlushQosQueueType, FlushQosQueueKept
<1>11. SendQueued(p, st, TRUE) \in DeliveryState /\ Kept(p, st.r, Len(wire), SendQueued(p, st, TRUE))
  BY <1>6, SendQueuedType, SendQueuedStorage DEF SameStorage, Kept
<1>12. /\ UpdateSubReq(p, st, value[p], TRUE) \in DeliveryState
       /\ Kept(p, st.r, Len(wire), UpdateSubReq(p, st, value[p], TRUE))
  BY <1>5, <1>6, UpdateSubReqType, UpdateSubReqKept
<1>13. Kept(p, st.r, Len(wire), st)
  BY DEF Kept
<1> QED BY <1>2, <1>6, <1>9, <1>10, <1>11, <1>12, <1>13, FreeAndSetKept

LEMMA SubscribeKept ==
  ASSUME TypeOK, NEW p \in Paths, NEW s \in Sids, NEW q \in QosLevels, Subscribe(p, s, q)
  PROVE  KeptStep
<1>1. CASE SubscribeSame(p, s, q)
  <2> DEFINE st == UpdateSubQos(Answered(p), q)
  <2>1. FreeAndSet(NoPath, p, st) /\ live' = live
    BY <1>1 DEF SubscribeSame, SetState
  <2>2. Answered(p) \in DeliveryState /\ Answered(p).r = sub[p] /\ q \in 0..3
    BY StateType, QosAssumption
  <2>3. st \in DeliveryState /\ st.r = [sub[p] EXCEPT !.qos = q]
    BY <2>2, UpdateSubQosType
  <2> HIDE DEF st
  <2>4. st.r.qosQueue = sub[p].qosQueue
    BY <2>3 DEF TypeOK, SubRequester
  <2>5. sub'[p] = st.r /\ \A x \in Paths \ {p} : sub'[x] = sub[x]
    BY <2>1, <2>3, SetStateSub
  <2>6. \A x \in live \cap live' : sub'[x].qosQueue = sub[x].qosQueue
    BY <2>4, <2>5 DEF TypeOK
  <2> QED BY <2>6, QueuesKept
<1>2. ASSUME NEW block \in FreedWith(sids[s]) \cup {{}}, SubscribeNew(p, s, q, block)
      PROVE  KeptStep
  <2> DEFINE o  == sids[s]
             ok == With(Answered(p), Create(s, q, <<>>, block))
             st == AddNew(p, IF q > 2 THEN Serialize(ok) ELSE ok, value[p], TRUE)
  <2>1. p \notin live /\ live' = (live \ {o}) \cup {p} /\ FreeAndSet(o, p, st)
    BY <1>2 DEF SubscribeNew
  <2>2. sub' = [x \in Paths |-> IF x = p THEN st.r ELSE IF x = o THEN Blank ELSE sub[x]]
    BY <2>1 DEF FreeAndSet
  <2> HIDE DEF o, st
  <2>3. \A x \in live \cap live' : x # p /\ x # o /\ x \in Paths
    BY <2>1 DEF TypeOK
  <2>4. \A x \in live \cap live' : sub'[x].qosQueue = sub[x].qosQueue
    BY <2>2, <2>3
  <2> QED BY <2>4, QueuesKept
<1> QED BY <1>1, <1>2, ResubscribeKept DEF Subscribe

LEMMA UnsubscribeKept ==
  ASSUME TypeOK, NEW s \in Sids, Unsubscribe(s)
  PROVE  KeptStep
<1>1. /\ sub' = [x \in Paths |-> IF x = sids[s] THEN Blank ELSE sub[x]]
      /\ live' = live \ {sids[s]}
  BY DEF Unsubscribe
<1>2. \A x \in live \cap live' : sub'[x].qosQueue = sub[x].qosQueue
  BY <1>1 DEF TypeOK
<1> QED BY <1>2, QueuesKept

LEMMA AckKept ==
  ASSUME TypeOK, NEW n \in 1..Len(wire), Ack(n)
  PROVE  KeptStep
<1>1. sub' = [p \in Paths |->
                IF p \in live
                  THEN [sub[p] EXCEPT !.got = @ \cup ValuesSent(wire, p, acked + 1, n)]
                  ELSE sub[p]]
  BY DEF Ack
<1>2. ASSUME NEW p \in live PROVE sub'[p].qosQueue = sub[p].qosQueue
  <2>1. p \in Paths /\ sub[p] \in SubRequester
    BY DEF TypeOK
  <2> HIDE DEF ValuesSent
  <2>2. sub'[p] = [sub[p] EXCEPT !.got = @ \cup ValuesSent(wire, p, acked + 1, n)]
    BY <1>1, <2>1
  <2> QED BY <2>1, <2>2 DEF SubRequester
<1> QED BY <1>2, QueuesKept

LEMMA AckStepKept ==
  ASSUME TypeOK, AckStep
  PROVE  KeptStep
<1> DEFINE id == Max(Covered(ackUpTo))
<1>1. (\E p \in Paths : SetState(p, AckOne(p, State(p), id))) \/ sub' = sub
  BY DEF AckStep
<1> HIDE DEF id
<1>2. ASSUME NEW p \in Paths, SetState(p, AckOne(p, State(p), id))
      PROVE  \A x \in Paths : sub'[x].qosQueue = sub[x].qosQueue
  <2>1. /\ AckOne(p, State(p), id) \in DeliveryState
        /\ AckOne(p, State(p), id).r.qosQueue = sub[p].qosQueue
    BY StateType, AckOneType, AckOneStorage DEF SameStorage
  <2>2. FreeAndSet(NoPath, p, AckOne(p, State(p), id))
    BY <1>2 DEF SetState
  <2>3. /\ sub'[p] = AckOne(p, State(p), id).r
        /\ \A x \in Paths \ {p} : sub'[x] = sub[x]
    BY <2>1, <2>2, SetStateSub
  <2> QED BY <2>1, <2>3
<1> QED BY <1>1, <1>2, QueuesKept DEF TypeOK

LEMMA DisconnectKept ==
  ASSUME TypeOK, Disconnect
  PROVE  KeptStep
<1>1. sub' = [p \in Paths |->
                IF p \in live'
                  THEN [ClearMessageIds(sub[p]) EXCEPT !.sid = Unset, !.pend = {}]
                  ELSE Blank]
  BY DEF Disconnect
<1>2. ASSUME NEW p \in live \cap live' PROVE sub'[p].qosQueue = sub[p].qosQueue
  <2> DEFINE c == ClearMessageIds(sub[p])
  <2>1. p \in Paths /\ sub[p] \in SubRequester
    BY DEF TypeOK
  <2>2. c \in SubRequester
    BY <2>1, ClearMessageIdsType
  <2>3. c.qosQueue = sub[p].qosQueue
    BY <2>1 DEF ClearMessageIds, SubRequester
  <2>4. sub'[p] = [c EXCEPT !.sid = Unset, !.pend = {}]
    BY <1>1, <2>1
  <2> HIDE DEF c
  <2> QED BY <2>2, <2>3, <2>4 DEF SubRequester
<1> QED BY <1>2, QueuesKept

\* A restart finds in a file no save is under way for what was in memory.
LEMMA RestartKept ==
  ASSUME TypeOK, MirrorInv, NEW v \in SavedValues, NEW found \in FoundFiles, Restart(v, found),
         NEW p \in live, OnDisk(p), NEW e \in Elements(sub[p].qosQueue)
  PROVE  \/ p \in live' /\ e \in Elements(sub'[p].qosQueue)
         \/ Len(sub[p].qosQueue) >= QueueSize
<1> DEFINE loaded == {x \in Paths : found[x] \notin {NoRecord, Torn}}
           t(x)  == [r |-> Create(0, 3, found[x], {}), w |-> <<>>, d |-> found[x],
                     f |-> {found[x]}]
           st(x) == AddNew(x, t(x), v[x], FALSE)
<1>1. live' = loaded /\ sub' = [x \in Paths |-> IF x \in loaded THEN st(x).r ELSE Blank]
  BY DEF Restart
<1>2. p \in Paths /\ v \in [Paths -> Nat]
  BY BoundAssumption DEF SavedValues, TypeOK
<1>3. found[p] = sub[p].qosQueue
  <2>1. found[p] = store[p] /\ sub[p].qos = 3
    BY <1>2, FoundType DEF OnDisk
  <2>2. Mirrored(sub[p], store[p])
    BY <1>2 DEF MirrorInv
  <2> QED BY <2>1, <2>2 DEF Mirrored
<1>4. found[p] \in Seq(Nat)
  <2>1. sub[p] \in SubRequester
    BY <1>2 DEF TypeOK
  <2> QED BY <1>3, <2>1 DEF SubRequester
<1>5. p \in live' /\ sub'[p] = st(p).r
  BY <1>1, <1>2, <1>4, RecordAssumption
<1>6. /\ {found[p]} \in Files
      /\ 0 \in Sids /\ {} \in SUBSET Nat /\ 3 \in 0..3 /\ v[p] \in Nat
  BY <1>2, <1>4, SidAssumption DEF Files
<1>7. t(p) \in DeliveryState /\ t(p).r.qosQueue = found[p]
  <2> DEFINE c == Create(0, 3, found[p], {})
  <2>1. c \in SubRequester
    BY <1>4, <1>6, CreateType
  <2>2. c.qosQueue = found[p]
    BY DEF Create, Blank
  <2> HIDE DEF c
  <2>3. [r |-> c, w |-> <<>>, d |-> found[p], f |-> {found[p]}] \in DeliveryState
    BY <1>4, <1>6, <2>1 DEF DeliveryState
  <2> QED BY <2>2, <2>3 DEF c
<1> HIDE DEF t
<1>8. \/ st(p).r.qosQueue = found[p]
      \/ Len(found[p]) >= QueueSize
      \/ st(p).r.qosQueue = Append(found[p], v[p])
  BY <1>2, <1>6, <1>7, UpdateSubReqKeeps DEF AddNew
<1> HIDE DEF st
<1>9. Elements(found[p]) \subseteq Elements(Append(found[p], v[p]))
  BY <1>4, <1>6, AppendElements
<1> QED BY <1>3, <1>5, <1>8, <1>9

\* What KeptUntilSent says of a step.
KeptRule ==
  \A p \in live : \A v \in Elements(sub[p].qosQueue) :
    \/ p \in live' /\ v \in Elements(sub'[p].qosQueue)
    \/ v \in ValuesSent(wire', p, Len(wire) + 1, Len(wire'))
    \/ Len(sub[p].qosQueue) >= QueueSize
    \/ p \notin live' /\ ~Restarts
    \/ Restarts /\ ~OnDisk(p)

\* A value stored for an absent requester of qos 3 leaves the queue of a subscription
\* that lives on only in a message to the requester or when the full queue is destroyed
\* (subscription.c:345), for any interleaving of updates, changes of qos and sid,
\* disconnections, saves of its file (json_file.c:107-158) and restarts of the broker;
\* a restart keeps the subscription and its values if no save was under way and its
\* file parses.
THEOREM KeptUntilSentAlways == Spec => KeptUntilSent
<1>1. Init => MirrorInv
  BY BlankMirrored DEF Init, MirrorInv
<1>2. TypeOK /\ MirrorInv /\ [Next]_vars => MirrorInv'
  BY MirrorKept
<1>3. TypeOK /\ MirrorInv /\ [Next]_vars => [KeptRule]_vars
  <2> SUFFICES ASSUME TypeOK, MirrorInv, Next PROVE KeptRule
    OBVIOUS
  <2>1. CASE Restarts
    <3>1. PICK v \in SavedValues, found \in FoundFiles : Restart(v, found)
      BY <2>1 DEF Restarts
    <3>2. ASSUME NEW p \in live, OnDisk(p), NEW e \in Elements(sub[p].qosQueue)
          PROVE  \/ p \in live' /\ e \in Elements(sub'[p].qosQueue)
                 \/ Len(sub[p].qosQueue) >= QueueSize
      BY <3>1, <3>2, RestartKept
    <3> QED BY <2>1, <3>2 DEF KeptRule
  <2>2. CASE ~Restarts
    <3>1. ASSUME NEW p \in Paths, Publish(p) PROVE KeptStep
      BY <3>1, PublishKept
    <3>2. ASSUME NEW p \in Paths, NEW s \in Sids, NEW q \in QosLevels, Subscribe(p, s, q)
          PROVE  KeptStep
      BY <3>2, SubscribeKept
    <3>3. ASSUME NEW s \in Sids, Unsubscribe(s) PROVE KeptStep
      BY <3>3, UnsubscribeKept
    <3>4. ASSUME NEW n \in 1..Len(wire), Ack(n) PROVE KeptStep
      BY <3>4, AckKept
    <3>5. ASSUME AckStep PROVE KeptStep
      BY <3>5, AckStepKept
    <3>6. ASSUME Connect PROVE KeptStep
      BY <3>6, QueuesKept DEF Connect
    <3>7. ASSUME Disconnect PROVE KeptStep
      BY <3>7, DisconnectKept
    <3>8. ASSUME NEW p \in Paths, SaveEnds(p) PROVE KeptStep
      BY <3>8, SaveEndsOnly, QueuesKept
    <3>9. KeptStep
      BY <2>2, <3>1, <3>2, <3>3, <3>4, <3>5, <3>6, <3>7, <3>8 DEF Next
    <3> QED BY <2>2, <3>9 DEF KeptRule, KeptStep
  <2> QED BY <2>1, <2>2
<1> QED BY <1>1, <1>2, <1>3, TypeCorrect, PTL DEF Spec, KeptUntilSent, KeptRule

-----------------------------------------------------------------------------
(***************************************************************************)
(* The order and the completeness of delivery of qos 0-2. First, what the  *)
(* functions of subscription.c append to the session log.                  *)
(***************************************************************************)

\* x is w with messages for the path p under the sid s, or closed responses,
\* behind it.
Extends(w, x, p, s) ==
  /\ Len(w) <= Len(x)
  /\ \A m \in 1..Len(w) : x[m] = w[m]
  /\ \A m \in Len(w) + 1..Len(x) :
       x[m] = ClosedResponse \/ (x[m].path = p /\ x[m].sid = s /\ s \in Sids)

LEMMA ExtendsTransitive ==
  ASSUME NEW u \in Seq(Message), NEW w \in Seq(Message), NEW x \in Seq(Message),
         NEW p, NEW s, Extends(u, w, p, s), Extends(w, x, p, s)
  PROVE  Extends(u, x, p, s)
<1>1. Len(u) \in Nat /\ Len(w) \in Nat /\ Len(x) \in Nat
  OBVIOUS
<1>2. Len(u) <= Len(w) /\ Len(w) <= Len(x)
  BY DEF Extends
<1>3. ASSUME NEW m \in 1..Len(u) PROVE x[m] = u[m]
  <2>1. m \in 1..Len(w)
    BY ONLY <1>1, <1>2, m \in 1..Len(u)
  <2> QED BY <2>1 DEF Extends
<1>4. ASSUME NEW m \in Len(u) + 1..Len(x)
      PROVE  x[m] = ClosedResponse \/ (x[m].path = p /\ x[m].sid = s /\ s \in Sids)
  <2>1. m \in Len(u) + 1..Len(w) \/ m \in Len(w) + 1..Len(x)
    BY ONLY <1>1, <1>2, m \in Len(u) + 1..Len(x)
  <2>2. m \in Len(u) + 1..Len(w) => m \in 1..Len(w)
    BY ONLY <1>1
  <2> QED BY <2>1, <2>2 DEF Extends
<1> QED BY ONLY <1>1, <1>2, <1>3, <1>4 DEF Extends

\* Every queued message has a value and an id.
LEMMA QueueFields ==
  ASSUME NEW r \in SubRequester
  PROVE  /\ r.queue \in Seq(QueuedMessage) /\ Len(r.queue) \in Nat /\ r.out \in Nat
         /\ \A i \in 1..Len(r.queue) : r.queue[i].val \in Nat /\ r.queue[i].id \in Nat
<1>1. r.queue \in Seq(QueuedMessage) /\ Len(r.queue) \in Nat /\ r.out \in Nat
  BY SizeAssumption DEF SubRequester
<1>2. ASSUME NEW i \in 1..Len(r.queue) PROVE r.queue[i].val \in Nat /\ r.queue[i].id \in Nat
  <2>1. r.queue[i] \in QueuedMessage
    BY <1>1
  <2> QED BY <2>1 DEF QueuedMessage
<1> QED BY <1>1, <1>2

LEMMA UpdateFields ==
  ASSUME NEW p, NEW s, NEW vs
  PROVE  Update(p, s, vs).path = p /\ Update(p, s, vs).sid = s /\ Update(p, s, vs).vals = vs
BY DEF Update

\* What sendQueuedMessages does, entry by entry and message by message.
LEMMA SendQueuedFields ==
  ASSUME NEW p \in Paths, NEW st \in DeliveryState, NEW up \in BOOLEAN
  PROVE  LET t == SendQueued(p, st, up) IN
         /\ t.r.out = IF up /\ st.r.sid # Unset THEN StopAt(st.r) ELSE st.r.out
         /\ t.r.qosQueue = st.r.qosQueue /\ t.r.owed = st.r.owed /\ t.r.got = st.r.got
         /\ Len(t.r.queue) = Len(st.r.queue)
         /\ \A i \in 1..Len(st.r.queue) :
              /\ t.r.queue[i].val = st.r.queue[i].val
              /\ t.r.queue[i].id = IF i \in st.r.out + 1..t.r.out
                                     THEN Len(st.w) + i - st.r.out ELSE st.r.queue[i].id
         /\ \A m \in 1..Len(st.w) : t.w[m] = st.w[m]
         /\ \A m \in Len(st.w) + 1..Len(t.w) :
              t.w[m] = Update(p, st.r.sid, <<st.r.queue[st.r.out + (m - Len(st.w))].val>>)
<1> DEFINE n == IF up /\ st.r.sid # Unset THEN StopAt(st.r) ELSE st.r.out
           m == Len(st.w)
           more == m + 1 .. m + n - st.r.out
           q2 == MarkSent(st.r, n, m)
           r2 == [st.r EXCEPT !.out = n, !.pend = @ \cup more, !.queue = q2]
           s2 == SentUpdates(p, st.r, n)
           w2 == st.w \o s2
<1>1. /\ n \in Nat /\ st.r.out <= n
      /\ n = st.r.out \/ n <= Len(st.r.queue)
  BY DeliveryFields, StopAtBounds, SizeAssumption
<1>2. m \in Nat /\ st.r \in SubRequester /\ st.w \in Seq(Message)
  BY DeliveryFields
<1>3. SendQueued(p, st, up) = [r |-> r2, w |-> w2, d |-> st.d, f |-> st.f]
  BY DEF SendQueued
<1>q. /\ st.r.queue \in Seq(QueuedMessage) /\ Len(st.r.queue) \in Nat /\ st.r.out \in Nat
      /\ DOMAIN st.r.queue = 1..Len(st.r.queue)
  BY <1>2, QueueFields
<1> HIDE DEF n, more
<1>4. Len(q2) = Len(st.r.queue)
  BY <1>1, <1>2, MarkSentType
<1>5. ASSUME NEW i \in 1..Len(st.r.queue)
      PROVE  /\ q2[i].val = st.r.queue[i].val
             /\ q2[i].id = IF i \in st.r.out + 1..n THEN m + i - st.r.out ELSE st.r.queue[i].id
  <2>1. q2[i] = IF i \in st.r.out + 1..n THEN [st.r.queue[i] EXCEPT !.id = m + i - st.r.out]
                ELSE st.r.queue[i]
    BY <1>q DEF MarkSent
  <2>2. st.r.queue[i] \in QueuedMessage
    BY <1>q
  <2> HIDE DEF q2, m
  <2> QED BY <2>1, <2>2 DEF QueuedMessage
<1>6. s2 \in Seq(Message) /\ Len(s2) = n - st.r.out
  BY <1>1, <1>2, SentUpdatesType
<1>7. ASSUME NEW j \in 1..n - st.r.out
      PROVE  s2[j] = Update(p, st.r.sid, <<st.r.queue[st.r.out + j].val>>)
  BY DEF SentUpdates
<1> HIDE DEF q2, s2
<1>8. Len(w2) = m + (n - st.r.out)
  <2>1. Len(st.w \o s2) = Len(st.w) + Len(s2)
    BY <1>2, <1>6, ConcatProperties
  <2> QED BY <1>6, <2>1
<1>9. \A k \in 1..m : w2[k] = st.w[k]
  BY <1>2, <1>6
<1>10. ASSUME NEW k \in m + 1..Len(w2)
       PROVE  w2[k] = Update(p, st.r.sid, <<st.r.queue[st.r.out + (k - m)].val>>)
  <2>1. k - m \in 1..n - st.r.out
    BY ONLY <1>8, <1>2, <1>1, <1>q, k \in m + 1..Len(w2)
  <2>2. w2[k] = s2[k - m]
    BY <1>2, <1>6, <1>8
  <2> QED BY <1>7, <2>1, <2>2
<1>11. /\ r2.out = n /\ r2.queue = q2
       /\ r2.qosQueue = st.r.qosQueue /\ r2.owed = st.r.owed /\ r2.got = st.r.got
  BY <1>2 DEF SubRequester
<1> HIDE DEF r2, w2
<1>12. SendQueued(p, st, up).r = r2 /\ SendQueued(p, st, up).w = w2
  BY <1>3
<1> HIDE DEF SendQueued
<1> QED BY <1>4, <1>5, <1>9, <1>10, <1>11, <1>12 DEF n, m

LEMMA SendQueuedExtends ==
  ASSUME NEW p \in Paths, NEW st \in DeliveryState, NEW up \in BOOLEAN
  PROVE  Extends(st.w, SendQueued(p, st, up).w, p, st.r.sid)
<1> DEFINE t == SendQueued(p, st, up)
<1>1. /\ t.r.out = IF up /\ st.r.sid # Unset THEN StopAt(st.r) ELSE st.r.out
      /\ \A m \in 1..Len(st.w) : t.w[m] = st.w[m]
      /\ \A m \in Len(st.w) + 1..Len(t.w) :
           t.w[m] = Update(p, st.r.sid, <<st.r.queue[st.r.out + (m - Len(st.w))].val>>)
  BY SendQueuedFields
<1>2. st.r.out <= t.r.out /\ Len(t.w) = Len(st.w) + t.r.out - st.r.out /\ t \in DeliveryState
  BY SendQueuedType
<1> HIDE DEF t
<1>3. /\ Len(st.w) \in Nat /\ Len(t.w) \in Nat /\ st.r.out \in Nat /\ t.r.out \in Nat
      /\ st.r.sid \in Sids \cup {Unset}
  BY <1>2, DeliveryFields
<1>4. Len(st.w) <= Len(t.w)
  BY ONLY <1>2, <1>3
<1>5. ASSUME NEW m \in Len(st.w) + 1..Len(t.w)
      PROVE  t.w[m].path = p /\ t.w[m].sid = st.r.sid /\ st.r.sid \in Sids
  <2>1. t.r.out # st.r.out
    BY ONLY <1>2, <1>3, m \in Len(st.w) + 1..Len(t.w)
  <2>2. st.r.sid \in Sids
    BY <1>1, <1>3, <2>1
  <2>3. t.w[m] = Update(p, st.r.sid, <<st.r.queue[st.r.out + (m - Len(st.w))].val>>)
    BY <1>1
  <2> QED BY <2>2, <2>3, UpdateFields
<1> QED BY <1>1, <1>4, <1>5 DEF Extends, t

-----------------------------------------------------------------------------
\* QueueShape, of one subscription: a part in flight and a part not sent.
Shaped(r) ==
  /\ r.qosQueue = <<>>
  /\ r.out <= Len(r.queue)
  /\ \A i \in 1..Len(r.queue) : r.queue[i].id > 0 <=> i <= r.out
  /\ \A i, j \in 1..r.out : i < j => r.queue[i].id < r.queue[j].id
  /\ r.pend = {r.queue[i].id : i \in 1..r.out}

\* The queued values are in the order they were written, up to the last, v.
Rising(r, v) ==
  /\ \A i \in 1..Len(r.queue) : r.queue[i].val \in 1..v
  /\ \A i, j \in 1..Len(r.queue) : i < j => r.queue[i].val <= r.queue[j].val

\* An entry in flight is in the session log under its id.
Tracked(p, r, w) ==
  \A i \in 1..r.out : w[r.queue[i].id].path = p /\ w[r.queue[i].id].vals = <<r.queue[i].val>>

\* No message of p holds a value newer than one that is not sent.
Ahead(p, r, w) ==
  \A m \in 1..Len(w) : w[m].path = p =>
    \A a \in DOMAIN w[m].vals, i \in r.out + 1..Len(r.queue) :
      w[m].vals[a] <= r.queue[i].val

\* NothingLost, of one subscription.
Held(r) == r.owed \subseteq r.got \cup {r.queue[i].val : i \in 1..Len(r.queue)}

\* InOrder, of the messages of one path, and that they hold no value beyond v.
Logged(p, w, v) ==
  /\ \A m \in 1..Len(w) : w[m].path = p => \A a \in DOMAIN w[m].vals : w[m].vals[a] <= v
  /\ \A m, n \in 1..Len(w) : m < n /\ w[m].path = p /\ w[n].path = p =>
       \A a \in DOMAIN w[m].vals, b \in DOMAIN w[n].vals : w[m].vals[a] <= w[n].vals[b]

Ordered(p, r, w, v) ==
  Shaped(r) /\ Rising(r, v) /\ Tracked(p, r, w) /\ Ahead(p, r, w) /\ Held(r) /\ Logged(p, w, v)
OrderedState(p, st, v) == AccountedState(st) /\ Ordered(p, st.r, st.w, v)

\* Nothing waits while the window is open, and nothing is in flight without a link.
WindowUsed(r, up) ==
  /\ up /\ r.sid # Unset => r.out = SendWindow \/ r.out = Len(r.queue)
  /\ ~up => r.out = 0 /\ r.sid = Unset

LEMMA StopAtShaped ==
  ASSUME NEW r \in SubRequester, Shaped(r), r.out <= SendWindow
  PROVE  /\ StopAt(r) \in r.out..Len(r.queue)
         /\ StopAt(r) = SendWindow \/ StopAt(r) = Len(r.queue)
<1> DEFINE S == {i \in r.out .. r.out + Len(r.queue) :
                   i >= SendWindow \/ i >= Len(r.queue) \/ r.queue[i + 1].id > 0}
<1>1. /\ r.out \in Nat /\ Len(r.queue) \in Nat /\ r.out <= Len(r.queue) /\ SendWindow \in Nat
      /\ \A i \in 1..Len(r.queue) : r.queue[i].id > 0 <=> i <= r.out
  BY QueueFields, SizeAssumption DEF Shaped
<1>2. Len(r.queue) \in S /\ S \subseteq Nat
  BY ONLY <1>1
<1>3. StopAt(r) \in S /\ \A y \in S : StopAt(r) <= y
  <2>1. StopAt(r) = Min(S)
    BY DEF StopAt
  <2> HIDE DEF S
  <2> QED BY <1>2, <2>1, MinExists
<1>4. StopAt(r) \in Nat /\ r.out <= StopAt(r) /\ StopAt(r) <= Len(r.queue)
  BY <1>1, <1>2, <1>3
<1>5. StopAt(r) >= SendWindow \/ StopAt(r) >= Len(r.queue)
  <2>1. SUFFICES ASSUME StopAt(r) < Len(r.queue) PROVE ~(r.queue[StopAt(r) + 1].id > 0)
    BY ONLY <1>1, <1>3, <1>4, <2>1
  <2>2. StopAt(r) + 1 \in 1..Len(r.queue) /\ ~(StopAt(r) + 1 <= r.out)
    BY ONLY <1>1, <1>4, <2>1
  <2> QED BY ONLY <1>1, <2>2
<1>6. StopAt(r) <= SendWindow
  BY StopAtBounds
<1> QED BY ONLY <1>1, <1>4, <1>5, <1>6

LEMMA SendQueuedOrdered ==
  ASSUME NEW p \in Paths, NEW st \in DeliveryState, NEW up \in BOOLEAN, NEW v \in Nat,
         OrderedState(p, st, v)
  PROVE  /\ OrderedState(p, SendQueued(p, st, up), v)
         /\ up => WindowUsed(SendQueued(p, st, up).r, up)
         /\ ~up => SendQueued(p, st, up).r.out = st.r.out
<1> DEFINE t == SendQueued(p, st, up)
           r == st.r
           m == Len(st.w)
<1>1. /\ t.r.out = IF up /\ r.sid # Unset THEN StopAt(r) ELSE r.out
      /\ t.r.qosQueue = r.qosQueue /\ t.r.owed = r.owed /\ t.r.got = r.got
      /\ Len(t.r.queue) = Len(r.queue)
      /\ \A i \in 1..Len(r.queue) :
           /\ t.r.queue[i].val = r.queue[i].val
           /\ t.r.queue[i].id = IF i \in r.out + 1..t.r.out THEN m + i - r.out ELSE r.queue[i].id
      /\ \A k \in 1..m : t.w[k] = st.w[k]
      /\ \A k \in m + 1..Len(t.w) : t.w[k] = Update(p, r.sid, <<r.queue[r.out + (k - m)].val>>)
  BY SendQueuedFields
<1>2. /\ t \in DeliveryState /\ AccountedState(t) /\ t.r.sid = r.sid
      /\ Len(t.w) = m + t.r.out - r.out
      /\ t.r.pend = r.pend \cup (m + 1 .. Len(t.w))
  BY SendQueuedType, SendQueuedAccounted DEF OrderedState
<1> HIDE DEF t
<1>3. /\ Shaped(r) /\ Rising(r, v) /\ Tracked(p, r, st.w) /\ Ahead(p, r, st.w) /\ Held(r)
      /\ Logged(p, st.w, v)
      /\ r.pend \subseteq 1..m /\ r.out <= SendWindow
  BY DEF OrderedState, Ordered, AccountedState, Accounted
<1>4. r \in SubRequester /\ m \in Nat /\ r.sid \in Sids \cup {Unset}
  BY DeliveryFields
<1>5. /\ r.out \in Nat /\ Len(r.queue) \in Nat
      /\ \A i \in 1..Len(r.queue) : r.queue[i].val \in Nat /\ r.queue[i].id \in Nat
  BY <1>4, QueueFields
<1>6. t.r.out \in r.out..Len(r.queue)
  <2>1. StopAt(r) \in r.out..Len(r.queue)
    BY <1>3, <1>4, StopAtShaped
  <2>2. r.out \in r.out..Len(r.queue)
    BY <1>3, <1>5 DEF Shaped
  <2> HIDE DEF r
  <2> QED BY <1>1, <2>1, <2>2
<1>a. /\ Len(t.w) \in Nat /\ m \in Nat /\ r.out \in Nat /\ t.r.out \in Nat /\ Len(r.queue) \in Nat
      /\ Len(t.w) = m + t.r.out - r.out /\ r.out <= t.r.out /\ t.r.out <= Len(r.queue)
  BY <1>2, <1>4, <1>5, <1>6, DeliveryFields
<1>7. ASSUME up PROVE WindowUsed(t.r, up)
  BY <1>1, <1>2, <1>3, <1>4, <1>7, StopAtShaped DEF WindowUsed
<1> HIDE DEF r, m
<1>8. \A i \in 1..r.out : r.queue[i].id \in 1..m /\ t.r.queue[i].id = r.queue[i].id
  <2> SUFFICES ASSUME NEW i \in 1..r.out
               PROVE  r.queue[i].id \in 1..m /\ t.r.queue[i].id = r.queue[i].id
    OBVIOUS
  <2>1. r.queue[i].id \in r.pend
    BY <1>3 DEF Shaped
  <2>2. i \in 1..Len(r.queue) /\ ~(i \in r.out + 1..t.r.out)
    BY ONLY <1>5, <1>6
  <2> QED BY <1>1, <1>3, <2>1, <2>2
<1>9. \A i \in r.out + 1..t.r.out : t.r.queue[i].id = m + i - r.out /\ i \in 1..Len(r.queue)
  BY <1>1, <1>5, <1>6
<1>10. \A i \in t.r.out + 1..Len(r.queue) : t.r.queue[i].id = r.queue[i].id
  <2> SUFFICES ASSUME NEW i \in t.r.out + 1..Len(r.queue)
               PROVE  t.r.queue[i].id = r.queue[i].id
    OBVIOUS
  <2>1. i \in 1..Len(r.queue) /\ ~(i \in r.out + 1..t.r.out)
    BY ONLY <1>a, i \in t.r.out + 1..Len(r.queue)
  <2> QED BY <1>1, <2>1
<1>11. \A k \in m + 1..Len(t.w) :
         /\ r.out + (k - m) \in r.out + 1..t.r.out
         /\ t.w[k].path = p /\ t.w[k].vals = <<r.queue[r.out + (k - m)].val>>
  <2> SUFFICES ASSUME NEW k \in m + 1..Len(t.w)
               PROVE  /\ r.out + (k - m) \in r.out + 1..t.r.out
                      /\ t.w[k].path = p /\ t.w[k].vals = <<r.queue[r.out + (k - m)].val>>
    OBVIOUS
  <2>1. r.out + (k - m) \in r.out + 1..t.r.out
    BY ONLY <1>a, k \in m + 1..Len(t.w)
  <2>2. t.w[k] = Update(p, r.sid, <<r.queue[r.out + (k - m)].val>>)
    BY <1>1
  <2> QED BY <2>1, <2>2, UpdateFields
<1>12. Shaped(t.r)
  <2>1. \A i \in 1..Len(t.r.queue) : t.r.queue[i].id > 0 <=> i <= t.r.out
    <3> SUFFICES ASSUME NEW i \in 1..Len(r.queue)
                 PROVE  t.r.queue[i].id > 0 <=> i <= t.r.out
      BY <1>1
    <3>1. i \in 1..r.out \/ i \in r.out + 1..t.r.out \/ i \in t.r.out + 1..Len(r.queue)
      BY ONLY <1>5, <1>6
    <3>2. r.queue[i].id > 0 <=> i <= r.out
      BY <1>3 DEF Shaped
    <3>3. CASE i \in 1..r.out
      <4>1. t.r.queue[i].id \in 1..m
        BY <1>8, <3>3
      <4>2. t.r.queue[i].id > 0
        BY ONLY <1>a, <4>1
      <4>3. i <= t.r.out
        BY ONLY <1>a, <3>3
      <4> QED BY <4>2, <4>3
    <3>4. CASE i \in r.out + 1..t.r.out
      <4>1. t.r.queue[i].id = m + i - r.out
        BY <1>9, <3>4
      <4> QED BY ONLY <1>a, <3>4, <4>1
    <3>5. CASE i \in t.r.out + 1..Len(r.queue)
      <4>1. t.r.queue[i].id = r.queue[i].id
        BY <1>10, <3>5
      <4>2. ~(i <= r.out) /\ ~(i <= t.r.out)
        BY ONLY <1>a, <3>5
      <4> QED BY <3>2, <4>1, <4>2
    <3> QED BY <3>1, <3>3, <3>4, <3>5
  <2>2. ASSUME NEW i \in 1..t.r.out, NEW j \in 1..t.r.out, i < j
        PROVE  t.r.queue[i].id < t.r.queue[j].id
    <3>1. CASE j <= r.out
      <4>1. i \in 1..r.out /\ j \in 1..r.out
        BY ONLY <1>5, <1>6, <2>2, <3>1
      <4> QED BY <1>3, <1>8, <2>2, <4>1 DEF Shaped
    <3>2. CASE ~(j <= r.out)
      <4>1. j \in r.out + 1..t.r.out /\ (i \in 1..r.out \/ i \in r.out + 1..t.r.out)
        BY ONLY <1>5, <1>6, <2>2, <3>2
      <4>2. t.r.queue[j].id = m + j - r.out
        BY <1>9, <4>1
      <4>3. CASE i \in 1..r.out
        <5>1. t.r.queue[i].id \in 1..m
          BY <1>8, <4>3
        <5>2. m < m + j - r.out
          BY ONLY <1>a, <4>1
        <5>3. j \in Nat
          BY ONLY j \in 1..t.r.out
        <5>4. \A x \in 1..m : x < m + j - r.out
          BY ONLY <1>a, <5>2, <5>3
        <5> QED BY ONLY <4>2, <5>1, <5>4
      <4>4. CASE i \in r.out + 1..t.r.out
        <5>1. t.r.queue[i].id = m + i - r.out
          BY <1>9, <4>4
        <5>2. i \in Nat /\ j \in Nat
          BY ONLY i \in 1..t.r.out, j \in 1..t.r.out
        <5>3. m + i - r.out < m + j - r.out
          BY ONLY <1>a, <2>2, <5>2
        <5> QED BY ONLY <4>2, <5>1, <5>3
      <4> QED BY <4>1, <4>3, <4>4
    <3> QED BY <3>1, <3>2
  <2>3. t.r.pend = {t.r.queue[i].id : i \in 1..t.r.out}
    <3>1. r.pend = {r.queue[i].id : i \in 1..r.out}
      BY <1>3 DEF Shaped
    <3>2. \A k \in m + 1..Len(t.w) : \E i \in 1..t.r.out : t.r.queue[i].id = k
      <4> SUFFICES ASSUME NEW k \in m + 1..Len(t.w)
                   PROVE  \E i \in 1..t.r.out : t.r.queue[i].id = k
        OBVIOUS
      <4>1. r.out + (k - m) \in r.out + 1..t.r.out
        BY <1>11
      <4>2. t.r.queue[r.out + (k - m)].id = m + (r.out + (k - m)) - r.out
        BY <1>9, <4>1
      <4>3. m + (r.out + (k - m)) - r.out = k /\ r.out + (k - m) \in 1..t.r.out
        BY ONLY <1>a, k \in m + 1..Len(t.w)
      <4> QED BY <4>2, <4>3
    <3>3. \A i \in r.out + 1..t.r.out : t.r.queue[i].id \in m + 1..Len(t.w)
      <4> SUFFICES ASSUME NEW i \in r.out + 1..t.r.out
                   PROVE  t.r.queue[i].id \in m + 1..Len(t.w)
        OBVIOUS
      <4>1. t.r.queue[i].id = m + i - r.out
        BY <1>9
      <4> QED BY ONLY <1>a, <4>1, i \in r.out + 1..t.r.out
    <3>4. \A i \in 1..t.r.out : i \in 1..r.out \/ i \in r.out + 1..t.r.out
      BY ONLY <1>5, <1>6
    <3>5. \A i \in 1..r.out : i \in 1..t.r.out
      BY ONLY <1>5, <1>6
    <3> QED BY ONLY <1>2, <1>8, <3>1, <3>2, <3>3, <3>4, <3>5
  <2>4. t.r.qosQueue = <<>> /\ t.r.out <= Len(t.r.queue)
    BY <1>1, <1>3, <1>5, <1>6 DEF Shaped
  <2> QED BY ONLY <2>1, <2>2, <2>3, <2>4 DEF Shaped
<1>13. Rising(t.r, v)
  BY <1>1, <1>3 DEF Rising
<1>14. Tracked(p, t.r, t.w)
  <2> SUFFICES ASSUME NEW i \in 1..t.r.out
               PROVE  /\ t.w[t.r.queue[i].id].path = p
                      /\ t.w[t.r.queue[i].id].vals = <<t.r.queue[i].val>>
    BY DEF Tracked
  <2>1. i \in 1..r.out \/ i \in r.out + 1..t.r.out
    BY ONLY <1>5, <1>6
  <2>2. CASE i \in 1..r.out
    <3>1. r.queue[i].id \in 1..m /\ t.r.queue[i].id = r.queue[i].id /\ i \in 1..Len(r.queue)
      BY <1>5, <1>6, <1>8, <2>2
    <3>2. t.w[r.queue[i].id] = st.w[r.queue[i].id]
      BY <1>1, <3>1
    <3> QED BY <1>1, <1>3, <2>2, <3>1, <3>2 DEF Tracked
  <2>3. CASE i \in r.out + 1..t.r.out
    <3>1. t.r.queue[i].id = m + i - r.out /\ i \in 1..Len(r.queue)
      BY <1>9, <2>3
    <3>2. t.r.queue[i].id \in m + 1..Len(t.w) /\ r.out + (t.r.queue[i].id - m) = i
      BY ONLY <1>2, <1>4, <1>5, <1>6, <2>3, <3>1
    <3> DEFINE k == t.r.queue[i].id
    <3>3. t.w[k].path = p /\ t.w[k].vals = <<r.queue[r.out + (k - m)].val>>
      BY <1>11, <3>2
    <3>4. r.queue[r.out + (k - m)].val = t.r.queue[i].val
      BY <1>1, <3>1, <3>2
    <3> QED BY <3>3, <3>4
  <2> QED BY <2>1, <2>2, <2>3
<1>15. Ahead(p, t.r, t.w)
  <2> SUFFICES ASSUME NEW k \in 1..Len(t.w), t.w[k].path = p, NEW a \in DOMAIN t.w[k].vals,
                      NEW i \in t.r.out + 1..Len(t.r.queue)
               PROVE  t.w[k].vals[a] <= t.r.queue[i].val
    BY DEF Ahead
  <2>1. i \in r.out + 1..Len(r.queue) /\ i \in 1..Len(r.queue)
    BY <1>1, <1>5, <1>6
  <2>2. CASE k \in 1..m
    <3>1. t.w[k] = st.w[k] /\ t.r.queue[i].val = r.queue[i].val
      BY <1>1, <2>1, <2>2
    <3> QED BY <1>3, <2>1, <2>2, <3>1 DEF Ahead, m
  <2>3. CASE k \in m + 1..Len(t.w)
    <3> DEFINE j == r.out + (k - m)
    <3>1. j \in r.out + 1..t.r.out /\ t.w[k].vals = <<r.queue[j].val>>
      BY <1>11, <2>3
    <3> HIDE DEF j
    <3>2. j < i /\ j \in 1..Len(r.queue)
      BY ONLY <1>1, <1>5, <1>6, <2>1, <3>1, i \in t.r.out + 1..Len(t.r.queue)
    <3>3. r.queue[j].val <= r.queue[i].val
      BY <1>3, <2>1, <3>2 DEF Rising
    <3>4. t.w[k].vals[a] = r.queue[j].val
      BY <3>1
    <3> QED BY <1>1, <2>1, <3>3, <3>4
  <2>4. k \in 1..m \/ k \in m + 1..Len(t.w)
    BY ONLY <1>a, k \in 1..Len(t.w)
  <2> QED BY <2>2, <2>3, <2>4
<1>16. Held(t.r)
  BY <1>1, <1>3 DEF Held
<1>17. Logged(p, t.w, v)
  <2>1. \A k \in m + 1..Len(t.w) : \A b \in DOMAIN t.w[k].vals :
          /\ r.out + (k - m) \in r.out + 1..Len(r.queue)
          /\ r.out + (k - m) \in 1..Len(r.queue)
          /\ t.w[k].vals[b] = r.queue[r.out + (k - m)].val
    <3> SUFFICES ASSUME NEW k \in m + 1..Len(t.w), NEW b \in DOMAIN t.w[k].vals
                 PROVE  /\ r.out + (k - m) \in r.out + 1..Len(r.queue)
                        /\ r.out + (k - m) \in 1..Len(r.queue)
                        /\ t.w[k].vals[b] = r.queue[r.out + (k - m)].val
      OBVIOUS
    <3>1. r.out + (k - m) \in r.out + 1..t.r.out
      BY <1>11
    <3>2. t.w[k].vals = <<r.queue[r.out + (k - m)].val>>
      BY <1>11
    <3> QED BY <1>5, <1>6, <3>1, <3>2
  <2>2. ASSUME NEW k \in 1..Len(t.w), t.w[k].path = p, NEW a \in DOMAIN t.w[k].vals
        PROVE  t.w[k].vals[a] <= v
    <3>1. CASE k \in 1..m
      <4>1. t.w[k] = st.w[k]
        BY <1>1, <3>1
      <4> QED BY <1>3, <2>2, <3>1, <4>1 DEF Logged, m
    <3>2. CASE k \in m + 1..Len(t.w)
      <4> DEFINE j == r.out + (k - m)
      <4>1. j \in 1..Len(r.queue) /\ t.w[k].vals[a] = r.queue[j].val
        BY <2>1, <3>2
      <4> HIDE DEF j
      <4>2. r.queue[j].val \in 1..v
        BY <1>3, <4>1 DEF Rising
      <4> QED BY <4>1, <4>2
    <3>3. k \in 1..m \/ k \in m + 1..Len(t.w)
      BY ONLY <1>a, k \in 1..Len(t.w)
    <3> QED BY <3>1, <3>2, <3>3
  <2>3. ASSUME NEW k \in 1..Len(t.w), NEW l \in 1..Len(t.w), k < l, t.w[k].path = p,
               t.w[l].path = p, NEW a \in DOMAIN t.w[k].vals, NEW b \in DOMAIN t.w[l].vals
        PROVE  t.w[k].vals[a] <= t.w[l].vals[b]
    <3>1. CASE l \in 1..m
      <4>1. k \in 1..m
        BY ONLY <1>4, <2>3, <3>1
      <4>2. t.w[k] = st.w[k] /\ t.w[l] = st.w[l]
        BY <1>1, <3>1, <4>1
      <4> QED BY <1>3, <2>3, <3>1, <4>1, <4>2 DEF Logged, m
    <3>2. CASE l \in m + 1..Len(t.w) /\ k \in 1..m
      <4> DEFINE j == r.out + (l - m)
      <4>1. j \in r.out + 1..Len(r.queue) /\ t.w[l].vals[b] = r.queue[j].val
        BY <2>1, <3>2
      <4> HIDE DEF j
      <4>2. t.w[k] = st.w[k]
        BY <1>1, <3>2
      <4>3. st.w[k].vals[a] <= r.queue[j].val
        BY <1>3, <2>3, <3>2, <4>1, <4>2 DEF Ahead, m
      <4> QED BY <4>1, <4>2, <4>3
    <3>3. CASE l \in m + 1..Len(t.w) /\ k \in m + 1..Len(t.w)
      <4> DEFINE i == r.out + (k - m)
                 j == r.out + (l - m)
      <4>1. /\ i \in 1..Len(r.queue) /\ t.w[k].vals[a] = r.queue[i].val
            /\ j \in 1..Len(r.queue) /\ t.w[l].vals[b] = r.queue[j].val
        BY <2>1, <3>3
      <4>2. i < j
        BY ONLY <1>4, <1>5, <2>3, <3>3
      <4> HIDE DEF i, j
      <4>3. r.queue[i].val <= r.queue[j].val
        BY <1>3, <4>1, <4>2 DEF Rising
      <4> QED BY <4>1, <4>3
    <3>4. l \in 1..m \/ l \in m + 1..Len(t.w)
      BY ONLY <1>a, l \in 1..Len(t.w)
    <3>5. k \in 1..m \/ k \in m + 1..Len(t.w)
      BY ONLY <1>a, k \in 1..Len(t.w)
    <3> QED BY <3>1, <3>2, <3>3, <3>4, <3>5
  <2> QED BY <2>2, <2>3 DEF Logged
<1> QED BY <1>1, <1>2, <1>7, <1>12, <1>13, <1>14, <1>15, <1>16, <1>17
        DEF OrderedState, Ordered, t, r

\* Where broker_update_sub_req puts a value that is at least as new as all
\* others into a queue with room.
LEMMA EnqueuedOrdered ==
  ASSUME NEW p \in Paths, NEW st \in DeliveryState, NEW u \in Nat, NEW v \in Nat,
         OrderedState(p, st, u), u <= v, 0 < v, Len(st.r.queue) < QueueSize
  PROVE  LET o == With(st, [st.r EXCEPT !.owed = @ \cup {v}])
             t == With(o, AddToMessageQueue(o.r, v))
         IN  t \in DeliveryState /\ OrderedState(p, t, v) /\ t.w = st.w
             /\ t.r.sid = st.r.sid /\ t.r.out = st.r.out
<1> DEFINE r1 == [st.r EXCEPT !.owed = @ \cup {v}]
           o  == With(st, r1)
           r2 == AddToMessageQueue(r1, v)
           t  == With(o, r2)
           r  == st.r
           l  == Len(st.r.queue)
<1>1. /\ r1 \in SubRequester /\ r1.qos = r.qos /\ r1.pend = r.pend /\ r1.out = r.out
      /\ r1.queue = r.queue /\ r1.owed = r.owed \cup {v} /\ r1.got = r.got
      /\ r1.qosQueue = r.qosQueue /\ r1.sid = r.sid
  BY DeliveryFields DEF SubRequester
<1>2. r \in SubRequester /\ l \in Nat
  BY DeliveryFields
<1> HIDE DEF r1
<1>3. /\ r2 \in SubRequester /\ r2.qos = r.qos /\ r2.pend = r.pend
      /\ r2.out = r.out /\ r2.hasQueue
  BY <1>1, AddToMessageQueueType
<1>4. r2 = [r1 EXCEPT !.hasQueue = TRUE, !.queue = Append(r.queue, [val |-> v, id |-> 0])]
  <2>1. Len(r1.queue) # QueueSize
    BY <1>1, <1>2, SizeAssumption
  <2> QED BY <1>1, <2>1 DEF AddToMessageQueue
<1>5. /\ r2.queue = Append(r.queue, [val |-> v, id |-> 0])
      /\ r2.owed = r.owed \cup {v} /\ r2.got = r.got /\ r2.qosQueue = r.qosQueue /\ r2.sid = r.sid
  BY <1>1, <1>4 DEF SubRequester
<1> HIDE DEF r2
<1>6. /\ Len(r2.queue) = l + 1 /\ r2.queue[l + 1] = [val |-> v, id |-> 0]
      /\ \A i \in 1..l : r2.queue[i] = r.queue[i]
  BY <1>2, <1>5, QueueFields
<1>7. o \in DeliveryState /\ o.r = r1 /\ o.w = st.w /\ o.d = st.d /\ o.f = st.f
  BY <1>1, WithType
<1>8. t \in DeliveryState /\ t.r = r2 /\ t.w = st.w /\ t.d = st.d /\ t.f = st.f
  BY <1>3, <1>7, WithType
<1> HIDE DEF t, o
<1>9. /\ Shaped(r) /\ Rising(r, u) /\ Tracked(p, r, st.w) /\ Ahead(p, r, st.w) /\ Held(r)
      /\ Logged(p, st.w, u)
  BY DEF OrderedState, Ordered
<1>10. /\ r.out \in Nat /\ r.out <= l
       /\ \A i \in 1..l : r.queue[i].val \in 1..u /\ r.queue[i].val \in Nat /\ r.queue[i].id \in Nat
  BY <1>2, <1>9, QueueFields DEF Shaped, Rising
<1> HIDE DEF r, l
<1>11. \A i \in 1..l + 1 : i \in 1..l \/ i = l + 1
  BY <1>2
<1>12. \A i \in 1..r.out : i \in 1..l /\ r2.queue[i] = r.queue[i]
  BY <1>2, <1>6, <1>10
<1>13. Shaped(r2)
  <2>1. ASSUME NEW i \in 1..l + 1 PROVE r2.queue[i].id > 0 <=> i <= r.out
    <3>1. CASE i \in 1..l
      BY <1>6, <1>9, <3>1 DEF Shaped, l, r
    <3>2. CASE i = l + 1
      <4>1. ~(i <= r.out) /\ r2.queue[i].id = 0
        BY <1>2, <1>6, <1>10, <3>2
      <4> QED BY <4>1
    <3> QED BY <1>11, <3>1, <3>2
  <2>2. ASSUME NEW i \in 1..r.out, NEW j \in 1..r.out, i < j
        PROVE  r2.queue[i].id < r2.queue[j].id
    BY <1>9, <1>12, <2>2 DEF Shaped
  <2>3. r2.pend = {r2.queue[i].id : i \in 1..r.out}
    BY <1>3, <1>9, <1>12 DEF Shaped
  <2>4. r2.qosQueue = <<>> /\ r2.out <= Len(r2.queue)
    BY <1>2, <1>3, <1>5, <1>6, <1>9, <1>10 DEF Shaped
  <2> QED BY <1>3, <1>6, <2>1, <2>2, <2>3, <2>4 DEF Shaped
<1>14. Rising(r2, v)
  <2>1. ASSUME NEW i \in 1..l + 1 PROVE r2.queue[i].val \in 1..v
    <3>1. CASE i \in 1..l
      BY <1>6, <1>10, <3>1
    <3>2. CASE i = l + 1
      BY <1>6, <3>2
    <3> QED BY <1>11, <3>1, <3>2
  <2>2. ASSUME NEW i \in 1..l + 1, NEW j \in 1..l + 1, i < j
        PROVE  r2.queue[i].val <= r2.queue[j].val
    <3>1. i \in 1..l
      BY <1>2, <2>2
    <3>2. CASE j \in 1..l
      <4>1. r.queue[i].val <= r.queue[j].val
        BY <1>9, <2>2, <3>1, <3>2 DEF Rising, l, r
      <4> QED BY <1>6, <3>1, <3>2, <4>1
    <3>3. CASE j = l + 1
      BY <1>6, <1>10, <3>1, <3>3
    <3> QED BY <1>11, <3>2, <3>3
  <2> QED BY <1>6, <2>1, <2>2 DEF Rising
<1>15. Tracked(p, r2, st.w)
  BY <1>3, <1>9, <1>12 DEF Tracked
<1>16. Ahead(p, r2, st.w)
  <2> SUFFICES ASSUME NEW m \in 1..Len(st.w), st.w[m].path = p, NEW a \in DOMAIN st.w[m].vals,
                      NEW i \in r.out + 1..l + 1
               PROVE  st.w[m].vals[a] <= r2.queue[i].val
    BY <1>3, <1>6 DEF Ahead
  <2>1. CASE i \in 1..l
    <3>1. i \in r.out + 1..Len(r.queue)
      BY <1>2, <1>10, <2>1 DEF l, r
    <3> QED BY <1>6, <1>9, <2>1, <3>1 DEF Ahead
  <2>2. CASE i = l + 1
    <3>1. st.w[m].vals[a] <= u
      BY <1>9 DEF Logged
    <3>2. st.w[m].vals[a] \in Nat
      <4>1. st.w[m] \in Message
        BY DeliveryFields
      <4>2. st.w[m].vals \in Seq(Nat)
        BY <4>1 DEF Message
      <4> QED BY <4>2
    <3> QED BY <1>6, <2>2, <3>1, <3>2
  <2>3. i \in 1..l \/ i = l + 1
    BY <1>2, <1>10
  <2> QED BY <2>1, <2>2, <2>3
<1>17. Held(r2)
  <2>1. ASSUME NEW x \in r2.owed
        PROVE  x \in r2.got \/ \E i \in 1..l + 1 : x = r2.queue[i].val
    <3>1. CASE x = v
      <4>1. l + 1 \in 1..l + 1 /\ r2.queue[l + 1].val = v
        BY <1>2, <1>6
      <4> QED BY <3>1, <4>1
    <3>2. CASE x \in r.owed
      <4>1. x \in r.got \/ \E i \in 1..l : x = r.queue[i].val
        BY <1>9, <3>2 DEF Held, l, r
      <4>2. \A i \in 1..l : i \in 1..l + 1 /\ r2.queue[i].val = r.queue[i].val
        BY <1>2, <1>6
      <4> QED BY <1>5, <4>1, <4>2
    <3> QED BY <1>5, <3>1, <3>2
  <2> QED BY <1>6, <2>1 DEF Held
<1>18. Logged(p, st.w, v)
  <2>1. ASSUME NEW m \in 1..Len(st.w), st.w[m].path = p, NEW a \in DOMAIN st.w[m].vals
        PROVE  st.w[m].vals[a] <= v
    <3>1. st.w[m].vals[a] <= u
      BY <1>9, <2>1 DEF Logged
    <3>2. st.w[m].vals[a] \in Nat
      <4>1. st.w[m] \in Message
        BY DeliveryFields
      <4>2. st.w[m].vals \in Seq(Nat)
        BY <4>1 DEF Message
      <4> QED BY <4>2
    <3> QED BY <3>1, <3>2
  <2> QED BY <1>9, <2>1 DEF Logged
<1>19. AccountedState(t)
  BY <1>3, <1>8 DEF OrderedState, AccountedState, Accounted, r
<1>20. /\ t \in DeliveryState /\ OrderedState(p, t, v) /\ t.w = st.w
       /\ t.r.sid = st.r.sid /\ t.r.out = st.r.out
  BY <1>3, <1>5, <1>8, <1>13, <1>14, <1>15, <1>16, <1>17, <1>18, <1>19
     DEF OrderedState, Ordered, r
<1>21. t = With(o, AddToMessageQueue(o.r, v))
  BY <1>7 DEF t, r2
<1> QED BY <1>20, <1>21 DEF o, r1

LEMMA UpdateSubReqOrdered ==
  ASSUME NEW p \in Paths, NEW st \in DeliveryState, NEW u \in Nat, NEW v \in Nat,
         NEW up \in BOOLEAN,
         OrderedState(p, st, u), u <= v, 0 < v, Len(st.r.queue) < QueueSize
  PROVE  /\ OrderedState(p, UpdateSubReq(p, st, v, up), v)
         /\ up => WindowUsed(UpdateSubReq(p, st, v, up).r, up)
         /\ ~up => UpdateSubReq(p, st, v, up).r.out = st.r.out
<1> DEFINE o == With(st, [st.r EXCEPT !.owed = @ \cup {v}])
           t == With(o, AddToMessageQueue(o.r, v))
<1>1. t \in DeliveryState /\ OrderedState(p, t, v) /\ t.r.out = st.r.out
  BY EnqueuedOrdered
<1>2. UpdateSubReq(p, st, v, up) = SendQueued(p, t, up)
  <2>1. st.r.qos <= 2
    BY DEF OrderedState, AccountedState, Accounted
  <2> QED BY <2>1 DEF UpdateSubReq
<1> HIDE DEF t
<1> QED BY <1>1, <1>2, SendQueuedOrdered

LEMMA UpdateSubReqExtends ==
  ASSUME NEW p \in Paths, NEW st \in DeliveryState, NEW v \in Nat, NEW up \in BOOLEAN,
         st.r.qos <= 2
  PROVE  Extends(st.w, UpdateSubReq(p, st, v, up).w, p, st.r.sid)
<1> DEFINE r1 == [st.r EXCEPT !.owed = @ \cup {v}]
           o  == With(st, r1)
           r2 == AddToMessageQueue(r1, v)
           t  == With(o, r2)
<1>1. r1 \in SubRequester /\ r1.sid = st.r.sid
  BY DeliveryFields DEF SubRequester
<1>2. UpdateSubReq(p, st, v, up) = SendQueued(p, With(o, AddToMessageQueue(o.r, v)), up)
  BY DEF UpdateSubReq
<1> HIDE DEF r1
<1>3. r2 \in SubRequester /\ r2.sid = st.r.sid
  BY <1>1, AddToMessageQueueType
<1>4. o \in DeliveryState /\ o.r = r1 /\ o.w = st.w
  BY <1>1, WithType
<1> HIDE DEF r2
<1>5. t \in DeliveryState /\ t.r = r2 /\ t.w = st.w
  BY <1>3, <1>4, WithType
<1>6. UpdateSubReq(p, st, v, up) = SendQueued(p, t, up)
  BY <1>2, <1>4 DEF r2
<1> HIDE DEF t
<1> QED BY <1>3, <1>5, <1>6, SendQueuedExtends

\* removeFromMessageQueue with the id of the first entry pops this entry only.
LEMMA PoppedFirst ==
  ASSUME NEW r \in SubRequester, Shaped(r), 0 < r.out
  PROVE  Popped(r, r.queue[1].id) = 1
<1> DEFINE id == r.queue[1].id
           S == {i \in 0..Len(r.queue) :
                   i = Len(r.queue) \/ r.queue[i + 1].id = 0 \/ r.queue[i + 1].id > id}
<1>1. /\ r.out \in Nat /\ Len(r.queue) \in Nat /\ r.out <= Len(r.queue) /\ 0 < r.out
      /\ \A i \in 1..Len(r.queue) : r.queue[i].id \in Nat /\ (r.queue[i].id > 0 <=> i <= r.out)
      /\ \A i, j \in 1..r.out : i < j => r.queue[i].id < r.queue[j].id
  BY QueueFields DEF Shaped
<1>2. id \in Nat /\ 0 < id
  <2>1. 1 \in 1..Len(r.queue) /\ 1 <= r.out
    BY ONLY <1>1
  <2> QED BY <1>1, <2>1
<1>3. 0 \notin S
  <2>1. 0 # Len(r.queue) /\ 0 + 1 = 1
    BY ONLY <1>1
  <2>2. ~(id = 0) /\ ~(id > id)
    BY ONLY <1>2
  <2> QED BY <2>1, <2>2
<1>4. 1 \in S
  <2>0. r.out \in Nat /\ Len(r.queue) \in Nat /\ r.out <= Len(r.queue) /\ 0 < r.out
    BY <1>1
  <2>1. CASE Len(r.queue) <= 1
    <3>2. Len(r.queue) = 1
      <4>1. \A n \in Nat : n <= 1 /\ 0 < n => n = 1
        OBVIOUS
      <4>2. 0 < Len(r.queue)
        BY <2>0
      <4> QED BY <2>0, <2>1, <4>1, <4>2
    <3>1. Len(r.queue) = 1 /\ 1 \in 0..Len(r.queue)
      BY <3>2
    <3> QED BY <3>1
  <2>2. CASE 1 < Len(r.queue) /\ 2 <= r.out
    <3>1. id < r.queue[2].id /\ r.queue[2].id \in Nat
      BY <1>1, <2>2
    <3>2. r.queue[2].id > id /\ 1 \in 0..Len(r.queue) /\ 1 + 1 = 2
      BY ONLY <1>1, <1>2, <3>1
    <3> QED BY <3>2
  <2>3. CASE 1 < Len(r.queue) /\ ~(2 <= r.out)
    <3>1. 2 \in 1..Len(r.queue)
      BY <2>0, <2>3
    <3>2. ~(r.queue[2].id > 0) /\ r.queue[2].id \in Nat
      BY <1>1, <2>3, <3>1
    <3>3. r.queue[2].id = 0 /\ 1 \in 0..Len(r.queue) /\ 1 + 1 = 2
      BY ONLY <1>1, <3>2
    <3> QED BY <3>3
  <2> QED BY <2>0, <2>1, <2>2, <2>3
<1>5. S \subseteq Nat
  BY <1>1
<1>6. Popped(r, id) = Min(S)
  BY DEF Popped
<1> HIDE DEF S, id
<1>7. Min(S) \in S /\ Min(S) <= 1
  BY <1>4, <1>5, MinExists
<1>8. Min(S) = 1
  <2>1. Min(S) \in Nat /\ Min(S) # 0
    BY <1>3, <1>5, <1>7
  <2> QED BY ONLY <1>7, <2>1
<1> QED BY <1>6, <1>8 DEF id

\* The acknowledged entry, the first of the queue, is taken out.
LEMMA PoppedOrdered ==
  ASSUME NEW p \in Paths, NEW st \in DeliveryState, NEW v \in Nat,
         OrderedState(p, st, v), 0 < st.r.out, st.r.queue[1].val \in st.r.got
  PROVE  LET r2 == [st.r EXCEPT !.pend = @ \ {st.r.queue[1].id}, !.out = @ - 1,
                                !.queue = SubSeq(@, 2, Len(@))]
         IN  /\ With(st, r2) \in DeliveryState /\ OrderedState(p, With(st, r2), v)
             /\ With(st, r2).r = r2 /\ With(st, r2).w = st.w
             /\ \A i \in 1..r2.out : r2.queue[i].id > st.r.queue[1].id
<1> DEFINE r  == st.r
           id == r.queue[1].id
           q  == SubSeq(r.queue, 2, Len(r.queue))
           r2 == [r EXCEPT !.pend = @ \ {id}, !.out = @ - 1, !.queue = SubSeq(@, 2, Len(@))]
           l  == Len(r.queue) - 1
<1>1. /\ Shaped(r) /\ Rising(r, v) /\ Tracked(p, r, st.w) /\ Ahead(p, r, st.w) /\ Held(r)
      /\ Logged(p, st.w, v) /\ AccountedState(st)
  BY DEF OrderedState, Ordered
<1>2. /\ r \in SubRequester /\ r.out \in 0..CountMax /\ CountMax \in Nat /\ 0 < r.out
      /\ r.pend \in SUBSET Nat
  BY DeliveryFields, SizeAssumption
<1>3. /\ r.queue \in Seq(QueuedMessage) /\ Len(r.queue) \in Nat /\ r.out \in Nat
      /\ r.out <= Len(r.queue)
      /\ \A i \in 1..Len(r.queue) : r.queue[i].val \in Nat /\ r.queue[i].id \in Nat
  BY <1>1, <1>2, QueueFields DEF Shaped
<1>4. /\ q \in Seq(QueuedMessage) /\ Len(q) = l /\ l \in Nat
      /\ \A i \in 1..l : q[i] = r.queue[i + 1]
  BY <1>2, <1>3
<1>5. r.out - 1 \in 0..CountMax /\ r.pend \ {id} \in SUBSET Nat
  BY <1>2
<1>6. r2 = [r EXCEPT !.pend = r.pend \ {id}, !.out = r.out - 1, !.queue = q]
  OBVIOUS
<1> HIDE DEF q, id
<1>7. /\ r2 \in SubRequester /\ r2.queue = q /\ r2.out = r.out - 1 /\ r2.pend = r.pend \ {id}
      /\ r2.qos = r.qos /\ r2.hasQueue = r.hasQueue /\ r2.qosQueue = r.qosQueue
      /\ r2.owed = r.owed /\ r2.got = r.got /\ r2.sid = r.sid
  BY <1>2, <1>4, <1>5, <1>6 DEF SubRequester
<1> HIDE DEF r2
<1>8. With(st, r2) \in DeliveryState /\ With(st, r2).r = r2 /\ With(st, r2).w = st.w
      /\ With(st, r2).d = st.d /\ With(st, r2).f = st.f
  BY <1>7, WithType
<1>9. /\ IsFiniteSet(r.pend) /\ r.out = Cardinality(r.pend) /\ r.out <= SendWindow
      /\ r.qos <= 2 /\ st.d = NoRecord /\ st.f = {NoRecord} /\ r.pend \subseteq 1..Len(st.w)
      /\ r.hasQueue \/ (r.pend = {} /\ r.queue = <<>>)
  BY <1>1 DEF AccountedState, Accounted
<1>10. id \in r.pend
  BY <1>1, <1>2, <1>3 DEF Shaped, id
<1> HIDE DEF r, l
<1>l. l \in Nat /\ Len(r.queue) = l + 1 /\ r.out <= l + 1
  BY <1>3, <1>4 DEF l
<1>11. AccountedState(With(st, r2))
  <2>1. /\ IsFiniteSet(r.pend \ {id}) /\ Cardinality(r.pend \ {id}) = r.out - 1
    BY <1>9, <1>10, FS_RemoveElement
  <2>2. r.out - 1 <= SendWindow
    BY <1>2, <1>9, SizeAssumption
  <2> QED BY <1>7, <1>8, <1>9, <1>10, <2>1, <2>2 DEF AccountedState, Accounted
<1>12. \A i \in 1..l : i + 1 \in 1..Len(r.queue)
  BY <1>3, <1>4 DEF l
<1>13. \A i \in 1..r.out - 1 : i + 1 \in 1..r.out /\ i \in 1..l /\ 1 < i + 1 /\ 1 \in 1..r.out
  BY ONLY <1>2, <1>3, <1>l
<1>14. \A i \in 1..r.out - 1 : r2.queue[i] = r.queue[i + 1] /\ r2.queue[i].id > id
  <2> SUFFICES ASSUME NEW i \in 1..r.out - 1
               PROVE  r2.queue[i] = r.queue[i + 1] /\ r2.queue[i].id > id
    OBVIOUS
  <2>1. r2.queue[i] = r.queue[i + 1]
    BY <1>4, <1>7, <1>13
  <2>2. i + 1 \in 1..r.out /\ 1 < i + 1 /\ 1 \in 1..r.out /\ i + 1 \in 1..Len(r.queue)
    BY <1>12, <1>13
  <2>3. id < r.queue[i + 1].id
    BY <1>1, <2>2 DEF Shaped, id
  <2>4. 1 \in 1..Len(r.queue)
    BY ONLY <1>l
  <2>5. id \in Nat /\ r.queue[i + 1].id \in Nat
    BY <1>3, <2>2, <2>4 DEF id
  <2> QED BY <2>1, <2>3, <2>5
<1>15. Shaped(r2)
  <2>1. ASSUME NEW i \in 1..l PROVE r2.queue[i].id > 0 <=> i <= r.out - 1
    <3>1. r2.queue[i] = r.queue[i + 1] /\ i + 1 \in 1..Len(r.queue)
      BY <1>4, <1>7, <1>12
    <3>2. r.queue[i + 1].id > 0 <=> i + 1 <= r.out
      BY <1>1, <3>1 DEF Shaped
    <3>3. i + 1 <= r.out <=> i <= r.out - 1
      BY ONLY <1>2, <1>3, <2>1, <1>l
    <3> QED BY <3>1, <3>2, <3>3
  <2>2. ASSUME NEW i \in 1..r.out - 1, NEW j \in 1..r.out - 1, i < j
        PROVE  r2.queue[i].id < r2.queue[j].id
    <3>1. r2.queue[i] = r.queue[i + 1] /\ i + 1 \in 1..r.out
          /\ r2.queue[j] = r.queue[j + 1] /\ j + 1 \in 1..r.out
      BY <1>13, <1>14
    <3>2. i + 1 < j + 1
      BY <2>2
    <3> QED BY <1>1, <3>1, <3>2 DEF Shaped
  <2>3. r2.pend = {r2.queue[i].id : i \in 1..r.out - 1}
    <3>1. r.pend = {r.queue[i].id : i \in 1..r.out}
      BY <1>1 DEF Shaped
    <3>2. ASSUME NEW x \in r.pend \ {id} PROVE \E i \in 1..r.out - 1 : x = r2.queue[i].id
      <4>1. PICK i \in 1..r.out : x = r.queue[i].id
        BY <3>1
      <4>2. i # 1
        BY <3>2, <4>1 DEF id
      <4>3. i - 1 \in 1..r.out - 1 /\ (i - 1) + 1 = i
        BY ONLY <4>2, <1>2, <1>3, i \in 1..r.out
      <4>4. r2.queue[i - 1] = r.queue[i]
        BY <1>14, <4>3
      <4> QED BY <4>1, <4>3, <4>4
    <3>3. ASSUME NEW i \in 1..r.out - 1 PROVE r2.queue[i].id \in r.pend \ {id}
      <4>1. r2.queue[i].id = r.queue[i + 1].id /\ r2.queue[i].id > id /\ i + 1 \in 1..r.out
        BY <1>13, <1>14
      <4>2. id \in Nat
        BY <1>2, <1>10
      <4> QED BY <3>1, <4>1, <4>2
    <3> QED BY <1>7, <3>2, <3>3
  <2>4. r2.qosQueue = <<>> /\ r.out - 1 <= l
    BY <1>1, <1>2, <1>7, <1>l DEF Shaped
  <2> QED BY <1>4, <1>7, <2>1, <2>2, <2>3, <2>4 DEF Shaped
<1>16. Rising(r2, v)
  <2>1. ASSUME NEW i \in 1..l PROVE r2.queue[i].val \in 1..v
    BY <1>1, <1>4, <1>7, <1>12 DEF Rising
  <2>2. ASSUME NEW i \in 1..l, NEW j \in 1..l, i < j
        PROVE  r2.queue[i].val <= r2.queue[j].val
    <3>1. r2.queue[i] = r.queue[i + 1] /\ i + 1 \in 1..Len(r.queue)
          /\ r2.queue[j] = r.queue[j + 1] /\ j + 1 \in 1..Len(r.queue)
      BY <1>4, <1>7, <1>12
    <3>2. i + 1 < j + 1
      BY <2>2
    <3> QED BY <1>1, <3>1, <3>2 DEF Rising
  <2> QED BY <1>4, <1>7, <2>1, <2>2 DEF Rising
<1>17. Tracked(p, r2, st.w)
  <2> SUFFICES ASSUME NEW i \in 1..r.out - 1
               PROVE  /\ st.w[r2.queue[i].id].path = p
                      /\ st.w[r2.queue[i].id].vals = <<r2.queue[i].val>>
    BY <1>7 DEF Tracked
  <2>1. r2.queue[i] = r.queue[i + 1] /\ i + 1 \in 1..r.out
    BY <1>13, <1>14
  <2> QED BY <1>1, <2>1 DEF Tracked
<1>18. Ahead(p, r2, st.w)
  <2> SUFFICES ASSUME NEW m \in 1..Len(st.w), st.w[m].path = p, NEW a \in DOMAIN st.w[m].vals,
                      NEW i \in (r.out - 1) + 1..l
               PROVE  st.w[m].vals[a] <= r2.queue[i].val
    BY <1>4, <1>7 DEF Ahead
  <2>1. i \in 1..l /\ i + 1 \in r.out + 1..Len(r.queue)
    BY ONLY <1>2, <1>3, <1>l, i \in (r.out - 1) + 1..l
  <2>2. r2.queue[i] = r.queue[i + 1]
    BY <1>4, <1>7, <2>1
  <2> QED BY <1>1, <2>1, <2>2 DEF Ahead
<1>19. Held(r2)
  <2>1. ASSUME NEW x \in r.owed PROVE x \in r.got \/ \E i \in 1..l : x = r2.queue[i].val
    <3>1. CASE x \in r.got
      BY <3>1
    <3>2. ASSUME NEW i \in 1..Len(r.queue), x = r.queue[i].val
          PROVE  x \in r.got \/ \E j \in 1..l : x = r2.queue[j].val
      <4>1. CASE i = 1
        BY <3>2, <4>1 DEF r
      <4>2. CASE i # 1
        <5>1. i - 1 \in 1..l /\ (i - 1) + 1 = i
          BY ONLY <1>l, <4>2, i \in 1..Len(r.queue)
        <5>2. r2.queue[i - 1] = r.queue[i]
          BY <1>4, <1>7, <5>1
        <5> QED BY <3>2, <5>1, <5>2
      <4> QED BY <4>1, <4>2
    <3> QED BY <1>1, <3>1, <3>2 DEF Held
  <2> QED BY <1>4, <1>7, <2>1 DEF Held
<1>20. /\ With(st, r2) \in DeliveryState /\ OrderedState(p, With(st, r2), v)
       /\ With(st, r2).r = r2 /\ With(st, r2).w = st.w
       /\ \A i \in 1..r2.out : r2.queue[i].id > id
  BY <1>1, <1>7, <1>8, <1>11, <1>14, <1>15, <1>16, <1>17, <1>18, <1>19 DEF OrderedState, Ordered
<1> QED BY <1>20 DEF r2, r, id, q

LEMMA AckOneOrdered ==
  ASSUME NEW p \in Paths, NEW st \in DeliveryState, NEW v \in Nat,
         OrderedState(p, st, v), 0 < st.r.out, st.r.queue[1].val \in st.r.got
  PROVE  LET t == AckOne(p, st, st.r.queue[1].id) IN
         /\ OrderedState(p, t, v) /\ WindowUsed(t.r, TRUE)
         /\ \A i \in 1..t.r.out : t.r.queue[i].id > st.r.queue[1].id
<1> DEFINE id == st.r.queue[1].id
           r2 == [st.r EXCEPT !.pend = @ \ {id}, !.out = @ - 1, !.queue = SubSeq(@, 2, Len(@))]
           s2 == With(st, r2)
           t  == SendQueued(p, s2, TRUE)
<1>1. /\ s2 \in DeliveryState /\ OrderedState(p, s2, v) /\ s2.r = r2 /\ s2.w = st.w
      /\ \A i \in 1..r2.out : r2.queue[i].id > id
  BY PoppedOrdered
<1>2. st.r \in SubRequester /\ Shaped(st.r) /\ id \in 1..Len(st.w) /\ Len(st.w) \in Nat
  <2>1. st.r \in SubRequester /\ Shaped(st.r) /\ Len(st.w) \in Nat /\ st.r.out \in Nat
    BY DeliveryFields DEF OrderedState, Ordered
  <2>2. id \in st.r.pend
    BY <2>1 DEF Shaped
  <2>3. st.r.pend \subseteq 1..Len(st.w)
    BY DEF OrderedState, AccountedState, Accounted
  <2> QED BY <2>1, <2>2, <2>3
<1>3. AckOne(p, st, id) = t
  <2>1. Popped(st.r, id) = 1
    BY <1>2, PoppedFirst
  <2>2. st.r.out # 0
    BY DeliveryFields
  <2>3. 1 + 1 = 2 /\ 1 > 0
    OBVIOUS
  <2> QED BY <2>1, <2>2, <2>3 DEF AckOne
<1> HIDE DEF s2, r2
<1>4. OrderedState(p, t, v) /\ WindowUsed(t.r, TRUE)
  BY <1>1, SendQueuedOrdered
<1>5. /\ t.r.out \in Nat /\ r2.out \in Nat /\ r2.out <= Len(r2.queue) /\ Len(r2.queue) \in Nat
      /\ t.r.out <= Len(r2.queue)
      /\ \A i \in 1..Len(r2.queue) :
           t.r.queue[i].id = IF i \in r2.out + 1..t.r.out
                               THEN Len(st.w) + i - r2.out ELSE r2.queue[i].id
  <2>1. t \in DeliveryState /\ Shaped(t.r) /\ Len(t.r.queue) = Len(r2.queue)
    BY <1>1, <1>4, SendQueuedType, SendQueuedFields DEF OrderedState, Ordered
  <2>2. Shaped(r2) /\ r2 \in SubRequester
    BY <1>1, DeliveryFields DEF OrderedState, Ordered
  <2> HIDE DEF t
  <2>3. t.r.out \in Nat /\ r2.out \in Nat /\ r2.out <= Len(r2.queue) /\ Len(r2.queue) \in Nat
        /\ t.r.out <= Len(r2.queue)
    BY <2>1, <2>2, DeliveryFields, QueueFields DEF Shaped
  <2>4. \A i \in 1..Len(s2.r.queue) :
          t.r.queue[i].id = IF i \in s2.r.out + 1..t.r.out
                              THEN Len(s2.w) + i - s2.r.out ELSE s2.r.queue[i].id
    <3>1. s2 \in DeliveryState /\ TRUE \in BOOLEAN
      BY <1>1
    <3>2. t = SendQueued(p, s2, TRUE)
      BY DEF t
    <3> QED BY ONLY <3>1, <3>2, p \in Paths, SendQueuedFields
  <2> QED BY <1>1, <2>3, <2>4
<1> HIDE DEF t, id
<1>6. ASSUME NEW i \in 1..t.r.out PROVE t.r.queue[i].id > id
  <2>0. i \in 1..Len(r2.queue)
    BY <1>5
  <2>1. CASE i \in r2.out + 1..t.r.out
    <3>1. t.r.queue[i].id = Len(st.w) + i - r2.out
      BY <1>5, <2>0, <2>1
    <3> QED BY ONLY <1>2, <1>5, <2>1, <3>1
  <2>2. CASE i \in 1..r2.out
    <3>1. ~(i \in r2.out + 1..t.r.out)
      BY ONLY <1>5, <2>2
    <3> QED BY <1>1, <1>5, <2>0, <2>2, <3>1
  <2>3. i \in 1..r2.out \/ i \in r2.out + 1..t.r.out
    BY ONLY <1>5, i \in 1..t.r.out
  <2> QED BY <2>1, <2>2, <2>3
<1> QED BY <1>3, <1>4, <1>6 DEF id

\* A subscription with the same queue is as well ordered.
LEMMA SameQueueOrdered ==
  ASSUME NEW p, NEW r, NEW t, NEW w, NEW v, Ordered(p, r, w, v),
         t.queue = r.queue, t.out = r.out, t.pend = r.pend, t.qosQueue = r.qosQueue,
         t.owed = r.owed, r.got \subseteq t.got
  PROVE  Ordered(p, t, w, v)
<1>1. /\ Shaped(r) /\ Rising(r, v) /\ Tracked(p, r, w) /\ Ahead(p, r, w) /\ Held(r)
      /\ Logged(p, w, v)
  BY DEF Ordered
<1>2. Shaped(t) /\ Rising(t, v)
  BY <1>1 DEF Shaped, Rising
<1>3. Tracked(p, t, w) /\ Ahead(p, t, w)
  BY <1>1 DEF Tracked, Ahead
<1>4. Held(t)
  BY <1>1 DEF Held
<1> QED BY <1>1, <1>2, <1>3, <1>4 DEF Ordered

\* Messages of other paths do not matter.
LEMMA LoggedElsewhere ==
  ASSUME NEW p, NEW w \in Seq(Message), NEW x \in Seq(Message), NEW v, Logged(p, w, v),
         Len(w) <= Len(x), \A m \in 1..Len(w) : x[m] = w[m],
         \A m \in Len(w) + 1..Len(x) : x[m].path # p
  PROVE  Logged(p, x, v)
<1>1. Len(w) \in Nat /\ Len(x) \in Nat
  OBVIOUS
<1>2. \A m \in 1..Len(x) : x[m].path = p => m \in 1..Len(w) /\ x[m] = w[m]
  <2> SUFFICES ASSUME NEW m \in 1..Len(x), x[m].path = p PROVE m \in 1..Len(w)
    OBVIOUS
  <2>1. ~(m \in Len(w) + 1..Len(x))
    OBVIOUS
  <2> QED BY ONLY <1>1, <2>1, m \in 1..Len(x)
<1>3. ASSUME NEW m \in 1..Len(x), x[m].path = p, NEW a \in DOMAIN x[m].vals
      PROVE  x[m].vals[a] <= v
  BY <1>2, <1>3 DEF Logged
<1>4. ASSUME NEW m \in 1..Len(x), NEW n \in 1..Len(x), m < n, x[m].path = p, x[n].path = p,
             NEW a \in DOMAIN x[m].vals, NEW b \in DOMAIN x[n].vals
      PROVE  x[m].vals[a] <= x[n].vals[b]
  BY <1>2, <1>4 DEF Logged
<1> QED BY <1>3, <1>4 DEF Logged

LEMMA OrderedElsewhere ==
  ASSUME NEW p, NEW r \in SubRequester, NEW w \in Seq(Message), NEW x \in Seq(Message), NEW v,
         Ordered(p, r, w, v), r.pend \subseteq 1..Len(w),
         Len(w) <= Len(x), \A m \in 1..Len(w) : x[m] = w[m],
         \A m \in Len(w) + 1..Len(x) : x[m].path # p
  PROVE  Ordered(p, r, x, v)
<1>1. /\ Shaped(r) /\ Rising(r, v) /\ Tracked(p, r, w) /\ Ahead(p, r, w) /\ Held(r)
      /\ Logged(p, w, v)
  BY DEF Ordered
<1>2. Logged(p, x, v)
  BY <1>1, LoggedElsewhere
<1>3. Len(w) \in Nat /\ Len(x) \in Nat
  OBVIOUS
<1>4. Tracked(p, r, x)
  <2> SUFFICES ASSUME NEW i \in 1..r.out
               PROVE  x[r.queue[i].id].path = p /\ x[r.queue[i].id].vals = <<r.queue[i].val>>
    BY DEF Tracked
  <2>1. r.queue[i].id \in r.pend
    BY <1>1 DEF Shaped
  <2>2. x[r.queue[i].id] = w[r.queue[i].id]
    BY <2>1
  <2> QED BY <1>1, <2>2 DEF Tracked
<1>5. Ahead(p, r, x)
  <2> SUFFICES ASSUME NEW m \in 1..Len(x), x[m].path = p, NEW a \in DOMAIN x[m].vals,
                      NEW i \in r.out + 1..Len(r.queue)
               PROVE  x[m].vals[a] <= r.queue[i].val
    BY DEF Ahead
  <2>1. ~(m \in Len(w) + 1..Len(x))
    OBVIOUS
  <2>2. m \in 1..Len(w)
    BY ONLY <1>3, <2>1, m \in 1..Len(x)
  <2>3. x[m] = w[m]
    BY <2>2
  <2> QED BY <1>1, <2>2, <2>3 DEF Ahead
<1> QED BY <1>1, <1>2, <1>4, <1>5 DEF Ordered

\* With a newer value of the node.
LEMMA LoggedLater ==
  ASSUME NEW p, NEW w \in Seq(Message), NEW u \in Nat, NEW v \in Nat, u <= v, Logged(p, w, u)
  PROVE  Logged(p, w, v)
<1>1. ASSUME NEW m \in 1..Len(w), w[m].path = p, NEW a \in DOMAIN w[m].vals
      PROVE  w[m].vals[a] <= v
  <2>1. w[m].vals[a] <= u
    BY <1>1 DEF Logged
  <2>2. w[m].vals[a] \in Nat
    <3>1. w[m] \in Message
      OBVIOUS
    <3>2. w[m].vals \in Seq(Nat)
      BY <3>1 DEF Message
    <3> QED BY <3>2
  <2> QED BY <2>1, <2>2
<1> QED BY <1>1 DEF Logged

\* The ids that a function adds to the pending ones are new in the session.
LEMMA UpdateSubReqPends ==
  ASSUME NEW p \in Paths, NEW st \in DeliveryState, NEW v \in Nat, NEW up \in BOOLEAN,
         st.r.qos <= 2
  PROVE  LET t == UpdateSubReq(p, st, v, up)
         IN  t.r.pend = st.r.pend \cup (Len(st.w) + 1..Len(t.w))
<1> DEFINE r1 == [st.r EXCEPT !.owed = @ \cup {v}]
           o  == With(st, r1)
           r2 == AddToMessageQueue(r1, v)
           t  == With(o, r2)
<1>1. r1 \in SubRequester /\ r1.pend = st.r.pend
  BY DeliveryFields DEF SubRequester
<1>2. UpdateSubReq(p, st, v, up) = SendQueued(p, With(o, AddToMessageQueue(o.r, v)), up)
  BY DEF UpdateSubReq
<1> HIDE DEF r1
<1>3. r2 \in SubRequester /\ r2.pend = st.r.pend
  BY <1>1, AddToMessageQueueType
<1>4. o \in DeliveryState /\ o.r = r1 /\ o.w = st.w
  BY <1>1, WithType
<1> HIDE DEF r2
<1>5. t \in DeliveryState /\ t.r = r2 /\ t.w = st.w
  BY <1>3, <1>4, WithType
<1>6. UpdateSubReq(p, st, v, up) = SendQueued(p, t, up)
  BY <1>2, <1>4 DEF r2
<1> HIDE DEF t
<1> QED BY <1>3, <1>5, <1>6, SendQueuedType

\* broker_clear_messsage_ids, with the rest of what a lost link does: nothing
\* is in flight any more, and the session log starts anew.
LEMMA ClearedOrdered ==
  ASSUME NEW p \in Paths, NEW r \in SubRequester, NEW w \in Seq(Message), NEW v \in Nat,
         Ordered(p, r, w, v)
  PROVE  LET t == [ClearMessageIds(r) EXCEPT !.sid = Unset, !.pend = {}]
         IN  Ordered(p, t, <<>>, v) /\ WindowUsed(t, FALSE) /\ t.pend = {}
<1> DEFINE c == ClearMessageIds(r)
           t == [c EXCEPT !.sid = Unset, !.pend = {}]
<1>1. /\ Shaped(r) /\ Rising(r, v) /\ Held(r)
      /\ r.queue \in Seq(QueuedMessage) /\ Len(r.queue) \in Nat /\ r.out \in Nat
      /\ r.out <= Len(r.queue)
      /\ \A i \in 1..Len(r.queue) : r.queue[i].val \in Nat /\ r.queue[i].id \in Nat
  BY QueueFields DEF Ordered, Shaped
<1>2. c = [r EXCEPT !.out = 0, !.queue = [i \in DOMAIN r.queue |->
                              IF i <= r.out THEN [r.queue[i] EXCEPT !.id = 0] ELSE r.queue[i]]]
  <2>1. ~(r.out > Len(r.queue))
    BY <1>1
  <2> QED BY <2>1 DEF ClearMessageIds
<1>3. /\ c.out = 0 /\ c.qosQueue = r.qosQueue /\ c.owed = r.owed /\ c.got = r.got
      /\ c.queue = [i \in 1..Len(r.queue) |->
                      IF i <= r.out THEN [r.queue[i] EXCEPT !.id = 0] ELSE r.queue[i]]
  BY <1>1, <1>2 DEF SubRequester
<1>4. c \in SubRequester
  BY ClearMessageIdsType
<1>5. \A i \in 1..Len(r.queue) : c.queue[i].val = r.queue[i].val /\ c.queue[i].id = 0
  <2> SUFFICES ASSUME NEW i \in 1..Len(r.queue)
               PROVE  c.queue[i].val = r.queue[i].val /\ c.queue[i].id = 0
    OBVIOUS
  <2>1. r.queue[i] \in QueuedMessage
    BY <1>1
  <2>2. c.queue[i] = IF i <= r.out THEN [r.queue[i] EXCEPT !.id = 0] ELSE r.queue[i]
    BY <1>3
  <2>3. CASE i <= r.out
    BY <2>1, <2>2, <2>3 DEF QueuedMessage
  <2>4. CASE ~(i <= r.out)
    <3>1. ~(r.queue[i].id > 0) /\ r.queue[i].id \in Nat
      BY <1>1, <2>4 DEF Shaped
    <3>2. r.queue[i].id = 0
      BY <3>1
    <3> QED BY <2>2, <2>4, <3>2
  <2> QED BY <2>3, <2>4
<1>6. Len(c.queue) = Len(r.queue)
  <2>1. c.queue \in Seq(QueuedMessage) /\ Len(c.queue) \in Nat
    BY <1>4, QueueFields
  <2>2. DOMAIN c.queue = 1..Len(c.queue) /\ DOMAIN c.queue = 1..Len(r.queue)
    BY <1>3, <2>1
  <2> QED BY <1>1, <2>1, <2>2
<1> HIDE DEF c
<1>7. /\ t.out = 0 /\ t.qosQueue = <<>> /\ t.owed = r.owed /\ t.got = r.got
      /\ t.queue = c.queue /\ t.pend = {} /\ t.sid = Unset
  BY <1>1, <1>3, <1>4 DEF SubRequester, Shaped
<1> HIDE DEF t
<1>8. Shaped(t)
  <2>1. \A i \in 1..Len(t.queue) : t.queue[i].id > 0 <=> i <= t.out
    BY <1>1, <1>5, <1>6, <1>7
  <2>2. 1..t.out = {}
    BY <1>7
  <2>3. t.pend = {t.queue[i].id : i \in 1..t.out}
    BY <1>7, <2>2
  <2>4. t.out <= Len(t.queue)
    BY <1>1, <1>6, <1>7
  <2> QED BY <1>7, <2>1, <2>2, <2>3, <2>4 DEF Shaped
<1>9. Rising(t, v)
  <2>1. Len(t.queue) = Len(r.queue)
        /\ \A i \in 1..Len(r.queue) : t.queue[i].val = r.queue[i].val
    BY <1>5, <1>6, <1>7
  <2> QED BY ONLY <1>1, <2>1 DEF Rising
<1>10. Held(t)
  <2>1. \A i \in 1..Len(r.queue) : t.queue[i].val = r.queue[i].val
    BY <1>5, <1>6, <1>7
  <2>2. {t.queue[i].val : i \in 1..Len(t.queue)} = {r.queue[i].val : i \in 1..Len(r.queue)}
    BY <1>6, <1>7, <2>1
  <2> QED BY <1>1, <1>7, <2>2 DEF Held
<1>11. Tracked(p, t, <<>>)
  <2>1. 1..t.out = {}
    BY <1>7
  <2> QED BY <2>1 DEF Tracked
<1>12. Ahead(p, t, <<>>) /\ Logged(p, <<>>, v)
  <2>1. 1..Len(<<>>) = {}
    OBVIOUS
  <2> QED BY <2>1 DEF Ahead, Logged
<1>13. WindowUsed(t, FALSE)
  BY <1>7 DEF WindowUsed
<1>14. Ordered(p, t, <<>>, v) /\ WindowUsed(t, FALSE) /\ t.pend = {}
  BY <1>7, <1>8, <1>9, <1>10, <1>11, <1>12, <1>13 DEF Ordered
<1> QED BY <1>14 DEF t, c

-----------------------------------------------------------------------------
(***************************************************************************)
(* The order and the completeness of delivery of qos 0-2, for acks that    *)
(* are not cumulative and rings that do not overflow. None of QueueShape,  *)
(* InOrder and NothingLost is inductive: an ack needs to know that the id  *)
(* it covers is the one of the first entry of one queue, a send that what  *)
(* is queued is at least as new as what was sent, and a pop that the       *)
(* client has the value.                                                   *)
(***************************************************************************)
AckInv ==
  /\ acked <= Len(wire)
  /\ ackUpTo = 0 => \A p \in live : \A id \in sub[p].pend : acked < id
  /\ ackUpTo # 0 =>
       /\ link /\ ackUpTo = acked
       /\ \A p \in live : \A id \in sub[p].pend : acked <= id
       /\ \E p \in live : /\ 0 < sub[p].out /\ sub[p].queue[1].id = acked
                          /\ sub[p].queue[1].val \in sub[p].got

LogInv ==
  /\ \A p \in Paths : value[p] <= written[p] /\ Logged(p, wire, value[p])
  /\ \A m \in 1..Len(wire) : wire[m].path = NoPath => wire[m].vals = <<>>

OrderInv ==
  /\ AccountingInv /\ LogInv /\ AckInv
  /\ \A p \in live : Ordered(p, sub[p], wire, value[p]) /\ WindowUsed(sub[p], link)

Sequential == 3 \notin QosLevels /\ ~CumulativeAcks /\ ~MayOverflow

LEMMA ClosedExtends ==
  ASSUME NEW w \in Seq(Message), NEW p, NEW s
  PROVE  /\ Append(w, ClosedResponse) \in Seq(Message)
         /\ Extends(w, Append(w, ClosedResponse), p, s)
         /\ Len(Append(w, ClosedResponse)) = Len(w) + 1 /\ Len(w) \in Nat
         /\ \A m \in 1..Len(w) : Append(w, ClosedResponse)[m] = w[m]
         /\ Append(w, ClosedResponse)[Len(w) + 1] = ClosedResponse
<1>1. /\ Append(w, ClosedResponse) \in Seq(Message)
      /\ Len(Append(w, ClosedResponse)) = Len(w) + 1 /\ Len(w) \in Nat
      /\ \A m \in 1..Len(w) : Append(w, ClosedResponse)[m] = w[m]
      /\ Append(w, ClosedResponse)[Len(w) + 1] = ClosedResponse
  BY ClosedResponseType
<1> DEFINE x == Append(w, ClosedResponse)
<1> HIDE DEF x
<1>2. Extends(w, x, p, s)
  <2>1. \A m \in Len(w) + 1..Len(x) : m = Len(w) + 1
    BY <1>1 DEF x
  <2>2. Len(w) <= Len(x)
    BY <1>1 DEF x
  <2> QED BY <1>1, <2>1, <2>2 DEF Extends, x
<1> QED BY <1>1, <1>2 DEF x

\* What is behind the old log belongs to p or to no path.
LEMMA ExtendsPaths ==
  ASSUME NEW w, NEW x, NEW p \in Paths, NEW s, Extends(w, x, p, s), NEW m \in Len(w) + 1..Len(x)
  PROVE  x[m].path \in {p, NoPath} /\ (x[m].path = NoPath => x[m].vals = <<>>)
<1>1. ClosedResponse.path = NoPath /\ ClosedResponse.vals = <<>>
  BY UpdateFields DEF ClosedResponse
<1> QED BY <1>1, PathAssumption DEF Extends

\* A handler that changes one subscription and frees at most one other.
LEMMA FreeAndSetOrders ==
  ASSUME OrderInv, AccountingInv', NEW o, NEW p \in Paths, NEW st \in DeliveryState, NEW s,
         FreeAndSet(o, p, st), OrderedState(p, st, value'[p]), WindowUsed(st.r, link),
         Extends(wire, st.w, p, s), live' \subseteq (live \ {o}) \cup {p},
         link' = link, acked' = acked, ackUpTo' = 0,
         value'[p] \in Nat, value'[p] <= written'[p],
         \A x \in Paths \ {p} : value'[x] = value[x] /\ written'[x] = written[x],
         \A x \in live \ {p} : \A id \in sub[x].pend : acked < id,
         \A id \in st.r.pend : acked < id
  PROVE  OrderInv'
<1>1. /\ TypeOK /\ TypeOK' /\ AccountingInv /\ LogInv /\ AckInv
      /\ wire \in Seq(Message) /\ Len(wire) \in Nat /\ st.w \in Seq(Message) /\ Len(st.w) \in Nat
  BY DeliveryFields DEF OrderInv, AccountingInv, TypeOK
<1>2. /\ sub'[p] = st.r
      /\ \A x \in Paths \ {p} : sub'[x] = IF x = o THEN Blank ELSE sub[x]
  BY ONLY <1>1, FreeAndSet(o, p, st), p \in Paths, st \in DeliveryState, FreeAndSetType
<1>3. wire' = st.w
  BY DEF FreeAndSet
<1>4. /\ Len(wire) <= Len(st.w) /\ \A m \in 1..Len(wire) : st.w[m] = wire[m]
      /\ \A m \in Len(wire) + 1..Len(st.w) :
           /\ \A q \in Paths \ {p} : st.w[m].path # q
           /\ st.w[m].path = NoPath => st.w[m].vals = <<>>
  <2> DEFINE x == st.w
  <2>1. Extends(wire, x, p, s)
    OBVIOUS
  <2>2. Len(wire) <= Len(x) /\ \A m \in 1..Len(wire) : x[m] = wire[m]
    BY <2>1 DEF Extends
  <2> HIDE DEF x
  <2>3. ASSUME NEW m \in Len(wire) + 1..Len(x), NEW q \in Paths \ {p} PROVE x[m].path # q
    BY <2>1, ExtendsPaths, PathAssumption
  <2>4. ASSUME NEW m \in Len(wire) + 1..Len(x), x[m].path = NoPath PROVE x[m].vals = <<>>
    BY <2>1, <2>4, ExtendsPaths
  <2> QED BY <2>2, <2>3, <2>4 DEF x
<1>5. \A x \in live' \ {p} : x \in live /\ x # o /\ x \in Paths \ {p} /\ sub'[x] = sub[x]
  BY <1>1, <1>2 DEF TypeOK
<1>6. LogInv'
  <2>1. ASSUME NEW x \in Paths
        PROVE  value'[x] <= written'[x] /\ Logged(x, st.w, value'[x])
    <3>1. CASE x = p
      BY <3>1 DEF OrderedState, Ordered
    <3>2. CASE x # p
      <4>1. Logged(x, wire, value[x]) /\ value[x] <= written[x]
        BY <1>1 DEF LogInv
      <4>2. \A m \in Len(wire) + 1..Len(st.w) : st.w[m].path # x
        BY <1>4, <3>2
      <4>3. Logged(x, st.w, value[x])
        BY <1>1, <1>4, <4>1, <4>2, LoggedElsewhere
      <4> QED BY <3>2, <4>1, <4>3
    <3> QED BY <3>1, <3>2
  <2>2. ASSUME NEW m \in 1..Len(st.w), st.w[m].path = NoPath
        PROVE  st.w[m].vals = <<>>
    <3>1. m \in 1..Len(wire) \/ m \in Len(wire) + 1..Len(st.w)
      BY ONLY <1>1, m \in 1..Len(st.w)
    <3>2. CASE m \in 1..Len(wire)
      BY <1>1, <1>4, <2>2, <3>2 DEF LogInv
    <3>3. CASE m \in Len(wire) + 1..Len(st.w)
      BY <1>4, <2>2, <3>3
    <3> QED BY <3>1, <3>2, <3>3
  <2> QED BY <1>3, <2>1, <2>2 DEF LogInv
<1>7. AckInv'
  <2>1. acked <= Len(wire')
    <3>1. acked <= Len(wire) /\ acked \in Nat
      BY <1>1 DEF AckInv, TypeOK
    <3> QED BY <1>1, <1>3, <1>4, <3>1
  <2>2. \A x \in live' : \A id \in sub'[x].pend : acked < id
    BY <1>2, <1>5
  <2> QED BY <2>1, <2>2 DEF AckInv
<1>8. ASSUME NEW x \in live'
      PROVE  Ordered(x, sub'[x], wire', value'[x]) /\ WindowUsed(sub'[x], link')
  <2>1. CASE x = p
    BY <1>2, <1>3, <2>1 DEF OrderedState
  <2>2. CASE x # p
    <3>1. x \in live /\ x \in Paths \ {p} /\ sub'[x] = sub[x] /\ value'[x] = value[x]
      BY <1>5, <2>2
    <3>2. Ordered(x, sub[x], wire, value[x]) /\ WindowUsed(sub[x], link)
      BY <3>1 DEF OrderInv
    <3>3. sub[x] \in SubRequester /\ sub[x].pend \subseteq 1..Len(wire)
      BY <1>1, <3>1 DEF AccountingInv, TypeOK, Accounted
    <3>4. \A m \in Len(wire) + 1..Len(st.w) : st.w[m].path # x
      BY <1>4, <3>1
    <3>5. Ordered(x, sub[x], st.w, value[x])
      BY <1>1, <1>4, <3>2, <3>3, <3>4, OrderedElsewhere
    <3> QED BY <1>3, <3>1, <3>2, <3>5
  <2> QED BY <2>1, <2>2
<1> QED BY <1>6, <1>7, <1>8 DEF OrderInv

LEMMA PublishOrders ==
  ASSUME Sequential, OrderInv, AccountingInv', NEW p \in Paths, Publish(p)
  PROVE  OrderInv'
<1>1. /\ TypeOK /\ AccountingInv /\ LogInv /\ AckInv
      /\ UNCHANGED <<live, link, acked>> /\ ackUpTo = 0 /\ ackUpTo' = 0
      /\ Len(sub[p].queue) < QueueSize
  BY DEF Publish, OrderInv, AccountingInv, Idle, Room, Sequential
<1>2. /\ written' = [written EXCEPT ![p] = @ + 1] /\ value' = [value EXCEPT ![p] = written'[p]]
      /\ written \in [Paths -> Nat] /\ value \in [Paths -> Nat] /\ value[p] <= written[p]
  BY <1>1 DEF Publish, TypeOK, LogInv
<1>3. /\ value'[p] = written'[p] /\ value'[p] \in Nat /\ value[p] \in Nat /\ value[p] <= value'[p]
      /\ 0 < value'[p]
      /\ \A x \in Paths \ {p} : value'[x] = value[x] /\ written'[x] = written[x]
  BY <1>2
<1>4. \A x \in live : \A id \in sub[x].pend : acked < id
  BY <1>1 DEF AckInv
<1>5. CASE p \in live
  <2> DEFINE st == UpdateSubReq(p, State(p), value'[p], link)
  <2>1. FreeAndSet(NoPath, p, st)
    BY <1>5 DEF Publish, SetState
  <2>2. link \in BOOLEAN /\ sub[p].qos <= 2
    BY <1>1, <1>5 DEF TypeOK, AccountingInv, Accounted
  <2>3. /\ State(p) \in DeliveryState /\ State(p).r = sub[p] /\ State(p).w = wire
        /\ AccountedState(State(p))
    BY <1>1, <1>5, StateType DEF AccountingInv, AccountedState, State
  <2>4. /\ OrderedState(p, State(p), value[p]) /\ WindowUsed(sub[p], link)
    BY <1>5, <2>3 DEF OrderInv, OrderedState
  <2>5. /\ st \in DeliveryState /\ st.r.sid = sub[p].sid
        /\ OrderedState(p, st, value'[p])
        /\ link => WindowUsed(st.r, link)
        /\ ~link => st.r.out = sub[p].out
    <3> DEFINE s0 == State(p)
               w == value'[p]
               v == value[p]
    <3>1. /\ s0 \in DeliveryState /\ v \in Nat /\ w \in Nat /\ link \in BOOLEAN
          /\ OrderedState(p, s0, v) /\ v <= w /\ 0 < w /\ Len(s0.r.queue) < QueueSize
          /\ s0.r = sub[p]
      BY <1>1, <1>3, <2>2, <2>3, <2>4
    <3>2. st = UpdateSubReq(p, s0, w, link)
      OBVIOUS
    <3> HIDE DEF st, s0, w, v
    <3>3. st \in DeliveryState /\ st.r.sid = s0.r.sid
      BY <3>1, <3>2, UpdateSubReqType
    <3>4. /\ OrderedState(p, st, w) /\ (link => WindowUsed(st.r, link))
          /\ (~link => st.r.out = s0.r.out)
      BY <3>1, <3>2, UpdateSubReqOrdered
    <3> QED BY <3>1, <3>3, <3>4 DEF w
  <2>6. Extends(wire, st.w, p, sub[p].sid)
    BY <1>3, <2>2, <2>3, UpdateSubReqExtends
  <2>7. st.r.pend = sub[p].pend \cup (Len(wire) + 1..Len(st.w))
    BY <1>3, <2>2, <2>3, UpdateSubReqPends
  <2> HIDE DEF st
  <2>8. WindowUsed(st.r, link)
    BY <2>2, <2>4, <2>5 DEF WindowUsed
  <2>9. \A id \in st.r.pend : acked < id
    <3>1. acked \in Nat /\ Len(wire) \in Nat /\ Len(st.w) \in Nat /\ acked <= Len(wire)
      BY <1>1, <2>5, DeliveryFields DEF TypeOK, AckInv
    <3>2. \A id \in Len(wire) + 1..Len(st.w) : acked < id
      BY ONLY <3>1
    <3> QED BY <1>4, <1>5, <2>7, <3>2
  <2>10. live' \subseteq (live \ {NoPath}) \cup {p}
    BY <1>1, PathAssumption DEF TypeOK
  <2>11. value'[p] <= written'[p] /\ \A x \in live \ {p} : \A id \in sub[x].pend : acked < id
    BY <1>3, <1>4
  <2> QED BY <1>1, <1>3, <2>1, <2>5, <2>6, <2>8, <2>9, <2>10, <2>11, FreeAndSetOrders
<1>6. CASE p \notin live
  <2>1. UNCHANGED <<sub, wire>>
    BY <1>6 DEF Publish
  <2>2. LogInv'
    <3>1. ASSUME NEW x \in Paths PROVE value'[x] <= written'[x] /\ Logged(x, wire, value'[x])
      <4>1. Logged(x, wire, value[x]) /\ value[x] <= written[x]
        BY <1>1 DEF LogInv
      <4>2. CASE x = p
        <5>1. wire \in Seq(Message) /\ value'[p] <= written'[p]
          BY <1>1, <1>3 DEF TypeOK
        <5> QED BY <1>3, <4>1, <4>2, <5>1, LoggedLater
      <4>3. CASE x # p
        BY <1>3, <4>1, <4>3
      <4> QED BY <4>2, <4>3
    <3> QED BY <1>1, <2>1, <3>1 DEF LogInv
  <2>3. AckInv'
    BY <1>1, <2>1 DEF AckInv
  <2>4. ASSUME NEW x \in live'
        PROVE  Ordered(x, sub'[x], wire', value'[x]) /\ WindowUsed(sub'[x], link')
    <3>1. x \in live /\ x \in Paths \ {p}
      BY <1>1, <1>6 DEF TypeOK
    <3>2. value'[x] = value[x]
      BY <1>3, <3>1
    <3> QED BY <1>1, <2>1, <3>1, <3>2 DEF OrderInv
  <2> QED BY <2>2, <2>3, <2>4 DEF OrderInv
<1> QED BY <1>5, <1>6

\* A live subscription with a new sid or qos, after the closed response.
LEMMA AnsweredOrdered ==
  ASSUME OrderInv, NEW p \in live, NEW r \in SubRequester, r.qos <= 2,
         r.queue = sub[p].queue, r.out = sub[p].out, r.pend = sub[p].pend,
         r.qosQueue = sub[p].qosQueue, r.owed = sub[p].owed, r.got = sub[p].got,
         r.hasQueue = sub[p].hasQueue
  PROVE  LET st == With(Answered(p), r)
         IN  /\ st \in DeliveryState /\ st.r = r /\ st.w = Append(wire, ClosedResponse)
             /\ OrderedState(p, st, value[p])
<1> DEFINE st == With(Answered(p), r)
           x  == Append(wire, ClosedResponse)
<1>1. /\ TypeOK /\ AccountingInv /\ p \in Paths /\ wire \in Seq(Message)
      /\ sub[p] \in SubRequester /\ Accounted(sub[p], Len(wire))
      /\ Ordered(p, sub[p], wire, value[p])
  BY DEF OrderInv, AccountingInv, TypeOK
<1>2. /\ Answered(p) \in DeliveryState /\ Answered(p).d = NoRecord /\ Answered(p).f = {NoRecord} /\ Answered(p).w = x
      /\ Len(wire) \in Nat /\ Len(x) = Len(wire) + 1
  BY <1>1, AnsweredAccounted DEF Answered
<1>3. /\ x \in Seq(Message) /\ Len(wire) <= Len(x) /\ Len(x) \in Nat
      /\ \A m \in 1..Len(wire) : x[m] = wire[m]
      /\ x[Len(wire) + 1].path = NoPath
  <2>1. /\ x \in Seq(Message) /\ \A m \in 1..Len(wire) : x[m] = wire[m]
        /\ x[Len(wire) + 1] = ClosedResponse
    BY <1>1, ClosedExtends
  <2> HIDE DEF x
  <2> QED BY <1>2, <2>1, UpdateFields DEF ClosedResponse
<1> HIDE DEF x
<1>4. \A m \in Len(wire) + 1..Len(x) : x[m].path # p
  <2>1. \A m \in Len(wire) + 1..Len(x) : m = Len(wire) + 1
    BY <1>2
  <2> QED BY <1>1, <1>3, <2>1, PathAssumption
<1>5. st \in DeliveryState /\ st.r = r /\ st.w = x /\ st.d = NoRecord /\ st.f = {NoRecord}
  BY <1>2, WithType
<1> HIDE DEF st
<1>6. sub[p].pend \subseteq 1..Len(wire)
  BY <1>1 DEF Accounted
<1>7. Ordered(p, sub[p], x, value[p])
  BY <1>1, <1>3, <1>4, <1>6, OrderedElsewhere
<1>8. Ordered(p, r, x, value[p])
  BY <1>7, SameQueueOrdered
<1>9. Accounted(r, Len(x))
  <2>1. Accounted(sub[p], Len(x))
    BY <1>1, <1>2, <1>3, AccountedLater
  <2> QED BY <2>1 DEF Accounted
<1>10. OrderedState(p, st, value[p])
  BY <1>5, <1>8, <1>9 DEF OrderedState, AccountedState
<1> QED BY <1>5, <1>10 DEF st, x

\* What handle_subscribe does to the subscription of p, from the state u after
\* the closed response to the state t.
LEMMA RepliedOrders ==
  ASSUME OrderInv, AccountingInv', Idle, NEW o, NEW p \in Paths,
         NEW u \in DeliveryState, NEW t \in DeliveryState,
         FreeAndSet(o, p, t), OrderedState(p, t, value[p]), WindowUsed(t.r, link),
         u.w = Append(wire, ClosedResponse), Extends(u.w, t.w, p, u.r.sid),
         t.r.pend = u.r.pend \cup (Len(u.w) + 1..Len(t.w)),
         \A id \in u.r.pend : acked < id,
         live' \subseteq (live \ {o}) \cup {p},
         UNCHANGED <<link, value, written, acked, ackUpTo>>
  PROVE  OrderInv'
<1>1. /\ TypeOK /\ wire \in Seq(Message) /\ Len(wire) \in Nat /\ acked \in Nat
      /\ value[p] \in Nat /\ value[p] <= written[p] /\ acked <= Len(wire) /\ ackUpTo = 0
      /\ \A x \in live : \A id \in sub[x].pend : acked < id
  BY DEF OrderInv, AccountingInv, TypeOK, LogInv, AckInv, Idle
<1>2. Extends(wire, u.w, p, u.r.sid) /\ Len(u.w) = Len(wire) + 1
  BY <1>1, ClosedExtends
<1>3. Extends(wire, t.w, p, u.r.sid)
  BY <1>1, <1>2, DeliveryFields, ExtendsTransitive
<1>4. \A id \in t.r.pend : acked < id
  <2>1. Len(t.w) \in Nat
    BY DeliveryFields
  <2>2. \A id \in Len(u.w) + 1..Len(t.w) : acked < id
    BY <1>1, <1>2, <2>1
  <2> QED BY <2>2
<1>5. /\ value'[p] = value[p] /\ written'[p] = written[p]
      /\ \A x \in Paths \ {p} : value'[x] = value[x] /\ written'[x] = written[x]
      /\ link' = link /\ acked' = acked /\ ackUpTo' = 0
  BY <1>1
<1> QED BY <1>1, <1>3, <1>4, <1>5, FreeAndSetOrders

\* Nothing new: the closed response only.
LEMMA ExtendsItself ==
  ASSUME NEW w \in Seq(Message), NEW p, NEW s
  PROVE  Extends(w, w, p, s)
<1>1. Len(w) \in Nat /\ Len(w) + 1..Len(w) = {}
  OBVIOUS
<1> QED BY <1>1 DEF Extends

\* The functions handle_subscribe may hand the state u to.
LEMMA UnchangedReply ==
  ASSUME NEW p \in Paths, NEW u \in DeliveryState
  PROVE  /\ Extends(u.w, u.w, p, u.r.sid)
         /\ u.r.pend = u.r.pend \cup (Len(u.w) + 1..Len(u.w))
<1>1. u.w \in Seq(Message) /\ Len(u.w) \in Nat
  BY DeliveryFields
<1>2. Len(u.w) + 1..Len(u.w) = {}
  BY <1>1
<1> QED BY <1>1, <1>2, ExtendsItself

LEMMA QueueReply ==
  ASSUME NEW p \in Paths, NEW u \in DeliveryState, NEW v \in Nat, OrderedState(p, u, v)
  PROVE  LET t == SendQueued(p, u, TRUE)
         IN  /\ t \in DeliveryState /\ OrderedState(p, t, v) /\ WindowUsed(t.r, TRUE)
             /\ Extends(u.w, t.w, p, u.r.sid)
             /\ t.r.pend = u.r.pend \cup (Len(u.w) + 1..Len(t.w))
<1>1. TRUE \in BOOLEAN
  OBVIOUS
<1> QED BY <1>1, SendQueuedType, SendQueuedOrdered, SendQueuedExtends

LEMMA ValueReply ==
  ASSUME NEW p \in Paths, NEW u \in DeliveryState, NEW v \in Nat, OrderedState(p, u, v), 0 < v,
         Len(u.r.queue) < QueueSize
  PROVE  LET t == UpdateSubReq(p, u, v, TRUE)
         IN  /\ t \in DeliveryState /\ OrderedState(p, t, v) /\ WindowUsed(t.r, TRUE)
             /\ Extends(u.w, t.w, p, u.r.sid)
             /\ t.r.pend = u.r.pend \cup (Len(u.w) + 1..Len(t.w))
<1>1. TRUE \in BOOLEAN /\ v <= v /\ u.r.qos <= 2
  BY DEF OrderedState, AccountedState, Accounted
<1> QED BY <1>1, UpdateSubReqType, UpdateSubReqOrdered, UpdateSubReqExtends, UpdateSubReqPends

LEMMA SubscribeSameOrders ==
  ASSUME OrderInv, AccountingInv', NEW p \in Paths, NEW s \in Sids, NEW q \in 0..2,
         SubscribeSame(p, s, q)
  PROVE  OrderInv'
<1> DEFINE r == [sub[p] EXCEPT !.qos = q]
           t == With(Answered(p), r)
<1>1. /\ TypeOK /\ AccountingInv /\ p \in live /\ link = TRUE /\ Idle /\ sub[p] \in SubRequester
      /\ FreeAndSet(NoPath, p, UpdateSubQos(Answered(p), q))
      /\ UNCHANGED <<link, live, value, written, acked, ackUpTo>>
      /\ Accounted(sub[p], Len(wire)) /\ value[p] \in Nat /\ WindowUsed(sub[p], link)
      /\ \A id \in sub[p].pend : acked < id
  <2>1. /\ p \in live /\ Idle /\ link /\ FreeAndSet(NoPath, p, UpdateSubQos(Answered(p), q))
        /\ UNCHANGED <<link, live, value, written, acked, ackUpTo>>
    BY DEF SubscribeSame, SetState, CanRequest
  <2>2. TypeOK /\ AccountingInv /\ LogInv /\ AckInv /\ WindowUsed(sub[p], link)
    BY <2>1 DEF OrderInv, AccountingInv
  <2>3. sub[p] \in SubRequester /\ value[p] \in Nat /\ link = TRUE
    BY <2>1, <2>2 DEF TypeOK
  <2>4. Accounted(sub[p], Len(wire))
    BY <2>1, <2>2 DEF AccountingInv
  <2>5. \A id \in sub[p].pend : acked < id
    BY <2>1, <2>2 DEF AckInv, Idle
  <2> QED BY <2>1, <2>2, <2>3, <2>4, <2>5
<1>2. /\ r \in SubRequester /\ r.qos = q
      /\ r.queue = sub[p].queue /\ r.out = sub[p].out /\ r.pend = sub[p].pend
      /\ r.qosQueue = sub[p].qosQueue /\ r.owed = sub[p].owed /\ r.got = sub[p].got
      /\ r.hasQueue = sub[p].hasQueue /\ r.sid = sub[p].sid
  <2>1. q \in 0..3
    OBVIOUS
  <2> QED BY <1>1, <2>1 DEF SubRequester
<1>3. UpdateSubQos(Answered(p), q) = t
  <2>1. sub[p].qos # 3 /\ q # 3
    BY <1>1 DEF Accounted
  <2>2. Answered(p).r = sub[p]
    BY <1>1, StateType
  <2> QED BY <2>1, <2>2 DEF UpdateSubQos
<1> HIDE DEF r
<1>4. r.qos <= 2
  BY <1>2
<1>5. /\ t \in DeliveryState /\ t.r = r /\ t.w = Append(wire, ClosedResponse)
      /\ OrderedState(p, t, value[p])
  BY <1>1, <1>2, <1>4, AnsweredOrdered
<1> HIDE DEF t
<1>6. WindowUsed(t.r, link)
  BY <1>1, <1>2, <1>5 DEF WindowUsed
<1>7. Extends(t.w, t.w, p, t.r.sid) /\ t.r.pend = t.r.pend \cup (Len(t.w) + 1..Len(t.w))
  BY <1>5, UnchangedReply
<1>8. /\ \A id \in t.r.pend : acked < id
      /\ live' \subseteq (live \ {NoPath}) \cup {p}
  BY <1>1, <1>2, <1>5, PathAssumption DEF TypeOK
<1> QED BY <1>1, <1>3, <1>5, <1>6, <1>7, <1>8, RepliedOrders

LEMMA ResubscribeOrders ==
  ASSUME OrderInv, AccountingInv', ~MayOverflow, NEW p \in Paths, NEW s \in Sids, NEW q \in 0..2,
         Resubscribe(p, s, q)
  PROVE  OrderInv'
<1> DEFINE o  == sids[s]
           r1 == [sub[p] EXCEPT !.sid = s]
           a  == With(Answered(p), r1)
           st == UpdateSubQos(a, q)
           r  == [r1 EXCEPT !.qos = q]
           u  == With(Answered(p), r)
           t  == CASE Len(st.r.qosQueue) > 0 -> FlushQosQueue(p, st)
                   [] Len(st.r.qosQueue) = 0 /\ q = 2 -> SendQueued(p, st, TRUE)
                   [] Len(st.r.qosQueue) = 0 /\ q # 2 /\ value[p] > 0 ->
                        UpdateSubReq(p, st, value[p], TRUE)
                   [] OTHER -> st
<1>1. /\ TypeOK /\ AccountingInv /\ p \in live /\ link = TRUE /\ Idle /\ sub[p] \in SubRequester
      /\ live' = live \ {o} /\ FreeAndSet(o, p, t)
      /\ q < 2 => Len(sub[p].queue) < QueueSize
      /\ UNCHANGED <<link, value, written, acked, ackUpTo>>
      /\ Accounted(sub[p], Len(wire)) /\ value[p] \in Nat
      /\ Ordered(p, sub[p], wire, value[p])
      /\ \A id \in sub[p].pend : acked < id
  BY DEF Resubscribe, OrderInv, AccountingInv, TypeOK, CanRequest, AckInv, Idle, Room
<1>2. /\ r1 \in SubRequester /\ r1.qos = sub[p].qos
      /\ r1.queue = sub[p].queue /\ r1.out = sub[p].out /\ r1.pend = sub[p].pend
      /\ r1.qosQueue = sub[p].qosQueue /\ r1.owed = sub[p].owed /\ r1.got = sub[p].got
      /\ r1.hasQueue = sub[p].hasQueue /\ r1.sid = s
  BY <1>1 DEF SubRequester
<1> HIDE DEF r1
<1>3. /\ r \in SubRequester /\ r.qos = q /\ r.qos <= 2
      /\ r.queue = sub[p].queue /\ r.out = sub[p].out /\ r.pend = sub[p].pend
      /\ r.qosQueue = sub[p].qosQueue /\ r.owed = sub[p].owed /\ r.got = sub[p].got
      /\ r.hasQueue = sub[p].hasQueue /\ r.sid = s
  <2>1. q \in 0..3 /\ q <= 2
    OBVIOUS
  <2> QED BY <1>2, <2>1 DEF SubRequester
<1>4. st = u
  <2>1. /\ Answered(p) \in DeliveryState /\ sub[p].qos # 3 /\ q # 3
    BY <1>1, StateType DEF Accounted
  <2>2. a.r = r1 /\ a.w = Answered(p).w /\ a.d = Answered(p).d /\ a.f = Answered(p).f
    BY <1>2, <2>1, WithType
  <2>3. st = With(a, [a.r EXCEPT !.qos = q])
    BY <1>2, <2>1, <2>2 DEF UpdateSubQos
  <2> QED BY <2>2, <2>3 DEF With
<1> HIDE DEF r, st
<1>5. /\ u \in DeliveryState /\ u.r = r /\ u.w = Append(wire, ClosedResponse)
      /\ OrderedState(p, u, value[p])
  BY <1>1, <1>3, AnsweredOrdered
<1> HIDE DEF u
<1>6. r.qosQueue = <<>>
  BY <1>1, <1>3 DEF Ordered, Shaped
<1>7. t = IF q = 2 THEN SendQueued(p, u, TRUE)
          ELSE IF value[p] > 0 THEN UpdateSubReq(p, u, value[p], TRUE) ELSE u
  <2>1. Len(st.r.qosQueue) = 0 /\ ~(Len(st.r.qosQueue) > 0)
    BY <1>4, <1>5, <1>6
  <2> QED BY <1>4, <2>1
<1> HIDE DEF t
<1>8. /\ t \in DeliveryState /\ OrderedState(p, t, value[p]) /\ WindowUsed(t.r, TRUE)
      /\ Extends(u.w, t.w, p, u.r.sid)
      /\ t.r.pend = u.r.pend \cup (Len(u.w) + 1..Len(t.w))
  <2>1. CASE q = 2
    BY <1>1, <1>5, <1>7, <2>1, QueueReply
  <2>2. CASE q # 2 /\ value[p] > 0
    <3>1. t = UpdateSubReq(p, u, value[p], TRUE)
      BY <1>7, <2>2
    <3>2. 0 < value[p] /\ Len(u.r.queue) < QueueSize
      BY <1>1, <1>3, <1>5, <2>2
    <3> QED BY <1>1, <1>5, <3>1, <3>2, ValueReply
  <2>3. CASE q # 2 /\ ~(value[p] > 0)
    <3>1. t = u
      BY <1>7, <2>3
    <3>2. value[p] = 0 /\ Len(r.queue) \in Nat /\ r.out \in Nat /\ r.out <= Len(r.queue)
      BY <1>1, <1>3, <2>3, QueueFields DEF Ordered, Shaped
    <3>3. Len(r.queue) = 0
      <4>1. \A i \in 1..Len(r.queue) : r.queue[i].val \in 1..0
        BY <1>1, <1>3, <3>2 DEF Ordered, Rising
      <4>2. 1..0 = {}
        OBVIOUS
      <4>3. ~(1 \in 1..Len(r.queue))
        BY <4>1, <4>2
      <4> QED BY <3>2, <4>3
    <3>4. r.out = Len(r.queue)
      BY <3>2, <3>3
    <3>5. WindowUsed(r, TRUE)
      BY <3>4 DEF WindowUsed
    <3> QED BY <1>5, <3>1, <3>5, UnchangedReply
  <2> QED BY <2>1, <2>2, <2>3
<1>9. /\ \A id \in u.r.pend : acked < id
      /\ live' \subseteq (live \ {o}) \cup {p}
      /\ WindowUsed(t.r, link)
  BY <1>1, <1>3, <1>5, <1>8
<1> HIDE DEF o
<1> QED BY <1>1, <1>5, <1>8, <1>9, RepliedOrders

\* A subscription just created has nothing queued and nothing in flight.
LEMMA CreatedOrdered ==
  ASSUME OrderInv, NEW p \in Paths, NEW s \in Sids, NEW q \in 0..2
  PROVE  LET c == Create(s, q, <<>>, {})
             u == With(Answered(p), c)
         IN  /\ u \in DeliveryState /\ u.r = c /\ u.w = Append(wire, ClosedResponse)
             /\ OrderedState(p, u, value[p])
             /\ c.sid = s /\ c.pend = {} /\ c.queue = <<>> /\ c.out = 0
<1> DEFINE c == Create(s, q, <<>>, {})
           u == With(Answered(p), c)
           x == Append(wire, ClosedResponse)
<1>1. /\ TypeOK /\ AccountingInv /\ wire \in Seq(Message) /\ Logged(p, wire, value[p])
  BY DEF OrderInv, AccountingInv, TypeOK, LogInv
<1>2. /\ Answered(p) \in DeliveryState /\ Answered(p).d = NoRecord /\ Answered(p).f = {NoRecord} /\ Answered(p).w = x
      /\ Len(wire) \in Nat /\ Len(x) = Len(wire) + 1
  BY <1>1, AnsweredAccounted DEF Answered
<1>3. /\ c \in SubRequester /\ c.qos <= 2 /\ c.sid = s
  <2>1. q \in 0..3 /\ <<>> \in Seq(Nat) /\ {} \in SUBSET Nat
    OBVIOUS
  <2> HIDE DEF Create
  <2>2. \A sq \in Seq(Nat), bl \in SUBSET Nat :
          /\ Create(s, q, sq, bl) \in SubRequester /\ Create(s, q, sq, bl).qos = q
          /\ Create(s, q, sq, bl).sid = s
    BY <2>1, CreateType
  <2>3. c \in SubRequester /\ c.qos = q /\ c.sid = s
    BY <2>1, <2>2
  <2> HIDE DEF c
  <2> QED BY <2>3
<1>4. /\ c.pend = {} /\ c.out = 0 /\ c.queue = <<>> /\ c.qosQueue = <<>> /\ c.got = {}
      /\ c.owed = {}
  <2>1. {<<>>[i] : i \in DOMAIN <<>>} = {}
    OBVIOUS
  <2> QED BY <2>1 DEF Create, Blank
<1> HIDE DEF c, x
<1>5. u \in DeliveryState /\ u.r = c /\ u.w = x /\ u.d = NoRecord /\ u.f = {NoRecord}
  BY <1>2, <1>3, WithType
<1> HIDE DEF u
<1>6. Logged(p, x, value[p])
  <2>1. /\ x \in Seq(Message) /\ Extends(wire, x, p, s) /\ x[Len(wire) + 1] = ClosedResponse
        /\ \A m \in 1..Len(wire) : x[m] = wire[m]
    BY <1>1, ClosedExtends DEF x
  <2>2. \A m \in Len(wire) + 1..Len(x) : m = Len(wire) + 1
    BY <1>2
  <2>3. \A m \in Len(wire) + 1..Len(x) : x[m].path # p
    BY <2>1, <2>2, UpdateFields, PathAssumption DEF ClosedResponse
  <2>4. Len(wire) <= Len(x)
    BY <1>2
  <2> QED BY <1>1, <2>1, <2>3, <2>4, LoggedElsewhere
<1>7. Len(c.queue) = 0 /\ 1..Len(c.queue) = {} /\ 1..c.out = {} /\ c.out + 1..Len(c.queue) = {}
  BY <1>4
<1>8. Shaped(c) /\ Rising(c, value[p]) /\ Tracked(p, c, x) /\ Ahead(p, c, x) /\ Held(c)
  <2>1. Shaped(c)
    BY <1>4, <1>7 DEF Shaped
  <2>2. Rising(c, value[p]) /\ Tracked(p, c, x)
    BY <1>7 DEF Rising, Tracked
  <2>3. Ahead(p, c, x) /\ Held(c)
    BY <1>4, <1>7 DEF Ahead, Held
  <2> QED BY <2>1, <2>2, <2>3
<1>9. Accounted(c, Len(x))
  <2>1. 0 = Cardinality(c.pend) /\ IsFiniteSet(c.pend) /\ 0 <= SendWindow
    BY <1>4, FS_EmptySet, SizeAssumption
  <2> QED BY <1>3, <1>4, <2>1 DEF Accounted
<1>10. OrderedState(p, u, value[p])
  BY <1>5, <1>6, <1>8, <1>9 DEF OrderedState, Ordered, AccountedState
<1> QED BY <1>3, <1>4, <1>5, <1>10 DEF c, u, x

LEMMA SubscribeNewOrders ==
  ASSUME OrderInv, AccountingInv', NEW p \in Paths, NEW s \in Sids, NEW q \in 0..2,
         NEW block \in FreedWith(sids[s]) \cup {{}}, SubscribeNew(p, s, q, block)
  PROVE  OrderInv'
<1> DEFINE o  == sids[s]
           c  == Create(s, q, <<>>, {})
           u  == With(Answered(p), c)
           t  == IF value[p] > 0 THEN UpdateSubReq(p, u, value[p], TRUE) ELSE u
<1>1. block = {} /\ AccountingInv /\ TypeOK
  BY FreesCleanly DEF OrderInv, AccountingInv
<1>2. /\ live' = (live \ {o}) \cup {p} /\ link = TRUE /\ Idle
      /\ UNCHANGED <<link, value, written, acked, ackUpTo>>
      /\ FreeAndSet(o, p, AddNew(p, IF q > 2 THEN Serialize(u) ELSE u, value[p], TRUE))
  BY <1>1 DEF SubscribeNew, CanRequest, TypeOK
<1>3. AddNew(p, IF q > 2 THEN Serialize(u) ELSE u, value[p], TRUE) = t
  <2>1. ~(q > 2)
    OBVIOUS
  <2> QED BY <2>1 DEF AddNew
<1>4. /\ u \in DeliveryState /\ u.r = c /\ u.w = Append(wire, ClosedResponse)
      /\ OrderedState(p, u, value[p])
      /\ c.sid = s /\ c.pend = {} /\ c.queue = <<>> /\ c.out = 0
  BY CreatedOrdered
<1> HIDE DEF c, u
<1>5. Len(c.queue) = 0 /\ Len(u.r.queue) < QueueSize /\ value[p] \in Nat
  BY <1>1, <1>4, SizeAssumption DEF TypeOK
<1>6. /\ t \in DeliveryState /\ OrderedState(p, t, value[p]) /\ WindowUsed(t.r, TRUE)
      /\ Extends(u.w, t.w, p, u.r.sid)
      /\ t.r.pend = u.r.pend \cup (Len(u.w) + 1..Len(t.w))
  <2>1. CASE value[p] > 0
    <3>1. t = UpdateSubReq(p, u, value[p], TRUE) /\ 0 < value[p]
      BY <1>5, <2>1
    <3> HIDE DEF t
    <3> QED BY <1>4, <1>5, <3>1, ValueReply
  <2>2. CASE ~(value[p] > 0)
    <3>1. t = u
      BY <2>2
    <3>2. WindowUsed(c, TRUE)
      BY <1>4, <1>5 DEF WindowUsed
    <3> HIDE DEF t
    <3> QED BY <1>4, <3>1, <3>2, UnchangedReply
  <2> QED BY <2>1, <2>2
<1> HIDE DEF t
<1>7. /\ \A id \in u.r.pend : acked < id
      /\ live' \subseteq (live \ {o}) \cup {p} /\ WindowUsed(t.r, link)
  BY <1>2, <1>4, <1>6
<1> HIDE DEF o
<1> QED BY <1>2, <1>3, <1>4, <1>6, <1>7, RepliedOrders

\* The log only grows by a closed response, and a subscription is freed.
LEMMA UnsubscribeOrders ==
  ASSUME OrderInv, AccountingInv', NEW s \in Sids, Unsubscribe(s)
  PROVE  OrderInv'
<1> DEFINE o == sids[s]
           x == Append(wire, ClosedResponse)
<1>1. /\ live' = live \ {o} /\ Idle
      /\ sub' = [y \in Paths |-> IF y = o THEN Blank ELSE sub[y]]
      /\ wire' = x
      /\ UNCHANGED <<link, value, written, acked, ackUpTo>>
  BY DEF Unsubscribe, CanRequest
<1> HIDE DEF o
<1>2. /\ TypeOK /\ AccountingInv /\ LogInv /\ AckInv /\ wire \in Seq(Message)
      /\ ackUpTo = 0 /\ acked \in Nat
  BY <1>1 DEF OrderInv, AccountingInv, TypeOK, Idle
<1>3. /\ x \in Seq(Message) /\ Len(x) = Len(wire) + 1 /\ Len(wire) \in Nat
      /\ Len(wire) <= Len(x)
      /\ \A m \in 1..Len(wire) : x[m] = wire[m]
      /\ x[Len(wire) + 1].path = NoPath /\ x[Len(wire) + 1].vals = <<>>
  <2>1. /\ x \in Seq(Message) /\ Len(x) = Len(wire) + 1 /\ Len(wire) \in Nat
        /\ \A m \in 1..Len(wire) : x[m] = wire[m]
        /\ x[Len(wire) + 1] = ClosedResponse
    BY <1>2, ClosedExtends
  <2> HIDE DEF x
  <2> QED BY <2>1, UpdateFields DEF ClosedResponse
<1> HIDE DEF x
<1>4. \A m \in Len(wire) + 1..Len(x) : m = Len(wire) + 1
  BY <1>3
<1>5. ASSUME NEW p \in Paths
      PROVE  \A m \in Len(wire) + 1..Len(x) : x[m].path # p
  BY <1>3, <1>4, PathAssumption
<1>6. LogInv'
  <2>1. ASSUME NEW p \in Paths PROVE value[p] <= written[p] /\ Logged(p, x, value[p])
    <3>1. value[p] <= written[p] /\ Logged(p, wire, value[p])
      BY <1>2 DEF LogInv
    <3> QED BY <1>2, <1>3, <1>5, <3>1, LoggedElsewhere
  <2>2. ASSUME NEW m \in 1..Len(x), x[m].path = NoPath PROVE x[m].vals = <<>>
    <3>1. m \in 1..Len(wire) \/ m = Len(wire) + 1
      BY <1>3
    <3> QED BY <1>2, <1>3, <2>2, <3>1 DEF LogInv
  <2> QED BY <1>1, <2>1, <2>2 DEF LogInv
<1>7. \A y \in live' : y \in live /\ y \in Paths /\ sub'[y] = sub[y]
  BY <1>1, <1>2 DEF TypeOK
<1>8. AckInv'
  <2>1. acked <= Len(x)
    BY <1>2, <1>3 DEF AckInv
  <2>2. \A y \in live' : \A id \in sub'[y].pend : acked < id
    BY <1>2, <1>7 DEF AckInv
  <2> QED BY <1>1, <1>2, <2>1, <2>2 DEF AckInv
<1>9. ASSUME NEW y \in live'
      PROVE  Ordered(y, sub'[y], wire', value'[y]) /\ WindowUsed(sub'[y], link')
  <2>1. Ordered(y, sub[y], wire, value[y]) /\ WindowUsed(sub[y], link)
    BY <1>7 DEF OrderInv
  <2>2. sub[y] \in SubRequester /\ sub[y].pend \subseteq 1..Len(wire)
    BY <1>2, <1>7 DEF AccountingInv, TypeOK, Accounted
  <2>3. Ordered(y, sub[y], x, value[y])
    BY <1>2, <1>3, <1>5, <1>7, <2>1, <2>2, OrderedElsewhere
  <2> QED BY <1>1, <1>7, <2>1, <2>3
<1> QED BY <1>6, <1>8, <1>9 DEF OrderInv

LEMMA DisconnectOrders ==
  ASSUME OrderInv, AccountingInv', Disconnect
  PROVE  OrderInv'
<1>1. /\ live' = {p \in live : sub[p].qos >= 2} /\ link' = FALSE /\ ackUpTo' = 0
      /\ sub' = [p \in Paths |->
                   IF p \in live'
                     THEN [ClearMessageIds(sub[p]) EXCEPT !.sid = Unset, !.pend = {}]
                     ELSE Blank]
      /\ wire' = <<>> /\ acked' = 0 /\ UNCHANGED <<value, written>>
  BY DEF Disconnect, Idle
<1>2. TypeOK /\ LogInv
  BY DEF OrderInv, AccountingInv
<1>3. 1..Len(<<>>) = {} /\ Len(<<>>) = 0
  OBVIOUS
<1>4. ASSUME NEW p \in live'
      PROVE  /\ Ordered(p, sub'[p], <<>>, value[p]) /\ WindowUsed(sub'[p], FALSE)
             /\ sub'[p].pend = {}
  <2>1. /\ p \in live /\ p \in Paths /\ sub[p] \in SubRequester /\ wire \in Seq(Message)
        /\ value[p] \in Nat /\ Ordered(p, sub[p], wire, value[p])
    BY <1>1, <1>2 DEF OrderInv, TypeOK
  <2> DEFINE r == sub[p]
             t == [ClearMessageIds(r) EXCEPT !.sid = Unset, !.pend = {}]
  <2>2. sub'[p] = t
    BY <1>1, <2>1
  <2>3. r \in SubRequester /\ Ordered(p, r, wire, value[p])
    BY <2>1
  <2> HIDE DEF r
  <2>4. Ordered(p, t, <<>>, value[p]) /\ WindowUsed(t, FALSE) /\ t.pend = {}
    BY <2>1, <2>3, ClearedOrdered
  <2> HIDE DEF t
  <2> QED BY <2>2, <2>4
<1>5. LogInv'
  <2>1. \A p \in Paths : value[p] <= written[p] /\ Logged(p, <<>>, value[p])
    BY <1>2, <1>3 DEF LogInv, Logged
  <2> QED BY <1>1, <1>3, <2>1 DEF LogInv
<1>6. AckInv'
  <2>1. 0 <= Len(<<>>)
    BY <1>3
  <2> QED BY <1>1, <1>4, <2>1 DEF AckInv
<1>7. \A p \in live' : Ordered(p, sub'[p], wire', value'[p]) /\ WindowUsed(sub'[p], link')
  BY <1>1, <1>4
<1> QED BY <1>5, <1>6, <1>7 DEF OrderInv

\* Without a record nothing is subscribed after a restart.
LEMMA RestartOrders ==
  ASSUME OrderInv, AccountingInv', NEW v \in SavedValues, NEW found \in FoundFiles, Restart(v, found)
  PROVE  OrderInv'
<1>1. /\ live' = {} /\ value' = v /\ written' = written /\ wire' = <<>> /\ acked' = 0
      /\ ackUpTo' = 0
  <2>1. \A p \in Paths : found[p] = NoRecord
    BY FoundType DEF OrderInv, AccountingInv
  <2> QED BY <2>1 DEF Restart, Idle
<1>2. 1..Len(<<>>) = {} /\ 0 <= Len(<<>>)
  OBVIOUS
<1>3. ASSUME NEW p \in Paths PROVE v[p] <= written[p] /\ Logged(p, <<>>, v[p])
  <2>1. /\ v[p] \in 0..MaxValue /\ v[p] <= value[p] /\ value[p] \in Nat /\ written[p] \in Nat
        /\ value[p] <= written[p]
    BY DEF SavedValues, OrderInv, AccountingInv, TypeOK, LogInv
  <2>2. v[p] <= written[p]
    BY <2>1, BoundAssumption
  <2> QED BY <1>2, <2>2 DEF Logged
<1>4. LogInv'
  BY <1>1, <1>2, <1>3 DEF LogInv
<1>5. AckInv'
  BY <1>1, <1>2 DEF AckInv
<1> QED BY <1>1, <1>4, <1>5 DEF OrderInv

LEMMA ConnectOrders ==
  ASSUME OrderInv, AccountingInv', Connect
  PROVE  OrderInv'
<1>1. /\ link = FALSE /\ link' = TRUE
      /\ UNCHANGED <<live, sub, value, written, wire, acked, ackUpTo>>
  BY DEF Connect, OrderInv, AccountingInv, TypeOK
<1>2. ackUpTo = 0
  BY <1>1 DEF OrderInv, AckInv
<1>3. LogInv' /\ AckInv'
  BY <1>1, <1>2 DEF OrderInv, LogInv, AckInv
<1>4. \A p \in live' : Ordered(p, sub'[p], wire', value'[p]) /\ WindowUsed(sub'[p], link')
  BY <1>1 DEF OrderInv, WindowUsed
<1> QED BY <1>3, <1>4 DEF OrderInv

\* Only live subscriptions have entries in pendingAcks.
LEMMA CoveredIds ==
  ASSUME AccountingInv, NEW n, NEW id
  PROVE  id \in Covered(n) <=> id <= n /\ \E p \in live : id \in sub[p].pend
<1>1. \A p \in Paths \ live : sub[p].pend = {}
  BY DEF AccountingInv, TypeOK, Blank
<1>2. live \subseteq Paths /\ freed = {}
  BY DEF AccountingInv, TypeOK
<1>3. (\E p \in Paths : id \in sub[p].pend) <=> \E p \in live : id \in sub[p].pend
  BY <1>1, <1>2
<1>4. id \in UNION ({sub[p].pend : p \in Paths} \cup freed) <=> \E p \in Paths : id \in sub[p].pend
  BY <1>2
<1> QED BY <1>3, <1>4 DEF Covered

\* A message is pending for the path it carries, and for no other.
LEMMA PendingOnce ==
  ASSUME OrderInv, NEW x \in live, NEW y \in live, NEW id \in sub[x].pend, id \in sub[y].pend
  PROVE  x = y
<1>1. ASSUME NEW z \in live, id \in sub[z].pend PROVE wire[id].path = z
  <2>1. Shaped(sub[z]) /\ Tracked(z, sub[z], wire)
    BY DEF OrderInv, Ordered
  <2>2. PICK i \in 1..sub[z].out : sub[z].queue[i].id = id
    BY <1>1, <2>1 DEF Shaped
  <2> QED BY <2>1, <2>2 DEF Tracked
<1> QED BY <1>1

\* The first entry of a queue has the smallest pending id.
LEMMA FirstPending ==
  ASSUME NEW r \in SubRequester, Shaped(r), NEW id \in r.pend
  PROVE  /\ 0 < r.out /\ r.out \in Nat /\ r.queue[1].id \in r.pend
         /\ r.queue[1].id <= id /\ r.queue[1].id \in Nat
<1>1. r.out \in Nat /\ Len(r.queue) \in Nat /\ r.out <= Len(r.queue)
      /\ \A i \in 1..Len(r.queue) : r.queue[i].id \in Nat
  BY QueueFields DEF Shaped
<1>2. PICK i \in 1..r.out : r.queue[i].id = id
  BY DEF Shaped
<1>3. 1 \in 1..r.out /\ i \in Nat /\ 0 < r.out /\ i \in 1..Len(r.queue) /\ 1 \in 1..Len(r.queue)
  BY <1>1
<1>4. r.queue[1].id \in r.pend
  BY <1>3 DEF Shaped
<1>5. r.queue[1].id \in Nat /\ r.queue[i].id \in Nat
  BY <1>1, <1>3
<1>6. CASE i = 1
  BY <1>1, <1>2, <1>3, <1>4, <1>5, <1>6
<1>7. CASE i # 1
  <2>1. 1 < i
    BY <1>3, <1>7
  <2>2. r.queue[1].id < r.queue[i].id
    BY <1>3, <2>1 DEF Shaped
  <2> QED BY <1>1, <1>2, <1>3, <1>4, <1>5, <2>2
<1> QED BY <1>6, <1>7

LEMMA AckOneExtends ==
  ASSUME NEW p \in Paths, NEW st \in DeliveryState, NEW id
  PROVE  Extends(st.w, AckOne(p, st, id).w, p, st.r.sid)
<1> DEFINE k  == Popped(st.r, id)
           n  == IF st.r.out = 0 THEN CountMax ELSE st.r.out - 1
           q  == SubSeq(st.r.queue, k + 1, Len(st.r.queue))
           r2 == [st.r EXCEPT !.pend = @ \ {id}, !.out = n, !.queue = q]
           s2 == With(st, r2)
<1>1. n \in 0..CountMax
  BY DeliveryFields, SizeAssumption
<1>2. q \in Seq(QueuedMessage)
  <2>1. k \in 0..Len(st.r.queue)
    BY PoppedBounds, DeliveryFields
  <2> HIDE DEF k
  <2> QED BY <2>1, DeliveryFields
<1>3. AckOne(p, st, id) = IF k > 0 THEN SendQueued(p, s2, TRUE) ELSE s2
  BY DEF AckOne
<1> HIDE DEF k, n, q
<1>4. r2 \in SubRequester /\ r2.sid = st.r.sid
  BY <1>1, <1>2, DeliveryFields DEF SubRequester
<1> HIDE DEF r2
<1>5. s2 \in DeliveryState /\ s2.r = r2 /\ s2.w = st.w
  BY <1>4, WithType
<1> HIDE DEF s2
<1>6. Extends(st.w, s2.w, p, st.r.sid)
  BY <1>5, DeliveryFields, ExtendsItself
<1>7. Extends(st.w, SendQueued(p, s2, TRUE).w, p, st.r.sid)
  BY <1>4, <1>5, SendQueuedExtends
<1> QED BY <1>3, <1>6, <1>7

LEMMA AckReceiptOrders ==
  ASSUME OrderInv, AccountingInv', ~CumulativeAcks, NEW n \in 1..Len(wire), Ack(n)
  PROVE  OrderInv'
<1>1. /\ TypeOK /\ AccountingInv /\ LogInv /\ AckInv /\ link = TRUE /\ ackUpTo = 0
      /\ acked \in Nat /\ n = acked + 1 /\ acked' = n /\ n <= Len(wire) /\ Len(wire) \in Nat
      /\ wire \in Seq(Message)
      /\ UNCHANGED <<link, live, value, written, wire>>
      /\ \A p \in live : \A id \in sub[p].pend : acked < id /\ id \in Nat
  <2>1. TypeOK /\ AccountingInv /\ LogInv /\ AckInv
    BY DEF OrderInv, AccountingInv
  <2>2. /\ link = TRUE /\ ackUpTo = 0 /\ n = acked + 1 /\ acked' = n
        /\ UNCHANGED <<link, live, value, written, wire>>
    BY <2>1 DEF Ack, Idle, TypeOK
  <2>3. acked \in Nat /\ wire \in Seq(Message) /\ live \subseteq Paths
        /\ \A p \in Paths : sub[p].pend \subseteq Nat
    BY <2>1 DEF TypeOK, SubRequester
  <2>4. Len(wire) \in Nat /\ n <= Len(wire)
    BY <2>3
  <2>5. \A p \in live : \A id \in sub[p].pend : acked < id /\ id \in Nat
    BY <2>1, <2>2, <2>3 DEF AckInv
  <2> QED BY <2>1, <2>2, <2>3, <2>4, <2>5
<1>2. ackUpTo' = IF Covered(n) = {} THEN 0 ELSE n
  BY DEF Ack
<1>3. ASSUME NEW p \in live
      PROVE  /\ p \in Paths /\ sub[p] \in SubRequester
             /\ sub'[p].queue = sub[p].queue /\ sub'[p].out = sub[p].out
             /\ sub'[p].pend = sub[p].pend /\ sub'[p].qosQueue = sub[p].qosQueue
             /\ sub'[p].owed = sub[p].owed /\ sub'[p].sid = sub[p].sid
             /\ sub'[p].got = sub[p].got \cup ValuesSent(wire, p, n, n)
  <2>1. p \in Paths /\ sub[p] \in SubRequester
    BY <1>1 DEF TypeOK
  <2> HIDE DEF ValuesSent
  <2>2. sub'[p] = [sub[p] EXCEPT !.got = @ \cup ValuesSent(wire, p, n, n)]
    BY <1>1, <2>1 DEF Ack
  <2> QED BY <2>1, <2>2 DEF SubRequester
<1> HIDE DEF ValuesSent
<1>4. ASSUME NEW p \in live'
      PROVE  Ordered(p, sub'[p], wire', value'[p]) /\ WindowUsed(sub'[p], link')
  <2>1. p \in live /\ Ordered(p, sub[p], wire, value[p]) /\ WindowUsed(sub[p], link)
    BY <1>1 DEF OrderInv
  <2>2. Ordered(p, sub'[p], wire, value[p])
    <3>1. sub[p].got \subseteq sub'[p].got
      BY <1>3, <2>1
    <3> QED BY <1>3, <2>1, <3>1, SameQueueOrdered
  <2>3. WindowUsed(sub'[p], link)
    BY <1>3, <2>1 DEF WindowUsed
  <2> QED BY <1>1, <2>2, <2>3
<1>5. CASE Covered(n) = {}
  <2>1. ASSUME NEW p \in live, NEW id \in sub[p].pend PROVE n < id
    <3>1. ~(id <= n)
      BY <1>1, <1>5, CoveredIds
    <3> QED BY <1>1, <3>1
  <2>2. AckInv'
    BY <1>1, <1>2, <1>3, <1>5, <2>1 DEF AckInv
  <2>3. LogInv'
    BY <1>1 DEF LogInv
  <2> QED BY <1>4, <2>2, <2>3 DEF OrderInv
<1>6. CASE Covered(n) # {}
  <2>1. PICK id \in Covered(n) : TRUE
    BY <1>6
  <2>2. PICK p \in live : id \in sub[p].pend
    BY <1>1, <2>1, CoveredIds
  <2>3. sub[p] \in SubRequester /\ Shaped(sub[p]) /\ Tracked(p, sub[p], wire)
    BY <1>3 DEF OrderInv, Ordered
  <2> DEFINE first == sub[p].queue[1].id
  <2>4. /\ 0 < sub[p].out /\ sub[p].out \in Nat /\ first \in sub[p].pend /\ first \in Nat
        /\ first <= id
    BY <2>2, <2>3, FirstPending
  <2>5. first = n
    <3>1. id <= n
      BY <1>1, <2>1, CoveredIds
    <3>2. acked < first /\ id \in Nat
      BY <1>1, <2>2, <2>4
    <3> HIDE DEF first
    <3> QED BY <1>1, <2>4, <3>1, <3>2
  <2>6. sub[p].queue[1].val \in ValuesSent(wire, p, n, n)
    <3>1. wire[n].path = p /\ wire[n].vals = <<sub[p].queue[1].val>>
      <4>1. 1 \in 1..sub[p].out
        BY <2>4
      <4> QED BY <2>3, <2>5, <4>1 DEF Tracked
    <3>2. sub[p].queue[1].val \in {wire[n].vals[y] : y \in DOMAIN wire[n].vals}
      <4>1. 1 \in DOMAIN wire[n].vals /\ wire[n].vals[1] = sub[p].queue[1].val
        BY <3>1
      <4> QED BY <4>1
    <3>3. n \in {l \in n..n : wire[l].path = p}
      BY <3>1
    <3> QED BY <3>2, <3>3 DEF ValuesSent
  <2>7. ackUpTo' = n /\ n # 0
    BY <1>1, <1>2, <1>6
  <2>8. \A y \in live : \A i \in sub[y].pend : n <= i
    BY <1>1
  <2>9. sub'[p].queue[1].val \in sub'[p].got /\ 0 < sub'[p].out /\ sub'[p].queue[1].id = n
    BY <1>3, <2>4, <2>5, <2>6
  <2>10. AckInv'
    BY <1>1, <1>3, <2>7, <2>8, <2>9 DEF AckInv
  <2>11. LogInv'
    BY <1>1 DEF LogInv
  <2> QED BY <1>4, <2>10, <2>11 DEF OrderInv
<1> QED BY <1>5, <1>6

\* The one iteration of check_subscription_ack: the ack covers the first
\* entry of one queue.
LEMMA AckStepOrders ==
  ASSUME OrderInv, AccountingInv', AckStep
  PROVE  OrderInv'
<1>1. /\ TypeOK /\ AccountingInv /\ AckInv /\ ackUpTo # 0 /\ ackUpTo = acked /\ link = TRUE
      /\ acked \in Nat /\ freed = {} /\ wire \in Seq(Message)
      /\ UNCHANGED <<link, live, value, written, acked>>
      /\ \A p \in live : \A id \in sub[p].pend : acked <= id /\ id \in Nat
  BY DEF AckStep, OrderInv, AccountingInv, TypeOK, AckInv, SubRequester
<1>2. PICK p \in live : /\ 0 < sub[p].out /\ sub[p].queue[1].id = acked
                        /\ sub[p].queue[1].val \in sub[p].got
  BY <1>1 DEF AckInv
<1>3. /\ p \in Paths /\ sub[p] \in SubRequester /\ Ordered(p, sub[p], wire, value[p])
      /\ Shaped(sub[p]) /\ value[p] \in Nat /\ value[p] <= written[p]
  BY <1>1 DEF TypeOK, OrderInv, Ordered, LogInv
<1>4. acked \in sub[p].pend
  <2>1. 1 \in 1..sub[p].out
    BY <1>2, <1>3, QueueFields
  <2> QED BY <1>2, <1>3, <2>1 DEF Shaped
<1>5. Covered(ackUpTo) = {acked}
  <2>1. acked \in Covered(ackUpTo)
    BY <1>1, <1>4, CoveredIds
  <2>2. ASSUME NEW id \in Covered(ackUpTo) PROVE id = acked
    <3>1. id <= acked /\ \E y \in live : id \in sub[y].pend
      BY <1>1, CoveredIds
    <3>2. id \in Nat /\ acked <= id
      BY <1>1, <3>1
    <3> QED BY <1>1, <3>1, <3>2
  <2> QED BY <2>1, <2>2
<1>6. Max(Covered(ackUpTo)) = acked
  BY <1>1, <1>5 DEF Max
<1>7. ackUpTo' = 0
  BY <1>5, <1>6 DEF AckStep
<1> DEFINE st == AckOne(p, State(p), acked)
<1>8. FreeAndSet(NoPath, p, st)
  <2>1. PICK y \in Paths : acked \in sub[y].pend /\ SetState(y, AckOne(y, State(y), acked))
    BY <1>1, <1>6 DEF AckStep
  <2>2. y \in live
    BY <1>1, <2>1 DEF TypeOK, Blank
  <2>3. y = p
    BY <1>4, <2>1, <2>2, PendingOnce
  <2> QED BY <2>1, <2>3 DEF SetState
<1>9. /\ State(p) \in DeliveryState /\ State(p).r = sub[p] /\ State(p).w = wire
      /\ AccountedState(State(p))
  BY <1>1, <1>3, StateType DEF AccountingInv, AccountedState, State
<1>10. OrderedState(p, State(p), value[p])
  BY <1>3, <1>9 DEF OrderedState
<1>11. /\ OrderedState(p, st, value[p]) /\ WindowUsed(st.r, TRUE)
       /\ \A i \in 1..st.r.out : st.r.queue[i].id > acked
  BY <1>2, <1>3, <1>9, <1>10, AckOneOrdered
<1>12. st \in DeliveryState /\ Extends(wire, st.w, p, sub[p].sid)
  BY <1>3, <1>9, AckOneType, AckOneExtends
<1> HIDE DEF st
<1>13. \A id \in st.r.pend : acked < id
  <2>1. ASSUME NEW id \in st.r.pend PROVE acked < id
    <3>1. Shaped(st.r)
      BY <1>11 DEF OrderedState, Ordered
    <3>2. PICK i \in 1..st.r.out : st.r.queue[i].id = id
      BY <3>1 DEF Shaped
    <3>3. id > acked
      BY <1>11, <3>2
    <3>4. id \in Nat
      BY <1>12, DeliveryFields
    <3> QED BY <1>1, <3>3, <3>4
  <2> QED BY <2>1
<1>14. ASSUME NEW x \in live \ {p}, NEW id \in sub[x].pend PROVE acked < id
  <2>1. id # acked
    BY <1>4, PendingOnce
  <2> QED BY <1>1, <2>1
<1>15. live' \subseteq (live \ {NoPath}) \cup {p} /\ WindowUsed(st.r, link)
  BY <1>1, <1>11, PathAssumption DEF TypeOK
<1> QED BY <1>1, <1>3, <1>7, <1>8, <1>11, <1>12, <1>13, <1>14, <1>15, FreeAndSetOrders

LEMMA OrderKept ==
  ASSUME Sequential, OrderInv, [Next]_vars
  PROVE  OrderInv'
<1>0. /\ TypeOK /\ AccountingInv /\ ~CumulativeAcks /\ ~MayOverflow
  BY DEF OrderInv, AccountingInv, Sequential
<1>1. AccountingInv'
  BY <1>0, AccountingKept DEF Sequential
<1>2. ASSUME NEW p \in Paths, Publish(p) PROVE OrderInv'
  BY <1>1, <1>2, PublishOrders
<1>3. ASSUME NEW p \in Paths, NEW s \in Sids, NEW q \in QosLevels, Subscribe(p, s, q)
      PROVE  OrderInv'
  <2>1. q \in 0..2
    BY QosAssumption DEF Sequential
  <2>2. CASE SubscribeSame(p, s, q)
    BY <1>1, <2>1, <2>2, SubscribeSameOrders
  <2>3. CASE Resubscribe(p, s, q)
    BY <1>0, <1>1, <2>1, <2>3, ResubscribeOrders
  <2>4. ASSUME NEW block \in FreedWith(sids[s]) \cup {{}}, SubscribeNew(p, s, q, block)
        PROVE  OrderInv'
    BY <1>1, <2>1, <2>4, SubscribeNewOrders
  <2> QED BY <1>3, <2>2, <2>3, <2>4 DEF Subscribe
<1>4. ASSUME NEW s \in Sids, Unsubscribe(s) PROVE OrderInv'
  BY <1>1, <1>4, UnsubscribeOrders
<1>5. ASSUME NEW n \in 1..Len(wire), Ack(n) PROVE OrderInv'
  BY <1>0, <1>1, <1>5, AckReceiptOrders
<1>6. CASE AckStep
  BY <1>1, <1>6, AckStepOrders
<1>7. CASE Connect
  BY <1>1, <1>7, ConnectOrders
<1>8. CASE Disconnect
  BY <1>1, <1>8, DisconnectOrders
<1>9. ASSUME NEW v \in SavedValues, NEW found \in FoundFiles, Restart(v, found) PROVE OrderInv'
  BY <1>1, <1>9, RestartOrders
<1>10. CASE UNCHANGED vars
  <2>1. LogInv' /\ AckInv'
    BY <1>10 DEF vars, OrderInv, LogInv, AckInv
  <2> QED BY <1>1, <1>10, <2>1 DEF vars, OrderInv
<1>11. \A p \in Paths : ~SaveEnds(p)
  BY <1>0 DEF SaveEnds, Settled, AccountingInv
<1> QED BY <1>2, <1>3, <1>4, <1>5, <1>6, <1>7, <1>8, <1>9, <1>10, <1>11 DEF Next, Restarts

LEMMA OrderStarts == Init => OrderInv
<1> SUFFICES ASSUME Init PROVE OrderInv
  OBVIOUS
<1>1. AccountingInv
  BY InitType DEF Init, AccountingInv
<1>2. 1..Len(<<>>) = {} /\ 0 <= Len(<<>>) /\ 0 <= 0
  OBVIOUS
<1>3. LogInv
  BY <1>2 DEF Init, LogInv, Logged
<1>4. AckInv
  BY <1>2 DEF Init, AckInv
<1> QED BY <1>1, <1>3, <1>4 DEF Init, OrderInv

LEMMA OrderAlways ==
  ASSUME Sequential PROVE Spec => []OrderInv
<1>1. OrderInv /\ [Next]_vars => OrderInv'
  BY OrderKept
<1> QED BY <1>1, OrderStarts, PTL DEF Spec

\* Between handlers a message queue is a part in flight with increasing ids,
\* exactly the pending acks, and a part not sent, which is empty unless the
\* window is full or the requester is away, where nothing is in flight
\* (sendQueuedMessages, removeFromMessageQueue and broker_clear_messsage_ids):
\* for clients that acknowledge one message at a time, below qos 3, and rings
\* that never overflow.
THEOREM QueueShapeAlways ==
  ASSUME Sequential PROVE Spec => []QueueShape
<1>1. OrderInv => QueueShape
  BY DEF OrderInv, Ordered, Shaped, WindowUsed, QueueShape
<1> QED BY <1>1, OrderAlways, PTL

\* The values of a path reach the client in the order they were written, over
\* any number of acks and resubscriptions of the session (subscription.c:330):
\* for the same clients and rings.
THEOREM InOrderAlways ==
  ASSUME Sequential PROVE Spec => []InOrder
<1>1. OrderInv => InOrder
  <2> SUFFICES ASSUME OrderInv, NEW i \in DOMAIN wire, NEW j \in DOMAIN wire, i < j,
                      wire[i].path = wire[j].path,
                      NEW a \in DOMAIN wire[i].vals, NEW b \in DOMAIN wire[j].vals
               PROVE  wire[i].vals[a] <= wire[j].vals[b]
    BY DEF InOrder
  <2>1. wire \in Seq(Message) /\ LogInv
    BY DEF OrderInv, AccountingInv, TypeOK
  <2>2. DOMAIN wire = 1..Len(wire) /\ wire[i] \in Message
    BY <2>1
  <2>3. wire[i].path \in Paths \cup {NoPath}
    BY <2>2 DEF Message
  <2>4. CASE wire[i].path = NoPath
    <3>1. wire[i].vals = <<>>
      BY <2>1, <2>2, <2>4 DEF LogInv
    <3>2. DOMAIN <<>> = {}
      OBVIOUS
    <3> QED BY <3>1, <3>2
  <2>5. CASE wire[i].path \in Paths
    BY <2>1, <2>2, <2>5 DEF LogInv, Logged
  <2> QED BY <2>3, <2>4, <2>5
<1> QED BY <1>1, OrderAlways, PTL

\* Every value handed to a live subscription of qos 0-2 was acknowledged by the
\* client in some session or is still in its message queue, over any number of
\* resubscriptions, disconnections and reconnections: for the same clients and
\* rings.
THEOREM NothingLostAlways ==
  ASSUME Sequential PROVE Spec => []NothingLost
<1>1. OrderInv => NothingLost
  <2> SUFFICES ASSUME OrderInv, NEW p \in live
               PROVE  sub[p].owed \subseteq sub[p].got \cup QueuedValues(p)
    BY DEF NothingLost
  <2>1. sub[p].queue \in Seq(QueuedMessage)
    BY DEF OrderInv, AccountingInv, TypeOK, SubRequester
  <2>2. DOMAIN sub[p].queue = 1..Len(sub[p].queue)
    BY <2>1
  <2> QED BY <2>2 DEF OrderInv, Ordered, Held, QueuedValues
<1> QED BY <1>1, OrderAlways, PTL

-----------------------------------------------------------------------------
(***************************************************************************)
(* Every update goes out under a sid that names its path. SidTable says    *)
(* where an entry of the table points; a message is addressed by the sid   *)
(* its subscription carries, so the converse is needed: the table knows    *)
(* every sid a subscription carries.                                       *)
(***************************************************************************)
SidsKnown == \A p \in live : sub[p].sid \in Sids => sids[sub[p].sid] = p

AddressedStep ==
  \A m \in DOMAIN wire' \ DOMAIN wire :
    wire'[m].path # NoPath => wire'[m].sid \in Sids /\ sids'[wire'[m].sid] = wire'[m].path

\* A handler that changed the subscription of p, if any, and sent its updates.
LEMMA ExtendsAddressed ==
  ASSUME TypeOK, TypeOK', SidsKnown', NEW p \in Paths, NEW s,
         Extends(wire, wire', p, s), p \in live', sub'[p].sid = s
  PROVE  AddressedStep
<1>1. /\ DOMAIN wire = 1..Len(wire) /\ DOMAIN wire' = 1..Len(wire') /\ Len(wire) \in Nat
      /\ Len(wire') \in Nat
  BY DEF TypeOK
<1>2. SUFFICES ASSUME NEW m \in 1..Len(wire'), m \notin 1..Len(wire), wire'[m].path # NoPath
               PROVE  wire'[m].sid \in Sids /\ sids'[wire'[m].sid] = wire'[m].path
  BY <1>1 DEF AddressedStep
<1>3. m \in Len(wire) + 1..Len(wire')
  BY <1>1, <1>2
<1>4. wire'[m] # ClosedResponse
  BY <1>2, UpdateFields DEF ClosedResponse
<1>5. wire'[m].path = p /\ wire'[m].sid = s /\ s \in Sids
  BY <1>3, <1>4 DEF Extends
<1> QED BY <1>5 DEF SidsKnown

\* Nothing but a closed response was sent.
LEMMA ClosedAddressed ==
  ASSUME TypeOK, wire' \in {wire, <<>>, Append(wire, ClosedResponse)}
  PROVE  AddressedStep
<1>1. wire \in Seq(Message) /\ DOMAIN wire = 1..Len(wire) /\ Len(wire) \in Nat
  BY DEF TypeOK
<1>2. CASE wire' \in {wire, <<>>}
  <2>1. DOMAIN wire' \ DOMAIN wire = {}
    <3>1. DOMAIN <<>> = {}
      OBVIOUS
    <3> QED BY <1>2, <3>1
  <2> QED BY <2>1 DEF AddressedStep
<1>3. CASE wire' = Append(wire, ClosedResponse)
  <2> DEFINE x == Append(wire, ClosedResponse)
  <2>1. /\ x \in Seq(Message) /\ Len(x) = Len(wire) + 1
        /\ x[Len(wire) + 1] = ClosedResponse
    BY <1>1, ClosedExtends
  <2> HIDE DEF x
  <2>2. DOMAIN x = 1..Len(x)
    BY <2>1
  <2>3. ASSUME NEW m \in DOMAIN x \ DOMAIN wire PROVE x[m].path = NoPath
    <3>1. m = Len(wire) + 1
      BY <1>1, <2>1, <2>2
    <3> QED BY <2>1, <3>1, UpdateFields DEF ClosedResponse
  <2> QED BY <1>3, <2>3 DEF AddressedStep, x
<1> QED BY <1>2, <1>3

LEMMA FlushQosQueueExtends ==
  ASSUME NEW p \in Paths, NEW st \in DeliveryState, st.r.sid \in Sids
  PROVE  Extends(st.w, FlushQosQueue(p, st).w, p, st.r.sid)
<1> DEFINE u == Update(p, st.r.sid, st.r.qosQueue)
           x == Append(st.w, u)
           t == [r |-> st.r, w |-> x, d |-> st.d, f |-> st.f]
<1>1. u \in Message /\ u.path = p /\ u.sid = st.r.sid
  BY UpdateType, UpdateFields, DeliveryFields
<1>2. FlushQosQueue(p, st).w = x
  <2>1. FlushQosQueue(p, st) = ClearQosQueue(t)
    BY DEF FlushQosQueue
  <2> HIDE DEF x
  <2>2. ClearQosQueue(t).w = x
    BY DEF ClearQosQueue, With, Serialize
  <2> QED BY <2>1, <2>2
<1> HIDE DEF u
<1>3. /\ Len(x) = Len(st.w) + 1 /\ Len(st.w) \in Nat /\ x[Len(st.w) + 1] = u
      /\ \A m \in 1..Len(st.w) : x[m] = st.w[m]
  BY <1>1, DeliveryFields
<1> HIDE DEF x
<1>4. \A m \in Len(st.w) + 1..Len(x) : m = Len(st.w) + 1
  BY <1>3
<1>5. Len(st.w) <= Len(x)
  BY <1>3
<1> QED BY <1>1, <1>2, <1>3, <1>4, <1>5 DEF Extends

LEMMA PublishAddressed ==
  ASSUME AccountingInv, TypeOK', SidsKnown, NEW p \in Paths, Publish(p)
  PROVE  SidsKnown' /\ AddressedStep
<1>1. UNCHANGED <<live, sids>> /\ TypeOK
  BY DEF Publish, AccountingInv
<1>2. CASE p \in live
  <2> DEFINE st == UpdateSubReq(p, State(p), value'[p], link)
  <2>1. FreeAndSet(NoPath, p, st)
    BY <1>2 DEF Publish, SetState
  <2>2. value'[p] \in Nat /\ link \in BOOLEAN /\ sub[p].qos <= 2
    BY <1>1, <1>2 DEF Publish, TypeOK, AccountingInv, Accounted
  <2>3. State(p) \in DeliveryState /\ State(p).r = sub[p] /\ State(p).w = wire
    BY <1>1, StateType DEF State
  <2>4. /\ st \in DeliveryState /\ st.r.sid = sub[p].sid
        /\ Extends(wire, st.w, p, sub[p].sid)
    BY <2>2, <2>3, UpdateSubReqType, UpdateSubReqExtends
  <2> HIDE DEF st
  <2>5. sub'[p] = st.r /\ (\A x \in Paths \ {p} : sub'[x] = sub[x]) /\ wire' = st.w
    BY <1>1, <2>1, <2>4, SetStateSub DEF FreeAndSet
  <2>6. SidsKnown'
    <3>1. \A x \in live : x \in Paths /\ sub'[x].sid = sub[x].sid
      BY <1>1, <2>4, <2>5 DEF TypeOK
    <3> QED BY <1>1, <3>1 DEF SidsKnown
  <2> QED BY <1>1, <1>2, <2>4, <2>5, <2>6, ExtendsAddressed
<1>3. CASE p \notin live
  <2>1. UNCHANGED <<sub, wire>>
    BY <1>3 DEF Publish
  <2>2. AddressedStep
    BY <1>1, <2>1, ClosedAddressed
  <2> QED BY <1>1, <2>1, <2>2 DEF SidsKnown
<1> QED BY <1>2, <1>3

\* Freeing the subscription behind s forgets no other sid.
LEMMA SidsKnownFreed ==
  ASSUME TypeOK, SidTable, SidsKnown, NEW s \in Sids,
         NEW x \in live \ {sids[s]}, sub[x].sid \in Sids
  PROVE  sub[x].sid # s /\ SidsWithout(sids[s])[sub[x].sid] = x
<1>1. sids[sub[x].sid] = x
  BY DEF SidsKnown
<1>2. sub[x].sid # s
  BY <1>1
<1>3. CASE sids[s] = NoPath \/ sub[sids[s]].sid = Unset
  BY <1>1, <1>2, <1>3 DEF SidsWithout
<1>4. CASE ~(sids[s] = NoPath \/ sub[sids[s]].sid = Unset)
  <2>1. sub[sids[s]].sid = s
    BY <1>4 DEF SidTable
  <2>2. SidsWithout(sids[s]) = [sids EXCEPT ![s] = NoPath]
    BY <1>4, <2>1 DEF SidsWithout
  <2> QED BY <1>1, <1>2, <2>2 DEF TypeOK
<1> QED BY <1>2, <1>3, <1>4

\* What handle_subscribe does to the subscription of p and to the table, from
\* the state u after the closed response to the state t, and what it sends.
LEMMA GivenAddressed ==
  ASSUME TypeOK, TypeOK', SidsKnown', NEW o, NEW p \in Paths, p \in live', NEW s \in Sids,
         NEW u \in DeliveryState, NEW t \in DeliveryState,
         FreeAndSet(o, p, t), t.r.sid = s,
         u.w = Append(wire, ClosedResponse), Extends(u.w, t.w, p, s)
  PROVE  AddressedStep
<1>1. wire \in Seq(Message) /\ t.w \in Seq(Message) /\ u.w \in Seq(Message)
  BY DeliveryFields DEF TypeOK
<1>2. Extends(wire, u.w, p, s)
  BY <1>1, ClosedExtends
<1>3. Extends(wire, t.w, p, s)
  BY <1>1, <1>2, ExtendsTransitive
<1>4. sub'[p].sid = s /\ wire' = t.w
  BY FreeAndSetType DEF FreeAndSet
<1> QED BY <1>3, <1>4, ExtendsAddressed

LEMMA ResubscribeAddressed ==
  ASSUME AccountingInv, TypeOK', SidTable, SidsKnown,
         NEW p \in Paths, NEW s \in Sids, NEW q \in QosLevels, q <= 2, Resubscribe(p, s, q)
  PROVE  SidsKnown' /\ AddressedStep
<1> DEFINE o  == sids[s]
           st == UpdateSubQos(With(Answered(p), [sub[p] EXCEPT !.sid = s]), q)
           t  == CASE Len(st.r.qosQueue) > 0 -> FlushQosQueue(p, st)
                   [] Len(st.r.qosQueue) = 0 /\ q = 2 -> SendQueued(p, st, TRUE)
                   [] Len(st.r.qosQueue) = 0 /\ q # 2 /\ value[p] > 0 ->
                        UpdateSubReq(p, st, value[p], TRUE)
                   [] OTHER -> st
<1>1. /\ TypeOK /\ p \in live /\ o # p /\ live' = live \ {o}
      /\ sids' = [y \in Sids |-> IF y = s THEN p
                                 ELSE IF y = sub[p].sid THEN NoPath ELSE SidsWithout(o)[y]]
      /\ FreeAndSet(o, p, t) /\ value[p] \in Nat
  BY DEF Resubscribe, SidsMoved, AccountingInv, TypeOK
<1>2. /\ st \in DeliveryState /\ st.r.sid = s
      /\ FlushQosQueue(p, st) \in DeliveryState /\ FlushQosQueue(p, st).r.sid = s
      /\ SendQueued(p, st, TRUE) \in DeliveryState /\ SendQueued(p, st, TRUE).r.sid = s
      /\ UpdateSubReq(p, st, value[p], TRUE) \in DeliveryState
      /\ UpdateSubReq(p, st, value[p], TRUE).r.sid = s
  BY <1>1, ResubscribedType
<1>3. st.w = Append(wire, ClosedResponse) /\ st.r.qos <= 2
  <2> DEFINE r1 == [sub[p] EXCEPT !.sid = s]
             a  == With(Answered(p), r1)
  <2>1. r1 \in SubRequester
    <3>1. sub[p] \in SubRequester
      BY <1>1 DEF TypeOK
    <3> QED BY <3>1 DEF SubRequester
  <2> HIDE DEF r1
  <2>2. a \in DeliveryState /\ a.r \in SubRequester /\ a.w = Append(wire, ClosedResponse)
    BY <1>1, <2>1, StateType, WithType DEF Answered
  <2> HIDE DEF a
  <2>3. q \in 0..3
    BY QosAssumption
  <2>4. /\ UpdateSubQos(a, q).w = a.w /\ UpdateSubQos(a, q).r = [a.r EXCEPT !.qos = q]
    BY <2>2, <2>3, UpdateSubQosType
  <2>5. [a.r EXCEPT !.qos = q].qos = q
    BY <2>2 DEF SubRequester
  <2>6. st = UpdateSubQos(a, q)
    BY DEF a, r1
  <2> HIDE DEF st
  <2> QED BY <2>2, <2>4, <2>5, <2>6
<1>4. t \in {FlushQosQueue(p, st), SendQueued(p, st, TRUE),
             UpdateSubReq(p, st, value[p], TRUE), st}
  OBVIOUS
<1> HIDE DEF t, st
<1>5. t \in DeliveryState /\ t.r.sid = s /\ Extends(st.w, t.w, p, s)
  <2>1. Extends(st.w, FlushQosQueue(p, st).w, p, s)
    BY <1>2, FlushQosQueueExtends
  <2>2. Extends(st.w, SendQueued(p, st, TRUE).w, p, s)
    BY <1>2, SendQueuedExtends
  <2>3. Extends(st.w, UpdateSubReq(p, st, value[p], TRUE).w, p, s)
    BY <1>1, <1>2, <1>3, UpdateSubReqExtends
  <2>4. Extends(st.w, st.w, p, s)
    BY <1>2, DeliveryFields, ExtendsItself
  <2> QED BY <1>2, <1>4, <2>1, <2>2, <2>3, <2>4
<1>6. /\ sub'[p] = t.r
      /\ \A x \in Paths \ {p} : sub'[x] = IF x = o THEN Blank ELSE sub[x]
  <2> HIDE DEF o
  <2> QED BY <1>1, <1>5, FreeAndSetType
<1>7. ASSUME NEW x \in live', sub'[x].sid \in Sids PROVE sids'[sub'[x].sid] = x
  <2>1. CASE x = p
    BY <1>1, <1>5, <1>6, <2>1
  <2>2. CASE x # p
    <3>1. x \in live \ {o} /\ sub'[x] = sub[x]
      BY <1>1, <1>6, <2>2 DEF TypeOK
    <3>2. sub[x].sid # s /\ SidsWithout(o)[sub[x].sid] = x
      BY <1>1, <1>7, <3>1, SidsKnownFreed
    <3>3. sub[x].sid # sub[p].sid
      BY <1>1, <1>7, <2>2, <3>1 DEF SidsKnown
    <3> HIDE DEF o
    <3> QED BY <1>1, <1>7, <3>1, <3>2, <3>3
  <2> QED BY <2>1, <2>2
<1>8. SidsKnown'
  BY <1>7 DEF SidsKnown
<1>9. p \in live'
  BY <1>1
<1> HIDE DEF o
<1> QED BY <1>1, <1>2, <1>3, <1>5, <1>8, <1>9, GivenAddressed

LEMMA SubscribeNewAddressed ==
  ASSUME AccountingInv, TypeOK', SidTable, SidsKnown,
         NEW p \in Paths, NEW s \in Sids, NEW q \in QosLevels, q <= 2,
         NEW block \in FreedWith(sids[s]) \cup {{}}, SubscribeNew(p, s, q, block)
  PROVE  SidsKnown' /\ AddressedStep
<1> DEFINE o == sids[s]
           c == Create(s, q, <<>>, block)
           u == With(Answered(p), c)
           t == AddNew(p, IF q > 2 THEN Serialize(u) ELSE u, value[p], TRUE)
<1>1. /\ TypeOK /\ p \notin live /\ live' = (live \ {o}) \cup {p}
      /\ sids' = [SidsWithout(o) EXCEPT ![s] = p] /\ FreeAndSet(o, p, t)
      /\ value[p] \in Nat /\ block \in SUBSET Nat
  BY FreesCleanly DEF SubscribeNew, AccountingInv, TypeOK
<1>2. t \in DeliveryState /\ t.r.sid = s
  BY <1>1, AddedType
<1>3. c \in SubRequester /\ c.qos = q /\ c.sid = s
  <2> DEFINE none == <<>>
  <2>1. q \in 0..3 /\ none \in Seq(Nat)
    BY QosAssumption
  <2> HIDE DEF none
  <2>2. /\ Create(s, q, none, block) \in SubRequester
        /\ Create(s, q, none, block).qos = q /\ Create(s, q, none, block).sid = s
    BY <1>1, <2>1, CreateType
  <2> QED BY <2>2 DEF c, none
<1> HIDE DEF c
<1>4. /\ u \in DeliveryState /\ u.r = c /\ u.w = Append(wire, ClosedResponse)
  BY <1>1, <1>3, StateType, WithType DEF Answered
<1> HIDE DEF u
<1>5. t = IF value[p] > 0 THEN UpdateSubReq(p, u, value[p], TRUE) ELSE u
  <2>1. ~(q > 2)
    BY QosAssumption
  <2> QED BY <2>1 DEF AddNew
<1> HIDE DEF t
<1>6. Extends(u.w, t.w, p, s)
  <2>1. Extends(u.w, UpdateSubReq(p, u, value[p], TRUE).w, p, s)
    BY <1>1, <1>3, <1>4, UpdateSubReqExtends
  <2>2. Extends(u.w, u.w, p, s)
    BY <1>4, DeliveryFields, ExtendsItself
  <2> QED BY <1>5, <2>1, <2>2
<1>7. /\ sub'[p] = t.r
      /\ \A x \in Paths \ {p} : sub'[x] = IF x = o THEN Blank ELSE sub[x]
  <2> HIDE DEF o
  <2> QED BY <1>1, <1>2, FreeAndSetType
<1>8. SidsWithout(o) \in [Sids -> Paths \cup {NoPath}]
  BY <1>1, FreeType
<1>9. ASSUME NEW x \in live', sub'[x].sid \in Sids PROVE sids'[sub'[x].sid] = x
  <2>1. CASE x = p
    BY <1>1, <1>2, <1>7, <1>8, <2>1
  <2>2. CASE x # p
    <3>1. x \in live \ {o} /\ sub'[x] = sub[x]
      BY <1>1, <1>7, <2>2 DEF TypeOK
    <3>2. sub[x].sid # s /\ SidsWithout(o)[sub[x].sid] = x
      BY <1>1, <1>9, <3>1, SidsKnownFreed
    <3> HIDE DEF o
    <3> QED BY <1>1, <1>8, <1>9, <3>1, <3>2
  <2> QED BY <2>1, <2>2
<1>10. SidsKnown'
  BY <1>9 DEF SidsKnown
<1>11. p \in live'
  BY <1>1
<1> HIDE DEF o
<1> QED BY <1>1, <1>2, <1>4, <1>6, <1>10, <1>11, GivenAddressed

LEMMA SubscribeSameAddressed ==
  ASSUME TypeOK, SidsKnown, NEW p \in Paths, NEW s \in Sids, NEW q \in QosLevels,
         SubscribeSame(p, s, q)
  PROVE  SidsKnown' /\ AddressedStep
<1> DEFINE t == UpdateSubQos(Answered(p), q)
<1>1. FreeAndSet(NoPath, p, t) /\ UNCHANGED <<live, sids>>
  BY DEF SubscribeSame, SetState
<1>2. t \in DeliveryState /\ t.r.sid = sub[p].sid /\ t.w = Append(wire, ClosedResponse)
  <2>1. /\ Answered(p) \in DeliveryState /\ Answered(p).r = sub[p] /\ q \in 0..3
        /\ Answered(p).w = Append(wire, ClosedResponse)
    BY StateType, QosAssumption DEF Answered
  <2>2. /\ t \in DeliveryState /\ t.r = [sub[p] EXCEPT !.qos = q]
        /\ t.w = Append(wire, ClosedResponse)
    BY <2>1, UpdateSubQosType
  <2>3. sub[p] \in SubRequester
    BY DEF TypeOK
  <2> HIDE DEF t
  <2> QED BY <2>2, <2>3 DEF SubRequester
<1> HIDE DEF t
<1>3. sub'[p] = t.r /\ (\A x \in Paths \ {p} : sub'[x] = sub[x]) /\ wire' = t.w
  BY <1>1, <1>2, SetStateSub DEF FreeAndSet
<1>4. \A x \in live : x \in Paths /\ sub'[x].sid = sub[x].sid
  BY <1>2, <1>3 DEF TypeOK
<1>5. SidsKnown'
  BY <1>1, <1>4 DEF SidsKnown
<1> QED BY <1>2, <1>3, <1>5, ClosedAddressed

LEMMA UnsubscribeAddressed ==
  ASSUME TypeOK, SidTable, SidsKnown, NEW s \in Sids, Unsubscribe(s)
  PROVE  SidsKnown' /\ AddressedStep
<1> DEFINE o == sids[s]
<1>1. /\ live' = live \ {o} /\ wire' = Append(wire, ClosedResponse)
      /\ sids' = [SidsWithout(o) EXCEPT ![s] = NoPath]
      /\ sub' = [x \in Paths |-> IF x = o THEN Blank ELSE sub[x]]
  BY DEF Unsubscribe
<1>2. SidsWithout(o) \in [Sids -> Paths \cup {NoPath}]
  BY FreeType
<1>3. ASSUME NEW x \in live', sub'[x].sid \in Sids PROVE sids'[sub'[x].sid] = x
  <2>1. x \in live \ {o} /\ sub'[x] = sub[x]
    BY <1>1 DEF TypeOK
  <2>2. sub[x].sid # s /\ SidsWithout(o)[sub[x].sid] = x
    BY <1>3, <2>1, SidsKnownFreed
  <2> HIDE DEF o
  <2> QED BY <1>1, <1>2, <1>3, <2>1, <2>2
<1>4. SidsKnown'
  BY <1>3 DEF SidsKnown
<1> QED BY <1>1, <1>4, ClosedAddressed

LEMMA AckReceiptAddressed ==
  ASSUME TypeOK, SidsKnown, NEW n \in 1..Len(wire), Ack(n)
  PROVE  SidsKnown' /\ AddressedStep
<1>1. /\ sub' = [p \in Paths |->
                   IF p \in live
                     THEN [sub[p] EXCEPT !.got = @ \cup ValuesSent(wire, p, acked + 1, n)]
                     ELSE sub[p]]
      /\ UNCHANGED <<live, sids, wire>>
  BY DEF Ack
<1>2. ASSUME NEW p \in live PROVE sub'[p].sid = sub[p].sid
  <2>1. p \in Paths /\ sub[p] \in SubRequester
    BY DEF TypeOK
  <2> HIDE DEF ValuesSent
  <2>2. sub'[p] = [sub[p] EXCEPT !.got = @ \cup ValuesSent(wire, p, acked + 1, n)]
    BY <1>1, <2>1
  <2> QED BY <2>1, <2>2 DEF SubRequester
<1>3. SidsKnown'
  BY <1>1, <1>2 DEF SidsKnown
<1> QED BY <1>1, <1>3, ClosedAddressed

LEMMA AckStepAddressed ==
  ASSUME TypeOK, TypeOK', SidsKnown, AckStep
  PROVE  SidsKnown' /\ AddressedStep
<1> DEFINE id == Max(Covered(ackUpTo))
<1>1. /\ \/ \E p \in Paths : id \in sub[p].pend /\ SetState(p, AckOne(p, State(p), id))
         \/ UNCHANGED <<sub, wire>>
      /\ UNCHANGED <<live, sids>>
  BY DEF AckStep
<1> HIDE DEF id
<1>2. ASSUME NEW p \in Paths, id \in sub[p].pend, SetState(p, AckOne(p, State(p), id))
      PROVE  SidsKnown' /\ AddressedStep
  <2> DEFINE t == AckOne(p, State(p), id)
  <2>1. p \in live
    BY <1>2 DEF TypeOK, Blank
  <2>2. State(p) \in DeliveryState /\ State(p).r = sub[p] /\ State(p).w = wire
    BY StateType DEF State
  <2>3. t \in DeliveryState /\ t.r.sid = sub[p].sid /\ Extends(wire, t.w, p, sub[p].sid)
    BY <2>2, AckOneType, AckOneExtends
  <2>4. FreeAndSet(NoPath, p, t)
    BY <1>2 DEF SetState
  <2> HIDE DEF t
  <2>5. sub'[p] = t.r /\ (\A x \in Paths \ {p} : sub'[x] = sub[x]) /\ wire' = t.w
    BY <2>3, <2>4, SetStateSub DEF FreeAndSet
  <2>6. SidsKnown'
    BY <1>1, <2>3, <2>5 DEF SidsKnown, TypeOK
  <2> QED BY <1>1, <2>1, <2>3, <2>5, <2>6, ExtendsAddressed
<1>3. CASE UNCHANGED <<sub, wire>>
  <2>1. AddressedStep
    BY <1>3, ClosedAddressed
  <2> QED BY <1>1, <1>3, <2>1 DEF SidsKnown
<1> QED BY <1>1, <1>2, <1>3

LEMMA DisconnectAddressed ==
  ASSUME TypeOK, Disconnect
  PROVE  SidsKnown' /\ AddressedStep
<1>1. /\ live' \subseteq live /\ wire' = <<>>
      /\ sub' = [p \in Paths |->
                   IF p \in live'
                     THEN [ClearMessageIds(sub[p]) EXCEPT !.sid = Unset, !.pend = {}]
                     ELSE Blank]
  BY DEF Disconnect
<1>2. ASSUME NEW p \in live' PROVE sub'[p].sid = Unset
  <2> DEFINE c == ClearMessageIds(sub[p])
  <2>1. p \in Paths /\ c \in SubRequester
    BY <1>1, ClearMessageIdsType DEF TypeOK
  <2> HIDE DEF c
  <2>2. sub'[p] = [c EXCEPT !.sid = Unset, !.pend = {}]
    BY <1>1, <2>1 DEF c
  <2> QED BY <2>1, <2>2 DEF SubRequester
<1>3. \A p \in live' : sub'[p].sid \notin Sids
  BY <1>2, SidAssumption
<1>4. SidsKnown'
  BY <1>3 DEF SidsKnown
<1> QED BY <1>1, <1>4, ClosedAddressed

\* Every update goes out under a sid that names its path at that moment, over
\* any number of publishes, subscribes, acks, overflows and reconnections
\* (sendMessage, sendQueuedMessages and broker_update_sub_req_qos, with the
\* table of handle_subscribe), while no client subscribes with qos 3.
THEOREM AddressedAlways ==
  ASSUME 3 \notin QosLevels
  PROVE  Spec => Addressed
<1>1. Init => SidsKnown
  BY DEF Init, SidsKnown
<1>2. ASSUME AccountingInv, TypeOK', SidTable, SidsKnown, [Next]_vars
      PROVE  SidsKnown' /\ AddressedStep
  <2>0. TypeOK
    BY <1>2 DEF AccountingInv
  <2>1. ASSUME NEW p \in Paths, Publish(p) PROVE SidsKnown' /\ AddressedStep
    BY <1>2, <2>1, PublishAddressed
  <2>2. ASSUME NEW p \in Paths, NEW s \in Sids, NEW q \in QosLevels, Subscribe(p, s, q)
        PROVE  SidsKnown' /\ AddressedStep
    <3>1. q <= 2
      BY QosAssumption
    <3>2. CASE SubscribeSame(p, s, q)
      BY <1>2, <2>0, <3>2, SubscribeSameAddressed
    <3>3. CASE Resubscribe(p, s, q)
      BY <1>2, <3>1, <3>3, ResubscribeAddressed
    <3>4. ASSUME NEW block \in FreedWith(sids[s]) \cup {{}}, SubscribeNew(p, s, q, block)
          PROVE  SidsKnown' /\ AddressedStep
      BY <1>2, <3>1, <3>4, SubscribeNewAddressed
    <3> QED BY <2>2, <3>2, <3>3, <3>4 DEF Subscribe
  <2>3. ASSUME NEW s \in Sids, Unsubscribe(s) PROVE SidsKnown' /\ AddressedStep
    BY <1>2, <2>0, <2>3, UnsubscribeAddressed
  <2>4. ASSUME NEW n \in 1..Len(wire), Ack(n) PROVE SidsKnown' /\ AddressedStep
    BY <1>2, <2>0, <2>4, AckReceiptAddressed
  <2>5. CASE AckStep
    BY <1>2, <2>0, <2>5, AckStepAddressed
  <2>6. CASE Connect \/ UNCHANGED vars
    <3>1. UNCHANGED <<live, sids, sub, wire>>
      BY <2>6 DEF Connect, vars
    <3>2. AddressedStep
      BY <2>0, <3>1, ClosedAddressed
    <3> QED BY <1>2, <3>1, <3>2 DEF SidsKnown
  <2>7. CASE Disconnect
    BY <2>0, <2>7, DisconnectAddressed
  <2>8. ASSUME NEW v \in SavedValues, NEW found \in FoundFiles, Restart(v, found) PROVE SidsKnown' /\ AddressedStep
    <3>1. live' = {} /\ wire' = <<>>
      <4>1. \A p \in Paths : found[p] = NoRecord
        BY <1>2, <2>0, FoundType DEF AccountingInv
      <4> QED BY <2>8, <4>1 DEF Restart
    <3> QED BY <2>0, <3>1, ClosedAddressed DEF SidsKnown
  <2>9. \A p \in Paths : ~SaveEnds(p)
    BY <1>2 DEF SaveEnds, Settled, AccountingInv
  <2> QED BY <1>2, <2>1, <2>2, <2>3, <2>4, <2>5, <2>6, <2>7, <2>8, <2>9 DEF Next, Restarts
<1>3. AddressedStep => [AddressedStep]_vars
  OBVIOUS
<1>4. Spec => [][AddressedStep]_vars
  BY <1>1, <1>2, AccountingAlways, TypeCorrect, SidTableCorrect, PTL DEF Spec
<1> QED BY <1>4 DEF Addressed, AddressedStep
=============================================================================
