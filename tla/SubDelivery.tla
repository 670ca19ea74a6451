---------------------------- MODULE SubDelivery ----------------------------
(***************************************************************************)
(* Delivery of value updates from the broker to ONE requester dslink:      *)
(* broker/src/subscription.c with the handlers that drive it               *)
(* (msg_subscribe.c, msg_unsubscribe.c, the teardown of a link in          *)
(* remote_dslink.c and the reload of stored subscriptions in               *)
(* node_serialization.c).                                                  *)
(*                                                                         *)
(* The broker runs on one libuv loop, so a handler is one atomic step.     *)
(* The only handler cut into several steps is check_subscription_ack: one  *)
(* step per iteration of its loop, with every other action disabled until  *)
(* the loop has ended (ackUpTo # 0).                                       *)
(*                                                                         *)
(* The subscribed paths are value nodes of the broker's own /data tree, so *)
(* the sub stream of a path exists exactly while the path is subscribed    *)
(* and its last_value is the value of the node.                            *)
(***************************************************************************)
EXTENDS Integers, Sequences, FiniteSets, FiniteSetsExt

CONSTANTS
  Paths,            \* subscribable nodes
  Sids,             \* subscription ids the client uses
  Unset,            \* reqSid 0xFFFFFFFF: "still waiting for qos requester to connect"
  NoPath,           \* no subscription behind a sid; a message that carries no update
  NoRecord,         \* no record of the subscription in the qos storage; a file that is not there or empty
  Torn,             \* a file left by overlapping saves that does not parse
  QosLevels,        \* qos values the client asks for
  QueueSize,        \* broker_max_qos_queue_size
  SendWindow,       \* broker_max_ws_send_queue_size
  CountMax,         \* UINT32_MAX, where --messageOutputQueueCount wraps to
  CumulativeAcks,   \* the client may acknowledge several messages with one ack
  MayOverflow,      \* values may arrive while the message queue is full
  MaxValue,         \* bound: values written to each node
  MaxMsgs,          \* bound: requests are taken while the session log is shorter
  MaxContents       \* bound: contents the files may have when a value or a request comes

ASSUME QosAssumption    == QosLevels \subseteq 0..3
ASSUME SidAssumption    == 0 \in Sids /\ Unset \notin Sids
ASSUME PathAssumption   == NoPath \notin Paths
ASSUME RecordAssumption == NoRecord \notin Seq(Nat) /\ Torn \notin Seq(Nat) /\ Torn # NoRecord
\* config.c raises the queue to the send window only when it reads maxQueue,
\* so a window larger than the default queue is possible.
ASSUME SizeAssumption   == /\ SendWindow \in Nat \ {0} /\ QueueSize \in Nat \ {0}
                           /\ CountMax \in Nat
                           /\ QueueSize <= CountMax /\ SendWindow <= CountMax
ASSUME ModeAssumption   == CumulativeAcks \in BOOLEAN /\ MayOverflow \in BOOLEAN
ASSUME BoundAssumption  == MaxValue \in Nat /\ MaxMsgs \in Nat /\ MaxContents \in Nat

VARIABLES
  link,      \* node->link # NULL
  live,      \* the paths in req_sub_paths
  sids,      \* req_sub_sids: which subscription a sid names
  sub,       \* the SubRequester of every path (Blank when not live)
  freed,     \* pendingAcks left behind by freed SubRequesters, a set of ids per block
  store,     \* store->root of the qos storage: the qosQueue stored for every path
  file,      \* what the file of every record may hold at this moment, a set
  value,     \* value of every node, 0 before the first
  written,   \* how many values were written to every node
  wire,      \* messages sent in this session, wire[i] has msgId i
  acked,     \* highest msgId the client has acknowledged in this session
  ackUpTo    \* the ack check_subscription_ack is working on, 0 when it is not running

vars == <<link, live, sids, sub, freed, store, file, value, written, wire, acked, ackUpTo>>

-----------------------------------------------------------------------------
QueuedMessage == [val : Nat, id : Nat]

\* owed and got are history: the values handed to the subscription since it
\* was created, and those of them in messages the client has acknowledged.
SubRequester ==
  [sid : Sids \cup {Unset}, qos : 0..3, hasQueue : BOOLEAN,
   queue : Seq(QueuedMessage), out : 0..CountMax, pend : SUBSET Nat,
   qosQueue : Seq(Nat), owed : SUBSET Nat, got : SUBSET Nat]

\* What a file may hold: records, nothing, or what does not parse.
Files == SUBSET (Seq(Nat) \cup {NoRecord, Torn})

Message == [path : Paths \cup {NoPath}, sid : Sids \cup {Unset}, vals : Seq(Nat)]

\* What is left of a subscription that is not in req_sub_paths.
Blank == [sid |-> Unset, qos |-> 0, hasQueue |-> FALSE, queue |-> <<>>, out |-> 0,
          pend |-> {}, qosQueue |-> <<>>, owed |-> {}, got |-> {}]

Update(p, s, vs) == [path |-> p, sid |-> s, vals |-> vs]
ClosedResponse   == Update(NoPath, Unset, <<>>)

-----------------------------------------------------------------------------
(***************************************************************************)
(* The functions of subscription.c work on a subscription, the session log,*)
(* the stored record and its file: st = [r |-> SubRequester, w |-> wire,   *)
(* d |-> record, f |-> file]. The parameter up is "reqNode->link is not    *)
(* NULL".                                                                  *)
(***************************************************************************)
State(p) == [r |-> sub[p], w |-> wire, d |-> store[p], f |-> file[p]]
With(st, r) == [r |-> r, w |-> st.w, d |-> st.d, f |-> st.f]

\* No save of the record is under way. A save ends when the last chain of file
\* operations it starts has ended: the one of the handler, or the one of the
\* next tick of the save timer.
Settled(f) == \A a, b \in f : a = b

\* json_storage_trigger_save of the record d: from the truncating open to the
\* write the file is empty; of overlapping saves the longer may leave its tail
SaveBegun(f, d) ==
  IF Settled(f) THEN (f \ {Torn}) \cup {NoRecord, d} ELSE f \cup {d, Torn}
\* json_storage_trigger_save of a record that is gone: the file is unlinked, but
\* a save under way may make it again
FileUnlinked(f) == IF Settled(f) THEN {NoRecord} ELSE f \cup {NoRecord}

\* broker_create_sub_requester; a calloc may return a freed block whose old
\* pendingAcks still point at it.
Create(s, q, stored, block) ==
  [Blank EXCEPT !.sid = s, !.qos = q, !.qosQueue = stored, !.pend = block,
                !.owed = {stored[i] : i \in DOMAIN stored}]

\* sendMessage + addPendingAck, for a value that is not in the message queue
SendMessage(p, st, v) ==
  [r |-> [st.r EXCEPT !.out = IF @ = CountMax THEN 0 ELSE @ + 1,
                      !.pend = @ \cup {Len(st.w) + 1}],
   w |-> Append(st.w, Update(p, st.r.sid, <<v>>)),
   d |-> st.d, f |-> st.f]

\* Mutant: the ring takes one entry less than its size.
AddToMessageQueueOneShort(r, v) ==
  LET rest == IF Len(r.queue) = QueueSize - 1 THEN Tail(r.queue) ELSE r.queue
  IN [r EXCEPT !.hasQueue = TRUE, !.queue = Append(rest, [val |-> v, id |-> 0])]
\* addToMessageQueue: rb_push overwrites the oldest entry of a full ring
AddToMessageQueue(r, v) ==
  LET rest == IF Len(r.queue) = QueueSize THEN Tail(r.queue) ELSE r.queue
  IN [r EXCEPT !.hasQueue = TRUE, !.queue = Append(rest, [val |-> v, id |-> 0])]

\* messageOutputQueueCount when the loop of sendQueuedMessages ends: the first
\* index that is outside the window or the queue, or was sent already
StopAt(r) ==
  Min({i \in r.out .. r.out + Len(r.queue) :
         i >= SendWindow \/ i >= Len(r.queue) \/ r.queue[i + 1].id > 0})

\* The entries of the queue that sendQueuedMessages sends, and the queue with
\* the ids they get in a session log of m messages
SentUpdates(p, r, n) ==
  [j \in 1 .. n - r.out |-> Update(p, r.sid, <<r.queue[r.out + j].val>>)]
MarkSent(r, n, m) ==
  [i \in DOMAIN r.queue |->
     IF i \in r.out + 1 .. n THEN [r.queue[i] EXCEPT !.id = m + i - r.out] ELSE r.queue[i]]

\* Mutant: sends before the requester has subscribed again.
SendQueuedUnbound(p, st, up) ==
  LET r == st.r
      n == IF up THEN StopAt(r) ELSE r.out
      m == Len(st.w)
  IN [r |-> [r EXCEPT !.out = n,
                      !.pend = @ \cup (m + 1 .. m + n - r.out),
                      !.queue = MarkSent(r, n, m)],
      w |-> st.w \o SentUpdates(p, r, n),
      d |-> st.d, f |-> st.f]
\* sendQueuedMessages
SendQueued(p, st, up) ==
  LET r == st.r
      n == IF up /\ r.sid # Unset THEN StopAt(r) ELSE r.out
      m == Len(st.w)
  IN [r |-> [r EXCEPT !.out = n,
                      !.pend = @ \cup (m + 1 .. m + n - r.out),
                      !.queue = MarkSent(r, n, m)],
      w |-> st.w \o SentUpdates(p, r, n),
      d |-> st.d, f |-> st.f]

\* serialize_qos_queue(sub, 0) is only effective for qos 3
Serialize(st) == [st EXCEPT !.d = st.r.qosQueue, !.f = SaveBegun(@, st.r.qosQueue)]

\* Mutant: clear_qos_queue(sub, 0), the record keeps the values.
ClearQosQueueInMemory(st) == With(st, [st.r EXCEPT !.qosQueue = <<>>])
\* clear_qos_queue(sub, 1)
ClearQosQueue(st) ==
  LET c == With(st, [st.r EXCEPT !.qosQueue = <<>>])
  IN IF st.r.qos > 2 THEN Serialize(c) ELSE c

\* broker_update_sub_req, qos 3 without a link: a full queue is destroyed, and
\* the new value with it
AppendToQosQueue(st, v) ==
  IF Len(st.r.qosQueue) >= QueueSize THEN ClearQosQueue(st)
  ELSE Serialize(With(st, [st.r EXCEPT !.qosQueue = Append(@, v)]))

\* Mutant: a value is sent at once while the window is open.
UpdateSubReqPastQueue(p, st, v, up) ==
  LET o == With(st, [st.r EXCEPT !.owed = @ \cup {v}]) IN
  IF up /\ st.r.out < SendWindow THEN SendMessage(p, o, v)
  ELSE IF st.r.qos <= 2 THEN SendQueued(p, With(o, AddToMessageQueue(o.r, v)), up)
  ELSE AppendToQosQueue(o, v)
\* broker_update_sub_req
UpdateSubReq(p, st, v, up) ==
  LET o == With(st, [st.r EXCEPT !.owed = @ \cup {v}]) IN
  IF st.r.qos <= 2 THEN SendQueued(p, With(o, AddToMessageQueue(o.r, v)), up)
  ELSE IF up THEN SendMessage(p, o, v)
  ELSE AppendToQosQueue(o, v)

\* Mutant: the queue is cleared before it is sent.
FlushQosQueueClearedFirst(p, st) ==
  LET c == ClearQosQueue(st)
  IN [c EXCEPT !.w = Append(@, Update(p, c.r.sid, c.r.qosQueue))]
\* broker_update_sub_req_qos, with a link: one message, not pending an ack
FlushQosQueue(p, st) ==
  ClearQosQueue([r |-> st.r, w |-> Append(st.w, Update(p, st.r.sid, st.r.qosQueue)),
                 d |-> st.d, f |-> st.f])

\* broker_update_sub_qos
UpdateSubQos(st, q) ==
  LET c == With(st, [st.r EXCEPT !.qos = q]) IN
  IF st.r.qos = 3 /\ q # 3 THEN [c EXCEPT !.d = NoRecord, !.f = FileUnlinked(@)]
  ELSE IF st.r.qos # 3 /\ q = 3 THEN Serialize(c)
  ELSE c

\* Mutant: the ids of the old session stay.
ClearMessageCountOnly(r) == [r EXCEPT !.out = 0]
\* Mutant: the count of the old session stays.
ClearMessageIdsButCount(r) ==
  [r EXCEPT !.queue = [i \in DOMAIN @ |-> [@[i] EXCEPT !.id = 0]]]
\* broker_clear_messsage_ids: gives up when the count points past the queue
ClearMessageIds(r) ==
  [r EXCEPT !.out = 0,
            !.queue = IF r.out > Len(@) THEN @
                      ELSE [i \in DOMAIN @ |->
                              IF i <= r.out THEN [@[i] EXCEPT !.id = 0] ELSE @[i]]]

\* removeFromMessageQueue: how many entries it pops
Popped(r, id) ==
  Min({i \in 0..Len(r.queue) :
         i = Len(r.queue) \/ r.queue[i + 1].id = 0 \/ r.queue[i + 1].id > id})

\* Mutant: the queue is not sent after an ack.
AckOneSendsNoMore(p, st, id) ==
  With(st, [st.r EXCEPT !.pend = @ \ {id},
                        !.out = IF @ = 0 THEN CountMax ELSE @ - 1,
                        !.queue = SubSeq(@, Popped(st.r, id) + 1, Len(@))])
\* the body of the loop of check_subscription_ack
AckOne(p, st, id) ==
  LET k == Popped(st.r, id)
      r == [st.r EXCEPT !.pend = @ \ {id},
                        !.out = IF @ = 0 THEN CountMax ELSE @ - 1,
                        !.queue = SubSeq(@, k + 1, Len(@))]
  IN IF k > 0 THEN SendQueued(p, With(st, r), TRUE) ELSE With(st, r)

\* broker_free_sub_requester(o): what becomes of the sid table, of the
\* pendingAcks and of the record. Entries of the pendingAcks are erased only
\* when the subscription has a message queue. The record is deleted, and then
\* stored again, empty, by clear_qos_queue. NoPath: nothing is freed.
SidsWithout(o) ==
  IF o = NoPath \/ sub[o].sid = Unset THEN sids ELSE [sids EXCEPT ![sub[o].sid] = NoPath]
FreedWith(o) ==
  IF o = NoPath \/ sub[o].hasQueue \/ sub[o].pend = {} THEN freed ELSE freed \cup {sub[o].pend}
RecordAfterFree(o) == IF sub[o].qos > 2 THEN <<>> ELSE store[o]
FileAfterFree(o) == IF sub[o].qos > 2 THEN SaveBegun(FileUnlinked(file[o]), <<>>) ELSE file[o]

\* Mutant: the old sid still names the path.
SidsMovedButOldStays(p, s) == [SidsWithout(sids[s]) EXCEPT ![s] = p]
\* handle_subscribe: the sid table after the path p gets the sid s
SidsMoved(p, s) ==
  [t \in Sids |-> IF t = s THEN p
                  ELSE IF t = sub[p].sid THEN NoPath ELSE SidsWithout(sids[s])[t]]

-----------------------------------------------------------------------------
Init ==
  /\ link = FALSE
  /\ live = {}
  /\ sids = [s \in Sids |-> NoPath]
  /\ sub = [p \in Paths |-> Blank]
  /\ freed = {}
  /\ store = [p \in Paths |-> NoRecord]
  /\ file = [p \in Paths |-> {NoRecord}]
  /\ value = [p \in Paths |-> 0]
  /\ written = [p \in Paths |-> 0]
  /\ wire = <<>>
  /\ acked = 0
  /\ ackUpTo = 0

\* No handler is in the middle of its loop.
Idle == ackUpTo = 0

\* A full ring receives one more value only where MayOverflow says so.
Room(p) == MayOverflow \/ Len(sub[p].queue) < QueueSize

FewSaves == Cardinality(UNION {{p} \X file[p] : p \in Paths}) <= MaxContents

CanRequest == link /\ Idle /\ Len(wire) < MaxMsgs /\ FewSaves

\* Frees the subscription of o and gives p its new state.
FreeAndSet(o, p, st) ==
  /\ sub' = [x \in Paths |-> IF x = p THEN st.r ELSE IF x = o THEN Blank ELSE sub[x]]
  /\ store' = [x \in Paths |-> IF x = p THEN st.d
                              ELSE IF x = o THEN RecordAfterFree(x) ELSE store[x]]
  /\ file' = [x \in Paths |-> IF x = p THEN st.f
                              ELSE IF x = o THEN FileAfterFree(x) ELSE file[x]]
  /\ wire' = st.w

SetState(p, st) == FreeAndSet(NoPath, p, st)

\* broker_node_update_value: a value is written to the node of p.
Publish(p) ==
  /\ Idle /\ written[p] < MaxValue /\ Room(p) /\ FewSaves
  /\ written' = [written EXCEPT ![p] = @ + 1]
  /\ value' = [value EXCEPT ![p] = written'[p]]
  /\ IF p \in live
       THEN SetState(p, UpdateSubReq(p, State(p), value'[p], link))
       ELSE UNCHANGED <<sub, store, file, wire>>
  /\ UNCHANGED <<link, live, sids, freed, acked, ackUpTo>>

\* The broker answers every subscribe and unsubscribe with a closed response.
Answered(p) == [r |-> sub[p], w |-> Append(wire, ClosedResponse), d |-> store[p],
                f |-> file[p]]

\* handle_subscribe, the sid already names this path: update the qos only
SubscribeSame(p, s, q) ==
  /\ CanRequest /\ p \in live /\ sids[s] = p
  /\ SetState(p, UpdateSubQos(Answered(p), q))
  /\ UNCHANGED <<link, live, sids, freed, value, written, acked, ackUpTo>>

\* handle_subscribe, the path is subscribed under another sid: the other
\* subscription behind the new sid is freed, then this one gets the sid.
Resubscribe(p, s, q) ==
  LET o  == sids[s]
      st == UpdateSubQos(With(Answered(p), [sub[p] EXCEPT !.sid = s]), q)
  IN
  /\ CanRequest /\ p \in live /\ o # p /\ (q < 2 => Room(p))
  /\ live' = live \ {o}
  /\ sids' = SidsMoved(p, s)
  /\ freed' = FreedWith(o)
  /\ FreeAndSet(o, p,
       CASE Len(st.r.qosQueue) > 0 -> FlushQosQueue(p, st)
         [] Len(st.r.qosQueue) = 0 /\ q = 2 -> SendQueued(p, st, TRUE)
         [] Len(st.r.qosQueue) = 0 /\ q # 2 /\ value[p] > 0 ->
              UpdateSubReq(p, st, value[p], TRUE)
         [] OTHER -> st)
  /\ UNCHANGED <<link, value, written, acked, ackUpTo>>

\* broker_add_new_subscription and broker_handle_local_subscribe for a
\* subscription just created: it is handed the value of the node, if any
AddNew(p, st, v, up) == IF v > 0 THEN UpdateSubReq(p, st, v, up) ELSE st

\* handle_subscribe, a new subscription. block is {} or the old pendingAcks
\* of the freed memory the new SubRequester happens to get.
SubscribeNew(p, s, q, block) ==
  LET o  == sids[s]
      ok == With(Answered(p), Create(s, q, <<>>, block))
  IN
  /\ CanRequest /\ p \notin live
  /\ block \in FreedWith(o) \cup {{}}
  /\ live' = (live \ {o}) \cup {p}
  /\ sids' = [SidsWithout(o) EXCEPT ![s] = p]
  /\ freed' = FreedWith(o) \ {block}
  /\ FreeAndSet(o, p, AddNew(p, IF q > 2 THEN Serialize(ok) ELSE ok, value[p], TRUE))
  /\ UNCHANGED <<link, value, written, acked, ackUpTo>>

Subscribe(p, s, q) ==
  \/ SubscribeSame(p, s, q)
  \/ Resubscribe(p, s, q)
  \/ \E block \in FreedWith(sids[s]) \cup {{}} : SubscribeNew(p, s, q, block)

\* handle_unsubscribe
Unsubscribe(s) ==
  LET o == sids[s] IN
  /\ CanRequest
  /\ live' = live \ {o}
  /\ sids' = [SidsWithout(o) EXCEPT ![s] = NoPath]
  /\ freed' = FreedWith(o)
  /\ sub' = [x \in Paths |-> IF x = o THEN Blank ELSE sub[x]]
  /\ store' = [x \in Paths |-> IF x = o THEN RecordAfterFree(x) ELSE store[x]]
  /\ file' = [x \in Paths |-> IF x = o THEN FileAfterFree(x) ELSE file[x]]
  /\ wire' = Append(wire, ClosedResponse)
  /\ UNCHANGED <<link, value, written, acked, ackUpTo>>

\* The pendingAcks entries a cumulative ack of n covers.
Covered(n) == {id \in UNION ({sub[p].pend : p \in Paths} \cup freed) : id <= n}

\* Values of p in the messages i..j of the session log w.
ValuesSent(w, p, i, j) ==
  UNION {{w[m].vals[x] : x \in DOMAIN w[m].vals} : m \in {l \in i..j : w[l].path = p}}

\* The broker receives an ack: the start of check_subscription_ack.
Ack(n) ==
  /\ link /\ Idle
  /\ n \in acked + 1 .. Len(wire)
  /\ CumulativeAcks \/ n = acked + 1
  /\ acked' = n
  /\ sub' = [p \in Paths |->
               IF p \in live THEN [sub[p] EXCEPT !.got = @ \cup ValuesSent(wire, p, acked + 1, n)]
               ELSE sub[p]]
  /\ ackUpTo' = IF Covered(n) = {} THEN 0 ELSE n
  /\ UNCHANGED <<link, live, sids, freed, store, file, value, written, wire>>

\* One iteration of check_subscription_ack, from the last covered entry to the
\* first. An entry of a freed block touches no live subscription.
AckStep ==
  LET id == Max(Covered(ackUpTo)) IN
  /\ ackUpTo # 0
  /\ \/ \E p \in Paths :
          /\ id \in sub[p].pend
          /\ SetState(p, AckOne(p, State(p), id))
          /\ UNCHANGED freed
     \/ \E block \in freed :
          /\ id \in block
          /\ freed' = (freed \ {block}) \cup ({block \ {id}} \ {{}})
          /\ UNCHANGED <<sub, store, file, wire>>
  /\ ackUpTo' = IF Covered(ackUpTo) = {id} THEN 0 ELSE ackUpTo
  /\ UNCHANGED <<link, live, sids, value, written, acked>>

\* broker_dslink_connect, as far as a requester is concerned
Connect ==
  /\ ~link /\ link' = TRUE
  /\ UNCHANGED <<live, sids, sub, freed, store, file, value, written, wire, acked, ackUpTo>>

\* broker_close_link and broker_remote_dslink_free: subscriptions below qos 2
\* are freed, the others wait for the requester to connect again.
Disconnect ==
  /\ link /\ Idle /\ link' = FALSE
  /\ live' = {p \in live : sub[p].qos >= 2}
  /\ sub' = [p \in Paths |->
               IF p \in live' THEN [ClearMessageIds(sub[p]) EXCEPT !.sid = Unset, !.pend = {}]
               ELSE Blank]
  /\ sids' = [s \in Sids |-> NoPath]
  /\ freed' = {}
  /\ wire' = <<>> /\ acked' = 0
  /\ UNCHANGED <<store, file, value, written, ackUpTo>>

\* The last operation of the saves of p ends. After a delete the file may be one
\* that a save under way made again.
SaveEnds(p) ==
  /\ Idle /\ ~Settled(file[p])
  /\ \E f \in IF store[p] = NoRecord THEN file[p] ELSE {store[p]} \cup ({Torn} \cap file[p]) :
       file' = [file EXCEPT ![p] = {f}]
  /\ UNCHANGED <<link, live, sids, sub, freed, store, value, written, wire, acked, ackUpTo>>

\* The broker stops at any moment and starts again: broker_load_qos_storage
\* makes a subscription with sid 0 of every record in the files that parse, and
\* the nodes have the values v that were saved in data.json.
Restart(v, found) ==
  LET loaded == {p \in Paths : found[p] \notin {NoRecord, Torn}}
      st(p) == AddNew(p, [r |-> Create(0, 3, found[p], {}), w |-> <<>>, d |-> found[p],
                          f |-> {found[p]}],
                      v[p], FALSE)
  IN
  /\ Idle
  /\ link' = FALSE
  /\ value' = v
  /\ live' = loaded
  /\ sub' = [p \in Paths |-> IF p \in loaded THEN st(p).r ELSE Blank]
  /\ store' = [p \in Paths |-> IF p \in loaded THEN st(p).d ELSE NoRecord]
  /\ file' = [p \in Paths |-> IF p \in loaded THEN st(p).f ELSE {found[p]}]
  /\ sids' \in {[s \in Sids |-> IF s = 0 THEN last ELSE NoPath] :
                  last \in IF loaded = {} THEN {NoPath} ELSE loaded}
  /\ freed' = {}
  /\ wire' = <<>> /\ acked' = 0
  /\ UNCHANGED <<written, ackUpTo>>

SavedValues == {v \in [Paths -> 0..MaxValue] : \A p \in Paths : v[p] <= value[p]}
FoundFiles  == {found \in [Paths -> UNION {file[p] : p \in Paths}] :
                  \A p \in Paths : found[p] \in file[p]}
Restarts == \E v \in SavedValues, found \in FoundFiles : Restart(v, found)

Next ==
  \/ \E p \in Paths : Publish(p)
  \/ \E p \in Paths, s \in Sids, q \in QosLevels : Subscribe(p, s, q)
  \/ \E s \in Sids : Unsubscribe(s)
  \/ \E n \in 1..Len(wire) : Ack(n)
  \/ AckStep
  \/ Connect
  \/ Disconnect
  \/ \E p \in Paths : SaveEnds(p)
  \/ Restarts

Spec == Init /\ [][Next]_vars

\* A handler runs to its end, and a client acknowledges what it receives
\* (sdk/src/ws.c: every message with requests or responses is answered by an ack).
Fairness == WF_vars(AckStep) /\ WF_vars(\E n \in 1..Len(wire) : Ack(n))

FairSpec == Spec /\ Fairness

-----------------------------------------------------------------------------
(***************************************************************************)
(* Properties.                                                             *)
(***************************************************************************)
Elements(seq) == {seq[i] : i \in DOMAIN seq}
QueuedValues(p) == {sub[p].queue[i].val : i \in DOMAIN sub[p].queue}

\* The type of every variable; a path that is not subscribed keeps nothing.
TypeOK ==
  /\ link \in BOOLEAN
  /\ live \subseteq Paths
  /\ sids \in [Sids -> Paths \cup {NoPath}]
  /\ sub \in [Paths -> SubRequester]
  /\ \A p \in Paths \ live : sub[p] = Blank
  /\ freed \subseteq SUBSET Nat
  /\ store \in [Paths -> Seq(Nat) \cup {NoRecord}]
  /\ file \in [Paths -> Files]
  /\ value \in [Paths -> Nat]
  /\ written \in [Paths -> Nat]
  /\ wire \in Seq(Message)
  /\ acked \in Nat
  /\ ackUpTo \in Nat

\* messageOutputQueueCount is the number of the subscription's entries in
\* pendingAcks, so --messageOutputQueueCount (subscription.c:75) never wraps,
\* whatever the acks, overflows, resubscriptions and reconnections were. It
\* needs every PendingAck of a freed subscription to be erased.
AckAccounting ==
  \A p \in live : /\ IsFiniteSet(sub[p].pend)
                  /\ sub[p].out = Cardinality(sub[p].pend)

\* A sid names a live subscription that knows it by that sid: no entry of
\* req_sub_sids is left pointing at a freed SubRequester.
SidTable ==
  \A s \in Sids : sids[s] # NoPath => sids[s] \in live /\ sub[sids[s]].sid = s

\* The message queue of a qos 0-2 subscription is a part in flight, whose ids
\* are the pending acks in order, and a part not sent, and nothing waits unsent
\* while the window of a bound subscription is open. While the requester is away
\* none is in flight: no queued message carries an id of the old session, which
\* would keep it from being sent again. Holds between handlers where acks are
\* not cumulative and the ring never overflows.
QueueShape ==
  ackUpTo = 0 =>
  \A p \in live :
    LET r == sub[p] IN
    /\ r.out <= Len(r.queue)
    /\ \A i \in 1..Len(r.queue) : r.queue[i].id > 0 <=> i <= r.out
    /\ \A i, j \in 1..r.out : i < j => r.queue[i].id < r.queue[j].id
    /\ r.pend = {r.queue[i].id : i \in 1..r.out}
    /\ link /\ r.sid # Unset => r.out = SendWindow \/ r.out = Len(r.queue)
    /\ ~link => r.out = 0

\* Values of one path reach the client in the order they were written: "to
\* keep message order in all cases" (subscription.c:330).
InOrder ==
  \A i, j \in DOMAIN wire :
    i < j /\ wire[i].path = wire[j].path =>
      \A a \in DOMAIN wire[i].vals, b \in DOMAIN wire[j].vals :
        wire[i].vals[a] <= wire[j].vals[b]

\* Every value handed to a live subscription of qos 0-2 was acknowledged by
\* the client in some session or is still queued, across resubscription,
\* disconnection and reconnection.
NothingLost ==
  \A p \in live : sub[p].owed \subseteq sub[p].got \cup QueuedValues(p)

\* Every update goes out under a sid that names its path at that moment.
Addressed ==
  [][\A m \in DOMAIN wire' \ DOMAIN wire :
       wire'[m].path # NoPath =>
         wire'[m].sid \in Sids /\ sids'[wire'[m].sid] = wire'[m].path]_vars

\* The stored record of a live qos 3 subscription is its qosQueue, and a
\* record that belongs to no live qos 3 subscription holds no value.
StoreMirrors ==
  \A p \in Paths :
    IF p \in live /\ sub[p].qos = 3
      THEN store[p] = sub[p].qosQueue
      ELSE store[p] \in {NoRecord, <<>>}

\* The file holds what is stored, and no save of it is under way.
OnDisk(p) == sub[p].qos = 3 /\ file[p] = {store[p]}

\* A value kept for an absent qos 3 requester leaves the qosQueue of its
\* subscription only in a message to the requester, when the full queue is
\* destroyed (subscription.c:345), or with the subscription. A restart at any
\* moment keeps the subscription and its values, unless a save of the record is
\* under way or overlapping saves left a file that does not parse.
KeptUntilSent ==
  [][\A p \in live : \A v \in Elements(sub[p].qosQueue) :
       \/ p \in live' /\ v \in Elements(sub'[p].qosQueue)
       \/ v \in ValuesSent(wire', p, Len(wire) + 1, Len(wire'))
       \/ Len(sub[p].qosQueue) >= QueueSize
       \/ p \notin live' /\ ~Restarts
       \/ Restarts /\ ~OnDisk(p)]_vars

\* What is queued for a bound qos 0-2 subscription gets acknowledged, unless
\* the connection ends, the subscription ends, or new values keep coming.
QueueDrains ==
  \A p \in Paths :
    (link /\ p \in live /\ sub[p].sid # Unset /\ sub[p].queue # <<>>)
      ~> (~link \/ p \notin live \/ sub[p].queue = <<>>)
=============================================================================
