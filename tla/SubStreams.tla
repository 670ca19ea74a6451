----------------------------- MODULE SubStreams -----------------------------
(***************************************************************************)
(* The responder's side of subscriptions. Requesters subscribe to paths of *)
(* one responder dslink; for every path with a subscriber the broker keeps *)
(* ONE BrokerSubStream, which subscribes at the responder under a sid of   *)
(* the broker's choice and at the highest qos any requester asked for.     *)
(* Subscriptions to a responder the broker does not know wait in           *)
(* remote_pending_sub.                                                     *)
(*                                                                         *)
(* The responder is a dslink of this SDK (sdk/src/msg/sub_response.c). The *)
(* two ends of its connection exchange messages over FIFO channels that    *)
(* are lost with the connection. What becomes of a value between the sub   *)
(* stream and a requester is the subject of SubDelivery; here a            *)
(* subscription only remembers the last value it was handed (got).         *)
(***************************************************************************)
EXTENDS Integers, Sequences, SequencesExt, FiniteSets, FiniteSetsExt

CONSTANTS
  Reqs,       \* requester dslinks
  Paths,      \* value nodes of the responder
  NoSub, NoStream, NoSid, NoValue,
  Qos,        \* qos values that requesters ask for (what qos 3 adds is in SubDelivery)
  MaxSid,     \* bound: sids the broker hands out
  MaxCount,   \* bound: values the responder publishes
  MaxQueue    \* bound: messages under way in one direction when a handler starts

ASSUME QosInMemory == Qos \subseteq 0..2 /\ Qos # {}
ASSUME NoSidIsNone == NoSid \notin Nat
ASSUME StreamConstants == IsFiniteSet(Reqs) /\ IsFiniteSet(Paths)
ASSUME StreamBounds == MaxSid \in Nat /\ MaxCount \in Nat /\ MaxQueue \in Nat

VARIABLES
  known,      \* the responder has a DownstreamNode
  up,         \* the broker's end: node->link of the responder # NULL
  rup,        \* the requesters that are connected
  sub,        \* the SubRequester of a requester and a path
  stream,     \* resp_sub_streams (and resp_sub_sids): the BrokerSubStream of a path
  pending,    \* remote_pending_sub of the responder: a list of subscriptions
  sid,        \* node->sid, the next sid for the responder
  toResp,     \* requests on their way to the responder
  fromResp,   \* updates on their way to the broker
  pathSub,    \* responder: value_path_subs
  sidSub,     \* responder: value_sid_subs
  val,        \* responder: the value of every node
  count       \* responder: how many values it has published

brokerVars == <<sub, stream, pending, sid, toResp>>
respVars   == <<pathSub, sidSub, val, count>>
vars == <<known, up, rup, brokerVars, fromResp, respVars>>

InvalidQos == 255       \* "a invalid qos value, so the newQos != qos"
Value == Paths \X Nat   \* a value carries the path it was published for
Ask(p, s, q) == [method |-> "subscribe", path |-> p, sid |-> s, qos |-> q]
Drop(s)      == [method |-> "unsubscribe", sid |-> s]

-----------------------------------------------------------------------------
(***************************************************************************)
(* The functions of the broker work on b, the value of brokerVars as a     *)
(* record; isUp is "the responder has a link" at the time of the call.     *)
(***************************************************************************)
B == [sub |-> sub, stream |-> stream, pending |-> pending, sid |-> sid, out |-> toResp]

Becomes(b) == /\ sub' = b.sub /\ stream' = b.stream /\ pending' = b.pending
              /\ sid' = b.sid /\ toResp' = b.out

\* list_remove_node, of the entries in S
Without(s, S) ==
  LET kept[i \in 0..Len(s)] == IF i = 0 THEN <<>>
                               ELSE IF s[i] \in S THEN kept[i - 1] ELSE Append(kept[i - 1], s[i])
  IN kept[Len(s)]

Send(b, isUp, m) == IF isUp THEN [b EXCEPT !.out = Append(@, m)] ELSE b

\* broker_update_stream_qos
UpdateStreamQos(b, isUp, p) ==
  LET s    == b.stream[p]
      top  == Max({b.sub[r][p].qos : r \in s.reqs} \cup {0})
      set  == [b EXCEPT !.stream[p].qos = top]
  IN IF top # s.qos THEN Send(set, isUp, Ask(p, s.sid, top)) ELSE set

\* broker_update_sub_req, as far as the stream is concerned: v was handed over
Hand(b, r, p, v) ==
  IF v = NoValue THEN b ELSE [b EXCEPT !.sub[r][p].got = v]

\* Mutant: the sid counter is not advanced.
NewStreamSameSid(b, p) ==
  [b EXCEPT !.stream[p] = [sid |-> b.sid, qos |-> InvalidQos, reqs |-> {}, last |-> NoValue]]
\* broker_subscribe_remote: a path without a stream gets one
NewStream(b, p) ==
  [b EXCEPT !.stream[p] = [sid |-> b.sid, qos |-> InvalidQos, reqs |-> {}, last |-> NoValue],
            !.sid = @ + 1]

\* Mutant: a requester that joins a stream is not handed its last value.
SubscribeRemoteNoValue(b, isUp, r, p) ==
  LET new == IF b.stream[p] = NoStream THEN NewStream(b, p) ELSE b
  IN UpdateStreamQos([new EXCEPT !.stream[p].reqs = @ \cup {r}], isUp, p)
\* broker_subscribe_remote
SubscribeRemote(b, isUp, r, p) ==
  LET new == IF b.stream[p] = NoStream THEN NewStream(b, p) ELSE b
      in  == UpdateStreamQos([new EXCEPT !.stream[p].reqs = @ \cup {r}], isUp, p)
  IN Hand(in, r, p, in.stream[p].last)

\* broker_stream_free, of a stream that no requester is left in
FreeEmptyStream(b, isUp, p) ==
  [Send(b, isUp, Drop(b.stream[p].sid)) EXCEPT !.stream[p] = NoStream]

\* Mutant: the entry of the pending list stays.
FreeSubStillPending(b, isUp, r, p) ==
  LET out == [b EXCEPT !.sub[r][p] = NoSub]
      off == [out EXCEPT !.stream[p].reqs = @ \ {r}]
  IN IF b.stream[p] = NoStream \/ r \notin b.stream[p].reqs THEN out
     ELSE IF off.stream[p].reqs = {} THEN FreeEmptyStream(off, isUp, p)
     ELSE off
\* broker_free_sub_requester
FreeSub(b, isUp, r, p) ==
  LET out == [b EXCEPT !.sub[r][p] = NoSub,
                       !.pending = Without(@, {<<r, p>>})]
      off == [out EXCEPT !.stream[p].reqs = @ \ {r}]
  IN IF b.stream[p] = NoStream \/ r \notin b.stream[p].reqs THEN out
     ELSE IF off.stream[p].reqs = {} THEN FreeEmptyStream(off, isUp, p)
     ELSE off

-----------------------------------------------------------------------------
Init ==
  /\ known = FALSE /\ up = FALSE /\ rup = {}
  /\ sub = [r \in Reqs |-> [p \in Paths |-> NoSub]]
  /\ stream = [p \in Paths |-> NoStream]
  /\ pending = <<>> /\ sid = 0
  /\ toResp = <<>> /\ fromResp = <<>>
  /\ pathSub = [p \in Paths |-> NoSid] /\ sidSub = {}
  /\ val = [p \in Paths |-> NoValue] /\ count = 0

\* The bounds on what is under way and on the sids.
Room == Len(toResp) < MaxQueue /\ Len(fromResp) < MaxQueue /\ sid < MaxSid

\* The sid in a request of r for p is free (p itself), or names another
\* subscription, which handle_subscribe frees first.
SidHolders(r, p) == {p} \cup {o \in Paths : sub[r][o] # NoSub /\ sub[r][o].bound}
WithoutSid(b, r, p, o) == IF o = p THEN b ELSE FreeSub(b, up, r, o)

\* handle_subscribe of a path r is not subscribed to, and
\* broker_add_new_subscription
SubscribeNew(r, p, q, o) ==
  LET b == [WithoutSid(B, r, p, o) EXCEPT !.sub[r][p] = [qos |-> q, bound |-> TRUE, got |-> NoValue]] IN
  /\ r \in rup /\ Room /\ sub[r][p] = NoSub /\ o \in SidHolders(r, p)
  /\ Becomes(IF known THEN SubscribeRemote(b, up, r, p)
             ELSE [b EXCEPT !.pending = Append(@, <<r, p>>)])
  /\ UNCHANGED <<known, up, rup, fromResp, respVars>>

\* handle_subscribe of a path r is subscribed to: the qos changes, and with a
\* new sid (as after a reconnection) the last value is handed over again
SubscribeAgain(r, p, q, o, newSid) ==
  LET b == [WithoutSid(B, r, p, o) EXCEPT !.sub[r][p] = [@ EXCEPT !.qos = q, !.bound = TRUE]]
      s == stream[p]
      c == IF sub[r][p].qos # q /\ s # NoStream THEN UpdateStreamQos(b, up, p) ELSE b
  IN
  /\ r \in rup /\ Room /\ sub[r][p] # NoSub /\ o \in SidHolders(r, p)
  /\ newSid \/ (sub[r][p].bound /\ o = p)
  /\ Becomes(IF newSid /\ q # 2 /\ s # NoStream THEN Hand(c, r, p, s.last) ELSE c)
  /\ UNCHANGED <<known, up, rup, fromResp, respVars>>

\* handle_unsubscribe
Unsubscribe(r, p) ==
  /\ r \in rup /\ Room /\ sub[r][p] # NoSub /\ sub[r][p].bound
  /\ Becomes(FreeSub(B, up, r, p))
  /\ UNCHANGED <<known, up, rup, fromResp, respVars>>

ReqConnect(r) ==
  /\ r \notin rup /\ rup' = rup \cup {r}
  /\ UNCHANGED <<known, up, brokerVars, fromResp, respVars>>

\* Subscriptions, pairs of a requester and a path, are freed one after the other.
Freed(order) ==
  LET freed[i \in 0..Len(order)] ==
        IF i = 0 THEN B ELSE FreeSub(freed[i - 1], up, order[i][1], order[i][2])
  IN freed[Len(order)]

\* The subscriptions of r have no sid.
Unbound(b, r) ==
  [b EXCEPT !.sub[r] = [p \in Paths |-> IF @[p] = NoSub THEN NoSub ELSE [@[p] EXCEPT !.bound = FALSE]]]

\* broker_remote_dslink_free of a requester: subscriptions below qos 2 go, in the
\* order of their map; the others have no sid until they are asked for again
ReqDisconnect(r) ==
  LET gone == {e \in {r} \X Paths : sub[r][e[2]] # NoSub /\ sub[r][e[2]].qos <= 1} IN
  /\ r \in rup /\ rup' = rup \ {r}
  /\ \E order \in SetToSeqs(gone) : Becomes(Unbound(Freed(order), r))
  /\ UNCHANGED <<known, up, fromResp, respVars>>

-----------------------------------------------------------------------------
\* Whoever waits is subscribed, in the order of the list.
Joined(asked) ==
  LET joined[i \in 0..Len(pending)] ==
        IF i = 0 THEN asked ELSE SubscribeRemote(joined[i - 1], TRUE, pending[i][1], pending[i][2])
  IN joined[Len(pending)]

\* Mutant: only new streams are subscribed when the responder connects.
AsksNone(order) == <<>>
\* The streams are subscribed again.
Asks(order) == [i \in DOMAIN order |-> Ask(order[i], stream[order[i]].sid, stream[order[i]].qos)]

\* broker_dslink_connect: every stream is subscribed again, in the order of their
\* map, then whoever waits is. The responder's tables are new in every session;
\* its nodes may have lost their values with it.
RespConnect(kept) ==
  /\ ~up /\ up' = TRUE /\ known' = TRUE /\ sid + Len(pending) <= MaxSid
  /\ \E order \in SetToSeqs({p \in Paths : stream[p] # NoStream}) :
       Becomes([Joined([B EXCEPT !.out = @ \o Asks(order)]) EXCEPT !.pending = <<>>])
  /\ val' = [p \in Paths |-> IF p \in kept THEN val[p] ELSE NoValue]
  /\ UNCHANGED <<rup, fromResp, pathSub, sidSub, count>>

\* broker_close_link of the responder; what was under way is lost
RespDisconnect ==
  /\ up /\ up' = FALSE
  /\ toResp' = <<>> /\ fromResp' = <<>>
  /\ pathSub' = [p \in Paths |-> NoSid] /\ sidSub' = {}
  /\ UNCHANGED <<known, rup, sub, stream, pending, sid, val, count>>

\* broker_node_free of the responder: its streams go, and who is in them waits.
NodeFreed(b, s) ==
  [b EXCEPT !.stream = [p \in Paths |-> NoStream], !.pending = @ \o s, !.sid = 0]

\* clear_conns deletes the nodes of the dslinks that are absent. The subscriptions
\* that requesters left behind go with theirs; when the responder is one of them,
\* the others wait for it again.
ClearConns ==
  /\ Len(toResp) < MaxQueue
  /\ \E order \in SetToSeqs({e \in (Reqs \ rup) \X Paths : sub[e[1]][e[2]] # NoSub}) :
       LET b    == Freed(order)
           wait == {e \in Reqs \X Paths : b.stream[e[2]] # NoStream /\ e[1] \in b.stream[e[2]].reqs}
       IN \/ /\ known => up
             /\ Becomes(b) /\ UNCHANGED known
          \/ /\ known /\ ~up /\ known' = FALSE
             /\ \E s \in SetToSeqs(wait) : Becomes(NodeFreed(b, s))
  /\ UNCHANGED <<up, rup, fromResp, respVars>>

\* The broker stops at any moment and starts again; conns.json may hold the
\* responder. Nobody is connected, and no subscription survives.
Restart ==
  /\ known' \in BOOLEAN /\ up' = FALSE /\ rup' = {}
  /\ sub' = [r \in Reqs |-> [p \in Paths |-> NoSub]]
  /\ stream' = [p \in Paths |-> NoStream]
  /\ pending' = <<>> /\ sid' = 0
  /\ toResp' = <<>> /\ fromResp' = <<>>
  /\ pathSub' = [p \in Paths |-> NoSid] /\ sidSub' = {}
  /\ UNCHANGED <<val, count>>

\* Mutant: the stream keeps the first value it saw.
TakenFirst(s, v) == IF s.last = NoValue THEN [s EXCEPT !.last = v] ELSE s
\* broker_update_sub_stream_value
Taken(s, v) == [s EXCEPT !.last = v]

\* broker_handle_resp, rid 0: an update for a sid nobody knows is dropped
Update ==
  LET u  == Head(fromResp)
      to == {p \in Paths : stream[p] # NoStream /\ stream[p].sid = u.sid}
  IN
  /\ fromResp # <<>> /\ fromResp' = Tail(fromResp)
  /\ stream' = [p \in Paths |-> IF p \in to THEN Taken(stream[p], u.val) ELSE stream[p]]
  /\ sub' = [r \in Reqs |-> [p \in Paths |->
                IF p \in to /\ r \in stream[p].reqs THEN [sub[r][p] EXCEPT !.got = u.val] ELSE sub[r][p]]]
  /\ UNCHANGED <<known, up, rup, pending, sid, toResp, respVars>>

-----------------------------------------------------------------------------
\* dslink_response_send_val: a node without a value sends nothing
SendVal(p, s, v) ==
  fromResp' = IF v = NoValue \/ s = NoSid THEN fromResp
              ELSE Append(fromResp, [sid |-> s, val |-> v])

\* dslink_node_update_value of a node of the responder, connected or not
Publish(p) ==
  /\ count < MaxCount /\ Len(fromResp) < MaxQueue
  /\ count' = count + 1
  /\ val' = [val EXCEPT ![p] = <<p, count'>>]
  /\ SendVal(p, pathSub[p], val'[p])
  /\ UNCHANGED <<known, up, rup, brokerVars, pathSub, sidSub>>

\* dslink_response_sub
RespSubscribe ==
  LET m == Head(toResp) IN
  /\ toResp # <<>> /\ m.method = "subscribe" /\ toResp' = Tail(toResp)
  /\ pathSub' = [pathSub EXCEPT ![m.path] = m.sid]
  /\ sidSub' = {e \in sidSub : e[1] # m.sid} \cup {<<m.sid, m.path>>}
  /\ SendVal(m.path, m.sid, val[m.path])
  /\ UNCHANGED <<known, up, rup, sub, stream, pending, sid, val, count>>

\* dslink_response_unsub
RespUnsubscribe ==
  LET m    == Head(toResp)
      gone == {e \in sidSub : e[1] = m.sid}
  IN
  /\ toResp # <<>> /\ m.method = "unsubscribe" /\ toResp' = Tail(toResp)
  /\ sidSub' = sidSub \ gone
  /\ pathSub' = [p \in Paths |-> IF <<m.sid, p>> \in gone THEN NoSid ELSE pathSub[p]]
  /\ UNCHANGED <<known, up, rup, sub, stream, pending, sid, val, count, fromResp>>

Next ==
  \/ \E r \in Reqs, p \in Paths, q \in Qos, o \in Paths :
       \/ SubscribeNew(r, p, q, o)
       \/ \E newSid \in BOOLEAN : SubscribeAgain(r, p, q, o, newSid)
  \/ \E r \in Reqs, p \in Paths : Unsubscribe(r, p)
  \/ \E r \in Reqs : ReqConnect(r) \/ ReqDisconnect(r)
  \/ \E kept \in SUBSET Paths : RespConnect(kept)
  \/ RespDisconnect
  \/ ClearConns
  \/ Restart
  \/ Update
  \/ \E p \in Paths : Publish(p)
  \/ RespSubscribe
  \/ RespUnsubscribe

Spec == Init /\ [][Next]_vars
-----------------------------------------------------------------------------
(***************************************************************************)
(* Properties.                                                             *)
(***************************************************************************)
SubRequester == [qos : 0..2, bound : BOOLEAN, got : Value \cup {NoValue}]
Stream == [sid : Nat, qos : 0..2, reqs : (SUBSET Reqs) \ {{}}, last : Value \cup {NoValue}]

\* The type of every variable. A stream in the table has a requester and a
\* valid qos.
TypeOK ==
  /\ known \in BOOLEAN /\ up \in BOOLEAN /\ rup \subseteq Reqs
  /\ sub \in [Reqs -> [Paths -> SubRequester \cup {NoSub}]]
  /\ stream \in [Paths -> Stream \cup {NoStream}]
  /\ pending \in Seq(Reqs \X Paths) /\ sid \in Nat
  /\ pathSub \in [Paths -> Nat \cup {NoSid}] /\ sidSub \subseteq Nat \X Paths
  /\ val \in [Paths -> Value \cup {NoValue}] /\ count \in Nat

\* Every subscription is in exactly one place: in the one stream of its path,
\* or once in the pending list, which is used only while the responder has no
\* node. Neither place holds a subscription that is gone.
InOnePlace ==
  \A r \in Reqs, p \in Paths :
    LET places == Cardinality({i \in DOMAIN pending : pending[i] = <<r, p>>})
                  + (IF stream[p] # NoStream /\ r \in stream[p].reqs THEN 1 ELSE 0)
    IN /\ places = IF sub[r][p] = NoSub THEN 0 ELSE 1
       /\ known => <<r, p>> \notin Range(pending)

ASSUME NoneApart == NoSub \notin SubRequester /\ NoStream \notin Stream /\ NoValue \notin Value

\* The responder uses s for p, or is asked to by the i-th message under way.
Uses(p, s, i) ==
  IF i = 0 THEN pathSub[p] = s
  ELSE toResp[i].method = "subscribe" /\ toResp[i].path = p /\ toResp[i].sid = s
\* The i-th message ends this.
Ends(p, s, i) ==
  IF toResp[i].method = "subscribe" THEN toResp[i].path = p /\ toResp[i].sid # s ELSE toResp[i].sid = s
\* The responder uses s for p once it has handled what is under way.
WillUse(p, s) ==
  \E i \in 0..Len(toResp) : Uses(p, s, i) /\ \A j \in i + 1..Len(toResp) : ~Ends(p, s, j)

\* While the responder is connected it is subscribed, once it has handled what
\* is under way, under exactly the sids of the streams: none missing after a
\* reconnection, none left over after an unsubscribe. Its two tables mirror each
\* other (sub_response.c keeps a path by sid and a sid by path). And a stream
\* serves each of its requesters at least at the qos it asked for.
ResponderInStep ==
  /\ \A p \in Paths : pathSub[p] # NoSid => <<pathSub[p], p>> \in sidSub
  /\ \A e \in sidSub : pathSub[e[2]] = e[1]
  /\ up => \A p \in Paths, s \in 0..sid : WillUse(p, s) <=> stream[p] # NoStream /\ stream[p].sid = s
  /\ \A p \in Paths : stream[p] # NoStream =>
       \A r \in stream[p].reqs : stream[p].qos >= sub[r][p].qos

\* Whatever sids were handed out and used again, a subscription only ever
\* holds a value of its own path.
RightPath ==
  \A r \in Reqs, p \in Paths :
    sub[r][p] # NoSub /\ sub[r][p].got # NoValue => sub[r][p].got[1] = p

\* When nothing is under way, every requester of a stream was handed the
\* responder's present value, however the subscription came about.
QuietIsCurrent ==
  up /\ toResp = <<>> /\ fromResp = <<>> =>
    \A p \in Paths : stream[p] # NoStream /\ val[p] # NoValue =>
      \A r \in stream[p].reqs : sub[r][p].got = val[p]

\* A subscription that lives on is never handed an older value than before.
NeverBack ==
  [][\A r \in Reqs, p \in Paths :
       (sub[r][p] # NoSub /\ sub'[r][p] # NoSub /\ sub[r][p].got # NoValue)
         => sub'[r][p].got # NoValue /\ sub'[r][p].got[2] >= sub[r][p].got[2]]_vars
=============================================================================
